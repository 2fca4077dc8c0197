----------------------------- MODULE Cartridge -----------------------------
(* The cartridge's save RAM, its clock and its save file (src/mbc.c), over the
   registers of Mbc.tla, from one session of the program to the next
   (StartEmulation and StopEmulation in src/system6/emulator.c).

   The clock is not ticked: its registers are computed from the Macintosh
   clock and a reference (base_secs, base) when they are latched or saved, so
   time passes for it while the program is not running.  A save truncates the
   file and writes the RAM, then the clock; the machine may stop, and the disk
   may fill up, at any point of it. *)
EXTENDS Mbc, Sequences

CONSTANTS
    Kinds,      \* the controllers, 1, 2, 3 or 5; those of kind 3 with or without a clock
    Bytes,      \* what the program stores in the save RAM
    RtcBytes,   \* what it stores in clock registers
    Spans,      \* the seconds that may pass at once
    MaxTime,    \* bound: seconds the Macintosh clock runs
    Shorts      \* bound: how many banks may reach the file when a save fails

ASSUME KindsAssumption == Kinds \subseteq {1, 2, 3, 5}
ASSUME BytesAssumption == Bytes \subseteq 0 .. 255 /\ RtcBytes \subseteq 0 .. 255
ASSUME TimeAssumption  == MaxTime \in Nat /\ Spans \subseteq 1 .. MaxTime

Day == 86400
Cycle == 512 * Day          \* the day counter has nine bits
RamBanks == 0 .. 3
RamSize == 4                \* RAM_SIZE, in banks
WithRtc == 5                \* RAM_SIZE + RTC_SAVE_SIZE

ASSUME ShortAssumption == Shorts \subseteq RamBanks

NoRegs == <<0, 0, 0, 0, 0>>
Cleared == [b \in RamBanks |-> 0]
NoFile == [size |-> 0, ram |-> Cleared, rtc |-> NoRegs, stamp |-> 0, halted |-> FALSE]

VARIABLES
    on,         \* a game is being emulated
    mbc,        \* the cartridge's registers and RAM window
    has_rtc,    \* it has a clock
    ram,        \* the save RAM, one byte of each bank
    rtc,        \* [regs, latched, base_secs, base, halted]
    file,       \* the save file, of which size parts have been written
    saving,     \* how far a save has come: "no", "opened" or "ram"
    quitting,   \* the save in progress is StopEmulation's
    now,        \* the Macintosh clock
    clock,      \* what an uninterrupted cartridge clock would show
    ticking,    \* and whether it runs
    ramDirty,   \* the RAM has changed since the last complete save
    rtcDirty    \* the program has set the clock since then

vars == <<on, mbc, has_rtc, ram, rtc, file, saving, quitting, now, clock, ticking, ramDirty, rtcDirty>>
ghosts == <<clock, ticking, ramDirty, rtcDirty>>
session == <<on, mbc, has_rtc>>

-----------------------------------------------------------------------------
(* The clock.  regs holds seconds, minutes, hours, the low eight bits of the
   day, and the high bit of the day, halt and carry. *)

Bit0(byte) == byte % 2
Bit6(byte) == (byte \div 64) % 2

Seconds(regs) ==
    (256 * Bit0(regs[5]) + regs[4]) * Day + regs[3] * 3600 + regs[2] * 60 + regs[1]

\* mbc_new
NewRtc(time) ==
    [regs |-> NoRegs, latched |-> NoRegs, base_secs |-> time, base |-> 0, halted |-> FALSE]

mbc3_reset_rtc_reference(r, time) ==
    [r EXCEPT !.base_secs = time, !.base = Seconds(r.regs), !.halted = Bit6(r.regs[5]) = 1]

RegsAt(total, dh) ==
    LET days == total \div Day
    IN  << total % 60, (total \div 60) % 60, (total \div 3600) % 24, days % 256,
           64 * Bit6(dh) + Bit0(days \div 256) + (IF days > 511 THEN 128 ELSE 0) >>

mbc3_update_rtc(r, time) ==
    IF r.halted THEN r
    ELSE [r EXCEPT !.regs = RegsAt(r.base + (time - r.base_secs), r.regs[5])]

mbc3_latch_rtc(r, time) ==
    LET updated == IF has_rtc THEN mbc3_update_rtc(r, time) ELSE r
    IN  [updated EXCEPT !.latched = updated.regs]

\* The bits of each register that can be written.
Stored(select, data) ==
    CASE select \in {8, 9} -> data % 64
      [] select = 10 -> data % 32
      [] select = 11 -> data
      [] select = 12 -> (data \div 64) * 64 + Bit0(data)

\* What the clock would show now, carry and halt aside.
Shown(r, time) == Seconds(mbc3_update_rtc(r, time).regs) % Cycle

-----------------------------------------------------------------------------
(* The window at $a000-$bfff. *)

\* dmg_read of an address in it: the mapped page, else mbc_ram_read, else $ff.
WindowRead ==
    CASE mbc.ram # NoRam -> ram[mbc.ram]
      [] mbc.ram = NoRam /\ mbc.ram_enabled /\ mbc.kind = 2 -> 240 + (ram[0] % 16)
      [] mbc.ram = NoRam /\ mbc.ram_enabled /\ mbc.kind = 3 /\ mbc.rtc_select # NoRtc ->
            rtc.latched[mbc.rtc_select - 7]
      [] OTHER -> 255

\* dmg_write into a mapped page.
StoreMapped(data) ==
    /\ mbc.ram # NoRam
    /\ ram' = [ram EXCEPT ![mbc.ram] = data]
    /\ ramDirty' = TRUE
    /\ UNCHANGED <<rtc, clock, ticking, rtcDirty>>

\* mbc_ram_write: the four-bit RAM of MBC2 ...
StoreNibble(data) ==
    /\ mbc.ram = NoRam /\ mbc.ram_enabled /\ mbc.kind = 2
    /\ ram' = [ram EXCEPT ![0] = data % 16]
    /\ ramDirty' = TRUE
    /\ UNCHANGED <<rtc, clock, ticking, rtcDirty>>

\* ... and the clock, which starts anew from all its registers as they were
\* last computed.
StoreRtc(data) ==
    LET select  == mbc.rtc_select
        written == [rtc EXCEPT !.regs[select - 7] = Stored(select, data)]
    IN  /\ mbc.ram = NoRam /\ mbc.ram_enabled /\ mbc.kind = 3 /\ select # NoRtc
        /\ rtc' = mbc3_reset_rtc_reference(written, now)
        /\ clock' = Shown(rtc', now)
        /\ ticking' = ~rtc'.halted
        /\ rtcDirty' = TRUE
        /\ UNCHANGED <<ram, ramDirty>>

Running == on /\ saving = "no"

WriteWindow(data) ==
    /\ Running
    /\ \/ data \in Bytes /\ (StoreMapped(data) \/ StoreNibble(data))
       \/ data \in RtcBytes /\ StoreRtc(data)
    /\ UNCHANGED <<session, file, saving, quitting, now>>

\* A write of $0000-$7fff that concerns the window or the clock.  The save RAM
\* has four banks, and games with MBC5 are taken to select no other.
WriteRegister(addr, data) ==
    /\ Running
    /\ mbc.kind = 5 /\ addr = 16384 => data % 16 \in RamBanks
    /\ mbc' = mbc_write(mbc, addr, data)
    /\ rtc' = IF Latches(mbc, addr, data) THEN mbc3_latch_rtc(rtc, now) ELSE rtc
    /\ UNCHANGED <<on, has_rtc, ram, file, saving, quitting, now, ghosts>>

-----------------------------------------------------------------------------
(* Saving. *)

\* mbc_save_ram, called by the menu command and by StopEmulation; fopen "w"
\* leaves an empty file.
OpenSave(quit) ==
    /\ Running
    /\ file' = NoFile
    /\ saving' = "opened"
    /\ quitting' = quit
    /\ ramDirty' = TRUE
    /\ UNCHANGED <<session, ram, rtc, now, clock, ticking, rtcDirty>>

\* The session ends; nothing of it is read again but the file.
Ends ==
    /\ on' = FALSE
    /\ mbc' = mbc_new(mbc.kind)
    /\ rtc' = NewRtc(0)

\* mbc_save_ram returns: the program goes on, with this clock, or has quit.
Returns(r) ==
    /\ saving' = "no"
    /\ quitting' = FALSE
    /\ IF quitting THEN Ends ELSE rtc' = r /\ UNCHANGED <<on, mbc>>
    /\ UNCHANGED <<has_rtc, ram, now>>

Completes ==
    /\ ramDirty' = FALSE
    /\ rtcDirty' = FALSE
    /\ UNCHANGED <<clock, ticking>>

WriteRam ==
    /\ saving = "opened"
    /\ file' = [file EXCEPT !.size = RamSize, !.ram = ram]
    /\ IF has_rtc
       THEN saving' = "ram" /\ UNCHANGED <<session, ram, rtc, quitting, now, ghosts>>
       ELSE Returns(rtc) /\ Completes

WriteRtc ==
    /\ saving = "ram"
    /\ LET updated == mbc3_update_rtc(rtc, now)
       IN  /\ file' = [file EXCEPT !.size = WithRtc, !.rtc = updated.regs, !.stamp = now,
                                   !.halted = updated.halted]
           /\ Returns(updated)
    /\ Completes

\* The file when only the first banks of the RAM have been written.
Short(n) ==
    [NoFile EXCEPT !.size = n, !.ram = [b \in RamBanks |-> IF b < n THEN ram[b] ELSE 0]]

\* fwrite fails for want of room: what was written stays.
SaveFails ==
    /\ \/ saving = "opened" /\ (\E n \in Shorts : file' = Short(n)) /\ Returns(rtc)
       \/ saving = "ram" /\ file' = file /\ Returns(mbc3_update_rtc(rtc, now))
    /\ UNCHANGED ghosts

\* StopEmulation when fopen fails.
OpenFails ==
    /\ Running
    /\ Ends
    /\ UNCHANGED <<has_rtc, ram, file, saving, quitting, now, ghosts>>

\* The Macintosh stops, in the middle of a save or not; the RAM may not have
\* left the buffer of the file yet.
Crash ==
    /\ on
    /\ Ends
    /\ file' \in IF saving = "no" THEN {file} ELSE {file} \cup {Short(n) : n \in Shorts}
    /\ saving' = "no"
    /\ quitting' = FALSE
    /\ UNCHANGED <<has_rtc, ram, now, ghosts>>

-----------------------------------------------------------------------------
(* Starting. *)

\* mbc_load_ram reads what there is into the cleared RAM ...
LoadedRam(f) == [b \in RamBanks |-> IF b < f.size THEN f.ram[b] ELSE 0]

\* Seeded error: a file without a clock is refused.
Loads_NeedsRtc(f) == f.size = WithRtc

\* ... and returns whether that was all of it.
Loads(f) == f.size >= RamSize

\* Seeded error: the time since the save is forgotten.
LoadedRtc_FromNow(f, time) ==
    IF ~has_rtc \/ ~Loads(f) \/ f.size < WithRtc THEN NewRtc(time)
    ELSE [regs |-> f.rtc, latched |-> NoRegs, base_secs |-> time,
          base |-> Seconds(f.rtc), halted |-> f.halted]

\* The clock starts from the time of the save, so that the time since is
\* added; without a whole save it starts from zero.
LoadedRtc(f, time) ==
    IF ~has_rtc \/ ~Loads(f) \/ f.size < WithRtc THEN NewRtc(time)
    ELSE [regs |-> f.rtc, latched |-> NoRegs, base_secs |-> f.stamp,
          base |-> Seconds(f.rtc), halted |-> f.halted]

\* LoadRom and StartEmulation.
StartEmulation ==
    /\ ~on
    /\ on' = TRUE
    /\ mbc' = mbc_new(mbc.kind)
    /\ ram' = LoadedRam(file)
    /\ rtc' = LoadedRtc(file, now)
    /\ clock' = IF rtcDirty \/ file.size < WithRtc THEN Shown(rtc', now) ELSE clock
    /\ ticking' = ~rtc'.halted
    /\ ramDirty' = ~Loads(file)
    /\ rtcDirty' = FALSE
    /\ UNCHANGED <<has_rtc, file, saving, quitting, now>>

TimePasses(span) ==
    /\ now + span <= MaxTime
    /\ now' = now + span
    /\ clock' = IF ticking THEN (clock + span) % Cycle ELSE clock
    /\ UNCHANGED <<session, ram, rtc, file, saving, quitting, ticking, ramDirty, rtcDirty>>

-----------------------------------------------------------------------------
Init ==
    /\ on = FALSE
    /\ \E kind \in Kinds : mbc = mbc_new(kind)
    /\ has_rtc \in IF mbc.kind = 3 THEN BOOLEAN ELSE {FALSE}
    /\ ram = Cleared
    /\ rtc = NewRtc(0)
    /\ file = NoFile
    /\ saving = "no"
    /\ quitting = FALSE
    /\ now = 0
    /\ clock = 0
    /\ ticking = TRUE
    /\ ramDirty = TRUE
    /\ rtcDirty = FALSE

\* RAM enable and disable, RAM banks and clock registers, the latch.
RegisterWrites ==
    ({0} \X {0, 10}) \cup ({16384} \X {1, 8, 12}) \cup ({24576} \X {0, 1})

Next ==
    \/ \E w \in RegisterWrites : WriteRegister(w[1], w[2])
    \/ \E data \in Bytes \cup RtcBytes : WriteWindow(data)
    \/ \E quit \in BOOLEAN : OpenSave(quit)
    \/ WriteRam
    \/ WriteRtc
    \/ SaveFails
    \/ OpenFails
    \/ Crash
    \/ StartEmulation
    \/ \E span \in Spans : TimePasses(span)

Spec == Init /\ [][Next]_vars

-----------------------------------------------------------------------------
(* Properties. *)

\* Whatever order the program enables, disables and selects in, a read of the
\* window returns what the registers select and no bank that was mapped before.
WindowReadsSelected ==
    on => WindowRead =
        CASE ~mbc.ram_enabled -> 255
          [] mbc.ram_enabled /\ mbc.kind = 2 -> 240 + (ram[0] % 16)
          [] mbc.ram_enabled /\ mbc.kind # 2 /\ mbc.rtc_select # NoRtc ->
                rtc.latched[mbc.rtc_select - 7]
          [] mbc.ram_enabled /\ mbc.kind # 2 /\ mbc.rtc_select = NoRtc -> ram[mbc.ram_bank]

\* Through latches, saves, failed saves, crashes and new sessions the clock shows
\* what it was set to and the seconds since, in 512 days; a session that finds
\* no clock in the file, or one set anew since, starts another count.
ClockKeepsTime == on /\ has_rtc => Shown(rtc, now) = clock

\* Loading brings the save RAM back as it was when it was last written, unless
\* it changed after the last complete save or a later save was cut short.
SavedGameReloads == ~ramDirty => Loads(file) /\ LoadedRam(file) = ram

============================================================================
