-------------------------- MODULE CartridgeProofs --------------------------
(* Theorems about Cartridge, for every set of controllers, values and spans of
   time that its assumptions admit. *)
EXTENDS Cartridge, TLAPS

Pages   == {NoRam} \cup RamBanks
Selects == {NoRtc} \cup 8 .. 12

Registers ==
    [kind : {1, 2, 3, 5}, rom_bank : Int, ram_bank : RamBanks,
     ram_enabled : BOOLEAN, rtc_select : Selects,
     rtc_latch_state : Int, rom : Int, ram : Pages]

Regs == [1 .. 5 -> Nat]
Rtc == [regs : Regs, latched : Regs, base_secs : Nat, base : Nat, halted : BOOLEAN]
File == [size : 0 .. WithRtc, ram : [RamBanks -> Nat], rtc : Regs, stamp : Nat,
         halted : BOOLEAN]

\* The window is mapped as the registers say.
WindowOf(c) ==
    /\ c.ram = IF c.ram_enabled /\ c.kind # 2 /\ c.rtc_select = NoRtc
               THEN c.ram_bank ELSE NoRam
    /\ c.kind # 3 => c.rtc_select = NoRtc

\* What a clock shows, before it is reduced to 512 days.
Count(r, time) == IF r.halted THEN Seconds(r.regs) ELSE r.base + (time - r.base_secs)

\* What a clock loaded from a file would count.
FileCount(f, time) ==
    IF f.halted THEN Seconds(f.rtc) ELSE Seconds(f.rtc) + (time - f.stamp)

Types ==
    /\ on \in BOOLEAN
    /\ mbc \in Registers
    /\ has_rtc \in BOOLEAN
    /\ ram \in [RamBanks -> Nat]
    /\ rtc \in Rtc /\ rtc.base_secs <= now
    /\ file \in File /\ file.stamp <= now
    /\ saving \in {"no", "opened", "ram"}
    /\ quitting \in BOOLEAN
    /\ now \in Nat
    /\ clock \in Nat
    /\ ticking \in BOOLEAN
    /\ ramDirty \in BOOLEAN /\ rtcDirty \in BOOLEAN

\* A complete file holds the RAM; so does one that lacks only the clock.
RamIsSaved ==
    /\ ~ramDirty => file.size >= RamSize /\ file.ram = ram
    /\ saving # "no" => on /\ ramDirty
    /\ saving = "ram" => file.size = RamSize /\ file.ram = ram

\* The running clock, and the one a session would start from the file, count
\* what the uninterrupted clock shows.
ClocksAgree ==
    has_rtc =>
        /\ on => Count(rtc, now) % Cycle = clock /\ ticking = ~rtc.halted
        /\ ~rtcDirty /\ file.size = WithRtc =>
              FileCount(file, now) % Cycle = clock /\ ticking = ~file.halted

IInv == Types /\ WindowOf(mbc) /\ RamIsSaved /\ ClocksAgree

-----------------------------------------------------------------------------
(* The registers. *)

\* The cartridge with its window changed.
Rewired(c, enabled, bank, select, page) ==
    [c EXCEPT !.ram_enabled = enabled, !.ram_bank = bank, !.rtc_select = select, !.ram = page]

LEMMA RewiredFields ==
    ASSUME NEW c \in Registers, NEW enabled \in BOOLEAN, NEW bank \in RamBanks,
           NEW select \in Selects, NEW page \in Pages,
           NEW w, w = Rewired(c, enabled, bank, select, page)
    PROVE  /\ w \in Registers
           /\ w.kind = c.kind /\ w.ram_enabled = enabled /\ w.ram_bank = bank
           /\ w.rtc_select = select /\ w.ram = page
BY DEF Registers, Rewired

LEMMA SelectKeepsWindow ==
    ASSUME NEW c \in Registers, WindowOf(c), c.kind # 2, NEW bank \in RamBanks
    PROVE  SelectRam(c, bank) \in Registers /\ WindowOf(SelectRam(c, bank))
<1> DEFINE w == SelectRam(c, bank)
<1>1. c.ram \in Pages /\ c.ram_enabled \in BOOLEAN /\ NoRtc \in Selects /\ bank \in Pages
  BY DEF Registers, Pages, Selects
<1>2. CASE c.ram_enabled
  <2>1. w = Rewired(c, c.ram_enabled, bank, NoRtc, bank)
    BY <1>2 DEF SelectRam, dmg_update_ram_bank, Rewired, Registers
  <2> HIDE DEF w
  <2>2. /\ w \in Registers /\ w.kind = c.kind /\ w.ram_enabled = c.ram_enabled
        /\ w.ram_bank = bank /\ w.rtc_select = NoRtc /\ w.ram = bank
    BY <1>1, <2>1, RewiredFields
  <2>3. WindowOf(w)
    BY <1>2, <2>2 DEF WindowOf
  <2> QED BY <2>2, <2>3 DEF w
<1>3. CASE ~c.ram_enabled
  <2>1. w = Rewired(c, c.ram_enabled, bank, NoRtc, c.ram)
    BY <1>3 DEF SelectRam, Rewired, Registers
  <2> HIDE DEF w
  <2>2. /\ w \in Registers /\ w.kind = c.kind /\ w.ram_enabled = c.ram_enabled
        /\ w.rtc_select = NoRtc /\ w.ram = c.ram
    BY <1>1, <2>1, RewiredFields
  <2>3. WindowOf(w)
    BY <1>3, <2>2 DEF WindowOf
  <2> QED BY <2>2, <2>3 DEF w
<1> QED BY <1>2, <1>3

\* The RAM enabled or disabled, and another page in the window.
Enabled(c, page) == [c EXCEPT !.ram_enabled = TRUE, !.ram = page]
Disabled(c, page) == [c EXCEPT !.ram_enabled = FALSE, !.ram = page]

LEMMA EnabledFields ==
    ASSUME NEW c \in Registers, NEW page \in Pages, NEW w,
           w = Enabled(c, page) \/ w = Disabled(c, page)
    PROVE  /\ w \in Registers
           /\ w.kind = c.kind /\ w.ram_bank = c.ram_bank
           /\ w.rtc_select = c.rtc_select /\ w.ram = page
           /\ w = Enabled(c, page) => w.ram_enabled
           /\ w = Disabled(c, page) => ~w.ram_enabled
BY DEF Registers, Enabled, Disabled

LEMMA EnableKeepsWindow ==
    ASSUME NEW c \in Registers, WindowOf(c), c.kind # 2, NEW data
    PROVE  WriteEnable(c, data) \in Registers /\ WindowOf(WriteEnable(c, data))
<1> DEFINE w == WriteEnable(c, data)
           enabled == data % 16 = 10
<1>1. /\ c.ram_bank \in RamBanks /\ c.ram_bank \in Pages /\ NoRam \in Pages
      /\ c.rtc_select \in Selects /\ c.ram_enabled \in BOOLEAN
  BY DEF Registers, Pages
<1>2. CASE enabled = c.ram_enabled
  BY <1>2 DEF WriteEnable
<1>3. CASE enabled /\ ~c.ram_enabled /\ c.rtc_select = NoRtc
  <2>1. w = Enabled(c, c.ram_bank)
    BY <1>3 DEF WriteEnable, dmg_update_ram_bank, Registers, Enabled
  <2> HIDE DEF w
  <2>2. /\ w \in Registers /\ w.kind = c.kind /\ w.ram_bank = c.ram_bank
        /\ w.rtc_select = c.rtc_select /\ w.ram = c.ram_bank /\ w.ram_enabled
    BY <1>1, <2>1, EnabledFields
  <2>3. WindowOf(w)
    BY <1>3, <2>2 DEF WindowOf
  <2> QED BY <2>2, <2>3 DEF w
<1>4. CASE enabled /\ ~c.ram_enabled /\ c.rtc_select # NoRtc
  <2>1. w = Enabled(c, NoRam)
    BY <1>4 DEF WriteEnable, dmg_update_ram_bank, Registers, Enabled
  <2> HIDE DEF w
  <2>2. /\ w \in Registers /\ w.kind = c.kind
        /\ w.rtc_select = c.rtc_select /\ w.ram = NoRam
    BY <1>1, <2>1, EnabledFields
  <2>3. WindowOf(w)
    BY <1>4, <2>2 DEF WindowOf
  <2> QED BY <2>2, <2>3 DEF w
<1>5. CASE ~enabled /\ c.ram_enabled
  <2>1. w = Disabled(c, NoRam)
    BY <1>5 DEF WriteEnable, dmg_update_ram_bank, Registers, Disabled
  <2> HIDE DEF w
  <2>2. /\ w \in Registers /\ w.kind = c.kind /\ ~w.ram_enabled
        /\ w.rtc_select = c.rtc_select /\ w.ram = NoRam
    BY <1>1, <2>1, EnabledFields
  <2>3. WindowOf(w)
    BY <2>2 DEF WindowOf
  <2> QED BY <2>2, <2>3 DEF w
<1> HIDE DEF w
<1>6. CASE enabled
  BY <1>1, <1>2, <1>3, <1>4, <1>6 DEF w
<1>7. CASE ~enabled
  BY <1>1, <1>2, <1>5, <1>7 DEF w
<1> QED BY <1>6, <1>7

\* A clock register in the window.
ClockSelected(c, select) == [c EXCEPT !.rtc_select = select, !.ram = NoRam]

LEMMA ClockSelectedFields ==
    ASSUME NEW c \in Registers, NEW select \in Selects,
           NEW w, w = ClockSelected(c, select)
    PROVE  /\ w \in Registers
           /\ w.kind = c.kind /\ w.rtc_select = select /\ w.ram = NoRam
BY DEF Registers, ClockSelected, Pages

\* MBC2 changes the enable and nothing else.
EnableWritten(c, data) == [c EXCEPT !.ram_enabled = data % 16 = 10]

LEMMA EnableWrittenFields ==
    ASSUME NEW c \in Registers, NEW data, NEW w, w = EnableWritten(c, data)
    PROVE  /\ w \in Registers
           /\ w.kind = c.kind /\ w.ram = c.ram /\ w.rtc_select = c.rtc_select
BY DEF Registers, EnableWritten

\* The guard of WriteRegister.
InReach(c, addr, data) == c.kind = 5 /\ addr = 16384 => data % 16 \in RamBanks

\* Every write of a register that concerns the window keeps it right.
LEMMA WriteKeepsWindow ==
    ASSUME NEW c \in Registers, WindowOf(c), NEW addr \in {0, 16384, 24576},
           NEW data \in Nat, InReach(c, addr, data)
    PROVE  mbc_write(c, addr, data) \in Registers /\ WindowOf(mbc_write(c, addr, data))
<1> DEFINE w == mbc_write(c, addr, data)
<1> HIDE DEF w
<1> SUFFICES w \in Registers /\ WindowOf(w)
  BY DEF w
<1>0. c.kind \in {1, 2, 3, 5}
  BY DEF Registers
<1>4. /\ c.kind = 1 => w = mbc1_write(c, addr, data)
      /\ c.kind = 2 => w = mbc2_write(c, addr, data)
      /\ c.kind = 3 => w = mbc3_write(c, addr, data)
      /\ c.kind = 5 => w = mbc5_write(c, addr, data)
  BY DEF w, mbc_write
<1>1. CASE addr = 0
  <2>1. CASE c.kind = 2
    <3>1. addr < 16384 /\ (addr \div 256) % 2 = 0
      BY <1>1
    <3>2. w = EnableWritten(c, data)
      BY <1>4, <2>1, <3>1 DEF mbc2_write, EnableWritten
    <3>3. w \in Registers /\ w.kind = c.kind /\ w.ram = c.ram /\ w.rtc_select = c.rtc_select
      BY <3>2, EnableWrittenFields
    <3> QED BY <2>1, <3>3 DEF WindowOf
  <2>2. CASE c.kind # 2
    <3>1. w = WriteEnable(c, data)
      <4>1. ASSUME c.kind = 1 PROVE w = WriteEnable(c, data)
        BY <1>1, <1>4, <4>1 DEF mbc1_write, Within
      <4>2. ASSUME c.kind = 3 PROVE w = WriteEnable(c, data)
        BY <1>1, <1>4, <4>2 DEF mbc3_write, Within
      <4>3. ASSUME c.kind = 5 PROVE w = WriteEnable(c, data)
        BY <1>1, <1>4, <4>3 DEF mbc5_write, Within
      <4> QED BY <1>0, <2>2, <4>1, <4>2, <4>3
    <3> QED BY <2>2, <3>1, EnableKeepsWindow
  <2> QED BY <2>1, <2>2
<1>2. CASE addr = 16384
  <2>2. CASE c.kind = 1
    <3>1. w = SelectRam(c, data % 4) /\ data % 4 \in RamBanks
      BY <1>2, <1>4, <2>2 DEF mbc1_write, Within, RamBanks
    <3> QED BY <2>2, <3>1, SelectKeepsWindow
  <2>3. CASE c.kind = 2
    <3>1. w = c
      BY <1>2, <1>4, <2>3 DEF mbc2_write
    <3> QED BY <3>1
  <2>4. CASE c.kind = 3
    <3>1. CASE data < 4
      <4>1. w = SelectRam(c, data) /\ data \in RamBanks
        BY <1>2, <1>4, <2>4, <3>1 DEF mbc3_write, Within, RamBanks
      <4> QED BY <2>4, <4>1, SelectKeepsWindow
    <3>2. CASE data \in 8 .. 12
      <4>1. w = ClockSelected(c, data)
        <5>1. w = dmg_update_ram_bank([c EXCEPT !.rtc_select = data], NoRam)
          BY <1>2, <1>4, <2>4, <3>2 DEF mbc3_write, Within
        <5> QED BY <5>1 DEF dmg_update_ram_bank, Registers, ClockSelected
      <4>2. data \in Selects /\ data # NoRtc
        BY <3>2 DEF Selects, NoRtc
      <4>3. w \in Registers /\ w.kind = c.kind /\ w.rtc_select = data /\ w.ram = NoRam
        BY <4>1, <4>2, ClockSelectedFields
      <4> QED BY <2>4, <4>2, <4>3 DEF WindowOf
    <3>3. CASE ~(data < 4) /\ data \notin 8 .. 12
      <4>1. w = c
        BY <1>2, <1>4, <2>4, <3>3 DEF mbc3_write, Within
      <4> QED BY <4>1
    <3> QED BY <3>1, <3>2, <3>3
  <2>5. CASE c.kind = 5
    <3>1. w = SelectRam(c, data % 16)
      BY <1>2, <1>4, <2>5 DEF mbc5_write, Within
    <3>2. data % 16 \in RamBanks
      BY <1>2, <2>5 DEF InReach
    <3> QED BY <2>5, <3>1, <3>2, SelectKeepsWindow
  <2> QED BY <1>0, <2>2, <2>3, <2>4, <2>5
<1>3. CASE addr = 24576
  <2>1. w = c \/ w = [c EXCEPT !.rtc_latch_state = data]
    <3>1. ASSUME c.kind = 1 PROVE w = c
      BY <1>3, <1>4, <3>1 DEF mbc1_write, Within
    <3>2. ASSUME c.kind = 2 PROVE w = c
      BY <1>3, <1>4, <3>2 DEF mbc2_write
    <3>3. ASSUME c.kind = 3 PROVE w = [c EXCEPT !.rtc_latch_state = data]
      BY <1>3, <1>4, <3>3 DEF mbc3_write, Within
    <3>4. ASSUME c.kind = 5 PROVE w = c
      BY <1>3, <1>4, <3>4 DEF mbc5_write, Within
    <3> QED BY <1>0, <3>1, <3>2, <3>3, <3>4
  <2>2. CASE w = [c EXCEPT !.rtc_latch_state = data]
    <3>1. w \in Registers
      BY <2>2 DEF Registers
    <3>2. /\ w.kind = c.kind /\ w.ram = c.ram /\ w.rtc_select = c.rtc_select
          /\ w.ram_enabled = c.ram_enabled /\ w.ram_bank = c.ram_bank
      BY <2>2 DEF Registers
    <3> QED BY <3>1, <3>2 DEF WindowOf
  <2> QED BY <2>1, <2>2
<1> QED BY <1>1, <1>2, <1>3
-----------------------------------------------------------------------------
(* The clock. *)

LEMMA Limits == Day = 86400 /\ Cycle = 44236800
BY DEF Day, Cycle

LEMMA Sizes == RamSize = 4 /\ WithRtc = 5
BY DEF RamSize, WithRtc

LEMMA By60 ==
    ASSUME NEW t \in Nat
    PROVE  /\ t \div 60 \in Nat /\ t % 60 \in Nat /\ t % 60 < 60
           /\ t = 60 * (t \div 60) + (t % 60)
OBVIOUS

LEMMA By24 ==
    ASSUME NEW t \in Nat
    PROVE  /\ t \div 24 \in Nat /\ t % 24 \in Nat /\ t % 24 < 24
           /\ t = 24 * (t \div 24) + (t % 24)
OBVIOUS

LEMMA SplitTime ==
    ASSUME NEW t \in Nat
    PROVE  t = (t \div 86400) * 86400 + ((t \div 3600) % 24) * 3600
               + ((t \div 60) % 60) * 60 + (t % 60)
<1> DEFINE m == t \div 60
           h == m \div 60
<1>1. m \in Nat /\ t % 60 \in Nat /\ t % 60 < 60 /\ t = 60 * m + (t % 60)
  BY By60
<1> HIDE DEF m
<1>2. h \in Nat /\ m % 60 \in Nat /\ m % 60 < 60 /\ m = 60 * h + (m % 60)
  BY <1>1, By60
<1> HIDE DEF h
<1>3. h \div 24 \in Nat /\ h % 24 \in Nat /\ h % 24 < 24 /\ h = 24 * (h \div 24) + (h % 24)
  BY <1>2, By24
<1>4. t \div 3600 = h
  BY <1>1, <1>2
<1>5. t \div 86400 = h \div 24
  BY <1>1, <1>2, <1>3
<1>6. t = (h \div 24) * 86400 + (h % 24) * 3600 + (m % 60) * 60 + (t % 60)
  BY <1>1, <1>2, <1>3
<1> QED BY <1>4, <1>5, <1>6 DEF m

LEMMA SplitDays ==
    ASSUME NEW d \in Nat
    PROVE  d = 512 * (d \div 512) + 256 * ((d \div 256) % 2) + (d % 256)
<1> DEFINE h == d \div 256
<1>1. h \in Nat /\ d % 256 \in Nat /\ d % 256 < 256 /\ d = 256 * h + (d % 256)
  OBVIOUS
<1> HIDE DEF h
<1>2. h \div 2 \in Nat /\ h % 2 \in Nat /\ h % 2 < 2 /\ h = 2 * (h \div 2) + (h % 2)
  BY <1>1
<1>3. d \div 512 = h \div 2
  BY <1>1, <1>2
<1> QED BY <1>1, <1>2, <1>3 DEF h

\* The registers show the time of which they were computed, in 512 days.
LEMMA RegsShowTime ==
    ASSUME NEW t \in Nat, NEW dh \in Nat
    PROVE  RegsAt(t, dh) \in Regs /\ Seconds(RegsAt(t, dh)) % Cycle = t % Cycle
<1> DEFINE r == RegsAt(t, dh)
           d == t \div 86400
           top == 64 * Bit6(dh) + Bit0(d \div 256) + (IF d > 511 THEN 128 ELSE 0)
<1>1. r = <<t % 60, (t \div 60) % 60, (t \div 3600) % 24, d % 256, top>>
  BY Limits DEF RegsAt
<1>2. /\ d \in Nat /\ d % 256 \in Nat
      /\ (d \div 256) % 2 \in {0, 1} /\ (dh \div 64) % 2 \in {0, 1}
      /\ (t \div 3600) % 24 \in Nat /\ (t \div 60) % 60 \in Nat /\ t % 60 \in Nat
  OBVIOUS
<1>3. top \in Nat /\ Bit0(top) = (d \div 256) % 2
  BY <1>2 DEF Bit0, Bit6
<1> HIDE DEF top
<1>4. /\ r[1] = t % 60 /\ r[2] = (t \div 60) % 60 /\ r[3] = (t \div 3600) % 24
      /\ r[4] = d % 256 /\ r[5] = top
  BY <1>1
<1>5. r \in Regs
  BY <1>1, <1>2, <1>3 DEF Regs
<1> HIDE DEF r
<1>6. Seconds(r) = (256 * ((d \div 256) % 2) + (d % 256)) * 86400
                   + ((t \div 3600) % 24) * 3600 + ((t \div 60) % 60) * 60 + (t % 60)
  BY <1>3, <1>4, Limits DEF Seconds
<1>7. Seconds(r) = t - 44236800 * (d \div 512)
  BY <1>2, <1>6, SplitTime, SplitDays
<1>8. Seconds(r) % 44236800 = t % 44236800
  BY <1>2, <1>7
<1> QED BY <1>5, <1>8, Limits DEF r

LEMMA SecondsType == ASSUME NEW regs \in Regs PROVE Seconds(regs) \in Nat
BY Limits DEF Regs, Seconds, Bit0

\* Computing the registers changes them and not what the clock counts.
LEMMA UpdateFacts ==
    ASSUME NEW r \in Rtc, NEW time \in Nat, r.base_secs <= time
    PROVE  /\ mbc3_update_rtc(r, time) \in Rtc
           /\ mbc3_update_rtc(r, time).base_secs = r.base_secs
           /\ mbc3_update_rtc(r, time).halted = r.halted
           /\ Count(mbc3_update_rtc(r, time), time) = Count(r, time)
           /\ Count(r, time) \in Nat
           /\ Shown(r, time) = Count(r, time) % Cycle
<1> DEFINE u == mbc3_update_rtc(r, time)
<1>0. r.regs \in Regs /\ r.base \in Nat /\ r.base_secs \in Nat /\ r.halted \in BOOLEAN
      /\ Seconds(r.regs) \in Nat
  BY SecondsType DEF Rtc
<1>1. CASE r.halted
  <2>1. u = r
    BY <1>1 DEF mbc3_update_rtc
  <2>2. Count(r, time) = Seconds(r.regs)
    BY <1>1 DEF Count
  <2> QED BY <1>0, <2>1, <2>2 DEF Shown
<1>2. CASE ~r.halted
  <2> DEFINE t == r.base + (time - r.base_secs)
             regs == RegsAt(t, r.regs[5])
  <2>1. t \in Nat /\ r.regs[5] \in Nat
    BY <1>0 DEF Regs
  <2>2. regs \in Regs /\ Seconds(regs) % Cycle = t % Cycle
    BY <2>1, RegsShowTime
  <2>3. u = [r EXCEPT !.regs = regs]
    BY <1>2 DEF mbc3_update_rtc
  <2>4. Count(r, time) = t
    BY <1>2 DEF Count
  <2> HIDE DEF u, t, regs
  <2>5. /\ u \in Rtc /\ u.base_secs = r.base_secs /\ u.halted = r.halted
        /\ u.base = r.base /\ u.regs = regs
    BY <2>2, <2>3 DEF Rtc
  <2>6. Count(u, time) = t
    BY <1>2, <2>5 DEF Count, t
  <2>7. Shown(r, time) = t % Cycle
    BY <2>2, <2>5 DEF Shown, u
  <2> QED BY <2>1, <2>4, <2>5, <2>6, <2>7 DEF u
<1> QED BY <1>0, <1>1, <1>2

\* A clock that starts now counts from nothing.
LEMMA NewRtcFacts ==
    ASSUME NEW time \in Nat
    PROVE  NewRtc(time) \in Rtc /\ NewRtc(time).base_secs = time /\ ~NewRtc(time).halted
<1>1. NoRegs \in Regs
  BY DEF NoRegs, Regs
<1> QED BY <1>1 DEF NewRtc, Rtc

LEMMA ModuloType == ASSUME NEW n \in Nat PROVE n % Cycle \in Nat
BY Limits

\* The count of a clock that runs, a while later.
LEMMA LaterModulo ==
    ASSUME NEW n \in Nat, NEW span \in Nat
    PROVE  ((n % Cycle) + span) % Cycle = (n + span) % Cycle
BY Limits

-----------------------------------------------------------------------------
LEMMA NoFileFacts ==
    NoFile \in File /\ NoFile.size = 0 /\ NoFile.stamp = 0 /\ Cleared \in [RamBanks -> Nat]
<1>1. NoRegs \in Regs
  BY DEF NoRegs, Regs
<1>2. Cleared \in [RamBanks -> Nat]
  BY DEF Cleared
<1> QED BY <1>1, <1>2, Sizes DEF NoFile, File

THEOREM InitEstablishes == Init => IInv
<1> SUFFICES ASSUME Init PROVE IInv
  OBVIOUS
<1>1. PICK kind \in Kinds : mbc = mbc_new(kind)
  BY DEF Init
<1>2. mbc \in Registers /\ WindowOf(mbc)
  <2>1. kind \in {1, 2, 3, 5}
    BY KindsAssumption
  <2> QED BY <1>1, <2>1 DEF mbc_new, Registers, Selects, Pages, RamBanks, WindowOf, NoRam, NoRtc
<1>3. rtc \in Rtc /\ rtc.base_secs = 0
  BY NewRtcFacts DEF Init
<1>4. NoFile \in File /\ NoFile.size = 0 /\ NoFile.stamp = 0 /\ Cleared \in [RamBanks -> Nat]
  BY NoFileFacts
<1>5. Types
  <2>1. has_rtc \in BOOLEAN
    BY DEF Init
  <2>2. /\ on \in BOOLEAN /\ quitting \in BOOLEAN /\ ticking \in BOOLEAN
        /\ ramDirty \in BOOLEAN /\ rtcDirty \in BOOLEAN
    BY DEF Init
  <2>3. /\ ram \in [RamBanks -> Nat] /\ file \in File /\ file.stamp = 0
        /\ saving \in {"no", "opened", "ram"} /\ now = 0 /\ clock = 0
    BY <1>4 DEF Init
  <2> QED BY <1>2, <1>3, <2>1, <2>2, <2>3 DEF Types
<1>6. RamIsSaved
  BY DEF Init, RamIsSaved
<1>7. ClocksAgree
  <2>1. ~on /\ file.size # WithRtc
    BY <1>4, Sizes DEF Init
  <2> QED BY <2>1 DEF ClocksAgree
<1> QED BY <1>2, <1>5, <1>6, <1>7 DEF IInv

-----------------------------------------------------------------------------
(* The actions. *)

\* What an end of the session leaves.
LEMMA EndsFacts ==
    ASSUME IInv, Ends
    PROVE  /\ ~on' /\ on' \in BOOLEAN /\ mbc' \in Registers /\ WindowOf(mbc')
           /\ rtc' \in Rtc /\ rtc'.base_secs = 0
<1>1. mbc' = mbc_new(mbc.kind) /\ mbc.kind \in {1, 2, 3, 5}
  BY DEF Ends, IInv, Types, Registers
<1>2. mbc' \in Registers /\ WindowOf(mbc')
  BY <1>1 DEF mbc_new, Registers, Selects, Pages, RamBanks, WindowOf, NoRam, NoRtc
<1>3. rtc' \in Rtc /\ rtc'.base_secs = 0
  BY NewRtcFacts DEF Ends
<1>4. ~on' /\ on' \in BOOLEAN
  BY DEF Ends
<1> QED BY <1>2, <1>3, <1>4

\* mbc_save_ram returns with the clock r, which counts as rtc does.
LEMMA ReturnsFacts ==
    ASSUME IInv, NEW r \in Rtc, r.base_secs <= now, Returns(r),
           Count(r, now) = Count(rtc, now), r.halted = rtc.halted
    PROVE  /\ on' \in BOOLEAN /\ mbc' \in Registers /\ WindowOf(mbc')
           /\ rtc' \in Rtc /\ rtc'.base_secs <= now
           /\ on' => on /\ Count(rtc', now) = Count(rtc, now) /\ rtc'.halted = rtc.halted
           /\ saving' = "no" /\ quitting' \in BOOLEAN
           /\ UNCHANGED <<has_rtc, ram, now>>
<1>1. saving' = "no" /\ quitting' \in BOOLEAN /\ UNCHANGED <<has_rtc, ram, now>>
  BY DEF Returns
<1>2. now \in Nat /\ on \in BOOLEAN /\ mbc \in Registers /\ WindowOf(mbc)
  BY DEF IInv, Types
<1>3. CASE quitting
  <2>1. Ends
    BY <1>3 DEF Returns
  <2> QED BY <1>1, <1>2, <2>1, EndsFacts
<1>4. CASE ~quitting
  <2>1. rtc' = r /\ on' = on /\ mbc' = mbc
    BY <1>4 DEF Returns
  <2> QED BY <1>1, <1>2, <2>1
<1> QED BY <1>3, <1>4

LEMMA OpenSaveKeeps ==
    ASSUME IInv, NEW quit \in BOOLEAN, OpenSave(quit)
    PROVE  IInv'
<1> USE DEF IInv, OpenSave
<1>1. NoFile \in File /\ NoFile.size = 0 /\ NoFile.stamp = 0
  BY NoFileFacts
<1>2. Types'
  BY <1>1 DEF Types, session
<1>3. WindowOf(mbc)'
  BY DEF WindowOf, session
<1>4. RamIsSaved'
  BY DEF RamIsSaved, Running, session
<1>5. ClocksAgree'
  <2>1. file'.size # WithRtc
    BY <1>1, Sizes
  <2> QED BY <2>1 DEF ClocksAgree, Count, session
<1> QED BY <1>2, <1>3, <1>4, <1>5

LEMMA WriteRamKeeps ==
    ASSUME IInv, WriteRam
    PROVE  IInv'
<1>1. /\ saving = "opened" /\ file' = [file EXCEPT !.size = RamSize, !.ram = ram]
      /\ file \in File /\ ram \in [RamBanks -> Nat]
  BY DEF WriteRam, IInv, Types
<1>2. /\ file' \in File /\ file'.size = RamSize /\ file'.ram = ram
      /\ file'.stamp = file.stamp /\ file'.size # WithRtc
  <2>1. RamSize \in 0 .. WithRtc /\ RamSize # WithRtc
    BY Sizes
  <2> QED BY <1>1, <2>1 DEF File
<1>3. CASE has_rtc
  <2>1. saving' = "ram" /\ UNCHANGED <<on, mbc, has_rtc, ram, rtc, quitting, now, clock,
                                        ticking, ramDirty, rtcDirty>>
    BY <1>3 DEF WriteRam, session, ghosts
  <2>2. Types'
    BY <1>2, <2>1 DEF IInv, Types
  <2>3. RamIsSaved'
    BY <1>1, <1>2, <2>1 DEF IInv, RamIsSaved
  <2>4. ClocksAgree'
    BY <1>2, <2>1 DEF IInv, ClocksAgree, Count
  <2>5. WindowOf(mbc)'
    BY <2>1 DEF IInv, WindowOf
  <2> QED BY <2>2, <2>3, <2>4, <2>5 DEF IInv
<1>4. CASE ~has_rtc
  <2>1. /\ Returns(rtc) /\ ramDirty' = FALSE /\ rtcDirty' = FALSE
        /\ UNCHANGED <<clock, ticking>>
    BY <1>4 DEF WriteRam, Completes
  <2>2. rtc \in Rtc /\ rtc.base_secs <= now
    BY DEF IInv, Types
  <2>3. /\ on' \in BOOLEAN /\ mbc' \in Registers /\ WindowOf(mbc')
        /\ rtc' \in Rtc /\ rtc'.base_secs <= now
        /\ saving' = "no" /\ quitting' \in BOOLEAN
        /\ UNCHANGED <<has_rtc, ram, now>>
    BY <2>1, <2>2, ReturnsFacts
  <2>4. Types'
    BY <1>2, <2>1, <2>3 DEF IInv, Types
  <2>5. RamIsSaved'
    BY <1>2, <2>3, Sizes DEF RamIsSaved
  <2>6. ClocksAgree'
    BY <1>4, <2>3 DEF ClocksAgree
  <2> QED BY <2>3, <2>4, <2>5, <2>6 DEF IInv
<1> QED BY <1>3, <1>4

LEMMA WriteRtcKeeps ==
    ASSUME IInv, WriteRtc
    PROVE  IInv'
<1> DEFINE u == mbc3_update_rtc(rtc, now)
<1>1. /\ saving = "ram" /\ Returns(u) /\ ramDirty' = FALSE /\ rtcDirty' = FALSE
      /\ file' = [file EXCEPT !.size = WithRtc, !.rtc = u.regs, !.stamp = now,
                              !.halted = u.halted]
      /\ UNCHANGED <<clock, ticking>>
  BY DEF WriteRtc, Completes
<1>2. rtc \in Rtc /\ rtc.base_secs <= now /\ now \in Nat /\ file \in File
  BY DEF IInv, Types
<1>3. /\ u \in Rtc /\ u.base_secs <= now /\ u.halted = rtc.halted
      /\ Count(u, now) = Count(rtc, now) /\ Shown(rtc, now) = Count(rtc, now) % Cycle
  BY <1>2, UpdateFacts
<1>4. Seconds(u.regs) % Cycle = Count(rtc, now) % Cycle
  BY <1>3 DEF Shown
<1> HIDE DEF u
<1>5. /\ on' \in BOOLEAN /\ mbc' \in Registers /\ WindowOf(mbc')
      /\ rtc' \in Rtc /\ rtc'.base_secs <= now
      /\ on' => on /\ Count(rtc', now) = Count(rtc, now) /\ rtc'.halted = rtc.halted
      /\ saving' = "no" /\ quitting' \in BOOLEAN
      /\ UNCHANGED <<has_rtc, ram, now>>
  BY <1>1, <1>2, <1>3, ReturnsFacts
<1>6. /\ file' \in File /\ file'.size = WithRtc /\ file'.ram = file.ram
      /\ file'.rtc = u.regs /\ file'.stamp = now /\ file'.halted = u.halted
  <2>1. u.regs \in Regs /\ u.halted \in BOOLEAN /\ WithRtc \in 0 .. WithRtc
    BY <1>3, Sizes DEF Rtc
  <2> QED BY <1>1, <1>2, <2>1 DEF File
<1>7. Types'
  <2>1. ramDirty' \in BOOLEAN /\ rtcDirty' \in BOOLEAN
    BY <1>1
  <2>2. file'.stamp <= now' /\ rtc'.base_secs <= now' /\ now' \in Nat
    BY <1>2, <1>5, <1>6
  <2> QED BY <1>1, <1>5, <1>6, <2>1, <2>2 DEF IInv, Types
<1>8. RamIsSaved'
  BY <1>1, <1>5, <1>6, Sizes DEF IInv, RamIsSaved
<1>9. ClocksAgree'
  <2>1. FileCount(file', now) = Seconds(u.regs)
    BY <1>2, <1>3, <1>6, SecondsType DEF FileCount, Rtc
  <2>2. has_rtc => Count(rtc, now) % Cycle = clock /\ ticking = ~rtc.halted
    BY <1>1 DEF IInv, ClocksAgree, RamIsSaved
  <2>3. has_rtc' /\ on' => Count(rtc', now') % Cycle = clock' /\ ticking' = ~rtc'.halted
    BY <1>1, <1>5, <2>2
  <2>4. has_rtc' => FileCount(file', now') % Cycle = clock' /\ ticking' = ~file'.halted
    BY <1>1, <1>3, <1>4, <1>5, <1>6, <2>1, <2>2
  <2> QED BY <2>3, <2>4 DEF ClocksAgree
<1> QED BY <1>5, <1>7, <1>8, <1>9 DEF IInv

\* A short file is dirty, and holds no clock.
LEMMA ShortFacts ==
    ASSUME IInv, NEW n \in Shorts
    PROVE  Short(n) \in File /\ Short(n).stamp = 0 /\ Short(n).size # WithRtc
<1>1. n \in RamBanks /\ ram \in [RamBanks -> Nat]
  BY ShortAssumption DEF IInv, Types
<1>2. n \in 0 .. WithRtc /\ n # WithRtc
  BY <1>1, Sizes DEF RamBanks
<1> QED BY <1>1, <1>2, NoFileFacts DEF Short, File

LEMMA SaveFailsKeeps ==
    ASSUME IInv, SaveFails
    PROVE  IInv'
<1>1. PICK r \in {rtc, mbc3_update_rtc(rtc, now)} : Returns(r)
  BY DEF SaveFails
<1>2. /\ saving # "no" /\ UNCHANGED <<clock, ticking, ramDirty, rtcDirty>>
      /\ file' = file \/ \E n \in Shorts : file' = Short(n)
  BY DEF SaveFails, ghosts
<1>3. /\ rtc \in Rtc /\ rtc.base_secs <= now /\ now \in Nat
      /\ file \in File /\ file.stamp <= now /\ ramDirty
  BY <1>2 DEF IInv, Types, RamIsSaved
<1>4. /\ r \in Rtc /\ r.base_secs <= now /\ r.halted = rtc.halted
      /\ Count(r, now) = Count(rtc, now)
  BY <1>3, UpdateFacts
<1>5. /\ on' \in BOOLEAN /\ mbc' \in Registers /\ WindowOf(mbc')
      /\ rtc' \in Rtc /\ rtc'.base_secs <= now
      /\ on' => on /\ Count(rtc', now) = Count(rtc, now) /\ rtc'.halted = rtc.halted
      /\ saving' = "no" /\ quitting' \in BOOLEAN
      /\ UNCHANGED <<has_rtc, ram, now>>
  BY <1>1, <1>4, ReturnsFacts
<1>6. file' \in File /\ file'.stamp <= now /\ (file' = file \/ file'.size # WithRtc)
  BY <1>2, <1>3, ShortFacts
<1>7. Types'
  BY <1>2, <1>5, <1>6 DEF IInv, Types
<1>8. RamIsSaved'
  BY <1>2, <1>3, <1>5 DEF RamIsSaved
<1>9. ClocksAgree'
  BY <1>2, <1>5, <1>6 DEF IInv, ClocksAgree
<1> QED BY <1>5, <1>7, <1>8, <1>9 DEF IInv

\* The session ends with the file as it is, or cut short by a crash.
LEMMA EndKeeps ==
    ASSUME IInv, Ends, saving' = "no", quitting' \in BOOLEAN,
           UNCHANGED <<has_rtc, ram, now, clock, ticking, ramDirty, rtcDirty>>,
           file' = file \/ (saving # "no" /\ \E n \in Shorts : file' = Short(n))
    PROVE  IInv'
<1>1. /\ ~on' /\ on' \in BOOLEAN /\ mbc' \in Registers /\ WindowOf(mbc')
      /\ rtc' \in Rtc /\ rtc'.base_secs = 0
  BY EndsFacts
<1>2. now \in Nat /\ file \in File /\ file.stamp <= now
  BY DEF IInv, Types
<1>3. file' \in File /\ file'.stamp <= now /\ (file' = file \/ file'.size # WithRtc)
  BY <1>2, ShortFacts
<1>4. file' = file \/ ramDirty
  BY DEF IInv, RamIsSaved
<1>5. Types'
  BY <1>1, <1>2, <1>3 DEF IInv, Types
<1>6. RamIsSaved'
  BY <1>4 DEF IInv, RamIsSaved
<1>7. ClocksAgree'
  BY <1>1, <1>3 DEF IInv, ClocksAgree
<1> QED BY <1>1, <1>5, <1>6, <1>7 DEF IInv

LEMMA OpenFailsKeeps ==
    ASSUME IInv, OpenFails
    PROVE  IInv'
<1>1. quitting' \in BOOLEAN /\ saving' = "no"
  BY DEF OpenFails, Running, IInv, Types
<1> QED BY <1>1, EndKeeps DEF OpenFails, ghosts

LEMMA CrashKeeps ==
    ASSUME IInv, Crash
    PROVE  IInv'
<1>1. file' = file \/ (saving # "no" /\ \E n \in Shorts : file' = Short(n))
  BY DEF Crash
<1> QED BY <1>1, EndKeeps DEF Crash, ghosts

\* A stored byte changes the RAM or the clock, and the ghosts with it.
LEMMA WriteWindowKeeps ==
    ASSUME IInv, NEW data \in Bytes \cup RtcBytes, WriteWindow(data)
    PROVE  IInv'
<1>1. /\ on /\ saving = "no" /\ data \in Nat
      /\ UNCHANGED <<on, mbc, has_rtc, file, saving, quitting, now>>
  BY BytesAssumption DEF WriteWindow, Running, session
<1>2. WindowOf(mbc)'
  BY <1>1 DEF IInv, WindowOf
<1>3. ASSUME NEW bank \in RamBanks, NEW byte \in Nat, ram' = [ram EXCEPT ![bank] = byte],
             ramDirty' = TRUE, UNCHANGED <<rtc, clock, ticking, rtcDirty>>
      PROVE  IInv'
  <2>1. ram' \in [RamBanks -> Nat] /\ ramDirty' \in BOOLEAN
    BY <1>3 DEF IInv, Types
  <2>2. Types'
    BY <1>1, <1>3, <2>1 DEF IInv, Types
  <2>3. RamIsSaved'
    BY <1>1, <1>3 DEF RamIsSaved
  <2>4. ClocksAgree'
    BY <1>1, <1>3 DEF IInv, ClocksAgree
  <2> QED BY <1>2, <2>2, <2>3, <2>4 DEF IInv
<1>4. CASE StoreMapped(data)
  <2>1. mbc.ram \in RamBanks
    BY <1>4 DEF StoreMapped, IInv, Types, Registers, Pages
  <2> QED BY <1>1, <1>3, <1>4, <2>1 DEF StoreMapped
<1>5. CASE StoreNibble(data)
  <2>1. 0 \in RamBanks /\ data % 16 \in Nat
    BY <1>1 DEF RamBanks
  <2> QED BY <1>3, <1>5, <2>1 DEF StoreNibble
<1>6. CASE StoreRtc(data)
  <2> DEFINE select == mbc.rtc_select
             stored == Stored(select, data)
             written == [rtc EXCEPT !.regs[select - 7] = stored]
  <2>1. select \in 8 .. 12 /\ rtc \in Rtc /\ now \in Nat
    BY <1>6 DEF StoreRtc, IInv, Types, Registers, Selects
  <2>2. stored \in Nat
    BY <1>1, <2>1 DEF Stored, Bit0
  <2>3. /\ rtc' = mbc3_reset_rtc_reference(written, now) /\ clock' = Shown(rtc', now)
        /\ ticking' = ~rtc'.halted /\ rtcDirty' = TRUE /\ UNCHANGED <<ram, ramDirty>>
    BY <1>6 DEF StoreRtc
  <2> HIDE DEF stored
  <2>4. written \in Rtc
    BY <2>1, <2>2 DEF Rtc, Regs
  <2> HIDE DEF written
  <2>5. rtc' \in Rtc /\ rtc'.base_secs = now
    BY <2>1, <2>3, <2>4, SecondsType DEF mbc3_reset_rtc_reference, Rtc
  <2>6. clock' = Count(rtc', now) % Cycle /\ clock' \in Nat
    BY <2>1, <2>3, <2>5, UpdateFacts, ModuloType
  <2>7. ticking' \in BOOLEAN /\ rtcDirty' \in BOOLEAN
    BY <2>3
  <2>8. Types'
    BY <1>1, <2>1, <2>3, <2>5, <2>6, <2>7 DEF IInv, Types
  <2>9. RamIsSaved'
    BY <1>1, <2>3 DEF IInv, RamIsSaved
  <2>10. ClocksAgree'
    BY <1>1, <2>3, <2>6 DEF ClocksAgree
  <2> QED BY <1>2, <2>8, <2>9, <2>10 DEF IInv
<1> QED BY <1>4, <1>5, <1>6 DEF WriteWindow

\* A write of a register moves the window; a latch only computes the clock.
LEMMA WriteRegisterKeeps ==
    ASSUME IInv, NEW addr \in {0, 16384, 24576}, NEW data \in Nat, WriteRegister(addr, data)
    PROVE  IInv'
<1>1. /\ on /\ saving = "no" /\ mbc' = mbc_write(mbc, addr, data)
      /\ UNCHANGED <<on, has_rtc, ram, file, saving, quitting, now, clock, ticking,
                     ramDirty, rtcDirty>>
  BY DEF WriteRegister, Running, ghosts
<1>2. mbc' \in Registers /\ WindowOf(mbc')
  <2>1. mbc \in Registers /\ WindowOf(mbc)
    BY DEF IInv, Types
  <2>2. InReach(mbc, addr, data)
    BY DEF WriteRegister, InReach
  <2>3. /\ mbc_write(mbc, addr, data) \in Registers
        /\ WindowOf(mbc_write(mbc, addr, data))
    BY <2>1, <2>2, WriteKeepsWindow
  <2> QED BY <1>1, <2>3
<1>3. rtc \in Rtc /\ rtc.base_secs <= now /\ now \in Nat
  BY DEF IInv, Types
<1>4. /\ rtc' \in Rtc /\ rtc'.base_secs = rtc.base_secs /\ rtc'.halted = rtc.halted
      /\ Count(rtc', now) = Count(rtc, now)
  <2> DEFINE u == IF has_rtc THEN mbc3_update_rtc(rtc, now) ELSE rtc
             v == [u EXCEPT !.latched = u.regs]
  <2>1. /\ u \in Rtc /\ u.base_secs = rtc.base_secs /\ u.halted = rtc.halted
        /\ Count(u, now) = Count(rtc, now)
    BY <1>3, UpdateFacts
  <2>2. rtc' = v \/ rtc' = rtc
    BY DEF WriteRegister, mbc3_latch_rtc
  <2> HIDE DEF u
  <2>3. /\ v \in Rtc /\ v.base_secs = u.base_secs /\ v.halted = u.halted
        /\ v.regs = u.regs /\ v.base = u.base
    BY <2>1 DEF Rtc
  <2> HIDE DEF v
  <2>4. Count(v, now) = Count(u, now)
    BY <2>3 DEF Count
  <2> QED BY <1>3, <2>1, <2>2, <2>3, <2>4
<1>5. Types'
  BY <1>1, <1>2, <1>3, <1>4 DEF IInv, Types
<1>6. RamIsSaved'
  BY <1>1 DEF IInv, RamIsSaved
<1>7. ClocksAgree'
  BY <1>1, <1>4 DEF IInv, ClocksAgree
<1> QED BY <1>2, <1>5, <1>6, <1>7 DEF IInv

\* A session starts from the file: the RAM is what was saved, and the clock
\* counts from the time of the save.
LEMMA StartKeeps ==
    ASSUME IInv, StartEmulation
    PROVE  IInv'
<1>1. /\ ~on /\ on' = TRUE /\ mbc' = mbc_new(mbc.kind) /\ ram' = LoadedRam(file)
      /\ rtc' = LoadedRtc(file, now)
      /\ clock' = (IF rtcDirty \/ file.size < WithRtc THEN Shown(rtc', now) ELSE clock)
      /\ ticking' = ~rtc'.halted /\ ramDirty' = ~Loads(file) /\ rtcDirty' = FALSE
      /\ UNCHANGED <<has_rtc, file, saving, quitting, now>>
  BY DEF StartEmulation
<1>2. /\ file \in File /\ file.stamp <= now /\ now \in Nat /\ file.stamp \in Nat
      /\ file.size \in 0 .. WithRtc /\ file.ram \in [RamBanks -> Nat]
      /\ file.rtc \in Regs /\ file.halted \in BOOLEAN /\ clock \in Nat
      /\ mbc.kind \in {1, 2, 3, 5}
  BY DEF IInv, Types, File, Registers
<1>3. mbc' \in Registers /\ WindowOf(mbc')
  BY <1>1, <1>2 DEF mbc_new, Registers, Selects, Pages, RamBanks, WindowOf, NoRam, NoRtc
<1>4. ram' \in [RamBanks -> Nat] /\ (Loads(file) => ram' = file.ram)
  <2>1. ram' = [b \in RamBanks |-> IF b < file.size THEN file.ram[b] ELSE 0]
    BY <1>1 DEF LoadedRam
  <2>2. ASSUME Loads(file) PROVE ram' = file.ram
    <3>1. \A b \in RamBanks : b < file.size
      BY <1>2, <2>2, Sizes DEF Loads, RamBanks
    <3>2. ram' = [b \in RamBanks |-> file.ram[b]]
      BY <2>1, <3>1
    <3> QED BY <1>2, <3>2
  <2> QED BY <1>2, <2>1, <2>2
<1>5. saving = "no"
  BY <1>1 DEF IInv, RamIsSaved, Types
<1>6. RamIsSaved'
  BY <1>1, <1>4, <1>5 DEF RamIsSaved, Loads
<1>7. ASSUME ~has_rtc \/ file.size < WithRtc
      PROVE  rtc' = NewRtc(now)
  BY <1>1, <1>7 DEF LoadedRtc
<1>8. ASSUME has_rtc, file.size = WithRtc
      PROVE  /\ rtc' \in Rtc /\ rtc'.base_secs <= now /\ rtc'.halted = file.halted
             /\ Count(rtc', now) = FileCount(file, now)
  <2>1. Loads(file)
    BY <1>8, Sizes DEF Loads
  <2>2. rtc' = [regs |-> file.rtc, latched |-> NoRegs, base_secs |-> file.stamp,
                base |-> Seconds(file.rtc), halted |-> file.halted]
    BY <1>1, <1>8, <2>1, Sizes DEF LoadedRtc
  <2>3. NoRegs \in Regs /\ Seconds(file.rtc) \in Nat
    BY <1>2, SecondsType DEF NoRegs, Regs
  <2>4. rtc' \in Rtc
    BY <1>2, <2>2, <2>3 DEF Rtc
  <2>5. /\ rtc'.regs = file.rtc /\ rtc'.base_secs = file.stamp
        /\ rtc'.base = Seconds(file.rtc) /\ rtc'.halted = file.halted
    BY <2>2
  <2>6. Count(rtc', now) = FileCount(file, now)
    BY <2>3, <2>5 DEF Count, FileCount
  <2> QED BY <1>2, <2>4, <2>5, <2>6
<1>9. rtc' \in Rtc /\ rtc'.base_secs <= now
  <2>1. CASE has_rtc /\ file.size = WithRtc
    BY <1>8, <2>1
  <2>2. CASE ~has_rtc \/ file.size < WithRtc
    BY <1>2, <1>7, <2>2, NewRtcFacts
  <2> QED BY <1>2, <2>1, <2>2, Sizes
<1>10. Shown(rtc', now) = Count(rtc', now) % Cycle /\ Count(rtc', now) \in Nat
  BY <1>2, <1>9, UpdateFacts
<1>11. clock' \in Nat
  BY <1>1, <1>2, <1>10, ModuloType
<1>12. Types'
  <2>1. /\ on' \in BOOLEAN /\ ticking' \in BOOLEAN /\ ramDirty' \in BOOLEAN
        /\ rtcDirty' \in BOOLEAN
    BY <1>1 DEF Loads
  <2> QED BY <1>1, <1>3, <1>4, <1>9, <1>11, <2>1 DEF IInv, Types
<1>13. ClocksAgree'
  <2> SUFFICES ASSUME has_rtc PROVE ClocksAgree'
    BY <1>1 DEF ClocksAgree
  <2>1. CASE rtcDirty \/ file.size < WithRtc
    <3>1. clock' = Count(rtc', now) % Cycle /\ ticking' = ~rtc'.halted
      BY <1>1, <1>10, <2>1
    <3>2. file.size = WithRtc =>
             FileCount(file, now) % Cycle = clock' /\ ticking' = ~file.halted
      BY <1>8, <3>1
    <3> QED BY <1>1, <3>1, <3>2 DEF ClocksAgree
  <2>2. CASE ~rtcDirty /\ file.size = WithRtc
    <3>1. FileCount(file, now) % Cycle = clock
      BY <2>2 DEF IInv, ClocksAgree
    <3>2. clock' = clock
      BY <1>1, <1>2, <2>2, Sizes
    <3>3. /\ Count(rtc', now) % Cycle = clock' /\ FileCount(file, now) % Cycle = clock'
          /\ ticking' = ~rtc'.halted /\ ticking' = ~file.halted
      BY <1>1, <1>8, <2>2, <3>1, <3>2
    <3> QED BY <1>1, <3>3 DEF ClocksAgree
  <2> QED BY <1>2, <2>1, <2>2, Sizes
<1> QED BY <1>3, <1>6, <1>12, <1>13 DEF IInv

\* Time passes for the clock, and for the one in the file.
LEMMA TimeKeeps ==
    ASSUME IInv, NEW span \in Spans, TimePasses(span)
    PROVE  IInv'
<1>1. /\ now' = now + span /\ clock' = (IF ticking THEN (clock + span) % Cycle ELSE clock)
      /\ UNCHANGED <<on, mbc, has_rtc, ram, rtc, file, saving, quitting, ticking, ramDirty,
                     rtcDirty>>
  BY DEF TimePasses, session
<1>2. span \in Nat /\ now \in Nat /\ clock \in Nat
  BY TimeAssumption DEF IInv, Types
<1>3. now' \in Nat /\ now <= now' /\ clock' \in Nat
  <2>1. (clock + span) % Cycle \in Nat
    BY <1>2, ModuloType
  <2> QED BY <1>1, <1>2, <2>1
<1>4. Types'
  <2>1. rtc.base_secs <= now' /\ file.stamp <= now'
    BY <1>2, <1>3 DEF IInv, Types, Rtc, File
  <2> QED BY <1>1, <1>3, <2>1 DEF IInv, Types
<1>5. RamIsSaved' /\ WindowOf(mbc)'
  BY <1>1 DEF IInv, RamIsSaved, WindowOf
<1>6. ASSUME NEW n \in Nat, n % Cycle = clock, ticking
      PROVE  (n + span) % Cycle = clock'
  BY <1>1, <1>2, <1>6, LaterModulo
<1>7. ClocksAgree'
  <2> SUFFICES ASSUME has_rtc PROVE ClocksAgree'
    BY <1>1 DEF ClocksAgree
  <2>1. ASSUME on
        PROVE  Count(rtc, now') % Cycle = clock' /\ ticking = ~rtc.halted
    <3>1. rtc \in Rtc /\ rtc.base_secs <= now /\ rtc.base_secs \in Nat /\ rtc.base \in Nat
      BY DEF IInv, Types, Rtc
    <3>2. /\ Count(rtc, now) % Cycle = clock /\ ticking = ~rtc.halted
          /\ Count(rtc, now) \in Nat
      BY <1>2, <2>1, <3>1, UpdateFacts DEF IInv, ClocksAgree
    <3>3. CASE ticking
      <4>1. Count(rtc, now') = Count(rtc, now) + span
        <5>1. ~rtc.halted
          BY <3>2, <3>3
        <5> QED BY <1>1, <1>2, <3>1, <5>1 DEF Count
      <4> QED BY <1>6, <3>2, <3>3, <4>1
    <3>4. CASE ~ticking
      <4>1. Count(rtc, now') = Count(rtc, now)
        BY <3>2, <3>4 DEF Count
      <4> QED BY <1>1, <3>2, <3>4, <4>1
    <3> QED BY <3>3, <3>4
  <2>2. ASSUME ~rtcDirty, file.size = WithRtc
        PROVE  FileCount(file, now') % Cycle = clock' /\ ticking = ~file.halted
    <3>1. /\ file.stamp \in Nat /\ file.stamp <= now /\ Seconds(file.rtc) \in Nat
      BY SecondsType DEF IInv, Types, File
    <3>2. FileCount(file, now) % Cycle = clock /\ ticking = ~file.halted
      BY <2>2 DEF IInv, ClocksAgree
    <3>3. CASE ticking
      <4>1. /\ FileCount(file, now) \in Nat
            /\ FileCount(file, now') = FileCount(file, now) + span
        <5>1. ~file.halted
          BY <3>2, <3>3
        <5> QED BY <1>1, <1>2, <3>1, <5>1 DEF FileCount
      <4> QED BY <1>6, <3>2, <3>3, <4>1
    <3>4. CASE ~ticking
      <4>1. FileCount(file, now') = FileCount(file, now)
        BY <3>2, <3>4 DEF FileCount
      <4> QED BY <1>1, <3>2, <3>4, <4>1
    <3> QED BY <3>3, <3>4
  <2> QED BY <1>1, <2>1, <2>2 DEF ClocksAgree, Count
<1> QED BY <1>4, <1>5, <1>7 DEF IInv

THEOREM StepKeeps == IInv /\ [Next]_vars => IInv'
<1> SUFFICES ASSUME IInv, [Next]_vars PROVE IInv'
  OBVIOUS
<1>1. ASSUME NEW w \in RegisterWrites, WriteRegister(w[1], w[2]) PROVE IInv'
  <2>1. w[1] \in {0, 16384, 24576} /\ w[2] \in Nat
    BY DEF RegisterWrites
  <2> QED BY <1>1, <2>1, WriteRegisterKeeps
<1>2. ASSUME NEW data \in Bytes \cup RtcBytes, WriteWindow(data) PROVE IInv'
  BY <1>2, WriteWindowKeeps
<1>3. ASSUME NEW quit \in BOOLEAN, OpenSave(quit) PROVE IInv'
  BY <1>3, OpenSaveKeeps
<1>4. CASE WriteRam
  BY <1>4, WriteRamKeeps
<1>5. CASE WriteRtc
  BY <1>5, WriteRtcKeeps
<1>6. CASE SaveFails
  BY <1>6, SaveFailsKeeps
<1>7. CASE OpenFails
  BY <1>7, OpenFailsKeeps
<1>8. CASE Crash
  BY <1>8, CrashKeeps
<1>9. CASE StartEmulation
  BY <1>9, StartKeeps
<1>10. ASSUME NEW span \in Spans, TimePasses(span) PROVE IInv'
  BY <1>10, TimeKeeps
<1>11. CASE UNCHANGED vars
  BY <1>11 DEF vars, IInv, Types, WindowOf, RamIsSaved, ClocksAgree, Count, FileCount
<1> QED
  BY <1>1, <1>2, <1>3, <1>4, <1>5, <1>6, <1>7, <1>8, <1>9, <1>10, <1>11 DEF Next

-----------------------------------------------------------------------------
THEOREM InvariantHolds == Spec => []IInv
BY InitEstablishes, StepKeeps, PTL DEF Spec

\* For every controller and every sequence of writes the window shows what the
\* registers select.
THEOREM WindowIsRight == Spec => []WindowReadsSelected
<1>1. IInv => WindowReadsSelected
  <2> SUFFICES ASSUME IInv PROVE WindowReadsSelected
    OBVIOUS
  <2>1. /\ WindowOf(mbc) /\ mbc.kind \in {1, 2, 3, 5} /\ mbc.ram_bank \in RamBanks
        /\ mbc.ram_enabled \in BOOLEAN /\ NoRam \notin RamBanks
    BY DEF IInv, Types, Registers, NoRam, RamBanks
  <2>2. CASE ~mbc.ram_enabled
    BY <2>1, <2>2 DEF WindowReadsSelected, WindowRead, WindowOf
  <2>3. CASE mbc.ram_enabled /\ mbc.kind = 2
    BY <2>1, <2>3 DEF WindowReadsSelected, WindowRead, WindowOf
  <2>4. CASE mbc.ram_enabled /\ mbc.kind # 2 /\ mbc.rtc_select # NoRtc
    BY <2>1, <2>4 DEF WindowReadsSelected, WindowRead, WindowOf
  <2>5. CASE mbc.ram_enabled /\ mbc.kind # 2 /\ mbc.rtc_select = NoRtc
    BY <2>1, <2>5 DEF WindowReadsSelected, WindowRead, WindowOf
  <2> QED BY <2>2, <2>3, <2>4, <2>5
<1> QED BY <1>1, InvariantHolds, PTL

\* However long the clock runs, in one session or over many, it shows the time
\* since it was set.
THEOREM ClockIsRight == Spec => []ClockKeepsTime
<1>1. IInv => ClockKeepsTime
  <2> SUFFICES ASSUME IInv, on, has_rtc PROVE Shown(rtc, now) = clock
    BY DEF ClockKeepsTime
  <2>1. rtc \in Rtc /\ now \in Nat /\ rtc.base_secs <= now
    BY DEF IInv, Types
  <2>2. Count(rtc, now) % Cycle = clock
    BY DEF IInv, ClocksAgree
  <2> QED BY <2>1, <2>2, UpdateFacts
<1> QED BY <1>1, InvariantHolds, PTL

\* Whatever saves are cut short, a RAM that is not dirty is in the file.
THEOREM SavesAreWhole == Spec => []SavedGameReloads
<1>1. IInv => SavedGameReloads
  <2> SUFFICES ASSUME IInv, ~ramDirty PROVE Loads(file) /\ LoadedRam(file) = ram
    BY DEF SavedGameReloads
  <2>1. /\ file.size >= RamSize /\ file.ram = ram /\ ram \in [RamBanks -> Nat]
        /\ file.size \in 0 .. WithRtc
    BY DEF IInv, RamIsSaved, Types, File
  <2>2. \A b \in RamBanks : b < file.size
    BY <2>1, Sizes DEF RamBanks
  <2>3. LoadedRam(file) = [b \in RamBanks |-> ram[b]]
    BY <2>1, <2>2 DEF LoadedRam
  <2> QED BY <2>1, <2>3 DEF Loads
<1> QED BY <1>1, InvariantHolds, PTL

=============================================================================
