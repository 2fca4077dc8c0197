-------------------------------- MODULE Mbc --------------------------------
(* The bank registers of the cartridge (src/mbc.c) and the two windows they
   select: which ROM bank is read at $4000-$7fff, and which bank of the save
   RAM, if any, is mapped at $a000-$bfff.  The operators take and return the
   cartridge as a record, so that the modules for the dispatcher and for the
   clock and the save file use the same registers.

   A window that is not mapped (NULL in dmg->read_page) is read and written
   through mbc_ram_read and mbc_ram_write. *)
EXTENDS Integers

LastBank == 511 \* the largest number of a ROM bank (MBC5)
LastByte == 255

NoRam == -1     \* dmg_update_ram_bank(dmg, NULL)
NoRtc == -1     \* mbc->rtc_select: the RAM is selected, no clock register

\* mbc_new clears the registers; dmg_init_pages maps ROM bank 1 and no RAM.
mbc_new(kind) ==
    [kind |-> kind, rom_bank |-> 0, ram_bank |-> 0, ram_enabled |-> FALSE,
     rtc_select |-> NoRtc, rtc_latch_state |-> 0, rom |-> 1, ram |-> NoRam]

dmg_update_rom_bank(c, bank) == [c EXCEPT !.rom = bank]
dmg_update_ram_bank(c, bank) == [c EXCEPT !.ram = bank]

Within(addr, first, last) == first <= addr /\ addr <= last

OrOne(bank) == IF bank = 0 THEN 1 ELSE bank

\* Seeded error: enabling maps the RAM although a clock register is selected.
WriteEnable_IgnoreRtc(c, data) ==
    LET enabled == data % 16 = 10
    IN  IF enabled = c.ram_enabled THEN c
        ELSE dmg_update_ram_bank([c EXCEPT !.ram_enabled = enabled],
                 IF enabled THEN c.ram_bank ELSE NoRam)

\* Writes of $0000-$1fff: the window changes only when the enable changes.
WriteEnable(c, data) ==
    LET enabled == data % 16 = 10
    IN  IF enabled = c.ram_enabled THEN c
        ELSE dmg_update_ram_bank([c EXCEPT !.ram_enabled = enabled],
                 IF enabled /\ c.rtc_select = NoRtc THEN c.ram_bank ELSE NoRam)

\* A RAM bank is selected: it is mapped at once if the RAM is enabled.
SelectRam(c, bank) ==
    LET selected == [c EXCEPT !.ram_bank = bank, !.rtc_select = NoRtc]
    IN  IF c.ram_enabled THEN dmg_update_ram_bank(selected, bank) ELSE selected

mbc1_write(c, addr, data) ==
    CASE addr < 8192 -> WriteEnable(c, data)
      [] Within(addr, 8192, 16383) ->
            dmg_update_rom_bank([c EXCEPT !.rom_bank = data % 32], OrOne(data % 32))
      [] Within(addr, 16384, 24575) -> SelectRam(c, data % 4)
      [] OTHER -> c

\* Bit 8 of the address tells the two registers apart, and MBC2's RAM is
\* never mapped.
mbc2_write(c, addr, data) ==
    CASE addr < 16384 /\ (addr \div 256) % 2 = 0 ->
            [c EXCEPT !.ram_enabled = data % 16 = 10]
      [] addr < 16384 /\ (addr \div 256) % 2 = 1 ->
            dmg_update_rom_bank([c EXCEPT !.rom_bank = data % 16], OrOne(data % 16))
      [] OTHER -> c

\* Whether this write copies the clock into the latched registers.
Latches(c, addr, data) ==
    /\ c.kind = 3
    /\ Within(addr, 24576, 32767)
    /\ c.rtc_latch_state = 0
    /\ data = 1

mbc3_write(c, addr, data) ==
    CASE addr < 8192 -> WriteEnable(c, data)
      [] Within(addr, 8192, 16383) ->
            dmg_update_rom_bank([c EXCEPT !.rom_bank = data % 128], OrOne(data % 128))
      [] Within(addr, 16384, 24575) /\ data < 4 -> SelectRam(c, data)
      [] Within(addr, 16384, 24575) /\ data \in 8 .. 12 ->
            dmg_update_ram_bank([c EXCEPT !.rtc_select = data], NoRam)
      [] Within(addr, 24576, 32767) -> [c EXCEPT !.rtc_latch_state = data]
      [] OTHER -> c

\* The ROM bank has nine bits, in two registers.
mbc5_write(c, addr, data) ==
    LET low  == (c.rom_bank \div 256) * 256 + data
        high == (data % 2) * 256 + (c.rom_bank % 256)
    IN  CASE addr < 8192 -> WriteEnable(c, data)
          [] Within(addr, 8192, 12287) ->
                dmg_update_rom_bank([c EXCEPT !.rom_bank = low], low)
          [] Within(addr, 12288, 16383) ->
                dmg_update_rom_bank([c EXCEPT !.rom_bank = high], high)
          [] Within(addr, 16384, 24575) -> SelectRam(c, data % 16)
          [] OTHER -> c

\* dmg->rom->mbc->write
mbc_write(c, addr, data) ==
    CASE c.kind = 1 -> mbc1_write(c, addr, data)
      [] c.kind = 2 -> mbc2_write(c, addr, data)
      [] c.kind = 3 -> mbc3_write(c, addr, data)
      [] c.kind = 5 -> mbc5_write(c, addr, data)

============================================================================
