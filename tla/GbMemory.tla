------------------------------ MODULE GbMemory ------------------------------
(***************************************************************************)
(* The Game Boy's memory as compiled code and the C core share it: host    *)
(* arrays, two page tables whose entries are biased so that entry plus the *)
(* sign-extended address is a host pointer, and dmg_read/dmg_write for     *)
(* everything that is not mapped.  A machine m is a record; the fields     *)
(* used here are                                                           *)
(*   mem    host bytes written so far (a partial function; Boot gives the  *)
(*          rest),                                                         *)
(*   rp, wp dmg->read_page and dmg->write_page,                            *)
(*   calls  the C calls made, with the cycle count they could see,         *)
(*   mbc    the writes that changed the MBC, as <<address, value>>.        *)
(* The code cache's part of dmg_write_slow is in CodeCache.tla; a page     *)
(* protected by it is one that is readable and not writable here.          *)
(***************************************************************************)
EXTENDS Words

\* the upper halves of the host addresses of the arrays
RomArea  == 256
VramArea == 257
WramArea == 258
HramArea == 259
SlowArea == 260   \* what only C reaches: I/O, OAM, cartridge RAM, MBC
CtxArea  == 261   \* struct jit_context
DmgArea  == 262   \* struct dmg, for its page tables
FnArea   == 263   \* C functions, named by the context field that holds them

wram_base == <<WramArea, 0>>
hram_base == <<HramArea, 0>>
joyp_ptr  == <<SlowArea, 65280>>
read_table  == <<DmgArea, 128>>
write_table == <<DmgArea, 1152>>

NULL == <<0, 0>>

\* The bytes of a host array nobody wrote yet; a context field that holds a
\* function pointer reads as that function.
Boot(at) ==
    IF at[1] = CtxArea
    THEN <<1, FnArea - 256, 0, 4 * (at[2] \div 4)>>[(at[2] % 4) + 1]
    ELSE (7 * at[2] + at[2] \div 256 + at[1]) % 256

TableByte(m, at) ==
    LET entry == IF at[2] >= write_table[2] THEN m.wp[(at[2] - write_table[2]) \div 4]
                                            ELSE m.rp[(at[2] - read_table[2]) \div 4]
        half  == entry[((at[2] % 4) \div 2) + 1]
    IN  IF at[2] % 2 = 0 THEN Hi8(half) ELSE Lo8(half)

Peek(m, at) == IF at \in DOMAIN m.mem THEN m.mem[at]
               ELSE IF at[1] = DmgArea THEN TableByte(m, at)
               ELSE Boot(at)

Poke(m, at, byte) ==
    [m EXCEPT !.mem = [x \in DOMAIN m.mem \cup {at} |-> IF x = at THEN byte ELSE m.mem[x]]]

PAGE_BIAS(ptr, page) == SubL(ptr, SextW(4096 * page))

(* dmg_init_pages, with WRAM bank `bank` at $d000 (cgb_update_wram_bank)   *)
(* and the pages of Protected unmapped for writing (they hold code).       *)
dmg_read_pages(bank) ==
    [p \in 0..15 |->
        CASE p < 8         -> PAGE_BIAS(<<RomArea, 4096 * p>>, p)
          [] p \in {8, 9}  -> PAGE_BIAS(<<VramArea, 4096 * (p - 8)>>, p)
          [] p \in {12,14} -> PAGE_BIAS(wram_base, p)
          [] p = 13        -> PAGE_BIAS(<<WramArea, 4096 * bank>>, 13)
          [] OTHER         -> NULL]

dmg_write_pages(bank, Protected) ==
    [p \in 0..15 |-> IF p < 8 \/ p \in Protected THEN NULL ELSE dmg_read_pages(bank)[p]]

(* u8 dmg_read_slow(dmg, address) as far as memory goes: the top of the    *)
(* echo, HRAM, and the rest behind C.                                      *)
SlowCell(m, addr) ==
    IF addr >= 57344 /\ addr < 65024
    THEN AddL(m.rp[(addr - 8192) \div 4096], SextW(addr - 8192))
    ELSE IF addr >= 65408 THEN AddL(hram_base, <<0, addr - 65408>>)
    ELSE <<SlowArea, addr>>

\* where the byte at a GB address lives, for every access that is not a
\* write to the MBC
Cell(m, addr) == IF m.rp[addr \div 4096] # NULL
                 THEN AddL(m.rp[addr \div 4096], SextW(addr))
                 ELSE SlowCell(m, addr)

dmg_read(m, addr) == Peek(m, Cell(m, addr))

(* rom->mbc->write, with dmg_update_rom_bank behind it: the ROM bank that  *)
(* is mapped is kept in a byte of the context.  Selecting the mapped bank  *)
(* again changes nothing.                                                  *)
bank_reg == 8192..16383
rom_bank == <<CtxArea, 17>>
dmg_mbc_write(m, addr, data) ==
    LET logged == [m EXCEPT !.mbc = Append(@, <<addr, data>>)]
    IN  IF addr \notin bank_reg THEN logged
        ELSE IF data = Peek(m, rom_bank) THEN m
        ELSE Poke(logged, rom_bank, IF data = 0 THEN 1 ELSE data)

dmg_write(m, addr, data) ==
    IF addr < 32768 THEN dmg_mbc_write(m, addr, data)
    ELSE Poke(m, Cell(m, addr), data)

dmg_read16(m, addr) == dmg_read(m, addr) + 256 * dmg_read(m, Wrap16(addr + 1))

dmg_write16(m, addr, data) ==
    dmg_write(dmg_write(m, addr, Lo8(data)), Wrap16(addr + 1), Hi8(data))
=============================================================================
