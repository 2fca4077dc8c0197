--------------------------- MODULE BlockDispatch ---------------------------
(* How control passes from one compiled block to the next
   (src/system6/dispatcher_asm.c, src/system6/jit.c) while the program
   switches ROM banks (src/mbc.c).

   A block ends in one of two ways.  A jump through a register, a return, or
   a jump to RAM goes to the dispatcher, which looks its target up in the
   cache of the ROM bank mapped now.  A jump or call with a fixed target in
   ROM is a patchable exit: the first time it is taken with the target
   compiled, patch_helper overwrites it with a jump straight to that block,
   which no later bank switch undoes.  Both leave for jit_run when the budget
   of the dispatch is used up or the target is not compiled.

   The cache and the JIT know a bank by its low eight bits (Key); MBC5 has
   nine. *)
EXTENDS Mbc

CONSTANTS
    Bank0,      \* the addresses below $4000 at which blocks start
    Banked,     \* those of $4000-$7fff
    Upper,      \* those of RAM below $ff80
    Hram,       \* those of $ff80 and above
    Vectors,    \* the interrupt vectors among Bank0
    Exits,      \* the pairs <<from, to>> of fixed jumps in the program
    Kinds,      \* the bank controllers: 1, 2, 3 or 5
    RomData,    \* the bytes the program writes to bank registers
    ListBanks,  \* the banks named in the saved block list
    InC         \* no block runs: control is in jit_run

Pcs == Bank0 \cup Banked \cup Upper \cup Hram

ASSUME PcAssumption ==
    /\ Bank0 \cap Banked = {} /\ Bank0 \cap Upper = {} /\ Bank0 \cap Hram = {}
    /\ Banked \cap Upper = {} /\ Banked \cap Hram = {} /\ Upper \cap Hram = {}
    /\ Vectors \subseteq Bank0
ASSUME ExitsAssumption == Exits \subseteq Pcs \X Pcs
ASSUME KindsAssumption == Kinds \subseteq {1, 2, 3, 5}
ASSUME DataAssumption  == RomData \subseteq 0 .. LastByte
ASSUME ListAssumption  == ListBanks \subseteq 0 .. LastByte

\* jit_ctx.current_rom_bank: on_rom_bank_switch keeps a u8 of the bank.
Key(bank) == bank % 256

\* A compiled block: where it starts and the ROM bank it was compiled from.
Block == [pc : Pcs, bank : 0 .. LastBank]

ASSUME InCAssumption == InC \notin Block

VARIABLES
    mbc,        \* the cartridge's registers and windows
    plain,      \* the cartridge if no bank write were skipped
    booting,    \* the block list is being replayed
    cache,      \* the blocks that a lookup can find
    patched,    \* the patched exits, as [from |-> block, to |-> block]
    running,    \* the block that runs, or InC
    pc,         \* D3
    taken,      \* fixed jumps from outside $4000-$7fff into it, with the key
    swapped     \* code in $4000-$7fff has switched its own bank away

vars == <<mbc, plain, booting, cache, patched, running, pc, taken, swapped>>

Compiled(p) == [pc |-> p, bank |-> IF p \in Banked THEN mbc.rom ELSE 0]

\* The code at the block's address is what the block was compiled from, as
\* far as eight bits of bank can tell.
Mapped(b) == b.pc \in Banked => Key(b.bank) = Key(mbc.rom)

\* Seeded error: one array for all banks.
Found_AnyBank(p) == {b \in cache : b.pc = p}

\* cache_lookup, and the dispatcher's own lookup of the same arrays.
Found(p) == {b \in cache : b.pc = p /\ Mapped(b)}

-----------------------------------------------------------------------------
(* The machine code. *)

\* D2 has reached wake_limit, or there is no code for the target.
ToC(p) ==
    /\ running' = InC
    /\ pc' = p
    /\ UNCHANGED patched

\* dispatcher_code_asm: HRAM code may have changed, so jit_run looks at it.
dispatcher(p) ==
    \/ ToC(p)
    \/ /\ p \notin Hram
       /\ \E b \in Found(p) : running' = b
       /\ pc' = p
       /\ UNCHANGED patched

Patches(b, p) == {x \in patched : x.from = b /\ x.to.pc = p}

\* patch_helper_code_asm
patch_helper(p) ==
    \E b \in Found(p) :
        /\ patched' = patched \cup {[from |-> running, to |-> b]}
        /\ running' = b
        /\ pc' = p

Untouched == UNCHANGED <<mbc, plain, booting, cache>>

\* jp hl, ret, rst through the dispatcher: a target computed at run time.
DynamicExit(p) ==
    /\ running # InC
    /\ dispatcher(p)
    /\ Untouched
    /\ UNCHANGED <<taken, swapped>>

\* A record of the jump, for the property about fixed jumps.
NoteJump(p) ==
    taken' = IF p \in Banked /\ running.pc \notin Banked
             THEN taken \cup {[from |-> running, to |-> p, key |-> Key(mbc.rom)]}
             ELSE taken

\* emit_block_exit with a target in RAM.
FixedExitToRam(p) ==
    /\ running # InC
    /\ <<running.pc, p>> \in Exits
    /\ p \in Upper \cup Hram
    /\ dispatcher(p)
    /\ Untouched
    /\ UNCHANGED <<taken, swapped>>

\* emit_patchable_exit: the budget first, then the patch or the helper.
PatchableExit(p) ==
    /\ running # InC
    /\ <<running.pc, p>> \in Exits
    /\ p \in Bank0 \cup Banked
    /\ \/ ToC(p)
       \/ /\ Patches(running, p) = {}
          /\ patch_helper(p)
       \/ \E x \in Patches(running, p) :
             /\ running' = x.to
             /\ pc' = p
             /\ UNCHANGED patched
    /\ NoteJump(p)
    /\ Untouched
    /\ UNCHANGED swapped

-----------------------------------------------------------------------------
(* Writes of the bank registers by the block that runs. *)

\* jit_init: the range of registers whose writes the compiler may skip.
BankRegister(addr) ==
    CASE mbc.kind \in {1, 3} -> Within(addr, 8192, 16383)
      [] mbc.kind = 5 -> Within(addr, 8192, 12287)
      [] OTHER -> FALSE

\* compile_ld_u16_a: no call when A is the bank mapped already.
Skipped(addr, data) == BankRegister(addr) /\ data = Key(mbc.rom)

\* ld (u16),a to a bank register, and any other store to one.
WriteBank(addr, data, fixed) ==
    /\ running # InC
    /\ mbc' = IF fixed /\ Skipped(addr, data) THEN mbc
              ELSE mbc_write(mbc, addr, data)
    /\ plain' = mbc_write(plain, addr, data)
    /\ swapped' = (swapped \/ (running.pc \in Banked /\ Key(mbc'.rom) # Key(mbc.rom)))
    /\ UNCHANGED <<booting, cache, patched, running, pc, taken>>

\* dmg_write_slow finds compiled code at the address: cache_invalidate_upper_page.
DropUpper(p) ==
    /\ running # InC
    /\ cache' = {b \in cache : b.pc # p}
    /\ UNCHANGED <<mbc, plain, booting, patched, running, pc, taken, swapped>>

-----------------------------------------------------------------------------
(* jit_run and the block list. *)

\* Seeded error: the patched jumps outlive the blocks.
Stored_KeepPatches(b) ==
    \/ cache' = cache \cup {b} /\ UNCHANGED patched
    \/ cache' = {b} /\ UNCHANGED patched

\* Whether the arena is full is left open; a full arena is emptied.
Stored(b) ==
    \/ cache' = cache \cup {b} /\ UNCHANGED patched
    \/ cache' = {b} /\ patched' = {}

jit_run ==
    /\ ~booting
    /\ running = InC
    /\ IF Found(pc) = {} THEN Stored(Compiled(pc)) ELSE UNCHANGED <<cache, patched>>
    /\ running' \in IF Found(pc) = {} THEN {Compiled(pc)} ELSE Found(pc)
    /\ UNCHANGED <<mbc, plain, booting, pc, taken, swapped>>

\* check_interrupts: the program continues at a vector.
check_interrupts(vector) ==
    /\ ~booting
    /\ running = InC
    /\ pc' = vector
    /\ UNCHANGED <<mbc, plain, booting, cache, patched, running, taken, swapped>>

\* One entry of the list; it may fail, and a block that does not compile
\* empties the arena.
jit_precompile(bank, p) ==
    LET mapped == IF p \in Banked THEN dmg_update_rom_bank(mbc, bank) ELSE mbc
        block  == [pc |-> p, bank |-> IF p \in Banked THEN bank ELSE 0]
        known  == \E b \in cache : b.pc = p /\ (p \in Banked => Key(b.bank) = bank)
    IN  /\ booting
        /\ ~known
        /\ mbc' = mapped
        /\ cache' \in {cache \cup {block}, cache, {}}
        /\ UNCHANGED <<plain, booting, patched, running, pc, taken, swapped>>

\* Seeded error: the last bank of the list stays mapped.
jit_precompile_finish_KeepBank ==
    /\ booting
    /\ booting' = FALSE
    /\ UNCHANGED <<mbc, plain, cache, patched, running, pc, taken, swapped>>

jit_precompile_finish ==
    /\ booting
    /\ booting' = FALSE
    /\ mbc' = dmg_update_rom_bank(mbc, 1)
    /\ UNCHANGED <<plain, cache, patched, running, pc, taken, swapped>>

-----------------------------------------------------------------------------
Init ==
    /\ \E kind \in Kinds : mbc = mbc_new(kind) /\ plain = mbc_new(kind)
    /\ booting = TRUE
    /\ cache = {}
    /\ patched = {}
    /\ running = InC
    /\ pc \in Bank0
    /\ taken = {}
    /\ swapped = FALSE

BankAddresses == {8192, 8448, 12288}     \* $2000, $2100 (MBC2), $3000

Next ==
    \/ \E p \in Pcs :
          DynamicExit(p) \/ FixedExitToRam(p) \/ PatchableExit(p)
    \/ \E p \in Upper \cup Hram : DropUpper(p)
    \/ \E addr \in BankAddresses, data \in RomData, fixed \in BOOLEAN :
          WriteBank(addr, data, fixed)
    \/ jit_run
    \/ \E v \in Vectors : check_interrupts(v)
    \/ \E bank \in ListBanks, p \in Bank0 \cup Banked : jit_precompile(bank, p)
    \/ jit_precompile_finish

Spec == Init /\ [][Next]_vars

-----------------------------------------------------------------------------
(* Properties. *)

TypeOK ==
    /\ mbc.kind \in Kinds
    /\ mbc.rom_bank \in 0 .. LastBank /\ mbc.rom \in 0 .. LastBank
    /\ plain.rom_bank \in 0 .. LastBank /\ plain.rom \in 0 .. LastBank
    /\ booting \in BOOLEAN /\ swapped \in BOOLEAN
    /\ cache \subseteq Block
    /\ patched \subseteq [from : Block, to : Block]
    /\ running \in Block \cup {InC}
    /\ pc \in Pcs
    /\ taken \subseteq [from : Block, to : Pcs, key : 0 .. LastByte]

\* A patched jump leads to a block that a lookup could still find in its own
\* bank: clearing the arena takes the jumps with the blocks, and nothing that
\* can be dropped alone (RAM) is ever jumped to.
PatchedCodeIsCached ==
    \A x \in patched : x.to \in cache /\ x.to.pc \in Bank0 \cup Banked

\* Every fixed jump into the switched region was only ever taken with one bank
\* mapped, and code there never switched itself away.
OneBankPerJump ==
    /\ ~swapped
    /\ \A x, y \in taken : x.from = y.from /\ x.to = y.to => x.key = y.key

\* The claim of the comment in patch_helper: a patched jump that ignores the
\* bank is harmless unless "bank0 code with a hardcoded jp/call ... where the
\* intended target varies by bank" exists.  Without such a jump, the code that
\* runs is that of the bank mapped.
RunsMappedCode == OneBankPerJump /\ running # InC => Mapped(running)

\* Leaving out writes of the bank that is mapped already does not change what
\* is mapped, now or later (for MBC5 see SkipsUnseen).
SkipsUnseenButMbc5 == mbc.kind # 5 /\ ~booting => mbc.rom = plain.rom

\* The same of every controller: "skip the call when A already holds the
\* current effective bank".
SkipsUnseen == ~booting => mbc.rom = plain.rom

============================================================================
