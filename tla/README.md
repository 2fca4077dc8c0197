# gray-brick, in TLA+

gray-brick is a Game Boy emulator for 68k Macintoshes: a JIT compiler from SM83
to 68k code, a model of the Game Boy around it, and the Macintosh program that
runs runs both. This directory models the parts in which the order of events
matters and the code the compiler generates, checks them with TLC on small instances, and proves what matters most
with TLAPS for every value of the constants.

All paths below are relative to the repository.

## 1. The system

### Components, their state, and how they meet

| component | source | state | operations |
|---|---|---|---|
| code cache, upper half | `system6/cache.c`, `system6/jit.c`, `src/dmg.c` | `upper_cache`, `upper_page_lo/hi/reach`, `upper_4k_code`, the three page tables | `cache_lookup`, `cache_store`, `cache_mark_upper_range`, `cache_invalidate_upper_page`, `dmg_write_slow`, `dmg_map_upper_page` |
| code in HRAM | `system6/cache.c` | `hram_snapshot`, `hram_is_code`, `hram_has_code` | `hram_snapshot_valid` at each lookup, `cache_mark_upper_range` |
| arena and recovery | `system6/arena.c`, `system6/jit.c` | `arena_ptr`, bank arrays, cached pointers, `jit_halted` | `arena_alloc`, `arena_shrink`, `jit_run`, `jit_precompile`, `jit_clear_all_blocks` |
| events and interrupts | `src/dmg.c`, `system6/jit.c` | `frame_cycles`, `event_deadline[]`, the timer, LCD and interrupt registers, `wake_limit`, D2 | register reads and writes, `dmg_sync_hw`, `dmg_event_fire`, `check_interrupts`, `jit_handle_stop` |
| compiled waits | `compiler/timing.c` | D2, `frame_cycles`, `wake_limit` | HALT, HRAM idle loops, LY waits, delay loops |
| dispatcher, patching | `system6/dispatcher_asm.c` | patched exits, `current_rom_bank` | lookup by region, patch after a cached hit |
| cartridge | `src/mbc.c` | bank registers, latched clock, RAM | `mbc_write`, `mbc_save_ram`, `mbc_load_ram` |
| CGB | `src/cgb.c`, `src/dmg.c` | banks, HDMA, speed | register writes, HDMA catch-up |
| raster log | `src/dmg.c`, `src/lcd.c` | the log of mid-frame writes | record, replay when the frame is rendered |
| sound generator | `src/audio.c` | channels, sequencer | `audio_write`, `audio_generate` |
| sound output | `system6/audio_mac.c` | `evq` and its indexes, sample clocks | main loop puts, sound interrupt takes; pacing, watchdog |
| main loop | `system6/emulator.c` | pacing clocks, input | `jit_run` until the user stops |
| compiler | `compiler/*.c` | the block under construction; at run time the 68000's registers, the page tables and `jit_ctx` | one function per group of opcodes, `compile_block`, the shared helpers of `interop.c` |

They meet in these ways:

- `jit_run` (system6/jit.c:457) looks the program counter up in the cache,
  compiles what is missing into the arena, enters native code, and afterwards
  calls `dmg_sync_hw`, `check_interrupts` and `update_wake_limit`.
- Native code runs from block to block on its own and compares D2 with
  `wake_limit` in the dispatcher. It calls `dmg_read_slow` and `dmg_write_slow`
  for registers and for pages without a mapping, and these change deadlines,
  page tables, and the cache under the running code.
- The bank registers of the cartridge and the CGB go through
  `dmg_map_upper_page`, which must respect what the cache has protected.
- The sound interrupt runs between any two instructions of the main loop, and
  shares the queue `evq` and a few clocks with it. Everything else is one
  thread.

### What is hard, and what makes each part correct

- Code cache: blocks overlap, span pages, are entered at loop heads, are seen
  through echo addresses, and are dropped by page. *Correct when* a store to
  what a cached entry was compiled from drops the entry, whatever order blocks
  were compiled, banks switched and pages dropped in.
- HRAM: stores are not announced at all. *Correct when* a lookup never returns
  code whose source has changed.
- Arena: memory runs out at any allocation, and a bank's array may be allocated
  while a block is being compiled. *Correct when* memory is never handed out
  twice, cached pointers lead into live blocks, and a full arena never stops the
  program if what is needed fits at all.
- Events: time only moves when compiled code exits, registers are computed when
  they are read, and the dispatch compares its cycles with a limit computed
  before it began. *Correct when* an observer of the registers and of the
  interrupts cannot tell this from hardware that counts every cycle, and every
  deadline that could interrupt ends the dispatch.
- Waits: D2 is set rather than added to. *Correct when* the program is left where
  the loop it wrote would have left it, at the same time, and no deadline is
  skipped.
- Generated code: GB registers share 68000 registers, flags live in the 68000's
  condition codes or in D7, cycles are added late, memory is reached through a
  host pointer or through C. *Correct when* each instruction's code does what the
  GB's CPU does, and every call into C sees the exact time.
- Patching: a patched exit skips the lookup. *Correct when* the code it enters
  is that of the bank that is mapped.
- Sound output: one producer, one consumer in an interrupt, time stamps.
  *Correct when* register writes take effect in the order they were made, and
  the main loop does not wait for an interrupt that has stopped.
- Cartridge, HDMA, raster log: lazy catch-up; *correct when* the result is the
  one an eager machine would have had.

The hazards, each at its line, are in `PROJECT.json`; the ones with no property
say why.

## 2. Plan

The order is by how much of the emulator depends on a part and by how little
tests can reach it.

1. `CodeCache`, `HramCode`: when cached code is stale. **Done, proved.**
2. `JitArena`: memory of compiled code and recovery. **Done, proved.**
3. `EventSched` refining `TimerHardware`: time, deadlines, interrupts.
   **Done; safety and the refinement proved.**
4. `AudioQueue` refining `AudioWrites`: `evq` between the main loop and the
   sound interrupt, the full queue, pacing and the watchdog. **Done; safety and
   the refinement proved.**
5. `WaitLoops`: `compiler/timing.c` composed with `EventSched`. **Done; safety
   proved.**
6. `BlockDispatch`: lookup, patching, ROM banks, and the bank writes the compiler
   leaves out. **Done, proved.**
7. `Cartridge` over `Mbc`: bank registers, RAM window, clock, save file, crashes.
   **Done, proved.**
8. `FrameBeam`: HBLANK DMA and the raster log, both caught up late, against an
   eager machine. **Done; safety proved.**
9. `CompiledCode`: the code of every opcode against the GB's CPU. **Done,
   model-checked.** Left: the loops of timing.c inside of a block (their timing
   is in `WaitLoops`), DAA after anything but an addition or subtraction.
10. `AudioUnits`: length, envelope, sweep as the generator runs them.
11. `MainLoop`: pacing against the vertical retrace with sound off.

Theorems worth proving, beyond those in section 5: of every opcode's code in
`CompiledCode`, that the flags it leaves are the CPU's. They need induction over
the steps of a block, or one proof for each opcode.

## 3. Modules

| module | models | extends |
|---|---|---|
| `CodeCache` | cache.c's page ranges with jit.c and dmg.c around them | |
| `MCCodeCache` | a small address space with echo pages and a banked page | `CodeCache` |
| `CodeCacheProofs` | theorems | `CodeCache`, TLAPS |
| `HramCode`, `HramCodeProofs` | the HRAM snapshot | |
| `JitArena`, `JitArenaProofs` | arena.c, `cache_store`, the recovery paths of jit.c | |
| `EventSched` | dmg.c's event table and the end of `jit_run` | |
| `EventSchedProofs` | theorems about `EventSched`, `TimerHardware`, `WaitLoops` | `WaitLoops`, TLAPS |
| `TimerHardware` | abstract: DIV and TIMA counted cycle by cycle | |
| `MCEvents` | small sets of register values | `EventSched` |
| `WaitLoops` | the loops timing.c replaces, and the program around them | `EventSched` |
| `MCWaits` | small lines and loops | `WaitLoops` |
| `AudioQueue` | `evq`, its interrupt, clocks, pacing and watchdog of audio_mac.c | |
| `AudioWrites` | abstract: a FIFO of register writes, with its two exceptions | |
| `AudioQueueProofs` | theorems | `AudioQueue`, TLAPS |
| `Mbc` | the registers and windows of MBC1, 2, 3 and 5, as operators | |
| `BlockDispatch` | dispatcher_asm.c, jit.c and the bank writes of the program | `Mbc` |
| `MCBlockDispatch` | a program with two fixed jumps | `BlockDispatch` |
| `BlockDispatchProofs` | theorems | `BlockDispatch`, TLAPS |
| `Cartridge` | the save RAM, the clock, the save file, over sessions | `Mbc` |
| `CartridgeProofs` | theorems | `Cartridge`, TLAPS |
| `FrameBeam` | HBLANK DMA and the raster log | |
| `FrameBeamProofs` | theorems | `FrameBeam`, TLAPS |
| `Words` | bytes, words, and longs as pairs of words | |
| `GbMemory` | host arrays, the two page tables, `dmg_read` and `dmg_write` | `Words` |
| `M68k` | the 68000 as far as compiled code uses it | `GbMemory` |
| `Emitters` | emitters.c: one 68000 instruction each | `M68k` |
| `JitHelpers` | interop.c, flags.c: flags, memory accesses, calls into C | `Emitters` |
| `CompiledOps` | alu.c, cb_prefix.c, reg_loads.c | `JitHelpers` |
| `CompiledBlock` | compiler.c, stack.c, mem_loads.c, branches.c | `CompiledOps` |
| `Sm83` | abstract: the GB's CPU, from its manuals | `GbMemory` |
| `CompiledCode` | a compiled block beside its program | `CompiledBlock`, `Sm83` |
| `MCCompiledCode` | the programs and starting states | `CompiledCode` |

Definitions named after functions of the source stand for them;
`PROJECT.json` `map` gives the lines of every definition.
Definitions introduced by "Seeded error" are not part of a specification: they
are wrong variants of the definition that follows them, used to see that a
property notices the error.

### CodeCache

State: `upper_page[p]` is `upper_page_lo/hi/reach[p]`; `upper_4k_code`,
`read_page`, `write_page`, `saved_write_page` are the variables of the same name
with a 4K pointer abstracted to the bank it shows. `upper_cache` maps every
address to an entry that records what the entry's native code was compiled
from (`low` to `last`, and the bank of each page) with two history flags set
when such a byte changes: `missed` (a store to that very address) and
`bypassed` (through an echo window or the native stack).

Actions: `jit_run` (compile, store heads and block, mark, unmap, with and
without a full arena), `jit_clear_all_blocks`, `dmg_write` (fast or slow, and the
echo redirect), `NativePush` (a push through A3), `dmg_map_upper_page`.
The loop that widens the first page is `WidenedFirst`, a fixed point; the loop as
written is `WideningLoop`, and `WideningLoopAgrees` says that they are the same.
Blocks are a constant: the program compiles whatever the game has at the
program counter, and the set in `MCCodeCache` has one of each shape.

### HramCode

State and functions as in cache.c, addresses as offsets. `NativeStore` is every
unannounced store. An HRAM block whose last byte is at $ffff is left out:
`cache_mark_upper_range` would not return from it (see the hazards).

### JitArena

An allocation is the range it covers; the length of a block is chosen freely up
to `BlockSize`. `compile_block` allocates, stores loop heads (which may allocate
a bank array behind the block, and whose failure the code ignores) and shrinks.
`kept` is a history variable: the block jit_run stores after `cache_store` has
failed and the arena has been reset. Compiling an area's key again after a
failure, and clearing with the replayed list aborted, are included.

### EventSched and TimerHardware

Units are T-cycles; `Line`, `Lines`, `Visible`, `Hblank`, `TimerMax`, `Divisors`
and `SerialTime` are the program's constants made small.
`total_cycles` only occurs in differences, so `tima_elapsed` stands for
`total_cycles - tima_base_cycle`. D2 is `d2`; `Run` is native code between two
register accesses, the register handlers are actions of their own, `dmg_sync_hw`
absorbs D2, the `Fire...` actions are the cases of `dmg_event_fire` in the order of
the loop, and `EndDispatch` is `check_interrupts` and `update_wake_limit`.
The limit does not guard `Run`, because a block is finished before the limit is
looked at, nor `dmg_sync_hw`, because uncompiled code exits early.

`TimerHardware` counts TIMA on every tick and raises its interrupt at the
overflow or later (`fresh` is an overflow not yet raised). The counter may change and registers may
be written only while compiled code runs; between an exit and the next entry
(`stopped`, the code's `dmg_sync_hw`) overflows are announced and nothing else
happens, and none is left when compiled code goes on. Three freedoms of the
code are granted there, and only these: a write of TMA may change the count that
a fresh overflow reloaded, a speed switch may lose a fresh overflow or raise it
early, and a write of IF does not clear a fresh overflow.

Not in this module: reads of DIV, HDMA, OAM DMA, joypad
matrix, the contents of the raster log.

### WaitLoops

`EventSched` lets the program do anything at any time. `WaitLoops` adds where the
program is (`pc`): at a loop that timing.c replaces, in other code (`Main`), or in
an interrupt's handler, from which it returns to where it was. Each kind of loop
has the actions its native code has: `emit_ly_exit_now`, `emit_ly_wait_done` and
`KeepPolling` for polls of LY, whichever of the three compilers
(`compile_ly_wait`, `..._reg`, `..._hl`) emitted them, since they only differ in
where the line to wait for comes from; `compile_halt`; `compile_hram_idle_wait`;
`compile_delay_loop_full` and `..._partial`. `exiting` says that native code has
returned to `jit_run`, whose next step must then be `dmg_sync_hw`.

Abstractions: A and the counter of a delay are one variable, reset when nobody
looks any more; the flag in HRAM is read as anything, as it is up to the
handlers; a counter of 0 is the constant 256 of `Counts`; the cycles of the block
before the loop are those of `RunBlock`. `Enter` is free to come in the middle of
a dispatch and of a block, `Return` looks at the limit as the dispatcher does.

### AudioQueue and AudioWrites

The main loop is a program with a location `pc`, and the interrupt may run between
any two of its steps: `audio_mac_write` is the steps check for room, store,
publish (or, with a full queue or sound off, `audio_write` called directly: byte
first, effect second); `audio_mac_sync` reads `samples_out` in one step and clamps
against the value read in the next. The interrupt is one step: `DoubleBackProc`
with the Sound Manager, `asc_vec_handler` with `use_direct`. It fills a buffer
with silence when emulation is too far behind, and otherwise applies the events
that are due, `Applied(samples)` of them, through `audio_write`, which stores both
the byte (`regs`) and its effect (`apu`).

Abstractions:

- `emu_samples` and `samples_out` are only ever compared, so the state is their
  difference `lead`, and stamps are kept relative to `samples_out`.
- `cycle_accum` and the division of cycles by rate become the number of samples
  one sync advances by.
- The slots taken by the interrupt are reset to `Unused`. The code leaves them
  and never reads them again; without the reset equal queues would be counted
  once per history.
- A chunk the main loop pushes itself (`Revive`) is one step, because
  `asc_in_push` turns the interrupt away meanwhile. When the chip is empty its
  interrupt pushes three chunks; three interrupts in a row do the same.
- `apu` is one value per register: what the last write that took effect said.

`AudioWrites` has neither indexes nor time. It says that writes are applied in
order and once, and it names the two ways in which the code departs from that:
a write made while the queue is full, or while sound is off, goes to the
generator at once, ahead of the queue; and what is queued when sound is turned
on is forgotten (`audio_mac_start` resets the indexes).

Not in this module: the sound chip's own registers and FIFO, the calls of
`BENCH_MUTE`, and the other three sound back ends.

### Mbc and BlockDispatch

`Mbc` has the cartridge as a record: bank registers, the ROM bank that is mapped
(`rom`) and the save RAM's window. Its operators are the branches of `mbc_write`
and `mbc_update_ram`.

A block in `BlockDispatch` is where it starts and the bank it was compiled from;
`cache` is what a lookup can find, `patched` the exits that patch_helper has
overwritten. `DynamicExit`, `FixedExitToRam` and `PatchableExit` are the ways
native code goes on or returns to C (`ToC`), `WriteBank` is a store to a bank
register, left out or not as `compile_ld_u16_a` decides, `jit_run` finds or
compiles, `jit_precompile` is one entry of the block list and
`jit_precompile_finish` its end. Which jumps the program has is the constant
`Exits`. `plain` is the cartridge as it would be if no write were left out;
`taken` and `swapped` record what the premise of `RunsMappedCode` needs: the code
patches jumps on the assumption, stated in a comment of dispatcher_asm.c, that no
fixed jump into $4000-$7fff is taken with two banks.

Abstractions: whether the arena is full is left open at every compilation; a
block list that fails in the middle is an entry that does not compile, at any
point; the budget of a dispatch may be used up at every exit.

### Cartridge

One session follows another: starting reads the save file, stopping and the
program's own requests write it (`mbc_save_ram`: truncate, write the RAM, write
the clock), and every write may fail, after which the file has what was written
before. A crash ends a session at any point, within a save too, and what was
buffered of the file may be lost. The clock is `base_secs` and `base`, as in
mbc.c, and the Macintosh's clock is `now`; `clock` is what a clock that ticks
would show. The save RAM is one byte per bank.

### FrameBeam

`dma` and `last` are `hdma_*`, and `exact` the same of a machine that copies at
every HBLANK; source and destination move together and are one number (`at`).
`log` is the raster log of one register, and `shown` the value each line had when
it was crossed. One program uses one of the two (`program`), since they share
nothing but the beam. `Run` advances the beam, `dmg_sync_hw` is a dispatch's end.

### CompiledCode

A behaviour starts with a program and a state of the machine, and its first step
compiles the program (`compile_block`): the result is a sequence of 68000 instructions per GB
instruction. Every further step runs the code of one GB instruction on `m` (the
68000 of `M68k`) and the instruction itself on `ref` (`Sm83`), with the same
memory, until the block is left. After each step the registers, the memory and
the places where C was called are compared. `Sm83` is written from the manuals of
the GB's CPU, not from the compiler, so that the compiler's tables (lengths and
cycles) are checked too.

Opcodes are families, as in the opcode's bits, where the source has one function
or one case per opcode; each member is compiled and run. Forward branches count
the instructions they pass; the shared helpers (`jsr` to a stub) are inlined.

## 4. What is checked

| run | question | result |
|---|---|---|
| `code_cache` | Do page ranges, bits and mappings stay consistent, are stores to source noticed, and does the widening loop compute the fixed point? | holds |
| `hram_code` | Are HRAM lookups fresh, and is a new block found? | holds |
| `jit_arena` | Is memory handed out once, are cached pointers live, does memory never stop the program? | holds |
| `events_timer` | Is the computed timer a stepped one, and does it interrupt in time? | holds |
| `events_lcd` | Are LY, STAT, VBLANK and the dispatch budget right? | holds |
| `waits` | Do compiled waits end, in time, and where the loops they replace would? | holds for those that begin a dispatch |
| `audio_queue` | Do writes reach the generator in order and in the end, at their time, and does the main loop never wait for ever? | holds |
| `compiled_code` | Does the code of every GB instruction do what the GB's CPU does, registers, flags, memory, time and exits? | holds |
| `banked_dispatch` | Do patched jumps and lookups run the code of the mapped bank, and is leaving out bank writes harmless (MBC1, 2, 3)? | holds |
| `bank_skip` | Is it harmless on an MBC5 too? | no |
| `cartridge` | Does the window show what is selected, does the clock keep time, and is a complete save loaded again? | holds |
| `frame_beam` | Do late DMA and late drawing give what copying and drawing line by line gives? | holds |

The violation, against the comment of src/system6/jit.c:182 ("skip the call when A
already holds the current effective bank"):

- `SkipsUnseen`. Bank 1 is mapped when the game starts, but the MBC5's register
  is 0 then. A game that selects bank 1 has its write left out; a later write of
  the register's ninth bit then maps a bank whose low bits are 0 instead of 1.

Invariants that are proved for all constants are not run again unless they are
part of what a run shows: the type invariants (`TypeOK`), and `ReachInBounds`,
`CodeBitsExact` and `LeadBounded`, and the `WaitTypeOK` of `WaitLoops`. They stay in
the modules.

### Known deviations

Five properties that do not hold, each against a sentence of the repository.
Each is shown by a configuration of its own, e.g.
`tlc -config CodeCacheMidBlock.cfg MCCodeCache`
(`CodeCacheBypass.cfg` with `MCCodeCache`, `JitArenaRecovery.cfg` with `JitArena`,
`WaitsMidDispatch.cfg` with `MCWaits`, `AudioReadback.cfg` with `AudioQueue`):

- `EveryEntryDropped` (src/dmg.c:708). A block runs from page P to P+1 and has a
  loop head H in P+1 whose loop leads back to P. A store to P's source drops the
  entries of P, not H. Entering at H later runs the old code of P.
- `ModificationsCaught` (system6/jit.c:534). Work RAM is compiled at $c000 and
  written at $e000, or pushed to natively: only the written address's 4K
  mapping is looked at.
- `CachedCodeIntact` (README.md:43). `cache_store` fails for want of a bank
  array; jit_run clears everything, the arena included, and stores the block it
  had compiled before. Its memory is free again.
- `EveryLyWaitMatchesLoop` (compiler/tests/test_exec_timing.c:74). A poll of LY is
  compiled against `frame_cycles`, the beam when the dispatch began. In the
  middle of a dispatch it exits on a line that has passed, or sets D2 back.
- `ReadbackNotStale` (system6/audio_mac.c:245). The byte is mirrored at once
  when a write is queued, but the interrupt mirrors it again when it applies the
  write. With two writes to a register in the queue, applying the first puts the
  older byte back.

Three more disagreements were met and follow from single lines: the comment at
src/dmg.c:471 has an LCD restart begin at line 0, but the beam also counts D2,
which `dmg_lcd_frame_restart` keeps; HALT exits with the address after it, so it
ends at a frame wrap without an interrupt (compiler/tests/test_exec_timing.c:43
expects it to be entered again); and HALT after EI sets D2 back to the limit EI has
lowered. The last two are in the model as the code has them.

Every property of a passing run has been seen to fail under a plausible error in
the code: `PROJECT.json` `mutants`.

### Bounds, and why they are enough

- CompiledCode: every opcode on its own and the sequences of `MCPrograms` (flags
  across instructions, pushes and pops, loops, deferred cycles, 16-bit accesses
  at the edge of a page), each from the starting states of `MCStarts`, whose
  registers have the carries, borrows and zeros in them and whose pointers go to
  ROM, RAM, a register, HRAM, a protected page and the last byte of a page.
  `BlockBytes` and `BlockCode` stand for the limits on a block, the second in
  instructions rather than bytes.
- BankedDispatch: one address of each region; every jump that matters is one
  from bank 0 into the switched region or out of it. Data 0, 1 and 2 to the three
  register addresses give each controller two banks and the special bank 0, and
  an MBC5 two banks that share their low eight bits.
- Cartridge: one value of each kind; the span of time is a day count that carries
  past 511 the second time, with hours, minutes and seconds that are not zero. A
  save that fails leaves one bank of four in the file (`Shorts`).
- FrameBeam: three visible lines of two units and one other. Transfers of one
  chunk and of more chunks than a frame has lines; a log of two writes, so that it
  overflows; dispatches end up to one unit late (`Overshoot`).

- CodeCache: six 256-byte pages of two bytes in four 4K pages, two of them echo,
  one banked with two banks; eight block shapes. Two bytes give a first and a
  last byte to every page; two pages per 4K page are what `recompute_4k_code`
  needs to find code elsewhere; three consecutive pages let a reach of 2 be
  widened through a page of smaller reach. The proofs cover all other sizes.
- HramCode: three addresses, one bit each: two blocks that overlap, touch or
  leave a gap. Proved for all.
- JitArena: nine units, two banks, blocks of up to two units: the arena fills with
  blocks, with arrays, and with both, and the recovery path runs. Proved for all.
- EventsTimer: frames of 6 units, TIMA of two bits with two divisors, dispatches
  of at most 4 (`MaxDispatch`): overflow within a dispatch, several overflows in
  a frame, and frames without one all occur.
- EventsLcd: three lines of four units, two visible, one LYC, two sets of STAT
  sources, at most 6 units in a dispatch, so that a dispatch crosses several
  positions of a line, line 144's stand-in, and the wrap.
- Waits: three lines of four units, two visible, a frame of 12; polls of the first
  and the last line and of one that does not exist, with each of the three
  jumps; delays of one and three iterations of six units, so that a delay fits,
  is cut, and is cut to nothing; HBLANK and VBLANK interrupt; both speeds. The
  serial port and the timer are off: to a wait they are just another deadline.
- `EvNone` is larger than any deadline can be (`TimerAssumption`). Cycles are
  even, as the emulator's are multiples of four.
- AudioQueue: a ring of three slots, which is full with two events, buffers of two
  samples and chunks of one, `MaxLead` 1, `Stall` 1, `MaxBank` 2, one register of
  two values (order is a matter of one register), syncs of one sample: the ring
  wraps and fills, events are not due, the lead is clamped on both sides, and
  silence and the watchdog both happen. `MaxBehind` is the one bound the code does
  not have: it stops the interrupt when emulation has fallen far behind, and
  `SizeAssumption` puts it beyond the point where silence has set in and the
  interrupt no longer changes anything but the clock.
- `MaxDispatch` is at most a frame in the configurations of `EventSched`: WRAP is
  always one of the deadlines. In `Waits` it is two frames and a block, since D2
  counts twice as fast at double speed, and never holds anything back.

### Fairness

`AudioQueue!FairSpec` assumes weak fairness of two actions. `Interrupt`: an
installed callback (`SndPlayDoubleBuffer`) or an enabled chip interrupt keeps
coming, which is what the driver exists for. `Continue`: the main loop goes on
with what it has begun, since nothing else runs on this machine. Nothing is
assumed of `Begin`, which is up to the game and the user. With these,
`WaitEnds` and `QueueDrains` hold. An interrupt of the chip that gets lost is
outside the assumption: the watchdog brings the sound back at the next
`audio_mac_sync`, but the waiting loop does not call it (see the hazards).

`WaitLoops!FairWaitSpec` assumes weak fairness of what happens of itself once the
program waits: its native code, `jit_run` after an exit, and the firing of events
(`Continue`). The emulator is one thread that runs `jit_run` again and again. It
assumes nothing of the program's other code, so `WaitsEnd` says of a wait that it
ends or is interrupted, not that its handler returns.

`FrameBeam!Spec` assumes weak fairness of `Run`, since the program's code takes
time, and of `dmg_sync_hw`, since jit_run calls it after every dispatch. Nothing is
assumed of the program: `TransferEnds` excepts one that writes DMA registers for
ever.

No other module states a liveness property or assumes fairness.

`CHECK_DEADLOCK FALSE` in the arena's configurations: the program halts after an
unknown opcode, and a small instance may have everything cached. In
`CompiledCode.cfg`: a behaviour is one run of one block and ends where the block
is left.

## 5. What is proved

TLAPS checks, for every value of the constants that satisfies the named
assumptions of the module (`ASSUME`):

- `CodeCacheProofs`: all of `TypeOK`, `ReachInBounds`, `CodeIsMarked`,
  `CodeBitsExact`, `CodePagesProtected`, `WritesReachWhatIsRead`,
  `SelfModificationNoticed` and `WideningLoopAgrees`.
- `HramCodeProofs`: `TypeOK`, `LookupIsFresh`, `CompiledIsFound` (an action
  property).
- `JitArenaProofs`: `TypeOK`, `AllocationsDisjoint`, `CachedCodeIsLive`,
  `NeverOutOfMemory`.
- `BlockDispatchProofs`: `TypeOK`, `PatchedCodeIsCached`, `RunsMappedCode`,
  `SkipsUnseenButMbc5`.
- `CartridgeProofs`: `WindowReadsSelected`, `ClockKeepsTime`, `SavedGameReloads`.
- `FrameBeamProofs`: `HdmaCatchesUp`, `LinesShowTheirValue`.
- `EventSchedProofs`: `DeadlineAgreesWithCounter`, `TimerEndsTheDispatch`,
  `PendingEndsTheDispatch`, `VblankOncePerFrame`; for dispatches of at most a frame
  (`ShortDispatch`) `TypeOK` and `LyIsBeamLine`; with, besides, no switch back to
  normal speed (`SpeedsUp`) `EnabledEventsEndTheDispatch`, and with none at all
  (`SameSpeed`) `StatEventsNotMissed`; the refinement `TimerIsStepped`; of the
  waits, `WaitTypeOK`, `DelayTakesItsTime`, `WaitsStopAtTheLimit` and
  `LyWaitMatchesLoop`.
- `AudioQueueProofs`: `TypeOK`, `StampsOrdered`, `LeadBounded`, and the refinement
  `WritesInOrder`.

Each module has one inductive invariant `IInv`, the theorem
`InvariantHolds == Spec => []IInv`, and corollaries; in `EventSchedProofs` it is
split by concern (`Base`, `LyInv`, `VblankInv`, `WakeInv`, `AheadInv`, `EventsInv`,
`StatInv`), since the parts hold under different assumptions, and the waits have
one of their own (`WaitInvariant`).

*CodeCache.* What has to be strengthened is where entries live: an entry's own
record must be a well-formed range whose `low` is not after its address, so that
`CodeIsMarked` says enough about it. A drop clears a closed range of pages
(lemmas on `WidenedFirst`: it exists, is closed, and contains every page from
which an entry reaches the one dropped), so no entry that is left needs a page
that was cleared. `SelfModificationNoticed` then follows because a store that
hits an entry hits the page's range, and a store that goes through fast or is
outside the range cannot be to the entry's source.

The loop that widens a drop lowers its own bound while it runs. `WidenedAfter(n)`
says, without a loop, what it has reached after `n` passes: the highest page that
none of the pages seen so far reaches below. A pass takes it from `n` to `n + 1`
(`OneMorePass`), and after all passes it is `WidenedFirst`. The recursive function
equals it everywhere, because there is no least `n` at which it would not
(`LoopFindsFirst`).

*HramCode.* `IInv` adds that every cached range is marked, that marks lie between
`lo` and `hi`, and that the bytes an entry was compiled from are those of the
snapshot. The snapshot is re-taken whole at each compilation, which is sound
only because the lookup just before has compared every marked byte; this is the
heart of the proof.

*JitArena.* `Sound(s, x)` is stated on a state record and shown for each of the
helpers in turn (`arena_alloc`, `cache_store`, `arena_shrink`, `compile_block`),
so that `jit_run`'s sequences of them need no case analysis of their own.
`NeverOutOfMemory` rests on `Fresh` having room for one block and one array.

*AudioQueue.* The interrupt and the main loop share the ring without a lock, and
what makes that right is that they never touch the same slot: `SlotFacts` says
the waiting slots are distinct and differ from the one being filled, `Room` that
the latter exists, `Stored` that it still holds what was stored when it is
published. Stamps stay in order because emulated time never goes back; the
invariant cannot be stated of `lead`, which a sync lowers when it clamps, but of
`Held`, what `lead` will be once it has. `GenerateKeeps` and `GenerateImplements` treat
the interrupt once for all of its callers. The refinement maps a step of the
interrupt to taking the first events of the sequence, publishing to an append,
and the other steps to a change of `on`, a direct write, or a stutter.

*EventSched.* `Base` ties the timer to its deadline in two units: a count with the
CPU cycles since, and a position of the beam in PPU cycles. They agree to the
cycle only because every quantity between them is even, which `Base` carries
along (`Even`), so that halving at double speed loses nothing. A wrap moves every
deadline that is left because it fires last (`Rank`), so nothing goes below zero.
What ends a dispatch is `Bounded`: `wake_limit` was computed from a deadline, or
lowered by the write that moved it (`BudgetFacts`). A switch to double speed keeps
the bounds since no deadline lies behind the last sync (`AheadInv`). A switch back
re-budgets only if the timer runs (`dmg_tima_recompute`): with the timer off the
old limit, in cycles of double speed, reaches twice as far in beam positions until
the next exit, which is why `SpeedsUp` is assumed; the two properties about the
timer and about pending interrupts need it not. `ShortDispatch` counts D2 in CPU
cycles; at double speed it admits half a frame of the beam. For STAT, a search
(`StatFromIsFirst`) finds the first position at or after the point where it
starts, provided it is told the right line; `StatInv` remembers that the line kept
with the deadline is that of the deadline.

*TimerHardware.* What the program shows of the timer (`Prescaler`, `TimerCount`,
`Fresh`) is computed from where TIMA's deadline lies, and a step of `EventSched` may
pass any number of cycles, which the abstract timer counts one by one. `After(n)`
gives the timer `n` cycles on, in closed form; `AfterOneMore` shows that one tick
takes `After(n)` to `After(n + 1)`, whether it counts nothing, counts, or overflows
and reloads, and `TicksAreAfter` that the recursive count is therefore `After`, by
the least `n` at which the two would differ. With that, `Run` is a count, a register
access, a late overflow, a speed switch and a frame wrap are the abstract step of
the same kind or a stutter, one lemma each. `Base` alone suffices: the refinement
needs no bound on the length of a dispatch.

*WaitLoops.* `Base` does not apply here: a poll of LY in the middle of a dispatch may
set D2 back (the known deviation above), and a delay may take it beyond a
deadline. `WaitInvariant` keeps the little that the waits rest on, `WaitHost` of the scheduler and `WaitProgram` of the program. The first is
that neither timer nor serial port run and the LCD is on, as in the configuration,
and that a dispatch begins with no more cycles than the frame has left
(`WaitBudget`), so that the line a poll waits for, when it lies before the limit, is
in this frame. The second is that only a handler has somewhere to return to, and
that a delay under way has iterations left, also while a handler has interrupted
it; from that a delay never divides by nothing nor counts below zero.
For delays, `FullDelay`, `FittingFacts` and `PartialDelay` are the arithmetic of
the two ways native code charges a loop: both charge exactly the difference of
what the loop costs from the old and from the new count, and the pieces that are
run even though the limit is passed are one iteration. For polls, `RepeatsUntil`
says when the loop's comparison holds at a position of the beam, `SkippedRepeat`
that it holds at every cycle that is skipped, at either speed, and `ExitMatches` and
`DoneMatches` that A and the flags are those of the comparison that ends the loop.
This proof found that two arms of the `CASE` which gives the flags both applied
when the loop waits for the end of the last line; TLC takes the first, TLA+ either.
They are disjoint now, as they are in `CompiledOps`, where the same had happened.

*BlockDispatch.* `RunsMappedCode` speaks of the block that runs now, and a patched
jump was fixed some time ago under another bank. `PatchesRemembered` bridges the
two: a patched jump from outside the switched region was taken (and is in
`taken`) with the key of the block it leads to, so as long as the program is one
for which a jump means one bank, taking it again cannot be for another.
A write that is left out is harmless for MBC1, 2 and 3 because the effective bank
is a function of the last number written (`WriteRom`), and because a bank 0 that
would have become 1 never equals the effective bank (`BanksInReach`: once the
game runs, the bank mapped is one the controller selects, which the replay of the
block list, mapping banks by itself, does not guarantee before it finishes;
`BootIsQuiet` says that nothing is patched and nothing runs until then). For MBC5
neither holds, and the theorem leaves it out.

*Cartridge.* The page in the window is a function of three registers (`WindowOf`),
whichever write changed it last. The clock is never compared with time as it
passes: `ClocksAgree` says that the count from the reference (`base_secs`,
`base`) to now is what a ticking clock shows, modulo 512 days, both for the clock
that runs and for the one a session would start from the file. The two meet at a
save, which takes the registers apart and at the next start puts them together
again: `RegsShowTime` says that this loses nothing but the days beyond 511. A
file shorter than it should be is always dirty (`RamIsSaved`), so it needs no case.

*FrameBeam.* The transfer that is caught up late is the exact one but for the
HBLANKs that are due to it (`DmaAgrees`, with `Due` the difference between the
HBLANKs crossed and those seen), and `HblanksInParts` says that HBLANKs may be
caught up with in any parts. `Due` is never negative for a transfer that runs,
whatever write of HDMA5 started it and in whatever part of a line (`LineOf`,
`StartHdmaKeeps`); that is what makes `hdma_last_ly` enough. For the log,
`RasterAgrees` speaks of every line at every time: one that was shown gets from the
log the value it was shown with, any other the value the register has now. A write
changes the log from the first line not yet shown (`TargetLine`, `NewEntry`), so
it keeps both halves. Neither proof needs the log's lines to be in order.

Only model-checked: `RegistersAgree`, `MemoryAgrees`, `NativeStackPointer`,
`CallsSeeExactTime` and `ExitsAgree` of `CompiledCode`, whose programs are run by
recursive operators, which put a module out of the prover's reach; and all
liveness (`WaitEnds`, `QueueDrains`, `WaitsEnd`, `TransferEnds`), as neither the
consequences of fairness nor ENABLED can be proved here. What a recursive function
on the naturals computes can be proved when it has a closed form, by its least
counterexample, as for `Ticks` and `WideningLoop`; the library's induction theorems
cannot be used.

## 6. What is not modelled

Planned modules are in section 2. Left out for good: pixel output, the encoding of
68000 instructions, Toolbox dialogs and menus, ROM and block-list file formats,
privileged instructions of mmu.c and cpu_cache.c, profiling; `PROJECT.json`
`components` says why for each.

Within the modelled parts:

- CompiledCode: STOP, HALT and the loops timing.c recognises; invalid opcodes; the
  flags of `add sp,i8` and `ld hl,sp+i8`, which the compiler leaves alone
  (`ref.zc`); H and N, which live only in what DAA can reconstruct, so a pushed F
  is compared in Z and C only; DAA after an operation the compiler does not
  track; a stack that leaves the stretch of RAM it was loaded for; a change of
  SVBK below a native stack; a backward jump into the middle of an instruction.
- BlockDispatch: banks 256 apart on an MBC5, which share their code in the
  program as in the model; the code RAM holds (CodeCache).
- Cartridge: a Macintosh clock that is set back; RAM banks above 3 of an MBC5;
  cartridges without a battery; the clock's carry flag, which mbc.c does not keep; a
  second that passes between the clock's update and its time stamp in one save. A
  write of one clock register counts on from all of them as last latched; the
  property takes what the clock then shows as what was set.
- FrameBeam: what `HdmaCatchesUp` and `LinesShowTheirValue` except in so many words:
  a write of the DMA's addresses or a new transfer while chunks are due, a cancel
  of a transfer that has just ended, the LCD switched during one, writes after the
  end of a frame and before its sync; and that the data copied is that of the time
  of the copy. SCY, the window, the palettes have the same log as the one register.
