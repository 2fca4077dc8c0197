------------------------------- MODULE JitArena -------------------------------
(***************************************************************************)
(* The arena that holds compiled code, and what happens when it is full.   *)
(*                                                                         *)
(* system6/arena.c hands out memory by moving a pointer up, takes back     *)
(* only the tail of the most recent allocation, and frees everything at    *)
(* once.  The helpers and the fixed tables come first; blocks follow, and  *)
(* between them the pointer arrays of ROM banks, allocated by cache_store  *)
(* when a bank's first block is stored - possibly while that block is      *)
(* still being compiled.  system6/jit.c drops everything when an           *)
(* allocation fails and tries again.                                       *)
(*                                                                         *)
(* An allocation is the half-open range [at, end).  A cached code pointer  *)
(* is the range of the block it points into.                               *)
(***************************************************************************)
EXTENDS Integers, FiniteSets

CONSTANTS
  ArenaSize,    \* arena_end - arena_base
  FixedSize,    \* helpers, bank 0's and the upper region's arrays, bank table
  ArraySize,    \* the pointer array of one ROM bank
  BlockSize,    \* sizeof (struct code_block)
  Bank,         \* switchable ROM banks
  Area,         \* Bank and the areas that have their array from the start
  Pc,           \* addresses within an area
  NoCode        \* a NULL code pointer

ASSUME SizeAssumption ==
  /\ {ArenaSize, FixedSize, ArraySize, BlockSize} \subseteq Nat \ {0}
  /\ FixedSize <= ArenaSize     \* or jit_init fails and nothing runs
ASSUME AreaAssumption == Bank \subseteq Area

Key == Area \X Pc
Region == [at : 0 .. ArenaSize, end : 0 .. ArenaSize]
ASSUME CodeAssumption == NoCode \notin Region

VARIABLES
  arena_ptr,
  live,           \* what was allocated since the arena was last reset
  bank_array,     \* the banks that have their array
  cached,         \* the code pointer of every key, or NoCode
  kept,           \* the block that was stored although the arena was reset
                  \* after its compilation, or NoCode
  phase,          \* "precompile" while the block list is replayed, then "run"
  jit_halted      \* "no", or what stopped the program

vars == <<arena_ptr, live, bank_array, cached, kept, phase, jit_halted>>

-----------------------------------------------------------------------------
(* arena.c and cache.c, on a state of the arena and the cache *)

State == [ptr |-> arena_ptr, live |-> live, arrays |-> bank_array,
          cached |-> cached]

\* Seeded error: the last byte of the arena's end is not looked at.
Room_Inclusive(s, size) == s.ptr + size <= ArenaSize + 1
Room(s, size) == s.ptr + size <= ArenaSize

arena_alloc(s, size) ==
  [s EXCEPT !.ptr = @ + size,
            !.live = @ \cup {[at |-> s.ptr, end |-> s.ptr + size]}]

\* Seeded error: the cache is not initialised again.
Fresh_KeepCache == [ptr |-> FixedSize, live |-> {[at |-> 0, end |-> FixedSize]},
                    arrays |-> {}, cached |-> cached]
\* arena_reset, the helpers and cache_init
Fresh == [ptr |-> FixedSize, live |-> {[at |-> 0, end |-> FixedSize]},
          arrays |-> {}, cached |-> [k \in Key |-> NoCode]]

\* cache_store: does the key's area have an array, or is there room for it?
NeedsArray(s, area) == area \in Bank \ s.arrays
Storable(s, area) == ~ NeedsArray(s, area) \/ Room(s, ArraySize)
WithArray(s, area) ==
  IF NeedsArray(s, area) /\ Room(s, ArraySize)
    THEN [arena_alloc(s, ArraySize) EXCEPT !.arrays = @ \cup {area}]
    ELSE s
cache_store(s, area, pcs, code) ==
  IF Storable(s, area)
    THEN [WithArray(s, area) EXCEPT
            !.cached = [k \in Key |-> IF k[1] = area /\ k[2] \in pcs THEN code
                                      ELSE s.cached[k]]]
    ELSE s

\* Seeded error: the block is shrunk even when something lies behind it.
arena_shrink_Always(s, at, length) ==
  [s EXCEPT !.ptr = at + length,
            !.live = (@ \ {[at |-> at, end |-> at + BlockSize]})
                       \cup {[at |-> at, end |-> at + length]}]
\* arena_shrink: a no-op if something else was allocated after the block
arena_shrink(s, at, length) ==
  IF at + BlockSize = s.ptr
    THEN [s EXCEPT !.ptr = at + length,
                   !.live = (@ \ {[at |-> at, end |-> at + BlockSize]})
                              \cup {[at |-> at, end |-> at + length]}]
    ELSE s

\* compile_block, which stores the heads of the block's loops before the block
\* is complete and ignores whether that works, and then arena_shrink.  The range
\* of the block is known by then.
BlockIn(s, area, heads, length) ==
  LET full == heads # {} /\ NeedsArray(s, area)
                /\ Room(arena_alloc(s, BlockSize), ArraySize)
  IN [at |-> s.ptr, end |-> s.ptr + IF full THEN BlockSize ELSE length]

compile_block(s, area, heads, length) ==
  LET block == arena_alloc(s, BlockSize)
      code  == BlockIn(s, area, heads, length)
      heard == IF heads = {} THEN block ELSE cache_store(block, area, heads, code)
  IN arena_shrink(heard, s.ptr, length)

Becomes(s) ==
  /\ arena_ptr' = s.ptr /\ live' = s.live
  /\ bank_array' = s.arrays /\ cached' = s.cached

-----------------------------------------------------------------------------
(* jit.c *)

\* The part of jit_run after a block has been compiled into s.  A block with an
\* unknown opcode is not cached, though its loop heads are.
StoreOrRetry(s, area, pc, code, failed, k) ==
  IF failed
    THEN Becomes(s) /\ jit_halted' = "error" /\ kept' = k
  ELSE IF Storable(s, area)
    THEN Becomes(cache_store(s, area, {pc}, code)) /\ kept' = k /\ UNCHANGED jit_halted
  ELSE IF Storable(Fresh, area)
    THEN \* "recovered"
         /\ Becomes(cache_store(Fresh, area, {pc}, code))
         /\ kept' = code /\ UNCHANGED jit_halted
  ELSE Becomes(Fresh) /\ kept' = NoCode /\ jit_halted' = "memory"

\* "arena full, reset and retry once": where jit_run compiles
\* Seeded error: there is no retry.
RunState_NoRetry(s) == s
RunState(s) == IF Room(s, BlockSize) THEN s ELSE Fresh

jit_run(area, pc, heads, length, failed) ==
  LET s == RunState(State)
      k == IF Room(State, BlockSize) THEN kept ELSE NoCode
  IN /\ jit_halted = "no"
     /\ cached[<<area, pc>>] = NoCode
     /\ phase' = "run"
     /\ IF Room(s, BlockSize)
          THEN StoreOrRetry(compile_block(s, area, heads, length), area, pc,
                            BlockIn(s, area, heads, length), failed, k)
          ELSE Becomes(s) /\ kept' = k /\ jit_halted' = "memory"

\* Replaying the block list stops at a quarter of the arena, and at the first
\* block that cannot be compiled or stored.
jit_precompile(area, pc, heads, length, failed) ==
  LET s == compile_block(State, area, heads, length)
  IN /\ phase = "precompile"
     /\ cached[<<area, pc>>] = NoCode
     /\ UNCHANGED <<kept, jit_halted>>
     /\ IF 4 * (ArenaSize - arena_ptr) < ArenaSize \/ ~ Room(State, BlockSize)
          THEN Becomes(State) /\ phase' = "run"
        ELSE IF failed
          THEN Becomes(Fresh) /\ phase' = "run"   \* jit_clear_all_blocks
        ELSE /\ Becomes(cache_store(s, area, {pc}, BlockIn(State, area, heads, length)))
             /\ phase' = IF Storable(s, area) THEN phase ELSE "run"

Init ==
  /\ arena_ptr = FixedSize /\ live = {[at |-> 0, end |-> FixedSize]}
  /\ bank_array = {} /\ cached = [k \in Key |-> NoCode]
  /\ kept = NoCode /\ phase = "precompile" /\ jit_halted = "no"

Next ==
  \E area \in Area, pc \in Pc, heads \in SUBSET Pc,
     length \in 1 .. BlockSize, failed \in BOOLEAN :
    \/ jit_run(area, pc, heads, length, failed)
    \/ jit_precompile(area, pc, heads, length, failed)

Spec == Init /\ [][Next]_vars

-----------------------------------------------------------------------------
(* Properties *)

TypeOK ==
  /\ arena_ptr \in 0 .. ArenaSize
  /\ live \subseteq Region
  /\ bank_array \subseteq Bank
  /\ cached \in [Key -> Region \cup {NoCode}]
  /\ kept \in Region \cup {NoCode}
  /\ phase \in {"precompile", "run"}
  /\ jit_halted \in {"no", "error", "memory"}

Disjoint(a, b) == a.end <= b.at \/ b.end <= a.at

\* Memory is handed out once: shrinking a block never takes memory from a bank
\* array that was allocated while it was compiled, and nothing lies beyond the
\* pointer.
AllocationsDisjoint ==
  /\ \A a \in live : a.at <= a.end /\ a.end <= arena_ptr
  /\ \A a, b \in live : a = b \/ Disjoint(a, b)

\* A cached pointer leads into a block that is still allocated, in all ways
\* through compiling, shrinking, clearing and retrying but one: the block that
\* was stored after the reset that cache_store's failure caused.
CachedCodeIsLive ==
  \A k \in Key : cached[k] # NoCode => cached[k] \in live \cup {kept}

\* "If the emulator runs out of RAM, it will clear all compiled code and try
\* again" (README.md:34): where the fixed tables, one block and one bank array
\* fit, no order of compilations stops the program for want of memory.
NeverOutOfMemory ==
  FixedSize + BlockSize + ArraySize <= ArenaSize => jit_halted # "memory"

\* "I've taken care to ensure it doesn't crash in this scenario" (README.md:43,
\* when the compiled code exceeds the memory): the code a cached pointer leads
\* to is what was compiled there, nothing else has been given its memory.
CachedCodeIntact ==
  \A k \in Key : cached[k] # NoCode =>
    \A a \in live : a = cached[k] \/ Disjoint(a, cached[k])
=============================================================================
