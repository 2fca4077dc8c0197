------------------------------- MODULE HramCode -------------------------------
(***************************************************************************)
(* Compiled code whose source lies in high RAM ($ff80-$fffe).              *)
(*                                                                         *)
(* Native code stores into HRAM without asking anybody (compiler/          *)
(* mem_loads.c, the write8 helper of compiler/interop.c, fast pushes), so   *)
(* no store can be relied on to drop a block.  system6/cache.c keeps a     *)
(* snapshot of the page instead and compares it at every lookup, which the *)
(* dispatcher leaves to C for these addresses.                             *)
(*                                                                         *)
(* Addresses are offsets into the page.  A block that also uses IE         *)
(* ($ffff) as code is not modelled: cache_mark_upper_range does not return *)
(* from it.                                                                *)
(***************************************************************************)
EXTENDS Integers

CONSTANTS
  HramSize,     \* bytes of code space in HRAM, $7f in the program
  Byte,         \* what a byte can hold
  InitByte,     \* what dmg_new clears HRAM to
  NoCode        \* a NULL code pointer

Hram == 0 .. HramSize - 1

ASSUME HramAssumption == HramSize \in Nat \ {0} /\ InitByte \in Byte

VARIABLES
  hram,            \* what the game's loads and fetches see
  hram_snapshot,
  hram_is_code,    \* the bytes marked as compiled from
  hram_has_code,
  lo, hi,          \* upper_page_lo and upper_page_hi of page $ff
  upper_cache      \* per address: the range and the bytes its native code was
                   \* compiled from, or NoCode

vars == <<hram, hram_snapshot, hram_is_code, hram_has_code, lo, hi, upper_cache>>

-----------------------------------------------------------------------------
\* Seeded error: the last compiled byte is not compared.
hram_snapshot_valid_Exclusive ==
  \A k \in lo .. hi - 1 : k \in hram_is_code => hram[k] = hram_snapshot[k]

hram_snapshot_valid ==
  \A k \in lo .. hi : k \in hram_is_code => hram[k] = hram_snapshot[k]

\* The page check in front of the lookup: does this lookup drop the page?
Stale == hram_has_code /\ ~ hram_snapshot_valid

\* cache_lookup, without its effect on the page
cache_lookup(pc) == IF Stale THEN NoCode ELSE upper_cache[pc]

\* cache_invalidate_upper_page($ff); no HRAM block starts in an earlier page
cache_invalidate_upper_page ==
  /\ upper_cache' = [pc \in Hram |-> NoCode]
  /\ lo' = HramSize /\ hi' = 0
  /\ hram_is_code' = {} /\ hram_has_code' = FALSE

Compiled(start, last) ==
  [start |-> start, last |-> last, bytes |-> [k \in start .. last |-> hram[k]]]

Entry == UNION {[start : {r[1]}, last : {r[2]}, bytes : [r[1] .. r[2] -> Byte]] :
                  r \in Hram \X Hram}
ASSUME CodeAssumption == NoCode \notin Entry

Lesser(x, y)  == IF x < y THEN x ELSE y
Greater(x, y) == IF x > y THEN x ELSE y

\* Seeded error: end_address is taken for the last byte.
MarkHi_EndAddress(h, last) == Greater(h, last + 1)
MarkHi(h, last) == Greater(h, last)

\* Seeded error: the snapshot is taken only for the page's first block.
TakeSnapshot_Once(had) == IF had THEN hram_snapshot ELSE hram
\* "re-snapshot whenever HRAM gets compiled code": all of HRAM, each time
TakeSnapshot(had) == hram

\* Compile the block start .. last into the given cache, with the page's marks,
\* and register its loop heads: compile_block, cache_store and
\* cache_mark_upper_range.
CompileInto(start, last, heads, cache, l, h, marked, had) ==
  /\ upper_cache' = [pc \in Hram |-> IF pc \in heads \cup {start}
                                     THEN Compiled(start, last) ELSE cache[pc]]
  /\ lo' = Lesser(l, start)
  /\ hi' = MarkHi(h, last)
  /\ hram_is_code' = marked \cup (start .. last)
  /\ hram_snapshot' = TakeSnapshot(had)
  /\ hram_has_code' = TRUE

\* jit_run at pc, when a block has to be compiled: nothing is cached there, or
\* the lookup has just dropped the page, or the arena was full and
\* jit_clear_all_blocks dropped everything.
jit_run_compile(pc, last, heads, arenaFull) ==
  /\ cache_lookup(pc) = NoCode
  /\ UNCHANGED hram
  /\ IF Stale \/ arenaFull
       THEN CompileInto(pc, last, heads, [a \in Hram |-> NoCode], HramSize, 0, {}, FALSE)
       ELSE CompileInto(pc, last, heads, upper_cache, lo, hi, hram_is_code,
                        hram_has_code)

\* Compiled code stores a byte: movea to hram_base, or a push through A3.
NativeStore(a, v) ==
  /\ hram' = [hram EXCEPT ![a] = v]
  /\ UNCHANGED <<hram_snapshot, hram_is_code, hram_has_code, lo, hi, upper_cache>>

\* dmg_write_slow: an interrupt's push, ldh (c),a through C.  Page $f has no
\* mapping to put aside, so a hit drops the page whatever the value is.
dmg_write_slow(a, v) ==
  /\ hram' = [hram EXCEPT ![a] = v]
  /\ IF lo <= a /\ a <= hi
       THEN cache_invalidate_upper_page /\ UNCHANGED hram_snapshot
       ELSE UNCHANGED <<hram_snapshot, hram_is_code, hram_has_code, lo, hi,
                        upper_cache>>

\* jit_clear_all_blocks, while a block elsewhere is compiled
jit_clear_all_blocks == cache_invalidate_upper_page /\ UNCHANGED <<hram, hram_snapshot>>

Init ==
  /\ hram = [k \in Hram |-> InitByte]
  /\ hram_snapshot = [k \in Hram |-> InitByte]
  /\ hram_is_code = {} /\ hram_has_code = FALSE
  /\ lo = HramSize /\ hi = 0
  /\ upper_cache = [pc \in Hram |-> NoCode]

Next ==
  \/ \E pc, last \in Hram, arenaFull \in BOOLEAN :
       /\ pc <= last
       /\ \E heads \in SUBSET (pc + 1 .. last) : jit_run_compile(pc, last, heads, arenaFull)
  \/ \E a \in Hram, v \in Byte : NativeStore(a, v) \/ dmg_write_slow(a, v)
  \/ jit_clear_all_blocks

Spec == Init /\ [][Next]_vars

-----------------------------------------------------------------------------
(* Properties *)

TypeOK ==
  /\ hram \in [Hram -> Byte] /\ hram_snapshot \in [Hram -> Byte]
  /\ hram_is_code \subseteq Hram /\ hram_has_code \in BOOLEAN
  /\ lo \in 0 .. HramSize /\ hi \in Hram
  /\ upper_cache \in [Hram -> Entry \cup {NoCode}]

Matches(x) == \A k \in x.start .. x.last : x.bytes[k] = hram[k]

\* "compiled HRAM source bytes still match what the game is executing"
\* (system6/cache.c:45): a lookup never returns code compiled from bytes that
\* are not there now, however many native stores, partial re-markings and
\* re-snapshots of the shared page lie between the compilation and the lookup.
LookupIsFresh ==
  \A pc \in Hram : cache_lookup(pc) # NoCode => Matches(cache_lookup(pc))

\* A block just compiled is found by the next lookup: marking it leaves a
\* snapshot the whole page agrees with, so jit_run is not sent back to the
\* compiler for ever.
CompiledIsFound ==
  [][\A pc, last \in Hram, arenaFull \in BOOLEAN :
       \A heads \in SUBSET (pc + 1 .. last) :
         pc <= last /\ jit_run_compile(pc, last, heads, arenaFull)
           => cache_lookup(pc)' # NoCode]_vars
=============================================================================
