------------------------------ MODULE CodeCache ------------------------------
(***************************************************************************)
(* Compiled code whose source lies in the writable half of the Game Boy's  *)
(* address space ($8000-$ff7f), and how stores to that source are noticed. *)
(*                                                                         *)
(* Three pieces of the program cooperate, and this module composes them:   *)
(*   - system6/cache.c keeps, for every 256-byte page, the range of bytes  *)
(*     some block was compiled from, how many pages back the earliest of   *)
(*     those blocks starts, and one bit per 4K page;                       *)
(*   - system6/jit.c compiles a block when the cache has none, marks its   *)
(*     source range and removes the fast write mapping of its 4K pages;    *)
(*   - src/dmg.c sends a store through the 4K write mapping, or, when there *)
(*     is none, through dmg_write_slow, which drops the blocks it hits.    *)
(*                                                                         *)
(* Bytes are abstracted to what the mechanism can tell apart: whether a    *)
(* store changes the byte it hits, and whether a cached block was compiled *)
(* from it.  A 4K pointer in a page table is abstracted to the bank it     *)
(* points at.  HRAM is checked against a snapshot instead; that is module  *)
(* HramCode.                                                               *)
(***************************************************************************)
EXTENDS Integers, FiniteSets

CONSTANTS
  NumPages,     \* 256-byte pages of the region, $80-$fe in the program
  PageSize,     \* bytes in a page
  MemPage,      \* 4K pages, $8-$f in the program
  Mem4K,        \* the 4K page of a 256-byte page
  HomePage,     \* the page whose storage a page shows: itself, or for echo
                \* RAM the page $20 below
  Bank,         \* banks of storage a 4K page can show
  NoBank,       \* a NULL page-table entry
  InitBank,     \* the bank each 4K page shows after dmg_init_pages
  MapGroup,     \* sets of 4K pages that one bank register remaps together
  GroupBanks,   \* what a bank register can select for a group
  Block,        \* the blocks the compiler can produce
  StackPage,    \* pages the native stack pointer A3 can point into
  NoCode        \* a NULL code pointer in upper_cache

Page   == 0 .. NumPages - 1
Offset == 0 .. PageSize - 1
Addr   == Page \X Offset

(***************************************************************************)
(* A block's source runs from .start to .last inclusive.  The targets of   *)
(* its backward jr instructions are registered as entry points of their    *)
(* own while it is compiled: they are the domain of .low, and .low[h] is   *)
(* the lowest source byte that native code entered at h can branch back    *)
(* to, through h's own loop or one around it.                              *)
(***************************************************************************)
Leq(a, b) == a[1] < b[1] \/ (a[1] = b[1] /\ a[2] <= b[2])

IsBlock(blk) ==
  /\ blk.start \in Addr
  /\ blk.last \in Addr
  /\ Leq(blk.start, blk.last)
  /\ DOMAIN blk.low \subseteq Addr
  /\ \A h \in DOMAIN blk.low :
       /\ blk.low[h] \in Addr
       /\ Leq(blk.start, blk.low[h]) /\ Leq(blk.low[h], h) /\ Leq(h, blk.last)

ASSUME SizeAssumption ==
  /\ NumPages \in Nat \ {0}
  /\ PageSize \in Nat \ {0, 1}
ASSUME LayoutAssumption ==
  /\ Mem4K \in [Page -> MemPage]
  /\ HomePage \in [Page -> Page]
  /\ \A p \in Page : HomePage[HomePage[p]] = HomePage[p]
  /\ StackPage \subseteq Page
ASSUME BankAssumption ==
  /\ NoBank \notin Bank
  /\ InitBank \in [MemPage -> Bank \cup {NoBank}]
  /\ MapGroup \subseteq SUBSET MemPage
  /\ GroupBanks \in [MapGroup -> SUBSET (Bank \cup {NoBank})]
ASSUME BlockAssumption == \A blk \in Block : IsBlock(blk)

VARIABLES
  upper_page,        \* per page: lo, hi, reach of the compiled source in it
  upper_4k_code,     \* the 4K pages whose bit says they hold compiled code
  upper_cache,       \* the entry point cached for each address, or NoCode
  read_page,         \* the bank each 4K page shows to reads
  write_page,        \* the fast write mapping of each 4K page
  saved_write_page   \* the mapping removed because the page holds code

vars == <<upper_page, upper_4k_code, upper_cache,
          read_page, write_page, saved_write_page>>

-----------------------------------------------------------------------------
(* cache.c: the per-page ranges *)

NoMark == [lo |-> PageSize - 1, hi |-> 0, reach |-> 0]

HasCode(mark, p) == mark[p].lo <= mark[p].hi

\* The part of a source range that lies in page p.
LoIn(a, p) == IF p = a[1] THEN a[2] ELSE 0
\* Seeded error: one byte past the page.
HiIn_PastPage(b, p) == IF p = b[1] THEN b[2] ELSE PageSize
HiIn(b, p) == IF p = b[1] THEN b[2] ELSE PageSize - 1

Lesser(x, y)  == IF x < y THEN x ELSE y
Greater(x, y) == IF x > y THEN x ELSE y

\* Seeded error: pages are counted instead of distances.
MarkRange_ReachPlusOne(mark, start, last) ==
  [p \in Page |->
     IF start[1] <= p /\ p <= last[1]
       THEN [lo    |-> Lesser(mark[p].lo, LoIn(start, p)),
             hi    |-> Greater(mark[p].hi, HiIn(last, p)),
             reach |-> Greater(mark[p].reach, p - start[1] + 1)]
       ELSE mark[p]]

\* cache_mark_upper_range(start, last)
MarkRange(mark, start, last) ==
  [p \in Page |->
     IF start[1] <= p /\ p <= last[1]
       THEN [lo    |-> Lesser(mark[p].lo, LoIn(start, p)),
             hi    |-> Greater(mark[p].hi, HiIn(last, p)),
             reach |-> Greater(mark[p].reach, p - start[1])]
       ELSE mark[p]]

PagesOf(a, b) == {p \in Page : a[1] <= p /\ p <= b[1]}
Mem4KOf(S) == {Mem4K[p] : p \in S}

\* Seeded error: the last compiled byte is left out.
cache_upper_range_hit_Exclusive(mark, a) ==
  mark[a[1]].lo <= a[2] /\ a[2] < mark[a[1]].hi

cache_upper_range_hit(mark, a) ==
  mark[a[1]].lo <= a[2] /\ a[2] <= mark[a[1]].hi

\* "widen until no block starting before first reaches into the range": the
\* loop lowers first to k - reach[k] for every k from the page down to first,
\* so it stops at the highest first that no page of the range reaches below.
Closed(mark, first, p) == \A k \in first .. p : first <= k - mark[k].reach
\* Seeded errors: no widening at all, and a single step of it.
WidenedFirst_OwnPage(mark, p) == p
WidenedFirst_OneStep(mark, p) == p - mark[p].reach
WidenedFirst(mark, p) ==
  CHOOSE first \in 0 .. p :
    /\ Closed(mark, first, p)
    /\ \A f \in 0 .. p : Closed(mark, f, p) => f <= first

\* The loop as it is written: a pass for page k, and first after n passes, with k
\* running from p down.  Once k is below first, the loop has ended.
WideningPass(mark, first, k) ==
  IF k < first THEN first ELSE Lesser(first, k - mark[k].reach)
WideningLoop(mark, p) ==
  LET first[n \in Nat] ==
        IF n = 0 THEN p ELSE WideningPass(mark, first[n - 1], p + 1 - n)
  IN first[p + 1]

\* The pages cache_invalidate_upper_page(p) clears.
DroppedPages(mark, p) == WidenedFirst(mark, p) .. p

ClearMarks(mark, D) == [p \in Page |-> IF p \in D THEN NoMark ELSE mark[p]]
ClearCache(cache, D) ==
  [a \in Addr |-> IF a[1] \in D THEN NoCode ELSE cache[a]]

\* Seeded error: the bit is cleared without looking at the other pages.
Recompute4K_ClearAll(bits, mark, D) == bits \ Mem4KOf(D)
\* recompute_4k_code for every 4K page of D, with the marks already cleared
Recompute4K(bits, mark, D) ==
  (bits \ Mem4KOf(D)) \cup (Mem4KOf({p \in Page : HasCode(mark, p)}) \cap Mem4KOf(D))

-----------------------------------------------------------------------------
(* What is cached: the entry points of a block.  .bank remembers, per page,  *)
(* which bank the block was compiled from.  .missed and .bypassed record     *)
(* that a byte the entry's native code was compiled from has changed while   *)
(* the entry stayed: by a store to that very address, or by some other way.  *)

Entry == [start : Addr, last : Addr, low : Addr,
          bank : UNION {[S -> Bank \cup {NoBank}] : S \in SUBSET Page},
          missed : BOOLEAN, bypassed : BOOLEAN]

\* The bank that shows at page p, seen through the storage it stands for.
BankAt(p) == read_page[Mem4K[HomePage[p]]]

EntryOf(blk, low) ==
  [start |-> blk.start, last |-> blk.last, low |-> low,
   bank |-> [p \in PagesOf(low, blk.last) |-> BankAt(p)],
   missed |-> FALSE, bypassed |-> FALSE]

\* compile_jr and compile_jr_cond store the loop heads while the block is being
\* compiled, jit_run stores the block itself afterwards.
StoreBlock(cache, blk) ==
  [a \in Addr |-> IF a = blk.start THEN EntryOf(blk, blk.start)
                  ELSE IF a \in DOMAIN blk.low THEN EntryOf(blk, blk.low[a])
                  ELSE cache[a]]

\* Was entry x compiled from byte off of bank b of home page h?
CompiledFrom(x, h, b, off) ==
  \E q \in PagesOf(x.low, x.last) :
    /\ HomePage[q] = h
    /\ x.bank[q] = b
    /\ Leq(x.low, <<q, off>>) /\ Leq(<<q, off>>, x.last)

\* Was it compiled from that byte at guest address a itself?
CompiledAt(x, a, b) ==
  /\ Leq(x.low, a) /\ Leq(a, x.last)
  /\ x.bank[a[1]] = b

\* A store through guest address a changes byte a[2] of bank b.
Changed(cache, a, b) ==
  [c \in Addr |->
     IF cache[c] = NoCode THEN NoCode
     ELSE IF CompiledAt(cache[c], a, b)
       THEN [cache[c] EXCEPT !.missed = TRUE]
     ELSE IF CompiledFrom(cache[c], HomePage[a[1]], b, a[2])
       THEN [cache[c] EXCEPT !.bypassed = TRUE]
     ELSE cache[c]]

ChangedIf(changes, cache, a, b) ==
  IF changes THEN Changed(cache, a, b) ELSE cache
-----------------------------------------------------------------------------
(* jit.c: a block is compiled, or everything is dropped *)

\* Fast writes come back for every page whose mapping was put aside.
RestoredWrites ==
  [m \in MemPage |-> IF saved_write_page[m] # NoBank THEN saved_write_page[m]
                     ELSE write_page[m]]

\* Compile blk into the given state of the cache and of the write mappings,
\* mark its source, and put aside the mapping of the 4K pages it lies in.
Compile(blk, mark, bits, cache, writes, saved) ==
  LET code == Mem4KOf(PagesOf(blk.start, blk.last))
      Protect(m) == m \in code /\ writes[m] # NoBank /\ saved[m] = NoBank
  IN /\ upper_cache' = StoreBlock(cache, blk)
     /\ upper_page' = MarkRange(mark, blk.start, blk.last)
     /\ upper_4k_code' = bits \cup code
     /\ saved_write_page' =
          [m \in MemPage |-> IF Protect(m) THEN writes[m] ELSE saved[m]]
     /\ write_page' =
          [m \in MemPage |-> IF Protect(m) THEN NoBank ELSE writes[m]]
     /\ UNCHANGED read_page

\* jit_run: nothing is cached at the program counter, so the block that starts
\* there is compiled; when the arena is full, after dropping everything.
jit_run(blk, arenaFull) ==
  /\ upper_cache[blk.start] = NoCode
  /\ IF arenaFull
       THEN Compile(blk, [p \in Page |-> NoMark], {}, [a \in Addr |-> NoCode],
                    RestoredWrites, [m \in MemPage |-> NoBank])
       ELSE Compile(blk, upper_page, upper_4k_code, upper_cache,
                    write_page, saved_write_page)

\* Seeded error: the put-aside mappings are not forgotten.
jit_clear_all_blocks_KeepSaved ==
  /\ upper_cache' = [a \in Addr |-> NoCode]
  /\ upper_page' = [p \in Page |-> NoMark]
  /\ upper_4k_code' = {}
  /\ write_page' = RestoredWrites
  /\ UNCHANGED <<read_page, saved_write_page>>

\* jit_clear_all_blocks, reached while a ROM block is compiled
jit_clear_all_blocks ==
  /\ upper_cache' = [a \in Addr |-> NoCode]
  /\ upper_page' = [p \in Page |-> NoMark]
  /\ upper_4k_code' = {}
  /\ write_page' = RestoredWrites
  /\ saved_write_page' = [m \in MemPage |-> NoBank]
  /\ UNCHANGED read_page

-----------------------------------------------------------------------------
(* dmg.c: stores and bank registers *)

\* dmg_write with the code-tracking state given; echo addresses without a
\* mapping are taken care of by dmg_write below.
StoreAt(a, changes, mark, bits, cache) ==
  LET m     == Mem4K[a[1]]
      saved == saved_write_page[m]
      D     == DroppedPages(mark, a[1])
      marks == ClearMarks(mark, D)
      left  == Recompute4K(bits, marks, D)
  IN IF write_page[m] # NoBank
     THEN \* fast
       /\ upper_cache' = ChangedIf(changes, cache, a, write_page[m])
       /\ upper_page' = mark /\ upper_4k_code' = bits
       /\ UNCHANGED <<write_page, saved_write_page>>
     ELSE IF cache_upper_range_hit(mark, a) /\ (saved = NoBank \/ changes)
     THEN \* self-modifying code
       /\ upper_page' = marks /\ upper_4k_code' = left
       /\ upper_cache' = ChangedIf(changes, ClearCache(cache, D), a, saved)
       /\ IF saved # NoBank /\ m \notin left
            THEN /\ write_page' = [write_page EXCEPT ![m] = saved]
                 /\ saved_write_page' = [saved_write_page EXCEPT ![m] = NoBank]
            ELSE UNCHANGED <<write_page, saved_write_page>>
     ELSE \* slow only because compiled code lives elsewhere in the page
       /\ upper_cache' = ChangedIf(changes, cache, a, saved)
       /\ upper_page' = mark /\ upper_4k_code' = bits
       /\ UNCHANGED <<write_page, saved_write_page>>

\* $f000-$fdff has no mapping of its own: after its own blocks are dropped the
\* store is made again, $2000 lower.
FallsToEcho(a) ==
  LET m == Mem4K[a[1]]
  IN HomePage[a[1]] # a[1] /\ write_page[m] = NoBank /\ saved_write_page[m] = NoBank

dmg_write(a, changes) ==
  /\ UNCHANGED read_page
  /\ IF FallsToEcho(a)
     THEN LET D     == IF cache_upper_range_hit(upper_page, a)
                         THEN DroppedPages(upper_page, a[1]) ELSE {}
              marks == ClearMarks(upper_page, D)
          IN StoreAt(<<HomePage[a[1]], a[2]>>, changes, marks,
                     Recompute4K(upper_4k_code, marks, D),
                     ClearCache(upper_cache, D))
     ELSE StoreAt(a, changes, upper_page, upper_4k_code, upper_cache)

\* A push in fast mode stores through A3 and asks nobody.  A3 was computed from
\* the page table when SP was loaded, so it may point into another bank by now.
NativePush(a, bank) ==
  /\ a[1] \in StackPage
  /\ upper_cache' =
       [c \in Addr |->
          IF upper_cache[c] # NoCode
             /\ CompiledFrom(upper_cache[c], HomePage[a[1]], bank, a[2])
            THEN [upper_cache[c] EXCEPT !.bypassed = TRUE]
            ELSE upper_cache[c]]
  /\ UNCHANGED <<upper_page, upper_4k_code, read_page, write_page,
                 saved_write_page>>

\* Seeded error: the new bank is mapped for writing whatever the page holds.
dmg_map_upper_page_Writable(group, bank) ==
  /\ read_page' = [m \in MemPage |-> IF m \in group THEN bank ELSE read_page[m]]
  /\ write_page' = [m \in MemPage |-> IF m \in group THEN bank ELSE write_page[m]]
  /\ saved_write_page' =
       [m \in MemPage |-> IF m \in group THEN NoBank ELSE saved_write_page[m]]
  /\ UNCHANGED <<upper_page, upper_4k_code, upper_cache>>

\* dmg_map_upper_page for each 4K page of a group: dmg_update_ram_bank (two
\* pages), cgb_update_vram_bank (two) and cgb_update_wram_bank (one)
dmg_map_upper_page(group, bank) ==
  LET Unmap(m) == bank # NoBank /\ m \in upper_4k_code
  IN /\ read_page' = [m \in MemPage |-> IF m \in group THEN bank ELSE read_page[m]]
     /\ write_page' =
          [m \in MemPage |-> IF m \notin group THEN write_page[m]
                             ELSE IF Unmap(m) THEN NoBank ELSE bank]
     /\ saved_write_page' =
          [m \in MemPage |-> IF m \notin group THEN saved_write_page[m]
                             ELSE IF Unmap(m) THEN bank ELSE NoBank]
     /\ UNCHANGED <<upper_page, upper_4k_code, upper_cache>>

-----------------------------------------------------------------------------
\* dmg_init_pages and cache_init
Init ==
  /\ upper_page = [p \in Page |-> NoMark]
  /\ upper_4k_code = {}
  /\ upper_cache = [a \in Addr |-> NoCode]
  /\ read_page = InitBank
  /\ write_page = InitBank
  /\ saved_write_page = [m \in MemPage |-> NoBank]

Next ==
  \/ \E blk \in Block, arenaFull \in BOOLEAN : jit_run(blk, arenaFull)
  \/ jit_clear_all_blocks
  \/ \E a \in Addr, changes \in BOOLEAN : dmg_write(a, changes)
  \/ \E a \in Addr, bank \in Bank : NativePush(a, bank)
  \/ \E g \in MapGroup : \E bank \in GroupBanks[g] : dmg_map_upper_page(g, bank)

Spec == Init /\ [][Next]_vars

-----------------------------------------------------------------------------
(* Properties *)

TypeOK ==
  /\ upper_page \in [Page -> [lo : Offset, hi : Offset, reach : Nat]]
  /\ upper_4k_code \subseteq MemPage
  /\ upper_cache \in [Addr -> Entry \cup {NoCode}]
  /\ read_page \in [MemPage -> Bank \cup {NoBank}]
  /\ write_page \in [MemPage -> Bank \cup {NoBank}]
  /\ saved_write_page \in [MemPage -> Bank \cup {NoBank}]

\* The widening never reaches below page $80: cache_invalidate_upper_page
\* clears upper_cache from first << 8 and would write in front of it.
ReachInBounds == \A p \in Page : upper_page[p].reach <= p

\* From the page of a cached entry to the end of its block, the ranges cover
\* the block's source and the reach leads back at least to the entry: whatever
\* order blocks are compiled, overlapped and dropped in, a page's range is
\* never reset while an entry in or before that page needs it.
CodeIsMarked ==
  \A c \in Addr : upper_cache[c] # NoCode =>
    LET x == upper_cache[c] IN
    \A p \in PagesOf(c, x.last) :
      /\ upper_page[p].lo <= LoIn(x.start, p)
      /\ upper_page[p].hi >= HiIn(x.last, p)
      /\ upper_page[p].reach >= p - c[1]

\* The bit of a 4K page says exactly whether some page of it has a range.
CodeBitsExact == upper_4k_code = Mem4KOf({p \in Page : HasCode(upper_page, p)})

\* No 4K page with compiled code can be written without dmg_write_slow, through
\* bank switches and "fast writes come back only once the whole 4K page is
\* free of compiled code" (src/dmg.c:711).
CodePagesProtected == \A m \in upper_4k_code : write_page[m] = NoBank

\* A 4K page is writable in one way only, fast or saved, and what is written
\* there is what is read there: no write mapping outlives a bank switch.
WritesReachWhatIsRead ==
  \A m \in MemPage :
    /\ write_page[m] = NoBank \/ saved_write_page[m] = NoBank
    /\ read_page[m] = IF write_page[m] # NoBank THEN write_page[m]
                      ELSE saved_write_page[m]

\* The loop computes what WidenedFirst says it does, for every page
\* (system6/cache.c, "widen until no block starting before first reaches into
\* the range").
WideningLoopAgrees ==
  \A p \in Page : WideningLoop(upper_page, p) = WidenedFirst(upper_page, p)

\* Self-modifying code is noticed: an entry whose native code stays within its
\* own page and the ones after it is never still cached after a store to an
\* address it was compiled from has changed the byte.
SelfModificationNoticed ==
  \A c \in Addr : upper_cache[c] # NoCode =>
    (upper_cache[c].low[1] = c[1] => ~ upper_cache[c].missed)

\* "drop this 256B page's compiled blocks" (src/dmg.c:708), of every entry: a
\* store to compiled source leaves no entry whose native code includes it.
EveryEntryDropped ==
  \A c \in Addr : upper_cache[c] # NoCode => ~ upper_cache[c].missed

\* "unmap fast writes for those pages so dmg_write_slow can catch the
\* modification" (system6/jit.c:534): nothing changes a byte that cached code
\* was compiled from without dmg_write_slow seeing that address.
ModificationsCaught ==
  \A c \in Addr : upper_cache[c] # NoCode => ~ upper_cache[c].bypassed
=============================================================================
