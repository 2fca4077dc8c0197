--------------------------- MODULE CodeCacheProofs ---------------------------
(***************************************************************************)
(* For every layout of the address space, every set of banks and every set *)
(* of blocks: the invariants of CodeCache hold in all its reachable states.*)
(***************************************************************************)
EXTENDS CodeCache, NaturalsInduction, WellFoundedInduction, TLAPS

USE SizeAssumption

Mark == [lo : Offset, hi : Offset, reach : Nat]

LEMMA NoMarkType == NoMark \in Mark
BY DEF NoMark, Mark, Offset

LEMMA AddrType ==
  ASSUME NEW a \in Addr
  PROVE  /\ a = <<a[1], a[2]>>
         /\ a[1] \in Page /\ a[1] \in Nat
         /\ a[2] \in Offset /\ a[2] \in Nat /\ a[2] <= PageSize - 1
BY DEF Addr, Page, Offset

(***************************************************************************)
(* The loop of cache_invalidate_upper_page finds a page: first = 0 always  *)
(* qualifies while no reach leads below the region, and a nonempty set of  *)
(* distances below p has a least one.                                      *)
(***************************************************************************)
LEMMA WidenedFirstIsClosed ==
  ASSUME NEW mark \in [Page -> Mark],
         \A q \in Page : mark[q].reach <= q,
         NEW p \in Page
  PROVE  /\ WidenedFirst(mark, p) \in 0 .. p
         /\ Closed(mark, WidenedFirst(mark, p), p)
<1> DEFINE T == {d \in 0 .. p : Closed(mark, p - d, p)}
<1>1. p \in Nat /\ 0 .. p \subseteq Page
  BY DEF Page
<1>2. Closed(mark, 0, p)
  BY <1>1 DEF Closed, Mark
<1>3. p \in T
  BY <1>1, <1>2
<1>4. T \subseteq Nat /\ T # {}
  BY <1>3
<1>5. \E x \in T : \A y \in T : ~ (<<y, x>> \in OpToRel(<, Nat))
  <2> HIDE DEF T
  <2> QED BY <1>4, NatLessThanWellFounded, WFMin
<1>6. PICK x \in T : \A y \in T : ~ (y < x)
  BY <1>4, <1>5 DEF OpToRel
<1>7. p - x \in 0 .. p /\ Closed(mark, p - x, p)
  BY <1>1
<1>8. \A f \in 0 .. p : Closed(mark, f, p) => f <= p - x
  <2> SUFFICES ASSUME NEW f \in 0 .. p, Closed(mark, f, p)
               PROVE  f <= p - x
    OBVIOUS
  <2>1. p - f \in 0 .. p /\ p - (p - f) = f
    BY <1>1
  <2>2. p - f \in T
    BY <2>1
  <2> QED BY <1>1, <1>6, <2>1, <2>2
<1> QED
  BY <1>7, <1>8 DEF WidenedFirst

-----------------------------------------------------------------------------
(***************************************************************************)
(* The invariant of the code-tracking state alone.  Entries lie inside     *)
(* their block (low <= c <= last), which no run states and the proofs need *)
(* to find the pages between an entry and a byte of its source.            *)
(***************************************************************************)
MarksOK(mark) ==
  /\ mark \in [Page -> Mark]
  /\ \A p \in Page : mark[p].reach <= p

EntriesOK(cache) ==
  /\ cache \in [Addr -> Entry \cup {NoCode}]
  /\ \A c \in Addr : cache[c] # NoCode =>
       /\ Leq(cache[c].start, cache[c].low)
       /\ Leq(cache[c].low, c)
       /\ Leq(c, cache[c].last)

Tracked(mark, cache) ==
  \A c \in Addr : cache[c] # NoCode =>
    \A p \in PagesOf(c, cache[c].last) :
      /\ mark[p].lo <= LoIn(cache[c].start, p)
      /\ mark[p].hi >= HiIn(cache[c].last, p)
      /\ mark[p].reach >= p - c[1]

BitsOK(mark, bits) == bits = Mem4KOf({p \in Page : HasCode(mark, p)})

Noticed(cache) ==
  \A c \in Addr : cache[c] # NoCode =>
    (cache[c].low[1] = c[1] => ~ cache[c].missed)

Tracking(mark, bits, cache) ==
  /\ MarksOK(mark)
  /\ EntriesOK(cache)
  /\ Tracked(mark, cache)
  /\ BitsOK(mark, bits)
  /\ Noticed(cache)

\* A block that starts before the dropped pages reaches into none of them.
LEMMA KeptEntriesStayOut ==
  ASSUME NEW mark, NEW bits, NEW cache, Tracking(mark, bits, cache),
         NEW p \in Page, NEW c \in Addr, cache[c] # NoCode,
         NEW q \in PagesOf(c, cache[c].last),
         q \in DroppedPages(mark, p)
  PROVE  c[1] \in DroppedPages(mark, p)
<1> DEFINE first == WidenedFirst(mark, p)
<1>1. first \in 0 .. p /\ Closed(mark, first, p)
  BY WidenedFirstIsClosed DEF Tracking, MarksOK
<1>2. q \in first .. p /\ c[1] \in Nat /\ c[1] <= q /\ q \in Page
  BY AddrType DEF DroppedPages, PagesOf
<1>3. mark[q].reach >= q - c[1] /\ mark[q].reach \in Nat
  BY <1>2 DEF Tracking, Tracked, MarksOK, Mark
<1>4. first <= q - mark[q].reach
  BY <1>1, <1>2 DEF Closed
<1>5. first <= c[1]
  <2> HIDE DEF first
  <2> QED BY <1>1, <1>2, <1>3, <1>4 DEF Page
<1> QED
  BY <1>1, <1>2, <1>5 DEF DroppedPages, Page

\* Dropping pages keeps the tracking invariant and sets no bit.
LEMMA DropKeepsTracking ==
  ASSUME NEW mark, NEW bits, NEW cache, Tracking(mark, bits, cache),
         NEW p \in Page
  PROVE  LET D     == DroppedPages(mark, p)
             marks == ClearMarks(mark, D)
             left  == Recompute4K(bits, marks, D)
         IN Tracking(marks, left, ClearCache(cache, D)) /\ left \subseteq bits
<1> DEFINE D == DroppedPages(mark, p)
           marks == ClearMarks(mark, D)
           left == Recompute4K(bits, marks, D)
           kept == ClearCache(cache, D)
<1>1. D \subseteq Page
  BY WidenedFirstIsClosed DEF Tracking, MarksOK, DroppedPages, Page
<1>2. MarksOK(marks)
  BY NoMarkType DEF Tracking, MarksOK, ClearMarks, NoMark, Page
<1>3. \A c \in Addr : kept[c] # NoCode => kept[c] = cache[c] /\ c[1] \notin D
  BY DEF ClearCache
<1>4. EntriesOK(kept)
  <2>1. kept \in [Addr -> Entry \cup {NoCode}]
    BY DEF Tracking, EntriesOK, ClearCache
  <2> HIDE DEF kept
  <2> QED BY <1>3, <2>1 DEF Tracking, EntriesOK
<1>5. Tracked(marks, kept)
  <2> SUFFICES ASSUME NEW c \in Addr, kept[c] # NoCode,
                      NEW q \in PagesOf(c, kept[c].last)
               PROVE  marks[q] = mark[q]
    BY <1>3 DEF Tracking, Tracked
  <2>1. kept[c] = cache[c] /\ c[1] \notin D
    BY <1>3
  <2>2. q \notin D
    BY <2>1, KeptEntriesStayOut
  <2> QED BY <2>2 DEF ClearMarks, PagesOf
<1>6. Noticed(kept)
  BY <1>3 DEF Tracking, Noticed
<1>7. \A q \in Page : HasCode(marks, q) <=> q \notin D /\ HasCode(mark, q)
  BY DEF ClearMarks, HasCode, NoMark
<1>8. BitsOK(marks, left) /\ left \subseteq bits
  <2> HIDE DEF D, marks
  <2> QED BY <1>1, <1>7 DEF Tracking, BitsOK, Recompute4K, Mem4KOf
<1> QED
  BY <1>2, <1>4, <1>5, <1>6, <1>8 DEF Tracking

-----------------------------------------------------------------------------
(***************************************************************************)
(* Stores.                                                                 *)
(***************************************************************************)

\* Where an entry keeps to its own page and later ones, its source bytes lie in
\* the marked range of a page whose 4K bit is set, reaching back to the entry.
LEMMA SourceIsMarked ==
  ASSUME NEW mark, NEW bits, NEW cache, Tracking(mark, bits, cache),
         NEW c \in Addr, cache[c] # NoCode, cache[c].low[1] = c[1],
         NEW a \in Addr, Leq(cache[c].low, a), Leq(a, cache[c].last)
  PROVE  /\ a[1] \in PagesOf(c, cache[c].last)
         /\ cache_upper_range_hit(mark, a)
         /\ Mem4K[a[1]] \in bits
<1> DEFINE x == cache[c]
<1>1. /\ x.start \in Addr /\ x.last \in Addr /\ x.low \in Addr
      /\ Leq(x.start, x.low)
  BY DEF Tracking, EntriesOK, Entry
<1>2. a[1] \in PagesOf(c, x.last)
  BY <1>1, AddrType DEF PagesOf, Leq, Page
<1>3. mark[a[1]] \in Mark /\ a[1] \in Page
  BY AddrType DEF Tracking, MarksOK
<1>4. mark[a[1]].lo <= LoIn(x.start, a[1]) /\ HiIn(x.last, a[1]) <= mark[a[1]].hi
  BY <1>2, <1>3 DEF Tracking, Tracked, Mark, Offset, LoIn, HiIn
<1>5. LoIn(x.start, a[1]) <= a[2] /\ a[2] <= HiIn(x.last, a[1])
  BY <1>1, AddrType DEF LoIn, HiIn, Leq, Page, Offset
<1>6. mark[a[1]].lo <= a[2] /\ a[2] <= mark[a[1]].hi
  BY <1>1, <1>3, <1>4, <1>5, AddrType DEF Mark, LoIn, HiIn, Offset
<1>7. HasCode(mark, a[1])
  BY <1>3, <1>6, AddrType DEF HasCode, Mark, Offset
<1> QED
  BY <1>2, <1>3, <1>6, <1>7
     DEF cache_upper_range_hit, Tracking, BitsOK, Mem4KOf

\* What a changing store records leaves the entries what they were.
LEMMA ChangedShape ==
  ASSUME NEW cache, EntriesOK(cache), NEW a \in Addr, NEW b
  PROVE  LET after == Changed(cache, a, b)
         IN /\ EntriesOK(after)
            /\ \A c \in Addr :
                 /\ cache[c] = NoCode => after[c] = NoCode
                 /\ after[c] # NoCode /\ cache[c] # NoCode =>
                      /\ after[c].start = cache[c].start
                      /\ after[c].last = cache[c].last
                      /\ after[c].low = cache[c].low
                      /\ ~ CompiledAt(cache[c], a, b) =>
                           after[c].missed = cache[c].missed
<1> DEFINE after == Changed(cache, a, b)
<1>1. ASSUME NEW c \in Addr, cache[c] # NoCode
      PROVE  /\ after[c] \in Entry
             /\ after[c].start = cache[c].start
             /\ after[c].last = cache[c].last
             /\ after[c].low = cache[c].low
             /\ ~ CompiledAt(cache[c], a, b) =>
                  after[c].missed = cache[c].missed
  <2>1. cache[c] \in Entry
    BY <1>1 DEF EntriesOK
  <2>2. CASE CompiledAt(cache[c], a, b)
    BY <1>1, <2>1, <2>2 DEF Changed, Entry
  <2>3. CASE ~ CompiledAt(cache[c], a, b)
             /\ CompiledFrom(cache[c], HomePage[a[1]], b, a[2])
    BY <1>1, <2>1, <2>3 DEF Changed, Entry
  <2>4. CASE ~ CompiledAt(cache[c], a, b)
             /\ ~ CompiledFrom(cache[c], HomePage[a[1]], b, a[2])
    BY <1>1, <2>1, <2>4 DEF Changed
  <2> QED BY <2>2, <2>3, <2>4
<1>2. \A c \in Addr : cache[c] = NoCode => after[c] = NoCode
  BY DEF Changed
<1>3. DOMAIN after = Addr /\ after = [c \in Addr |-> after[c]]
  BY DEF Changed
<1> HIDE DEF after
<1>4. after \in [Addr -> Entry \cup {NoCode}]
  BY <1>1, <1>2, <1>3
<1>5. EntriesOK(after)
  BY <1>1, <1>2, <1>4 DEF EntriesOK
<1> QED
  BY <1>1, <1>2, <1>5 DEF after

\* The tracking invariant survives a changing store that hits no entry which
\* keeps to its own page and later ones.
LEMMA HarmlessChange ==
  ASSUME NEW mark, NEW bits, NEW cache, Tracking(mark, bits, cache),
         NEW a \in Addr, NEW b, NEW changes,
         changes => \A c \in Addr : cache[c] # NoCode /\ cache[c].low[1] = c[1]
                      => ~ (Leq(cache[c].low, a) /\ Leq(a, cache[c].last))
  PROVE  Tracking(mark, bits, ChangedIf(changes, cache, a, b))
<1>1. CASE ~ changes
  BY <1>1 DEF ChangedIf
<1>2. CASE changes
  <2> DEFINE after == Changed(cache, a, b)
  <2>1. /\ EntriesOK(after)
        /\ \A c \in Addr : after[c] # NoCode =>
             /\ cache[c] # NoCode
             /\ after[c].start = cache[c].start
             /\ after[c].last = cache[c].last
             /\ after[c].low = cache[c].low
             /\ ~ CompiledAt(cache[c], a, b) => after[c].missed = cache[c].missed
    BY ChangedShape DEF Tracking
  <2> HIDE DEF after
  <2>2. Tracked(mark, after)
    BY <2>1 DEF Tracking, Tracked
  <2>3. Noticed(after)
    BY <1>2, <2>1 DEF Tracking, Noticed, CompiledAt
  <2> QED BY <1>2, <2>1, <2>2, <2>3 DEF ChangedIf, Tracking, after
<1> QED
  BY <1>1, <1>2

-----------------------------------------------------------------------------
(***************************************************************************)
(* The inductive invariant: the tracking state, and page tables that agree *)
(* with it and with each other.                                            *)
(***************************************************************************)
MappingsOK ==
  /\ read_page \in [MemPage -> Bank \cup {NoBank}]
  /\ write_page \in [MemPage -> Bank \cup {NoBank}]
  /\ saved_write_page \in [MemPage -> Bank \cup {NoBank}]
  /\ CodePagesProtected
  /\ WritesReachWhatIsRead

IInv == Tracking(upper_page, upper_4k_code, upper_cache) /\ MappingsOK

\* A store made on a tracking state that the invariant allows, from which at
\* most bits were cleared, establishes the invariant again.
LEMMA StoreKeepsInvariant ==
  ASSUME NEW mark, NEW bits, NEW cache, Tracking(mark, bits, cache),
         bits \subseteq upper_4k_code, MappingsOK,
         NEW a \in Addr, NEW changes \in BOOLEAN,
         StoreAt(a, changes, mark, bits, cache), UNCHANGED read_page
  PROVE  IInv'
<1> DEFINE m     == Mem4K[a[1]]
           D     == DroppedPages(mark, a[1])
           marks == ClearMarks(mark, D)
           left  == Recompute4K(bits, marks, D)
           kept  == ClearCache(cache, D)
           Hits(e) == \E c \in Addr : /\ e[c] # NoCode /\ e[c].low[1] = c[1]
                                     /\ Leq(e[c].low, a) /\ Leq(a, e[c].last)
<1>0. a[1] \in Page /\ m \in MemPage
  BY AddrType, LayoutAssumption
<1>1. Hits(cache) => cache_upper_range_hit(mark, a) /\ m \in bits
  BY SourceIsMarked
<1>2. Tracking(marks, left, kept) /\ left \subseteq bits
  BY <1>0, DropKeepsTracking
<1>3. ~ Hits(kept)
  <2> SUFFICES ASSUME NEW c \in Addr, kept[c] # NoCode, kept[c].low[1] = c[1],
                      Leq(kept[c].low, a), Leq(a, kept[c].last)
               PROVE  FALSE
    OBVIOUS
  <2>1. kept[c] = cache[c] /\ c[1] \notin D
    BY DEF ClearCache
  <2>2. a[1] \in PagesOf(c, cache[c].last)
    BY <2>1, SourceIsMarked
  <2>3. a[1] \in D
    BY <1>0, WidenedFirstIsClosed DEF DroppedPages, Page, Tracking, MarksOK
  <2> QED BY <1>0, <2>1, <2>2, <2>3, KeptEntriesStayOut
<1>4. CASE write_page[m] # NoBank
  <2>1. m \notin bits
    BY <1>4 DEF MappingsOK, CodePagesProtected
  <2>2. ~ Hits(cache)
    BY <1>1, <2>1
  <2>3. Tracking(mark, bits, ChangedIf(changes, cache, a, write_page[m]))
    BY <2>2, HarmlessChange
  <2>4. /\ upper_cache' = ChangedIf(changes, cache, a, write_page[m])
        /\ upper_page' = mark /\ upper_4k_code' = bits
        /\ UNCHANGED <<read_page, write_page, saved_write_page>>
    BY <1>4 DEF StoreAt
  <2>5. Tracking(upper_page, upper_4k_code, upper_cache)'
    BY <2>3, <2>4
  <2>6. MappingsOK'
    BY <2>4 DEF MappingsOK, CodePagesProtected, WritesReachWhatIsRead
  <2> QED BY <2>5, <2>6 DEF IInv
<1>5. CASE /\ write_page[m] = NoBank
           /\ cache_upper_range_hit(mark, a)
           /\ saved_write_page[m] = NoBank \/ changes
  <2>1. /\ upper_page' = marks /\ upper_4k_code' = left
        /\ upper_cache' = ChangedIf(changes, kept, a, saved_write_page[m])
        /\ IF saved_write_page[m] # NoBank /\ m \notin left
             THEN /\ write_page' = [write_page EXCEPT ![m] = saved_write_page[m]]
                  /\ saved_write_page' = [saved_write_page EXCEPT ![m] = NoBank]
             ELSE UNCHANGED <<write_page, saved_write_page>>
    BY <1>5 DEF StoreAt
  <2>2. Tracking(marks, left, ChangedIf(changes, kept, a, saved_write_page[m]))
    BY <1>2, <1>3, HarmlessChange
  <2>3. Tracking(upper_page, upper_4k_code, upper_cache)'
    BY <2>1, <2>2
  <2>4. MappingsOK'
    <3>1. left \subseteq upper_4k_code
      BY <1>2
    <3>2. upper_4k_code' = left /\ read_page' = read_page
      BY <2>1
    <3> HIDE DEF left, marks, kept, m
    <3>3. CASE saved_write_page[m] # NoBank /\ m \notin left
      <4>1. /\ write_page' = [write_page EXCEPT ![m] = saved_write_page[m]]
            /\ saved_write_page' = [saved_write_page EXCEPT ![m] = NoBank]
        BY <2>1, <3>3
      <4> QED BY <1>0, <1>5, <3>1, <3>2, <3>3, <4>1
              DEF MappingsOK, CodePagesProtected, WritesReachWhatIsRead
    <3>4. CASE ~ (saved_write_page[m] # NoBank /\ m \notin left)
      <4>1. UNCHANGED <<write_page, saved_write_page>>
        BY <2>1, <3>4
      <4> QED BY <3>1, <3>2, <4>1
              DEF MappingsOK, CodePagesProtected, WritesReachWhatIsRead
    <3> QED BY <3>3, <3>4
  <2> QED BY <2>3, <2>4 DEF IInv
<1>6. CASE /\ write_page[m] = NoBank
           /\ ~ (/\ cache_upper_range_hit(mark, a)
                 /\ saved_write_page[m] = NoBank \/ changes)
  <2>1. /\ upper_cache' = ChangedIf(changes, cache, a, saved_write_page[m])
        /\ upper_page' = mark /\ upper_4k_code' = bits
        /\ UNCHANGED <<read_page, write_page, saved_write_page>>
    BY <1>6 DEF StoreAt
  <2>2. changes => ~ Hits(cache)
    BY <1>1, <1>6
  <2>3. Tracking(mark, bits, ChangedIf(changes, cache, a, saved_write_page[m]))
    BY <2>2, HarmlessChange
  <2>4. Tracking(upper_page, upper_4k_code, upper_cache)'
    BY <2>1, <2>3
  <2>5. MappingsOK'
    BY <2>1 DEF MappingsOK, CodePagesProtected, WritesReachWhatIsRead
  <2> QED BY <2>4, <2>5 DEF IInv
<1> QED
  BY <1>4, <1>5, <1>6

LEMMA DmgWriteKeepsInvariant ==
  ASSUME IInv, NEW a \in Addr, NEW changes \in BOOLEAN, dmg_write(a, changes)
  PROVE  IInv'
<1>1. CASE ~ FallsToEcho(a)
  <2>1. PICK mark, bits, cache :
          /\ mark = upper_page /\ bits = upper_4k_code /\ cache = upper_cache
          /\ StoreAt(a, changes, mark, bits, cache)
    BY <1>1 DEF dmg_write
  <2>2. Tracking(mark, bits, cache) /\ MappingsOK /\ UNCHANGED read_page
    BY <2>1 DEF IInv, dmg_write
  <2> QED BY <2>1, <2>2, StoreKeepsInvariant
<1>2. CASE FallsToEcho(a)
  <2> DEFINE home == <<HomePage[a[1]], a[2]>>
             D == IF cache_upper_range_hit(upper_page, a)
                    THEN DroppedPages(upper_page, a[1]) ELSE {}
             marks == ClearMarks(upper_page, D)
             left == Recompute4K(upper_4k_code, marks, D)
             kept == ClearCache(upper_cache, D)
  <2>1. home \in Addr /\ a[1] \in Page
    BY AddrType, LayoutAssumption DEF Addr
  <2>2. Tracking(marks, left, kept) /\ left \subseteq upper_4k_code
    <3>1. CASE cache_upper_range_hit(upper_page, a)
      BY <2>1, <3>1, DropKeepsTracking DEF IInv
    <3>2. CASE ~ cache_upper_range_hit(upper_page, a)
      <4>1. marks = upper_page
        BY <3>2 DEF IInv, Tracking, MarksOK, ClearMarks
      <4>2. left = upper_4k_code
        BY <3>2 DEF Recompute4K, Mem4KOf
      <4>3. kept = upper_cache
        BY <3>2 DEF IInv, Tracking, EntriesOK, ClearCache
      <4> QED BY <4>1, <4>2, <4>3 DEF IInv
    <3> QED BY <3>1, <3>2
  <2>3. StoreAt(home, changes, marks, left, kept) /\ UNCHANGED read_page
    BY <1>2 DEF dmg_write
  <2>4. PICK mark, bits, cache :
          /\ mark = marks /\ bits = left /\ cache = kept
          /\ StoreAt(home, changes, mark, bits, cache)
    BY <2>3
  <2>5. Tracking(mark, bits, cache) /\ bits \subseteq upper_4k_code /\ MappingsOK
    BY <2>2, <2>4 DEF IInv
  <2>6. PICK b : b = home
    OBVIOUS
  <2> HIDE DEF home
  <2> QED BY <2>1, <2>3, <2>4, <2>5, <2>6, StoreKeepsInvariant
<1> QED
  BY <1>1, <1>2

-----------------------------------------------------------------------------
(***************************************************************************)
(* Compilation.                                                            *)
(***************************************************************************)
LEMMA BlockType ==
  ASSUME NEW blk \in Block
  PROVE  /\ blk.start \in Addr /\ blk.last \in Addr /\ Leq(blk.start, blk.last)
         /\ DOMAIN blk.low \subseteq Addr
         /\ \A h \in DOMAIN blk.low :
              /\ blk.low[h] \in Addr
              /\ Leq(blk.start, blk.low[h])
              /\ Leq(blk.low[h], h) /\ Leq(h, blk.last)
BY BlockAssumption DEF IsBlock

\* Marking only widens, and a marked page has code.
LEMMA MarkRangeWidens ==
  ASSUME NEW mark, MarksOK(mark), NEW blk \in Block,
         NEW after, after = MarkRange(mark, blk.start, blk.last),
         NEW code, code = PagesOf(blk.start, blk.last)
  PROVE  /\ MarksOK(after)
         /\ \A p \in Page : /\ after[p].lo <= mark[p].lo
                            /\ after[p].hi >= mark[p].hi
                            /\ after[p].reach >= mark[p].reach
                            /\ HasCode(after, p) <=> HasCode(mark, p) \/ p \in code
         /\ \A p \in code : /\ after[p].lo <= LoIn(blk.start, p)
                            /\ after[p].hi >= HiIn(blk.last, p)
                            /\ after[p].reach >= p - blk.start[1]
<1>1. /\ blk.start[1] \in Nat /\ blk.start[2] \in Offset
      /\ blk.last[1] \in Nat /\ blk.last[2] \in Offset
      /\ Leq(blk.start, blk.last)
  BY BlockType, AddrType
<1>2. ASSUME NEW p \in Page, p \notin code
      PROVE  after[p] = mark[p]
  BY <1>2 DEF MarkRange, PagesOf
<1>3. \A p \in code : p \in Page /\ p \in Nat /\ blk.start[1] <= p /\ p <= blk.last[1]
  BY DEF PagesOf, Page
<1>4. ASSUME NEW p \in code
      PROVE  /\ after[p] \in Mark
             /\ after[p].reach <= p
             /\ after[p].lo <= mark[p].lo /\ after[p].lo <= LoIn(blk.start, p)
             /\ after[p].hi >= mark[p].hi /\ after[p].hi >= HiIn(blk.last, p)
             /\ after[p].reach >= mark[p].reach
             /\ after[p].reach >= p - blk.start[1]
             /\ HasCode(after, p)
  <2> DEFINE l == LoIn(blk.start, p)
             h == HiIn(blk.last, p)
             r == p - blk.start[1]
  <2>1. p \in Page /\ p \in Nat /\ blk.start[1] <= p /\ p <= blk.last[1]
    BY <1>3
  <2>2. mark[p].reach <= p /\ mark[p] \in Mark
    BY <2>1 DEF MarksOK
  <2>3. /\ l \in 0 .. PageSize - 1 /\ h \in 0 .. PageSize - 1 /\ l <= h
        /\ r \in Nat /\ r <= p
    BY <1>1, <2>1 DEF LoIn, HiIn, Leq, Offset
  <2>4. after[p] = [lo    |-> Lesser(mark[p].lo, l),
                    hi    |-> Greater(mark[p].hi, h),
                    reach |-> Greater(mark[p].reach, r)]
    BY <2>1 DEF MarkRange
  <2> HIDE DEF l, h, r
  <2>5. /\ after[p].lo = Lesser(mark[p].lo, l)
        /\ after[p].hi = Greater(mark[p].hi, h)
        /\ after[p].reach = Greater(mark[p].reach, r)
    BY <2>4
  <2>6. /\ mark[p].lo \in 0 .. PageSize - 1 /\ mark[p].hi \in 0 .. PageSize - 1
        /\ mark[p].reach \in Nat
    BY <2>2 DEF Mark, Offset
  <2>7. /\ after[p].lo \in 0 .. PageSize - 1 /\ after[p].hi \in 0 .. PageSize - 1
        /\ after[p].reach \in Nat /\ after[p].reach <= p
        /\ after[p].lo <= mark[p].lo /\ after[p].lo <= l
        /\ after[p].hi >= mark[p].hi /\ after[p].hi >= h
        /\ after[p].reach >= mark[p].reach /\ after[p].reach >= r
        /\ after[p].lo <= after[p].hi
    BY <2>1, <2>2, <2>3, <2>5, <2>6 DEF Lesser, Greater
  <2>8. after[p] \in Mark
    BY <2>4, <2>5, <2>7 DEF Mark, Offset
  <2> QED BY <2>7, <2>8 DEF HasCode, l, h, r
<1>5. \A p \in Page : mark[p] \in Mark /\ mark[p].reach <= p
  BY DEF MarksOK
<1>6. after = [p \in Page |-> after[p]]
  BY DEF MarkRange
<1>7. MarksOK(after)
  <2>1. \A p \in Page : after[p] \in Mark /\ after[p].reach <= p
    BY <1>2, <1>4, <1>5
  <2> QED BY <1>6, <2>1 DEF MarksOK
<1>8. code \subseteq Page
  BY DEF PagesOf
<1>9. \A p \in Page :
        /\ after[p].lo <= mark[p].lo
        /\ after[p].hi >= mark[p].hi
        /\ after[p].reach >= mark[p].reach
        /\ HasCode(after, p) <=> HasCode(mark, p) \/ p \in code
  <2> TAKE p \in Page
  <2>1. CASE p \in code
    BY <1>4, <2>1
  <2>2. CASE p \notin code
    BY <1>2, <1>5, <2>2 DEF HasCode, Mark, Offset
  <2> QED BY <2>1, <2>2
<1>10. ASSUME NEW p \in code
       PROVE  /\ after[p].lo <= LoIn(blk.start, p)
              /\ after[p].hi >= HiIn(blk.last, p)
              /\ after[p].reach >= p - blk.start[1]
  BY <1>4
<1> QED
  BY <1>7, <1>9, <1>10

\* A compiled block adds well-formed entries and touches no others.
LEMMA StoredEntries ==
  ASSUME NEW cache, EntriesOK(cache), NEW blk \in Block, MappingsOK
  PROVE  LET after == StoreBlock(cache, blk)
         IN /\ EntriesOK(after)
            /\ \A c \in Addr :
                 \/ after[c] = cache[c]
                 \/ /\ after[c].start = blk.start /\ after[c].last = blk.last
                    /\ ~ after[c].missed /\ Leq(blk.start, c)
<1> DEFINE after == StoreBlock(cache, blk)
<1>1. \A p \in Page : BankAt(p) \in Bank \cup {NoBank}
  BY LayoutAssumption DEF BankAt, MappingsOK
<1>2. ASSUME NEW low \in Addr
      PROVE  /\ EntryOf(blk, low) \in Entry
             /\ EntryOf(blk, low).start = blk.start
             /\ EntryOf(blk, low).last = blk.last
             /\ EntryOf(blk, low).low = low
             /\ ~ EntryOf(blk, low).missed
  <2> DEFINE S == PagesOf(low, blk.last)
             bank == [p \in S |-> BankAt(p)]
  <2>1. S \in SUBSET Page
    BY DEF PagesOf
  <2>2. bank \in [S -> Bank \cup {NoBank}]
    BY <1>1, <2>1
  <2>3. bank \in UNION {[T -> Bank \cup {NoBank}] : T \in SUBSET Page}
    <3> HIDE DEF bank, S
    <3> QED BY <2>1, <2>2
  <2>4. EntryOf(blk, low) = [start |-> blk.start, last |-> blk.last, low |-> low,
                             bank |-> bank, missed |-> FALSE, bypassed |-> FALSE]
    BY DEF EntryOf
  <2> HIDE DEF bank
  <2> QED BY <2>3, <2>4, BlockType DEF Entry
<1>3. \A a \in Addr : Leq(a, a)
  BY AddrType DEF Leq, Page, Offset
<1>4. ASSUME NEW c \in Addr
      PROVE  \/ after[c] = cache[c]
             \/ /\ after[c] \in Entry
                /\ after[c].start = blk.start /\ after[c].last = blk.last
                /\ ~ after[c].missed /\ Leq(blk.start, c)
                /\ Leq(blk.start, after[c].low) /\ Leq(after[c].low, c)
                /\ Leq(c, blk.last)
  <2>1. CASE c = blk.start
    <3>1. after[c] = EntryOf(blk, blk.start)
      BY <2>1 DEF StoreBlock
    <3> QED BY <1>2, <1>3, <2>1, <3>1, BlockType
  <2>2. CASE c # blk.start /\ c \in DOMAIN blk.low
    <3>1. after[c] = EntryOf(blk, blk.low[c])
      BY <2>2 DEF StoreBlock
    <3>2. Leq(blk.start, c)
      BY <2>2, BlockType, AddrType DEF Leq, Page, Offset
    <3> QED BY <1>2, <2>2, <3>1, <3>2, BlockType
  <2>3. CASE c # blk.start /\ c \notin DOMAIN blk.low
    BY <2>3 DEF StoreBlock
  <2> QED BY <2>1, <2>2, <2>3
<1>5. after = [c \in Addr |-> after[c]]
  BY DEF StoreBlock
<1> HIDE DEF after
<1>6. EntriesOK(after)
  <2>1. after \in [Addr -> Entry \cup {NoCode}]
    BY <1>4, <1>5 DEF EntriesOK
  <2> QED BY <1>4, <2>1 DEF EntriesOK
<1> QED
  BY <1>4, <1>6 DEF after

LEMMA CompileKeepsTracking ==
  ASSUME NEW mark, NEW bits, NEW cache, Tracking(mark, bits, cache), MappingsOK,
         NEW blk \in Block
  PROVE  Tracking(MarkRange(mark, blk.start, blk.last),
                  bits \cup Mem4KOf(PagesOf(blk.start, blk.last)),
                  StoreBlock(cache, blk))
<1>1. PICK marks, after, code :
        /\ marks = MarkRange(mark, blk.start, blk.last)
        /\ after = StoreBlock(cache, blk)
        /\ code = PagesOf(blk.start, blk.last)
  OBVIOUS
<1>2. /\ MarksOK(marks)
      /\ \A p \in Page : /\ marks[p].lo <= mark[p].lo
                         /\ marks[p].hi >= mark[p].hi
                         /\ marks[p].reach >= mark[p].reach
                         /\ HasCode(marks, p) <=> HasCode(mark, p) \/ p \in code
      /\ \A p \in code : /\ marks[p].lo <= LoIn(blk.start, p)
                         /\ marks[p].hi >= HiIn(blk.last, p)
                         /\ marks[p].reach >= p - blk.start[1]
  BY <1>1, MarkRangeWidens DEF Tracking
<1>3. /\ EntriesOK(after)
      /\ \A c \in Addr :
           \/ after[c] = cache[c]
           \/ /\ after[c].start = blk.start /\ after[c].last = blk.last
              /\ ~ after[c].missed /\ Leq(blk.start, c)
  BY <1>1, StoredEntries DEF Tracking
<1>4. Tracked(marks, after)
  <2> SUFFICES ASSUME NEW c \in Addr, after[c] # NoCode,
                      NEW p \in PagesOf(c, after[c].last)
               PROVE  /\ marks[p].lo <= LoIn(after[c].start, p)
                      /\ marks[p].hi >= HiIn(after[c].last, p)
                      /\ marks[p].reach >= p - c[1]
    BY DEF Tracked
  <2>1. p \in Page /\ p \in Nat /\ c[1] \in Nat /\ c[1] <= p /\ p <= after[c].last[1]
    BY AddrType DEF PagesOf, Page
  <2>2. /\ marks[p].lo \in Int /\ marks[p].hi \in Int /\ marks[p].reach \in Int
        /\ mark[p].lo \in Int /\ mark[p].hi \in Int /\ mark[p].reach \in Int
    BY <1>2, <2>1 DEF Tracking, MarksOK, Mark, Offset
  <2>3. /\ after[c].start \in Addr /\ after[c].last \in Addr
        /\ LoIn(after[c].start, p) \in Int /\ HiIn(after[c].last, p) \in Int
    <3>1. after[c] \in Entry
      BY <1>3 DEF EntriesOK
    <3> QED BY <3>1, AddrType DEF Entry, LoIn, HiIn
  <2>4. CASE after[c] = cache[c]
    <3>1. /\ mark[p].lo <= LoIn(after[c].start, p)
          /\ mark[p].hi >= HiIn(after[c].last, p)
          /\ mark[p].reach >= p - c[1]
      BY <2>4 DEF Tracking, Tracked
    <3>2. /\ marks[p].lo <= mark[p].lo /\ marks[p].hi >= mark[p].hi
          /\ marks[p].reach >= mark[p].reach
      BY <1>2, <2>1
    <3> QED BY <2>1, <2>2, <2>3, <3>1, <3>2
  <2>5. CASE /\ after[c].start = blk.start /\ after[c].last = blk.last
             /\ Leq(blk.start, c)
    <3>1. blk.start[1] \in Nat /\ blk.start[1] <= c[1]
      BY <2>1, <2>5, BlockType, AddrType DEF Leq
    <3>2. p \in code
      BY <1>1, <2>1, <2>5, <3>1 DEF PagesOf
    <3>3. /\ marks[p].lo <= LoIn(blk.start, p)
          /\ marks[p].hi >= HiIn(blk.last, p)
          /\ marks[p].reach >= p - blk.start[1]
      BY <1>2, <3>2
    <3> QED BY <2>1, <2>2, <2>5, <3>1, <3>3
  <2> QED BY <1>3, <2>4, <2>5
<1>5. BitsOK(marks, bits \cup Mem4KOf(code))
  <2>1. code \subseteq Page
    BY <1>1 DEF PagesOf
  <2>2. {p \in Page : HasCode(marks, p)} = {p \in Page : HasCode(mark, p)} \cup code
    BY <1>2, <2>1
  <2> QED BY <2>2 DEF Tracking, BitsOK, Mem4KOf
<1>6. Noticed(after)
  BY <1>3 DEF Tracking, Noticed
<1> QED
  BY <1>1, <1>2, <1>3, <1>4, <1>5, <1>6 DEF Tracking

\* Compiling into any tracking state with agreeing write mappings establishes
\* the invariant: whatever became writable before is write-protected again.
LEMMA CompileKeepsInvariant ==
  ASSUME NEW mark, NEW bits, NEW cache, Tracking(mark, bits, cache), MappingsOK,
         NEW writes \in [MemPage -> Bank \cup {NoBank}],
         NEW saved \in [MemPage -> Bank \cup {NoBank}],
         \A m \in MemPage : /\ writes[m] = NoBank \/ saved[m] = NoBank
                            /\ read_page[m] = IF writes[m] # NoBank THEN writes[m]
                                                 ELSE saved[m],
         \A m \in bits : writes[m] = NoBank,
         NEW blk \in Block, Compile(blk, mark, bits, cache, writes, saved)
  PROVE  IInv'
<1>1. PICK code : code = Mem4KOf(PagesOf(blk.start, blk.last))
  OBVIOUS
<1>2. /\ upper_cache' = StoreBlock(cache, blk)
      /\ upper_page' = MarkRange(mark, blk.start, blk.last)
      /\ upper_4k_code' = bits \cup code
      /\ saved_write_page' =
           [m \in MemPage |-> IF m \in code /\ writes[m] # NoBank /\ saved[m] = NoBank
                              THEN writes[m] ELSE saved[m]]
      /\ write_page' =
           [m \in MemPage |-> IF m \in code /\ writes[m] # NoBank /\ saved[m] = NoBank
                              THEN NoBank ELSE writes[m]]
      /\ read_page' = read_page
  BY <1>1 DEF Compile
<1>3. Tracking(upper_page, upper_4k_code, upper_cache)'
  BY <1>1, <1>2, CompileKeepsTracking
<1>4. upper_4k_code' \subseteq MemPage
  <2>1. code \subseteq MemPage
    BY <1>1, LayoutAssumption DEF Mem4KOf, PagesOf
  <2>2. bits \subseteq MemPage
    BY LayoutAssumption DEF Tracking, BitsOK, Mem4KOf
  <2> QED BY <1>2, <2>1, <2>2
<1>5. MappingsOK'
  <2>1. /\ read_page' \in [MemPage -> Bank \cup {NoBank}]
        /\ write_page' \in [MemPage -> Bank \cup {NoBank}]
        /\ saved_write_page' \in [MemPage -> Bank \cup {NoBank}]
    BY <1>2 DEF MappingsOK
  <2>2. CodePagesProtected'
    BY <1>2, <1>4 DEF CodePagesProtected
  <2>3. WritesReachWhatIsRead'
    BY <1>2 DEF WritesReachWhatIsRead
  <2> QED BY <2>1, <2>2, <2>3 DEF MappingsOK
<1> QED
  BY <1>3, <1>5 DEF IInv

\* The state cache_init leaves tracks nothing.
LEMMA EmptyTracking ==
  Tracking([p \in Page |-> NoMark], {}, [a \in Addr |-> NoCode])
<1>1. MarksOK([p \in Page |-> NoMark])
  BY NoMarkType DEF MarksOK, NoMark, Page
<1>2. BitsOK([p \in Page |-> NoMark], {})
  BY DEF BitsOK, Mem4KOf, HasCode, NoMark
<1> QED
  BY <1>1, <1>2 DEF Tracking, EntriesOK, Tracked, Noticed

\* Restoring every saved mapping leaves one way to write what is read.
LEMMA RestoredWritesAgree ==
  ASSUME MappingsOK
  PROVE  /\ RestoredWrites \in [MemPage -> Bank \cup {NoBank}]
         /\ \A m \in MemPage : RestoredWrites[m] = read_page[m]
<1> SUFFICES ASSUME NEW m \in MemPage
             PROVE  RestoredWrites[m] = read_page[m]
  BY DEF MappingsOK, RestoredWrites
<1>1. /\ write_page[m] = NoBank \/ saved_write_page[m] = NoBank
      /\ read_page[m] = IF write_page[m] # NoBank THEN write_page[m]
                                            ELSE saved_write_page[m]
  BY DEF MappingsOK, WritesReachWhatIsRead
<1>2. CASE saved_write_page[m] # NoBank
  BY <1>1, <1>2 DEF RestoredWrites
<1>3. CASE saved_write_page[m] = NoBank
  BY <1>1, <1>3 DEF RestoredWrites
<1> QED BY <1>2, <1>3

-----------------------------------------------------------------------------
(***************************************************************************)
(* The theorems.                                                           *)
(***************************************************************************)
LEMMA InitEstablishesInvariant == Init => IInv
BY EmptyTracking, BankAssumption
   DEF Init, IInv, MappingsOK, CodePagesProtected, WritesReachWhatIsRead

LEMMA NextKeepsInvariant == IInv /\ [Next]_vars => IInv'
<1> SUFFICES ASSUME IInv, [Next]_vars
             PROVE  IInv'
  OBVIOUS
<1>0. MappingsOK /\ Tracking(upper_page, upper_4k_code, upper_cache)
  BY DEF IInv
<1>1. ASSUME NEW blk \in Block, NEW arenaFull \in BOOLEAN, jit_run(blk, arenaFull)
      PROVE  IInv'
  <2>1. CASE arenaFull
    <3>1. PICK mark, cache, writes, saved :
            /\ mark = [p \in Page |-> NoMark] /\ cache = [a \in Addr |-> NoCode]
            /\ writes = RestoredWrites /\ saved = [m \in MemPage |-> NoBank]
            /\ Compile(blk, mark, {}, cache, writes, saved)
      BY <1>1, <2>1 DEF jit_run
    <3>2. Tracking(mark, {}, cache)
      BY <3>1, EmptyTracking
    <3>3. /\ writes \in [MemPage -> Bank \cup {NoBank}]
          /\ saved \in [MemPage -> Bank \cup {NoBank}]
          /\ \A m \in MemPage : writes[m] = read_page[m] /\ saved[m] = NoBank
      BY <1>0, <3>1, RestoredWritesAgree
    <3> QED BY <1>0, <3>1, <3>2, <3>3, CompileKeepsInvariant
  <2>2. CASE ~ arenaFull
    <3>1. PICK mark, bits, cache, writes, saved :
            /\ mark = upper_page /\ bits = upper_4k_code /\ cache = upper_cache
            /\ writes = write_page /\ saved = saved_write_page
            /\ Compile(blk, mark, bits, cache, writes, saved)
      BY <1>1, <2>2 DEF jit_run
    <3>2. Tracking(mark, bits, cache)
      BY <1>0, <3>1
    <3>3. /\ writes \in [MemPage -> Bank \cup {NoBank}]
          /\ saved \in [MemPage -> Bank \cup {NoBank}]
          /\ \A m \in MemPage : /\ writes[m] = NoBank \/ saved[m] = NoBank
                                /\ read_page[m] = IF writes[m] # NoBank THEN writes[m]
                                                 ELSE saved[m]
          /\ \A m \in bits : writes[m] = NoBank
      BY <1>0, <3>1 DEF MappingsOK, CodePagesProtected, WritesReachWhatIsRead
    <3> QED BY <1>0, <3>1, <3>2, <3>3, CompileKeepsInvariant
  <2> QED BY <2>1, <2>2
<1>2. CASE jit_clear_all_blocks
  <2>1. Tracking(upper_page, upper_4k_code, upper_cache)'
    BY <1>2, EmptyTracking DEF jit_clear_all_blocks
  <2>2. MappingsOK'
    BY <1>0, <1>2, RestoredWritesAgree
       DEF jit_clear_all_blocks, MappingsOK, CodePagesProtected, WritesReachWhatIsRead
  <2> QED BY <2>1, <2>2 DEF IInv
<1>3. ASSUME NEW a \in Addr, NEW changes \in BOOLEAN, dmg_write(a, changes)
      PROVE  IInv'
  BY <1>3, DmgWriteKeepsInvariant
<1>4. ASSUME NEW a \in Addr, NEW bank \in Bank, NativePush(a, bank)
      PROVE  IInv'
  <2>1. UNCHANGED <<upper_page, upper_4k_code, read_page, write_page, saved_write_page>>
    BY <1>4 DEF NativePush
  <2>2. ASSUME NEW c \in Addr
        PROVE  \/ upper_cache'[c] = upper_cache[c]
               \/ /\ upper_cache[c] # NoCode
                  /\ upper_cache'[c] = [upper_cache[c] EXCEPT !.bypassed = TRUE]
    BY <1>4 DEF NativePush
  <2>3. upper_cache' = [c \in Addr |-> upper_cache'[c]]
    BY <1>4 DEF NativePush
  <2>4. ASSUME NEW c \in Addr, upper_cache'[c] # NoCode
        PROVE  /\ upper_cache[c] # NoCode
               /\ upper_cache'[c] \in Entry
               /\ upper_cache'[c].start = upper_cache[c].start
               /\ upper_cache'[c].last = upper_cache[c].last
               /\ upper_cache'[c].low = upper_cache[c].low
               /\ upper_cache'[c].missed = upper_cache[c].missed
    <3>1. upper_cache[c] \in Entry /\ upper_cache[c] # NoCode
      BY <1>0, <2>2, <2>4 DEF Tracking, EntriesOK
    <3>2. CASE upper_cache'[c] = upper_cache[c]
      BY <3>1, <3>2
    <3>3. CASE upper_cache'[c] = [upper_cache[c] EXCEPT !.bypassed = TRUE]
      BY <3>1, <3>3 DEF Entry
    <3> QED BY <2>2, <3>2, <3>3
  <2>5. Tracking(upper_page, upper_4k_code, upper_cache)'
    <3>1. upper_cache' \in [Addr -> Entry \cup {NoCode}]
      BY <2>3, <2>4
    <3>2. EntriesOK(upper_cache')
      BY <1>0, <2>4, <3>1 DEF Tracking, EntriesOK
    <3>3. Tracked(upper_page, upper_cache')
      BY <1>0, <2>4 DEF Tracking, Tracked
    <3>4. Noticed(upper_cache')
      BY <1>0, <2>4 DEF Tracking, Noticed
    <3> QED BY <1>0, <2>1, <3>2, <3>3, <3>4 DEF Tracking
  <2>6. MappingsOK'
    BY <1>0, <2>1 DEF MappingsOK, CodePagesProtected, WritesReachWhatIsRead
  <2> QED BY <2>5, <2>6 DEF IInv
<1>5. ASSUME NEW g \in MapGroup, NEW bank \in GroupBanks[g],
             dmg_map_upper_page(g, bank)
      PROVE  IInv'
  <2>1. Tracking(upper_page, upper_4k_code, upper_cache)'
    BY <1>0, <1>5 DEF dmg_map_upper_page
  <2>2. bank \in Bank \cup {NoBank} /\ g \subseteq MemPage
    BY BankAssumption
  <2>3. upper_4k_code \subseteq MemPage
    BY <1>0, LayoutAssumption DEF Tracking, BitsOK, Mem4KOf
  <2>4. MappingsOK'
    BY <1>0, <1>5, <2>2, <2>3
       DEF dmg_map_upper_page, MappingsOK, CodePagesProtected, WritesReachWhatIsRead
  <2> QED BY <2>1, <2>4 DEF IInv
<1>6. CASE UNCHANGED vars
  BY <1>0, <1>6 DEF vars, IInv, MappingsOK, CodePagesProtected, WritesReachWhatIsRead
<1> QED
  BY <1>1, <1>2, <1>3, <1>4, <1>5, <1>6 DEF Next

\* The inductive invariant holds in every reachable state.
THEOREM InvariantHolds == Spec => []IInv
BY InitEstablishesInvariant, NextKeepsInvariant, PTL DEF Spec

-----------------------------------------------------------------------------
(***************************************************************************)
(* The loop of cache_invalidate_upper_page as it is written.  After n of   *)
(* its passes, first is the highest page that none of the pages it has     *)
(* been through reaches below; after p + 1 of them, it has been through    *)
(* all that matter.                                                        *)
(***************************************************************************)
ClosedFrom(mark, f, p, n) ==
  \A k \in f .. p : k > p - n => f <= k - mark[k].reach
WidenedAfter(mark, p, n) ==
  CHOOSE first \in 0 .. p :
    /\ ClosedFrom(mark, first, p, n)
    /\ \A f \in 0 .. p : ClosedFrom(mark, f, p, n) => f <= first

LEMMA HighestExists ==
  ASSUME NEW p \in Nat, NEW S \in SUBSET (0 .. p), S # {}
  PROVE  \E x \in S : \A y \in S : y <= x
<1> DEFINE T == {d \in 0 .. p : p - d \in S}
<1>1. T \subseteq Nat
  OBVIOUS
<1>2. T # {}
  <2>1. PICK x \in S : TRUE
    OBVIOUS
  <2>2. p - x \in 0 .. p /\ p - (p - x) = x
    OBVIOUS
  <2> QED BY <2>1, <2>2
<1>3. \E d \in T : \A e \in T : ~(<<e, d>> \in OpToRel(<, Nat))
  <2> HIDE DEF T
  <2> QED BY <1>1, <1>2, NatLessThanWellFounded, WFMin
<1>4. PICK d \in T : \A e \in T : ~(e < d)
  BY <1>1, <1>3 DEF OpToRel
<1>5. ASSUME NEW y \in S PROVE y <= p - d
  <2>1. p - y \in 0 .. p /\ p - (p - y) = y
    OBVIOUS
  <2>2. p - y \in T
    BY <2>1
  <2>3. ~(p - y < d) /\ d \in 0 .. p /\ y \in Int
    BY <1>4, <2>2
  <2> QED BY <2>3
<1> QED BY <1>5

LEMMA WidenedAfterIsHighest ==
  ASSUME NEW mark, MarksOK(mark), NEW p \in Page, NEW n \in Nat
  PROVE  /\ WidenedAfter(mark, p, n) \in 0 .. p
         /\ ClosedFrom(mark, WidenedAfter(mark, p, n), p, n)
         /\ \A f \in 0 .. p : ClosedFrom(mark, f, p, n) => f <= WidenedAfter(mark, p, n)
<1> DEFINE S == {f \in 0 .. p : ClosedFrom(mark, f, p, n)}
<1>1. p \in Nat /\ 0 .. p \subseteq Page
  BY DEF Page
<1>2. 0 \in S
  BY <1>1 DEF ClosedFrom, MarksOK, Mark
<1>3. \E first \in S : \A f \in S : f <= first
  <2>1. S \in SUBSET (0 .. p) /\ S # {}
    BY <1>2
  <2> HIDE DEF S
  <2> QED BY <1>1, <2>1, HighestExists
<1> QED BY <1>3 DEF WidenedAfter

\* Only one page is the highest.
LEMMA WidenedAfterIs ==
  ASSUME NEW mark, MarksOK(mark), NEW p \in Page, NEW n \in Nat,
         NEW first \in 0 .. p, ClosedFrom(mark, first, p, n),
         \A f \in 0 .. p : ClosedFrom(mark, f, p, n) => f <= first
  PROVE  first = WidenedAfter(mark, p, n)
<1> DEFINE w == WidenedAfter(mark, p, n)
<1>1. w \in 0 .. p /\ first <= w /\ w <= first
  BY WidenedAfterIsHighest
<1> HIDE DEF w
<1>2. w = first
  BY <1>1 DEF Page
<1> QED BY <1>2 DEF w

LEMMA BeforeThePasses ==
  ASSUME NEW mark, MarksOK(mark), NEW p \in Page
  PROVE  WidenedAfter(mark, p, 0) = p
<1>1. p \in 0 .. p /\ ClosedFrom(mark, p, p, 0)
  BY DEF Page, ClosedFrom
<1>2. \A f \in 0 .. p : f <= p
  BY DEF Page
<1> QED BY <1>1, <1>2, WidenedAfterIs

\* A pass makes the page of n passes that of one more.
LEMMA OneMorePass ==
  ASSUME NEW mark, MarksOK(mark), NEW p \in Page, NEW n \in Nat
  PROVE  WideningPass(mark, WidenedAfter(mark, p, n), p - n) = WidenedAfter(mark, p, n + 1)
<1> DEFINE w == WidenedAfter(mark, p, n)
           k == p - n
           x == WideningPass(mark, w, k)
<1>1. /\ w \in 0 .. p /\ ClosedFrom(mark, w, p, n)
      /\ \A f \in 0 .. p : ClosedFrom(mark, f, p, n) => f <= w
  BY WidenedAfterIsHighest
<1>2. p \in Nat /\ 0 .. p \subseteq Page /\ k \in Int /\ k <= p
  BY DEF Page
<1>3. \A q \in Page : mark[q].reach \in Nat /\ mark[q].reach <= q
  BY DEF MarksOK, Mark
<1>4. \A i \in Int : i > p - (n + 1) <=> i = k \/ i > p - n
  BY <1>2
<1>5. \A f \in 0 .. p : ClosedFrom(mark, f, p, n + 1)
        <=> ClosedFrom(mark, f, p, n) /\ (k >= f => f <= k - mark[k].reach)
  <2> SUFFICES ASSUME NEW f \in 0 .. p
               PROVE  ClosedFrom(mark, f, p, n + 1)
                        <=> ClosedFrom(mark, f, p, n) /\ (k >= f => f <= k - mark[k].reach)
    OBVIOUS
  <2>1. k \in f .. p <=> k >= f
    BY <1>2
  <2>2. \A i \in f .. p : i \in Int
    OBVIOUS
  <2> HIDE DEF k
  <2> QED BY <1>4, <2>1, <2>2 DEF ClosedFrom
<1> HIDE DEF w, k
<1>6. CASE k < w
  <2>1. x = w
    BY <1>6 DEF WideningPass
  <2>2. ClosedFrom(mark, w, p, n + 1)
    BY <1>1, <1>2, <1>5, <1>6
  <2>3. \A f \in 0 .. p : ClosedFrom(mark, f, p, n + 1) => f <= w
    BY <1>1, <1>5
  <2>4. w = WidenedAfter(mark, p, n + 1)
    BY <1>1, <2>2, <2>3, WidenedAfterIs
  <2> QED BY <2>1, <2>4 DEF w, k
<1>7. CASE ~(k < w)
  <2> DEFINE r == k - mark[k].reach
  <2>1. k \in Page /\ k \in Nat /\ k <= p /\ w <= k
    BY <1>1, <1>2, <1>7
  <2>2. r \in 0 .. p /\ r <= k
    BY <1>2, <1>3, <2>1
  <2> HIDE DEF r
  <2>3. x = IF w < r THEN w ELSE r
    BY <1>7 DEF WideningPass, Lesser, r
  <2>4. x \in 0 .. p /\ x <= w /\ x <= r
    BY <1>1, <1>2, <2>2, <2>3
  <2>5. ClosedFrom(mark, x, p, n)
    <3> SUFFICES ASSUME NEW i \in x .. p, i > p - n
                 PROVE  x <= i - mark[i].reach
      BY DEF ClosedFrom
    <3>1. i \in Nat /\ i > k /\ i \in w .. p
      BY <1>1, <1>2, <2>1, <2>4 DEF k
    <3>2. w <= i - mark[i].reach
      BY <1>1, <3>1 DEF ClosedFrom, k
    <3>3. mark[i].reach \in Nat
      BY <1>2, <1>3, <3>1, <2>4
    <3> QED BY <1>1, <2>4, <3>1, <3>2, <3>3
  <2>6. ClosedFrom(mark, x, p, n + 1)
    BY <1>5, <2>4, <2>5 DEF r
  <2>7. \A f \in 0 .. p : ClosedFrom(mark, f, p, n + 1) => f <= x
    <3> SUFFICES ASSUME NEW f \in 0 .. p, ClosedFrom(mark, f, p, n + 1)
                 PROVE  f <= x
      OBVIOUS
    <3>1. f <= w /\ (k >= f => f <= r)
      BY <1>1, <1>5 DEF r
    <3> QED BY <1>1, <2>1, <2>2, <2>3, <3>1
  <2>8. x = WidenedAfter(mark, p, n + 1)
    BY <2>4, <2>6, <2>7, WidenedAfterIs
  <2> QED BY <2>8 DEF w, k
<1> QED BY <1>6, <1>7

LEMMA AfterThePasses ==
  ASSUME NEW mark, MarksOK(mark), NEW p \in Page
  PROVE  WidenedAfter(mark, p, p + 1) = WidenedFirst(mark, p)
<1>1. p \in Nat
  BY DEF Page
<1>2. \A f \in 0 .. p : ClosedFrom(mark, f, p, p + 1) <=> Closed(mark, f, p)
  <2>1. \A f \in 0 .. p : \A k \in f .. p : k > p - (p + 1)
    BY <1>1
  <2> QED BY <2>1 DEF ClosedFrom, Closed
<1> DEFINE P(first) == /\ ClosedFrom(mark, first, p, p + 1)
                       /\ \A f \in 0 .. p : ClosedFrom(mark, f, p, p + 1) => f <= first
           Q(first) == /\ Closed(mark, first, p)
                       /\ \A f \in 0 .. p : Closed(mark, f, p) => f <= first
<1>3. \A first \in 0 .. p : P(first) <=> Q(first)
  BY <1>2
<1>4. (CHOOSE first \in 0 .. p : P(first)) = (CHOOSE first \in 0 .. p : Q(first))
  <2> HIDE DEF P, Q
  <2> QED BY <1>3
<1> QED BY <1>4 DEF WidenedAfter, WidenedFirst

\* The loop computes the fixed point: its recursion has one solution.
LEMMA LoopFindsFirst ==
  ASSUME NEW mark, MarksOK(mark), NEW p \in Page
  PROVE  WideningLoop(mark, p) = WidenedFirst(mark, p)
<1> DEFINE Looping(f) ==
             f = [n \in Nat |-> IF n = 0 THEN p ELSE WideningPass(mark, f[n - 1], p + 1 - n)]
           G == [n \in Nat |-> WidenedAfter(mark, p, n)]
<1>1. WideningLoop(mark, p) = (CHOOSE f : Looping(f))[p + 1]
  BY DEF WideningLoop
<1>2. p \in Nat
  BY DEF Page
<1>3. \A n \in Nat : G[n] = IF n = 0 THEN p ELSE WideningPass(mark, G[n - 1], p + 1 - n)
  <2> SUFFICES ASSUME NEW n \in Nat
               PROVE  G[n] = IF n = 0 THEN p ELSE WideningPass(mark, G[n - 1], p + 1 - n)
    OBVIOUS
  <2>1. CASE n = 0
    BY <2>1, BeforeThePasses
  <2>2. CASE n # 0
    <3>1. n - 1 \in Nat /\ (n - 1) + 1 = n /\ p - (n - 1) = p + 1 - n
      BY <1>2, <2>2
    <3>2. WideningPass(mark, WidenedAfter(mark, p, n - 1), p - (n - 1)) = WidenedAfter(mark, p, n)
      BY <3>1, OneMorePass
    <3> QED BY <2>2, <3>1, <3>2
  <2> QED BY <2>1, <2>2
<1>4. Looping(G)
  BY <1>3
<1>5. ASSUME NEW f, Looping(f) PROVE f = G
  <2> DEFINE T == {n \in Nat : f[n] # G[n]}
             body(n) == IF n = 0 THEN p ELSE WideningPass(mark, f[n - 1], p + 1 - n)
  <2>1. f = [n \in Nat |-> body(n)]
    BY <1>5
  <2>2. f = [n \in Nat |-> f[n]] /\ \A n \in Nat : f[n] = body(n)
    <3> HIDE DEF body
    <3> QED BY <2>1
  <2>3. T = {}
    <3> SUFFICES ASSUME T # {} PROVE FALSE
      OBVIOUS
    <3>1. \E x \in T : \A y \in T : ~(<<y, x>> \in OpToRel(<, Nat))
      <4>1. T \subseteq Nat
        OBVIOUS
      <4> HIDE DEF T
      <4> QED BY <4>1, NatLessThanWellFounded, WFMin
    <3>2. PICK x \in T : \A y \in T : ~(y < x)
      BY <3>1 DEF OpToRel
    <3>3. x \in Nat /\ f[x] # G[x]
      OBVIOUS
    <3>4. x # 0
      BY <1>3, <2>2, <3>3
    <3>5. x - 1 \in Nat /\ x - 1 < x
      BY <3>3, <3>4
    <3>6. f[x - 1] = G[x - 1]
      BY <3>2, <3>5
    <3> HIDE DEF G
    <3> QED BY <1>3, <2>2, <3>3, <3>4, <3>6
  <2>4. \A n \in Nat : f[n] = G[n]
    BY <2>3
  <2> QED BY <2>2, <2>4
<1>6. (CHOOSE f : Looping(f)) = G
  <2> HIDE DEF Looping, G
  <2> QED BY <1>4, <1>5
<1>7. G[p + 1] = WidenedAfter(mark, p, p + 1)
  BY <1>2
<1> QED BY <1>1, <1>6, <1>7, AfterThePasses

-----------------------------------------------------------------------------
(***************************************************************************)
(* What the invariant says, property by property.                          *)
(***************************************************************************)

\* The tables keep their shapes: lo and hi are offsets of a page, whatever
\* ranges are merged into upper_page and reset.
THEOREM TypesHold == Spec => []TypeOK
<1>1. IInv => TypeOK
  BY LayoutAssumption
     DEF IInv, Tracking, MarksOK, EntriesOK, BitsOK, MappingsOK, Mark, Mem4KOf, TypeOK
<1> QED BY <1>1, InvariantHolds, PTL

\* cache_invalidate_upper_page never widens below the first page of the region.
THEOREM ReachStaysInBounds == Spec => []ReachInBounds
<1>1. IInv => ReachInBounds
  BY DEF IInv, Tracking, MarksOK, ReachInBounds
<1> QED BY <1>1, InvariantHolds, PTL

\* The widening loop of cache_invalidate_upper_page, which lowers its own bound
\* as it goes, stops at the highest page that no page of the range reaches below.
THEOREM WideningIsExact == Spec => []WideningLoopAgrees
<1>1. IInv => WideningLoopAgrees
  BY LoopFindsFirst DEF IInv, Tracking, WideningLoopAgrees
<1> QED BY <1>1, InvariantHolds, PTL

\* Every cached entry stays covered by the marks of its pages until it is
\* dropped.
THEOREM CodeStaysMarked == Spec => []CodeIsMarked
<1>1. IInv => CodeIsMarked
  BY DEF IInv, Tracking, Tracked, CodeIsMarked
<1> QED BY <1>1, InvariantHolds, PTL

\* recompute_4k_code and cache_mark_upper_range keep the 4K bits exact.
THEOREM CodeBitsStayExact == Spec => []CodeBitsExact
<1>1. IInv => CodeBitsExact
  BY DEF IInv, Tracking, BitsOK, CodeBitsExact
<1> QED BY <1>1, InvariantHolds, PTL

\* Pages with compiled code never get a fast write mapping.
THEOREM CodePagesStayProtected == Spec => []CodePagesProtected
<1>1. IInv => CodePagesProtected
  BY DEF IInv, MappingsOK
<1> QED BY <1>1, InvariantHolds, PTL

\* Stores reach the bank that loads come from, by exactly one way.
THEOREM StoresReachWhatIsRead == Spec => []WritesReachWhatIsRead
<1>1. IInv => WritesReachWhatIsRead
  BY DEF IInv, MappingsOK
<1> QED BY <1>1, InvariantHolds, PTL

\* Self-modifying code is noticed, for every layout and every set of blocks.
THEOREM SelfModificationIsNoticed == Spec => []SelfModificationNoticed
<1>1. IInv => SelfModificationNoticed
  BY DEF IInv, Tracking, Noticed, SelfModificationNoticed
<1> QED BY <1>1, InvariantHolds, PTL
=============================================================================
