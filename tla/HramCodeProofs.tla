---------------------------- MODULE HramCodeProofs ----------------------------
(***************************************************************************)
(* For every size of HRAM and every byte: lookups return fresh code.       *)
(***************************************************************************)
EXTENDS HramCode, TLAPS

USE HramAssumption DEF Hram

(***************************************************************************)
(* What the snapshot is for: whatever is cached was compiled from bytes    *)
(* that are marked, lie in the page's range, and are in the snapshot.      *)
(* LookupIsFresh alone is not inductive: it says nothing of what a native  *)
(* store may do to an entry that is still cached.                          *)
(***************************************************************************)
Recorded(x) ==
  /\ x.start \in Hram /\ x.last \in Hram
  /\ x.start .. x.last \subseteq hram_is_code
  /\ \A k \in x.start .. x.last : x.bytes[k] = hram_snapshot[k]

Shapes ==
  /\ hram \in [Hram -> Byte] /\ hram_snapshot \in [Hram -> Byte]
  /\ hram_is_code \subseteq Hram /\ hram_has_code \in BOOLEAN
  /\ lo \in 0 .. HramSize /\ hi \in Hram
  /\ upper_cache \in [Hram -> Entry \cup {NoCode}]

IInv ==
  /\ Shapes
  /\ \A k \in hram_is_code : lo <= k /\ k <= hi
  /\ \A pc \in Hram : upper_cache[pc] # NoCode =>
       hram_has_code /\ Recorded(upper_cache[pc])

LEMMA CompiledIsEntry ==
  ASSUME Shapes, NEW start \in Hram, NEW last \in Hram, start <= last
  PROVE  /\ Compiled(start, last) \in Entry
         /\ Compiled(start, last).start = start
         /\ Compiled(start, last).last = last
         /\ \A k \in start .. last : Compiled(start, last).bytes[k] = hram[k]
<1>1. [k \in start .. last |-> hram[k]] \in [start .. last -> Byte]
  BY DEF Shapes
<1>2. <<start, last>> \in Hram \X Hram
  OBVIOUS
<1>3. Compiled(start, last) \in [start : {<<start, last>>[1]}, last : {<<start, last>>[2]},
                                 bytes : [<<start, last>>[1] .. <<start, last>>[2] -> Byte]]
  BY <1>1 DEF Compiled
<1>4. Compiled(start, last) \in Entry
  BY <1>2, <1>3 DEF Entry
<1> QED BY <1>4 DEF Compiled

\* With a snapshot that is not stale, the code bytes are what it says.
LEMMA FreshSnapshot ==
  ASSUME IInv, ~ Stale, NEW pc \in Hram, upper_cache[pc] # NoCode
  PROVE  \A k \in upper_cache[pc].start .. upper_cache[pc].last :
           /\ hram_snapshot[k] = hram[k]
           /\ upper_cache[pc].bytes[k] = hram[k]
<1> SUFFICES ASSUME NEW k \in upper_cache[pc].start .. upper_cache[pc].last
             PROVE  hram_snapshot[k] = hram[k] /\ upper_cache[pc].bytes[k] = hram[k]
  OBVIOUS
<1>1. hram_has_code /\ Recorded(upper_cache[pc])
  BY DEF IInv
<1>2. k \in hram_is_code /\ upper_cache[pc].bytes[k] = hram_snapshot[k]
  BY <1>1 DEF Recorded
<1>3. k \in lo .. hi
  BY <1>2 DEF IInv, Shapes
<1>4. hram[k] = hram_snapshot[k]
  BY <1>1, <1>2, <1>3 DEF Stale, hram_snapshot_valid
<1> QED BY <1>2, <1>4

LEMMA EmptyShapes ==
  /\ HramSize \in 0 .. HramSize /\ 0 \in Hram
  /\ [pc \in Hram |-> NoCode] \in [Hram -> Entry \cup {NoCode}]
OBVIOUS

LEMMA InvalidateKeepsInvariant ==
  ASSUME IInv, cache_invalidate_upper_page, hram' \in [Hram -> Byte],
         hram_snapshot' = hram_snapshot
  PROVE  IInv'
<1>1. /\ upper_cache' = [pc \in Hram |-> NoCode]
      /\ lo' = HramSize /\ hi' = 0 /\ hram_is_code' = {} /\ hram_has_code' = FALSE
  BY DEF cache_invalidate_upper_page
<1>2. Shapes'
  BY <1>1, EmptyShapes DEF IInv, Shapes
<1> QED BY <1>1, <1>2 DEF IInv

Ranged(marked, l, h) == \A k \in marked : l <= k /\ k <= h

Agrees(cache, marked) ==
  \A pc \in Hram : cache[pc] # NoCode =>
    /\ cache[pc].start \in Hram /\ cache[pc].last \in Hram
    /\ cache[pc].start .. cache[pc].last \subseteq marked
    /\ \A k \in cache[pc].start .. cache[pc].last : cache[pc].bytes[k] = hram[k]

\* Compiling into a cache whose entries the present bytes agree with.
LEMMA CompileKeepsInvariant ==
  ASSUME Shapes, NEW start \in Hram, NEW last \in Hram, start <= last,
         NEW heads \in SUBSET (start + 1 .. last),
         NEW cache \in [Hram -> Entry \cup {NoCode}],
         NEW l \in 0 .. HramSize, NEW h \in Hram,
         NEW marked \in SUBSET Hram, NEW had \in BOOLEAN,
         Ranged(marked, l, h), Agrees(cache, marked),
         CompileInto(start, last, heads, cache, l, h, marked, had),
         UNCHANGED hram
  PROVE  IInv'
<1> DEFINE new == Compiled(start, last)
<1>1. /\ upper_cache' = [pc \in Hram |-> IF pc \in heads \cup {start} THEN new
                                         ELSE cache[pc]]
      /\ lo' = Lesser(l, start) /\ hi' = Greater(h, last)
      /\ hram_is_code' = marked \cup (start .. last)
      /\ hram_snapshot' = hram /\ hram_has_code' = TRUE
  BY DEF CompileInto, TakeSnapshot, MarkHi
<1>2. /\ new \in Entry
      /\ new.start = start /\ new.last = last
      /\ \A k \in start .. last : new.bytes[k] = hram[k]
  BY CompiledIsEntry
<1> HIDE DEF new
<1>3. lo' \in 0 .. HramSize /\ hi' \in Hram /\ hram_is_code' \subseteq Hram
  BY <1>1 DEF Lesser, Greater
<1>4. upper_cache' \in [Hram -> Entry \cup {NoCode}]
  BY <1>1, <1>2
<1>5. Shapes'
  BY <1>1, <1>3, <1>4 DEF Shapes
<1>6. \A k \in hram_is_code' : lo' <= k /\ k <= hi'
  <2> SUFFICES ASSUME NEW k \in marked \cup (start .. last)
               PROVE  Lesser(l, start) <= k /\ k <= Greater(h, last)
    BY <1>1
  <2>1. CASE k \in marked
    BY <2>1 DEF Lesser, Greater, Ranged
  <2>2. CASE k \in start .. last
    BY <2>2 DEF Lesser, Greater
  <2> QED BY <2>1, <2>2
<1>7. ASSUME NEW pc \in Hram, upper_cache'[pc] # NoCode
      PROVE  Recorded(upper_cache[pc])'
  <2>1. CASE pc \in heads \cup {start}
    BY <1>1, <1>2, <2>1 DEF Recorded
  <2>2. CASE pc \notin heads \cup {start}
    BY <1>1, <1>7, <2>2 DEF Recorded, Agrees
  <2> QED BY <2>1, <2>2
<1> QED
  BY <1>1, <1>5, <1>6, <1>7 DEF IInv

LEMMA NextKeepsInvariant == IInv /\ [Next]_vars => IInv'
<1> SUFFICES ASSUME IInv, [Next]_vars
             PROVE  IInv'
  OBVIOUS
<1>1. ASSUME NEW pc \in Hram, NEW last \in Hram, NEW arenaFull \in BOOLEAN, pc <= last,
             NEW heads \in SUBSET (pc + 1 .. last),
             jit_run_compile(pc, last, heads, arenaFull)
      PROVE  IInv'
  <2>1. CASE Stale \/ arenaFull
    <3>1. PICK cache, l, h, marked, had :
            /\ cache = [a \in Hram |-> NoCode] /\ l = HramSize /\ h = 0
            /\ marked = {} /\ had = FALSE
      OBVIOUS
    <3>2. CompileInto(pc, last, heads, [a \in Hram |-> NoCode], HramSize, 0, {}, FALSE)
      BY <1>1, <2>1 DEF jit_run_compile
    <3>3. UNCHANGED hram
      BY <1>1 DEF jit_run_compile
    <3>4. /\ Shapes /\ cache \in [Hram -> Entry \cup {NoCode}]
          /\ l \in 0 .. HramSize /\ h \in Hram /\ marked \in SUBSET Hram /\ had \in BOOLEAN
          /\ Ranged(marked, l, h)
      BY <3>1, EmptyShapes DEF IInv, Ranged
    <3>5. CompileInto(pc, last, heads, cache, l, h, marked, had)
      BY <3>1, <3>2
    <3>6. Agrees(cache, marked)
      BY <3>1 DEF Agrees
    <3> QED
      BY <1>1, <3>3, <3>4, <3>5, <3>6, CompileKeepsInvariant
  <2>2. CASE ~ (Stale \/ arenaFull)
    <3>1. CompileInto(pc, last, heads, upper_cache, lo, hi, hram_is_code, hram_has_code)
      BY <1>1, <2>2 DEF jit_run_compile
    <3>2. UNCHANGED hram
      BY <1>1 DEF jit_run_compile
    <3>3. Agrees(upper_cache, hram_is_code)
      BY <2>2, FreshSnapshot DEF IInv, Recorded, Agrees
    <3>4. PICK cache, l, h, marked, had :
            /\ cache = upper_cache /\ l = lo /\ h = hi /\ marked = hram_is_code
            /\ had = hram_has_code
      OBVIOUS
    <3>5. /\ Shapes /\ cache \in [Hram -> Entry \cup {NoCode}]
          /\ l \in 0 .. HramSize /\ h \in Hram /\ marked \in SUBSET Hram /\ had \in BOOLEAN
          /\ Ranged(marked, l, h)
      BY <3>4 DEF IInv, Shapes, Ranged
    <3>6. CompileInto(pc, last, heads, cache, l, h, marked, had)
      BY <3>1, <3>4
    <3>7. Agrees(cache, marked)
      BY <3>3, <3>4
    <3> QED
      BY <1>1, <3>2, <3>5, <3>6, <3>7, CompileKeepsInvariant
  <2> QED BY <2>1, <2>2
<1>2. ASSUME NEW a \in Hram, NEW v \in Byte, NativeStore(a, v)
      PROVE  IInv'
  BY <1>2 DEF NativeStore, IInv, Shapes, Recorded
<1>3. ASSUME NEW a \in Hram, NEW v \in Byte, dmg_write_slow(a, v)
      PROVE  IInv'
  <2>1. hram' \in [Hram -> Byte]
    BY <1>3 DEF dmg_write_slow, IInv, Shapes
  <2>2. CASE lo <= a /\ a <= hi
    BY <1>3, <2>1, <2>2, InvalidateKeepsInvariant DEF dmg_write_slow
  <2>3. CASE ~ (lo <= a /\ a <= hi)
    BY <1>3, <2>1, <2>3 DEF dmg_write_slow, IInv, Shapes, Recorded
  <2> QED BY <2>2, <2>3
<1>4. CASE jit_clear_all_blocks
  BY <1>4, InvalidateKeepsInvariant DEF jit_clear_all_blocks, IInv, Shapes
<1>5. CASE UNCHANGED vars
  BY <1>5 DEF vars, IInv, Shapes, Recorded
<1> QED
  BY <1>1, <1>2, <1>3, <1>4, <1>5 DEF Next

LEMMA InitEstablishesInvariant == Init => IInv
<1> SUFFICES ASSUME Init
             PROVE  IInv
  OBVIOUS
<1>1. Shapes
  BY EmptyShapes DEF Init, Shapes
<1> QED BY <1>1 DEF Init, IInv

\* The inductive invariant holds in every reachable state.
THEOREM InvariantHolds == Spec => []IInv
BY InitEstablishesInvariant, NextKeepsInvariant, PTL DEF Spec

\* The page's range and its snapshot keep their shapes.
THEOREM TypesHold == Spec => []TypeOK
<1>1. IInv => TypeOK
  BY DEF IInv, Shapes, TypeOK
<1> QED BY <1>1, InvariantHolds, PTL

\* cache_lookup never returns HRAM code compiled from bytes that have changed.
THEOREM LookupsAreFresh == Spec => []LookupIsFresh
<1>1. IInv => LookupIsFresh
  BY FreshSnapshot DEF LookupIsFresh, cache_lookup, Matches
<1> QED BY <1>1, InvariantHolds, PTL

\* A block just compiled is found by the next lookup.
THEOREM CompiledIsAlwaysFound == Spec => CompiledIsFound
<1>1. ASSUME IInv, NEW pc \in Hram, NEW last \in Hram, NEW arenaFull \in BOOLEAN,
             NEW heads \in SUBSET (pc + 1 .. last),
             jit_run_compile(pc, last, heads, arenaFull), pc <= last
      PROVE  cache_lookup(pc)' # NoCode
  <2>1. /\ upper_cache'[pc] = Compiled(pc, last)
        /\ hram_snapshot' = hram /\ hram' = hram
    BY <1>1 DEF jit_run_compile, CompileInto, TakeSnapshot
  <2>2. ~ Stale'
    BY <2>1 DEF Stale, hram_snapshot_valid
  <2>3. Compiled(pc, last) # NoCode
    BY <1>1, CompiledIsEntry, CodeAssumption DEF IInv
  <2> QED BY <2>1, <2>2, <2>3 DEF cache_lookup
<1>2. IInv => \A pc, last \in Hram, arenaFull \in BOOLEAN :
                 \A heads \in SUBSET (pc + 1 .. last) :
                   pc <= last /\ jit_run_compile(pc, last, heads, arenaFull)
                     => cache_lookup(pc)' # NoCode
  BY <1>1
<1> QED BY <1>2, InvariantHolds, PTL DEF CompiledIsFound
=============================================================================
