---------------------------- MODULE JitArenaProofs ----------------------------
(***************************************************************************)
(* For every arena and every set of banks and blocks: memory is handed out *)
(* once, cached pointers lead into allocated blocks but for the one kept   *)
(* over a reset, and the arena never stops the program when the tables,    *)
(* one block and one bank array fit.                                       *)
(***************************************************************************)
EXTENDS JitArena, TLAPS

USE SizeAssumption, AreaAssumption

States == [ptr : 0 .. ArenaSize, live : SUBSET Region, arrays : SUBSET Bank,
           cached : [Key -> Region \cup {NoCode}]]

\* The three facts about a state of the arena that every step keeps.  x is the
\* block kept over a reset.
Packed(s) ==
  /\ \A a \in s.live : a.at <= a.end /\ a.end <= s.ptr
  /\ \A a, b \in s.live : a = b \/ Disjoint(a, b)
Owned(s, x) == \A k \in Key : s.cached[k] # NoCode => s.cached[k] \in s.live \cup {x}
Sound(s, x) == s \in States /\ Packed(s) /\ Owned(s, x)

LEMMA FreshIsSound ==
  ASSUME NEW x
  PROVE  Sound(Fresh, x) /\ Fresh.ptr = FixedSize
<1>1. [at |-> 0, end |-> FixedSize] \in Region
  BY DEF Region
<1>2. Fresh \in States
  BY <1>1 DEF Fresh, States
<1>3. Packed(Fresh)
  BY DEF Fresh, Packed
<1>4. Owned(Fresh, x)
  BY DEF Fresh, Owned
<1> QED BY <1>2, <1>3, <1>4 DEF Sound, Fresh

\* Allocating keeps a state sound.
LEMMA AllocIsSound ==
  ASSUME NEW s, NEW x, Sound(s, x), NEW size \in Nat, Room(s, size),
         NEW r, r = arena_alloc(s, size)
  PROVE  /\ Sound(r, x)
         /\ r.ptr = s.ptr + size
         /\ r.live = s.live \cup {[at |-> s.ptr, end |-> s.ptr + size]}
         /\ r.arrays = s.arrays /\ r.cached = s.cached
<1> DEFINE new == [at |-> s.ptr, end |-> s.ptr + size]
<1>1. /\ s.ptr \in 0 .. ArenaSize /\ s.ptr + size \in 0 .. ArenaSize
      /\ s.live \in SUBSET Region
  BY DEF Sound, States, Room
<1>2. new \in Region
  BY <1>1 DEF Region
<1>3. /\ r.ptr = s.ptr + size /\ r.live = s.live \cup {new}
      /\ r.arrays = s.arrays /\ r.cached = s.cached
  BY DEF arena_alloc, Sound, States
<1>4. r \in States
  BY <1>1, <1>2 DEF arena_alloc, Sound, States
<1>5. \A a \in s.live : a.at \in Nat /\ a.end \in Nat /\ a.at <= a.end /\ a.end <= s.ptr
  BY <1>1 DEF Sound, Packed, Region
<1>6. Packed(r)
  BY <1>1, <1>3, <1>5 DEF Sound, Packed, Disjoint
<1>7. Owned(r, x)
  BY <1>3 DEF Sound, Owned
<1> QED BY <1>3, <1>4, <1>6, <1>7 DEF Sound

\* Storing pointers to an allocated block keeps a state sound.
LEMMA StoreIsSound ==
  ASSUME NEW s, NEW x, Sound(s, x), NEW area \in Area, NEW pcs \in SUBSET Pc,
         NEW code \in Region, code \in s.live \cup {x},
         NEW r, r = cache_store(s, area, pcs, code)
  PROVE  /\ Sound(r, x) /\ s.live \subseteq r.live
         /\ r.ptr = IF NeedsArray(s, area) /\ Room(s, ArraySize) THEN s.ptr + ArraySize
                    ELSE s.ptr
<1>1. CASE ~ Storable(s, area)
  BY <1>1 DEF cache_store, Storable
<1>2. CASE Storable(s, area)
  <2>1. PICK w : w = WithArray(s, area)
    OBVIOUS
  <2>2. /\ Sound(w, x) /\ s.live \subseteq w.live
        /\ w.ptr = IF NeedsArray(s, area) /\ Room(s, ArraySize) THEN s.ptr + ArraySize
                   ELSE s.ptr
    <3>1. CASE NeedsArray(s, area) /\ Room(s, ArraySize)
      <4>1. PICK v : v = arena_alloc(s, ArraySize)
        OBVIOUS
      <4>2. Sound(v, x) /\ s.live \subseteq v.live /\ v.ptr = s.ptr + ArraySize
        BY <3>1, <4>1, AllocIsSound
      <4>3. w = [v EXCEPT !.arrays = @ \cup {area}] /\ area \in Bank
        BY <2>1, <3>1, <4>1 DEF WithArray, NeedsArray
      <4>4. w \in States /\ w.live = v.live /\ w.ptr = v.ptr /\ w.cached = v.cached
        BY <4>2, <4>3 DEF Sound, States
      <4> QED BY <3>1, <4>2, <4>4 DEF Sound, Packed, Owned
    <3>2. CASE ~ (NeedsArray(s, area) /\ Room(s, ArraySize))
      BY <2>1, <3>2 DEF WithArray
    <3> QED BY <3>1, <3>2
  <2>3. r = [w EXCEPT !.cached = [k \in Key |-> IF k[1] = area /\ k[2] \in pcs THEN code
                                                ELSE s.cached[k]]]
    BY <1>2, <2>1 DEF cache_store
  <2>4. r \in States /\ r.live = w.live /\ r.ptr = w.ptr
    BY <2>2, <2>3 DEF Sound, States
  <2>5. \A k \in Key : r.cached[k] = code \/ r.cached[k] = s.cached[k]
    BY <2>2, <2>3 DEF Sound, States
  <2>6. Owned(r, x)
    BY <2>2, <2>4, <2>5 DEF Sound, Owned
  <2> QED BY <2>2, <2>4, <2>6 DEF Sound, Packed
<1> QED BY <1>1, <1>2

\* Compiling a block keeps a state sound and allocates the block: the shrink
\* takes back only what nothing was allocated behind.
LEMMA CompileIsSound ==
  ASSUME NEW s, NEW x, Sound(s, x), Room(s, BlockSize),
         NEW area \in Area, NEW heads \in SUBSET Pc, NEW length \in 1 .. BlockSize,
         NEW code, code = BlockIn(s, area, heads, length),
         NEW r, r = compile_block(s, area, heads, length)
  PROVE  Sound(r, x) /\ code \in Region /\ code \in r.live
<1>1. PICK b, full, short :
        /\ b = arena_alloc(s, BlockSize)
        /\ full = [at |-> s.ptr, end |-> s.ptr + BlockSize]
        /\ short = [at |-> s.ptr, end |-> s.ptr + length]
  OBVIOUS
<1>2. /\ Sound(b, x) /\ b.ptr = s.ptr + BlockSize /\ b.live = s.live \cup {full}
      /\ b.arrays = s.arrays /\ b.cached = s.cached
  BY <1>1, AllocIsSound
<1>3. s.ptr \in Nat /\ s.ptr + BlockSize <= ArenaSize /\ length \in Nat /\ length > 0
  BY DEF Sound, States, Room
<1>4. full \in Region /\ short \in Region
  BY <1>1, <1>3 DEF Region
<1>5. full \notin s.live
  BY <1>1, <1>3 DEF Sound, Packed
<1>6. CASE heads # {} /\ NeedsArray(s, area) /\ Room(b, ArraySize)
  <2>1. code = full
    BY <1>1, <1>6 DEF BlockIn
  <2>2. PICK heard : heard = cache_store(b, area, heads, code)
    OBVIOUS
  <2>3. NeedsArray(b, area)
    BY <1>2, <1>6 DEF NeedsArray
  <2>4. code \in b.live
    BY <1>2, <2>1
  <2>5. Sound(heard, x) /\ b.live \subseteq heard.live /\ heard.ptr = b.ptr + ArraySize
    BY <1>2, <1>4, <1>6, <2>1, <2>2, <2>3, <2>4, StoreIsSound
  <2>6. heard.ptr # s.ptr + BlockSize
    BY <1>2, <1>3, <2>5
  <2>7. r = heard
    BY <1>1, <1>6, <2>2, <2>6 DEF compile_block, arena_shrink
  <2> QED BY <1>4, <2>1, <2>4, <2>5, <2>7
<1>7. CASE ~ (heads # {} /\ NeedsArray(s, area) /\ Room(b, ArraySize))
  <2>1. code = short
    BY <1>1, <1>7 DEF BlockIn
  <2>2. PICK heard : heard = IF heads = {} THEN b ELSE cache_store(b, area, heads, code)
    OBVIOUS
  <2>3. \/ heard = b
        \/ heard = [b EXCEPT !.cached =
                      [k \in Key |-> IF k[1] = area /\ k[2] \in heads THEN code
                                     ELSE b.cached[k]]]
    <3>1. CASE heads = {} \/ ~ Storable(b, area)
      BY <2>2, <3>1 DEF cache_store
    <3>2. CASE heads # {} /\ Storable(b, area)
      <4>1. ~ NeedsArray(b, area)
        BY <1>2, <1>7, <3>2 DEF Storable, NeedsArray
      <4>2. WithArray(b, area) = b
        BY <4>1 DEF WithArray
      <4> QED BY <2>2, <3>2, <4>2 DEF cache_store
    <3> QED BY <3>1, <3>2
  <2>4. /\ heard \in States /\ heard.ptr = b.ptr /\ heard.live = b.live
        /\ \A k \in Key : heard.cached[k] = code \/ heard.cached[k] = s.cached[k]
    BY <1>2, <1>4, <2>1, <2>3 DEF Sound, States
  <2>5. r = [heard EXCEPT !.ptr = s.ptr + length, !.live = (@ \ {full}) \cup {short}]
    BY <1>1, <1>2, <2>2, <2>1, <2>4 DEF compile_block, arena_shrink
  <2>6. (heard.live \ {full}) \cup {short} = s.live \cup {short}
    BY <1>2, <1>5, <2>4
  <2>7. /\ r \in States /\ r.ptr = s.ptr + length /\ r.live = s.live \cup {short}
        /\ r.cached = heard.cached
    <3>1. /\ r = [ptr |-> s.ptr + length, live |-> s.live \cup {short},
                  arrays |-> heard.arrays, cached |-> heard.cached]
      BY <2>4, <2>5, <2>6 DEF States
    <3>2. s.ptr + length \in 0 .. ArenaSize
      BY <1>3
    <3>3. s.live \cup {short} \in SUBSET Region
      BY <1>4 DEF Sound, States
    <3> QED BY <2>4, <3>1, <3>2, <3>3 DEF States
  <2>8. \A a \in s.live : a.at \in Nat /\ a.end \in Nat /\ a.at <= a.end /\ a.end <= s.ptr
    BY DEF Sound, States, Packed, Region
  <2>9. Packed(r)
    BY <1>1, <1>3, <2>7, <2>8 DEF Sound, Packed, Disjoint
  <2>10. Owned(r, x)
    BY <2>1, <2>4, <2>7 DEF Sound, Owned
  <2> QED BY <1>4, <2>1, <2>7, <2>9, <2>10 DEF Sound
<1> QED BY <1>6, <1>7

-----------------------------------------------------------------------------
IInv ==
  /\ Sound(State, kept)
  /\ kept \in Region \cup {NoCode}
  /\ phase \in {"precompile", "run"}
  /\ jit_halted \in {"no", "error", "memory"}
  /\ NeverOutOfMemory

\* An action that leaves a sound state behind establishes Sound(State, kept)'.
LEMMA BecomesSound ==
  ASSUME NEW s, NEW x, Sound(s, x), Becomes(s), kept' = x
  PROVE  Sound(State, kept)'
BY DEF Becomes, State, Sound, States, Packed, Owned

\* Where one block and one bank array fit, a fresh arena has room for them.
LEMMA FreshForAll ==
  ASSUME FixedSize + BlockSize + ArraySize <= ArenaSize, NEW area
  PROVE  Storable(Fresh, area) /\ Room(Fresh, BlockSize)
BY DEF Storable, Room, Fresh

LEMMA RunKeepsInvariant ==
  ASSUME IInv, NEW area \in Area, NEW pc \in Pc, NEW heads \in SUBSET Pc,
         NEW length \in 1 .. BlockSize, NEW failed \in BOOLEAN,
         jit_run(area, pc, heads, length, failed)
  PROVE  IInv'
<1>1. PICK s, k : /\ s = RunState(State)
                  /\ k = IF Room(State, BlockSize) THEN kept ELSE NoCode
  OBVIOUS
<1>2. Sound(s, k) /\ k \in Region \cup {NoCode} /\ (~ Room(State, BlockSize) => s = Fresh)
  BY <1>1, FreshIsSound DEF IInv, RunState
<1>3. phase' = "run" /\ jit_halted = "no"
  BY DEF jit_run
<1>4. CASE ~ Room(s, BlockSize)
  <2>1. Becomes(s) /\ kept' = k /\ jit_halted' = "memory"
    BY <1>1, <1>4 DEF jit_run
  <2>2. s = Fresh
    BY <1>1, <1>2, <1>4 DEF RunState
  <2>3. NeverOutOfMemory'
    BY <1>4, <2>2, FreshForAll DEF NeverOutOfMemory
  <2> QED BY <1>2, <1>3, <2>1, <2>3, BecomesSound DEF IInv
<1>5. CASE Room(s, BlockSize)
  <2>1. PICK r, code : /\ r = compile_block(s, area, heads, length)
                       /\ code = BlockIn(s, area, heads, length)
    OBVIOUS
  <2>2. Sound(r, k) /\ code \in Region /\ code \in r.live
    BY <1>2, <1>5, <2>1, CompileIsSound
  <2>3. StoreOrRetry(r, area, pc, code, failed, k)
    BY <1>1, <1>5, <2>1 DEF jit_run
  <2>4. CASE failed
    <3>1. Becomes(r) /\ jit_halted' = "error" /\ kept' = k
      BY <2>3, <2>4 DEF StoreOrRetry
    <3> QED BY <1>2, <1>3, <2>2, <3>1, BecomesSound DEF IInv, NeverOutOfMemory
  <2>5. CASE ~ failed /\ Storable(r, area)
    <3>1. PICK q : q = cache_store(r, area, {pc}, code)
      OBVIOUS
    <3>2. Becomes(q) /\ kept' = k /\ jit_halted' = jit_halted
      BY <2>3, <2>5, <3>1 DEF StoreOrRetry
    <3>3. Sound(q, k)
      BY <2>2, <3>1, StoreIsSound
    <3> QED BY <1>2, <1>3, <3>2, <3>3, BecomesSound DEF IInv, NeverOutOfMemory
  <2>6. CASE ~ failed /\ ~ Storable(r, area) /\ Storable(Fresh, area)
    <3>1. PICK q, f : f = Fresh /\ q = cache_store(f, area, {pc}, code)
      OBVIOUS
    <3>2. Becomes(q) /\ kept' = code /\ jit_halted' = jit_halted
      BY <2>3, <2>6, <3>1 DEF StoreOrRetry
    <3>3. Sound(f, code)
      BY <3>1, FreshIsSound
    <3>4. Sound(q, code)
      BY <2>2, <3>1, <3>3, StoreIsSound
    <3> QED BY <1>3, <2>2, <3>2, <3>4, BecomesSound DEF IInv, NeverOutOfMemory
  <2>7. CASE ~ failed /\ ~ Storable(r, area) /\ ~ Storable(Fresh, area)
    <3>1. PICK f : f = Fresh
      OBVIOUS
    <3>2. Becomes(f) /\ kept' = NoCode /\ jit_halted' = "memory"
      BY <2>3, <2>7, <3>1 DEF StoreOrRetry
    <3>3. Sound(f, NoCode)
      BY <3>1, FreshIsSound
    <3>4. NeverOutOfMemory'
      BY <2>7, FreshForAll DEF NeverOutOfMemory
    <3> QED BY <1>3, <3>2, <3>3, <3>4, BecomesSound DEF IInv
  <2> QED BY <2>4, <2>5, <2>6, <2>7
<1> QED BY <1>4, <1>5

LEMMA PrecompileKeepsInvariant ==
  ASSUME IInv, NEW area \in Area, NEW pc \in Pc, NEW heads \in SUBSET Pc,
         NEW length \in 1 .. BlockSize, NEW failed \in BOOLEAN,
         jit_precompile(area, pc, heads, length, failed)
  PROVE  IInv'
<1> DEFINE low == 4 * (ArenaSize - arena_ptr) < ArenaSize \/ ~ Room(State, BlockSize)
<1>1. PICK s, k : s = State /\ k = kept
  OBVIOUS
<1>2. kept' = k /\ jit_halted' = jit_halted /\ phase \in {"precompile", "run"}
  BY <1>1 DEF jit_precompile, IInv
<1>3. Sound(s, k) /\ k \in Region \cup {NoCode}
  BY <1>1 DEF IInv
<1>4. CASE low
  <2>1. Becomes(s) /\ phase' = "run"
    BY <1>1, <1>4 DEF jit_precompile
  <2> QED BY <1>2, <1>3, <2>1, BecomesSound DEF IInv, NeverOutOfMemory
<1>5. CASE ~ low /\ failed
  <2>1. PICK f : f = Fresh
    OBVIOUS
  <2>2. Becomes(f) /\ phase' = "run"
    BY <1>5, <2>1 DEF jit_precompile
  <2>3. Sound(f, k)
    BY <2>1, FreshIsSound
  <2> QED BY <1>2, <1>3, <2>2, <2>3, BecomesSound DEF IInv, NeverOutOfMemory
<1>6. CASE ~ low /\ ~ failed
  <2>1. PICK r, code, q : /\ r = compile_block(s, area, heads, length)
                          /\ code = BlockIn(s, area, heads, length)
                          /\ q = cache_store(r, area, {pc}, code)
    OBVIOUS
  <2>2. Becomes(q) /\ phase' \in {"precompile", "run"}
    BY <1>1, <1>2, <1>6, <2>1 DEF jit_precompile
  <2>3. Sound(r, k) /\ code \in Region /\ code \in r.live
    BY <1>1, <1>3, <1>6, <2>1, CompileIsSound
  <2>4. Sound(q, k)
    <3>1. q = cache_store(r, area, {pc}, code) /\ {pc} \in SUBSET Pc
      BY <2>1
    <3>2. code \in r.live \cup {k}
      BY <2>3
    <3> HIDE DEF low
    <3> QED BY <2>3, <3>1, <3>2, StoreIsSound
  <2> QED BY <1>2, <1>3, <2>2, <2>4, BecomesSound DEF IInv, NeverOutOfMemory
<1> QED BY <1>4, <1>5, <1>6

LEMMA InitEstablishesInvariant == Init => IInv
<1> SUFFICES ASSUME Init
             PROVE  IInv
  OBVIOUS
<1>1. State = Fresh
  BY DEF Init, State, Fresh
<1>2. Sound(State, kept)
  BY <1>1, FreshIsSound
<1> QED BY <1>2 DEF Init, IInv, NeverOutOfMemory

\* The inductive invariant holds in every reachable state.
THEOREM InvariantHolds == Spec => []IInv
<1>1. IInv /\ [Next]_vars => IInv'
  <2> SUFFICES ASSUME IInv, [Next]_vars
               PROVE  IInv'
    OBVIOUS
  <2>1. CASE Next
    BY <2>1, RunKeepsInvariant, PrecompileKeepsInvariant DEF Next
  <2>2. CASE UNCHANGED vars
    BY <2>2 DEF vars, IInv, State, Sound, Packed, Owned, NeverOutOfMemory
  <2> QED BY <2>1, <2>2
<1> QED BY <1>1, InitEstablishesInvariant, PTL DEF Spec

\* The pointer stays inside the arena and the tables keep their shapes.
THEOREM TypesHold == Spec => []TypeOK
<1>1. IInv => TypeOK
  BY DEF IInv, Sound, States, State, TypeOK
<1> QED BY <1>1, InvariantHolds, PTL

\* arena_shrink never gives away memory of a later allocation.
THEOREM AllocationsStayDisjoint == Spec => []AllocationsDisjoint
<1>1. IInv => AllocationsDisjoint
  BY DEF IInv, Sound, Packed, State, AllocationsDisjoint
<1> QED BY <1>1, InvariantHolds, PTL

\* Every cached pointer but the one stored after a reset leads into an
\* allocated block.
THEOREM CachedCodeStaysLive == Spec => []CachedCodeIsLive
<1>1. IInv => CachedCodeIsLive
  BY DEF IInv, Sound, Owned, State, CachedCodeIsLive
<1> QED BY <1>1, InvariantHolds, PTL

\* The arena never stops the program if one block and one bank array fit.
THEOREM MemoryNeverStopsTheProgram == Spec => []NeverOutOfMemory
<1>1. IInv => NeverOutOfMemory
  BY DEF IInv
<1> QED BY <1>1, InvariantHolds, PTL
=============================================================================
