---------------------------- MODULE CompiledCode ----------------------------
(***************************************************************************)
(* A compiled block beside the program it was compiled from.  One step     *)
(* compiles a block, every further step runs the code of one GB            *)
(* instruction on the 68000 (m) and the instruction itself on the CPU of   *)
(* Sm83.tla (ref).  Both have the same memory and the same start.          *)
(***************************************************************************)
EXTENDS CompiledBlock, FiniteSets, TLC

CONSTANTS Programs,     \* records [src, bytes]
          Starts        \* numbers of start states

VARIABLES src,          \* address the block was compiled from
          block,        \* its entries, <<>> before it is compiled
          at,           \* the entry that runs next
          pending,      \* cycles that the block has not counted yet
          m,            \* the 68000
          ref           \* the CPU
vars == <<src, block, at, pending, m, ref>>

Cpu == INSTANCE Sm83

-----------------------------------------------------------------------------
(* Start states: a small and an odd value for everything, junk wherever    *)
(* the compiler promises nothing.                                          *)

Pick(list, i) == list[(i % Len(list)) + 1]
As  == <<0, 1, 153, 15, 16, 127, 128, 255, 69>>
Bs  == <<255, 0, 153, 128, 9, 1, 57>>
Cs  == <<0, 255, 8, 127, 128, 1, 15, 90, 66, 133, 16>>
Ds  == <<195, 208, 18, 255, 0>>
Es  == <<255, 0, 64, 128, 7, 25, 3, 100>>
HLs == <<49443, 53503, 65413, 40976, 53247, 38912, 65344, 65535, 57600, 65024, 12288, 20480, 61440>>
SPs == <<49664, 57344, 65534, 41216, 49154, 53250, 65410, 53248, 55040, 51199>>
OperandHi == <<193, 211, 255, 160, 152, 33, 229, 85, 248, 254, 223>>
OperandLo == <<0, 1, 15, 16, 128, 255, 133, 68, 153, 254, 3, 248, 57>>

WakeLimit == 60
Banks == <<1, 3>>

\* the operand bytes of a program are marks: 256 and 257 stand for a low and
\* a high byte that differ from start to start
Operand(b, i) == CASE b = 256 -> Pick(OperandLo, i) [] b = 257 -> Pick(OperandHi, i) [] OTHER -> b

InRam(sp) == sp \in 49154..53247 \/ sp \in 53249..57344 \/ sp \in 65410..65534

MemoryOf(p, i) ==
    LET rp == dmg_read_pages(Pick(Banks, i))
        empty == [mem |-> <<>>, rp |-> rp,
                  wp |-> dmg_write_pages(Pick(Banks, i), IF i % 3 = 0 THEN {12} ELSE {}),
                  calls |-> <<>>, mbc |-> <<>>]
        cell(k) == Cell(empty, p.src + k - 1)
    IN  [empty EXCEPT !.mem = [x \in {cell(k) : k \in DOMAIN p.bytes} |->
                                  Operand(p.bytes[CHOOSE k \in DOMAIN p.bytes : cell(k) = x], i)]]

Split(i, hi, lo) == <<256 * ((37 * i) % 256) + hi, 256 * ((91 * i) % 256) + lo>>
JunkLong(i) == <<(4099 * i + 4660) % 65536, (257 * i + 22136) % 65536>>

MachineAt(p, i) ==
    LET sp == Pick(SPs, i)
        a3 == IF InRam(sp) THEN AddL(Cell(MemoryOf(p, i), sp - 1), <<0, 1>>) ELSE SextW(sp)
        regs == MemoryOf(p, i) @@
                [d |-> [n \in 0..7 |->
                           CASE n = CYCLES -> <<0, 4 * (i % 3)>>
                             [] n = REG_A  -> <<JunkLong(i)[1], 256 * 90 + Pick(As, i)>>
                             [] n = REG_BC -> Split(i, Pick(Bs, i), Pick(Cs, i))
                             [] n = REG_DE -> Split(i + 1, Pick(Ds, i), Pick(Es, i))
                             [] n = FLAGS  -> <<JunkLong(i)[2], 256 * 33 + 16 + 4 * ((i \div 2) % 2) + (i % 2)>>
                             [] OTHER      -> JunkLong(i + n)],
                 a |-> [n \in 0..6 |-> CASE n = REG_HL -> SextW(Pick(HLs, i))
                                         [] n = REG_SP -> a3
                                         [] n = CTX -> <<CtxArea, 0>>
                                         [] n = READ_PAGE -> read_table
                                         [] n = WRITE_PAGE -> write_table
                                         [] OTHER -> JunkLong(i + n)],
                 z |-> i % 2, c |-> 0, stk |-> <<>>, skip |-> 0, out |-> [to |-> "none", pc |-> NULL]]
        field(n, sz, disp, v) == Store(n, sz, <<CtxArea, disp>>, v)
    IN  field(field(field(field(field(regs, "w", JIT_CTX_GB_SP, sp),
                                "l", JIT_CTX_STACK_IN_RAM, <<0, IF InRam(sp) THEN 1 ELSE 0>>),
                          "l", JIT_CTX_WAKE_LIMIT, <<0, WakeLimit>>),
                    "b", JIT_CTX_DAA_STATE, Pick(As, i)),
              "b", JIT_CTX_DAA_STATE + 1, 0)

CpuAt(p, i) ==
    MemoryOf(p, i) @@
    [reg |-> [k \in 0..7 |-> CASE k = 0 -> Pick(Bs, i) [] k = 1 -> Pick(Cs, i)
                               [] k = 2 -> Pick(Ds, i) [] k = 3 -> Pick(Es, i)
                               [] k = 4 -> Hi8(Pick(HLs, i)) [] k = 5 -> Lo8(Pick(HLs, i))
                               [] k = 6 -> 0           [] k = 7 -> Pick(As, i)],
     z |-> (i \div 2) % 2, n |-> 0, h |-> 0, c |-> i % 2, zc |-> TRUE, io |-> <<>>,
     sp |-> Pick(SPs, i), pc |-> p.src, cycles |-> 4 * (i % 3)]

-----------------------------------------------------------------------------

Init == \E p \in Programs, i \in Starts :
            /\ src = p.src
            /\ m = MachineAt(p, i)
            /\ ref = CpuAt(p, i)
            /\ block = <<>> /\ at = 0 /\ pending = 0

Compile == /\ block = <<>>
           /\ block' = compile_block(m, src)
           /\ at' = 1
           /\ UNCHANGED <<src, pending, m, ref>>

(* Where SP points is checked when it is loaded; from there A3 moves       *)
(* without a look at pages and banks (stack.c:26).  A run ends before an   *)
(* instruction that moves SP out of the 4 KB or the HRAM it was loaded     *)
(* into.                                                                   *)
stack_in_ram_set == Load(m, "l", <<CtxArea, JIT_CTX_STACK_IN_RAM>>) # <<0, 0>>
Stretch(sp) == CASE sp \in 49152..53247 -> "wram" [] sp \in 53248..57344 -> "bank"
                 [] sp \in 65408..65535 -> "hram" [] OTHER -> "other"
StackStays == \/ ~stack_in_ram_set
              \/ dmg_read(ref, ref.pc) \in {49, 249}     \* ld sp,nn and ld sp,hl
              \/ Stretch(ref.sp) = Stretch(Cpu!CpuStep(ref).sp)

\* where the code `ran` has got to: a loop enters behind the flush at its target
Continues(e, ran, looped, next) ==
    /\ ref' = IF e.gb THEN Cpu!CpuStep(ref) ELSE [ref EXCEPT !.io = <<>>]
    /\ at' = IF looped \/ Running(ran) THEN next ELSE at
    /\ m' = IF looped THEN [ran EXCEPT !.out.to = "none"]
            ELSE IF Running(ran) THEN Run(ran, block[next].flush) ELSE ran
    /\ pending' = IF looped \/ ~Running(ran) \/ block[next].flushed THEN 0
                  ELSE block[next].pending

Executes(e, ran) ==
    Continues(e, ran, ran.out.to = "loop",
              IF ran.out.to = "loop" THEN m68k_offset(block, ran.out.pc[2]) ELSE at + 1)

Execute ==
    /\ block # <<>> /\ Running(m) /\ StackStays
    /\ Executes(block[at], Run([m EXCEPT !.calls = <<>>], block[at].code))
    /\ UNCHANGED <<src, block>>

Next == Compile \/ Execute
Spec == Init /\ [][Next]_vars

-----------------------------------------------------------------------------

GbRegister(k) == CASE k = 0 -> Lo8(m.d[REG_BC][1]) [] k = 1 -> Lo8(m.d[REG_BC][2])
                   [] k = 2 -> Lo8(m.d[REG_DE][1]) [] k = 3 -> Lo8(m.d[REG_DE][2])
                   [] k = 4 -> Hi8(m.a[REG_HL][2]) [] k = 5 -> Lo8(m.a[REG_HL][2])
                   [] k = 7 -> Lo8(m.d[REG_A][2])
gb_sp == Load(m, "w", <<CtxArea, JIT_CTX_GB_SP>>)

(* After every instruction the 68000 registers hold what the CPU's         *)
(* registers hold, and D7 its Z and C, whatever junk their other bits have *)
(* collected and whatever the calls into C clobbered.                      *)
RegistersAgree ==
    /\ \A k \in {0, 1, 2, 3, 4, 5, 7} : GbRegister(k) = ref.reg[k]
    /\ gb_sp = ref.sp
    /\ ref.zc => Bit(m.d[FLAGS][2], 2) = ref.z /\ Bit(m.d[FLAGS][2], 0) = ref.c

Same(byte, expected) == IF expected < 256 THEN byte = expected
                        ELSE And8(byte, 5) = expected - 256   \* a pushed F
(* Every store reached the byte that dmg_write would have changed, by      *)
(* whichever of the fast paths it went, and no other; the MBC saw the      *)
(* same writes except those that select the bank that is mapped.           *)
MemoryAgrees ==
    /\ \A x \in {y \in DOMAIN m.mem \union DOMAIN ref.mem : y[1] # CtxArea \/ y = rom_bank} :
          Same(Peek(m, x), Peek(ref, x))
    /\ m.mbc = ref.mbc

(* With stack_in_ram set, A3 is the host address of the GB's SP.           *)
NativeStackPointer ==
    stack_in_ram_set =>
        m.a[REG_SP] \in {Cell(m, gb_sp), AddL(Cell(m, Wrap16(gb_sp - 1)), <<0, 1>>)}

\* the accesses of one instruction that only C can serve
OnlyInC(x) == \/ x[1] = "ime"
              \/ x[2] \in 40960..49151 \/ x[2] \in 65024..65407 \/ x = <<"write", 65535>>
CallAccesses(c) ==
    CASE c.fn = JIT_CTX_READ    -> <<<<"read", c.at>>>>
      [] c.fn = JIT_CTX_READ16  -> <<<<"read", c.at>>, <<"read", Wrap16(c.at + 1)>>>>
      [] c.fn = JIT_CTX_WRITE16 -> <<<<"write", c.at>>, <<"write", Wrap16(c.at + 1)>>>>
      [] c.fn = JIT_CTX_EI_DI   -> <<<<"ime", c.at>>>>
      [] OTHER                  -> <<<<"write", c.at>>>>
JoypadRead(x) == x = <<"read", 65280>>
Served(xs) == {xs[k] : k \in {j \in DOMAIN xs : OnlyInC(xs[j]) /\ ~JoypadRead(xs[j])}}

(* Cycle counting is deferred, but C never sees it late: every call finds  *)
(* the count as it is at the end of the instruction that calls, and an     *)
(* access to I/O, cartridge RAM or IME is one call.                        *)
CallsSeeExactTime ==
    /\ \A k \in DOMAIN m.calls : m.calls[k].cycles = ref.cycles
    /\ LET made == {CallAccesses(m.calls[k]) : k \in DOMAIN m.calls}
       IN  /\ UNION {Served(xs) : xs \in made} = Served(ref.io)
           /\ Cardinality({k \in DOMAIN m.calls : Served(CallAccesses(m.calls[k])) # {}})
                 <= Cardinality({k \in DOMAIN ref.io : OnlyInC(ref.io[k])})

(* A block is left, or goes round, where the program goes, with every      *)
(* cycle counted and an empty stack; a patchable exit and a loop go on     *)
(* only before the wake limit.  In between, D2 is short of exactly the     *)
(* cycles that are pending.                                                *)
ExitsAgree ==
    /\ m.d[CYCLES] = <<0, ref.cycles - pending>>
    /\ Running(m) => block = <<>> \/ ref.pc = Wrap16(src + block[at].off)
    /\ ~Running(m) => m.out.pc = <<0, ref.pc>>
    /\ m.out.to = "return" => ref.cycles >= WakeLimit
    /\ m.out.to = "patch" => ref.cycles < WakeLimit
    /\ m.stk = <<>>
=============================================================================
