-------------------------------- MODULE M68k --------------------------------
(***************************************************************************)
(* The part of a 68000 that compiled code uses: eight data and seven       *)
(* address registers, the Z and C flags, the system stack, and the way     *)
(* out of a block.  The further fields of a machine m are                  *)
(*   d, a   registers, longs                                               *)
(*   z, c   the flags of the last instruction (0 or 1)                     *)
(*   stk    words on the system stack, last pushed first                   *)
(*   skip   instructions that a forward branch still jumps over            *)
(*   out    how the code was left: "none", or to where.                    *)
(* A forward branch counts the instructions it passes, so a code sequence  *)
(* is read from left to right; the only backward branches end the sequence *)
(* ("loop").                                                               *)
(***************************************************************************)
EXTENDS GbMemory

D(n) == [k |-> "d", n |-> n]
A(n) == [k |-> "a", n |-> n]
Imm(v) == [k |-> "imm", v |-> v]
At(n, disp) == [k |-> "at", n |-> n, disp |-> disp]
Idx(n, dn, disp) == [k |-> "idx", n |-> n, dn |-> dn, disp |-> disp]
Abs(at) == [k |-> "abs", at |-> at]

Part(sz, long) == CASE sz = "b" -> Lo8(long[2]) [] sz = "w" -> long[2] [] OTHER -> long
With(sz, long, v) == CASE sz = "b" -> <<long[1], 256 * Hi8(long[2]) + v>>
                       [] sz = "w" -> <<long[1], v>>
                       [] OTHER    -> v
Extended(sz, v) == IF sz = "w" THEN SextW(v) ELSE v
Zero(sz) == IF sz = "l" THEN <<0, 0>> ELSE 0

Address(m, o) == CASE o.k = "abs" -> o.at
                   [] o.k = "at"  -> AddL(m.a[o.n], Long(o.disp))
                   [] o.k = "idx" -> AddL(AddL(m.a[o.n], Long(o.disp)), SextW(m.d[o.dn][2]))

Load16(m, at) == 256 * Peek(m, at) + Peek(m, AddL(at, <<0, 1>>))
Load(m, sz, at) == CASE sz = "b" -> Peek(m, at)
                     [] sz = "w" -> Load16(m, at)
                     [] OTHER    -> <<Load16(m, at), Load16(m, AddL(at, <<0, 2>>))>>
Store16(m, at, w) == Poke(Poke(m, at, Hi8(w)), AddL(at, <<0, 1>>), Lo8(w))
Store(m, sz, at, v) == CASE sz = "b" -> Poke(m, at, v)
                         [] sz = "w" -> Store16(m, at, v)
                         [] OTHER    -> Store16(Store16(m, at, v[1]), AddL(at, <<0, 2>>), v[2])

Value(m, sz, o) == CASE o.k = "imm" -> o.v
                     [] o.k = "d"   -> Part(sz, m.d[o.n])
                     [] o.k = "a"   -> Part(sz, m.a[o.n])
                     [] OTHER       -> Load(m, sz, Address(m, o))
Assign(m, sz, o, v) == CASE o.k = "d" -> [m EXCEPT !.d[o.n] = With(sz, @, v)]
                         [] o.k = "a" -> [m EXCEPT !.a[o.n] = Extended(sz, v)]
                         [] OTHER     -> Store(m, sz, Address(m, o), v)

Flag(b) == IF b THEN 1 ELSE 0
Flags(m, z, c) == [m EXCEPT !.z = Flag(z), !.c = Flag(c)]
\* the result of a move: Z from the value, C cleared; an address register
\* leaves the flags alone
Moved(m, sz, o, v) == IF o.k = "a" THEN Assign(m, sz, o, v)
                      ELSE Flags(Assign(m, sz, o, v), v = Zero(sz), FALSE)

Modulus(sz) == IF sz = "b" THEN 256 ELSE 65536
Sum(sz, x, y) == IF sz = "l" THEN AddL(x, y) ELSE (x + y) % Modulus(sz)
Difference(sz, x, y) == IF sz = "l" THEN SubL(x, y) ELSE (x - y) % Modulus(sz)
Below(sz, x, y) == IF sz = "l" THEN BelowL(x, y) ELSE x < y

Logic(f, sz, x, y) == CASE f = "and" /\ sz = "b" -> And8(x, y)
                        [] f = "and"             -> And16(x, y)
                        [] f = "or"              -> IF sz = "b" THEN Or8(x, y) ELSE Or16(x, y)
                        [] f = "eor"             -> Xor8(x, y)

\* x is the destination, y the source
Alu(m, f, sz, o, x, y) ==
    LET sum == Sum(sz, x, y)  diff == Difference(sz, x, y)
    IN  CASE f = "add" -> Flags(Assign(m, sz, o, sum), sum = Zero(sz), Below(sz, sum, y))
          [] f = "sub" -> Flags(Assign(m, sz, o, diff), diff = Zero(sz), Below(sz, x, y))
          [] f = "cmp" -> Flags(m, x = y, Below(sz, x, y))
          [] OTHER     -> Moved(m, sz, o, Logic(f, sz, x, y))

\* address registers are changed as a whole and without flags
AddressAlu(m, f, sz, n, y) ==
    LET long == IF sz = "l" THEN y ELSE SextW(y)
    IN  [m EXCEPT !.a[n] = IF f = "add" THEN AddL(@, long) ELSE SubL(@, long)]

\* one bit at a time: <<value, last bit shifted out>>
Shift1(f, w, x) ==
    LET top == x \div 2^(w - 1)  low == x % 2
    IN  CASE f = "lsl" -> <<(2 * x) % 2^w, top>>
          [] f = "rol" -> <<((2 * x) % 2^w) + top, top>>
          [] f = "lsr" -> <<x \div 2, low>>
          [] f = "asr" -> <<x \div 2 + top * 2^(w - 1), low>>
          [] f = "ror" -> <<x \div 2 + low * 2^(w - 1), low>>
Shifted(f, w, x, n) ==
    LET step[k \in 0..n] == IF k = 0 THEN <<x, 0>> ELSE Shift1(f, w, step[k - 1][1])
    IN  step[n]
Shift(m, ins) ==
    LET x == Value(m, ins.sz, ins.t)
        r == Shifted(ins.f, IF ins.sz = "b" THEN 8 ELSE 16, x, ins.n)
    IN  Flags(Assign(m, ins.sz, ins.t, r[1]), r[1] = 0, r[2] = 1)
ShiftLong8(m, n) ==   \* lsr.l #8
    LET v == <<Hi8(m.d[n][1]), 256 * Lo8(m.d[n][1]) + Hi8(m.d[n][2])>>
    IN  Flags([m EXCEPT !.d[n] = v], v = <<0, 0>>, Bit(m.d[n][2], 7) = 1)

BitOp(m, f, b, n) ==
    LET half == IF b >= 16 THEN 1 ELSE 2
        old  == Bit(m.d[n][half], b % 16)
        new  == CASE f = "bset" -> 1 [] f = "bclr" -> 0 [] OTHER -> old
    IN  [m EXCEPT !.z = 1 - old, !.d[n][half] = @ + (new - old) * 2^(b % 16)]

Holds(m, cc) == CASE cc = "eq" -> m.z = 1
                  [] cc = "ne" -> m.z = 0
                  [] cc = "cs" -> m.c = 1
                  [] cc = "cc" -> m.c = 0
                  [] cc = "hi" -> m.c = 0 /\ m.z = 0
                  [] cc = "ls" -> m.c = 1 \/ m.z = 1
                  [] cc = "t"  -> TRUE

\* move sr,Dn: the upper byte is the system's, X and N are left set so that
\* code that does not mask them shows
StatusRegister(m) == 8192 + 24 + 4 * m.z + m.c

\* what the C calling convention lets a callee change
Scratch == <<23130, 42405>>
Clobbered(m) == [m EXCEPT !.d[0] = Scratch, !.d[1] = Scratch, !.d[2] = Scratch,
                          !.a[0] = Scratch, !.a[1] = Scratch]

JIT_CTX_READ == 4
JIT_CTX_WRITE == 8
JIT_CTX_EI_DI == 12
JIT_CTX_READ16 == 36
JIT_CTX_WRITE16 == 40
JIT_CTX_READ_CYCLES == 52
JIT_CTX_MBC_WRITE == 92

(* jsr to a C function: its arguments are on the system stack, dmg first.  *)
(* Timing code in C reads the cycle count from the context.                *)
CCall(m, fn) ==
    LET arg(i) == m.stk[i + 2]   \* after the two words of the dmg pointer
        seen == Load(m, "l", <<CtxArea, JIT_CTX_READ_CYCLES>>)[2]
        log(v) == [m EXCEPT !.calls = Append(@, [fn |-> fn, at |-> v, cycles |-> seen])]
        returns(n, v) == [Clobbered(n) EXCEPT !.d[0] = <<Scratch[1], v>>]
    IN  CASE fn = JIT_CTX_READ    -> returns(log(arg(1)),
                                       256 * Hi8(Scratch[2]) + dmg_read(m, arg(1)))
          [] fn = JIT_CTX_READ16  -> returns(log(arg(1)), dmg_read16(m, arg(1)))
          [] fn = JIT_CTX_WRITE   -> Clobbered(dmg_write(log(arg(1)), arg(1), Hi8(arg(2))))
          [] fn = JIT_CTX_WRITE16 -> Clobbered(dmg_write16(log(arg(1)), arg(1), arg(2)))
          [] fn = JIT_CTX_MBC_WRITE -> Clobbered(dmg_mbc_write(log(arg(1)), arg(1), Hi8(arg(2))))
          [] fn = JIT_CTX_EI_DI   -> Clobbered(log(arg(1)))

Left(m, to, pc) == [m EXCEPT !.out = [to |-> to, pc |-> pc]]

Exec(m, ins) ==
    CASE ins.i = "nop"   -> m
      [] ins.i = "move"  -> Moved(m, ins.sz, ins.t, Value(m, ins.sz, ins.s))
      [] ins.i = "alu"   -> IF ins.t.k = "a"
                            THEN AddressAlu(m, ins.f, ins.sz, ins.t.n, Value(m, ins.sz, ins.s))
                            ELSE Alu(m, ins.f, ins.sz, ins.t, Value(m, ins.sz, ins.t),
                                     Value(m, ins.sz, ins.s))
      [] ins.i = "shift" -> Shift(m, ins)
      [] ins.i = "lsr.l" -> ShiftLong8(m, ins.n)
      [] ins.i = "bit"   -> BitOp(m, ins.f, ins.b, ins.n)
      [] ins.i = "not"   -> Moved(m, "b", D(ins.n), 255 - Lo8(m.d[ins.n][2]))
      [] ins.i = "swap"  -> Moved(m, "l", D(ins.n), <<m.d[ins.n][2], m.d[ins.n][1]>>)
      [] ins.i = "ext"   -> Moved(m, "w", D(ins.n), Wrap16(Signed8(Lo8(m.d[ins.n][2]))))
      [] ins.i = "scc"   -> Assign(m, "b", D(ins.n), IF Holds(m, ins.cc) THEN 255 ELSE 0)
      [] ins.i = "sr"    -> Assign(m, "w", D(ins.n), StatusRegister(m))
      [] ins.i = "lea"   -> Assign(m, "l", A(ins.n), Address(m, ins.s))
      [] ins.i = "pushb" -> [m EXCEPT !.stk = <<256 * Lo8(m.d[ins.n][2]) + 165>> \o @]
      [] ins.i = "pushw" -> [m EXCEPT !.stk = <<m.d[ins.n][2]>> \o @]
      [] ins.i = "pushl" -> LET v == Load(m, "l", Address(m, ins.s))
                            IN  [m EXCEPT !.stk = v \o @]
      [] ins.i = "drop"  -> [m EXCEPT !.stk = SubSeq(@, ins.n \div 2 + 1, Len(@))]
      [] ins.i = "jsr"   -> CCall(m, m.a[ins.n][2])
      [] ins.i = "bcc"   -> IF Holds(m, ins.cc) THEN [m EXCEPT !.skip = ins.over] ELSE m
      [] ins.i = "leave" -> Left(m, ins.to, m.d[3])
      [] ins.i = "back"  -> IF Holds(m, ins.cc) THEN Left(m, "loop", <<0, ins.off>>) ELSE m

Running(m) == m.out.to = "none"
Step(m, ins) == IF ~Running(m) THEN m
                ELSE IF m.skip > 0 THEN [m EXCEPT !.skip = @ - 1]
                ELSE Exec(m, ins)
Run(m, code) ==
    LET after[k \in 0..Len(code)] ==
            IF k = 0 THEN m ELSE Step(after[k - 1], code[k])
    IN  after[Len(code)]
=============================================================================
