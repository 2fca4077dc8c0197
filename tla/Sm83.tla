-------------------------------- MODULE Sm83 --------------------------------
(***************************************************************************)
(* The Game Boy's CPU as its manuals describe it: what compiled code has   *)
(* to do.  Nothing here is taken from the compiler, so that its tables     *)
(* (cycles, instruction lengths) and its register layout are checked       *)
(* against something else.  A state r has                                  *)
(*   reg     b c d e h l - a, numbered as in the opcodes,                  *)
(*   z n h c the flags, 0 or 1,                                            *)
(*   sp, pc, cycles,                                                       *)
(*   zc      FALSE after an instruction whose flags the compiler leaves    *)
(*           alone (add sp,i8 and ld hl,sp+i8),                            *)
(*   io      the accesses of the last instruction, as <<kind, address>>,   *)
(* and the memory fields of GbMemory.                                      *)
(***************************************************************************)
EXTENDS GbMemory

HL(r) == 256 * r.reg[4] + r.reg[5]
rr(r, p) == IF p = 3 THEN r.sp ELSE 256 * r.reg[2 * p] + r.reg[2 * p + 1]
set_rr(r, p, w) == IF p = 3 THEN [r EXCEPT !.sp = w]
                   ELSE [r EXCEPT !.reg[2 * p] = Hi8(w), !.reg[2 * p + 1] = Lo8(w)]

Reads(r, addr) == [r EXCEPT !.io = Append(@, <<"read", addr>>)]
Writes(r, addr, v) == dmg_write([r EXCEPT !.io = Append(@, <<"write", addr>>)], addr, v)

Get(r, i) == IF i = 6 THEN dmg_read(r, HL(r)) ELSE r.reg[i]
Got(r, i) == IF i = 6 THEN Reads(r, HL(r)) ELSE r
Put(r, i, v) == IF i = 6 THEN Writes(r, HL(r), v) ELSE [r EXCEPT !.reg[i] = v]

If01(b) == IF b THEN 1 ELSE 0
ZNHC(r, z, n, h, c) == [r EXCEPT !.z = z, !.n = n, !.h = h, !.c = c]

\* bytes of an instruction
Bytes(op) ==
    IF op \in {8, 195, 205, 234, 250} \/ (op < 64 /\ op % 16 = 1)
       \/ (op >= 192 /\ op % 8 \in {2, 4} /\ op < 224)
    THEN 3
    ELSE IF ((op < 64 \/ op >= 192) /\ op % 8 = 6)
            \/ op \in {24, 32, 40, 48, 56, 203, 224, 232, 240, 248}
    THEN 2 ELSE 1

\* memory accesses behind the fetch, without those of a taken branch
Accesses(op, n) ==
    CASE op = 203 -> IF n % 8 # 6 THEN 0 ELSE IF n \in 64..127 THEN 1 ELSE 2
      [] op \in 64..191 -> If01(op % 8 = 6 \/ op \in 112..119)
      [] op \in {52, 53, 8, 201, 217, 205} -> 2
      [] op >= 192 /\ op % 16 \in {1, 5} -> 2
      [] op >= 192 /\ op % 8 = 7 -> 2
      [] op < 64 /\ op % 8 = 2 -> 1
      [] op \in {54, 224, 226, 234, 240, 242, 250} -> 1
      [] OTHER -> 0
\* machine cycles without an access: 16-bit arithmetic, jumps, pushes
Internal(op) ==
    CASE op = 232 -> 2
      [] op < 64 /\ op % 8 = 3 -> 1
      [] op < 64 /\ op % 16 = 9 -> 1
      [] op \in {24, 195, 201, 217, 205, 248, 249} -> 1
      [] op \in {192, 200, 208, 216} -> 1
      [] op >= 192 /\ (op % 16 = 5 \/ op % 8 = 7) -> 1
      [] OTHER -> 0
\* a taken ret pops and jumps, a taken call waits and pushes
Extra(op) == IF op \in {192, 200, 208, 216, 196, 204, 212, 220} THEN 3 ELSE 1

Sum8(r, v, cin) ==
    LET a == r.reg[7]  s == a + v + cin
    IN  ZNHC([r EXCEPT !.reg[7] = s % 256], If01(s % 256 = 0), 0,
             If01((a % 16) + (v % 16) + cin > 15), If01(s > 255))
Minus8(r, v, cin) ==
    LET a == r.reg[7]  d == a - v - cin
    IN  ZNHC([r EXCEPT !.reg[7] = d % 256], If01(d % 256 = 0), 1,
             If01((a % 16) < (v % 16) + cin), If01(d < 0))
Logic8(r, v, h) == ZNHC([r EXCEPT !.reg[7] = v], If01(v = 0), 0, h, 0)

\* the eight operations of $80-$bf and of the immediates
Arith(r, f, v) ==
    CASE f = 0 -> Sum8(r, v, 0)
      [] f = 1 -> Sum8(r, v, r.c)
      [] f = 2 -> Minus8(r, v, 0)
      [] f = 3 -> Minus8(r, v, r.c)
      [] f = 4 -> Logic8(r, And8(r.reg[7], v), 1)
      [] f = 5 -> Logic8(r, Xor8(r.reg[7], v), 0)
      [] f = 6 -> Logic8(r, Or8(r.reg[7], v), 0)
      [] f = 7 -> [Minus8(r, v, 0) EXCEPT !.reg[7] = r.reg[7]]

\* the eight shifts of CB $00-$3f, as <<result, carry>>
Shifts(f, v, c) ==
    CASE f = 0 -> <<((2 * v) % 256) + v \div 128, v \div 128>>
      [] f = 1 -> <<v \div 2 + 128 * (v % 2), v % 2>>
      [] f = 2 -> <<((2 * v) % 256) + c, v \div 128>>
      [] f = 3 -> <<v \div 2 + 128 * c, v % 2>>
      [] f = 4 -> <<(2 * v) % 256, v \div 128>>
      [] f = 5 -> <<v \div 2 + 128 * (v \div 128), v % 2>>
      [] f = 6 -> <<16 * (v % 16) + v \div 16, 0>>
      [] f = 7 -> <<v \div 2, v % 2>>

Daa(r) ==
    LET a == r.reg[7]
        low  == r.h = 1 \/ (r.n = 0 /\ a % 16 > 9)
        high == r.c = 1 \/ (r.n = 0 /\ a > 153)
        fix  == 6 * If01(low) + 96 * If01(high)
        v    == (IF r.n = 1 THEN a - fix ELSE a + fix) % 256
    IN  ZNHC([r EXCEPT !.reg[7] = v], If01(v = 0), r.n, 0, If01(high))

Push(r, w) == LET hi == Writes(r, Wrap16(r.sp - 1), Hi8(w))
              IN  [Writes(hi, Wrap16(r.sp - 2), Lo8(w)) EXCEPT !.sp = Wrap16(@ - 2)]
Popped(r) == dmg_read16(r, r.sp)
Pop(r) == [Reads(Reads(r, r.sp), Wrap16(r.sp + 1)) EXCEPT !.sp = Wrap16(@ + 2)]

(* F in memory: the compiler keeps it in a layout of its own.  Here a      *)
(* pushed F is 256 + 4z + c, which pop af takes apart again.               *)
PushAF(r) == LET hi == Writes(r, Wrap16(r.sp - 1), r.reg[7])
             IN  [Writes(hi, Wrap16(r.sp - 2), 256 + 4 * r.z + r.c) EXCEPT !.sp = Wrap16(@ - 2)]
PopAF(r) == LET f == dmg_read(r, r.sp)
            IN  [Pop(r) EXCEPT !.reg[7] = dmg_read(r, Wrap16(r.sp + 1)),
                               !.z = Bit(f, 2), !.c = Bit(f, 0)]

Cond(r, op) == LET cc == (op \div 8) % 4
               IN  CASE cc = 0 -> r.z = 0 [] cc = 1 -> r.z = 1 [] cc = 2 -> r.c = 0 [] cc = 3 -> r.c = 1

CbStep(r, op) ==
    LET i == op % 8  b == (op \div 8) % 8  v == Get(r, i)  s == Shifts(b, v, r.c)
    IN  CASE op < 64  -> ZNHC(Put(Got(r, i), i, s[1]), If01(s[1] = 0), 0, 0, s[2])
          [] op \in 64..127  -> ZNHC(Got(r, i), 1 - Bit(v, b), 0, 1, r.c)
          [] op \in 128..191 -> Put(Got(r, i), i, v - 2^b * Bit(v, b))
          [] op > 191 -> Put(Got(r, i), i, v + 2^b * (1 - Bit(v, b)))

\* r is past the fetch and has the cycles of an instruction that is not taken
Op(r, op, n, nn) ==
    LET x == (op \div 8) % 8  i == op % 8  p == x \div 2
        a == r.reg[7]
        jump(s, to) == [s EXCEPT !.pc = to, !.cycles = @ + 4 * Extra(op)]
        inc(v, d) == (v + d) % 256
        ff == 65280
    IN  CASE op = 0 -> r
          [] op \in 64..127 -> Put(Got(r, i), x, Get(r, i))
          [] op \in 128..191 -> Arith(Got(r, i), x, Get(r, i))
          [] op >= 192 /\ i = 6 -> Arith(r, x, n)
          [] op = 203 -> CbStep(r, n)
          [] op < 64 /\ op % 16 = 1 -> set_rr(r, p, nn)
          [] op < 64 /\ op % 16 = 3 -> set_rr(r, p, Wrap16(rr(r, p) + 1))
          [] op < 64 /\ op % 16 = 11 -> set_rr(r, p, Wrap16(rr(r, p) - 1))
          [] op < 64 /\ op % 16 = 9 ->
                 LET s == HL(r) + rr(r, p)
                 IN  [set_rr(r, 2, Wrap16(s)) EXCEPT !.n = 0, !.c = If01(s > 65535),
                          !.h = If01((HL(r) % 4096) + (rr(r, p) % 4096) > 4095)]
          [] op < 64 /\ i = 4 -> LET v == inc(Get(r, x), 1)
                                 IN  ZNHC(Put(Got(r, x), x, v), If01(v = 0), 0, If01(v % 16 = 0), r.c)
          [] op < 64 /\ i = 5 -> LET v == inc(Get(r, x), -1)
                                 IN  ZNHC(Put(Got(r, x), x, v), If01(v = 0), 1, If01(v % 16 = 15), r.c)
          [] op < 64 /\ i = 6 -> Put(r, x, n)
          [] op \in {2, 18} -> Writes(r, rr(r, p), a)
          [] op \in {10, 26} -> [Reads(r, rr(r, p)) EXCEPT !.reg[7] = dmg_read(r, rr(r, p))]
          [] op \in {34, 50} -> set_rr(Writes(r, HL(r), a), 2,
                                       Wrap16(HL(r) + IF op = 34 THEN 1 ELSE -1))
          [] op \in {42, 58} -> [set_rr(Reads(r, HL(r)), 2, Wrap16(HL(r) + IF op = 42 THEN 1 ELSE -1))
                                 EXCEPT !.reg[7] = Get(r, 6)]
          [] op \in {7, 15, 23, 31} -> LET s == Shifts(x, a, r.c)
                                       IN  ZNHC([r EXCEPT !.reg[7] = s[1]], 0, 0, 0, s[2])
          [] op = 39 -> Daa(r)
          [] op = 47 -> [r EXCEPT !.reg[7] = 255 - a, !.n = 1, !.h = 1]
          [] op = 55 -> ZNHC(r, r.z, 0, 0, 1)
          [] op = 63 -> ZNHC(r, r.z, 0, 0, 1 - r.c)
          [] op = 8 -> Writes(Writes(r, nn, Lo8(r.sp)), Wrap16(nn + 1), Hi8(r.sp))
          [] op = 24 -> [r EXCEPT !.pc = Wrap16(@ + Signed8(n))]
          [] op \in {32, 40, 48, 56} -> IF Cond(r, op) THEN jump(r, Wrap16(r.pc + Signed8(n))) ELSE r
          [] op \in {192, 200, 208, 216} -> IF Cond(r, op) THEN jump(Pop(r), Popped(r)) ELSE r
          [] op \in {194, 202, 210, 218} -> IF Cond(r, op) THEN jump(r, nn) ELSE r
          [] op \in {196, 204, 212, 220} -> IF Cond(r, op) THEN jump(Push(r, r.pc), nn) ELSE r
          [] op \in {193, 209, 225} -> set_rr(Pop(r), p, Popped(r))
          [] op = 241 -> PopAF(r)
          [] op \in {197, 213, 229} -> Push(r, rr(r, p))
          [] op = 245 -> PushAF(r)
          [] op = 195 -> [r EXCEPT !.pc = nn]
          [] op = 201 -> [Pop(r) EXCEPT !.pc = Popped(r)]
          [] op = 217 -> [Pop(r) EXCEPT !.pc = Popped(r), !.io = <<<<"ime", 1>>>> \o @]
          [] op = 205 -> [Push(r, r.pc) EXCEPT !.pc = nn]
          [] op >= 192 /\ i = 7 -> [Push(r, r.pc) EXCEPT !.pc = 8 * x]
          [] op = 233 -> [r EXCEPT !.pc = HL(r)]
          [] op \in {243, 251} -> [r EXCEPT !.io = Append(@, <<"ime", If01(op = 251)>>)]
          [] op = 224 -> Writes(r, ff + n, a)
          [] op = 226 -> Writes(r, ff + r.reg[1], a)
          [] op = 234 -> Writes(r, nn, a)
          [] op = 240 -> [Reads(r, ff + n) EXCEPT !.reg[7] = dmg_read(r, ff + n)]
          [] op = 242 -> [Reads(r, ff + r.reg[1]) EXCEPT !.reg[7] = dmg_read(r, ff + r.reg[1])]
          [] op = 250 -> [Reads(r, nn) EXCEPT !.reg[7] = dmg_read(r, nn)]
          [] op = 232 -> [r EXCEPT !.sp = Wrap16(@ + Signed8(n)), !.zc = FALSE]
          [] op = 248 -> [set_rr(r, 2, Wrap16(r.sp + Signed8(n))) EXCEPT !.zc = FALSE]
          [] op = 249 -> [r EXCEPT !.sp = HL(r)]

CpuStep(r) ==
    LET op == dmg_read(r, r.pc)
        n  == dmg_read(r, Wrap16(r.pc + 1))
        nn == n + 256 * dmg_read(r, Wrap16(r.pc + 2))
        mcycles == Bytes(op) + Accesses(op, n) + Internal(op)
    IN  Op([r EXCEPT !.pc = Wrap16(@ + Bytes(op)), !.cycles = @ + 4 * mcycles, !.io = <<>>],
           op, n, nn)
=============================================================================
