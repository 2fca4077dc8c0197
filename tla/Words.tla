------------------------------- MODULE Words -------------------------------
(***************************************************************************)
(* Bytes, 16-bit words and 32-bit longs.  A long is a pair <<hi, lo>> of   *)
(* words, because its unsigned values exceed TLC's integers.               *)
(***************************************************************************)
EXTENDS Integers, Sequences

Byte == 0..255
Word == 0..65535

Bit(x, i) == (x \div 2^i) % 2
Lo8(w) == w % 256
Hi8(w) == w \div 256
Signed8(b) == IF b >= 128 THEN b - 256 ELSE b
Signed16(w) == IF w >= 32768 THEN w - 65536 ELSE w
Wrap16(n) == n % 65536

And8(x, y) == LET both(i) == 2^i * Bit(x, i) * Bit(y, i)
              IN  both(0) + both(1) + both(2) + both(3)
                  + both(4) + both(5) + both(6) + both(7)
Or8(x, y) == x + y - And8(x, y)
Xor8(x, y) == x + y - 2 * And8(x, y)
And16(x, y) == 256 * And8(Hi8(x), Hi8(y)) + And8(Lo8(x), Lo8(y))
Or16(x, y) == x + y - And16(x, y)
Xor16(x, y) == x + y - 2 * And16(x, y)

AddL(x, y) == LET lo == x[2] + y[2]
              IN  <<Wrap16(x[1] + y[1] + lo \div 65536), Wrap16(lo)>>
NegL(x) == AddL(<<65535 - x[1], 65535 - x[2]>>, <<0, 1>>)
SubL(x, y) == AddL(x, NegL(y))
BelowL(x, y) == x[1] < y[1] \/ (x[1] = y[1] /\ x[2] < y[2])
\* a number of either sign as a long
Long(n) == <<Wrap16(n \div 65536), Wrap16(n)>>
SextW(w) == Long(Signed16(w))
=============================================================================
