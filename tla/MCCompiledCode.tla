--------------------------- MODULE MCCompiledCode ---------------------------
(***************************************************************************)
(* Programs for CompiledCode: every opcode alone, behind it an exit, and   *)
(* sequences for what needs more than one instruction.                     *)
(***************************************************************************)
EXTENDS CompiledCode

InRom(bytes) == [src |-> 16640, bytes |-> bytes \o <<195, 33, 67>>]     \* jp $4321
InWram(bytes) == [src |-> 51200, bytes |-> bytes \o <<195, 33, 195>>]   \* jp $c321

\* without stop and halt (WaitLoops.tla), pop af and the invalid opcodes
Opcodes == (0..255) \ ({16, 118, 203, 241} \union Invalid)
Single(op) == SubSeq(<<op, 256, 257>>, 1, insn_length(op))
MCSingles == {InRom(Single(op)) : op \in Opcodes} \union {InRom(<<203, cb>>) : cb \in 0..255}
             \union {InWram(Single(op)) : op \in {192, 194, 196, 199, 24, 32, 250, 205, 201}}

Sequences == {
  <<62, 37, 6, 72, 128, 39, 14, 153, 137, 39>>,        \* BCD: add, daa, adc, daa
  <<62, 112, 14, 149, 145, 39, 6, 8, 152, 39, 61, 39>>, \* BCD: sub, daa, sbc, daa, dec, daa
  <<62, 153, 60, 39, 198, 1, 39, 222, 9, 39>>,         \* BCD: inc, add, sbc with constants
  <<62, 9, 128, 144, 14, 5, 129, 39>>,                 \* tracking that a later add repeats
  <<62, 25, 198, 8, 24, 0>>,                           \* and that a jump ends
  <<3, 3, 197, 209, 19, 2, 27, 11, 11, 26>>,           \* junk of 16-bit counting
  <<229, 197, 213, 225, 193, 209>>,                    \* three pushes, three pops
  <<197, 193, 213, 209, 229, 225, 197, 209, 213, 225, 229, 193, 197, 193, 60>>,  \* more code than fits a block
  <<245, 175, 183, 241, 197, 241 - 16>>,               \* push af, pop af
  <<49, 0, 208, 197, 225>>, <<49, 2, 192, 229, 209>>, <<49, 0, 224, 213, 51, 59, 193>>,
  <<49, 254, 255, 197, 232, 2, 248, 252, 213>>, <<49, 16, 160, 229, 232, 16, 193>>,
  <<49, 1, 208, 197, 193>>, <<8, 255, 207, 8, 255, 223>>, <<49, 255, 159, 225, 197, 8, 255, 191>>, \* across pages
  <<249, 8, 16, 193, 57>>, <<33, 0, 224, 249, 213, 225>>, <<33, 0, 208, 249, 197, 225>>,
  <<33, 144, 255, 249, 197, 209>>, <<33, 2, 192, 249, 229>>, <<33, 255, 255, 249, 233>>,
  <<0, 204, 32, 66, 60, 216, 12, 212, 64, 66, 0, 192, 210, 0, 80>>,  \* taken and not
  <<0, 40, 3, 56, 4, 60, 32, 2, 48, 1, 34>>,           \* conditional jumps forward
  <<6, 2, 12, 28, 5, 32, 251, 60>>,                    \* loop to a place behind the start
  <<61, 0, 32, 252, 14, 3>>,                           \* loop from the start
  <<60, 35, 24, 252>>, <<60, 0, 48, 252, 48, 250>>,    \* until the wake limit
  <<62, 3, 234, 0, 32, 234, 0, 33, 175, 234, 0, 47, 62, 1, 234, 0, 63>>,  \* ROM bank
  <<251, 60, 243, 224, 64, 240, 65, 217>>,             \* IME and I/O, reti
  <<240, 0, 250, 0, 255, 14, 255, 226, 242>>,          \* joypad, IE
  <<0, 0, 0, 0, 0, 0, 0, 0, 0, 0, 0, 0, 0, 0, 0, 0, 0, 0, 0, 0, 60, 0, 0, 0, 0>> }
MCSequences == {InRom(bytes) : bytes \in Sequences}
               \union {InWram(bytes) : bytes \in {<<60, 35, 24, 252>>, <<61, 0, 32, 252, 14, 3>>}}
MCPrograms == MCSingles \union MCSequences
MCStarts == 0..23
=============================================================================
