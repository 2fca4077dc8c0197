----------------------------- MODULE MCCodeCache -----------------------------
(***************************************************************************)
(* A small address space for CodeCache: work RAM page $c of two 256-byte   *)
(* pages, $d of one page and two banks, $e the echo of $c's pages (mapped  *)
(* to the same storage), $f the echo of $d (never mapped).                 *)
(***************************************************************************)
EXTENDS CodeCache

MCMem4K == [p \in Page |-> CASE p \in {0, 1} -> "c" [] p = 2 -> "d"
                             [] p \in {3, 4} -> "e" [] p = 5 -> "f"]
MCHomePage == [p \in Page |-> CASE p \in {3, 4} -> p - 3 [] p = 5 -> 2
                                [] OTHER -> p]
MCInitBank == [m \in MemPage |-> IF m = "f" THEN NoBank ELSE 1]
MCMapGroup == {{"d"}}
MCGroupBanks == [g \in MapGroup |-> {1, 2}]

Blk(start, last, low) == [start |-> start, last |-> last, low |-> low]
NoLoop == [h \in {} |-> h]
Nested(outer, inner) == [h \in {outer, inner} |-> outer]
Sequential(first, second) == [h \in {first, second} |-> h]

MCBlock == {
  Blk(<<0, 0>>, <<0, 1>>, NoLoop),                       \* inside one page
  Blk(<<0, 1>>, <<1, 0>>, NoLoop),                       \* over a page border
  Blk(<<0, 1>>, <<2, 0>>, Nested(<<0, 1>>, <<2, 0>>)),   \* over a 4K border,
  Blk(<<1, 0>>, <<2, 0>>, Nested(<<1, 1>>, <<2, 0>>)),   \* loops across pages
  Blk(<<1, 1>>, <<2, 1>>, Sequential(<<1, 1>>, <<2, 0>>)),
  Blk(<<2, 0>>, <<2, 1>>, NoLoop),                       \* banked code
  Blk(<<3, 1>>, <<4, 0>>, NoLoop),                       \* code run in the
  Blk(<<5, 0>>, <<5, 1>>, NoLoop)}                       \* two echo windows
=============================================================================
