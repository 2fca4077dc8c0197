-------------------------- MODULE MCBlockDispatch --------------------------
(* The program for BankedDispatch.cfg: a jump out of bank 0 into the switched
   region, and one out of there into RAM; the others go through the
   dispatcher. *)
EXTENDS BlockDispatch

CONSTANTS entry, b, w, h

MCExits == {<<entry, b>>, <<b, w>>}
============================================================================
