----------------------------- MODULE AudioWrites -----------------------------
(***************************************************************************)
(* What the sound queue promises of writes to sound registers, with        *)
(* neither time nor indexes: the generator sees the writes in the order    *)
(* they were made, each once.  There are two exceptions.  A write made     *)
(* while sound is off, or while Capacity writes are waiting, goes to the   *)
(* generator directly; and what is waiting when sound is turned on is      *)
(* forgotten.                                                              *)
(***************************************************************************)
EXTENDS Naturals, Sequences

CONSTANTS
  Capacity,     \* how many writes may wait, a positive number
  Reg, Value

Write == [reg : Reg, val : Value]

VARIABLES
  on,        \* is sound being generated?
  pending,   \* the writes not yet applied
  late,      \* the write being made directly, if any
  apu        \* the value the generator uses for each register

vars == <<on, pending, late, apu>>

\* The registers after the first n writes of s.
After(regs, s, n) ==
  [r \in Reg |->
     IF \E i \in 1 .. n : s[i].reg = r
       THEN s[CHOOSE i \in 1 .. n :
                s[i].reg = r /\ \A j \in i + 1 .. n : s[j].reg # r].val
       ELSE regs[r]]

Append1(write) ==
  /\ on /\ Len(pending) < Capacity
  /\ pending' = Append(pending, write)
  /\ UNCHANGED <<on, late, apu>>

BeginDirect(write) ==
  /\ late = {} /\ (~on \/ Len(pending) = Capacity)
  /\ late' = {write}
  /\ UNCHANGED <<on, pending, apu>>

EndDirect ==
  /\ \E write \in late : apu' = [apu EXCEPT ![write.reg] = write.val]
  /\ late' = {}
  /\ UNCHANGED <<on, pending>>

Apply(n) ==
  /\ on
  /\ apu' = After(apu, pending, n)
  /\ pending' = SubSeq(pending, n + 1, Len(pending))
  /\ UNCHANGED <<on, late>>

TurnOn == ~on /\ on' /\ pending' = <<>> /\ UNCHANGED <<late, apu>>
TurnOff == on /\ ~on' /\ UNCHANGED <<pending, late, apu>>

Init ==
  /\ on \in BOOLEAN /\ pending = <<>> /\ late = {}
  /\ apu \in [Reg -> Value]

Next ==
  \/ \E write \in Write : Append1(write) \/ BeginDirect(write)
  \/ EndDirect
  \/ \E n \in 1 .. Len(pending) : Apply(n)
  \/ TurnOn \/ TurnOff

Spec == Init /\ [][Next]_vars
=============================================================================
