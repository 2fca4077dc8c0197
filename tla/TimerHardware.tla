---------------------------- MODULE TimerHardware ----------------------------
(***************************************************************************)
(* What the timer of the scheduler promises: a counter that is stepped     *)
(* every divisor cycles and reloaded when it overflows, and an interrupt   *)
(* for every overflow.  src/dmg.c keeps no such counter: it computes the   *)
(* count when it is read and the overflow from a deadline (EventSched).    *)
(*                                                                         *)
(* The program is stopped between two stretches of compiled code: only     *)
(* while it is not does the counter move or is a register written, and     *)
(* only while it is are overflows announced, all of them before it resumes.*)
(*                                                                         *)
(* An overflow is fresh until the interrupt flag shows it, at the next     *)
(* exit of compiled code or access to a timer register.  The promise is    *)
(* weaker than the hardware in two places, where the code is: a write of   *)
(* the reload value while an overflow is fresh may change the count, and   *)
(* a speed switch may lose a fresh overflow or raise the flag early.       *)
(***************************************************************************)
EXTENDS Integers

CONSTANTS
  TimerMax,     \* the counter overflows when it reaches TimerMax
  Divisors,     \* the selectable cycles per increment
  CountWrites,  \* the values a program writes to the counter
  Steps         \* cycles that may pass between two other actions

VARIABLES
  stopped,      \* no compiled code runs
  count,        \* the counter
  mod,          \* its reload value
  on, divisor,  \* the control register
  prescaler,    \* cycles since the last increment
  flag,         \* the timer's bit of the interrupt flags
  fresh         \* an overflow happened that the flag does not show yet

vars == <<stopped, count, mod, on, divisor, prescaler, flag, fresh>>

Count == 0 .. TimerMax - 1

Init ==
  /\ stopped = FALSE
  /\ count = 0 /\ mod = 0 /\ on = FALSE /\ divisor \in Divisors
  /\ prescaler = 0 /\ flag = FALSE /\ fresh = FALSE

\* One cycle of a running timer.
Tick(t) ==
  IF t.prescaler + 1 < divisor
  THEN [prescaler |-> t.prescaler + 1, count |-> t.count, fresh |-> t.fresh]
  ELSE IF t.count + 1 < TimerMax
  THEN [prescaler |-> 0, count |-> t.count + 1, fresh |-> t.fresh]
  ELSE [prescaler |-> 0, count |-> mod, fresh |-> TRUE]

\* The timer after n cycles.
Ticks[n \in Nat] ==
  IF n = 0 THEN [prescaler |-> prescaler, count |-> count, fresh |-> fresh]
  ELSE Tick(Ticks[n - 1])

Advance(n) ==
  /\ ~stopped /\ on
  /\ LET t == Ticks[n]
     IN prescaler' = t.prescaler /\ count' = t.count /\ fresh' = t.fresh
  /\ UNCHANGED <<stopped, mod, on, divisor, flag>>

\* Compiled code exits ...
Stop ==
  /\ ~stopped /\ stopped'
  /\ UNCHANGED <<count, mod, on, divisor, prescaler, flag, fresh>>

\* ... the flag shows an overflow, and another one may still be fresh ...
Announce ==
  /\ stopped /\ fresh
  /\ flag' = TRUE /\ fresh' \in BOOLEAN
  /\ UNCHANGED <<stopped, count, mod, on, divisor, prescaler>>

\* ... and when none is, it goes on; the interrupt may be taken.
Resume ==
  /\ stopped /\ ~fresh /\ ~stopped'
  /\ flag' \in {flag, FALSE}
  /\ UNCHANGED <<count, mod, on, divisor, prescaler, fresh>>

Shown == flag' = (flag \/ fresh) /\ fresh' = FALSE

WriteCount ==
  Shown /\ count' \in CountWrites /\ UNCHANGED <<mod, on, divisor, prescaler>>

ResetPrescaler == Shown /\ prescaler' = 0 /\ UNCHANGED <<count, mod, on, divisor>>

WriteControl ==
  /\ Shown
  /\ on' \in BOOLEAN /\ divisor' \in Divisors /\ prescaler' = 0
  /\ UNCHANGED <<count, mod>>

WriteMod ==
  /\ mod' \in Count
  /\ count' \in IF fresh THEN Count ELSE {count}
  /\ UNCHANGED <<on, divisor, prescaler, flag, fresh>>

WriteFlag == flag' \in BOOLEAN /\ UNCHANGED <<count, mod, on, divisor, prescaler, fresh>>

SwitchSpeed ==
  /\ flag' \in {flag, TRUE} /\ fresh' = FALSE
  /\ UNCHANGED <<count, mod, on, divisor, prescaler>>

Access ==
  /\ ~stopped /\ UNCHANGED stopped
  /\ \/ WriteCount \/ ResetPrescaler \/ WriteControl \/ WriteMod
     \/ WriteFlag \/ SwitchSpeed

Next ==
  \/ \E n \in Steps : Advance(n)
  \/ Stop \/ Announce \/ Resume
  \/ Access

Spec == Init /\ [][Next]_vars
=============================================================================
