-------------------------- MODULE EventSchedProofs --------------------------
(* Theorems about EventSched, for frames, timers, blocks and writes of every
   size that its assumptions admit: its invariants, and that it implements
   TimerHardware.  Then the same about the waits of WaitLoops, for loops,
   targets and counters of every size. *)
EXTENDS WaitLoops, NaturalsInduction, WellFoundedInduction, TLAPS

-----------------------------------------------------------------------------
(* Arithmetic. *)

Even(x) == \E k \in Int : x = 2 * k

LEMMA ProductMonotone ==
  ASSUME NEW a \in Int, NEW b \in Int, NEW c \in Nat, a <= b
  PROVE  a * c <= b * c
<1> DEFINE d == b - a
<1>1. d \in Nat
  OBVIOUS
<1>2. d * c \in Nat
  BY <1>1
<1>3. d * c = (b * c) - (a * c)
  OBVIOUS
<1> QED BY <1>2, <1>3

LEMMA DivMod ==
  ASSUME NEW x \in Int, NEW c \in Nat \ {0}
  PROVE  /\ x \div c \in Int /\ x % c \in 0 .. c - 1
         /\ x = ((x \div c) * c) + (x % c)
OBVIOUS

LEMMA DivNat ==
  ASSUME NEW x \in Nat, NEW c \in Nat \ {0}
  PROVE  x \div c \in Nat
<1> DEFINE q == x \div c
<1>1. q \in Int /\ x % c \in 0 .. c - 1 /\ x = (q * c) + (x % c)
  BY DivMod
<1> HIDE DEF q
<1>2. ~(q <= -1)
  <2>1. SUFFICES ASSUME q <= -1 PROVE FALSE
    OBVIOUS
  <2>2. q * c <= (-1) * c
    BY <1>1, <2>1, ProductMonotone
  <2> QED BY <1>1, <2>2
<1> QED BY <1>1, <1>2 DEF q

\* The quotient is the number of whole c in x.
LEMMA QuotientUnique ==
  ASSUME NEW x \in Int, NEW c \in Nat \ {0}, NEW q \in Int,
         q * c <= x, x < (q * c) + c
  PROVE  x \div c = q
<1> DEFINE p == x \div c
<1>1. p \in Int /\ x % c \in 0 .. c - 1 /\ x = (p * c) + (x % c)
  BY DivMod
<1> HIDE DEF p
<1>2. CASE p < q
  <2>1. (p + 1) * c <= q * c
    BY <1>1, <1>2, ProductMonotone
  <2>2. (p + 1) * c = (p * c) + c
    BY <1>1
  <2> QED BY <1>1, <2>1, <2>2
<1>3. CASE q < p
  <2>1. (q + 1) * c <= p * c
    BY <1>1, <1>3, ProductMonotone
  <2>2. (q + 1) * c = (q * c) + c
    OBVIOUS
  <2> QED BY <1>1, <2>1, <2>2
<1> QED BY <1>1, <1>2, <1>3 DEF p

\* Quotient and remainder are the only ones.
LEMMA DivisionUnique ==
  ASSUME NEW c \in Nat \ {0}, NEW q \in Int, NEW r \in 0 .. c - 1,
         NEW x \in Int, x = (q * c) + r
  PROVE  x \div c = q /\ x % c = r
<1>1. q * c \in Int /\ r \in Int
  OBVIOUS
<1>2. q * c <= x /\ x < (q * c) + c
  BY <1>1
<1>3. x \div c = q
  BY <1>2, QuotientUnique
<1>4. x = ((x \div c) * c) + (x % c) /\ x % c \in 0 .. c - 1
  BY DivMod
<1>5. x % c = x - (q * c)
  BY <1>1, <1>3, <1>4
<1> QED BY <1>1, <1>3, <1>5

LEMMA SmallRemainder ==
  ASSUME NEW y \in Nat, NEW P \in Nat \ {0}, y < P
  PROVE  y % P = y
<1>1. y \in Int /\ y \in 0 .. P - 1 /\ 0 \in Int /\ y = (0 * P) + y
  OBVIOUS
<1> QED BY <1>1, DivisionUnique

\* Whole divisors more or less.
LEMMA LessWhole ==
  ASSUME NEW x \in Int, NEW c \in Nat \ {0}, NEW k \in Int
  PROVE  (x - (k * c)) \div c = x \div c - k /\ (x - (k * c)) % c = x % c
<1> DEFINE q == x \div c
           r == x % c
           y == x - (k * c)
<1>1. q \in Int /\ r \in 0 .. c - 1 /\ x = (q * c) + r
  BY DivMod
<1>2. y \in Int /\ q - k \in Int
  BY <1>1
<1> HIDE DEF q, r
<1>3. y = ((q - k) * c) + r
  <2>1. (q - k) * c = (q * c) - (k * c) /\ q * c \in Int /\ k * c \in Int /\ r \in Int
    BY <1>1
  <2> QED BY <1>1, <2>1
<1> HIDE DEF y
<1>4. y \div c = q - k /\ y % c = r
  BY <1>1, <1>2, <1>3, DivisionUnique
<1> QED BY <1>4 DEF y, q, r

LEMMA SameRemainder ==
  ASSUME NEW y \in Nat, NEW P \in Nat \ {0}
  PROVE  (y - P) % P = y % P
<1>1. 1 * P = P /\ y \in Int /\ 1 \in Int
  OBVIOUS
<1>2. (y - (1 * P)) % P = y % P
  BY <1>1, LessWhole
<1> QED BY <1>1, <1>2

\* A cycle more is a remainder more, or a whole divisor.
LEMMA NextDivision ==
  ASSUME NEW x \in Nat, NEW c \in Nat \ {0}
  PROVE  /\ (x % c) + 1 < c => (x + 1) \div c = x \div c /\ (x + 1) % c = (x % c) + 1
         /\ ~((x % c) + 1 < c) => (x + 1) \div c = (x \div c) + 1 /\ (x + 1) % c = 0
<1> DEFINE q == x \div c
           r == x % c
<1>1. q \in Int /\ r \in 0 .. c - 1 /\ x = (q * c) + r
  BY DivMod
<1> HIDE DEF q, r
<1>2. x + 1 \in Int /\ q * c \in Int /\ r \in Int
  BY <1>1
<1>3. ASSUME r + 1 < c
      PROVE  (x + 1) \div c = q /\ (x + 1) % c = r + 1
  <2>1. x + 1 = (q * c) + (r + 1) /\ r + 1 \in 0 .. c - 1
    BY <1>1, <1>2, <1>3
  <2> QED BY <1>1, <1>2, <2>1, DivisionUnique
<1>4. ASSUME ~(r + 1 < c)
      PROVE  (x + 1) \div c = q + 1 /\ (x + 1) % c = 0
  <2>1. PICK m \in Int : m = q + 1
    BY <1>1
  <2>2. PICK z \in 0 .. c - 1 : z = 0
    OBVIOUS
  <2>3. m * c = (q * c) + c
    BY <1>1, <2>1
  <2>4. x + 1 = (m * c) + z
    BY <1>1, <1>2, <1>4, <2>2, <2>3
  <2>5. (x + 1) \div c = m /\ (x + 1) % c = z
    BY <1>2, <2>4, DivisionUnique
  <2> QED BY <2>1, <2>2, <2>5
<1> QED BY <1>3, <1>4 DEF q, r

\* The whole c in x, compared with k.
LEMMA QuotientAtLeast ==
  ASSUME NEW x \in Int, NEW c \in Nat \ {0}, NEW k \in Int
  PROVE  k * c <= x <=> k <= x \div c
<1> DEFINE q == x \div c
<1>1. q \in Int /\ x % c \in 0 .. c - 1 /\ x = (q * c) + (x % c)
  BY DivMod
<1> HIDE DEF q
<1>2. ASSUME k <= q PROVE k * c <= x
  <2>1. k * c <= q * c
    BY <1>1, <1>2, ProductMonotone
  <2> QED BY <1>1, <2>1
<1>3. ASSUME ~(k <= q) PROVE ~(k * c <= x)
  <2>1. (q + 1) * c <= k * c
    BY <1>1, <1>3, ProductMonotone
  <2>2. (q + 1) * c = (q * c) + c
    BY <1>1
  <2> QED BY <1>1, <2>1, <2>2
<1> QED BY <1>2, <1>3 DEF q

LEMMA EvenSum ==
  ASSUME NEW x \in Int, NEW y \in Int, Even(x), Even(y)
  PROVE  Even(x + y) /\ Even(x - y)
<1>1. PICK k \in Int : x = 2 * k
  BY DEF Even
<1>2. PICK m \in Int : y = 2 * m
  BY DEF Even
<1>3. x + y = 2 * (k + m) /\ x - y = 2 * (k - m) /\ k + m \in Int /\ k - m \in Int
  BY <1>1, <1>2
<1> QED BY <1>3 DEF Even

LEMMA EvenProduct ==
  ASSUME NEW x \in Int, NEW c \in Int, Even(c)
  PROVE  Even(x * c)
<1>1. PICK m \in Int : c = 2 * m
  BY DEF Even
<1>2. x * c = 2 * (x * m) /\ x * m \in Int
  BY <1>1
<1> QED BY <1>2 DEF Even

LEMMA EvenRemainder ==
  ASSUME NEW x \in Int, NEW c \in Nat \ {0}, Even(x), Even(c)
  PROVE  Even(x % c)
<1> DEFINE q == x \div c
<1>0. q \in Int /\ x % c \in 0 .. c - 1 /\ x = (q * c) + (x % c)
  BY DivMod
<1> HIDE DEF q
<1>1. q \in Int /\ x % c \in Int /\ x = (q * c) + (x % c) /\ c \in Int
  BY <1>0
<1>2. Even(q * c) /\ q * c \in Int
  BY <1>1, EvenProduct
<1>3. x % c = x - (q * c)
  BY <1>1, <1>2
<1>4. Even(x - (q * c))
  BY <1>2, EvenSum
<1> QED BY <1>3, <1>4

LEMMA EvenHalf ==
  ASSUME NEW x \in Int, Even(x)
  PROVE  x \div 2 \in Int /\ 2 * (x \div 2) = x /\ x \div 1 = x
<1>1. PICK k \in Int : x = 2 * k
  BY DEF Even
<1>2. x \div 2 = k
  BY <1>1
<1> QED BY <1>1, <1>2

LEMMA EvenOfRemainder ==
  ASSUME NEW x \in Int, x % 2 = 0
  PROVE  Even(x)
<1>1. x = 2 * (x \div 2) /\ x \div 2 \in Int
  OBVIOUS
<1> QED BY <1>1 DEF Even

-----------------------------------------------------------------------------
(* The constants. *)

LEMMA FrameFacts ==
  /\ Line \in Nat \ {0} /\ Lines \in Nat \ {0} /\ Visible \in Nat \ {0} /\ Hblank \in Nat
  /\ Frame \in Nat /\ Line144 \in Nat /\ MaxDispatch \in Nat /\ EvNone \in Nat
  /\ Line <= Line144 /\ Line144 + Line <= Frame
  /\ SerialTime \in Nat /\ EvNone > (2 * Frame) + MaxDispatch + SerialTime
<1> USE RasterAssumption, TimerAssumption, CycleAssumption
<1>1. Line \in Nat \ {0} /\ Lines \in Nat \ {0} /\ Visible \in Nat \ {0} /\ Hblank \in Nat
  OBVIOUS
<1>2. 1 * Line <= Visible * Line /\ (Visible + 1) * Line <= Lines * Line
  BY <1>1, ProductMonotone
<1>3. (Visible + 1) * Line = (Visible * Line) + Line
  BY <1>1
<1>4. Frame \in Nat /\ Line144 \in Nat
  BY <1>1 DEF Frame, Line144
<1> QED BY <1>1, <1>2, <1>3, <1>4 DEF Frame, Line144

LEMMA DivisorFacts ==
  ASSUME NEW c \in Control
  PROVE  /\ c.on \in BOOLEAN /\ c.div \in Nat \ {0} /\ Even(c.div)
         /\ TimerMax \in Nat \ {0} /\ TimerMax * c.div \in Nat
         /\ EvNone > (2 * Frame) + MaxDispatch + (TimerMax * c.div)
<1>1. c.div \in Divisors /\ c.on \in BOOLEAN
  BY DEF Control
<1>2. c.div \in Nat \ {0} /\ c.div % 2 = 0 /\ TimerMax \in Nat \ {0}
  BY <1>1, TimerAssumption
<1>3. Even(c.div)
  BY <1>2, EvenOfRemainder
<1>4. TimerMax * c.div \in Nat
  BY <1>2
<1>5. EvNone > 2 * Frame + MaxDispatch + TimerMax * c.div
  BY <1>1, TimerAssumption
<1> QED BY <1>1, <1>2, <1>3, <1>4, <1>5, FrameFacts

-----------------------------------------------------------------------------
(* The types, and what of the timer and the deadlines they rest on. *)

Clocks ==
  /\ phase \in {"run", "sync"}
  /\ d2 \in 0 .. MaxDispatch /\ Even(d2)
  /\ wake_limit \in Nat /\ double_speed \in BOOLEAN
  /\ frame_cycles \in Nat /\ frame_cycles < Frame + MaxDispatch
  /\ phase = "run" => frame_cycles < Frame

Irqs ==
  /\ interrupt_enable \in BOOLEAN
  /\ ie \in SUBSET Interrupt /\ interrupt_request_mask \in SUBSET Interrupt

\* Where the count overflows, for a timer that runs.
Agrees ==
  Speed * (event_deadline["TIMA"] - frame_cycles)
    = ((TimerMax - timer_count) * timer_control.div) - tima_elapsed

Tima ==
  /\ timer_count \in 0 .. TimerMax - 1 /\ timer_mod \in 0 .. TimerMax - 1
  /\ timer_control \in Control
  /\ tima_elapsed \in Int /\ Even(tima_elapsed) /\ Elapsed >= 0
  /\ timer_control.on =>
       /\ Agrees
       /\ event_deadline["TIMA"] <= Frame + MaxDispatch + (TimerMax * timer_control.div)
       /\ phase = "run" => event_deadline["TIMA"] > frame_cycles
  /\ ~timer_control.on => event_deadline["TIMA"] = EvNone

Deadlines ==
  /\ event_deadline \in [Ev -> Nat]
  /\ event_deadline["WRAP"] = Frame
  /\ event_deadline["STAT"] = EvNone \/ event_deadline["STAT"] < Frame
  /\ \/ event_deadline["SERIAL"] = EvNone
     \/ event_deadline["SERIAL"] <= Frame + MaxDispatch + SerialTime
  /\ event_deadline["VBLANK"] = FrameDeadline(lcdc_on, sent_vblank_start)
  /\ event_deadline["RENDER"] = FrameDeadline(lcdc_on, rendered_this_frame)

Screen ==
  /\ lcdc_on \in BOOLEAN /\ stat \in SUBSET Source
  /\ lyc \in Nat /\ stat_event_line \in Nat
  /\ sent_vblank_start \in BOOLEAN /\ rendered_this_frame \in BOOLEAN
  /\ lazy_ly \in Nat /\ ly_read_cycle \in Nat

Base == Clocks /\ Irqs /\ Tima /\ Deadlines /\ Screen

\* The beam during a dispatch.
LEMMA NowFacts ==
  ASSUME Clocks
  PROVE  /\ Speed \in {1, 2} /\ d2 \div Speed \in Nat
         /\ Speed * (d2 \div Speed) = d2 /\ d2 \div Speed <= d2
         /\ dmg_now_ppu \in Nat /\ dmg_now_ppu = frame_cycles + (d2 \div Speed)
<1>1. d2 \in Nat /\ d2 \in Int /\ d2 \div 2 \in Int /\ 2 * (d2 \div 2) = d2 /\ d2 \div 1 = d2
  BY EvenHalf, FrameFacts DEF Clocks
<1>2. CASE double_speed
  <2>1. Speed = 2
    BY <1>2 DEF Speed
  <2> QED BY <1>1, <2>1 DEF dmg_now_ppu, Clocks
<1>3. CASE ~double_speed
  <2>1. Speed = 1
    BY <1>3 DEF Speed
  <2> QED BY <1>1, <2>1 DEF dmg_now_ppu, Clocks
<1> QED BY <1>2, <1>3

LEMMA NowIsNat == Clocks => dmg_now_ppu \in Nat
BY NowFacts

LEMMA NextNowIsNat == Clocks' => (dmg_now_ppu \in Nat)'
BY NowIsNat, PTL

LEMMA InitBase == Init => Base
<1> SUFFICES ASSUME Init PROVE Base
  OBVIOUS
<1>1. Even(0)
  BY DEF Even
<1>2. Clocks
  <2>1. Even(d2) /\ phase = "run" /\ d2 = 0 /\ double_speed = FALSE /\ frame_cycles = 0
        /\ wake_limit = Frame
    BY <1>1 DEF Init
  <2>2. double_speed \in BOOLEAN
    BY <2>1
  <2> QED BY <2>1, <2>2, FrameFacts DEF Clocks
<1>3. Irqs
  BY DEF Init, Irqs, Interrupt
<1>4. event_deadline = [ev \in Ev |->
         CASE ev \in {"VBLANK", "RENDER"} -> Line144
           [] ev = "WRAP" -> Frame
           [] OTHER -> EvNone]
  BY DEF Init
<1>5. /\ event_deadline \in [Ev -> Nat]
      /\ event_deadline["WRAP"] = Frame
      /\ event_deadline["STAT"] = EvNone
      /\ event_deadline["SERIAL"] = EvNone
      /\ event_deadline["TIMA"] = EvNone
      /\ event_deadline["VBLANK"] = Line144 /\ event_deadline["RENDER"] = Line144
  <2>1. \A ev \in Ev : event_deadline[ev] \in Nat
    BY <1>4, FrameFacts DEF Ev
  <2> QED BY <1>4, <2>1 DEF Ev
<1>6. Deadlines
  BY <1>5 DEF Init, Deadlines, FrameDeadline
<1>7. Tima
  BY <1>1, <1>5, TimerAssumption DEF Init, Tima, Elapsed
<1>8. Screen
  BY DEF Init, Screen
<1> QED BY <1>2, <1>3, <1>6, <1>7, <1>8 DEF Base

-----------------------------------------------------------------------------
(* The budget of a dispatch. *)

LEMMA EarliestFacts ==
  ASSUME NEW deadline \in [Ev -> Nat], NEW evs \in SUBSET Ev, evs # {}
  PROVE  /\ Earliest(deadline, evs) \in Nat
         /\ \A ev \in evs : Earliest(deadline, evs) <= deadline[ev]
<1> DEFINE T == {deadline[ev] : ev \in evs}
<1>1. T \subseteq Nat /\ T # {}
  OBVIOUS
<1>2. \E x \in T : \A y \in T : ~ (<<y, x>> \in OpToRel(<, Nat))
  <2> HIDE DEF T
  <2> QED BY <1>1, NatLessThanWellFounded, WFMin
<1>3. PICK x \in T : \A y \in T : ~ (y < x)
  BY <1>1, <1>2 DEF OpToRel
<1>4. \A ev \in evs : x <= deadline[ev]
  <2> SUFFICES ASSUME NEW ev \in evs PROVE x <= deadline[ev]
    OBVIOUS
  <2>1. deadline[ev] \in T /\ deadline[ev] \in Nat
    OBVIOUS
  <2> HIDE DEF T
  <2> QED BY <1>1, <1>3, <2>1
<1>5. \E at \in T : \A ev \in evs : at <= deadline[ev]
  <2> HIDE DEF T
  <2> QED BY <1>3, <1>4
<1>6. Earliest(deadline, evs) = CHOOSE at \in T : \A ev \in evs : at <= deadline[ev]
  BY DEF Earliest
<1>7. Earliest(deadline, evs) \in T /\ \A ev \in evs : Earliest(deadline, evs) <= deadline[ev]
  <2> HIDE DEF T
  <2> QED BY <1>5, <1>6
<1> QED BY <1>1, <1>7

LEMMA WakingFacts ==
  ASSUME NEW e
  PROVE  Waking(e) \in SUBSET Ev /\ {"WRAP", "VBLANK"} \subseteq Waking(e)
BY DEF Waking, Ev

LEMMA DistanceFacts ==
  ASSUME NEW deadline \in [Ev -> Nat], NEW e, NEW now \in Nat,
         NEW dist, dist = dmg_cycles_to_next_event(deadline, e, now)
  PROVE  /\ dist \in Nat
         /\ \A ev \in Waking(e) : dist = 0 \/ dist <= deadline[ev] - now
<1> DEFINE best == Earliest(deadline, Waking(e))
<1>1. Waking(e) \in SUBSET Ev /\ Waking(e) # {}
  BY WakingFacts
<1>2. best \in Nat /\ \A ev \in Waking(e) : best <= deadline[ev]
  BY <1>1, EarliestFacts
<1>3. dist = IF best <= now THEN 0 ELSE best - now
  BY DEF dmg_cycles_to_next_event
<1>4. \A ev \in Waking(e) : deadline[ev] \in Nat
  BY <1>1
<1> HIDE DEF best
<1> QED BY <1>2, <1>3, <1>4

\* The dispatch does not go on past a deadline.
Bounded(ev) == wake_limit = 0 \/ wake_limit <= Speed * (event_deadline[ev] - frame_cycles)

LEMMA ScaledBound ==
  ASSUME NEW s \in {1, 2}, NEW dist \in Nat, NEW gap \in Int,
         dist = 0 \/ dist <= gap
  PROVE  s * dist \in Nat /\ (s * dist = 0 \/ s * dist <= s * gap)
OBVIOUS

LEMMA BudgetFacts ==
  ASSUME wake_limit \in Nat, event_deadline' \in [Ev -> Nat], frame_cycles' \in Nat,
         dmg_budget_update
  PROVE  /\ wake_limit' \in Nat /\ wake_limit' <= wake_limit
         /\ \A ev \in Waking(ie') : Bounded(ev)'
         /\ interrupt_enable' /\ interrupt_request_mask' \cap ie' # {} => wake_limit' = 0
<1> DEFINE dist == dmg_cycles_to_next_event(event_deadline', ie', frame_cycles')
           pending == interrupt_enable' /\ interrupt_request_mask' \cap ie' # {}
           limit == IF pending THEN 0 ELSE Speed' * dist
<1>1. wake_limit' = IF limit < wake_limit THEN limit ELSE wake_limit
  BY DEF dmg_budget_update
<1>2. dist \in Nat /\ \A ev \in Waking(ie') : dist = 0 \/ dist <= event_deadline'[ev] - frame_cycles'
  BY DistanceFacts
<1>3. Speed' \in {1, 2}
  BY DEF Speed
<1> HIDE DEF dist
<1>4. limit \in Nat
  <2>1. Speed' * dist \in Nat
    <3>1. dist \in Nat
      BY <1>2
    <3>2. \A s \in {1, 2}, n \in Nat : s * n \in Nat
      OBVIOUS
    <3> QED BY <1>3, <3>1, <3>2
  <2> HIDE DEF pending
  <2> QED BY <2>1
<1>5. ASSUME NEW ev \in Waking(ie')
      PROVE  limit = 0 \/ limit <= Speed' * (event_deadline'[ev] - frame_cycles')
  <2>1. event_deadline'[ev] - frame_cycles' \in Int
    BY WakingFacts
  <2> QED BY <1>2, <1>3, <2>1, ScaledBound
<1> HIDE DEF limit
<1>6. wake_limit' \in Nat /\ wake_limit' <= wake_limit /\ wake_limit' <= limit
  BY <1>1, <1>4
<1>7. ASSUME NEW ev \in Waking(ie')
      PROVE  Bounded(ev)'
  <2>1. Speed' * (event_deadline'[ev] - frame_cycles') \in Int
    BY <1>3, WakingFacts
  <2>2. wake_limit' = 0 \/ wake_limit' <= Speed' * (event_deadline'[ev] - frame_cycles')
    BY <1>4, <1>5, <1>6, <2>1
  <2> QED BY <2>2 DEF Bounded
<1>8. pending => wake_limit' = 0
  BY <1>6 DEF limit
<1> QED BY <1>6, <1>7, <1>8

-----------------------------------------------------------------------------
(* The beam and the STAT positions. *)

LEMMA LyFacts ==
  ASSUME NEW now \in Nat, NEW lazy \in Nat, NEW read \in Nat
  PROVE  /\ LyAt(now, lazy, read).lazy \in Nat /\ LyAt(now, lazy, read).read \in Nat
         /\ LyAt(now, lazy, read).lazy < Lines
         /\ LyAt(now, lazy, read).pos \in Nat /\ LyAt(now, lazy, read).pos < Line
<1> DEFINE current == IF now >= Frame THEN now - Frame ELSE now
           behind == current < read
           from == IF behind THEN 0 ELSE read
           lines == (current - from) \div Line
           old == IF behind THEN 0 ELSE lazy
<1>1. current \in Nat /\ from \in Nat /\ old \in Nat /\ current - from \in Nat
  BY FrameFacts
<1> HIDE DEF current, from, old
<1>2. lines \in Nat
  BY <1>1, FrameFacts, DivNat
<1>3. (current - from) % Line \in 0 .. Line - 1
      /\ current - from = (lines * Line) + ((current - from) % Line)
  BY <1>1, FrameFacts, DivMod
<1> HIDE DEF lines
<1>4. lines * Line \in Nat /\ old + lines \in Nat
  BY <1>1, <1>2, FrameFacts
<1>5. (old + lines) % Lines \in 0 .. Lines - 1
  BY <1>4, FrameFacts
<1>6. LyAt(now, lazy, read) = [lazy |-> (old + lines) % Lines,
        read |-> from + (lines * Line), pos |-> current - from - (lines * Line)]
  BY DEF LyAt, current, from, old, lines
<1>7. current - from - (lines * Line) \in Nat /\ current - from - (lines * Line) < Line
      /\ from + (lines * Line) \in Nat
  BY <1>1, <1>3, <1>4, FrameFacts
<1> QED BY <1>5, <1>6, <1>7, FrameFacts

\* A position within line l of the frame is in the frame.
LEMMA InFrame ==
  ASSUME NEW l \in Nat, NEW n \in Nat, l <= n - 1, NEW offset \in Nat, offset < Line
  PROVE  (l * Line) + offset < n * Line /\ l * Line \in Nat
<1>1. (l + 1) * Line <= n * Line
  BY FrameFacts, ProductMonotone
<1>2. (l + 1) * Line = (l * Line) + Line /\ l * Line \in Nat /\ n * Line \in Nat
  BY FrameFacts
<1> QED BY <1>1, <1>2, FrameFacts

Offset(source) == IF source = "HBLANK" THEN Hblank ELSE 0
LastLine(source) == IF source \in {"HBLANK", "MODE2"} THEN Visible - 1 ELSE Lines - 1

LEMMA SourceFacts ==
  ASSUME NEW source \in Source, NEW from \in Nat, NEW from_line \in Nat, NEW line \in Nat,
         NEW found, found = SourceAt(source, from, from_line, line)
  PROVE  /\ found.line \in Nat /\ found.at \in Nat
         /\ \/ found.at = EvNone
            \/ /\ found.at = (found.line * Line) + Offset(source)
               /\ found.line <= LastLine(source) /\ found.at >= from
               /\ found.at < Frame
<1> DEFINE l == CASE source = "VBLANK" -> Visible
                  [] source = "MATCH" -> line
                  [] OTHER -> IF (from_line * Line) + Offset(source) < from
                              THEN from_line + 1 ELSE from_line
           at == (l * Line) + Offset(source)
<1>1. l \in Nat
  BY FrameFacts DEF Source
<1>2. Offset(source) \in Nat /\ Offset(source) < Line
  BY RasterAssumption, FrameFacts DEF Offset
<1>3. LastLine(source) \in Int /\ LastLine(source) <= Lines - 1
  BY RasterAssumption, FrameFacts DEF LastLine
<1>4. found = [at |-> IF l <= LastLine(source) /\ at >= from THEN at ELSE EvNone, line |-> l]
  BY DEF SourceAt, Offset, LastLine
<1> HIDE DEF l
<1>5. l * Line \in Nat
  BY <1>1, FrameFacts
<1>6. l <= LastLine(source) => at < Frame
  BY <1>1, <1>2, <1>3, FrameFacts, InFrame DEF Frame
<1>7. found.line = l /\ found.at = IF l <= LastLine(source) /\ at >= from THEN at ELSE EvNone
  BY <1>4
<1>8. at \in Nat
  BY <1>2, <1>5
<1> HIDE DEF at
<1>9. found.line \in Nat /\ found.at \in Nat
  BY <1>1, <1>7, <1>8, FrameFacts
<1>10. CASE l <= LastLine(source) /\ at >= from
  BY <1>6, <1>7, <1>9, <1>10 DEF at
<1>11. CASE ~(l <= LastLine(source) /\ at >= from)
  BY <1>7, <1>9, <1>11
<1> QED BY <1>10, <1>11

LEMMA StatFromFacts ==
  ASSUME NEW from \in Nat, NEW from_line \in Nat, NEW on \in BOOLEAN,
         NEW sources \in SUBSET Source, NEW line \in Nat,
         NEW next \in stat_event_from(from, from_line, on, sources, line)
  PROVE  /\ next.line \in Nat /\ next.at \in Nat
         /\ next.at = EvNone \/ (next.at < Frame /\ next.at >= from)
<1>1. CASE ~on
  <2>1. next \in [at : {EvNone}, line : Garbage]
    BY <1>1 DEF stat_event_from
  <2>2. Garbage \subseteq Nat
    BY WriteAssumption
  <2> QED BY <2>1, <2>2, FrameFacts
<1>2. CASE on
  <2> DEFINE found == {f \in {SourceAt(s, from, from_line, line) : s \in sources} : f.at # EvNone}
  <2>1. next \in IF found = {} THEN {[at |-> EvNone, line |-> 0]}
                 ELSE {f \in found : \A g \in found : f.at <= g.at}
    BY <1>2 DEF stat_event_from
  <2>2. CASE found = {}
    BY <2>1, <2>2, FrameFacts
  <2>3. CASE found # {}
    <3>1. PICK s \in sources : next = SourceAt(s, from, from_line, line)
      BY <2>1, <2>3
    <3> QED BY <3>1, SourceFacts
  <2> QED BY <2>2, <2>3
<1> QED BY <1>1, <1>2

-----------------------------------------------------------------------------
(* Each action keeps the types. *)

ClockVars == <<phase, d2, wake_limit, double_speed, frame_cycles>>
TimaVars == <<timer, event_deadline["TIMA"], phase, d2, double_speed, frame_cycles>>
DeadlineVars == <<event_deadline, lcdc_on, sent_vblank_start, rendered_this_frame>>
ScreenVars == <<lcd, frame, ly>>

LEMMA ClocksKept == Clocks /\ UNCHANGED ClockVars => Clocks'
BY DEF Clocks, ClockVars

LEMMA IrqsKept == Irqs /\ UNCHANGED irq => Irqs'
BY DEF Irqs, irq

LEMMA TimaKept == Tima /\ UNCHANGED TimaVars => Tima'
BY DEF Tima, TimaVars, timer, Agrees, Speed, Elapsed

LEMMA DeadlinesKept == Deadlines /\ UNCHANGED DeadlineVars => Deadlines'
BY DEF Deadlines, DeadlineVars, FrameDeadline

LEMMA ScreenKept == Screen /\ UNCHANGED ScreenVars => Screen'
BY DEF Screen, ScreenVars, lcd, frame, ly

LEMMA StutterBase == Base /\ UNCHANGED vars => Base'
<1> SUFFICES ASSUME Base, UNCHANGED vars PROVE Base'
  OBVIOUS
<1> USE DEF vars, cpu, irq, timer, lcd, frame, ly
<1>1. UNCHANGED ClockVars /\ UNCHANGED irq /\ UNCHANGED TimaVars
      /\ UNCHANGED DeadlineVars /\ UNCHANGED ScreenVars
  BY DEF ClockVars, TimaVars, DeadlineVars, ScreenVars
<1> QED BY <1>1, ClocksKept, IrqsKept, TimaKept, DeadlinesKept, ScreenKept DEF Base

LEMMA ReadLyBase == Base /\ ReadLy => Base'
<1> SUFFICES ASSUME Base, ReadLy PROVE Base'
  OBVIOUS
<1>1. UNCHANGED ClockVars /\ UNCHANGED irq /\ UNCHANGED TimaVars
      /\ UNCHANGED DeadlineVars /\ UNCHANGED <<lcd, frame>>
  BY DEF ReadLy, cpu, timer, lcd, frame, ClockVars, TimaVars, DeadlineVars
<1>2. dmg_now_ppu \in Nat
  BY NowFacts DEF Base
<1>3. lazy_ly \in Nat /\ ly_read_cycle \in Nat
  BY DEF Base, Screen
<1>4. lazy_ly' \in Nat /\ ly_read_cycle' \in Nat
  BY <1>2, <1>3, LyFacts DEF ReadLy, dmg_current_ly
<1>5. Screen'
  BY <1>1, <1>4 DEF Base, Screen, lcd, frame
<1> QED BY <1>1, <1>5, ClocksKept, IrqsKept, TimaKept, DeadlinesKept DEF Base

LEMMA RunBase ==
  ASSUME Base, NEW cycles \in Blocks, Run(cycles)
  PROVE  Base'
<1>1. cycles \in Nat /\ Even(cycles)
  BY CycleAssumption, EvenOfRemainder
<1>2. d2 \in Nat /\ Even(d2) /\ d2' = d2 + cycles /\ d2' \in 0 .. MaxDispatch
  BY <1>1, FrameFacts DEF Base, Clocks, Run
<1>3. Even(d2')
  BY <1>1, <1>2, EvenSum
<1>4. /\ UNCHANGED <<phase, wake_limit, double_speed, frame_cycles, event_deadline>>
      /\ UNCHANGED irq /\ UNCHANGED timer /\ UNCHANGED ScreenVars
      /\ UNCHANGED DeadlineVars
  BY DEF Run, ScreenVars, DeadlineVars, lcd, frame
<1>5. Clocks'
  BY <1>2, <1>3, <1>4 DEF Base, Clocks
<1>6. Tima'
  <2>1. Tima /\ UNCHANGED <<timer_count, timer_mod, timer_control, tima_elapsed>>
    BY <1>4 DEF Base, timer
  <2>2. Elapsed' \in Int /\ Elapsed' >= 0
    BY <1>1, <1>2, <1>4, <2>1 DEF Tima, Elapsed
  <2>3. Agrees' <=> Agrees
    BY <1>4, <2>1 DEF Agrees, Speed
  <2> QED BY <1>4, <2>1, <2>2, <2>3 DEF Tima
<1> QED BY <1>4, <1>5, <1>6, IrqsKept, DeadlinesKept, ScreenKept DEF Base

LEMMA RegistersBase ==
  ASSUME Base, NEW ime \in BOOLEAN, NEW enable \in SUBSET Interrupt,
         NEW request \in SUBSET Interrupt, Registers(ime, enable, request),
         dmg_budget_update \/ UNCHANGED wake_limit
  PROVE  Base'
<1>1. /\ UNCHANGED <<phase, d2, double_speed, frame_cycles, event_deadline>>
      /\ UNCHANGED TimaVars /\ UNCHANGED DeadlineVars /\ UNCHANGED ScreenVars
  BY DEF Registers, TimaVars, DeadlineVars, ScreenVars, lcd, frame
<1>2. Irqs'
  BY DEF Registers, Irqs
<1>3. wake_limit' \in Nat
  BY <1>1, BudgetFacts DEF Base, Clocks, Deadlines
<1>4. Clocks'
  BY <1>1, <1>3 DEF Base, Clocks
<1> QED BY <1>1, <1>2, <1>4, TimaKept, DeadlinesKept, ScreenKept DEF Base

LEMMA WriteScBase ==
  ASSUME Base, NEW start \in BOOLEAN, WriteSc(start)
  PROVE  Base'
<1> DEFINE at == IF start THEN dmg_now_ppu + (SerialTime \div Speed) ELSE EvNone
<1>1. /\ UNCHANGED <<phase, d2, double_speed, frame_cycles>>
      /\ UNCHANGED irq /\ UNCHANGED timer /\ UNCHANGED ScreenVars
      /\ UNCHANGED <<lcdc_on, sent_vblank_start, rendered_this_frame>>
      /\ event_deadline' = [event_deadline EXCEPT !["SERIAL"] = at]
      /\ dmg_budget_update
  BY DEF WriteSc, ScreenVars, lcd, frame
<1>2. dmg_now_ppu \in Nat /\ dmg_now_ppu <= Frame + MaxDispatch /\ Speed \in {1, 2}
  BY NowFacts, FrameFacts DEF Base, Clocks, WriteSc
<1>3. SerialTime \div Speed \in Nat /\ SerialTime \div Speed <= SerialTime
  BY <1>2, FrameFacts
<1>4. at \in Nat /\ (at = EvNone \/ at <= Frame + MaxDispatch + SerialTime)
  BY <1>2, <1>3, FrameFacts
<1> HIDE DEF at
<1>5. event_deadline \in [Ev -> Nat]
  BY DEF Base, Deadlines
<1>6. event_deadline' \in [Ev -> Nat] /\ event_deadline'["SERIAL"] = at
      /\ \A ev \in Ev \ {"SERIAL"} : event_deadline'[ev] = event_deadline[ev]
  BY <1>1, <1>4, <1>5 DEF Ev
<1>7. Deadlines'
  BY <1>1, <1>4, <1>6 DEF Base, Deadlines, Ev, FrameDeadline
<1>8. wake_limit' \in Nat
  BY <1>1, <1>6, BudgetFacts DEF Base, Clocks
<1>9. Clocks'
  BY <1>1, <1>8 DEF Base, Clocks
<1>10. UNCHANGED TimaVars
  BY <1>1, <1>6 DEF TimaVars, Ev
<1> QED BY <1>1, <1>7, <1>9, <1>10, IrqsKept, TimaKept, ScreenKept DEF Base

LEMMA WriteLcdBase ==
  ASSUME Base, NEW on \in BOOLEAN, NEW sources \in SUBSET Source, NEW line \in Nat,
         NEW both \in BOOLEAN, both \/ on = lcdc_on, WriteLcd(on, sources, line, both)
  PROVE  Base'
<1> DEFINE restart == on /\ ~lcdc_on /\ frame_cycles # 0
           partial == IF restart THEN frame_cycles ELSE 0
           now == dmg_now_ppu - partial
           l == IF restart THEN LyAt(now, 0, 0) ELSE dmg_current_ly
           stats == IF now >= Frame THEN {[at |-> EvNone, line |-> stat_event_line]}
                    ELSE stat_event_from((l.lazy * Line) + l.pos, l.lazy, on, sources, line)
<1>1. /\ phase = "run" /\ UNCHANGED <<phase, d2, double_speed, interrupt_enable, ie>>
      /\ UNCHANGED timer /\ dmg_budget_update
      /\ lcdc_on' = on /\ stat' = sources /\ lyc' = line
      /\ frame_cycles' = frame_cycles - partial
      /\ sent_vblank_start' = (sent_vblank_start /\ ~restart)
      /\ rendered_this_frame' = (rendered_this_frame /\ ~restart)
      /\ lazy_ly' = l.lazy /\ ly_read_cycle' = l.read
      /\ interrupt_request_mask' = interrupt_request_mask
           \cup IF now >= event_deadline["STAT"] THEN {"STAT"} ELSE {}
  BY DEF WriteLcd
<1>2. PICK next \in stats :
        /\ stat_event_line' = next.line
        /\ event_deadline' = [event_deadline EXCEPT
             !["STAT"] = next.at,
             !["TIMA"] = Earlier(@, partial),
             !["SERIAL"] = Earlier(@, partial),
             !["VBLANK"] = IF both THEN FrameDeadline(on, sent_vblank_start') ELSE @,
             !["RENDER"] = IF both THEN FrameDeadline(on, rendered_this_frame') ELSE @]
  BY DEF WriteLcd
<1>3. /\ Clocks /\ Irqs /\ Tima /\ Deadlines /\ Screen
  BY DEF Base
<1>4. /\ partial \in Nat /\ partial <= frame_cycles /\ frame_cycles \in Nat
      /\ dmg_now_ppu \in Nat /\ dmg_now_ppu >= frame_cycles /\ now \in Nat
      /\ restart \in BOOLEAN
  BY <1>1, <1>3, NowFacts DEF Clocks, Screen
<1>5. restart => partial = frame_cycles
  OBVIOUS
<1>6. ~restart => partial = 0
  OBVIOUS
<1>7. both \/ ~restart
  BY <1>1
<1> HIDE DEF now, partial
<1>8. l.lazy \in Nat /\ l.read \in Nat /\ l.pos \in Nat
  BY <1>3, <1>4, LyFacts DEF dmg_current_ly, Screen
<1> HIDE DEF l, restart
<1>9. next.line \in Nat /\ next.at \in Nat /\ (next.at = EvNone \/ next.at < Frame)
  <2>1. CASE now >= Frame
    BY <1>2, <1>3, <2>1, FrameFacts DEF Screen
  <2>2. CASE ~(now >= Frame)
    <3>1. (l.lazy * Line) + l.pos \in Nat
      BY <1>8, FrameFacts
    <3>2. next \in stat_event_from((l.lazy * Line) + l.pos, l.lazy, on, sources, line)
      BY <1>2, <2>2
    <3> QED BY <1>8, <3>1, <3>2, StatFromFacts
  <2> QED BY <2>1, <2>2
<1> HIDE DEF stats
<1>10. Screen'
  BY <1>1, <1>2, <1>3, <1>4, <1>8, <1>9 DEF Screen
<1>11. Irqs'
  BY <1>1, <1>3 DEF Irqs, Interrupt
<1>12. event_deadline \in [Ev -> Nat]
  BY <1>3 DEF Deadlines
<1>13. \A at \in Nat : Earlier(at, partial) \in Nat /\ Earlier(at, partial) <= at
  BY <1>4, FrameFacts DEF Earlier
<1>14. \A b \in BOOLEAN : FrameDeadline(on, b) \in Nat
  BY FrameFacts DEF FrameDeadline
<1>15. /\ event_deadline' \in [Ev -> Nat]
       /\ event_deadline'["STAT"] = next.at
       /\ event_deadline'["TIMA"] = Earlier(event_deadline["TIMA"], partial)
       /\ event_deadline'["SERIAL"] = Earlier(event_deadline["SERIAL"], partial)
       /\ event_deadline'["WRAP"] = event_deadline["WRAP"]
       /\ event_deadline'["VBLANK"] = IF both THEN FrameDeadline(on, sent_vblank_start')
                                      ELSE event_deadline["VBLANK"]
       /\ event_deadline'["RENDER"] = IF both THEN FrameDeadline(on, rendered_this_frame')
                                      ELSE event_deadline["RENDER"]
  <2> DEFINE f == [ev \in Ev |->
         CASE ev = "STAT" -> next.at
           [] ev = "TIMA" -> Earlier(event_deadline["TIMA"], partial)
           [] ev = "SERIAL" -> Earlier(event_deadline["SERIAL"], partial)
           [] ev = "WRAP" -> event_deadline["WRAP"]
           [] ev = "VBLANK" -> IF both THEN FrameDeadline(on, sent_vblank_start')
                               ELSE event_deadline["VBLANK"]
           [] ev = "RENDER" -> IF both THEN FrameDeadline(on, rendered_this_frame')
                               ELSE event_deadline["RENDER"]]
  <2>1. event_deadline' = f
    BY <1>2, <1>12 DEF Ev
  <2>2. \A ev \in Ev : event_deadline[ev] \in Nat
    BY <1>12
  <2>3. sent_vblank_start' \in BOOLEAN /\ rendered_this_frame' \in BOOLEAN
    BY <1>10 DEF Screen
  <2>4. \A ev \in Ev : f[ev] \in Nat
    BY <1>9, <1>13, <1>14, <2>2, <2>3 DEF Ev
  <2> QED BY <2>1, <2>4 DEF Ev
<1>16. Deadlines'
  <2>1. event_deadline'["WRAP"] = Frame
        /\ (event_deadline'["STAT"] = EvNone \/ event_deadline'["STAT"] < Frame)
    BY <1>3, <1>9, <1>15 DEF Deadlines
  <2>2. event_deadline'["SERIAL"] = EvNone
        \/ event_deadline'["SERIAL"] <= Frame + MaxDispatch + SerialTime
    <3>1. event_deadline["SERIAL"] \in Nat /\ event_deadline'["SERIAL"] \in Nat
      BY <1>12, <1>15 DEF Ev
    <3>2. event_deadline'["SERIAL"] <= event_deadline["SERIAL"]
      BY <1>13, <1>15, <3>1
    <3>3. CASE event_deadline["SERIAL"] = EvNone
      BY <1>15, <3>3 DEF Earlier
    <3>4. CASE event_deadline["SERIAL"] <= Frame + MaxDispatch + SerialTime
      BY <3>1, <3>2, <3>4, FrameFacts
    <3> QED BY <1>3, <3>3, <3>4 DEF Deadlines
  <2>3. event_deadline'["VBLANK"] = FrameDeadline(lcdc_on, sent_vblank_start)'
    <3>1. CASE both
      BY <1>1, <1>15, <3>1 DEF FrameDeadline
    <3>2. CASE ~both
      BY <1>1, <1>3, <1>7, <1>15, <3>2 DEF Deadlines, FrameDeadline, Screen
    <3> QED BY <3>1, <3>2
  <2>4. event_deadline'["RENDER"] = FrameDeadline(lcdc_on, rendered_this_frame)'
    <3>1. CASE both
      BY <1>1, <1>15, <3>1 DEF FrameDeadline
    <3>2. CASE ~both
      BY <1>1, <1>3, <1>7, <1>15, <3>2 DEF Deadlines, FrameDeadline, Screen
    <3> QED BY <3>1, <3>2
  <2> QED BY <1>15, <2>1, <2>2, <2>3, <2>4 DEF Deadlines
<1>17. frame_cycles' \in Nat /\ frame_cycles' = frame_cycles - partial
  BY <1>1, <1>4
<1>18. wake_limit' \in Nat
  BY <1>1, <1>3, <1>15, <1>17, BudgetFacts DEF Clocks
<1>19. Clocks'
  BY <1>1, <1>3, <1>4, <1>17, <1>18, FrameFacts DEF Clocks
<1>20. Tima'
  <2>1. UNCHANGED <<timer_count, timer_mod, timer_control, tima_elapsed, phase, d2, double_speed>>
    BY <1>1 DEF timer
  <2>2. Elapsed' = Elapsed
    BY <2>1 DEF Elapsed
  <2>3. CASE ~timer_control.on
    <3>1. event_deadline["TIMA"] = EvNone
      BY <1>3, <2>3 DEF Tima
    <3>2. event_deadline'["TIMA"] = EvNone
      BY <1>15, <3>1 DEF Earlier
    <3> QED BY <1>3, <2>1, <2>2, <2>3, <3>2 DEF Tima
  <2>4. CASE timer_control.on
    <3>1. /\ event_deadline["TIMA"] \in Nat /\ Agrees
          /\ event_deadline["TIMA"] <= Frame + MaxDispatch + (TimerMax * timer_control.div)
          /\ event_deadline["TIMA"] > frame_cycles
          /\ timer_control \in Control
      BY <1>1, <1>3, <1>12, <2>4 DEF Tima, Ev
    <3>2. event_deadline["TIMA"] # EvNone
      BY <3>1, DivisorFacts, FrameFacts
    <3>3. event_deadline'["TIMA"] = event_deadline["TIMA"] - partial
      BY <1>4, <1>15, <3>1, <3>2 DEF Earlier
    <3>4. event_deadline'["TIMA"] - frame_cycles' = event_deadline["TIMA"] - frame_cycles
      BY <1>4, <1>17, <3>1, <3>3
    <3>5. Agrees'
      BY <2>1, <3>1, <3>4 DEF Agrees, Speed
    <3>6. event_deadline'["TIMA"] > frame_cycles' /\ event_deadline'["TIMA"] <= event_deadline["TIMA"]
      BY <1>4, <1>17, <3>1, <3>3
    <3>7. event_deadline'["TIMA"] <= Frame + MaxDispatch + (TimerMax * timer_control.div)
      BY <3>1, <3>3, <3>6, <1>4, DivisorFacts, FrameFacts
    <3> QED BY <1>3, <2>1, <2>2, <2>4, <3>5, <3>6, <3>7 DEF Tima
  <2> QED BY <2>3, <2>4
<1> QED BY <1>10, <1>11, <1>16, <1>19, <1>20 DEF Base

\* A read of TIMA is a count below the overflow.
LEMMA CountFacts ==
  ASSUME Tima, NEW elapsed \in Nat
  PROVE  Counted(elapsed) \in 0 .. TimerMax - 1
<1>1. /\ timer_count \in Nat /\ timer_count < TimerMax
      /\ timer_mod \in Nat /\ timer_mod < TimerMax /\ TimerMax \in Nat \ {0}
      /\ timer_control.div \in Nat \ {0} /\ timer_count \in 0 .. TimerMax - 1
  BY DivisorFacts, TimerAssumption DEF Tima
<1> DEFINE n == elapsed \div timer_control.div
           c == timer_count + n
<1>2. n \in Nat
  BY <1>1, DivNat
<1> HIDE DEF n
<1>3. c \in Nat
  BY <1>1, <1>2
<1>4. Counted(elapsed) = IF ~timer_control.on THEN timer_count
        ELSE IF c < TimerMax THEN c ELSE timer_mod + ((c - TimerMax) % (TimerMax - timer_mod))
  BY DEF Counted, n
<1> HIDE DEF c
<1>5. CASE c < TimerMax
  BY <1>1, <1>3, <1>4, <1>5
<1>6. CASE ~(c < TimerMax)
  <2>1. TimerMax - timer_mod \in Nat \ {0} /\ c - TimerMax \in Int
    BY <1>1, <1>3, <1>6
  <2>2. (c - TimerMax) % (TimerMax - timer_mod) \in 0 .. (TimerMax - timer_mod) - 1
    BY <2>1, DivMod
  <2>3. timer_mod + ((c - TimerMax) % (TimerMax - timer_mod)) \in 0 .. TimerMax - 1
    BY <1>1, <2>2
  <2> QED BY <1>1, <1>4, <1>6, <2>3
<1> QED BY <1>5, <1>6

\* The time from a count to the overflow.
LEMMA SpanFacts ==
  ASSUME NEW count \in 0 .. TimerMax - 1, NEW c \in Control
  PROVE  /\ (TimerMax - count) * c.div \in Nat /\ Even((TimerMax - count) * c.div)
         /\ (TimerMax - count) * c.div >= c.div
         /\ (TimerMax - count) * c.div <= TimerMax * c.div
<1>1. c.div \in Nat \ {0} /\ Even(c.div) /\ TimerMax \in Nat \ {0}
  BY DivisorFacts
<1> DEFINE n == TimerMax - count
<1>2. n \in Nat /\ 1 <= n /\ n <= TimerMax
  BY <1>1
<1> HIDE DEF n
<1>3. 1 * c.div <= n * c.div /\ n * c.div <= TimerMax * c.div
  BY <1>1, <1>2, ProductMonotone
<1>4. n * c.div \in Nat /\ 1 * c.div = c.div
  BY <1>1, <1>2
<1>5. Even(n * c.div)
  <2>1. n \in Int /\ c.div \in Int /\ Even(c.div)
    BY <1>1, <1>2
  <2> QED BY Zenon, <2>1, EvenProduct
<1> QED BY <1>3, <1>4, <1>5 DEF n

\* CPU cycles in PPU cycles, at either speed.
LEMMA SpeedDivision ==
  ASSUME NEW s \in {1, 2}, NEW x \in Int, Even(x)
  PROVE  /\ x \div s \in Int /\ s * (x \div s) = x
         /\ x > 0 => x \div s > 0 /\ x \div s <= x
         /\ x >= 0 => x \div s >= 0 /\ x \div s <= x
<1>1. x \div 2 \in Int /\ 2 * (x \div 2) = x /\ x \div 1 = x
  BY EvenHalf
<1>2. CASE s = 1
  BY <1>1, <1>2
<1>3. CASE s = 2
  BY <1>1, <1>3
<1> QED BY <1>2, <1>3

LEMMA TimerWriteBase ==
  ASSUME Base, NEW keep \in BOOLEAN, NEW count \in 0 .. TimerMax - 1, NEW control \in Control,
         keep => control = timer_control,
         double_speed' \in BOOLEAN, TimerWrite(keep, count, control)
  PROVE  Base'
<1> DEFINE kept == IF keep THEN (tima_elapsed + d2) % timer_control.div ELSE 0
           dist == (TimerMax - timer_count') * timer_control'.div - (tima_elapsed' + d2')
<1>1. /\ phase = "run" /\ UNCHANGED <<phase, d2, frame_cycles, interrupt_enable, ie, timer_mod>>
      /\ UNCHANGED ScreenVars
      /\ UNCHANGED <<lcdc_on, sent_vblank_start, rendered_this_frame>>
      /\ timer_count' = count /\ timer_control' = control
      /\ interrupt_request_mask' \in {interrupt_request_mask, interrupt_request_mask \cup {"TIMER"}}
      /\ tima_elapsed' = IF ~control.on THEN 0
                         ELSE IF timer_control.on THEN kept - d2 ELSE 0 - d2
      /\ event_deadline' = [event_deadline EXCEPT !["TIMA"] =
           IF control.on THEN dmg_now_ppu' + (dist \div Speed') ELSE EvNone]
      /\ dmg_budget_update \/ UNCHANGED wake_limit
  BY DEF TimerWrite, dmg_tima_touch, dmg_tima_recompute, ScreenVars, lcd, frame
<1>2. /\ Clocks /\ Irqs /\ Tima /\ Deadlines /\ Screen
  BY DEF Base
<1>3. Speed' \in {1, 2} /\ d2' = d2 /\ d2 \in Nat /\ Even(d2) /\ frame_cycles \in Nat
      /\ d2 <= MaxDispatch /\ MaxDispatch \in Nat
      /\ frame_cycles' = frame_cycles /\ frame_cycles < Frame
  BY <1>1, <1>2, FrameFacts DEF Clocks, Speed
<1>4. dmg_now_ppu' = frame_cycles + (d2 \div Speed')
      /\ d2 \div Speed' \in Int /\ d2 \div Speed' >= 0 /\ Speed' * (d2 \div Speed') = d2
      /\ d2 \div Speed' <= d2
  <2>1. dmg_now_ppu' = frame_cycles + (d2 \div Speed')
    BY <1>3 DEF dmg_now_ppu
  <2>2. d2 \div Speed' \in Int /\ Speed' * (d2 \div Speed') = d2 /\ d2 \div Speed' >= 0
        /\ d2 \div Speed' <= d2
    <3>1. d2 \in Int /\ d2 >= 0
      BY <1>3
    <3> QED BY Zenon, <1>3, <3>1, SpeedDivision
  <2> QED BY <2>1, <2>2
<1>5. /\ control.div \in Nat \ {0} /\ timer_control.div \in Nat \ {0}
      /\ Even(control.div) /\ Even(timer_control.div)
      /\ control.on \in BOOLEAN
      /\ EvNone > (2 * Frame) + MaxDispatch + (TimerMax * control.div)
      /\ TimerMax * control.div \in Nat
  BY <1>2, DivisorFacts DEF Tima
<1>6. tima_elapsed \in Int /\ Even(tima_elapsed) /\ tima_elapsed + d2 >= 0
  BY <1>1, <1>2 DEF Tima, Elapsed
<1>7. kept \in Nat /\ kept < timer_control.div /\ Even(kept)
  <2>1. tima_elapsed + d2 \in Int /\ Even(tima_elapsed + d2)
    BY <1>3, <1>6, EvenSum
  <2>2. (tima_elapsed + d2) % timer_control.div \in 0 .. timer_control.div - 1
    BY <1>5, <2>1, DivMod
  <2>3. Even((tima_elapsed + d2) % timer_control.div)
    BY <1>5, <2>1, EvenRemainder
  <2>4. 0 \in Nat /\ 0 < timer_control.div /\ Even(0)
    <3>1. 0 = 2 * 0
      OBVIOUS
    <3> QED BY <1>5, <3>1 DEF Even
  <2> QED BY <1>5, <2>2, <2>3, <2>4
<1> HIDE DEF kept
<1>8. keep \/ kept = 0
  BY DEF kept
<1> DEFINE phi == IF timer_control.on THEN kept ELSE 0
           span == (TimerMax - count) * control.div
<1>9. phi \in Nat /\ phi < control.div /\ Even(phi)
  <2>1. Even(0)
    <3>1. 0 = 2 * 0
      OBVIOUS
    <3> QED BY <3>1 DEF Even
  <2>2. kept < control.div
    <3>1. CASE keep
      BY <1>7, <3>1
    <3>2. CASE kept = 0
      BY <1>5, <3>2
    <3> QED BY <1>8, <3>1, <3>2
  <2> QED BY <1>5, <1>7, <2>1, <2>2
<1>10. tima_elapsed' = IF control.on THEN phi - d2 ELSE 0
  BY <1>1
<1> HIDE DEF phi
<1>11. span \in Nat /\ Even(span) /\ span >= control.div /\ span <= TimerMax * control.div
  BY SpanFacts
<1> HIDE DEF span
<1>12. ASSUME control.on
       PROVE  dist = span - phi /\ dist \in Nat /\ dist > 0 /\ Even(dist) /\ dist <= span
  <2>1. timer_count' = count /\ timer_control'.div = control.div
        /\ tima_elapsed' + d2' = phi
    BY <1>1, <1>3, <1>9, <1>10, <1>12
  <2>2. dist = span - phi
    BY <2>1 DEF span
  <2>3. span - phi \in Nat /\ span - phi > 0 /\ span - phi <= span
    BY <1>5, <1>9, <1>11
  <2>4. Even(span - phi)
    BY <1>9, <1>11, EvenSum
  <2> QED BY <2>2, <2>3, <2>4
<1>13. ASSUME control.on
       PROVE  /\ dist \div Speed' \in Int /\ Speed' * (dist \div Speed') = dist
              /\ dist \div Speed' > 0 /\ dist \div Speed' <= dist
  BY <1>3, <1>12, <1>13, SpeedDivision
<1> DEFINE at == IF control.on THEN dmg_now_ppu' + (dist \div Speed') ELSE EvNone
<1>14. at \in Nat
  BY <1>3, <1>4, <1>13, FrameFacts
<1>15. control.on => /\ at = frame_cycles + (d2 \div Speed') + (dist \div Speed')
                     /\ at > frame_cycles
                     /\ at <= Frame + MaxDispatch + (TimerMax * control.div)
  <2> SUFFICES ASSUME control.on
               PROVE  /\ at = frame_cycles + (d2 \div Speed') + (dist \div Speed')
                      /\ at > frame_cycles
                      /\ at <= Frame + MaxDispatch + (TimerMax * control.div)
    OBVIOUS
  <2>1. at = frame_cycles + (d2 \div Speed') + (dist \div Speed')
    BY <1>4
  <2>2. dist \in Nat /\ dist <= TimerMax * control.div
    BY <1>5, <1>11, <1>12
  <2> DEFINE x == d2 \div Speed'
             y == dist \div Speed'
             top == TimerMax * control.div
  <2>3. y \in Int /\ y > 0 /\ y <= dist /\ x \in Int /\ x >= 0 /\ x <= d2
        /\ top \in Nat /\ dist <= top /\ dist \in Nat
    BY <1>4, <1>5, <1>13, <2>2
  <2>4. at = frame_cycles + x + y
    BY <2>1
  <2> HIDE DEF dist, at, x, y, top
  <2>5. at > frame_cycles /\ at <= Frame + MaxDispatch + top
    BY <1>3, <2>3, <2>4, FrameFacts
  <2> QED BY <2>1, <2>5 DEF top
<1>16. event_deadline \in [Ev -> Nat] /\ event_deadline' = [event_deadline EXCEPT !["TIMA"] = at]
  BY <1>1, <1>2 DEF Deadlines
<1> HIDE DEF at
<1>17. event_deadline' \in [Ev -> Nat] /\ event_deadline'["TIMA"] = at
       /\ \A ev \in Ev \ {"TIMA"} : event_deadline'[ev] = event_deadline[ev]
  BY <1>14, <1>16 DEF Ev
<1>18. Deadlines'
  BY <1>1, <1>2, <1>17 DEF Deadlines, Ev, FrameDeadline
<1>19. wake_limit' \in Nat
  BY <1>1, <1>2, <1>3, <1>17, BudgetFacts DEF Clocks
<1>20. Clocks'
  BY <1>1, <1>2, <1>3, <1>19 DEF Clocks
<1>21. Irqs'
  BY <1>1, <1>2 DEF Irqs, Interrupt
<1>22. Even(tima_elapsed') /\ tima_elapsed' \in Int /\ tima_elapsed' + d2' >= 0
  <2>1. Even(phi - d2) /\ phi - d2 \in Int
    BY <1>3, <1>9, EvenSum
  <2>2. Even(0)
    <3>1. 0 = 2 * 0
      OBVIOUS
    <3> QED BY <3>1 DEF Even
  <2> QED BY <1>3, <1>9, <1>10, <2>1, <2>2
<1>23. control.on => Agrees'
  <2> SUFFICES ASSUME control.on PROVE Agrees'
    OBVIOUS
  <2>1. event_deadline'["TIMA"] - frame_cycles' = (d2 \div Speed') + (dist \div Speed')
    BY <1>3, <1>4, <1>13, <1>15, <1>17
  <2> DEFINE x == d2 \div Speed'
             y == dist \div Speed'
  <2>2. x \in Int /\ y \in Int /\ Speed' * x = d2 /\ Speed' * y = span - phi
    BY <1>4, <1>12, <1>13
  <2>3. event_deadline'["TIMA"] - frame_cycles' = x + y
    BY <2>1
  <2> HIDE DEF x, y
  <2>4. Speed' * (x + y) = (Speed' * x) + (Speed' * y)
    BY <1>3, <2>2
  <2>5. Speed' * (x + y) = d2 + (span - phi)
    BY <2>2, <2>4
  <2>7. d2 + (span - phi) = span - (phi - d2)
    BY <1>3, <1>9, <1>11
  <2>6. tima_elapsed' = phi - d2 /\ (TimerMax - timer_count') * timer_control'.div = span
    BY <1>1, <1>10 DEF span
  <2> QED BY <2>3, <2>5, <2>6, <2>7 DEF Agrees
<1>24. Tima'
  <2>1. timer_count' \in 0 .. TimerMax - 1 /\ timer_mod' \in 0 .. TimerMax - 1
        /\ timer_control' \in Control /\ timer_control' = control
    BY <1>1, <1>2 DEF Tima
  <2>2. Elapsed' = tima_elapsed' + d2'
    BY <1>1 DEF Elapsed
  <2>3. control.on => /\ event_deadline'["TIMA"] <= Frame + MaxDispatch + (TimerMax * control.div)
                      /\ event_deadline'["TIMA"] > frame_cycles'
    BY <1>3, <1>15, <1>17
  <2>4. ~control.on => event_deadline'["TIMA"] = EvNone
    BY <1>17 DEF at
  <2> QED BY <1>22, <1>23, <2>1, <2>2, <2>3, <2>4 DEF Tima
<1>25. Screen'
  BY <1>1, <1>2, ScreenKept
<1> QED BY <1>18, <1>20, <1>21, <1>24, <1>25 DEF Base

LEMMA WriteTmaBase ==
  ASSUME Base, NEW data \in TmaWrites, WriteTma(data)
  PROVE  Base'
<1>1. /\ UNCHANGED <<cpu, frame_cycles, event_deadline, irq, timer_count, timer_control,
                     tima_elapsed, lcd, frame, ly>>
      /\ timer_mod' = data /\ data \in 0 .. TimerMax - 1
  BY WriteAssumption DEF WriteTma
<1>2. UNCHANGED ClockVars /\ UNCHANGED irq /\ UNCHANGED DeadlineVars /\ UNCHANGED ScreenVars
  BY <1>1 DEF cpu, lcd, frame, ClockVars, DeadlineVars, ScreenVars
<1>3. Tima'
  BY <1>1 DEF Base, Tima, Agrees, Speed, Elapsed, cpu
<1> QED BY <1>2, <1>3, ClocksKept, IrqsKept, DeadlinesKept, ScreenKept DEF Base

\* What a program may read from TIMA in the middle of a dispatch.
LEMMA ReadFacts ==
  ASSUME Base, phase = "run"
  PROVE  dmg_tima_read \in 0 .. TimerMax - 1 /\ timer_control \in Control
<1>1. tima_elapsed + d2 \in Nat
  BY FrameFacts DEF Base, Clocks, Tima, Elapsed
<1> QED BY <1>1, CountFacts DEF Base, dmg_tima_read, Tima

LEMMA WriteRegisterBase == Base /\ WriteRegister => Base'
<1> SUFFICES ASSUME Base, WriteRegister PROVE Base'
  OBVIOUS
<1>1. double_speed \in BOOLEAN /\ lcdc_on \in BOOLEAN /\ lyc \in Nat /\ stat \in SUBSET Source
      /\ interrupt_enable \in BOOLEAN
      /\ ie \in SUBSET Interrupt /\ interrupt_request_mask \in SUBSET Interrupt
  BY DEF Base, Clocks, Screen, Irqs
<1>2. CASE \E data \in TimaWrites : WriteTima(data)
  <2>1. PICK data \in TimaWrites : WriteTima(data)
    BY <1>2
  <2>2. UNCHANGED double_speed /\ TimerWrite(TRUE, data, timer_control) /\ phase = "run"
    BY <2>1 DEF WriteTima, TimerWrite
  <2> QED BY <1>1, <2>2, ReadFacts, WriteAssumption, TimerWriteBase
<1>3. CASE \E data \in TmaWrites : WriteTma(data)
  BY <1>3, WriteTmaBase
<1>4. CASE \E control \in TacWrites : WriteTac(control)
  <2>1. PICK control \in TacWrites : WriteTac(control)
    BY <1>4
  <2>2. UNCHANGED double_speed /\ TimerWrite(FALSE, dmg_tima_read, control) /\ phase = "run"
    BY <2>1 DEF WriteTac, TimerWrite
  <2> QED BY <1>1, <2>2, ReadFacts, WriteAssumption, TimerWriteBase
<1>5. CASE WriteDiv
  <2>1. UNCHANGED double_speed /\ TimerWrite(FALSE, dmg_tima_read, timer_control) /\ phase = "run"
    BY <1>5 DEF WriteDiv, TimerWrite
  <2> QED BY <1>1, <2>1, ReadFacts, TimerWriteBase
<1>6. CASE \E start \in ScWrites : WriteSc(start)
  BY <1>6, WriteScBase, WriteAssumption
<1>7. CASE \E data \in IfWrites : WriteIf(data)
  BY <1>1, <1>7, RegistersBase, WriteAssumption DEF WriteIf
<1>8. CASE \E data \in IeWrites : WriteIe(data)
  BY <1>1, <1>8, RegistersBase, WriteAssumption DEF WriteIe
<1>9. CASE \E on \in LcdcWrites : WriteLcdc(on)
  <2>1. PICK on \in BOOLEAN : WriteLcd(on, stat, lyc, TRUE)
    BY <1>9, WriteAssumption DEF WriteLcdc
  <2> QED BY <1>1, <2>1, WriteLcdBase
<1>10. CASE \E sources \in StatWrites : WriteStat(sources)
  <2>1. PICK sources \in SUBSET Source : WriteLcd(lcdc_on, sources, lyc, FALSE)
    BY <1>10, WriteAssumption DEF WriteStat
  <2> QED BY <1>1, <2>1, WriteLcdBase
<1>11. CASE \E line \in LycWrites : WriteLyc(line)
  <2>1. PICK line \in Nat : WriteLcd(lcdc_on, stat, line, FALSE)
    BY <1>11, WriteAssumption DEF WriteLyc
  <2> QED BY <1>1, <2>1, WriteLcdBase
<1> QED BY <1>2, <1>3, <1>4, <1>5, <1>6, <1>7, <1>8, <1>9, <1>10, <1>11 DEF WriteRegister

LEMMA StopBase ==
  ASSUME Base, NEW double \in SpeedSwitches, jit_handle_stop(double)
  PROVE  Base'
<1>1. double_speed' = double /\ TimerWrite(TRUE, dmg_tima_read, timer_control) /\ phase = "run"
  BY DEF jit_handle_stop, TimerWrite
<1>2. double_speed' \in BOOLEAN
  BY <1>1, WriteAssumption
<1> QED BY <1>1, <1>2, ReadFacts, TimerWriteBase

LEMMA SyncBase == Base /\ dmg_sync_hw => Base'
<1> SUFFICES ASSUME Base, dmg_sync_hw PROVE Base'
  OBVIOUS
<1>1. /\ phase = "run" /\ phase' = "sync"
      /\ tima_elapsed' = IF timer_control.on THEN tima_elapsed + d2 ELSE 0
      /\ frame_cycles' = dmg_now_ppu
      /\ UNCHANGED <<d2, wake_limit, double_speed, event_deadline, timer_count, timer_mod,
                     timer_control>>
      /\ UNCHANGED irq /\ UNCHANGED ScreenVars /\ UNCHANGED DeadlineVars
  BY DEF dmg_sync_hw, ScreenVars, DeadlineVars, lcd, frame
<1>2. Clocks /\ Tima /\ event_deadline \in [Ev -> Nat]
  BY DEF Base, Deadlines
<1>3. /\ Speed \in {1, 2} /\ d2 \div Speed \in Nat /\ Speed * (d2 \div Speed) = d2
      /\ d2 \div Speed <= d2 /\ frame_cycles' = frame_cycles + (d2 \div Speed)
  BY <1>1, <1>2, NowFacts
<1>4. Clocks'
  BY <1>1, <1>2, <1>3, FrameFacts DEF Clocks
<1>5. d2 \in Nat /\ Even(d2) /\ tima_elapsed \in Int /\ Even(tima_elapsed)
      /\ tima_elapsed + d2 >= 0
  BY <1>1, <1>2, FrameFacts DEF Clocks, Tima, Elapsed
<1>6. tima_elapsed' \in Int /\ Even(tima_elapsed') /\ Elapsed' >= 0
  <2>1. Even(tima_elapsed + d2)
    BY <1>5, EvenSum
  <2>2. Even(0)
    <3>1. 0 = 2 * 0
      OBVIOUS
    <3> QED BY <3>1 DEF Even
  <2>3. Elapsed' = tima_elapsed'
    BY <1>1, <1>5 DEF Elapsed
  <2> QED BY <1>1, <1>5, <2>1, <2>2, <2>3
<1>7. timer_control.on => Agrees'
  <2> SUFFICES ASSUME timer_control.on PROVE Agrees'
    OBVIOUS
  <2> DEFINE dl == event_deadline["TIMA"]
             span == (TimerMax - timer_count) * timer_control.div
             x == d2 \div Speed
  <2>1. Speed * (dl - frame_cycles) = span - tima_elapsed
    BY <1>2 DEF Tima, Agrees
  <2>2. dl \in Nat /\ frame_cycles \in Nat /\ span \in Int /\ x \in Nat /\ Speed * x = d2
        /\ frame_cycles' = frame_cycles + x
    <3>1. span \in Int
      BY <1>2, SpanFacts DEF Tima
    <3> QED BY <1>2, <1>3, <3>1 DEF Clocks, Ev
  <2>3. tima_elapsed' = tima_elapsed + d2 /\ Speed' = Speed
    BY <1>1 DEF Speed
  <2>4. event_deadline'["TIMA"] = dl
        /\ (TimerMax - timer_count') * timer_control'.div = span
    BY <1>1
  <2> HIDE DEF dl, span, x
  <2>5. Speed * (dl - (frame_cycles + x)) = (Speed * (dl - frame_cycles)) - (Speed * x)
    BY <1>3, <2>2
  <2>6. Speed * (dl - (frame_cycles + x)) = span - (tima_elapsed + d2)
    BY <1>5, <2>1, <2>2, <2>5
  <2> QED BY <2>2, <2>3, <2>4, <2>6 DEF Agrees
<1>8. Tima'
  BY <1>1, <1>2, <1>6, <1>7 DEF Tima
<1> QED BY <1>1, <1>4, <1>8, IrqsKept, DeadlinesKept, ScreenKept DEF Base

LEMMA EndDispatchBase == Base /\ EndDispatch => Base'
<1> SUFFICES ASSUME Base, EndDispatch PROVE Base'
  OBVIOUS
<1>1. /\ phase = "sync" /\ phase' = "run" /\ d2' = 0
      /\ interrupt_request_mask' = interrupt_request_mask \ Taken
      /\ interrupt_enable' = (interrupt_enable /\ Taken = {})
      /\ wake_limit' = Speed * dmg_cycles_to_next_event(event_deadline, ie, frame_cycles)
      /\ UNCHANGED <<double_speed, frame_cycles, event_deadline, ie>>
      /\ UNCHANGED timer /\ UNCHANGED ScreenVars /\ UNCHANGED DeadlineVars
  BY DEF EndDispatch, ScreenVars, DeadlineVars, lcd, frame
<1>2. /\ Clocks /\ Irqs /\ Tima /\ Deadlines
  BY DEF Base
<1>3. event_deadline["WRAP"] > frame_cycles /\ event_deadline["TIMA"] > frame_cycles
  BY DEF EndDispatch, Ev
<1>4. frame_cycles \in Nat /\ frame_cycles < Frame
  BY <1>2, <1>3 DEF Clocks, Deadlines
<1>5. wake_limit' \in Nat
  <2>1. dmg_cycles_to_next_event(event_deadline, ie, frame_cycles) \in Nat
    BY <1>2, <1>4, DistanceFacts DEF Deadlines
  <2>2. Speed \in {1, 2}
    BY DEF Speed
  <2>3. \A s \in {1, 2}, n \in Nat : s * n \in Nat
    OBVIOUS
  <2> QED BY <1>1, <2>1, <2>2, <2>3
<1>6. Clocks'
  <2>1. Even(0)
    <3>1. 0 = 2 * 0
      OBVIOUS
    <3> QED BY <3>1 DEF Even
  <2> QED BY <1>1, <1>2, <1>4, <1>5, <2>1, FrameFacts DEF Clocks
<1>7. Irqs'
  BY <1>1, <1>2 DEF Irqs
<1>8. Tima'
  <2>1. Elapsed' = Elapsed
    BY <1>1, <1>2 DEF Elapsed, timer, Tima
  <2>2. Agrees' <=> Agrees
    BY <1>1 DEF Agrees, Speed, timer
  <2> QED BY <1>1, <1>2, <1>3, <2>1, <2>2 DEF Tima, timer
<1> QED BY <1>1, <1>6, <1>7, <1>8, DeadlinesKept, ScreenKept DEF Base

\* What every firing leaves alone: it moves one deadline.
LEMMA OneDeadline ==
  ASSUME event_deadline \in [Ev -> Nat], NEW ev \in Ev, NEW at \in Nat,
         event_deadline' = [event_deadline EXCEPT ![ev] = at]
  PROVE  /\ event_deadline' \in [Ev -> Nat] /\ event_deadline'[ev] = at
         /\ \A o \in Ev \ {ev} : event_deadline'[o] = event_deadline[o]
OBVIOUS

LEMMA FireStatBase == Base /\ FireStat => Base'
<1> SUFFICES ASSUME Base, FireStat PROVE Base'
  OBVIOUS
<1>1. PICK next \in stat_event_from(event_deadline["STAT"] + 1, stat_event_line, lcdc_on, stat, lyc) :
        /\ event_deadline' = [event_deadline EXCEPT !["STAT"] = next.at]
        /\ stat_event_line' = next.line
  BY DEF FireStat
<1>2. /\ interrupt_request_mask' = interrupt_request_mask \cup {"STAT"}
      /\ UNCHANGED ClockVars /\ UNCHANGED timer /\ UNCHANGED frame /\ UNCHANGED ly
      /\ UNCHANGED <<lcdc_on, stat, lyc, interrupt_enable, ie>>
  BY DEF FireStat, Request, cpu, ClockVars
<1>3. Clocks /\ Irqs /\ Tima /\ Deadlines /\ Screen
  BY DEF Base
<1>4. event_deadline \in [Ev -> Nat] /\ "STAT" \in Ev /\ event_deadline["STAT"] + 1 \in Nat
  BY <1>3 DEF Deadlines, Ev
<1>5. next.line \in Nat /\ next.at \in Nat /\ (next.at = EvNone \/ next.at < Frame)
  BY <1>1, <1>3, <1>4, StatFromFacts DEF Screen
<1>6. event_deadline' \in [Ev -> Nat] /\ event_deadline'["STAT"] = next.at
      /\ \A o \in Ev \ {"STAT"} : event_deadline'[o] = event_deadline[o]
  BY <1>1, <1>4, <1>5, OneDeadline
<1>7. Deadlines'
  BY <1>2, <1>3, <1>5, <1>6 DEF Deadlines, Ev, FrameDeadline, frame
<1>8. UNCHANGED TimaVars
  BY <1>2, <1>6 DEF TimaVars, ClockVars, Ev, timer
<1>9. Irqs'
  BY <1>2, <1>3 DEF Irqs, Interrupt
<1>10. Screen'
  BY <1>1, <1>2, <1>3, <1>5 DEF Screen, frame, ly
<1> QED BY <1>2, <1>3, <1>7, <1>8, <1>9, <1>10, ClocksKept, TimaKept DEF Base

LEMMA FireFrameBase == Base /\ (FireVblank \/ FireRender) => Base'
<1> SUFFICES ASSUME Base, FireVblank \/ FireRender PROVE Base'
  OBVIOUS
<1>1. PICK ev \in {"VBLANK", "RENDER"} :
        /\ event_deadline' = [event_deadline EXCEPT ![ev] = EvNone]
        /\ (ev = "VBLANK" => FireVblank)
        /\ (ev = "RENDER" => FireRender)
  BY DEF FireVblank, FireRender
<1>2. /\ UNCHANGED ClockVars /\ UNCHANGED timer /\ UNCHANGED ly /\ UNCHANGED lcd
      /\ UNCHANGED <<interrupt_enable, ie>>
      /\ interrupt_request_mask' \in {interrupt_request_mask, interrupt_request_mask \cup {"VBLANK"}}
      /\ sent_vblank_start' = (sent_vblank_start \/ ev = "VBLANK")
      /\ rendered_this_frame' = (rendered_this_frame \/ ev = "RENDER")
  <2>1. CASE ev = "VBLANK"
    BY <1>1, <2>1 DEF FireVblank, Request, cpu, irq, ClockVars, Base, Screen
  <2>2. CASE ev = "RENDER"
    BY <1>1, <2>2 DEF FireRender, cpu, irq, ClockVars, Base, Screen
  <2> QED BY <1>1, <2>1, <2>2
<1>3. Clocks /\ Irqs /\ Tima /\ Deadlines /\ Screen
  BY DEF Base
<1>4. event_deadline \in [Ev -> Nat] /\ ev \in Ev
  BY <1>3 DEF Deadlines, Ev
<1>5. event_deadline' \in [Ev -> Nat] /\ event_deadline'[ev] = EvNone
      /\ \A o \in Ev \ {ev} : event_deadline'[o] = event_deadline[o]
  BY <1>1, <1>4, OneDeadline, FrameFacts
<1>6. Deadlines'
  <2>1. CASE ev = "VBLANK"
    BY <1>2, <1>3, <1>5, <2>1 DEF Deadlines, Ev, FrameDeadline, lcd, Screen
  <2>2. CASE ev = "RENDER"
    BY <1>2, <1>3, <1>5, <2>2 DEF Deadlines, Ev, FrameDeadline, lcd, Screen
  <2> QED BY <1>1, <2>1, <2>2
<1>7. UNCHANGED TimaVars
  BY <1>1, <1>2, <1>5 DEF TimaVars, ClockVars, Ev, timer
<1>8. Irqs'
  BY <1>2, <1>3 DEF Irqs, Interrupt
<1>9. Screen'
  BY <1>2, <1>3 DEF Screen, lcd, ly
<1> QED BY <1>2, <1>3, <1>6, <1>7, <1>8, <1>9, ClocksKept, TimaKept DEF Base

LEMMA FireSerialBase == Base /\ FireSerial => Base'
<1> SUFFICES ASSUME Base, FireSerial PROVE Base'
  OBVIOUS
<1>1. /\ UNCHANGED ClockVars /\ UNCHANGED timer /\ UNCHANGED ScreenVars
      /\ UNCHANGED <<interrupt_enable, ie, lcdc_on, sent_vblank_start, rendered_this_frame>>
      /\ interrupt_request_mask' = interrupt_request_mask \cup {"SERIAL"}
      /\ event_deadline' = [event_deadline EXCEPT !["SERIAL"] = EvNone]
  BY DEF FireSerial, Request, cpu, ClockVars, ScreenVars, lcd, frame
<1>2. Clocks /\ Irqs /\ Tima /\ Deadlines /\ Screen
  BY DEF Base
<1>3. event_deadline' \in [Ev -> Nat] /\ event_deadline'["SERIAL"] = EvNone
      /\ \A o \in Ev \ {"SERIAL"} : event_deadline'[o] = event_deadline[o]
  BY <1>1, <1>2, OneDeadline, FrameFacts DEF Deadlines, Ev
<1>4. Deadlines'
  BY <1>1, <1>2, <1>3 DEF Deadlines, Ev, FrameDeadline
<1>5. UNCHANGED TimaVars
  BY <1>1, <1>3 DEF TimaVars, ClockVars, Ev, timer
<1>6. Irqs'
  BY <1>1, <1>2 DEF Irqs, Interrupt
<1> QED BY <1>1, <1>2, <1>4, <1>5, <1>6, ClocksKept, TimaKept, ScreenKept DEF Base

\* The timer cannot have run past its deadline by half a CPU cycle.
LEMMA OvershootFacts ==
  ASSUME Tima, Clocks, event_deadline \in [Ev -> Nat], timer_control.on,
         event_deadline["TIMA"] <= frame_cycles
  PROVE  /\ frame_cycles - event_deadline["TIMA"] \in Nat
         /\ Speed * (frame_cycles - event_deadline["TIMA"]) \in Nat
         /\ Even(Speed * (frame_cycles - event_deadline["TIMA"]))
<1> DEFINE dl == event_deadline["TIMA"]
           span == (TimerMax - timer_count) * timer_control.div
           over == frame_cycles - dl
<1>1. dl \in Nat /\ frame_cycles \in Nat /\ over \in Nat /\ Speed \in {1, 2}
  BY DEF Clocks, Ev, Speed
<1>2. span \in Nat /\ Even(span)
  BY SpanFacts DEF Tima
<1>3. Speed * (dl - frame_cycles) = span - tima_elapsed /\ tima_elapsed \in Int /\ Even(tima_elapsed)
  BY DEF Tima, Agrees
<1> HIDE DEF dl, span
<1>4. \A s \in {1, 2}, n \in Nat : s * n \in Nat
  OBVIOUS
<1>5. Speed * over = tima_elapsed - span
  <2>1. CASE Speed = 1
    BY <1>1, <1>2, <1>3, <2>1
  <2>2. CASE Speed = 2
    BY <1>1, <1>2, <1>3, <2>2
  <2> QED BY <1>1, <2>1, <2>2
<1>6. Even(tima_elapsed - span)
  BY <1>2, <1>3, EvenSum
<1> QED BY <1>1, <1>4, <1>5, <1>6 DEF dl

LEMMA FireTimaBase == Base /\ FireTima => Base'
<1> SUFFICES ASSUME Base, FireTima PROVE Base'
  OBVIOUS
<1> DEFINE dl == event_deadline["TIMA"]
           over == frame_cycles - dl
           period == (TimerMax - timer_mod) * timer_control.div
           step == period \div Speed
<1>1. /\ phase = "sync" /\ dl <= frame_cycles
      /\ UNCHANGED ClockVars /\ UNCHANGED ScreenVars
      /\ UNCHANGED <<interrupt_enable, ie, timer_mod, timer_control>>
      /\ UNCHANGED <<lcdc_on, sent_vblank_start, rendered_this_frame>>
      /\ interrupt_request_mask' = interrupt_request_mask \cup {"TIMER"}
      /\ timer_count' = timer_mod
      /\ tima_elapsed' = Speed * over
      /\ event_deadline' = [event_deadline EXCEPT !["TIMA"] = dl + step]
  BY DEF FireTima, Fires, Request, cpu, ClockVars, ScreenVars, lcd, frame
<1>2. Clocks /\ Irqs /\ Tima /\ Deadlines /\ Screen
  BY DEF Base
<1>3. event_deadline \in [Ev -> Nat] /\ "TIMA" \in Ev /\ dl \in Nat /\ frame_cycles \in Nat
      /\ frame_cycles < Frame + MaxDispatch
  BY <1>2 DEF Deadlines, Ev, Clocks
<1>4. timer_control.on /\ timer_control \in Control
  <2>1. ~timer_control.on => dl = EvNone
    BY <1>2 DEF Tima
  <2>2. dl # EvNone
    BY <1>1, <1>3, FrameFacts
  <2> QED BY <1>2, <2>1, <2>2 DEF Tima
<1>5. over \in Nat /\ Speed * over \in Nat /\ Even(Speed * over)
  BY <1>1, <1>2, <1>3, <1>4, OvershootFacts
<1>6. period \in Nat /\ Even(period) /\ period >= timer_control.div
      /\ period <= TimerMax * timer_control.div /\ timer_control.div \in Nat \ {0}
      /\ TimerMax * timer_control.div \in Nat
  BY <1>2, <1>4, SpanFacts, DivisorFacts DEF Tima
<1> HIDE DEF period
<1>7. Speed \in {1, 2}
  BY DEF Speed
<1>8. step \in Int /\ Speed * step = period /\ step > 0 /\ step <= period
  <2>1. period \in Int /\ period > 0
    BY <1>6
  <2> QED BY Zenon, <1>6, <1>7, <2>1, SpeedDivision
<1> HIDE DEF step
<1>9. dl + step \in Nat
  BY <1>3, <1>8
<1>10. event_deadline' \in [Ev -> Nat] /\ event_deadline'["TIMA"] = dl + step
       /\ \A o \in Ev \ {"TIMA"} : event_deadline'[o] = event_deadline[o]
  <2> DEFINE at == dl + step
  <2>1. at \in Nat /\ event_deadline' = [event_deadline EXCEPT !["TIMA"] = at]
    BY <1>1, <1>9
  <2> HIDE DEF at
  <2>2. event_deadline' \in [Ev -> Nat] /\ event_deadline'["TIMA"] = at
        /\ \A o \in Ev \ {"TIMA"} : event_deadline'[o] = event_deadline[o]
    BY <1>3, <2>1, OneDeadline
  <2> QED BY <2>2 DEF at
<1>11. Deadlines'
  BY <1>1, <1>2, <1>10 DEF Deadlines, Ev, FrameDeadline
<1>12. dl + step <= Frame + MaxDispatch + (TimerMax * timer_control.div)
  <2> DEFINE top == TimerMax * timer_control.div
  <2>1. top \in Nat /\ period <= top
    BY <1>6
  <2> HIDE DEF top
  <2>2. dl + step <= Frame + MaxDispatch + top
    BY <1>1, <1>3, <1>6, <1>8, <2>1, FrameFacts
  <2> QED BY <2>2 DEF top
<1>13. Agrees'
  <2>1. event_deadline'["TIMA"] - frame_cycles' = step - over
    BY <1>1, <1>3, <1>8, <1>10 DEF ClockVars
  <2>2. (TimerMax - timer_count') * timer_control'.div = period /\ Speed' = Speed
    BY <1>1 DEF period, ClockVars, Speed
  <2> HIDE DEF over
  <2>3. Speed * (step - over) = period - (Speed * over)
    <3>1. CASE Speed = 1
      BY <1>5, <1>6, <1>8, <3>1
    <3>2. CASE Speed = 2
      BY <1>5, <1>6, <1>8, <3>2
    <3> QED BY <1>7, <3>1, <3>2
  <2> QED BY <1>1, <2>1, <2>2, <2>3 DEF Agrees
<1>14. Tima'
  <2>1. Elapsed' = tima_elapsed' /\ tima_elapsed' \in Int /\ tima_elapsed' >= 0 /\ Even(tima_elapsed')
    BY <1>1, <1>5 DEF Elapsed, ClockVars
  <2>2. phase' = "sync"
    BY <1>1 DEF ClockVars
  <2> QED BY <1>1, <1>2, <1>4, <1>10, <1>12, <1>13, <2>1, <2>2 DEF Tima
<1>15. Irqs'
  BY <1>1, <1>2 DEF Irqs, Interrupt
<1> QED BY <1>1, <1>2, <1>11, <1>14, <1>15, ClocksKept, ScreenKept DEF Base

LEMMA FireWrapBase == Base /\ FireWrap => Base'
<1> SUFFICES ASSUME Base, FireWrap PROVE Base'
  OBVIOUS
<1>1. /\ phase = "sync" /\ event_deadline["WRAP"] <= frame_cycles
      /\ First("WRAP", "TIMA") /\ First("WRAP", "SERIAL")
      /\ frame_cycles' = frame_cycles - Frame
      /\ sent_vblank_start' = FALSE /\ rendered_this_frame' = FALSE
      /\ lazy_ly' = 0 /\ ly_read_cycle' = 0
      /\ UNCHANGED cpu /\ UNCHANGED irq /\ UNCHANGED timer /\ UNCHANGED <<lcdc_on, stat, lyc>>
  BY DEF FireWrap, Fires, Ev
<1>2. PICK next \in stat_event_from(0, 0, lcdc_on, stat, lyc) :
        /\ stat_event_line' = next.line
        /\ event_deadline' = [event_deadline EXCEPT
             !["STAT"] = next.at,
             !["VBLANK"] = FrameDeadline(lcdc_on, FALSE),
             !["RENDER"] = FrameDeadline(lcdc_on, FALSE),
             !["TIMA"] = IF @ = EvNone THEN EvNone ELSE @ - Frame,
             !["SERIAL"] = IF @ = EvNone THEN EvNone ELSE @ - Frame]
  BY DEF FireWrap
<1>3. Clocks /\ Irqs /\ Tima /\ Deadlines /\ Screen
  BY DEF Base
<1>4. event_deadline \in [Ev -> Nat] /\ \A ev \in Ev : event_deadline[ev] \in Nat
  BY <1>3 DEF Deadlines
<1>5. event_deadline["WRAP"] = Frame /\ Frame <= frame_cycles /\ frame_cycles \in Nat
      /\ frame_cycles < Frame + MaxDispatch
  BY <1>1, <1>3 DEF Deadlines, Clocks
<1>6. \A ev \in {"TIMA", "SERIAL"} : event_deadline[ev] > Frame
  <2>1. Rank("WRAP") = 5 /\ Rank("TIMA") = 3 /\ Rank("SERIAL") = 4
    BY DEF Rank
  <2> QED BY <1>1, <1>4, <1>5, <2>1, FrameFacts DEF First, Ev
<1> DEFINE moved(ev) == IF event_deadline[ev] = EvNone THEN EvNone ELSE event_deadline[ev] - Frame
<1>7. \A ev \in {"TIMA", "SERIAL"} : moved(ev) \in Nat
  BY <1>4, <1>6, FrameFacts DEF Ev
<1>8. next.line \in Nat /\ next.at \in Nat /\ (next.at = EvNone \/ next.at < Frame)
  BY <1>2, <1>3, StatFromFacts DEF Screen
<1>9. FrameDeadline(lcdc_on, FALSE) \in Nat
  BY FrameFacts DEF FrameDeadline
<1>10. /\ event_deadline' \in [Ev -> Nat]
       /\ event_deadline'["STAT"] = next.at
       /\ event_deadline'["WRAP"] = Frame
       /\ event_deadline'["VBLANK"] = FrameDeadline(lcdc_on, FALSE)
       /\ event_deadline'["RENDER"] = FrameDeadline(lcdc_on, FALSE)
       /\ event_deadline'["TIMA"] = moved("TIMA")
       /\ event_deadline'["SERIAL"] = moved("SERIAL")
  <2> DEFINE f == [ev \in Ev |->
         CASE ev = "STAT" -> next.at
           [] ev = "WRAP" -> event_deadline["WRAP"]
           [] ev \in {"VBLANK", "RENDER"} -> FrameDeadline(lcdc_on, FALSE)
           [] ev \in {"TIMA", "SERIAL"} -> moved(ev)]
  <2>1. event_deadline' = f
    BY <1>2, <1>4 DEF Ev
  <2>2. \A ev \in Ev : f[ev] \in Nat
    BY <1>4, <1>7, <1>8, <1>9 DEF Ev
  <2> QED BY <1>5, <2>1, <2>2 DEF Ev
<1>11. Deadlines'
  <2>1. event_deadline'["SERIAL"] = EvNone
        \/ event_deadline'["SERIAL"] <= Frame + MaxDispatch + SerialTime
    <3>1. CASE event_deadline["SERIAL"] = EvNone
      BY <1>10, <3>1
    <3>2. CASE event_deadline["SERIAL"] # EvNone
      <4>1. event_deadline["SERIAL"] \in Nat
            /\ event_deadline["SERIAL"] <= Frame + MaxDispatch + SerialTime
        BY <1>3, <1>4, <3>2 DEF Deadlines, Ev
      <4> QED BY <1>10, <3>2, <4>1, FrameFacts
    <3> QED BY <3>1, <3>2
  <2> QED BY <1>1, <1>8, <1>10, <2>1 DEF Deadlines, FrameDeadline
<1>12. Clocks'
  BY <1>1, <1>3, <1>5, FrameFacts DEF Clocks, cpu
<1>13. Irqs'
  BY <1>1, <1>3, IrqsKept
<1>14. Screen'
  BY <1>1, <1>2, <1>3, <1>8 DEF Screen
<1>15. Tima'
  <2>1. /\ UNCHANGED <<timer_count, timer_mod, timer_control, tima_elapsed, phase, d2, double_speed>>
        /\ phase' = "sync"
    BY <1>1 DEF timer, cpu
  <2>2. Elapsed' = Elapsed
    BY <2>1 DEF Elapsed
  <2>3. CASE ~timer_control.on
    <3>1. event_deadline["TIMA"] = EvNone
      BY <1>3, <2>3 DEF Tima
    <3>2. event_deadline'["TIMA"] = EvNone
      BY <1>10, <3>1
    <3> QED BY <1>3, <2>1, <2>2, <2>3, <3>2 DEF Tima
  <2>4. CASE timer_control.on
    <3>1. /\ event_deadline["TIMA"] \in Nat /\ Agrees
          /\ event_deadline["TIMA"] <= Frame + MaxDispatch + (TimerMax * timer_control.div)
          /\ timer_control \in Control
      BY <1>3, <1>4, <2>4 DEF Tima, Ev
    <3>2. event_deadline["TIMA"] # EvNone
      BY <3>1, DivisorFacts, FrameFacts
    <3>3. event_deadline'["TIMA"] = event_deadline["TIMA"] - Frame
      BY <1>10, <3>2
    <3>4. event_deadline'["TIMA"] - frame_cycles' = event_deadline["TIMA"] - frame_cycles
      BY <1>1, <1>5, <3>1, <3>3, FrameFacts
    <3>5. Agrees'
      BY <2>1, <3>1, <3>4 DEF Agrees, Speed
    <3>6. event_deadline'["TIMA"] <= Frame + MaxDispatch + (TimerMax * timer_control.div)
      BY <3>1, <3>3, DivisorFacts, FrameFacts
    <3> QED BY <1>3, <2>1, <2>2, <2>4, <3>5, <3>6 DEF Tima
  <2> QED BY <2>3, <2>4
<1> QED BY <1>11, <1>12, <1>13, <1>14, <1>15 DEF Base

LEMMA NextBase == Base /\ [Next]_vars => Base'
<1> SUFFICES ASSUME Base, [Next]_vars PROVE Base'
  OBVIOUS
<1>1. CASE \E cycles \in Blocks : Run(cycles)
  BY <1>1, RunBase
<1>2. CASE WriteRegister
  BY <1>2, WriteRegisterBase
<1>3. CASE ReadLy
  BY <1>3, ReadLyBase
<1>4. CASE \E enabled \in ImeWrites : dmg_ei_di(enabled)
  <2>1. PICK enabled \in BOOLEAN : dmg_ei_di(enabled)
    BY <1>4, WriteAssumption
  <2> QED BY <2>1, RegistersBase DEF dmg_ei_di, Base, Irqs
<1>5. CASE \E selected \in Buttons : dmg_set_button(selected)
  <2>1. PICK selected \in BOOLEAN : dmg_set_button(selected)
    BY <1>5, WriteAssumption
  <2> DEFINE request == interrupt_request_mask \cup IF selected THEN {"JOYPAD"} ELSE {}
  <2>2. request \in SUBSET Interrupt
    BY DEF Base, Irqs, Interrupt
  <2>3. Registers(interrupt_enable, ie, request) /\ UNCHANGED wake_limit
    BY <2>1 DEF dmg_set_button
  <2> HIDE DEF request
  <2> QED BY <2>2, <2>3, RegistersBase DEF Base, Irqs
<1>6. CASE \E double \in SpeedSwitches : jit_handle_stop(double)
  BY <1>6, StopBase
<1>7. CASE dmg_sync_hw
  BY <1>7, SyncBase
<1>8. CASE FireStat
  BY <1>8, FireStatBase
<1>9. CASE FireVblank \/ FireRender
  BY <1>9, FireFrameBase
<1>10. CASE FireSerial
  BY <1>10, FireSerialBase
<1>11. CASE FireTima
  BY <1>11, FireTimaBase
<1>12. CASE FireWrap
  BY <1>12, FireWrapBase
<1>13. CASE EndDispatch
  BY <1>13, EndDispatchBase
<1>14. CASE UNCHANGED vars
  BY <1>14, StutterBase
<1> QED
  BY <1>1, <1>2, <1>3, <1>4, <1>5, <1>6, <1>7, <1>8, <1>9, <1>10, <1>11, <1>12, <1>13, <1>14
     DEF Next

THEOREM BaseInvariant == Spec => []Base
BY InitBase, NextBase, PTL DEF Spec

\* TIMA's deadline in the frame and its count never drift apart: through writes
\* of DIV, TIMA and TAC in the middle of a dispatch, late syncs, frame wraps,
\* LCD restarts and speed switches (dmg_tima_touch, dmg_tima_recompute and the
\* overflow case of dmg_sync_hw).
THEOREM TheDeadlineAgreesWithTheCounter == Spec => []DeadlineAgreesWithCounter
<1>1. Base => DeadlineAgreesWithCounter
  BY DEF Base, Tima, Agrees, DeadlineAgreesWithCounter
<1> QED BY <1>1, BaseInvariant, PTL

-----------------------------------------------------------------------------
(* The line counter.  It is brought back by one frame at most, so a dispatch
   must not be longer than one: WRAP and VBLANK end it in good time. *)

ShortDispatch == MaxDispatch <= Frame

LyInv ==
  /\ lazy_ly \in Nat /\ lazy_ly < Lines
  /\ ly_read_cycle = lazy_ly * Line

\* One advance of the counter, wherever it stood.
LEMMA LyStep ==
  ASSUME NEW now \in Nat, now < 2 * Frame, NEW lazy \in Nat, lazy < Lines,
         NEW read, read = lazy * Line, NEW l, l = LyAt(now, lazy, read)
  PROVE  /\ l.lazy \in Nat /\ l.lazy < Lines /\ l.read = l.lazy * Line
         /\ l.read < Frame
         /\ l.lazy = (now % Frame) \div Line
         /\ (l.lazy * Line) + l.pos = now % Frame
         /\ l.pos \in Nat /\ l.pos < Line
<1> DEFINE current == IF now >= Frame THEN now - Frame ELSE now
           behind == current < read
           old == IF behind THEN 0 ELSE lazy
           from == IF behind THEN 0 ELSE read
           lines == (current - from) \div Line
<1>1. current \in Nat /\ current < Frame /\ current = now % Frame /\ Frame \in Nat \ {0}
  <2>1. Frame \in Nat \ {0}
    BY FrameFacts
  <2>2. current \in Nat /\ current < Frame
    BY <2>1
  <2>3. CASE now >= Frame
    <3>1. 1 * Frame <= now /\ now < (1 * Frame) + Frame
      BY <2>1, <2>3
    <3>2. now \div Frame = 1
      BY <2>1, <3>1, QuotientUnique
    <3>3. now = ((now \div Frame) * Frame) + (now % Frame) /\ now % Frame \in Int
      BY <2>1, DivMod
    <3> QED BY <2>1, <2>2, <2>3, <3>2, <3>3
  <2>4. CASE now < Frame
    <3>1. 0 * Frame <= now /\ now < (0 * Frame) + Frame
      BY <2>1, <2>4
    <3>2. now \div Frame = 0
      BY <2>1, <3>1, QuotientUnique
    <3>3. now = ((now \div Frame) * Frame) + (now % Frame) /\ now % Frame \in Int
      BY <2>1, DivMod
    <3> QED BY <2>1, <2>2, <2>4, <3>2, <3>3
  <2> QED BY <2>1, <2>2, <2>3, <2>4
<1> HIDE DEF current
<1>2. old \in Nat /\ from = old * Line /\ from \in Nat /\ current - from \in Nat
  <2>1. read \in Nat /\ 0 * Line = 0
    BY FrameFacts
  <2> QED BY <1>1, <2>1
<1> HIDE DEF old, from
<1>3. lines \in Nat /\ current - from = (lines * Line) + ((current - from) % Line)
      /\ (current - from) % Line \in 0 .. Line - 1
  <2> DEFINE gap == current - from
  <2>1. gap \in Nat /\ Line \in Nat \ {0}
    BY <1>2, FrameFacts
  <2> HIDE DEF gap
  <2>2. gap \div Line \in Nat
    BY <2>1, DivNat
  <2>3. gap = ((gap \div Line) * Line) + (gap % Line) /\ gap % Line \in 0 .. Line - 1
    BY <2>1, DivMod
  <2> QED BY <2>2, <2>3 DEF gap
<1> HIDE DEF lines
<1> DEFINE n == old + lines
           pos == current - from - (lines * Line)
<1>4. n \in Nat /\ n * Line = from + (lines * Line) /\ n * Line \in Nat
      /\ lines * Line \in Nat
  BY <1>2, <1>3, FrameFacts
<1>5. pos \in Nat /\ pos < Line /\ (n * Line) + pos = current
  <2> DEFINE m == lines * Line
             rest == (current - from) % Line
  <2>1. m \in Nat /\ current - from = m + rest /\ n * Line = from + m /\ rest \in 0 .. Line - 1
    BY <1>3, <1>4
  <2>2. pos = current - from - m
    OBVIOUS
  <2> HIDE DEF m, rest, n, pos
  <2> QED BY <1>1, <1>2, <2>1, <2>2, FrameFacts
<1>6. l = [lazy |-> n % Lines, read |-> from + (lines * Line), pos |-> pos]
  BY DEF LyAt, current, old, from, lines
<1> HIDE DEF n, pos
<1>7. n < Lines
  <2> SUFFICES ASSUME ~(n < Lines) PROVE FALSE
    OBVIOUS
  <2>1. Lines * Line <= n * Line
    BY <1>4, FrameFacts, ProductMonotone
  <2> QED BY <1>1, <1>4, <1>5, <2>1, FrameFacts DEF Frame
<1>8. n % Lines = n
  BY <1>4, <1>7, FrameFacts
<1>9. current \div Line = n
  BY <1>1, <1>4, <1>5, FrameFacts, QuotientUnique
<1>10. l.lazy = n /\ l.read = n * Line /\ l.pos = pos
  BY <1>4, <1>6, <1>8
<1>11. n * Line < Frame
  BY <1>1, <1>4, <1>5
<1> QED BY <1>1, <1>4, <1>5, <1>7, <1>9, <1>10, <1>11

\* The beam is at most one frame ahead of the last sync.
LEMMA NowBound ==
  ASSUME ShortDispatch, Base, phase = "run"
  PROVE  dmg_now_ppu \in Nat /\ dmg_now_ppu < 2 * Frame /\ dmg_now_ppu >= frame_cycles
<1>1. Clocks
  BY DEF Base
<1> QED BY <1>1, NowFacts, FrameFacts DEF Clocks, ShortDispatch

LEMMA LyInvStep ==
  ASSUME ShortDispatch, Base, LyInv, [Next]_vars
  PROVE  LyInv'
<1>1. CASE UNCHANGED ly
  BY <1>1 DEF LyInv, ly
<1>2. CASE lazy_ly' = 0 /\ ly_read_cycle' = 0
  <2>1. 0 = 0 * Line /\ 0 < Lines
    BY FrameFacts
  <2> QED BY <1>2, <2>1 DEF LyInv
<1>3. ASSUME NEW now \in Nat, now < 2 * Frame, NEW lazy \in {0, lazy_ly},
             NEW read, read = IF lazy = 0 THEN 0 ELSE ly_read_cycle,
             lazy_ly' = LyAt(now, lazy, read).lazy, ly_read_cycle' = LyAt(now, lazy, read).read
      PROVE  LyInv'
  <2>1. lazy \in Nat /\ lazy < Lines /\ read = lazy * Line
    BY <1>3, FrameFacts DEF LyInv
  <2>2. /\ LyAt(now, lazy, read).lazy \in Nat /\ LyAt(now, lazy, read).lazy < Lines
        /\ LyAt(now, lazy, read).read = LyAt(now, lazy, read).lazy * Line
    BY <1>3, <2>1, LyStep
  <2> QED BY <1>3, <2>2 DEF LyInv
<1>4. lazy_ly \in Nat /\ ly_read_cycle = IF lazy_ly = 0 THEN 0 ELSE ly_read_cycle
  BY FrameFacts DEF LyInv
<1>5. CASE ReadLy
  <2>1. phase = "run"
    BY <1>5 DEF ReadLy
  <2> QED BY <1>3, <1>4, <1>5, <2>1, NowBound DEF ReadLy, dmg_current_ly
<1>6. ASSUME NEW on, NEW sources, NEW line, NEW both, WriteLcd(on, sources, line, both)
      PROVE  LyInv'
  <2> DEFINE restart == on /\ ~lcdc_on /\ frame_cycles # 0
             now == dmg_now_ppu - IF restart THEN frame_cycles ELSE 0
  <2>1. phase = "run" /\ frame_cycles \in Nat
    BY <1>6 DEF WriteLcd, Base, Clocks
  <2>2. dmg_now_ppu \in Nat /\ dmg_now_ppu < 2 * Frame /\ dmg_now_ppu >= frame_cycles
    BY <2>1, NowBound
  <2>3. CASE restart
    <3>1. now \in Nat /\ now < 2 * Frame
      BY <2>1, <2>2, <2>3, FrameFacts
    <3>2. lazy_ly' = LyAt(now, 0, 0).lazy /\ ly_read_cycle' = LyAt(now, 0, 0).read
      BY <1>6, <2>3 DEF WriteLcd
    <3> QED BY <1>3, <3>1, <3>2
  <2>4. CASE ~restart
    <3>1. lazy_ly' = dmg_current_ly.lazy /\ ly_read_cycle' = dmg_current_ly.read
      BY <1>6, <2>4 DEF WriteLcd
    <3> QED BY <1>3, <1>4, <2>2, <3>1 DEF dmg_current_ly
  <2> QED BY <2>3, <2>4
<1>7. CASE WriteRegister
  <2>1. CASE \/ WriteDiv
             \/ \E data \in TimaWrites : WriteTima(data)
             \/ \E control \in TacWrites : WriteTac(control)
    BY <1>1, <2>1 DEF WriteDiv, WriteTima, WriteTac, TimerWrite
  <2>2. CASE \/ \E data \in TmaWrites : WriteTma(data)
             \/ \E start \in ScWrites : WriteSc(start)
             \/ \E data \in IfWrites : WriteIf(data)
             \/ \E data \in IeWrites : WriteIe(data)
    BY <1>1, <2>2 DEF WriteTma, WriteSc, WriteIf, WriteIe, Registers
  <2>3. CASE \/ \E on \in LcdcWrites : WriteLcdc(on)
             \/ \E sources \in StatWrites : WriteStat(sources)
             \/ \E line \in LycWrites : WriteLyc(line)
    BY <1>6, <2>3 DEF WriteLcdc, WriteStat, WriteLyc
  <2> QED BY <1>7, <2>1, <2>2, <2>3 DEF WriteRegister
<1>8. CASE FireWrap
  BY <1>2, <1>8 DEF FireWrap
<1>9. CASE \/ \E cycles \in Blocks : Run(cycles)
           \/ \E enabled \in ImeWrites : dmg_ei_di(enabled)
           \/ \E selected \in Buttons : dmg_set_button(selected)
           \/ \E double \in SpeedSwitches : jit_handle_stop(double)
  BY <1>1, <1>9 DEF Run, dmg_ei_di, dmg_set_button, Registers, jit_handle_stop, TimerWrite
<1>10. CASE dmg_sync_hw \/ FireStat \/ FireVblank \/ FireRender \/ FireSerial \/ FireTima
            \/ EndDispatch \/ UNCHANGED vars
  BY <1>1, <1>10
     DEF dmg_sync_hw, FireStat, FireVblank, FireRender, FireSerial, FireTima, EndDispatch, vars
<1> QED BY <1>5, <1>7, <1>8, <1>9, <1>10 DEF Next

THEOREM LyInvariant == ASSUME ShortDispatch PROVE Spec => [](Base /\ LyInv)
<1>1. Init => Base /\ LyInv
  <2>1. 0 = 0 * Line /\ 0 < Lines
    BY FrameFacts
  <2> QED BY <2>1, InitBase DEF Init, LyInv
<1>2. Base /\ LyInv /\ [Next]_vars => (Base /\ LyInv)'
  BY NextBase, LyInvStep
<1> QED BY <1>1, <1>2, PTL DEF Spec

\* A read of LY is the line the beam is in, whatever the lazy counter last held:
\* across a frame wrap the sync has not absorbed yet and an LCD restart in
\* mid-frame (dmg_current_ly, dmg_lcd_frame_restart).
THEOREM LyIsTheLineOfTheBeam == ASSUME ShortDispatch PROVE Spec => []LyIsBeamLine
<1>1. Base /\ LyInv => LyIsBeamLine
  BY NowBound, LyStep DEF LyInv, LyIsBeamLine, dmg_current_ly
<1> QED BY <1>1, LyInvariant, PTL

\* The types, and with them the ranges of every counter and deadline.
THEOREM Types == ASSUME ShortDispatch PROVE Spec => []TypeOK
<1>1. ASSUME Base, LyInv PROVE TypeOK
  <2>1. Clocks /\ Irqs /\ Tima /\ Deadlines /\ Screen
    BY <1>1 DEF Base
  <2>2. frame_cycles \in Position /\ d2 \in 0 .. MaxDispatch
    BY <2>1, FrameFacts DEF Clocks, Position
  <2>3. event_deadline \in [Ev -> Deadline]
    <3>1. \A ev \in Ev : event_deadline[ev] \in Nat
      BY <2>1 DEF Deadlines
    <3>2. event_deadline["TIMA"] <= EvNone
      <4>1. CASE timer_control.on
        <5>1. /\ event_deadline["TIMA"] \in Nat /\ TimerMax * timer_control.div \in Nat
              /\ event_deadline["TIMA"] <= Frame + MaxDispatch + (TimerMax * timer_control.div)
              /\ EvNone > (2 * Frame) + MaxDispatch + (TimerMax * timer_control.div)
          BY <2>1, <3>1, <4>1, DivisorFacts DEF Tima, Ev
        <5> QED BY <5>1, FrameFacts
      <4> QED BY <2>1, <4>1, FrameFacts DEF Tima
    <3>3. event_deadline["SERIAL"] <= EvNone
      BY <2>1, <3>1, FrameFacts DEF Deadlines, Ev
    <3>4. event_deadline["STAT"] <= EvNone /\ event_deadline["WRAP"] <= EvNone
      BY <2>1, <3>1, FrameFacts DEF Deadlines, Ev
    <3>5. event_deadline["VBLANK"] <= EvNone /\ event_deadline["RENDER"] <= EvNone
      BY <2>1, <3>1, FrameFacts DEF Deadlines, Ev, FrameDeadline
    <3>6. \A ev \in Ev : event_deadline[ev] \in Deadline
      BY <3>1, <3>2, <3>3, <3>4, <3>5, FrameFacts DEF Ev, Deadline
    <3> QED BY <2>1, <3>6 DEF Deadlines
  <2>4. ly_read_cycle \in 0 .. Frame - 1 /\ lazy_ly \in 0 .. Lines - 1
    <3>1. lazy_ly \in Nat /\ lazy_ly <= Lines - 1 /\ ly_read_cycle = lazy_ly * Line
      BY <1>1, FrameFacts DEF LyInv
    <3>2. (lazy_ly * Line) + 0 < Lines * Line /\ lazy_ly * Line \in Nat
      BY <3>1, FrameFacts, InFrame
    <3> QED BY <3>1, <3>2, FrameFacts DEF Frame
  <2> QED BY <2>1, <2>2, <2>3, <2>4 DEF TypeOK, Clocks, Irqs, Tima, Screen
<1> QED BY <1>1, LyInvariant, PTL

-----------------------------------------------------------------------------
(* The two events of line 144. *)

VblankInv ==
  /\ sent_vblank_start => frame_cycles >= Line144
  /\ rendered_this_frame => frame_cycles >= Line144
  /\ phase = "run" /\ lcdc_on =>
       /\ frame_cycles >= Line144 => sent_vblank_start
       /\ frame_cycles >= Line144 => rendered_this_frame

\* A write of LCDC, STAT or LYC, as far as the frame goes.
LEMMA WriteLcdVblank ==
  ASSUME Base, VblankInv, NEW on \in BOOLEAN, NEW sources, NEW line, NEW both,
         WriteLcd(on, sources, line, both)
  PROVE  VblankInv'
<1> DEFINE restart == on /\ ~lcdc_on /\ frame_cycles # 0
<1>1. /\ phase = "run" /\ phase' = "run" /\ lcdc_on' = on
      /\ frame_cycles' = frame_cycles - IF restart THEN frame_cycles ELSE 0
      /\ sent_vblank_start' = (sent_vblank_start /\ ~restart)
      /\ rendered_this_frame' = (rendered_this_frame /\ ~restart)
  BY DEF WriteLcd
<1>2. frame_cycles \in Nat /\ Line144 \in Nat /\ Line144 > 0
  BY FrameFacts DEF Base, Clocks
<1>3. CASE restart
  <2> HIDE DEF restart
  <2>1. frame_cycles' = 0
    BY <1>1, <1>2, <1>3
  <2>3. ~sent_vblank_start' /\ ~rendered_this_frame'
    BY Zenon, <1>1, <1>3
  <2>2. ~(0 >= Line144)
    BY <1>2
  <2> QED BY <2>1, <2>2, <2>3 DEF VblankInv
<1>4. CASE ~restart
  <2>1. frame_cycles' = frame_cycles
    BY <1>1, <1>2, <1>4
  <2>2. UNCHANGED <<sent_vblank_start, rendered_this_frame>>
    BY <1>1, <1>4 DEF Base, Screen
  <2>3. on => lcdc_on \/ frame_cycles = 0
    BY <1>4
  <2> QED BY <1>1, <1>2, <2>1, <2>2, <2>3 DEF VblankInv
<1> QED BY <1>3, <1>4

LEMMA VblankInvStep ==
  ASSUME Base, VblankInv, [Next]_vars
  PROVE  VblankInv'
<1>1. CASE UNCHANGED <<phase, lcdc_on, frame_cycles, frame>>
  BY <1>1 DEF VblankInv, frame
<1>2. CASE \/ \E cycles \in Blocks : Run(cycles)
           \/ ReadLy
           \/ \E enabled \in ImeWrites : dmg_ei_di(enabled)
           \/ \E selected \in Buttons : dmg_set_button(selected)
           \/ \E double \in SpeedSwitches : jit_handle_stop(double)
  BY <1>1, <1>2 DEF Run, ReadLy, dmg_ei_di, dmg_set_button, Registers, jit_handle_stop,
                    TimerWrite, lcd, cpu
<1>3. CASE WriteRegister
  <2>1. CASE \/ WriteDiv
             \/ \E data \in TimaWrites : WriteTima(data)
             \/ \E control \in TacWrites : WriteTac(control)
    BY <1>1, <2>1 DEF WriteDiv, WriteTima, WriteTac, TimerWrite, lcd
  <2>2. CASE \/ \E data \in TmaWrites : WriteTma(data)
             \/ \E start \in ScWrites : WriteSc(start)
             \/ \E data \in IfWrites : WriteIf(data)
             \/ \E data \in IeWrites : WriteIe(data)
    BY <1>1, <2>2 DEF WriteTma, WriteSc, WriteIf, WriteIe, Registers, lcd, cpu
  <2>3. CASE \E on \in LcdcWrites : WriteLcdc(on)
    BY <2>3, WriteAssumption, WriteLcdVblank DEF WriteLcdc
  <2>4. CASE \/ \E sources \in StatWrites : WriteStat(sources)
             \/ \E line \in LycWrites : WriteLyc(line)
    <3>1. lcdc_on \in BOOLEAN
      BY DEF Base, Screen
    <3> QED BY <2>4, <3>1, WriteLcdVblank DEF WriteStat, WriteLyc
  <2> QED BY <1>3, <2>1, <2>2, <2>3, <2>4 DEF WriteRegister
<1>4. CASE dmg_sync_hw
  <2>1. /\ phase' = "sync" /\ frame_cycles' = dmg_now_ppu
        /\ UNCHANGED <<sent_vblank_start, rendered_this_frame>>
    BY <1>4 DEF dmg_sync_hw, frame
  <2>2. frame_cycles \in Nat /\ dmg_now_ppu \in Nat /\ dmg_now_ppu >= frame_cycles
    BY NowFacts DEF Base, Clocks
  <2> QED BY <2>1, <2>2, FrameFacts DEF VblankInv
<1>5. CASE FireVblank \/ FireRender
  <2>1. PICK ev \in {"VBLANK", "RENDER"} :
          /\ phase = "sync" /\ phase' = phase /\ UNCHANGED frame_cycles
          /\ event_deadline[ev] <= frame_cycles
          /\ sent_vblank_start' = (sent_vblank_start \/ ev = "VBLANK")
          /\ rendered_this_frame' = (rendered_this_frame \/ ev = "RENDER")
    BY <1>5 DEF FireVblank, FireRender, Fires, cpu, Base, Screen
  <2>2. frame_cycles \in Nat /\ frame_cycles < EvNone
    BY FrameFacts DEF Base, Clocks
  <2>3. event_deadline[ev] \in {EvNone, Line144}
    BY DEF Base, Deadlines, FrameDeadline
  <2>4. frame_cycles >= Line144
    BY <2>1, <2>2, <2>3, FrameFacts
  <2> QED BY <2>1, <2>4 DEF VblankInv
<1>6. CASE FireWrap
  BY <1>6 DEF FireWrap, Fires, VblankInv, cpu
<1>7. CASE EndDispatch
  <2>1. /\ UNCHANGED <<lcdc_on, frame_cycles, sent_vblank_start, rendered_this_frame>>
        /\ \A ev \in {"VBLANK", "RENDER"} : event_deadline[ev] > frame_cycles
    BY <1>7 DEF EndDispatch, Ev, lcd, frame
  <2>2. /\ event_deadline["VBLANK"] = FrameDeadline(lcdc_on, sent_vblank_start)
        /\ event_deadline["RENDER"] = FrameDeadline(lcdc_on, rendered_this_frame)
        /\ frame_cycles \in Nat
    BY DEF Base, Deadlines, Clocks
  <2>3. lcdc_on /\ frame_cycles >= Line144 => sent_vblank_start /\ rendered_this_frame
    BY <2>1, <2>2, FrameFacts DEF FrameDeadline
  <2> QED BY <2>1, <2>3 DEF VblankInv
<1>8. CASE FireStat \/ FireSerial \/ FireTima \/ UNCHANGED vars
  BY <1>1, <1>8 DEF FireStat, FireSerial, FireTima, vars, cpu, lcd
<1> QED BY <1>2, <1>3, <1>4, <1>5, <1>6, <1>7, <1>8 DEF Next

THEOREM VblankInvariant == Spec => [](Base /\ VblankInv)
<1>1. Init => Base /\ VblankInv
  <2>1. Init => VblankInv
    BY FrameFacts DEF Init, VblankInv
  <2> QED BY <2>1, InitBase
<1>2. Base /\ VblankInv /\ [Next]_vars => (Base /\ VblankInv)'
  BY NextBase, VblankInvStep
<1> QED BY <1>1, <1>2, PTL DEF Spec

\* With the LCD on, VBLANK has been requested and the frame drawn exactly when
\* the beam is past line 144: neither is lost nor repeated by a frame wrap, an
\* LCD restart or a late sync.
THEOREM VblankAndRenderOncePerFrame == Spec => []VblankOncePerFrame
<1>1. Base /\ VblankInv => VblankOncePerFrame
  BY DEF VblankInv, VblankOncePerFrame, Base, Screen
<1> QED BY <1>1, VblankInvariant, PTL

-----------------------------------------------------------------------------
(* The end of a dispatch: TIMA. *)

WakeInv == phase = "run" /\ timer_control.on /\ "TIMER" \in ie => Bounded("TIMA")

LEMMA BoundedKept ==
  ASSUME NEW ev \in Ev, Bounded(ev),
         UNCHANGED <<wake_limit, double_speed, frame_cycles>>,
         event_deadline'[ev] = event_deadline[ev]
  PROVE  Bounded(ev)'
BY DEF Bounded, Speed

\* A dispatch ends at a deadline that bounds it.
LEMMA BoundedEnds ==
  ASSUME Base, NEW ev \in Ev, phase = "run" => Bounded(ev)
  PROVE  Ends(ev)
<1> SUFFICES ASSUME phase = "run", Crossed(ev), Bounded(ev)
             PROVE  d2 >= wake_limit
  BY DEF Ends
<1>1. /\ Speed \in {1, 2} /\ d2 \div Speed \in Nat /\ Speed * (d2 \div Speed) = d2
      /\ dmg_now_ppu = frame_cycles + (d2 \div Speed)
      /\ frame_cycles \in Nat /\ wake_limit \in Nat /\ event_deadline[ev] \in Nat
      /\ d2 \in Nat
  BY NowFacts, FrameFacts DEF Base, Clocks, Deadlines
<1> DEFINE x == d2 \div Speed
           dl == event_deadline[ev]
<1>2. /\ x \in Nat /\ Speed * x = d2 /\ frame_cycles + x >= dl /\ dl \in Nat
      /\ wake_limit = 0 \/ wake_limit <= Speed * (dl - frame_cycles)
  BY <1>1 DEF Crossed, Bounded
<1> HIDE DEF x, dl
<1>3. CASE Speed = 1
  BY <1>1, <1>2, <1>3
<1>4. CASE Speed = 2
  BY <1>1, <1>2, <1>4
<1> QED BY <1>1, <1>3, <1>4

\* What the end of a dispatch leaves bounds it by every deadline that may end it.
LEMMA EndDispatchBounds ==
  ASSUME Base, EndDispatch, NEW ev \in Waking(ie)
  PROVE  Bounded(ev)'
<1>1. /\ wake_limit' = Speed * dmg_cycles_to_next_event(event_deadline, ie, frame_cycles)
      /\ UNCHANGED <<double_speed, frame_cycles, event_deadline>>
  BY DEF EndDispatch
<1>2. event_deadline \in [Ev -> Nat] /\ frame_cycles \in Nat /\ ev \in Ev
  BY WakingFacts DEF Base, Deadlines, Clocks
<1> DEFINE dist == dmg_cycles_to_next_event(event_deadline, ie, frame_cycles)
           gap == event_deadline[ev] - frame_cycles
<1>3. dist \in Nat /\ gap \in Int /\ (dist = 0 \/ dist <= gap)
  BY <1>2, DistanceFacts
<1>4. Speed \in {1, 2} /\ Speed' = Speed
  BY <1>1 DEF Speed
<1>5. event_deadline'[ev] - frame_cycles' = gap
  BY <1>1
<1> HIDE DEF dist, gap
<1>6. Speed * dist = 0 \/ Speed * dist <= Speed * gap
  BY <1>3, <1>4, ScaledBound
<1> QED BY <1>1, <1>4, <1>5, <1>6 DEF Bounded, dist

\* Every budget update bounds the dispatch by every deadline that may end it.
LEMMA BudgetBounds ==
  ASSUME Base, Base', dmg_budget_update
  PROVE  \A ev \in Waking(ie') : Bounded(ev)'
BY BudgetFacts DEF Base, Clocks, Deadlines

LEMMA TimerIsWaking ==
  ASSUME NEW e, "TIMER" \in e
  PROVE  "TIMA" \in Waking(e)
BY DEF Waking

\* A step of a register write that tells the running dispatch.
LEMMA BudgetWake ==
  ASSUME Base, Base', dmg_budget_update
  PROVE  WakeInv'
<1>1. "TIMER" \in ie' => "TIMA" \in Waking(ie')
  BY TimerIsWaking
<1> QED BY <1>1, BudgetBounds DEF WakeInv

LEMMA QuietWake ==
  ASSUME Base, WakeInv, UNCHANGED <<phase, wake_limit, double_speed, frame_cycles, ie, timer_control>>,
         event_deadline'["TIMA"] = event_deadline["TIMA"]
  PROVE  WakeInv'
BY BoundedKept DEF WakeInv, Ev

LEMMA TimerWriteWake ==
  ASSUME Base, Base', NEW keep, NEW count, NEW control, TimerWrite(keep, count, control)
  PROVE  WakeInv'
<1>1. CASE timer_control'.on
  BY <1>1, BudgetWake DEF TimerWrite, dmg_tima_recompute
<1>2. CASE ~timer_control'.on
  BY <1>2 DEF WakeInv
<1> QED BY <1>1, <1>2

LEMMA WakeInvStep ==
  ASSUME Base, WakeInv, [Next]_vars
  PROVE  WakeInv'
<1>0. Base'
  BY NextBase
<1>1. CASE \/ \E cycles \in Blocks : Run(cycles)
           \/ ReadLy
           \/ \E selected \in Buttons : dmg_set_button(selected)
           \/ UNCHANGED vars
  BY <1>1, QuietWake DEF Run, ReadLy, dmg_set_button, Registers, vars, cpu, irq, timer
<1>2. CASE \E enabled \in ImeWrites : dmg_ei_di(enabled)
  <2>1. PICK enabled \in BOOLEAN : dmg_ei_di(enabled)
    BY <1>2, WriteAssumption
  <2>2. CASE enabled
    BY <1>0, <2>1, <2>2, BudgetWake DEF dmg_ei_di
  <2>3. CASE ~enabled
    BY <2>1, <2>3, QuietWake DEF dmg_ei_di, Registers, timer
  <2> QED BY <2>2, <2>3
<1>3. CASE \E double \in SpeedSwitches : jit_handle_stop(double)
  BY <1>0, <1>3, TimerWriteWake DEF jit_handle_stop
<1>4. CASE WriteRegister
  <2>1. CASE \/ WriteDiv
             \/ \E data \in TimaWrites : WriteTima(data)
             \/ \E control \in TacWrites : WriteTac(control)
    BY <1>0, <2>1, TimerWriteWake DEF WriteDiv, WriteTima, WriteTac
  <2>2. CASE \E data \in TmaWrites : WriteTma(data)
    BY <2>2, QuietWake DEF WriteTma, cpu, irq
  <2>3. CASE \/ \E start \in ScWrites : WriteSc(start)
             \/ \E data \in IfWrites : WriteIf(data)
             \/ \E data \in IeWrites : WriteIe(data)
             \/ \E on \in LcdcWrites : WriteLcdc(on)
             \/ \E sources \in StatWrites : WriteStat(sources)
             \/ \E line \in LycWrites : WriteLyc(line)
    BY <1>0, <2>3, BudgetWake
       DEF WriteSc, WriteIf, WriteIe, WriteLcdc, WriteStat, WriteLyc, WriteLcd
  <2> QED BY <1>4, <2>1, <2>2, <2>3 DEF WriteRegister
<1>5. CASE dmg_sync_hw \/ FireStat \/ FireVblank \/ FireRender \/ FireSerial \/ FireTima \/ FireWrap
  <2>1. phase' = "sync"
    BY <1>5 DEF dmg_sync_hw, FireStat, FireVblank, FireRender, FireSerial, FireTima, FireWrap,
                Fires, cpu
  <2> QED BY <2>1 DEF WakeInv
<1>6. CASE EndDispatch
  <2>1. ie' = ie
    BY <1>6 DEF EndDispatch
  <2> QED BY <1>6, <2>1, TimerIsWaking, EndDispatchBounds DEF WakeInv
<1> QED BY <1>1, <1>2, <1>3, <1>4, <1>5, <1>6 DEF Next

THEOREM WakeInvariant == Spec => [](Base /\ WakeInv)
<1>1. Init => Base /\ WakeInv
  <2>1. Init => WakeInv
    BY DEF Init, WakeInv
  <2> QED BY <2>1, InitBase
<1>2. Base /\ WakeInv /\ [Next]_vars => (Base /\ WakeInv)'
  BY NextBase, WakeInvStep
<1> QED BY <1>1, <1>2, PTL DEF Spec

LEMMA WakeEnds == Base /\ WakeInv => TimerEndsTheDispatch
<1> SUFFICES ASSUME Base, WakeInv, "TIMER" \in ie PROVE Ends("TIMA")
  BY DEF TimerEndsTheDispatch
<1>1. "TIMA" \in Ev
  BY DEF Ev
<1>2. CASE timer_control.on
  BY <1>1, <1>2, BoundedEnds DEF WakeInv
<1>3. CASE ~timer_control.on
  <2> SUFFICES ASSUME phase = "run", Crossed("TIMA") PROVE FALSE
    BY DEF Ends
  <2>1. event_deadline["TIMA"] = EvNone
    BY <1>3 DEF Base, Tima
  <2>2. /\ dmg_now_ppu = frame_cycles + (d2 \div Speed) /\ d2 \div Speed \in Nat
        /\ d2 \div Speed <= d2 /\ d2 <= MaxDispatch /\ d2 \in Nat
        /\ frame_cycles \in Nat /\ frame_cycles < Frame
    BY NowFacts, FrameFacts DEF Base, Clocks
  <2>3. dmg_now_ppu < EvNone
    BY <2>2, FrameFacts
  <2> QED BY <2>1, <2>2, <2>3, FrameFacts DEF Crossed
<1> QED BY <1>2, <1>3

\* The dispatch in which an enabled TIMA overflows ends there, whatever timer
\* register the program wrote meanwhile (dmg_tima_recompute and
\* dmg_budget_update): the program cannot run past the interrupt.
THEOREM ATimerInterruptEndsTheDispatch == Spec => []TimerEndsTheDispatch
BY WakeInvariant, WakeEnds, PTL

-----------------------------------------------------------------------------
(* The end of a dispatch: an interrupt that could be taken. *)

\* A budget update ends the dispatch if an interrupt can be taken.
LEMMA BudgetPending ==
  ASSUME Base, Base', dmg_budget_update
  PROVE  PendingEndsTheDispatch'
<1>1. interrupt_enable' /\ interrupt_request_mask' \cap ie' # {} => wake_limit' = 0
  BY BudgetFacts DEF Base, Clocks, Deadlines
<1>2. d2' >= 0
  BY FrameFacts DEF Base, Clocks
<1> QED BY <1>1, <1>2 DEF PendingEndsTheDispatch

LEMMA QuietPending ==
  ASSUME PendingEndsTheDispatch,
         UNCHANGED <<phase, d2, wake_limit, interrupt_enable, ie>>,
         interrupt_request_mask' \subseteq interrupt_request_mask \cup {"JOYPAD"}
  PROVE  PendingEndsTheDispatch'
BY DEF PendingEndsTheDispatch

LEMMA TimerWritePending ==
  ASSUME Base, Base', WakeInv, PendingEndsTheDispatch,
         NEW keep, NEW count, NEW control, TimerWrite(keep, count, control),
         control = timer_control \/ UNCHANGED double_speed
  PROVE  PendingEndsTheDispatch'
<1>1. /\ phase = "run" /\ timer_control' = control
      /\ UNCHANGED <<phase, d2, frame_cycles, interrupt_enable, ie>>
      /\ interrupt_request_mask' = interrupt_request_mask
           \cup IF dmg_now_ppu' >= event_deadline["TIMA"] THEN {"TIMER"} ELSE {}
  BY DEF TimerWrite, dmg_tima_touch
<1>2. CASE control.on
  BY <1>1, <1>2, BudgetPending DEF TimerWrite, dmg_tima_recompute
<1>3. CASE ~control.on
  <2>1. UNCHANGED wake_limit
    BY <1>1, <1>3 DEF TimerWrite, dmg_tima_recompute
  <2>2. CASE ~(dmg_now_ppu' >= event_deadline["TIMA"])
    BY <1>1, <2>1, <2>2, QuietPending
  <2>3. CASE timer_control.on /\ dmg_now_ppu' >= event_deadline["TIMA"]
    <3>1. UNCHANGED double_speed
      BY <1>3, <2>3
    <3>2. dmg_now_ppu' = dmg_now_ppu
      BY <1>1, <3>1 DEF dmg_now_ppu, Speed
    <3>3. "TIMER" \in ie => d2 >= wake_limit
      BY <1>1, <2>3, <3>2, WakeEnds DEF TimerEndsTheDispatch, Ends, Crossed
    <3>4. CASE "TIMER" \in ie
      BY <1>1, <2>1, <3>3, <3>4 DEF PendingEndsTheDispatch
    <3>5. CASE "TIMER" \notin ie
      <4>1. ie' \cap interrupt_request_mask' \subseteq ie \cap interrupt_request_mask
        BY <1>1, <3>5
      <4> QED BY <1>1, <2>1, <4>1 DEF PendingEndsTheDispatch
    <3> QED BY <3>4, <3>5
  <2>4. CASE ~timer_control.on /\ dmg_now_ppu' >= event_deadline["TIMA"]
    <3>1. event_deadline["TIMA"] = EvNone
      BY <2>4 DEF Base, Tima
    <3>2. Clocks' /\ phase' = "run"
      BY <1>1 DEF Base
    <3>3. /\ d2 \in Nat /\ Even(d2) /\ d2 <= MaxDispatch /\ frame_cycles \in Nat
          /\ frame_cycles < Frame /\ Speed' \in {1, 2} /\ d2' = d2
          /\ frame_cycles' = frame_cycles
      BY <1>1, FrameFacts DEF Base, Clocks, Speed
    <3>4. d2 \div Speed' \in Int /\ d2 \div Speed' <= d2
      <4>1. d2 \in Int /\ d2 >= 0
        BY <3>3
      <4> QED BY Zenon, <3>3, <4>1, SpeedDivision
    <3>5. dmg_now_ppu' = frame_cycles + (d2 \div Speed')
      BY <3>3 DEF dmg_now_ppu
    <3>6. dmg_now_ppu' \in Int /\ dmg_now_ppu' < EvNone
      <4> DEFINE x == d2 \div Speed'
      <4>1. x \in Int /\ x <= d2 /\ dmg_now_ppu' = frame_cycles + x
        BY <3>4, <3>5
      <4>2. d2 \in Nat /\ d2 <= MaxDispatch /\ frame_cycles \in Nat /\ frame_cycles < Frame
        BY <3>3
      <4> HIDE DEF x
      <4> QED BY <4>1, <4>2, FrameFacts
    <3> QED BY <2>4, <3>1, <3>6, FrameFacts
  <2> QED BY <2>2, <2>3, <2>4
<1> QED BY <1>2, <1>3

\* check_interrupts takes an interrupt whenever it can.
LEMMA TakenFacts ==
  ASSUME Base, interrupt_enable, ie \cap interrupt_request_mask # {}
  PROVE  Taken # {}
<1> DEFINE set == interrupt_request_mask \cap ie
           first(n) == /\ interrupt_enable
                       /\ Priority[n] \in set
                       /\ \A m \in 1 .. n - 1 : Priority[m] \notin set
<1>1. Taken = {Priority[k] : k \in {n \in 1 .. 5 : first(n)}}
  BY DEF Taken
<1>2. set \subseteq Interrupt /\ set # {}
  BY DEF Base, Irqs
<1>3. /\ Priority[1] = "VBLANK" /\ Priority[2] = "STAT" /\ Priority[3] = "TIMER"
      /\ Priority[4] = "SERIAL" /\ Priority[5] = "JOYPAD"
  BY DEF Priority
<1> HIDE DEF set
<1>4. \E n \in 1 .. 5 : first(n)
  <2>1. CASE "VBLANK" \in set
    <3>1. first(1)
      BY <1>3, <2>1
    <3> QED BY <3>1
  <2>2. CASE "STAT" \in set /\ "VBLANK" \notin set
    <3>1. \A m \in 1 .. 1 : m = 1
      OBVIOUS
    <3>2. first(2)
      BY <1>3, <2>2, <3>1
    <3> QED BY <3>2
  <2>3. CASE "TIMER" \in set /\ {"VBLANK", "STAT"} \cap set = {}
    <3>1. \A m \in 1 .. 2 : m \in {1, 2}
      OBVIOUS
    <3>2. first(3)
      BY <1>3, <2>3, <3>1
    <3> QED BY <3>2
  <2>4. CASE "SERIAL" \in set /\ {"VBLANK", "STAT", "TIMER"} \cap set = {}
    <3>1. \A m \in 1 .. 3 : m \in {1, 2, 3}
      OBVIOUS
    <3>2. first(4)
      BY <1>3, <2>4, <3>1
    <3> QED BY <3>2
  <2>5. CASE {"VBLANK", "STAT", "TIMER", "SERIAL"} \cap set = {}
    <3>1. \A m \in 1 .. 4 : m \in {1, 2, 3, 4}
      OBVIOUS
    <3>2. "JOYPAD" \in set
      BY <1>2, <2>5 DEF Interrupt
    <3>3. first(5)
      BY <1>3, <2>5, <3>1, <3>2
    <3> QED BY <3>3
  <2> QED BY <2>1, <2>2, <2>3, <2>4, <2>5
<1> HIDE DEF first
<1> QED BY <1>1, <1>4

LEMMA PendingStep ==
  ASSUME Base, WakeInv, PendingEndsTheDispatch, [Next]_vars
  PROVE  PendingEndsTheDispatch'
<1>0. Base'
  BY NextBase
<1>1. CASE \E cycles \in Blocks : Run(cycles)
  <2>1. PICK cycles \in Nat : Run(cycles)
    BY <1>1, CycleAssumption
  <2>2. /\ d2 \in Nat /\ wake_limit \in Nat /\ d2' = d2 + cycles
        /\ UNCHANGED <<phase, wake_limit, interrupt_enable, ie, interrupt_request_mask>>
    BY <2>1, FrameFacts DEF Run, irq, Base, Clocks
  <2> QED BY <2>2 DEF PendingEndsTheDispatch
<1>2. CASE \/ ReadLy
           \/ \E selected \in Buttons : dmg_set_button(selected)
           \/ UNCHANGED vars
  BY <1>2, QuietPending DEF ReadLy, dmg_set_button, Registers, vars, cpu, irq
<1>3. CASE \E enabled \in ImeWrites : dmg_ei_di(enabled)
  <2>1. PICK enabled \in BOOLEAN : dmg_ei_di(enabled)
    BY <1>3, WriteAssumption
  <2>2. CASE enabled
    BY <1>0, <2>1, <2>2, BudgetPending DEF dmg_ei_di
  <2>3. CASE ~enabled
    BY <2>1, <2>3 DEF dmg_ei_di, Registers, PendingEndsTheDispatch
  <2> QED BY <2>2, <2>3
<1>4. CASE \E double \in SpeedSwitches : jit_handle_stop(double)
  BY <1>0, <1>4, TimerWritePending DEF jit_handle_stop
<1>5. CASE WriteRegister
  <2>1. CASE \/ WriteDiv
             \/ \E data \in TimaWrites : WriteTima(data)
             \/ \E control \in TacWrites : WriteTac(control)
    BY <1>0, <2>1, TimerWritePending DEF WriteDiv, WriteTima, WriteTac
  <2>2. CASE \E data \in TmaWrites : WriteTma(data)
    BY <2>2, QuietPending DEF WriteTma, cpu, irq
  <2>3. CASE \/ \E start \in ScWrites : WriteSc(start)
             \/ \E data \in IfWrites : WriteIf(data)
             \/ \E data \in IeWrites : WriteIe(data)
             \/ \E on \in LcdcWrites : WriteLcdc(on)
             \/ \E sources \in StatWrites : WriteStat(sources)
             \/ \E line \in LycWrites : WriteLyc(line)
    BY <1>0, <2>3, BudgetPending
       DEF WriteSc, WriteIf, WriteIe, WriteLcdc, WriteStat, WriteLyc, WriteLcd
  <2> QED BY <1>5, <2>1, <2>2, <2>3 DEF WriteRegister
<1>6. CASE dmg_sync_hw \/ FireStat \/ FireVblank \/ FireRender \/ FireSerial \/ FireTima \/ FireWrap
  <2>1. phase' = "sync"
    BY <1>6 DEF dmg_sync_hw, FireStat, FireVblank, FireRender, FireSerial, FireTima, FireWrap,
                Fires, cpu
  <2> QED BY <2>1 DEF PendingEndsTheDispatch
<1>7. CASE EndDispatch
  <2>1. /\ ie' = ie /\ interrupt_request_mask' \subseteq interrupt_request_mask
        /\ interrupt_enable' = (interrupt_enable /\ Taken = {})
    BY <1>7 DEF EndDispatch
  <2>2. CASE interrupt_enable /\ ie \cap interrupt_request_mask # {}
    BY <2>1, <2>2, TakenFacts DEF PendingEndsTheDispatch
  <2>3. CASE ~interrupt_enable \/ ie \cap interrupt_request_mask = {}
    BY <2>1, <2>3 DEF PendingEndsTheDispatch
  <2> QED BY <2>2, <2>3
<1> QED BY <1>1, <1>2, <1>3, <1>4, <1>5, <1>6, <1>7 DEF Next

\* An interrupt that could be taken ends the dispatch: whichever of a deadline
\* that is absorbed early by a register write, a write of IF or IE and EI comes
\* last (dmg_budget_update and check_interrupts).
THEOREM AnInterruptEndsTheDispatch == Spec => []PendingEndsTheDispatch
<1>1. Init => PendingEndsTheDispatch
  BY DEF Init, PendingEndsTheDispatch
<1>2. Base /\ WakeInv /\ PendingEndsTheDispatch /\ [Next]_vars => PendingEndsTheDispatch'
  BY PendingStep
<1> QED BY <1>1, <1>2, WakeInvariant, PTL DEF Spec

-----------------------------------------------------------------------------
(* The end of a dispatch: every event whose interrupt is enabled.  A program
   may switch to double speed, but not back: dmg_now_ppu is then computed with
   the speed that is left, and a wake_limit for double speed is too far. *)

SpeedsUp == SpeedSwitches \subseteq {TRUE}

\* Nothing is due when a dispatch begins.
AheadInv ==
  phase = "run" => event_deadline["STAT"] >= frame_cycles /\ event_deadline["SERIAL"] >= frame_cycles

LEMMA AllAhead ==
  ASSUME Base, VblankInv, AheadInv, phase = "run", NEW ev \in Ev
  PROVE  event_deadline[ev] \in Nat /\ event_deadline[ev] >= frame_cycles
<1>1. frame_cycles \in Nat /\ frame_cycles < Frame /\ event_deadline[ev] \in Nat
  BY DEF Base, Clocks, Deadlines
<1>2. CASE ev = "WRAP"
  BY <1>1, <1>2, FrameFacts DEF Base, Deadlines
<1>3. CASE ev = "TIMA"
  <2>1. timer_control.on => event_deadline["TIMA"] > frame_cycles
    BY DEF Base, Tima
  <2>2. ~timer_control.on => event_deadline["TIMA"] = EvNone
    BY DEF Base, Tima
  <2> QED BY <1>1, <1>3, <2>1, <2>2, FrameFacts
<1>4. CASE ev \in {"VBLANK", "RENDER"}
  BY <1>1, <1>4, FrameFacts DEF Base, Deadlines, FrameDeadline, VblankInv
<1>5. CASE ev \in {"STAT", "SERIAL"}
  BY <1>1, <1>5 DEF AheadInv
<1> QED BY <1>1, <1>2, <1>3, <1>4, <1>5 DEF Ev

\* Where a write of LCDC, STAT or LYC leaves the beam and the next position.
LEMMA WriteLcdStat ==
  ASSUME ShortDispatch, Base, LyInv, NEW on \in BOOLEAN, NEW sources \in SUBSET Source,
         NEW line \in Nat, NEW both, WriteLcd(on, sources, line, both)
  PROVE  /\ dmg_now_ppu' \in Nat /\ dmg_now_ppu' >= frame_cycles' /\ frame_cycles' \in Nat
         /\ \/ dmg_now_ppu' >= Frame /\ event_deadline'["STAT"] = EvNone
            \/ /\ dmg_now_ppu' < Frame
               /\ \E l \in Nat :
                    /\ l * Line <= dmg_now_ppu' /\ dmg_now_ppu' < (l * Line) + Line
                    /\ \E next \in stat_event_from(dmg_now_ppu', l, on, sources, line) :
                         /\ event_deadline'["STAT"] = next.at
                         /\ stat_event_line' = next.line
<1> DEFINE restart == on /\ ~lcdc_on /\ frame_cycles # 0
           partial == IF restart THEN frame_cycles ELSE 0
           now == dmg_now_ppu - partial
           l == IF restart THEN LyAt(now, 0, 0) ELSE dmg_current_ly
           stats == IF now >= Frame THEN {[at |-> EvNone, line |-> stat_event_line]}
                    ELSE stat_event_from((l.lazy * Line) + l.pos, l.lazy, on, sources, line)
<1>1. /\ phase = "run" /\ UNCHANGED <<d2, double_speed>>
      /\ frame_cycles' = frame_cycles - partial
  BY DEF WriteLcd
<1>2. PICK next \in stats :
        /\ stat_event_line' = next.line
        /\ event_deadline' = [event_deadline EXCEPT
             !["STAT"] = next.at,
             !["TIMA"] = Earlier(@, partial),
             !["SERIAL"] = Earlier(@, partial),
             !["VBLANK"] = IF both THEN FrameDeadline(on, sent_vblank_start') ELSE @,
             !["RENDER"] = IF both THEN FrameDeadline(on, rendered_this_frame') ELSE @]
  BY DEF WriteLcd
<1>3. event_deadline'["STAT"] = next.at
  BY <1>2 DEF Base, Deadlines, Ev
<1>4. /\ dmg_now_ppu \in Nat /\ dmg_now_ppu < 2 * Frame /\ dmg_now_ppu >= frame_cycles
      /\ frame_cycles \in Nat /\ d2 \div Speed \in Nat
      /\ dmg_now_ppu = frame_cycles + (d2 \div Speed)
  BY <1>1, NowBound, NowFacts DEF Base, Clocks
<1>5. partial \in Nat /\ partial <= frame_cycles /\ (restart => partial = frame_cycles)
      /\ (~restart => partial = 0)
  BY <1>4
<1> HIDE DEF partial
<1>6. dmg_now_ppu' = now /\ now \in Nat /\ now >= frame_cycles' /\ now < 2 * Frame
      /\ frame_cycles' \in Nat
  <2>1. dmg_now_ppu' = frame_cycles' + (d2 \div Speed)
    BY <1>1 DEF dmg_now_ppu, Speed
  <2> DEFINE x == d2 \div Speed
  <2>2. x \in Nat /\ dmg_now_ppu = frame_cycles + x /\ dmg_now_ppu' = frame_cycles' + x
    BY <1>4, <2>1
  <2> HIDE DEF x
  <2> QED BY <1>1, <1>4, <1>5, <2>2, FrameFacts
<1> HIDE DEF now
<1>7. l.lazy \in Nat /\ (l.lazy * Line) + l.pos = now % Frame /\ l.pos \in Nat /\ l.pos < Line
  <2>1. 0 < Lines /\ 0 = 0 * Line
    BY FrameFacts
  <2>2. CASE restart
    BY <1>6, <2>1, <2>2, LyStep
  <2>3. CASE ~restart
    BY <1>4, <1>5, <1>6, <2>3, LyStep DEF LyInv, dmg_current_ly, now
  <2> QED BY <2>2, <2>3
<1> HIDE DEF l
<1>8. CASE now >= Frame
  BY <1>2, <1>3, <1>6, <1>8
<1>9. CASE now < Frame
  <2>1. now % Frame = now
    BY <1>6, <1>9, FrameFacts
  <2>2. l.lazy * Line \in Nat
    BY <1>7, FrameFacts
  <2>3. l.lazy * Line <= now /\ now < (l.lazy * Line) + Line
    BY <1>6, <1>7, <2>1, <2>2, FrameFacts
  <2>4. next \in stat_event_from(now, l.lazy, on, sources, line)
    BY <1>2, <1>6, <1>7, <1>9, <2>1, FrameFacts
  <2> QED BY <1>2, <1>3, <1>6, <1>7, <1>9, <2>3, <2>4
<1> QED BY <1>6, <1>8, <1>9, FrameFacts

LEMMA AheadStep ==
  ASSUME ShortDispatch, Base, LyInv, AheadInv, [Next]_vars
  PROVE  AheadInv'
<1>0. /\ event_deadline \in [Ev -> Nat] /\ frame_cycles \in Nat
      /\ "STAT" \in Ev /\ "SERIAL" \in Ev
      /\ event_deadline["STAT"] \in Nat /\ event_deadline["SERIAL"] \in Nat
  BY DEF Base, Deadlines, Clocks, Ev
<1>1. CASE UNCHANGED <<phase, frame_cycles, event_deadline>>
  BY <1>1 DEF AheadInv
<1>2. CASE \/ \E cycles \in Blocks : Run(cycles)
           \/ ReadLy
           \/ \E enabled \in ImeWrites : dmg_ei_di(enabled)
           \/ \E selected \in Buttons : dmg_set_button(selected)
           \/ UNCHANGED vars
  BY <1>1, <1>2 DEF Run, ReadLy, dmg_ei_di, dmg_set_button, Registers, vars, cpu
<1>3. ASSUME NEW keep, NEW count, NEW control, TimerWrite(keep, count, control)
      PROVE  AheadInv'
  <2>1. /\ UNCHANGED <<phase, frame_cycles>>
        /\ \E at : event_deadline' = [event_deadline EXCEPT !["TIMA"] = at]
    BY <1>3 DEF TimerWrite, dmg_tima_recompute
  <2>2. event_deadline'["STAT"] = event_deadline["STAT"]
        /\ event_deadline'["SERIAL"] = event_deadline["SERIAL"]
    BY <1>0, <2>1
  <2> QED BY <2>1, <2>2 DEF AheadInv
<1>4. ASSUME NEW on \in BOOLEAN, NEW sources \in SUBSET Source, NEW line \in Nat, NEW both,
             WriteLcd(on, sources, line, both)
      PROVE  AheadInv'
  <2>1. /\ dmg_now_ppu' \in Nat /\ dmg_now_ppu' >= frame_cycles' /\ frame_cycles' \in Nat
        /\ \/ event_deadline'["STAT"] = EvNone
           \/ \E l \in Nat : \E next \in stat_event_from(dmg_now_ppu', l, on, sources, line) :
                event_deadline'["STAT"] = next.at
    BY <1>4, WriteLcdStat
  <2>2. event_deadline'["STAT"] = EvNone
        \/ (event_deadline'["STAT"] \in Nat /\ event_deadline'["STAT"] >= dmg_now_ppu')
    BY <2>1, StatFromFacts
  <2>3. Base'
    BY NextBase
  <2>4. frame_cycles' < Frame + MaxDispatch
    BY <2>3 DEF Base, Clocks
  <2>5. event_deadline'["STAT"] >= frame_cycles'
    BY <2>1, <2>2, <2>4, FrameFacts
  <2> DEFINE partial == IF on /\ ~lcdc_on /\ frame_cycles # 0 THEN frame_cycles ELSE 0
  <2>6. phase = "run" /\ frame_cycles' = frame_cycles - partial
        /\ event_deadline'["SERIAL"] = Earlier(event_deadline["SERIAL"], partial)
    BY <1>0, <1>4 DEF WriteLcd, Ev
  <2>7. event_deadline["SERIAL"] >= frame_cycles
    BY <2>6 DEF AheadInv
  <2>8. partial \in Nat /\ partial <= frame_cycles
    BY <1>0
  <2> HIDE DEF partial
  <2>9. event_deadline'["SERIAL"] >= frame_cycles'
    BY <1>0, <2>1, <2>4, <2>6, <2>7, <2>8, FrameFacts DEF Earlier
  <2> QED BY <2>5, <2>9 DEF AheadInv
<1>5. CASE \E double \in SpeedSwitches : jit_handle_stop(double)
  BY <1>3, <1>5 DEF jit_handle_stop
<1>6. CASE WriteRegister
  <2>1. CASE \/ WriteDiv
             \/ \E data \in TimaWrites : WriteTima(data)
             \/ \E control \in TacWrites : WriteTac(control)
    BY <1>3, <2>1 DEF WriteDiv, WriteTima, WriteTac
  <2>2. CASE \/ \E data \in TmaWrites : WriteTma(data)
             \/ \E data \in IfWrites : WriteIf(data)
             \/ \E data \in IeWrites : WriteIe(data)
    BY <1>1, <2>2 DEF WriteTma, WriteIf, WriteIe, Registers, cpu
  <2>3. CASE \E start \in ScWrites : WriteSc(start)
    <3>1. PICK start \in BOOLEAN : WriteSc(start)
      BY <2>3, WriteAssumption
    <3> DEFINE at == IF start THEN dmg_now_ppu + (SerialTime \div Speed) ELSE EvNone
    <3>2. /\ phase = "run" /\ UNCHANGED <<phase, frame_cycles>>
          /\ event_deadline' = [event_deadline EXCEPT !["SERIAL"] = at]
      BY <3>1 DEF WriteSc
    <3>3. dmg_now_ppu \in Nat /\ dmg_now_ppu >= frame_cycles /\ Speed \in {1, 2}
      BY <3>2, NowBound DEF Speed
    <3>4. SerialTime \div Speed \in Nat
      BY <3>3, FrameFacts, DivNat
    <3>5. at \in Nat /\ at >= frame_cycles
      BY <1>0, <3>3, <3>4, FrameFacts DEF Base, Clocks
    <3> HIDE DEF at
    <3> QED BY <1>0, <3>2, <3>5 DEF AheadInv
  <2>4. CASE \/ \E on \in LcdcWrites : WriteLcdc(on)
             \/ \E sources \in StatWrites : WriteStat(sources)
             \/ \E line \in LycWrites : WriteLyc(line)
    <3>1. lcdc_on \in BOOLEAN /\ lyc \in Nat /\ stat \in SUBSET Source
      BY DEF Base, Screen
    <3>2. CASE \E on \in LcdcWrites : WriteLcdc(on)
      <4>1. PICK on \in BOOLEAN : WriteLcd(on, stat, lyc, TRUE)
        BY <3>2, WriteAssumption DEF WriteLcdc
      <4> QED BY <1>4, <3>1, <4>1
    <3>3. CASE \E sources \in StatWrites : WriteStat(sources)
      <4>1. PICK sources \in SUBSET Source : WriteLcd(lcdc_on, sources, lyc, FALSE)
        BY <3>3, WriteAssumption DEF WriteStat
      <4> QED BY <1>4, <3>1, <4>1
    <3>4. CASE \E line \in LycWrites : WriteLyc(line)
      <4>1. PICK line \in Nat : WriteLcd(lcdc_on, stat, line, FALSE)
        BY <3>4, WriteAssumption DEF WriteLyc
      <4> QED BY <1>4, <3>1, <4>1
    <3> QED BY <2>4, <3>2, <3>3, <3>4
  <2> QED BY <1>6, <2>1, <2>2, <2>3, <2>4 DEF WriteRegister
<1>7. CASE dmg_sync_hw \/ FireStat \/ FireVblank \/ FireRender \/ FireSerial \/ FireTima \/ FireWrap
  <2>1. phase' = "sync"
    BY <1>7 DEF dmg_sync_hw, FireStat, FireVblank, FireRender, FireSerial, FireTima, FireWrap,
                Fires, cpu
  <2> QED BY <2>1 DEF AheadInv
<1>8. CASE EndDispatch
  <2>1. /\ UNCHANGED <<frame_cycles, event_deadline>>
        /\ event_deadline["STAT"] > frame_cycles /\ event_deadline["SERIAL"] > frame_cycles
    BY <1>0, <1>8 DEF EndDispatch
  <2> QED BY <1>0, <2>1 DEF AheadInv
<1> QED BY <1>2, <1>5, <1>6, <1>7, <1>8 DEF Next

\* The bounds of a dispatch.  wake_limit starts at a whole frame (jit_init), so
\* VBLANK's bound holds from the moment its interrupt is enabled.
EventsInv ==
  phase = "run" =>
    \A ev \in Waking(ie) : (ev = "VBLANK" => "VBLANK" \in ie) => Bounded(ev)

LEMMA BudgetEvents ==
  ASSUME Base, Base', dmg_budget_update
  PROVE  EventsInv'
BY BudgetBounds DEF EventsInv

LEMMA QuietEvents ==
  ASSUME EventsInv,
         UNCHANGED <<phase, wake_limit, double_speed, frame_cycles, ie, event_deadline>>
  PROVE  EventsInv'
BY DEF EventsInv, Bounded, Speed

\* A timer write that stops the timer, or a switch to double speed.
LEMMA TimerWriteEvents ==
  ASSUME Base, Base', VblankInv, AheadInv, EventsInv,
         NEW keep, NEW count, NEW control, TimerWrite(keep, count, control),
         UNCHANGED double_speed \/ (~double_speed /\ double_speed')
  PROVE  EventsInv'
<1>1. CASE timer_control'.on
  BY <1>1, BudgetEvents DEF TimerWrite, dmg_tima_recompute
<1>2. CASE ~timer_control'.on
  <2>1. /\ phase = "run" /\ UNCHANGED <<phase, wake_limit, frame_cycles, ie>>
        /\ event_deadline' = [event_deadline EXCEPT !["TIMA"] = EvNone]
    BY <1>2 DEF TimerWrite, dmg_tima_recompute
  <2>2. event_deadline \in [Ev -> Nat] /\ wake_limit \in Nat /\ frame_cycles \in Nat
        /\ frame_cycles < Frame /\ event_deadline["WRAP"] = Frame
    BY <2>1 DEF Base, Clocks, Deadlines
  <2>3. Speed \in {1, 2} /\ Speed' \in {1, 2} /\ Speed <= Speed'
    BY DEF Speed
  <2> SUFFICES ASSUME NEW ev \in Waking(ie), ev = "VBLANK" => "VBLANK" \in ie
               PROVE  Bounded(ev)'
    BY <2>1 DEF EventsInv
  <2> DEFINE from == IF ev = "TIMA" THEN "WRAP" ELSE ev
  <2>4. Bounded(from) /\ from \in Ev
    <3>1. ev \in Ev /\ "WRAP" \in Waking(ie)
      BY WakingFacts
    <3> QED BY <2>1, <3>1 DEF EventsInv, Ev
  <2>5. event_deadline[from] \in Nat /\ event_deadline[from] >= frame_cycles
    BY <2>1, <2>4, AllAhead
  <2>6. event_deadline'[ev] \in Nat /\ event_deadline'[ev] >= event_deadline[from]
    <3>1. ev \in Ev
      BY WakingFacts
    <3> QED BY <2>1, <2>2, <2>5, <3>1, FrameFacts
  <2> DEFINE old == event_deadline[from] - frame_cycles
             new == event_deadline'[ev] - frame_cycles
  <2>7. old \in Nat /\ new \in Nat /\ old <= new
    BY <2>2, <2>5, <2>6
  <2>8. wake_limit = 0 \/ wake_limit <= Speed * old
    BY <2>4 DEF Bounded
  <2> HIDE DEF old, new
  <2>9. Speed * old <= Speed' * new
    <3>1. CASE Speed = 1 /\ Speed' = 1
      BY <2>7, <3>1
    <3>2. CASE Speed = 1 /\ Speed' = 2
      BY <2>7, <3>2
    <3>3. CASE Speed = 2 /\ Speed' = 2
      BY <2>7, <3>3
    <3> QED BY <2>3, <3>1, <3>2, <3>3
  <2>10. \A s \in {1, 2}, n \in Nat : s * n \in Nat
    OBVIOUS
  <2>11. wake_limit = 0 \/ wake_limit <= Speed' * new
    <3>1. Speed * old \in Nat /\ Speed' * new \in Nat
      BY <2>3, <2>7, <2>10
    <3> QED BY <2>2, <2>8, <2>9, <3>1
  <2> QED BY <2>1, <2>11 DEF Bounded, new
<1> QED BY <1>1, <1>2

LEMMA EventsStep ==
  ASSUME SpeedsUp, Base, VblankInv, AheadInv, EventsInv, [Next]_vars
  PROVE  EventsInv'
<1>0. Base'
  BY NextBase
<1>1. CASE \/ \E cycles \in Blocks : Run(cycles)
           \/ ReadLy
           \/ \E selected \in Buttons : dmg_set_button(selected)
           \/ UNCHANGED vars
  BY <1>1, QuietEvents DEF Run, ReadLy, dmg_set_button, Registers, vars, cpu, irq
<1>2. CASE \E enabled \in ImeWrites : dmg_ei_di(enabled)
  <2>1. PICK enabled \in BOOLEAN : dmg_ei_di(enabled)
    BY <1>2, WriteAssumption
  <2>2. CASE enabled
    BY <1>0, <2>1, <2>2, BudgetEvents DEF dmg_ei_di
  <2>3. CASE ~enabled
    BY <2>1, <2>3, QuietEvents DEF dmg_ei_di, Registers
  <2> QED BY <2>2, <2>3
<1>3. CASE \E double \in SpeedSwitches : jit_handle_stop(double)
  <2>1. PICK double \in SpeedSwitches : jit_handle_stop(double)
    BY <1>3
  <2>2. double = TRUE /\ double # double_speed /\ double_speed' = double
        /\ TimerWrite(TRUE, dmg_tima_read, timer_control)
    BY <2>1 DEF SpeedsUp, jit_handle_stop
  <2>3. ~double_speed /\ double_speed'
    BY <2>2 DEF Base, Clocks
  <2> QED BY <1>0, <2>2, <2>3, TimerWriteEvents
<1>4. CASE WriteRegister
  <2>1. CASE \/ WriteDiv
             \/ \E data \in TimaWrites : WriteTima(data)
             \/ \E control \in TacWrites : WriteTac(control)
    BY <1>0, <2>1, TimerWriteEvents DEF WriteDiv, WriteTima, WriteTac
  <2>2. CASE \E data \in TmaWrites : WriteTma(data)
    BY <2>2, QuietEvents DEF WriteTma, cpu, irq
  <2>3. CASE \/ \E start \in ScWrites : WriteSc(start)
             \/ \E data \in IfWrites : WriteIf(data)
             \/ \E data \in IeWrites : WriteIe(data)
             \/ \E on \in LcdcWrites : WriteLcdc(on)
             \/ \E sources \in StatWrites : WriteStat(sources)
             \/ \E line \in LycWrites : WriteLyc(line)
    BY <1>0, <2>3, BudgetEvents
       DEF WriteSc, WriteIf, WriteIe, WriteLcdc, WriteStat, WriteLyc, WriteLcd
  <2> QED BY <1>4, <2>1, <2>2, <2>3 DEF WriteRegister
<1>5. CASE dmg_sync_hw \/ FireStat \/ FireVblank \/ FireRender \/ FireSerial \/ FireTima \/ FireWrap
  <2>1. phase' = "sync"
    BY <1>5 DEF dmg_sync_hw, FireStat, FireVblank, FireRender, FireSerial, FireTima, FireWrap,
                Fires, cpu
  <2> QED BY <2>1 DEF EventsInv
<1>6. CASE EndDispatch
  <2>1. ie' = ie
    BY <1>6 DEF EndDispatch
  <2> QED BY <1>6, <2>1, EndDispatchBounds DEF EventsInv
<1> QED BY <1>1, <1>2, <1>3, <1>4, <1>5, <1>6 DEF Next

THEOREM EventsInvariant ==
  ASSUME ShortDispatch, SpeedsUp
  PROVE  Spec => [](Base /\ EventsInv)
<1>1. Init => AheadInv
  <2> SUFFICES ASSUME Init PROVE AheadInv
    OBVIOUS
  <2>1. /\ event_deadline["STAT"] = EvNone /\ event_deadline["SERIAL"] = EvNone
        /\ frame_cycles = 0
    BY DEF Init, Ev
  <2> QED BY <2>1, FrameFacts DEF AheadInv
<1>2. Init => EventsInv
  <2> SUFFICES ASSUME Init, NEW ev \in Waking(ie), ev = "VBLANK" => "VBLANK" \in ie
               PROVE  Bounded(ev)
    BY DEF EventsInv
  <2>1. ev = "WRAP"
    BY DEF Init, Waking
  <2>2. event_deadline["WRAP"] = Frame /\ frame_cycles = 0 /\ wake_limit = Frame /\ Speed = 1
    BY DEF Init, Ev, Speed
  <2> QED BY <2>1, <2>2, FrameFacts DEF Bounded
<1>3. Base /\ LyInv /\ AheadInv /\ [Next]_vars => AheadInv'
  BY AheadStep
<1>4. Base /\ VblankInv /\ AheadInv /\ EventsInv /\ [Next]_vars => EventsInv'
  BY EventsStep
<1> QED BY <1>1, <1>2, <1>3, <1>4, LyInvariant, VblankInvariant, PTL DEF Spec

LEMMA EventsEnd == Base /\ EventsInv => EnabledEventsEndTheDispatch
<1> SUFFICES ASSUME Base, EventsInv PROVE EnabledEventsEndTheDispatch
  OBVIOUS
<1>1. ASSUME NEW ev \in Waking(ie), ev = "VBLANK" => "VBLANK" \in ie
      PROVE  Ends(ev)
  <2>1. ev \in Ev
    BY WakingFacts
  <2>2. phase = "run" => Bounded(ev)
    BY <1>1 DEF EventsInv
  <2> QED BY <2>1, <2>2, BoundedEnds
<1>2. /\ "WRAP" \in Waking(ie) /\ "VBLANK" \in Waking(ie)
      /\ "STAT" \in ie => "STAT" \in Waking(ie)
      /\ "SERIAL" \in ie => "SERIAL" \in Waking(ie)
      /\ "TIMER" \in ie => "TIMA" \in Waking(ie)
  BY DEF Waking
<1> HIDE DEF Ends
<1> QED BY <1>1, <1>2 DEF EnabledEventsEndTheDispatch

\* A deadline that matters to the program ends the dispatch that crosses it,
\* although wake_limit is computed before the dispatch and registers, the LCD
\* and the speed change in the middle of it.
THEOREM EnabledEventsEndIt ==
  ASSUME ShortDispatch, SpeedsUp
  PROVE  Spec => []EnabledEventsEndTheDispatch
BY EventsInvariant, EventsEnd, PTL

-----------------------------------------------------------------------------
(* The STAT interrupt. *)

SameSpeed == SpeedSwitches = {}

LinesOf(source, line) ==
  CASE source = "VBLANK" -> {Visible}
    [] source = "MATCH" -> {line} \cap 0 .. Lines - 1
    [] OTHER -> 0 .. Visible - 1

Positions(sources, line) ==
  {p \in Nat : \E source \in sources : \E l \in LinesOf(source, line) :
                 p = (l * Line) + Offset(source)}

LEMMA SamePositions ==
  ASSUME NEW sources \in SUBSET Source, NEW line \in Nat
  PROVE  Positions(sources, line) =
           {l * Line + Hblank : l \in IF "HBLANK" \in sources THEN 0 .. Visible - 1 ELSE {}}
           \cup {l * Line : l \in IF "MODE2" \in sources THEN 0 .. Visible - 1 ELSE {}}
           \cup {l * Line : l \in IF "VBLANK" \in sources THEN {Visible} ELSE {}}
           \cup {l * Line : l \in IF "MATCH" \in sources THEN {line} \cap 0 .. Lines - 1 ELSE {}}
<1>1. \A l \in Nat : l * Line \in Nat /\ (l * Line) + Hblank \in Nat /\ (l * Line) + 0 = l * Line
  BY FrameFacts
<1>2. /\ 0 .. Visible - 1 \subseteq Nat /\ Visible \in Nat
      /\ {line} \cap 0 .. Lines - 1 \subseteq Nat
  BY FrameFacts
<1>3. /\ Offset("HBLANK") = Hblank
      /\ \A source \in {"MODE2", "VBLANK", "MATCH"} : Offset(source) = 0
  BY DEF Offset
<1>4. /\ LinesOf("HBLANK", line) = 0 .. Visible - 1 /\ LinesOf("MODE2", line) = 0 .. Visible - 1
      /\ LinesOf("VBLANK", line) = {Visible} /\ LinesOf("MATCH", line) = {line} \cap 0 .. Lines - 1
  BY DEF LinesOf
<1> DEFINE H == 0 .. Visible - 1
           M == {line} \cap 0 .. Lines - 1
           At(source, L) == {p \in Nat : source \in sources /\ \E l \in L : p = (l * Line) + Offset(source)}
<1> HIDE DEF H, M
<1>5. Positions(sources, line)
        = At("HBLANK", H) \cup At("MODE2", H) \cup At("VBLANK", {Visible}) \cup At("MATCH", M)
  BY <1>4 DEF Positions, Source, H, M
<1>6. /\ At("HBLANK", H) = {(l * Line) + Hblank : l \in IF "HBLANK" \in sources THEN H ELSE {}}
      /\ At("MODE2", H) = {l * Line : l \in IF "MODE2" \in sources THEN H ELSE {}}
      /\ At("VBLANK", {Visible}) = {l * Line : l \in IF "VBLANK" \in sources THEN {Visible} ELSE {}}
      /\ At("MATCH", M) = {l * Line : l \in IF "MATCH" \in sources THEN M ELSE {}}
  <2>1. H \subseteq Nat /\ M \subseteq Nat /\ Visible \in Nat
    BY <1>2 DEF H, M
  <2>2. At("HBLANK", H) = {(l * Line) + Hblank : l \in IF "HBLANK" \in sources THEN H ELSE {}}
    BY <1>1, <1>3, <2>1
  <2>3. At("MODE2", H) = {l * Line : l \in IF "MODE2" \in sources THEN H ELSE {}}
    BY <1>1, <1>3, <2>1
  <2>4. At("VBLANK", {Visible}) = {l * Line : l \in IF "VBLANK" \in sources THEN {Visible} ELSE {}}
    BY <1>1, <1>3, <2>1
  <2>5. At("MATCH", M) = {l * Line : l \in IF "MATCH" \in sources THEN M ELSE {}}
    BY <1>1, <1>3, <2>1
  <2> QED BY <2>2, <2>3, <2>4, <2>5
<1> QED BY <1>5, <1>6 DEF H, M

\* The search of one source, from a position in from_line or at its end.
LEMMA SourceIsFirst ==
  ASSUME NEW source \in Source, NEW from \in Nat, NEW from_line \in Nat, NEW line \in Nat,
         from_line * Line <= from, from <= (from_line + 1) * Line,
         NEW l \in LinesOf(source, line), NEW p, p = (l * Line) + Offset(source), p >= from,
         NEW found, found = SourceAt(source, from, from_line, line)
  PROVE  found.at \in Nat /\ found.at <= p /\ found.at < Frame
<1> DEFINE m == CASE source = "VBLANK" -> Visible
                  [] source = "MATCH" -> line
                  [] OTHER -> IF (from_line * Line) + Offset(source) < from
                              THEN from_line + 1 ELSE from_line
           at == (m * Line) + Offset(source)
<1>1. found = [at |-> IF m <= LastLine(source) /\ at >= from THEN at ELSE EvNone, line |-> m]
  BY DEF SourceAt, Offset, LastLine
<1>2. Offset(source) \in Nat /\ Offset(source) < Line
  BY RasterAssumption, FrameFacts DEF Offset
<1>3. l \in Nat /\ l <= LastLine(source) /\ LastLine(source) \in Int /\ LastLine(source) <= Lines - 1
  BY RasterAssumption, FrameFacts DEF LinesOf, LastLine, Source
<1>4. m \in Nat /\ m <= l /\ at >= from
  <2>1. CASE source \in {"VBLANK", "MATCH"}
    <3>1. m = l
      BY <2>1 DEF LinesOf
    <3> QED BY <1>3, <3>1
  <2>2. CASE source \in {"HBLANK", "MODE2"}
    <3> DEFINE o == Offset(source)
               a == from_line * Line
               b == (from_line + 1) * Line
    <3>1. a \in Nat /\ b = a + Line /\ o \in Nat /\ o < Line
      BY <1>2, FrameFacts
    <3>2. l * Line \in Nat /\ (l * Line) + o >= from
      BY <1>3, FrameFacts
    <3>3. CASE a + o < from
      <4>1. m = from_line + 1
        BY <2>2, <3>3
      <4>2. from_line + 1 <= l
        <5> SUFFICES ASSUME l <= from_line PROVE FALSE
          BY <1>3
        <5>1. l * Line <= a
          BY <1>3, FrameFacts, ProductMonotone
        <5> HIDE DEF a, b, o
        <5> QED BY <3>1, <3>2, <3>3, <5>1
      <4>3. b + o >= from
        <5>1. from <= b
          OBVIOUS
        <5> HIDE DEF a, b, o
        <5> QED BY <3>1, <5>1
      <4> QED BY <4>1, <4>2, <4>3
    <3>4. CASE ~(a + o < from)
      <4>1. m = from_line
        BY <2>2, <3>4
      <4>2. from_line <= l
        <5> SUFFICES ASSUME l + 1 <= from_line PROVE FALSE
          BY <1>3
        <5>1. (l + 1) * Line <= a
          BY <1>3, FrameFacts, ProductMonotone
        <5>2. (l + 1) * Line = (l * Line) + Line
          BY <1>3, FrameFacts
        <5>3. a <= from
          OBVIOUS
        <5> HIDE DEF a, b, o
        <5> QED BY <3>1, <3>2, <5>1, <5>2, <5>3, FrameFacts
      <4>3. a + o >= from
        <5> HIDE DEF a, o
        <5> QED BY <3>1, <3>4
      <4> QED BY <4>1, <4>2, <4>3
    <3> QED BY <3>3, <3>4
  <2> QED BY <2>1, <2>2 DEF Source
<1> HIDE DEF m
<1>5. m * Line <= l * Line /\ m * Line \in Nat /\ l * Line \in Nat
  BY <1>3, <1>4, FrameFacts, ProductMonotone
<1>6. at <= p /\ at \in Nat
  BY <1>2, <1>5
<1>7. m <= LastLine(source) /\ m <= Lines - 1
  BY <1>3, <1>4, FrameFacts
<1>8. at < Frame
  BY <1>2, <1>4, <1>7, FrameFacts, InFrame DEF Frame
<1>9. found.at = at
  BY <1>1, <1>4, <1>7
<1> QED BY <1>6, <1>8, <1>9

\* stat_event_from finds a position of an enabled source, and the first.
LEMMA StatFromIsFirst ==
  ASSUME NEW from \in Nat, NEW from_line \in Nat, NEW sources \in SUBSET Source, NEW line \in Nat,
         from_line * Line <= from, from <= (from_line + 1) * Line,
         NEW next \in stat_event_from(from, from_line, TRUE, sources, line)
  PROVE  /\ next.at = EvNone
            \/ /\ next.at \in Positions(sources, line)
               /\ \E offset \in {0, Hblank} : next.at = (next.line * Line) + offset
         /\ \A p \in Positions(sources, line) : p >= from => next.at <= p
<1> DEFINE found == {f \in {SourceAt(s, from, from_line, line) : s \in sources} : f.at # EvNone}
<1>1. next \in IF found = {} THEN {[at |-> EvNone, line |-> 0]}
               ELSE {f \in found : \A g \in found : f.at <= g.at}
  BY DEF stat_event_from
<1>2. ASSUME NEW p \in Positions(sources, line), p >= from
      PROVE  found # {} /\ next.at <= p
  <2>1. PICK source \in sources : \E l \in LinesOf(source, line) : p = (l * Line) + Offset(source)
    BY <1>2 DEF Positions
  <2>2. PICK l \in LinesOf(source, line) : p = (l * Line) + Offset(source)
    BY <2>1
  <2> DEFINE g == SourceAt(source, from, from_line, line)
  <2>3. g.at \in Nat /\ g.at <= p /\ g.at < Frame
    <3>1. source \in Source
      OBVIOUS
    <3> QED BY <1>2, <2>2, <3>1, SourceIsFirst
  <2>4. g.at # EvNone
    BY <2>3, FrameFacts
  <2>5. g \in found
    BY <2>4
  <2> HIDE DEF g
  <2>6. next.at <= g.at /\ next \in found
    <3> HIDE DEF found
    <3> QED BY <1>1, <2>5
  <2>7. PICK s \in sources : next = SourceAt(s, from, from_line, line)
    BY <2>6
  <2>8. next.at \in Nat
    BY <2>7, SourceFacts
  <2>9. p \in Nat
    BY <1>2 DEF Positions
  <2> QED BY <2>3, <2>5, <2>6, <2>8, <2>9
<1>3. CASE found = {}
  <2>1. next.at = EvNone
    BY <1>1, <1>3
  <2> QED BY <1>2, <1>3, <2>1
<1>4. CASE found # {}
  <2>1. PICK s \in sources : next = SourceAt(s, from, from_line, line)
    BY <1>1, <1>4
  <2>2. next.at # EvNone
    BY <1>1, <1>4
  <2>3. /\ next.line \in Nat /\ next.at \in Nat /\ next.at = (next.line * Line) + Offset(s)
        /\ next.line <= LastLine(s) /\ s \in Source
    BY <2>1, <2>2, SourceFacts
  <2>4. next.line \in LinesOf(s, line)
    <3>1. CASE s = "VBLANK"
      BY <2>1, <3>1 DEF SourceAt, LinesOf
    <3>2. CASE s = "MATCH"
      BY <2>1, <2>3, <3>2, FrameFacts DEF SourceAt, LinesOf, LastLine
    <3>3. CASE s \in {"HBLANK", "MODE2"}
      <4>1. LinesOf(s, line) = 0 .. Visible - 1 /\ LastLine(s) = Visible - 1
        BY <3>3 DEF LinesOf, LastLine
      <4> QED BY <2>3, <4>1, FrameFacts
    <3> QED BY <2>3, <3>1, <3>2, <3>3 DEF Source
  <2>5. next.at \in Positions(sources, line)
    BY <2>3, <2>4 DEF Positions
  <2>6. Offset(s) \in {0, Hblank}
    BY DEF Offset
  <2> QED BY <1>2, <2>3, <2>5, <2>6
<1> QED BY <1>3, <1>4

Beam == IF phase = "run" THEN dmg_now_ppu ELSE frame_cycles

StatInv ==
  lcdc_on =>
    /\ event_deadline["STAT"] = EvNone
       \/ /\ event_deadline["STAT"] \in Positions(stat, lyc)
          /\ \E offset \in {0, Hblank} : event_deadline["STAT"] = (stat_event_line * Line) + offset
    /\ \A p \in Positions(stat, lyc) : p > Beam => event_deadline["STAT"] <= p

\* The beam moves on, and nothing that STAT depends on changes.
LEMMA QuietStat ==
  ASSUME StatInv, Beam \in Int, Beam' \in Int, Beam' >= Beam, UNCHANGED lcd,
         event_deadline'["STAT"] = event_deadline["STAT"]
  PROVE  StatInv'
<1>1. UNCHANGED <<lcdc_on, stat, lyc, stat_event_line>>
  BY DEF lcd
<1>2. \A p \in Positions(stat, lyc) : p \in Nat /\ (p > Beam' => p > Beam)
  BY DEF Positions
<1>3. Positions(stat, lyc)' = Positions(stat, lyc)
  BY <1>1 DEF Positions
<1> HIDE DEF Beam
<1> QED BY <1>1, <1>2, <1>3 DEF StatInv

\* The search has been done again from here.
LEMMA FoundStat ==
  ASSUME Base', NEW from \in Nat, NEW from_line \in Nat,
         from_line * Line <= from, from <= (from_line + 1) * Line,
         lcdc_on' => Beam' + 1 >= from,
         NEW next \in stat_event_from(from, from_line, lcdc_on', stat', lyc'),
         event_deadline'["STAT"] = next.at, stat_event_line' = next.line
  PROVE  StatInv'
<1> SUFFICES ASSUME lcdc_on'
             PROVE  /\ next.at = EvNone
                       \/ /\ next.at \in Positions(stat', lyc')
                          /\ \E offset \in {0, Hblank} : next.at = (next.line * Line) + offset
                    /\ \A p \in Positions(stat', lyc') : p > Beam' => next.at <= p
  <2>1. Positions(stat, lyc)' = Positions(stat', lyc')
    BY DEF Positions
  <2> HIDE DEF Beam
  <2> QED BY <2>1 DEF StatInv
<1>1. stat' \in SUBSET Source /\ lyc' \in Nat /\ lcdc_on' = TRUE
  BY DEF Base, Screen
<1>2. Beam' \in Nat
  BY NextNowIsNat DEF Base, Clocks, Beam
<1>3. \A p \in Positions(stat', lyc') : p \in Nat /\ (p > Beam' => p >= from)
  <2>1. Beam' + 1 >= from
    BY Zenon
  <2>2. \A p \in Positions(stat', lyc') : p \in Nat
    BY DEF Positions
  <2> QED BY <1>2, <2>1, <2>2
<1>4. next \in stat_event_from(from, from_line, TRUE, stat', lyc')
  BY Zenon, <1>1
<1>5. /\ next.at = EvNone
         \/ /\ next.at \in Positions(stat', lyc')
            /\ \E offset \in {0, Hblank} : next.at = (next.line * Line) + offset
      /\ \A p \in Positions(stat', lyc') : p >= from => next.at <= p
  BY <1>1, <1>4, StatFromIsFirst
<1> QED BY Zenon, <1>3, <1>5

LEMMA PositionsInFrame ==
  ASSUME NEW sources \in SUBSET Source, NEW line \in Nat, NEW p \in Positions(sources, line)
  PROVE  p \in Nat /\ p < Frame
<1>1. PICK source \in sources : \E l \in LinesOf(source, line) : p = (l * Line) + Offset(source)
  BY DEF Positions
<1>2. PICK l \in LinesOf(source, line) : p = (l * Line) + Offset(source)
  BY <1>1
<1>3. l \in Nat /\ l <= Lines - 1
  BY RasterAssumption, FrameFacts DEF LinesOf, Source
<1>4. Offset(source) \in Nat /\ Offset(source) < Line
  BY RasterAssumption, FrameFacts DEF Offset
<1>5. (l * Line) + Offset(source) < Lines * Line /\ l * Line \in Nat
  BY <1>3, <1>4, FrameFacts, InFrame
<1> QED BY <1>2, <1>4, <1>5 DEF Frame

LEMMA BeamIsNat == Base => Beam \in Nat
BY NowIsNat DEF Base, Clocks, Beam

\* The beam stays where it is.
LEMMA StillStat ==
  ASSUME Base, StatInv, UNCHANGED <<phase, d2, double_speed, frame_cycles>>, UNCHANGED lcd,
         event_deadline'["STAT"] = event_deadline["STAT"]
  PROVE  StatInv'
<1>1. Beam' = Beam
  BY DEF Beam, dmg_now_ppu, Speed
<1>2. Beam \in Nat
  BY BeamIsNat
<1>3. Beam \in Int /\ Beam' \in Int /\ Beam' >= Beam
  BY <1>1, <1>2
<1> QED BY <1>3, QuietStat

LEMMA OtherDeadline ==
  ASSUME NEW ev \in Ev \ {"STAT"}, NEW at, event_deadline \in [Ev -> Nat],
         event_deadline' = [event_deadline EXCEPT ![ev] = at]
  PROVE  event_deadline'["STAT"] = event_deadline["STAT"]
BY DEF Ev

LEMMA WriteLcdStatInv ==
  ASSUME ShortDispatch, Base, Base', LyInv, NEW on \in BOOLEAN, NEW sources \in SUBSET Source,
         NEW line \in Nat, NEW both, WriteLcd(on, sources, line, both)
  PROVE  StatInv'
<1>1. phase' = "run" /\ lcdc_on' = on /\ stat' = sources /\ lyc' = line
  BY DEF WriteLcd
<1>2. Beam' = dmg_now_ppu'
  BY <1>1 DEF Beam
<1>3. dmg_now_ppu' \in Nat
  BY WriteLcdStat
<1>4. Beam' + 1 >= dmg_now_ppu'
  <2>1. \A n \in Nat : n + 1 >= n
    OBVIOUS
  <2>2. dmg_now_ppu' + 1 >= dmg_now_ppu'
    BY Zenon, <1>3, <2>1
  <2> QED BY Zenon, <1>2, <2>2
<1>5. CASE dmg_now_ppu' >= Frame /\ event_deadline'["STAT"] = EvNone
  <2>1. \A p \in Positions(sources, line) : ~(p > Beam')
    BY <1>2, <1>3, <1>5, PositionsInFrame, FrameFacts
  <2>2. Positions(stat, lyc)' = Positions(sources, line)
    BY <1>1 DEF Positions
  <2> QED BY <1>5, <2>1, <2>2 DEF StatInv
<1>6. ASSUME NEW l \in Nat, l * Line <= dmg_now_ppu', dmg_now_ppu' < (l * Line) + Line,
             NEW next \in stat_event_from(dmg_now_ppu', l, on, sources, line),
             event_deadline'["STAT"] = next.at, stat_event_line' = next.line
      PROVE  StatInv'
  <2> DEFINE from == dmg_now_ppu'
  <2>1. from \in Nat /\ l * Line <= from
    BY <1>3, <1>6
  <2>2. from <= (l + 1) * Line
    <3>1. (l + 1) * Line = (l * Line) + Line /\ l * Line \in Nat
      BY FrameFacts
    <3> HIDE DEF from
    <3>2. from < (l * Line) + Line
      BY <1>6 DEF from
    <3> QED BY <2>1, <3>1, <3>2, FrameFacts
  <2>3. Beam' + 1 >= from
    BY <1>4
  <2>4. next \in stat_event_from(from, l, lcdc_on', stat', lyc')
    BY <1>1
  <2> HIDE DEF from
  <2> QED BY <1>6, <2>1, <2>2, <2>3, <2>4, FoundStat
<1> QED BY <1>5, <1>6, WriteLcdStat

LEMMA FireStatStatInv ==
  ASSUME Base, Base', StatInv, FireStat
  PROVE  StatInv'
<1> DEFINE dl == event_deadline["STAT"]
<1>1. /\ phase = "sync" /\ phase' = "sync" /\ UNCHANGED <<frame_cycles, lcdc_on, stat, lyc>>
      /\ dl <= frame_cycles
  BY DEF FireStat, Fires, cpu
<1>2. PICK next \in stat_event_from(dl + 1, stat_event_line, lcdc_on, stat, lyc) :
        /\ event_deadline' = [event_deadline EXCEPT !["STAT"] = next.at]
        /\ stat_event_line' = next.line
  BY DEF FireStat
<1>3. /\ event_deadline \in [Ev -> Nat] /\ dl \in Nat /\ stat_event_line \in Nat
      /\ frame_cycles \in Nat /\ frame_cycles < Frame + MaxDispatch
  BY DEF Base, Deadlines, Clocks, Screen, Ev
<1>4. event_deadline'["STAT"] = next.at
  BY <1>2, <1>3 DEF Ev
<1>5. dl # EvNone
  BY <1>1, <1>3, FrameFacts
<1>6. CASE ~lcdc_on
  BY <1>1, <1>6 DEF StatInv
<1>7. CASE lcdc_on
  <2>1. PICK offset \in {0, Hblank} : dl = (stat_event_line * Line) + offset
    BY <1>5, <1>7 DEF StatInv
  <2>2. offset \in Nat /\ offset + 1 <= Line
    BY <2>1, RasterAssumption, FrameFacts
  <2>3. stat_event_line * Line \in Nat
        /\ (stat_event_line + 1) * Line = (stat_event_line * Line) + Line
    BY <1>3, FrameFacts
  <2>4. stat_event_line * Line <= dl + 1 /\ dl + 1 <= (stat_event_line + 1) * Line
    BY <2>1, <2>2, <2>3, FrameFacts
  <2>5. Beam' = frame_cycles
    BY <1>1 DEF Beam
  <2>6. lcdc_on' => Beam' + 1 >= dl + 1
    BY <1>1, <1>3, <2>5
  <2>7. next \in stat_event_from(dl + 1, stat_event_line, lcdc_on', stat', lyc')
    BY <1>1
  <2>8. dl + 1 \in Nat
    BY <1>3
  <2> QED BY <1>2, <1>3, <1>4, <2>4, <2>6, <2>7, <2>8, FoundStat
<1> QED BY <1>6, <1>7

LEMMA FireWrapStatInv ==
  ASSUME Base, Base', FireWrap
  PROVE  StatInv'
<1>1. UNCHANGED <<lcdc_on, stat, lyc>> /\ phase' = "sync"
  BY DEF FireWrap, Fires, cpu
<1>2. Beam' \in Nat
  BY <1>1 DEF Beam, Base, Clocks
<1>3. 0 * Line <= 0 /\ 0 <= (0 + 1) * Line
  BY FrameFacts
<1>4. Beam' + 1 >= 0
  <2>1. \A n \in Nat : n + 1 >= 0
    OBVIOUS
  <2> QED BY Zenon, <1>2, <2>1
<1>5. PICK next \in stat_event_from(0, 0, lcdc_on, stat, lyc) :
        event_deadline'["STAT"] = next.at /\ stat_event_line' = next.line
  BY DEF FireWrap, Base, Deadlines, Ev
<1>6. next \in stat_event_from(0, 0, lcdc_on', stat', lyc')
  BY <1>1
<1> QED BY <1>5, <1>3, <1>4, <1>6, FoundStat

LEMMA StatStep ==
  ASSUME ShortDispatch, SameSpeed, Base, LyInv, StatInv, [Next]_vars
  PROVE  StatInv'
<1>0. Base' /\ event_deadline \in [Ev -> Nat]
  BY NextBase DEF Base, Deadlines
<1>1. CASE \E cycles \in Blocks : Run(cycles)
  <2>1. PICK cycles \in Blocks : Run(cycles)
    BY <1>1
  <2>2. cycles \in Nat
    BY CycleAssumption
  <2>3. /\ phase = "run" /\ UNCHANGED <<phase, double_speed, frame_cycles, event_deadline>>
        /\ UNCHANGED lcd /\ d2' = d2 + cycles
    BY <2>1 DEF Run
  <2>4. /\ d2 \in Nat /\ d2' \in Nat /\ Even(d2) /\ Even(d2') /\ frame_cycles \in Nat
        /\ Speed \in {1, 2} /\ Speed' = Speed
    BY <1>0, <2>3, FrameFacts DEF Base, Clocks, Speed
  <2> DEFINE x == d2 \div Speed
             y == d2' \div Speed
  <2>5. x \in Int /\ Speed * x = d2 /\ y \in Int /\ Speed * y = d2'
    <3>1. d2 \in Int /\ d2' \in Int
      BY <2>4
    <3> QED BY Zenon, <2>4, <3>1, SpeedDivision
  <2>6. Beam = frame_cycles + x /\ Beam' = frame_cycles + y
    BY <2>3, <2>4 DEF Beam, dmg_now_ppu
  <2> HIDE DEF x, y
  <2>7. x <= y
    <3>1. CASE Speed = 1
      BY <2>2, <2>3, <2>4, <2>5, <3>1
    <3>2. CASE Speed = 2
      BY <2>2, <2>3, <2>4, <2>5, <3>2
    <3> QED BY <2>4, <3>1, <3>2
  <2>8. Beam \in Int /\ Beam' \in Int /\ Beam' >= Beam
    BY <2>4, <2>5, <2>6, <2>7
  <2> QED BY <2>3, <2>8, QuietStat
<1>2. CASE \/ ReadLy
           \/ \E enabled \in ImeWrites : dmg_ei_di(enabled)
           \/ \E selected \in Buttons : dmg_set_button(selected)
           \/ UNCHANGED vars
  BY <1>2, StillStat DEF ReadLy, dmg_ei_di, dmg_set_button, Registers, vars, cpu
<1>3. CASE \E double \in SpeedSwitches : jit_handle_stop(double)
  BY <1>3 DEF SameSpeed
<1>4. CASE WriteRegister
  <2>1. ASSUME NEW keep, NEW count, NEW control, TimerWrite(keep, count, control),
               UNCHANGED double_speed
        PROVE  StatInv'
    <3>1. /\ UNCHANGED <<phase, d2, frame_cycles>> /\ UNCHANGED lcd
          /\ \E at : event_deadline' = [event_deadline EXCEPT !["TIMA"] = at]
      BY <2>1 DEF TimerWrite, dmg_tima_recompute
    <3>2. event_deadline'["STAT"] = event_deadline["STAT"]
      BY <1>0, <3>1, OtherDeadline DEF Ev
    <3> QED BY <2>1, <3>1, <3>2, StillStat
  <2>2. CASE \/ WriteDiv
             \/ \E data \in TimaWrites : WriteTima(data)
             \/ \E control \in TacWrites : WriteTac(control)
    BY <2>1, <2>2 DEF WriteDiv, WriteTima, WriteTac
  <2>3. CASE \/ \E data \in TmaWrites : WriteTma(data)
             \/ \E data \in IfWrites : WriteIf(data)
             \/ \E data \in IeWrites : WriteIe(data)
    BY <2>3, StillStat DEF WriteTma, WriteIf, WriteIe, Registers, cpu
  <2>4. CASE \E start \in ScWrites : WriteSc(start)
    <3>1. /\ UNCHANGED <<phase, d2, double_speed, frame_cycles>> /\ UNCHANGED lcd
          /\ \E at : event_deadline' = [event_deadline EXCEPT !["SERIAL"] = at]
      BY <2>4 DEF WriteSc
    <3>2. event_deadline'["STAT"] = event_deadline["STAT"]
      BY <1>0, <3>1, OtherDeadline DEF Ev
    <3> QED BY <3>1, <3>2, StillStat
  <2>5. CASE \/ \E on \in LcdcWrites : WriteLcdc(on)
             \/ \E sources \in StatWrites : WriteStat(sources)
             \/ \E line \in LycWrites : WriteLyc(line)
    <3>1. lcdc_on \in BOOLEAN /\ lyc \in Nat /\ stat \in SUBSET Source
      BY DEF Base, Screen
    <3>2. CASE \E on \in LcdcWrites : WriteLcdc(on)
      <4>1. PICK on \in BOOLEAN : WriteLcd(on, stat, lyc, TRUE)
        BY <3>2, WriteAssumption DEF WriteLcdc
      <4> QED BY <1>0, <3>1, <4>1, WriteLcdStatInv
    <3>3. CASE \E sources \in StatWrites : WriteStat(sources)
      <4>1. PICK sources \in SUBSET Source : WriteLcd(lcdc_on, sources, lyc, FALSE)
        BY <3>3, WriteAssumption DEF WriteStat
      <4> QED BY <1>0, <3>1, <4>1, WriteLcdStatInv
    <3>4. CASE \E line \in LycWrites : WriteLyc(line)
      <4>1. PICK line \in Nat : WriteLcd(lcdc_on, stat, line, FALSE)
        BY <3>4, WriteAssumption DEF WriteLyc
      <4> QED BY <1>0, <3>1, <4>1, WriteLcdStatInv
    <3> QED BY <2>5, <3>2, <3>3, <3>4
  <2> QED BY <1>4, <2>2, <2>3, <2>4, <2>5 DEF WriteRegister
<1>5. CASE dmg_sync_hw
  <2>1. /\ UNCHANGED lcd /\ UNCHANGED event_deadline
        /\ phase = "run" /\ phase' = "sync" /\ frame_cycles' = dmg_now_ppu
    BY <1>5 DEF dmg_sync_hw
  <2>2. Beam' = Beam /\ Beam \in Nat
    BY <2>1, BeamIsNat DEF Beam
  <2>3. Beam \in Int /\ Beam' \in Int /\ Beam' >= Beam
    BY <2>2
  <2> QED BY <2>1, <2>3, QuietStat
<1>6. CASE FireStat
  BY <1>0, <1>6, FireStatStatInv
<1>7. CASE FireWrap
  BY <1>0, <1>7, FireWrapStatInv
<1>8. CASE FireVblank \/ FireRender \/ FireSerial \/ FireTima
  <2>1. /\ UNCHANGED cpu /\ UNCHANGED frame_cycles /\ UNCHANGED lcd
        /\ \E ev \in Ev \ {"STAT"} : \E at : event_deadline' = [event_deadline EXCEPT ![ev] = at]
    BY <1>8 DEF FireVblank, FireRender, FireSerial, FireTima, Ev
  <2>2. event_deadline'["STAT"] = event_deadline["STAT"]
    BY <1>0, <2>1, OtherDeadline
  <2> QED BY <2>1, <2>2, StillStat DEF cpu
<1>9. CASE EndDispatch
  <2>1. /\ UNCHANGED <<event_deadline, frame_cycles, double_speed>> /\ UNCHANGED lcd
        /\ phase = "sync" /\ phase' = "run" /\ d2' = 0
    BY <1>9 DEF EndDispatch
  <2>2. 0 \div Speed = 0
    <3>1. Speed = 1 \/ Speed = 2
      BY DEF Speed
    <3> QED BY <3>1
  <2>3. dmg_now_ppu' = frame_cycles + (0 \div Speed) /\ frame_cycles \in Nat
    BY <2>1 DEF dmg_now_ppu, Speed, Base, Clocks
  <2>4. Beam' = frame_cycles /\ Beam = frame_cycles /\ frame_cycles \in Nat
    BY <2>1, <2>2, <2>3 DEF Beam
  <2>5. Beam \in Int /\ Beam' \in Int /\ Beam' >= Beam
    BY <2>4
  <2> QED BY <2>1, <2>5, QuietStat
<1> QED BY <1>1, <1>2, <1>3, <1>4, <1>5, <1>6, <1>7, <1>8, <1>9 DEF Next

THEOREM StatInvariant ==
  ASSUME ShortDispatch, SameSpeed
  PROVE  Spec => [](Base /\ StatInv)
<1>1. Init => StatInv
  <2> SUFFICES ASSUME Init PROVE StatInv
    OBVIOUS
  <2>1. event_deadline["STAT"] = EvNone /\ stat = {}
    BY DEF Init, Ev
  <2>2. Positions(stat, lyc) = {}
    BY <2>1 DEF Positions
  <2> QED BY <2>1, <2>2 DEF StatInv
<1>2. Base /\ LyInv /\ StatInv /\ [Next]_vars => StatInv'
  BY StatStep
<1> QED BY <1>1, <1>2, LyInvariant, PTL DEF Spec

\* No STAT position of an enabled source is passed over: not by a write of
\* LCDC, STAT or LYC in mid-line, a late sync, a frame wrap or an LCD restart
\* (stat_event_from, dmg_stat_touch and the STAT case of dmg_sync_hw).
THEOREM NoStatPositionIsMissed ==
  ASSUME ShortDispatch, SameSpeed
  PROVE  Spec => []StatEventsNotMissed
<1>1. ASSUME Base, StatInv PROVE StatEventsNotMissed
  <2> SUFFICES ASSUME phase = "run", lcdc_on
               PROVE  /\ event_deadline["STAT"] \in StatPositions \cup {EvNone}
                      /\ \A at \in StatPositions :
                           at > dmg_now_ppu => event_deadline["STAT"] <= at
    BY DEF StatEventsNotMissed
  <2>1. StatPositions = Positions(stat, lyc)
    <3>1. stat \in SUBSET Source /\ lyc \in Nat
      BY <1>1 DEF Base, Screen
    <3> QED BY <3>1, SamePositions DEF StatPositions
  <2>2. Beam = dmg_now_ppu
    BY DEF Beam
  <2> QED BY <1>1, <2>1, <2>2 DEF StatInv
<1> QED BY <1>1, StatInvariant, PTL

-----------------------------------------------------------------------------
(* The timer of the scheduler is one that is stepped every cycle. *)

\* The refinement mapping of Timer, by name.
TimerCount == Counted(Elapsed)
Prescaler == IF timer_control.on THEN Elapsed % timer_control.div ELSE 0
Flag == "TIMER" \in interrupt_request_mask
Fresh == event_deadline["TIMA"] <= IF phase = "run" THEN dmg_now_ppu ELSE frame_cycles

\* The count that was current Elapsed cycles ago, incremented since.
Increments(elapsed) == timer_count + (elapsed \div timer_control.div)

LEMMA ElapsedFacts ==
  ASSUME Base
  PROVE  /\ Elapsed \in Nat /\ timer_control.div \in Nat \ {0}
         /\ timer_control.on \in BOOLEAN
         /\ timer_count \in Nat /\ timer_count < TimerMax /\ TimerMax \in Nat
         /\ timer_mod \in Nat /\ timer_mod < TimerMax
<1>1. Elapsed \in Int /\ Elapsed >= 0
  BY FrameFacts DEF Base, Tima, Clocks, Elapsed
<1>2. timer_control \in Control /\ timer_count \in 0 .. TimerMax - 1
      /\ timer_mod \in 0 .. TimerMax - 1
  BY DEF Base, Tima
<1> QED BY <1>1, <1>2, DivisorFacts

\* An overflow has passed its deadline when the count has reached its limit.
LEMMA FreshMeansOverflow ==
  ASSUME Base, timer_control.on
  PROVE  Fresh <=> Increments(Elapsed) >= TimerMax
<1> DEFINE dl == event_deadline["TIMA"]
           span == (TimerMax - timer_count) * timer_control.div
           x == IF phase = "run" THEN d2 \div Speed ELSE 0
           k == TimerMax - timer_count
<1>1. Speed * (dl - frame_cycles) = span - tima_elapsed
  BY DEF Base, Tima, Agrees
<1>2. Speed \in {1, 2} /\ x \in Int /\ Speed * x = (IF phase = "run" THEN d2 ELSE 0)
  BY NowFacts DEF Base
<1>3. dl \in Int /\ frame_cycles \in Int /\ tima_elapsed \in Int /\ span \in Int
      /\ k \in Int
  <2>1. span \in Int
    BY SpanFacts DEF Base, Tima
  <2> HIDE DEF span
  <2> QED BY <2>1, ElapsedFacts DEF Base, Clocks, Tima, Deadlines, Ev
<1>4. Elapsed = tima_elapsed + (Speed * x) /\ Elapsed \in Int
  BY <1>2, ElapsedFacts DEF Elapsed
<1>5. Fresh <=> dl - frame_cycles <= x
  <2>1. Fresh <=> dl <= frame_cycles + x
    <3>1. CASE phase = "run"
      <4>1. dmg_now_ppu = frame_cycles + x
        BY <3>1 DEF dmg_now_ppu
      <4> HIDE DEF x
      <4> QED BY <3>1, <4>1 DEF Fresh
    <3>2. CASE phase # "run"
      BY <1>3, <3>2 DEF Fresh
    <3> QED BY <3>1, <3>2
  <2> HIDE DEF dl, x
  <2> QED BY <1>2, <1>3, <2>1
<1> HIDE DEF dl, x
<1>6. Fresh <=> Speed * (dl - frame_cycles) <= Speed * x
  BY <1>2, <1>3, <1>5
<1> HIDE DEF span
<1>7. Speed * x \in Int
  BY <1>2
<1>8. Fresh <=> span <= Elapsed
  BY <1>1, <1>3, <1>4, <1>6, <1>7
<1>9. span <= Elapsed <=> k <= Elapsed \div timer_control.div
  <2>1. span = k * timer_control.div
    BY DEF span
  <2> HIDE DEF k
  <2> QED BY <1>3, <1>4, <2>1, ElapsedFacts, QuotientAtLeast
<1>10. Elapsed \div timer_control.div \in Int
  BY ElapsedFacts
<1> QED BY <1>8, <1>9, <1>10, ElapsedFacts DEF Increments

\* A timer that is off has no overflow ahead of it.
LEMMA OffIsNotFresh ==
  ASSUME Base, ~timer_control.on
  PROVE  ~Fresh
<1>1. event_deadline["TIMA"] = EvNone
  BY DEF Base, Tima
<1>2. dmg_now_ppu \in Nat /\ dmg_now_ppu <= frame_cycles + d2
      /\ frame_cycles \in Nat /\ frame_cycles < Frame + MaxDispatch /\ d2 \in Nat
      /\ d2 <= MaxDispatch
      /\ (phase = "run" => frame_cycles < Frame)
  BY NowFacts, FrameFacts DEF Base, Clocks
<1> QED BY <1>1, <1>2, FrameFacts DEF Fresh

-----------------------------------------------------------------------------
(* Counting cycle by cycle. *)

\* What the timer shows after n cycles more.
After(n) ==
  [prescaler |-> (Elapsed + n) % timer_control.div,
   count |-> Counted(Elapsed + n),
   fresh |-> Increments(Elapsed + n) >= TimerMax]

LEMMA AfterNothing ==
  ASSUME Base, timer_control.on
  PROVE  After(0) = [prescaler |-> Prescaler, count |-> TimerCount, fresh |-> Fresh]
<1>1. Elapsed + 0 = Elapsed
  BY ElapsedFacts
<1>2. Fresh = (Increments(Elapsed) >= TimerMax)
  BY FreshMeansOverflow DEF Fresh
<1> QED BY <1>1, <1>2 DEF After, Prescaler, TimerCount

LEMMA AfterOneMore ==
  ASSUME Base, timer_control.on, NEW n \in Nat
  PROVE  Timer!Tick(After(n)) = After(n + 1)
<1> DEFINE e == Elapsed + n
           div == timer_control.div
           c == Increments(e)
           P == TimerMax - timer_mod
<1>1. e \in Nat /\ Elapsed + (n + 1) = e + 1
  BY ElapsedFacts
<1>2. div \in Nat \ {0} /\ P \in Nat \ {0} /\ TimerMax \in Nat /\ timer_mod \in Nat
      /\ timer_count \in Nat /\ e \div div \in Nat
  BY <1>1, ElapsedFacts, DivNat
<1>3. c \in Nat /\ c = timer_count + (e \div div)
  BY <1>2 DEF Increments
<1>4. \A x \in Nat :
         Counted(x) = IF Increments(x) < TimerMax THEN Increments(x)
                      ELSE timer_mod + ((Increments(x) - TimerMax) % P)
  BY DEF Counted, Increments
<1>5. e % div \in Int
  BY <1>1, <1>2
<1>6. Timer!Tick(After(n)) =
        IF (e % div) + 1 < div
        THEN [prescaler |-> (e % div) + 1, count |-> Counted(e), fresh |-> c >= TimerMax]
        ELSE IF Counted(e) + 1 < TimerMax
        THEN [prescaler |-> 0, count |-> Counted(e) + 1, fresh |-> c >= TimerMax]
        ELSE [prescaler |-> 0, count |-> timer_mod, fresh |-> TRUE]
  <2> HIDE DEF e, div, c
  <2>1. After(n) = [prescaler |-> e % div, count |-> Counted(e), fresh |-> c >= TimerMax]
    BY DEF After, e, div, c
  <2> QED BY <2>1 DEF Timer!Tick, div
<1>7. After(n + 1) = [prescaler |-> (e + 1) % div, count |-> Counted(e + 1),
                      fresh |-> Increments(e + 1) >= TimerMax]
  BY <1>1 DEF After
<1>8. CASE (e % div) + 1 < div
  <2>1. (e + 1) \div div = e \div div /\ (e + 1) % div = (e % div) + 1
    BY <1>1, <1>2, <1>8, NextDivision
  <2>2. Increments(e + 1) = c
    BY <2>1 DEF Increments
  <2>3. Counted(e + 1) = Counted(e)
    BY <1>1, <1>4, <2>2
  <2> HIDE DEF e, div, c
  <2> QED BY <1>6, <1>7, <1>8, <2>1, <2>2, <2>3
<1>9. CASE ~((e % div) + 1 < div)
  <2>1. (e + 1) \div div = e \div div + 1 /\ (e + 1) % div = 0
    BY <1>1, <1>2, <1>9, NextDivision
  <2>2. Increments(e + 1) = c + 1
    BY <1>2, <1>3, <2>1 DEF Increments
  <2>3. Counted(e) = (IF c < TimerMax THEN c ELSE timer_mod + ((c - TimerMax) % P))
    BY <1>1, <1>4
  <2>4. Counted(e + 1) = (IF c + 1 < TimerMax THEN c + 1
                          ELSE timer_mod + ((c + 1 - TimerMax) % P))
    <3>1. e + 1 \in Nat
      BY <1>1
    <3>2. Counted(e + 1) = (IF Increments(e + 1) < TimerMax THEN Increments(e + 1)
                            ELSE timer_mod + ((Increments(e + 1) - TimerMax) % P))
      BY <1>4, <3>1
    <3> DEFINE i == Increments(e + 1)
    <3>3. i = c + 1 /\ Counted(e + 1) = (IF i < TimerMax THEN i
                                        ELSE timer_mod + ((i - TimerMax) % P))
      BY <2>2, <3>2
    <3>4. c \in Int /\ i \in Int /\ TimerMax \in Int /\ P \in Nat \ {0}
      BY <1>2, <1>3, <3>3
    <3> HIDE DEF e, c, P, i
    <3> QED BY <3>3, <3>4
  <2>5. (c >= TimerMax) \in BOOLEAN
    OBVIOUS
  <2> HIDE DEF e, div, c, P
  <2>6. CASE c < TimerMax
    <3>1. CASE c + 1 < TimerMax
      BY <1>2, <1>3, <1>6, <1>7, <1>9, <2>1, <2>2, <2>3, <2>4, <3>1
    <3>2. CASE ~(c + 1 < TimerMax)
      <4>1. c + 1 - TimerMax = 0
        BY <1>2, <1>3, <2>6, <3>2
      <4>2. 0 % P = 0
        BY <1>2
      <4>3. Counted(e + 1) = timer_mod /\ Counted(e) = c
        BY <1>2, <2>3, <2>4, <2>6, <3>2, <4>1, <4>2
      <4>4. c + 1 >= TimerMax /\ ~(Counted(e) + 1 < TimerMax)
        BY <1>2, <1>3, <3>2, <4>3
      <4> QED BY <1>6, <1>7, <1>9, <2>1, <2>2, <4>3, <4>4
    <3> QED BY <3>1, <3>2
  <2>7. CASE ~(c < TimerMax)
    <3> DEFINE y == c - TimerMax
    <3>1. y \in Nat /\ c + 1 - TimerMax = y + 1 /\ ~(c + 1 < TimerMax)
          /\ c >= TimerMax /\ c + 1 >= TimerMax
      BY <1>2, <1>3, <2>7
    <3>2. Counted(e) = timer_mod + (y % P) /\ Counted(e + 1) = timer_mod + ((y + 1) % P)
      BY <2>3, <2>4, <2>7, <3>1
    <3> HIDE DEF y
    <3>3. y % P \in 0 .. P - 1
      <4>1. y \in Int /\ P \in Nat \ {0}
        BY <1>2, <3>1
      <4> QED BY Zenon, <4>1, DivMod
    <3>4. Counted(e) + 1 < TimerMax <=> (y % P) + 1 < P
      BY <1>2, <3>2, <3>3 DEF P
    <3>5. CASE (y % P) + 1 < P
      <4>1. (y + 1) % P = (y % P) + 1
        BY <1>2, <3>1, <3>5, NextDivision
      <4>2. Counted(e + 1) = Counted(e) + 1
        BY <1>2, <3>2, <3>3, <4>1
      <4> QED BY <1>6, <1>7, <1>9, <2>1, <2>2, <3>1, <3>4, <3>5, <4>2
    <3>6. CASE ~((y % P) + 1 < P)
      <4>1. (y + 1) % P = 0
        BY <1>2, <3>1, <3>6, NextDivision
      <4>2. Counted(e + 1) = timer_mod
        BY <1>2, <3>2, <4>1
      <4> QED BY <1>6, <1>7, <1>9, <2>1, <2>2, <3>1, <3>4, <3>6, <4>2
    <3> QED BY <3>5, <3>6
  <2> QED BY <2>6, <2>7
<1> QED BY <1>8, <1>9

\* The recursion of Ticks is well-founded: what it counts is After.
LEMMA TicksAreAfter ==
  ASSUME Base, timer_control.on
  PROVE  Timer!Ticks = [n \in Nat |-> After(n)]
<1> DEFINE Start == [prescaler |-> Prescaler, count |-> TimerCount, fresh |-> Fresh]
           G == [n \in Nat |-> After(n)]
           Stepping(f) == f = [n \in Nat |-> IF n = 0 THEN Start ELSE Timer!Tick(f[n - 1])]
<1>1. Timer!Ticks = CHOOSE f : Stepping(f)
  BY DEF Timer!Ticks, Prescaler, TimerCount, Fresh
<1>2. Start = After(0)
  BY AfterNothing
<1>3. \A n \in Nat : Timer!Tick(After(n)) = After(n + 1)
  BY AfterOneMore
<1> HIDE DEF Start
<1>4. Stepping(G)
  <2>1. \A n \in Nat : G[n] = IF n = 0 THEN Start ELSE Timer!Tick(G[n - 1])
    <3> SUFFICES ASSUME NEW n \in Nat
                 PROVE  G[n] = IF n = 0 THEN Start ELSE Timer!Tick(G[n - 1])
      OBVIOUS
    <3>1. CASE n = 0
      BY <1>2, <3>1
    <3>2. CASE n # 0
      <4>1. n - 1 \in Nat /\ (n - 1) + 1 = n
        BY <3>2
      <4>2. Timer!Tick(After(n - 1)) = After(n)
        BY <1>3, <4>1
      <4> QED BY <3>2, <4>1, <4>2
    <3> QED BY <3>1, <3>2
  <2> QED BY <2>1
<1>5. ASSUME NEW f, Stepping(f) PROVE f = G
  <2> DEFINE T == {n \in Nat : f[n] # G[n]}
  <2>1. /\ f = [n \in Nat |-> f[n]]
        /\ \A n \in Nat : f[n] = IF n = 0 THEN Start ELSE Timer!Tick(f[n - 1])
    <3> DEFINE body(n) == IF n = 0 THEN Start ELSE Timer!Tick(f[n - 1])
    <3>1. f = [n \in Nat |-> body(n)]
      BY <1>5
    <3> HIDE DEF body
    <3>2. f = [n \in Nat |-> f[n]] /\ \A n \in Nat : f[n] = body(n)
      BY <3>1
    <3> QED BY <3>2 DEF body
  <2>2. \A n \in Nat : G[n] = IF n = 0 THEN Start ELSE Timer!Tick(G[n - 1])
    BY <1>4
  <2>3. T = {}
    <3> SUFFICES ASSUME T # {} PROVE FALSE
      OBVIOUS
    <3>1. \E x \in T : \A y \in T : ~(<<y, x>> \in OpToRel(<, Nat))
      <4>1. T \subseteq Nat
        OBVIOUS
      <4> HIDE DEF T
      <4> QED BY <4>1, NatLessThanWellFounded, WFMin
    <3>2. PICK x \in T : \A y \in T : ~(y < x)
      BY <3>1 DEF OpToRel
    <3>3. x \in Nat /\ f[x] # G[x]
      OBVIOUS
    <3>4. x # 0
      BY <2>1, <2>2, <3>3
    <3>5. x - 1 \in Nat /\ x - 1 < x
      BY <3>3, <3>4
    <3>6. f[x - 1] = G[x - 1]
      BY <3>2, <3>5
    <3> QED BY <2>1, <2>2, <3>3, <3>4, <3>6
  <2> HIDE DEF G
  <2>4. \A n \in Nat : f[n] = G[n]
    BY <2>3
  <2>5. G = [n \in Nat |-> G[n]]
    BY DEF G
  <2> QED BY <2>1, <2>4, <2>5
<1> HIDE DEF Stepping, G
<1>6. Stepping(CHOOSE f : Stepping(f))
  BY <1>4
<1> QED BY <1>1, <1>5, <1>6 DEF G

LEMMA NextFresh ==
  /\ (Base /\ timer_control.on)' => (Fresh <=> Increments(Elapsed) >= TimerMax)'
  /\ (Base /\ ~timer_control.on)' => (~Fresh)'
<1>1. Base /\ timer_control.on => (Fresh <=> Increments(Elapsed) >= TimerMax)
  BY FreshMeansOverflow
<1>2. Base /\ ~timer_control.on => ~Fresh
  BY OffIsNotFresh
<1> QED BY <1>1, <1>2, PTL

Refines == Timer!Next \/ UNCHANGED Timer!vars
Mapped == <<phase = "sync", TimerCount, timer_mod, timer_control.on, timer_control.div,
            Prescaler, Flag, Fresh>>

LEMMA MappedKept == UNCHANGED Mapped => Refines
BY DEF Mapped, Refines, Timer!vars, TimerCount, Prescaler, Flag, Fresh

\* What does not concern the timer leaves what it shows alone.
LEMMA QuietTimer ==
  ASSUME UNCHANGED TimaVars, UNCHANGED Flag
  PROVE  Refines
<1>1. UNCHANGED Mapped
  BY DEF Mapped, TimaVars, timer, TimerCount, Counted, Elapsed, Prescaler, Fresh,
         dmg_now_ppu, Speed
<1> QED BY <1>1, MappedKept

LEMMA RunRefines ==
  ASSUME Base, Base', NEW cycles \in Blocks, Run(cycles)
  PROVE  Refines
<1>1. /\ phase = "run" /\ d2' = d2 + cycles /\ phase' = "run"
      /\ UNCHANGED <<double_speed, frame_cycles, event_deadline, timer_count, timer_mod,
                     timer_control, tima_elapsed, interrupt_request_mask>>
  BY DEF Run, irq, timer
<1>2. UNCHANGED <<phase = "sync", timer_mod, timer_control.on, timer_control.div, Flag>>
  BY <1>1 DEF Flag
<1>3. cycles \in Nat /\ d2 \in Int /\ tima_elapsed \in Int
  BY CycleAssumption, FrameFacts DEF Base, Clocks, Tima
<1>4. Elapsed' = Elapsed + cycles
  BY <1>1, <1>3 DEF Elapsed
<1>5. CASE timer_control.on
  <2>1. Timer!Ticks[cycles] = After(cycles)
    BY <1>3, <1>5, TicksAreAfter
  <2>2. TimerCount' = Counted(Elapsed + cycles) /\ Prescaler' = (Elapsed + cycles) % timer_control.div
    BY <1>1, <1>4, <1>5 DEF TimerCount, Counted, Prescaler
  <2>3. Fresh' = (Increments(Elapsed + cycles) >= TimerMax)
    <3>1. Fresh' <=> (Increments(Elapsed) >= TimerMax)'
      BY <1>1, <1>5, NextFresh
    <3>2. (Increments(Elapsed))' = Increments(Elapsed + cycles)
      BY <1>1, <1>4 DEF Increments
    <3> QED BY <3>1, <3>2 DEF Fresh
  <2>4. /\ Prescaler' = Timer!Ticks[cycles].prescaler /\ TimerCount' = Timer!Ticks[cycles].count
        /\ Fresh' = Timer!Ticks[cycles].fresh
    BY <2>1, <2>2, <2>3 DEF After
  <2>5. Timer!Advance(cycles)
    BY <1>1, <1>2, <1>5, <2>4 DEF Timer!Advance, Prescaler, TimerCount, Fresh, Flag
  <2> QED BY <2>5 DEF Refines, Timer!Next
<1>6. CASE ~timer_control.on
  <2>1. UNCHANGED <<TimerCount, Prescaler>>
    BY <1>1, <1>6 DEF TimerCount, Counted, Prescaler
  <2>2. UNCHANGED Fresh
    <3>1. ~Fresh /\ ~Fresh'
      BY <1>1, <1>6, OffIsNotFresh, NextFresh
    <3> QED BY <3>1 DEF Fresh
  <2> QED BY <1>2, <2>1, <2>2, MappedKept DEF Mapped
<1>7. timer_control.on \in BOOLEAN
  BY ElapsedFacts
<1> QED BY <1>5, <1>6, <1>7

\* The same, where the deadline moves with the frame.
LEMMA MovedTimer ==
  ASSUME Base, Base', UNCHANGED timer, Elapsed' = Elapsed,
         UNCHANGED (phase = "sync"), UNCHANGED Flag
  PROVE  Refines
<1>1. UNCHANGED <<timer_count, timer_mod, timer_control, tima_elapsed>>
  BY DEF timer
<1>2. UNCHANGED <<TimerCount, Prescaler, Increments(Elapsed)>>
  BY <1>1 DEF TimerCount, Counted, Prescaler, Increments
<1>3. Fresh' <=> Fresh
  <2>1. CASE timer_control.on
    <3>1. (Base /\ timer_control.on)'
      BY <1>1, <2>1
    <3>2. Fresh' <=> (Increments(Elapsed) >= TimerMax)'
      BY <3>1, NextFresh
    <3>3. (Increments(Elapsed) >= TimerMax)' <=> Increments(Elapsed) >= TimerMax
      BY <1>2
    <3> QED BY <2>1, <3>2, <3>3, FreshMeansOverflow
  <2>2. CASE ~timer_control.on
    <3>1. (Base /\ ~timer_control.on)'
      BY <1>1, <2>2
    <3> QED BY <2>2, <3>1, NextFresh, OffIsNotFresh
  <2> QED BY <2>1, <2>2
<1>4. UNCHANGED Fresh
  BY <1>3 DEF Fresh
<1> QED BY <1>1, <1>2, <1>4, MappedKept DEF Mapped

\* What a write of a timer register leaves.
LEMMA TimerWriteShows ==
  ASSUME Base, Base', NEW keep \in BOOLEAN, NEW count \in 0 .. TimerMax - 1,
         NEW control \in Control,
         keep => control = timer_control, TimerWrite(keep, count, control)
  PROVE  /\ phase = "run" /\ phase' = "run" /\ timer_mod' = timer_mod
         /\ timer_control' = control
         /\ TimerCount' = count /\ ~Fresh'
         /\ ~keep => Prescaler' = 0
         /\ keep => Prescaler' = Prescaler
         /\ Flag' \in {Flag, TRUE}
         /\ UNCHANGED double_speed => Flag' = (Flag \/ Fresh)
<1> DEFINE kept == IF keep THEN (tima_elapsed + d2) % timer_control.div ELSE 0
<1>1. /\ phase = "run" /\ UNCHANGED <<phase, d2, frame_cycles, timer_mod>>
      /\ timer_count' = count /\ timer_control' = control
      /\ interrupt_request_mask' = interrupt_request_mask
          \cup IF dmg_now_ppu' >= event_deadline["TIMA"] THEN {"TIMER"} ELSE {}
      /\ tima_elapsed' = IF ~control.on THEN 0
                         ELSE IF timer_control.on THEN kept - d2 ELSE 0 - d2
  BY DEF TimerWrite, dmg_tima_touch
<1>2. Elapsed = tima_elapsed + d2 /\ Elapsed' = tima_elapsed' + d2
  BY <1>1 DEF Elapsed
<1>3. control.div \in Nat \ {0} /\ control.on \in BOOLEAN
      /\ timer_control.div \in Nat \ {0} /\ timer_control.on \in BOOLEAN
      /\ Elapsed \in Nat /\ d2 \in Int
      /\ count \in Nat /\ count < TimerMax /\ TimerMax \in Nat
  BY DivisorFacts, ElapsedFacts, FrameFacts DEF Base, Clocks
<1>4. kept \in Nat /\ kept < timer_control.div
  BY <1>2, <1>3
<1>5. control.on => Elapsed' = IF timer_control.on THEN kept ELSE 0
  BY <1>1, <1>2, <1>3, <1>4
<1>6. ~keep => kept = 0
  OBVIOUS
<1>7. keep => kept = Elapsed % timer_control.div
  BY <1>2
<1> HIDE DEF kept
<1>8. ASSUME control.on
      PROVE  /\ Elapsed' \in Nat /\ Elapsed' < control.div
             /\ Elapsed' \div control.div = 0 /\ Elapsed' % control.div = Elapsed'
  <2>1. Elapsed' \in Nat /\ Elapsed' < control.div
    <3>1. CASE timer_control.on
      BY <1>3, <1>4, <1>5, <1>6, <1>8, <3>1
    <3>2. CASE ~timer_control.on
      BY <1>3, <1>5, <1>8, <3>2
    <3> QED BY <1>3, <3>1, <3>2
  <2> DEFINE e == Elapsed'
             div == control.div
  <2>2. e \in Nat /\ e < div /\ div \in Nat \ {0}
    BY <1>3, <2>1
  <2> HIDE DEF e, div
  <2>3. e \div div = 0
    <3>1. 0 * div <= e /\ e < (0 * div) + div /\ e \in Int /\ 0 \in Int
      BY <2>2
    <3> QED BY <2>2, <3>1, QuotientUnique
  <2>4. e % div = e
    <3>1. e = ((e \div div) * div) + (e % div) /\ e % div \in 0 .. div - 1
      BY <2>2, DivMod
    <3> QED BY <2>2, <2>3, <3>1
  <2> QED BY <2>1, <2>3, <2>4 DEF e, div
<1>9. TimerCount' = count
  <2>1. CASE ~control.on
    BY <1>1, <2>1 DEF TimerCount, Counted
  <2>2. CASE control.on
    <3>1. count + (Elapsed' \div control.div) = count
      BY <1>3, <1>8, <2>2
    <3> QED BY <1>1, <1>3, <2>2, <3>1 DEF TimerCount, Counted
  <2> QED BY <1>3, <2>1, <2>2
<1>10. ~Fresh'
  <2>1. CASE ~control.on
    <3>1. (Base /\ ~timer_control.on)'
      BY <1>1, <2>1
    <3> QED BY <3>1, NextFresh
  <2>2. CASE control.on
    <3>1. (Base /\ timer_control.on)'
      BY <1>1, <2>2
    <3>2. (Increments(Elapsed))' = count
      BY <1>1, <1>3, <1>8, <2>2 DEF Increments
    <3>3. Fresh' <=> (Increments(Elapsed) >= TimerMax)'
      BY <3>1, NextFresh
    <3> QED BY <1>3, <3>2, <3>3
  <2> QED BY <1>3, <2>1, <2>2
<1>11. ~keep => Prescaler' = 0
  <2> SUFFICES ASSUME ~keep PROVE Prescaler' = 0
    OBVIOUS
  <2>1. control.on => Elapsed' = 0
    BY <1>5, <1>6
  <2>2. CASE control.on
    BY <1>1, <1>8, <2>1, <2>2 DEF Prescaler
  <2>3. CASE ~control.on
    BY <1>1, <2>3 DEF Prescaler
  <2> QED BY <1>3, <2>2, <2>3
<1>12. keep => Prescaler' = Prescaler
  <2> SUFFICES ASSUME keep PROVE Prescaler' = Prescaler
    OBVIOUS
  <2>1. control = timer_control
    OBVIOUS
  <2>2. CASE control.on
    BY <1>1, <1>5, <1>7, <1>8, <2>1, <2>2 DEF Prescaler
  <2>3. CASE ~control.on
    BY <1>1, <2>1, <2>3 DEF Prescaler
  <2> QED BY <1>3, <2>2, <2>3
<1>13. Flag' \in {Flag, TRUE}
  BY <1>1 DEF Flag
<1>14. UNCHANGED double_speed => Flag' = (Flag \/ Fresh)
  <2> SUFFICES ASSUME UNCHANGED double_speed PROVE Flag' = (Flag \/ Fresh)
    OBVIOUS
  <2>1. dmg_now_ppu' = dmg_now_ppu
    BY <1>1 DEF dmg_now_ppu, Speed
  <2>2. Fresh <=> dmg_now_ppu >= event_deadline["TIMA"]
    <3>1. dmg_now_ppu \in Int /\ event_deadline["TIMA"] \in Int
      BY NowFacts DEF Base, Deadlines, Ev
    <3> QED BY <1>1, <3>1 DEF Fresh
  <2> QED BY <1>1, <2>1, <2>2 DEF Flag
<1> QED BY <1>1, <1>9, <1>10, <1>11, <1>12, <1>13, <1>14

\* A register access of the program, as the timer sees it.
LEMMA AccessRefines ==
  ASSUME phase = "run", phase' = "run",
         \/ Timer!WriteCount \/ Timer!ResetPrescaler \/ Timer!WriteControl
         \/ Timer!WriteMod \/ Timer!WriteFlag \/ Timer!SwitchSpeed
  PROVE  Refines
<1>1. Timer!Access
  BY DEF Timer!Access
<1> QED BY <1>1 DEF Refines, Timer!Next

LEMMA WriteTimaRefines ==
  ASSUME Base, Base', NEW data \in TimaWrites, WriteTima(data)
  PROVE  Refines
<1>1. UNCHANGED double_speed /\ TimerWrite(TRUE, data, timer_control)
  BY DEF WriteTima
<1>2. data \in 0 .. TimerMax - 1 /\ timer_control \in Control
  BY WriteAssumption DEF Base, Tima
<1>3. /\ phase = "run" /\ phase' = "run" /\ timer_mod' = timer_mod
      /\ timer_control' = timer_control /\ TimerCount' = data /\ ~Fresh'
      /\ Prescaler' = Prescaler /\ Flag' = (Flag \/ Fresh)
  BY <1>1, <1>2, TimerWriteShows
<1>4. Timer!WriteCount
  BY <1>3 DEF Timer!WriteCount, Timer!Shown, TimerCount, Prescaler, Flag, Fresh
<1> QED BY <1>3, <1>4, AccessRefines

LEMMA WriteDivRefines ==
  ASSUME Base, Base', WriteDiv
  PROVE  Refines
<1>1. UNCHANGED double_speed /\ TimerWrite(FALSE, dmg_tima_read, timer_control)
      /\ phase = "run"
  BY DEF WriteDiv, TimerWrite
<1>2. dmg_tima_read \in 0 .. TimerMax - 1 /\ timer_control \in Control
  BY <1>1, ReadFacts
<1>3. dmg_tima_read = TimerCount
  BY <1>1 DEF dmg_tima_read, TimerCount, Elapsed
<1>4. /\ phase' = "run" /\ timer_mod' = timer_mod
      /\ timer_control' = timer_control /\ TimerCount' = TimerCount /\ ~Fresh'
      /\ Prescaler' = 0 /\ Flag' = (Flag \/ Fresh)
  BY <1>1, <1>2, <1>3, TimerWriteShows
<1>5. Timer!ResetPrescaler
  BY <1>4 DEF Timer!ResetPrescaler, Timer!Shown, TimerCount, Prescaler, Flag, Fresh
<1> QED BY <1>1, <1>4, <1>5, AccessRefines

LEMMA WriteTacRefines ==
  ASSUME Base, Base', NEW control \in TacWrites, WriteTac(control)
  PROVE  Refines
<1>1. UNCHANGED double_speed /\ TimerWrite(FALSE, dmg_tima_read, control)
      /\ phase = "run"
  BY DEF WriteTac, TimerWrite
<1>2. dmg_tima_read \in 0 .. TimerMax - 1 /\ control \in Control
  BY <1>1, ReadFacts, WriteAssumption
<1>3. dmg_tima_read = TimerCount
  BY <1>1 DEF dmg_tima_read, TimerCount, Elapsed
<1>4. /\ phase' = "run" /\ timer_mod' = timer_mod
      /\ timer_control' = control /\ TimerCount' = TimerCount /\ ~Fresh'
      /\ Prescaler' = 0 /\ Flag' = (Flag \/ Fresh)
  BY <1>1, <1>2, <1>3, TimerWriteShows
<1>5. control.on \in BOOLEAN /\ control.div \in Divisors
  BY <1>2 DEF Control
<1>6. Timer!WriteControl
  BY <1>4, <1>5 DEF Timer!WriteControl, Timer!Shown, TimerCount, Prescaler, Flag, Fresh
<1> QED BY <1>1, <1>4, <1>6, AccessRefines

LEMMA StopRefines ==
  ASSUME Base, Base', NEW double \in SpeedSwitches, jit_handle_stop(double)
  PROVE  Refines
<1>1. TimerWrite(TRUE, dmg_tima_read, timer_control) /\ phase = "run"
  BY DEF jit_handle_stop, TimerWrite
<1>2. dmg_tima_read \in 0 .. TimerMax - 1 /\ timer_control \in Control
  BY <1>1, ReadFacts
<1>3. dmg_tima_read = TimerCount
  BY <1>1 DEF dmg_tima_read, TimerCount, Elapsed
<1>4. /\ phase' = "run" /\ timer_mod' = timer_mod
      /\ timer_control' = timer_control /\ TimerCount' = TimerCount /\ ~Fresh'
      /\ Prescaler' = Prescaler /\ Flag' \in {Flag, TRUE}
  BY <1>1, <1>2, <1>3, TimerWriteShows
<1>5. Timer!SwitchSpeed
  <2>1. Fresh' = FALSE /\ UNCHANGED <<timer_mod, timer_control.on, timer_control.div>>
    BY <1>4 DEF Fresh
  <2> QED BY <1>4, <2>1 DEF Timer!SwitchSpeed, TimerCount, Prescaler, Flag, Fresh
<1> QED BY <1>1, <1>4, <1>5, AccessRefines

LEMMA NextCount == Base' => (TimerCount \in 0 .. TimerMax - 1)'
<1>1. Base => TimerCount \in 0 .. TimerMax - 1
  BY CountFacts, ElapsedFacts DEF Base, TimerCount
<1> QED BY <1>1, PTL

LEMMA WriteTmaRefines ==
  ASSUME Base, Base', NEW data \in TmaWrites, WriteTma(data)
  PROVE  Refines
<1>1. /\ phase = "run" /\ phase' = "run" /\ timer_mod' = data
      /\ UNCHANGED <<d2, double_speed, frame_cycles, event_deadline, timer_count,
                     timer_control, tima_elapsed, interrupt_request_mask>>
  BY DEF WriteTma, cpu, irq
<1>2. UNCHANGED <<Elapsed, Prescaler, Flag, Fresh>>
  BY <1>1 DEF Elapsed, Prescaler, Flag, Fresh, dmg_now_ppu, Speed
<1>3. data \in 0 .. TimerMax - 1
  BY WriteAssumption
<1>4. TimerCount' \in 0 .. TimerMax - 1
  BY NextCount
<1>5. CASE Fresh
  <2>1. Timer!WriteMod
    BY <1>1, <1>2, <1>3, <1>4, <1>5
       DEF Timer!WriteMod, Timer!Count, TimerCount, Prescaler, Flag, Fresh
  <2> QED BY <1>1, <2>1, AccessRefines
<1>6. CASE ~Fresh
  <2>1. TimerCount' = TimerCount
    <3>1. CASE timer_control.on
      <4>1. ~(Increments(Elapsed) >= TimerMax)
        BY <1>6, <3>1, FreshMeansOverflow
      <4>2. Increments(Elapsed) \in Int /\ TimerMax \in Int
        BY ElapsedFacts, DivNat DEF Increments
      <4>3. Increments(Elapsed) < TimerMax
        BY <4>1, <4>2
      <4>4. TimerCount = Increments(Elapsed)
        BY <3>1, <4>3 DEF TimerCount, Counted, Increments
      <4>5. TimerCount' = Increments(Elapsed)
        BY <1>1, <1>2, <3>1, <4>3 DEF TimerCount, Counted, Increments
      <4> QED BY <4>4, <4>5
    <3>2. CASE ~timer_control.on
      BY <1>1, <3>2 DEF TimerCount, Counted
    <3> QED BY <3>1, <3>2
  <2>2. Timer!WriteMod
    BY <1>1, <1>2, <1>3, <1>6, <2>1
       DEF Timer!WriteMod, Timer!Count, TimerCount, Prescaler, Flag, Fresh
  <2> QED BY <1>1, <2>2, AccessRefines
<1> QED BY <1>5, <1>6

LEMMA RegistersRefine ==
  ASSUME NEW ime, NEW enable, NEW request, Registers(ime, enable, request)
  PROVE  Refines
<1>1. /\ phase = "run" /\ phase' = "run"
      /\ UNCHANGED <<d2, double_speed, frame_cycles, event_deadline, timer_count, timer_mod,
                     timer_control, tima_elapsed>>
  BY DEF Registers, timer
<1>2. UNCHANGED <<TimerCount, Prescaler, Fresh>>
  BY <1>1 DEF TimerCount, Counted, Elapsed, Prescaler, Fresh, dmg_now_ppu, Speed
<1>3. Flag' \in BOOLEAN
  BY DEF Flag
<1>4. Timer!WriteFlag
  BY <1>1, <1>2, <1>3 DEF Timer!WriteFlag, TimerCount, Prescaler, Flag, Fresh
<1> QED BY <1>1, <1>4, AccessRefines

LEMMA WriteLcdRefines ==
  ASSUME Base, Base', NEW on, NEW stat_, NEW lyc_, NEW f, WriteLcd(on, stat_, lyc_, f)
  PROVE  Refines
<1>1. /\ phase' = phase /\ UNCHANGED timer /\ UNCHANGED d2
      /\ \E s \in {{"STAT"}, {}} : interrupt_request_mask' = interrupt_request_mask \cup s
  BY DEF WriteLcd
<1>2. UNCHANGED Flag
  BY <1>1 DEF Flag
<1>3. Elapsed' = Elapsed
  BY <1>1 DEF Elapsed, timer
<1> QED BY <1>1, <1>2, <1>3, MovedTimer

LEMMA WriteRegisterRefines ==
  ASSUME Base, Base', WriteRegister
  PROVE  Refines
<1>1. ASSUME NEW start \in ScWrites, WriteSc(start) PROVE Refines
  <2>1. UNCHANGED TimaVars /\ UNCHANGED Flag
    <3>1. event_deadline \in [Ev -> Nat]
      BY DEF Base, Deadlines
    <3>2. event_deadline'["TIMA"] = event_deadline["TIMA"]
      BY <1>1, <3>1 DEF WriteSc, Ev
    <3> QED BY <1>1, <3>2 DEF WriteSc, TimaVars, irq, Flag
  <2> QED BY <2>1, QuietTimer
<1>2. ASSUME NEW data \in IfWrites, WriteIf(data) PROVE Refines
  BY <1>2, RegistersRefine DEF WriteIf
<1>3. ASSUME NEW data \in IeWrites, WriteIe(data) PROVE Refines
  BY <1>3, RegistersRefine DEF WriteIe
<1>4. ASSUME NEW on \in LcdcWrites, WriteLcdc(on) PROVE Refines
  BY <1>4, WriteLcdRefines DEF WriteLcdc
<1>5. ASSUME NEW sources \in StatWrites, WriteStat(sources) PROVE Refines
  BY <1>5, WriteLcdRefines DEF WriteStat
<1>6. ASSUME NEW line \in LycWrites, WriteLyc(line) PROVE Refines
  BY <1>6, WriteLcdRefines DEF WriteLyc
<1> QED BY <1>1, <1>2, <1>3, <1>4, <1>5, <1>6, WriteTimaRefines, WriteTmaRefines,
           WriteTacRefines, WriteDivRefines DEF WriteRegister

\* Compiled code exits: the cycles it counted are absorbed.
LEMMA SyncRefines ==
  ASSUME Base, Base', dmg_sync_hw
  PROVE  Refines
<1>1. /\ phase = "run" /\ phase' = "sync"
      /\ tima_elapsed' = IF timer_control.on THEN tima_elapsed + d2 ELSE 0
      /\ UNCHANGED <<timer_count, timer_mod, timer_control, interrupt_request_mask>>
  BY DEF dmg_sync_hw, irq
<1>2. timer_control.on => Elapsed' = Elapsed
  <2>1. tima_elapsed + d2 \in Int
    BY FrameFacts DEF Base, Tima, Clocks
  <2> QED BY <1>1, <2>1 DEF Elapsed
<1>3. TimerCount' = TimerCount /\ Prescaler' = Prescaler
  BY <1>1, <1>2 DEF TimerCount, Counted, Prescaler
<1>4. Fresh' <=> Fresh
  <2>1. CASE timer_control.on
    <3>1. (Base /\ timer_control.on)'
      BY <1>1, <2>1
    <3>2. Fresh' <=> (Increments(Elapsed) >= TimerMax)'
      BY <3>1, NextFresh
    <3>3. (Increments(Elapsed) >= TimerMax)' <=> Increments(Elapsed) >= TimerMax
      BY <1>1, <1>2, <2>1 DEF Increments
    <3> QED BY <2>1, <3>2, <3>3, FreshMeansOverflow
  <2>2. CASE ~timer_control.on
    <3>1. (Base /\ ~timer_control.on)'
      BY <1>1, <2>2
    <3> QED BY <2>2, <3>1, NextFresh, OffIsNotFresh
  <2> QED BY <2>1, <2>2
<1>5. UNCHANGED Fresh /\ UNCHANGED Flag
  BY <1>1, <1>4 DEF Fresh, Flag
<1>6. Timer!Stop
  BY <1>1, <1>3, <1>5 DEF Timer!Stop, TimerCount, Prescaler, Flag, Fresh
<1> QED BY <1>6 DEF Refines, Timer!Next

LEMMA EndDispatchRefines ==
  ASSUME Base, EndDispatch
  PROVE  Refines
<1>1. /\ phase = "sync" /\ phase' = "run" /\ d2' = 0
      /\ interrupt_request_mask' = interrupt_request_mask \ Taken
      /\ UNCHANGED <<double_speed, frame_cycles, event_deadline, timer_count, timer_mod,
                     timer_control, tima_elapsed>>
      /\ event_deadline["TIMA"] > frame_cycles
  BY DEF EndDispatch, timer, Ev
<1>2. tima_elapsed \in Int /\ frame_cycles \in Int /\ event_deadline["TIMA"] \in Int
  BY DEF Base, Tima, Clocks, Deadlines, Ev
<1>3. Elapsed' = Elapsed
  BY <1>1, <1>2 DEF Elapsed
<1>4. TimerCount' = TimerCount /\ Prescaler' = Prescaler
  BY <1>1, <1>3 DEF TimerCount, Counted, Prescaler
<1>5. ~Fresh /\ ~Fresh'
  <2>1. dmg_now_ppu' = frame_cycles
    BY <1>1, <1>2 DEF dmg_now_ppu, Speed
  <2> QED BY <1>1, <1>2, <2>1 DEF Fresh
<1>6. Flag' \in {Flag, FALSE}
  <2>1. CASE "TIMER" \in Taken
    <3>1. "TIMER" \notin interrupt_request_mask'
      BY <1>1, <2>1
    <3>2. Flag' = FALSE
      BY <3>1 DEF Flag
    <3> QED BY Zenon, <3>2
  <2>2. CASE "TIMER" \notin Taken
    <3>1. "TIMER" \in interrupt_request_mask' <=> "TIMER" \in interrupt_request_mask
      BY <1>1, <2>2
    <3>2. Flag' = Flag
      BY <3>1 DEF Flag
    <3> QED BY Zenon, <3>2
  <2> QED BY <2>1, <2>2
<1>7. Timer!Resume
  <2>1. UNCHANGED Fresh
    BY <1>5 DEF Fresh
  <2> QED BY <1>1, <1>4, <1>5, <1>6, <2>1 DEF Timer!Resume, TimerCount, Prescaler, Flag, Fresh
<1> QED BY <1>7 DEF Refines, Timer!Next

\* The deadlines that are not the timer's.
LEMMA OtherFireRefines ==
  ASSUME Base, Base', FireStat \/ FireVblank \/ FireRender \/ FireSerial \/ FireWrap
  PROVE  Refines
<1>1. /\ phase = "sync" /\ phase' = "sync" /\ UNCHANGED <<timer, d2>>
      /\ \E s \in {{"STAT"}, {"VBLANK"}, {"SERIAL"}, {}} :
           interrupt_request_mask' = interrupt_request_mask \cup s
  BY DEF FireStat, FireVblank, FireRender, FireSerial, FireWrap, Fires, Request, cpu, irq
<1>2. UNCHANGED Flag
  BY <1>1 DEF Flag
<1>3. Elapsed' = Elapsed
  BY <1>1 DEF Elapsed, timer
<1> QED BY <1>1, <1>2, <1>3, MovedTimer

LEMMA NextElapsed == Base' => (Elapsed \in Nat)'
<1>1. Base => Elapsed \in Nat
  BY ElapsedFacts
<1> QED BY <1>1, PTL

\* The count is started again from the reload value: the same count.
LEMMA FireTimaRefines ==
  ASSUME Base, Base', FireTima
  PROVE  Refines
<1> DEFINE over == frame_cycles - event_deadline["TIMA"]
           div == timer_control.div
           k == TimerMax - timer_count
           P == TimerMax - timer_mod
           e == Elapsed
           c == Increments(Elapsed)
<1>1. /\ phase = "sync" /\ phase' = "sync" /\ event_deadline["TIMA"] <= frame_cycles
      /\ interrupt_request_mask' = interrupt_request_mask \cup {"TIMER"}
      /\ timer_count' = timer_mod /\ tima_elapsed' = Speed * over
      /\ UNCHANGED <<timer_mod, timer_control>>
  BY DEF FireTima, Fires, Request, cpu
<1>2. timer_control.on
  <2>1. SUFFICES ASSUME ~timer_control.on PROVE FALSE
    OBVIOUS
  <2>2. ~Fresh
    BY <2>1, OffIsNotFresh
  <2> QED BY <1>1, <2>2 DEF Fresh
<1>3. Speed * (event_deadline["TIMA"] - frame_cycles) = (k * div) - tima_elapsed
  BY <1>2 DEF Base, Tima, Agrees
<1>4. /\ Elapsed = tima_elapsed /\ Elapsed' = tima_elapsed' /\ e \in Nat
      /\ tima_elapsed \in Int /\ over \in Int /\ Speed \in {1, 2}
      /\ k \in Int /\ div \in Nat \ {0} /\ P \in Nat \ {0}
      /\ TimerMax \in Nat /\ timer_mod \in Nat /\ timer_count \in Nat
  <2>1. tima_elapsed \in Int /\ over \in Int
    BY DEF Base, Tima, Clocks, Deadlines, Ev
  <2>2. tima_elapsed' \in Int
    BY DEF Base, Tima
  <2> QED BY <1>1, <2>1, <2>2, ElapsedFacts DEF Elapsed, Speed
<1>5. Elapsed' = e - (k * div)
  <2>1. Speed * over = -(Speed * (event_deadline["TIMA"] - frame_cycles))
    <3>1. event_deadline["TIMA"] \in Int /\ frame_cycles \in Int
      BY DEF Base, Clocks, Deadlines, Ev
    <3> QED BY <1>4, <3>1
  <2>2. k * div \in Int
    BY <1>4
  <2> QED BY <1>1, <1>3, <1>4, <2>1, <2>2
<1>6. Elapsed' \in Nat
  BY NextElapsed
<1>7. Elapsed' \div div = (e \div div) - k /\ Elapsed' % div = e % div
  <2> HIDE DEF k, div, e
  <2>1. e \in Int
    BY <1>4
  <2>2. (e - (k * div)) \div div = e \div div - k /\ (e - (k * div)) % div = e % div
    BY <1>4, <2>1, LessWhole
  <2> QED BY <1>5, <2>2
<1>8. Fresh
  BY <1>1 DEF Fresh
<1>9. c >= TimerMax /\ c \in Nat /\ c = timer_count + (e \div div) /\ e \div div \in Nat
  BY <1>2, <1>4, <1>8, FreshMeansOverflow, DivNat DEF Increments
<1>10. TimerCount = timer_mod + ((c - TimerMax) % P)
  BY <1>2, <1>4, <1>9 DEF TimerCount, Counted, Increments
<1> DEFINE b == timer_mod + (Elapsed' \div div)
<1>11. b = c - P /\ b \in Int
  BY <1>4, <1>7, <1>9
<1>12. TimerCount' = IF b < TimerMax THEN b ELSE timer_mod + ((b - TimerMax) % P)
  BY <1>1, <1>2 DEF TimerCount, Counted
<1> HIDE DEF b, c, P, k, e
<1>13. TimerCount' = TimerCount
  <2> DEFINE y == c - TimerMax
  <2>1. y \in Nat /\ b - TimerMax = y - P
    BY <1>4, <1>9, <1>11
  <2>2. b < TimerMax <=> y < P
    BY <1>4, <1>9, <1>11
  <2>3. y < P => b = timer_mod + y
    BY <1>4, <1>9, <1>11 DEF P
  <2>4. TimerCount = timer_mod + (y % P)
    BY <1>10
  <2> HIDE DEF y
  <2>5. CASE y < P
    <3>1. y % P = y
      BY <1>4, <2>1, <2>5, SmallRemainder
    <3> QED BY <1>12, <2>2, <2>3, <2>4, <2>5, <3>1
  <2>6. CASE ~(y < P)
    <3>1. (y - P) % P = y % P
      BY <1>4, <2>1, <2>6, SameRemainder
    <3> QED BY <1>12, <2>1, <2>2, <2>4, <2>6, <3>1
  <2> QED BY <2>5, <2>6
<1>14. Prescaler' = Prescaler
  BY <1>1, <1>2, <1>7 DEF Prescaler, e
<1>15. Timer!Announce
  <2>1. Flag' = TRUE /\ Fresh' \in BOOLEAN
    BY <1>1 DEF Flag, Fresh
  <2> QED BY <1>1, <1>8, <1>13, <1>14, <2>1 DEF Timer!Announce, TimerCount, Prescaler, Flag, Fresh
<1> QED BY <1>15 DEF Refines, Timer!Next

LEMMA NextRefines ==
  ASSUME Base, Base', [Next]_vars
  PROVE  Refines
<1>1. CASE Next
  <2>1. ASSUME NEW cycles \in Blocks, Run(cycles) PROVE Refines
    BY <2>1, RunRefines
  <2>2. ASSUME ReadLy PROVE Refines
    BY <2>2, QuietTimer DEF ReadLy, TimaVars, cpu, irq, Flag
  <2>3. ASSUME NEW enabled \in ImeWrites, dmg_ei_di(enabled) PROVE Refines
    BY <2>3, RegistersRefine DEF dmg_ei_di
  <2>4. ASSUME NEW selected \in Buttons, dmg_set_button(selected) PROVE Refines
    BY <2>4, RegistersRefine DEF dmg_set_button
  <2>5. ASSUME NEW double \in SpeedSwitches, jit_handle_stop(double) PROVE Refines
    BY <2>5, StopRefines
  <2> QED BY <1>1, <2>1, <2>2, <2>3, <2>4, <2>5, WriteRegisterRefines, SyncRefines,
             OtherFireRefines, FireTimaRefines, EndDispatchRefines DEF Next
<1>2. CASE UNCHANGED vars
  <2>1. UNCHANGED TimaVars /\ UNCHANGED Flag
    BY <1>2 DEF vars, cpu, irq, timer, TimaVars, Flag
  <2> QED BY <2>1, QuietTimer
<1> QED BY <1>1, <1>2

LEMMA InitRefines == Init => Timer!Init
<1> SUFFICES ASSUME Init PROVE Timer!Init
  OBVIOUS
<1>1. Base
  BY InitBase
<1>2. /\ phase = "run" /\ ~timer_control.on /\ timer_control \in Control
      /\ timer_count = 0 /\ timer_mod = 0 /\ interrupt_request_mask = {"VBLANK"}
  BY DEF Init
<1>3. timer_control.div \in Divisors /\ timer_control.on = FALSE
  BY <1>2 DEF Control
<1>4. TimerCount = 0 /\ Prescaler = 0
  BY <1>2 DEF TimerCount, Counted, Prescaler
<1>5. ~Fresh
  BY <1>1, <1>2, OffIsNotFresh
<1>6. Fresh = FALSE /\ Flag = FALSE /\ (phase = "sync") = FALSE
  BY <1>2, <1>5 DEF Fresh, Flag
<1> QED BY <1>2, <1>3, <1>4, <1>6 DEF Timer!Init, TimerCount, Prescaler, Flag, Fresh

\* TimerIsStepped: whatever the program writes and however its dispatches are
\* cut, it sees a timer that is stepped every cycle and announces each
\* overflow before it goes on (dmg_tima_read, dmg_tima_touch and the overflow
\* of dmg_sync_hw, which compute it from a deadline).
THEOREM TheTimerIsStepped == Spec => TimerIsStepped
<1>1. Base /\ Base' /\ [Next]_vars => [Timer!Next]_(Timer!vars)
  BY NextRefines DEF Refines
<1>2. Spec => []Base
  BY BaseInvariant
<1>3. [Next]_vars /\ Base /\ Base' => [Timer!Next]_(Timer!vars)
  BY <1>1
<1> QED BY <1>2, <1>3, InitRefines, PTL DEF Spec, TimerIsStepped, Timer!Spec

-----------------------------------------------------------------------------
(* The loops that wait (WaitLoops).  D2 may run past every deadline there, *)
(* and back, so the invariants above do not hold of it as they stand.      *)

WaitClocks ==
  /\ phase \in {"run", "sync"} /\ d2 \in Nat /\ wake_limit \in Nat
  /\ double_speed \in BOOLEAN /\ frame_cycles \in Nat
  /\ phase = "run" => frame_cycles < Frame

\* Neither the timer nor the serial port is used, and the LCD stays on.
WaitDevices ==
  /\ event_deadline \in [Ev -> Nat] /\ event_deadline["WRAP"] = Frame
  /\ event_deadline["TIMA"] = EvNone /\ event_deadline["SERIAL"] = EvNone
  /\ timer_control.on = FALSE /\ lcdc_on = TRUE
  /\ stat \in SUBSET Source /\ lyc \in Nat /\ stat_event_line \in Nat
  /\ lazy_ly \in Nat /\ ly_read_cycle \in Nat

\* A dispatch begins with no more cycles than its frame has left.
WaitBudget ==
  phase = "run" /\ d2 = 0 => wake_limit <= Speed * (Frame - frame_cycles)

\* Only a handler has somewhere to return to, and a delay that has begun, or
\* that a handler interrupts, is not over.
WaitProgram ==
  /\ pc \in Wait \cup {Main, Handler} /\ return_to \in Wait \cup {Main}
  /\ pc # Handler => return_to = Main
  /\ reg \in Nat
  /\ Delay \in {pc, return_to} => reg > 0

WaitHost == WaitClocks /\ WaitDevices /\ WaitBudget
WaitInvariant == WaitHost /\ WaitProgram

ClockState == <<phase, d2, wake_limit, double_speed, frame_cycles>>
DeviceState == <<event_deadline, timer, lcd, ly>>

LEMMA DevicesKept == WaitDevices /\ UNCHANGED DeviceState => WaitDevices'
BY DEF WaitDevices, DeviceState, timer, lcd, ly

LEMMA HostKept == WaitHost /\ UNCHANGED <<ClockState, DeviceState>> => WaitHost'
BY DevicesKept DEF WaitHost, WaitClocks, WaitBudget, ClockState, Speed

LEMMA VarsKeepHost == WaitHost /\ UNCHANGED vars => WaitHost'
BY HostKept DEF vars, cpu, ClockState, DeviceState

LEMMA InitHost == WaitInit => WaitInvariant
<1> SUFFICES ASSUME WaitInit PROVE WaitInvariant
  OBVIOUS
<1>1. Init /\ pc = Main /\ return_to = Main /\ reg = 0
  BY DEF WaitInit
<1>2. Base
  BY <1>1, InitBase
<1>3. event_deadline["SERIAL"] = EvNone
  BY <1>1 DEF Init, Ev
<1>4. timer_control.on = FALSE /\ lcdc_on = TRUE
  BY <1>1 DEF Init
<1>5. WaitDevices
  BY <1>2, <1>3, <1>4 DEF WaitDevices, Base, Deadlines, Tima, Screen
<1>6. phase = "run" /\ wake_limit = Frame /\ frame_cycles = 0 /\ Speed = 1 /\ d2 = 0
  BY <1>1 DEF Init, Speed
<1>7. WaitClocks
  BY <1>2, <1>6, FrameFacts DEF WaitClocks, Base, Clocks
<1>8. WaitBudget
  BY <1>6, FrameFacts DEF WaitBudget
<1>9. WaitProgram
  BY <1>1 DEF WaitProgram, Main, Handler, Delay
<1> QED BY <1>5, <1>7, <1>8, <1>9 DEF WaitInvariant, WaitHost

LEMMA SpeedFacts ==
  Speed \in {1, 2} /\ (d2 \in Nat => d2 \div Speed \in Nat)
<1>1. Speed \in {1, 2}
  BY DEF Speed
<1> QED BY <1>1, DivNat

\* The wait leaves some cycles, or as many as the dispatch may have.
LEMMA SetD2Host ==
  ASSUME WaitHost, phase = "run", NEW cycles \in Nat,
         cycles > 0 \/ cycles = wake_limit, SetD2(cycles)
  PROVE  WaitHost'
<1>1. UNCHANGED DeviceState /\ UNCHANGED <<phase, wake_limit, double_speed, frame_cycles>>
      /\ d2' = cycles
  BY DEF SetD2, scheduler, DeviceState, vars
<1>2. WaitClocks'
  BY <1>1 DEF WaitHost, WaitClocks
<1>3. WaitBudget'
  <2>1. SUFFICES ASSUME cycles = 0 PROVE wake_limit <= Speed * (Frame - frame_cycles)
    BY <1>1 DEF WaitBudget, Speed
  <2>2. Frame - frame_cycles \in Nat
    BY FrameFacts DEF WaitHost, WaitClocks
  <2> QED BY <2>1, <2>2, SpeedFacts
<1> QED BY <1>1, <1>2, <1>3, DevicesKept DEF WaitHost

LEMMA RunHost ==
  ASSUME WaitHost, NEW cycles \in Blocks, Run(cycles)
  PROVE  WaitHost'
<1>1. cycles \in Nat \ {0}
  BY CycleAssumption
<1>2. UNCHANGED DeviceState /\ UNCHANGED <<phase, wake_limit, double_speed, frame_cycles>>
      /\ d2' = d2 + cycles
  BY DEF Run, DeviceState
<1> QED BY <1>1, <1>2, DevicesKept DEF WaitHost, WaitClocks, WaitBudget

\* The budget is only lowered, and only in the middle of a dispatch if the
\* speed changes.
LEMMA LowerHost ==
  ASSUME WaitHost, UNCHANGED <<phase, d2, frame_cycles>>, double_speed' \in BOOLEAN,
         d2 > 0 \/ UNCHANGED double_speed, WaitDevices',
         dmg_budget_update \/ UNCHANGED wake_limit
  PROVE  WaitHost'
<1>1. wake_limit' \in Nat /\ wake_limit' <= wake_limit
  BY BudgetFacts DEF WaitHost, WaitClocks, WaitDevices
<1>2. WaitClocks'
  BY <1>1 DEF WaitHost, WaitClocks
<1>3. WaitBudget'
  <2>1. SUFFICES ASSUME phase = "run", d2 = 0
                 PROVE  wake_limit' <= Speed' * (Frame - frame_cycles)
    BY DEF WaitBudget
  <2>2. Speed' = Speed /\ wake_limit <= Speed * (Frame - frame_cycles)
    BY <2>1 DEF Speed, WaitHost, WaitBudget
  <2>3. Speed * (Frame - frame_cycles) \in Int
    BY SpeedFacts, FrameFacts DEF WaitHost, WaitClocks
  <2> QED BY <1>1, <2>2, <2>3 DEF WaitHost, WaitClocks
<1> QED BY <1>2, <1>3 DEF WaitHost

LEMMA RegistersHost ==
  ASSUME WaitHost, NEW ime, NEW enable, NEW request, Registers(ime, enable, request),
         dmg_budget_update \/ UNCHANGED wake_limit
  PROVE  WaitHost'
<1>1. UNCHANGED DeviceState /\ UNCHANGED <<phase, d2, double_speed, frame_cycles>>
  BY DEF Registers, DeviceState
<1>2. WaitDevices'
  BY <1>1, DevicesKept DEF WaitHost
<1>3. double_speed' \in BOOLEAN
  BY <1>1 DEF WaitHost, WaitClocks
<1> QED BY <1>1, <1>2, <1>3, LowerHost

LEMMA StopHost ==
  ASSUME WaitHost, d2 > 0, NEW double \in BOOLEAN, jit_handle_stop(double)
  PROVE  WaitHost'
<1>1. UNCHANGED <<phase, d2, frame_cycles, timer_mod, lcd, ly>> /\ double_speed' = double
      /\ dmg_tima_touch(TRUE, dmg_tima_read, timer_control) /\ dmg_tima_recompute
  BY DEF jit_handle_stop, TimerWrite
<1>2. timer_control' = timer_control /\ timer_control.on = FALSE
  BY <1>1 DEF dmg_tima_touch, WaitHost, WaitDevices
<1>3. UNCHANGED wake_limit
      /\ event_deadline' = [event_deadline EXCEPT !["TIMA"] = EvNone]
  BY <1>1, <1>2 DEF dmg_tima_recompute
<1>4. WaitDevices'
  BY <1>1, <1>2, <1>3 DEF WaitHost, WaitDevices, lcd, ly
<1> QED BY <1>1, <1>3, <1>4, LowerHost

LEMMA StatHost ==
  ASSUME WaitHost, NEW sources \in StatWrites, WriteStat(sources)
  PROVE  WaitHost'
<1> DEFINE now == dmg_now_ppu
           stats == IF now >= Frame THEN {[at |-> EvNone, line |-> stat_event_line]}
                    ELSE stat_event_from(dmg_current_ly.lazy * Line + dmg_current_ly.pos,
                                         dmg_current_ly.lazy, lcdc_on, sources, lyc)
<1>1. /\ UNCHANGED <<phase, d2, double_speed, timer, lcdc_on, lyc>>
      /\ frame_cycles' = frame_cycles - 0
      /\ stat' = sources /\ dmg_budget_update
      /\ lazy_ly' = dmg_current_ly.lazy /\ ly_read_cycle' = dmg_current_ly.read
      /\ \E next \in IF dmg_now_ppu - 0 >= Frame THEN {[at |-> EvNone, line |-> stat_event_line]}
                     ELSE stat_event_from(dmg_current_ly.lazy * Line + dmg_current_ly.pos,
                                          dmg_current_ly.lazy, lcdc_on, sources, lyc) :
           /\ stat_event_line' = next.line
           /\ event_deadline' = [event_deadline EXCEPT
                !["STAT"] = next.at,
                !["TIMA"] = Earlier(@, 0),
                !["SERIAL"] = Earlier(@, 0),
                !["VBLANK"] = @, !["RENDER"] = @]
  <2>1. lcdc_on = TRUE
    BY DEF WaitHost, WaitDevices
  <2> QED BY <2>1 DEF WriteStat, WriteLcd
<1>2. now \in Nat /\ frame_cycles' = frame_cycles
  BY <1>1, SpeedFacts DEF dmg_now_ppu, WaitHost, WaitClocks
<1>3. /\ dmg_current_ly.lazy \in Nat /\ dmg_current_ly.read \in Nat /\ dmg_current_ly.pos \in Nat
  BY <1>2, LyFacts DEF dmg_current_ly, WaitHost, WaitDevices
<1>4. PICK next \in stats :
        /\ stat_event_line' = next.line
        /\ event_deadline' = [event_deadline EXCEPT
                !["STAT"] = next.at,
                !["TIMA"] = Earlier(@, 0),
                !["SERIAL"] = Earlier(@, 0),
                !["VBLANK"] = @, !["RENDER"] = @]
  <2>1. now - 0 = now
    BY <1>2
  <2> QED BY <1>1, <2>1
<1>5. next.at \in Nat /\ next.line \in Nat
  <2>1. CASE now >= Frame
    BY <1>4, <2>1, FrameFacts DEF WaitHost, WaitDevices
  <2>2. CASE ~(now >= Frame)
    <3>1. dmg_current_ly.lazy * Line + dmg_current_ly.pos \in Nat
      BY <1>3, FrameFacts
    <3>2. sources \in SUBSET Source /\ lyc \in Nat /\ lcdc_on \in BOOLEAN
      BY WriteAssumption DEF WaitHost, WaitDevices
    <3>3. next \in stat_event_from(dmg_current_ly.lazy * Line + dmg_current_ly.pos,
                                   dmg_current_ly.lazy, lcdc_on, sources, lyc)
      BY <1>4, <2>2
    <3> QED BY <1>3, <3>1, <3>2, <3>3, StatFromFacts
  <2> QED BY <2>1, <2>2
<1>6. event_deadline' \in [Ev -> Nat] /\ event_deadline'["WRAP"] = Frame
      /\ event_deadline'["TIMA"] = EvNone /\ event_deadline'["SERIAL"] = EvNone
  <2>1. event_deadline \in [Ev -> Nat] /\ event_deadline["WRAP"] = Frame
        /\ event_deadline["TIMA"] = EvNone /\ event_deadline["SERIAL"] = EvNone
    BY DEF WaitHost, WaitDevices
  <2>2. Earlier(EvNone, 0) = EvNone
    BY DEF Earlier
  <2> QED BY <1>4, <1>5, <2>1, <2>2, FrameFacts DEF Ev
<1>7. WaitDevices'
  <2>1. sources \in SUBSET Source
    BY WriteAssumption
  <2> QED BY <1>1, <1>3, <1>4, <1>5, <1>6, <2>1 DEF WaitHost, WaitDevices, timer
<1>8. double_speed' \in BOOLEAN
  BY <1>1 DEF WaitHost, WaitClocks
<1> QED BY <1>1, <1>2, <1>7, <1>8, LowerHost

LEMMA SyncHost == WaitHost /\ dmg_sync_hw => WaitHost'
<1> SUFFICES ASSUME WaitHost, dmg_sync_hw PROVE WaitHost'
  OBVIOUS
<1>1. dmg_now_ppu \in Nat
  BY SpeedFacts DEF dmg_now_ppu, WaitHost, WaitClocks
<1>2. UNCHANGED <<d2, wake_limit, double_speed, event_deadline, timer_control, lcd, ly>>
      /\ phase' = "sync" /\ frame_cycles' = dmg_now_ppu
  BY DEF dmg_sync_hw
<1>3. WaitDevices'
  BY <1>2 DEF WaitHost, WaitDevices, lcd, ly
<1> QED BY <1>1, <1>2, <1>3 DEF WaitHost, WaitClocks, WaitBudget

\* What fires fires in dmg_sync_hw, where there is no budget yet.
LEMMA FiredHost ==
  ASSUME WaitHost, UNCHANGED cpu, phase = "sync", frame_cycles' \in Nat, WaitDevices'
  PROVE  WaitHost'
BY DEF WaitHost, WaitClocks, WaitBudget, cpu

LEMMA FireStatHost ==
  ASSUME WaitHost, FireStat
  PROVE  WaitHost'
<1>1. phase = "sync" /\ UNCHANGED <<cpu, frame_cycles, timer, lcdc_on, stat, lyc, ly>>
  BY DEF FireStat, Fires
<1>2. PICK next \in stat_event_from(event_deadline["STAT"] + 1, stat_event_line,
                                    lcdc_on, stat, lyc) :
        /\ event_deadline' = [event_deadline EXCEPT !["STAT"] = next.at]
        /\ stat_event_line' = next.line
  BY DEF FireStat
<1>3. event_deadline["STAT"] + 1 \in Nat /\ stat_event_line \in Nat /\ lcdc_on \in BOOLEAN
      /\ stat \in SUBSET Source /\ lyc \in Nat
  BY DEF WaitHost, WaitDevices, Ev
<1>4. next.line \in Nat /\ next.at \in Nat
  BY <1>2, <1>3, StatFromFacts
<1>5. WaitDevices'
  BY <1>1, <1>2, <1>4 DEF WaitHost, WaitDevices, timer, ly, Ev
<1> QED BY <1>1, <1>5, FiredHost DEF WaitHost, WaitClocks

LEMMA FireVblankHost ==
  ASSUME WaitHost, FireVblank
  PROVE  WaitHost'
<1>1. phase = "sync" /\ UNCHANGED <<cpu, frame_cycles, timer, lcd, ly>>
      /\ event_deadline' = [event_deadline EXCEPT !["VBLANK"] = EvNone]
  BY DEF FireVblank, Fires
<1>2. WaitDevices'
  BY <1>1, FrameFacts DEF WaitHost, WaitDevices, timer, lcd, ly, Ev
<1> QED BY <1>1, <1>2, FiredHost DEF WaitHost, WaitClocks

LEMMA FireRenderHost ==
  ASSUME WaitHost, FireRender
  PROVE  WaitHost'
<1>1. phase = "sync" /\ UNCHANGED <<cpu, frame_cycles, timer, lcd, ly>>
      /\ event_deadline' = [event_deadline EXCEPT !["RENDER"] = EvNone]
  BY DEF FireRender, Fires
<1>2. WaitDevices'
  BY <1>1, FrameFacts DEF WaitHost, WaitDevices, timer, lcd, ly, Ev
<1> QED BY <1>1, <1>2, FiredHost DEF WaitHost, WaitClocks

LEMMA FireWrapHost ==
  ASSUME WaitHost, FireWrap
  PROVE  WaitHost'
<1>1. phase = "sync" /\ event_deadline["WRAP"] <= frame_cycles
      /\ frame_cycles' = frame_cycles - Frame /\ lazy_ly' = 0 /\ ly_read_cycle' = 0
      /\ UNCHANGED <<cpu, timer, lcdc_on, stat, lyc>>
  BY DEF FireWrap, Fires
<1>2. PICK next \in stat_event_from(0, 0, lcdc_on, stat, lyc) :
        /\ stat_event_line' = next.line
        /\ event_deadline' = [event_deadline EXCEPT
             !["STAT"] = next.at,
             !["VBLANK"] = FrameDeadline(lcdc_on, FALSE),
             !["RENDER"] = FrameDeadline(lcdc_on, FALSE),
             !["TIMA"] = IF @ = EvNone THEN EvNone ELSE @ - Frame,
             !["SERIAL"] = IF @ = EvNone THEN EvNone ELSE @ - Frame]
  BY DEF FireWrap
<1>3. frame_cycles' \in Nat
  BY <1>1, FrameFacts DEF WaitHost, WaitClocks, WaitDevices
<1>4. lcdc_on \in BOOLEAN /\ stat \in SUBSET Source /\ lyc \in Nat
  BY DEF WaitHost, WaitDevices
<1>5. next.line \in Nat /\ next.at \in Nat
  BY <1>2, <1>4, StatFromFacts
<1>6. FrameDeadline(lcdc_on, FALSE) \in Nat
  BY FrameFacts DEF FrameDeadline
<1>7. event_deadline' \in [Ev -> Nat] /\ event_deadline'["WRAP"] = Frame
      /\ event_deadline'["TIMA"] = EvNone /\ event_deadline'["SERIAL"] = EvNone
  <2>1. event_deadline \in [Ev -> Nat] /\ event_deadline["WRAP"] = Frame
        /\ event_deadline["TIMA"] = EvNone /\ event_deadline["SERIAL"] = EvNone
    BY DEF WaitHost, WaitDevices
  <2> QED BY <1>2, <1>5, <1>6, <2>1, FrameFacts DEF Ev
<1>8. WaitDevices'
  BY <1>1, <1>2, <1>5, <1>7 DEF WaitHost, WaitDevices, timer
<1> QED BY <1>1, <1>3, <1>8, FiredHost

LEMMA EndDispatchHost ==
  ASSUME WaitHost, EndDispatch
  PROVE  WaitHost'
<1> DEFINE dist == dmg_cycles_to_next_event(event_deadline, ie, frame_cycles)
<1>1. /\ UNCHANGED <<double_speed, frame_cycles, DeviceState>>
      /\ phase' = "run" /\ d2' = 0 /\ wake_limit' = Speed * dist
      /\ event_deadline["WRAP"] > frame_cycles
  BY DEF EndDispatch, Ev, DeviceState
<1>2. event_deadline \in [Ev -> Nat] /\ event_deadline["WRAP"] = Frame /\ frame_cycles \in Nat
  BY DEF WaitHost, WaitDevices, WaitClocks
<1>3. dist \in Nat /\ (dist = 0 \/ dist <= event_deadline["WRAP"] - frame_cycles)
  BY <1>2, DistanceFacts, WakingFacts
<1> HIDE DEF dist
<1>4. dist <= Frame - frame_cycles /\ Frame - frame_cycles \in Nat
  BY <1>1, <1>2, <1>3, FrameFacts
<1>5. wake_limit' \in Nat /\ wake_limit' <= Speed * (Frame - frame_cycles)
  <2>1. Speed * dist \in Nat /\ Speed * dist <= Speed * (Frame - frame_cycles)
    BY <1>3, <1>4, SpeedFacts
  <2> QED BY <1>1, <2>1
<1>6. WaitClocks'
  BY <1>1, <1>2, <1>5 DEF WaitHost, WaitClocks
<1>7. WaitBudget'
  BY <1>1, <1>5 DEF WaitBudget, Speed
<1> QED BY <1>1, <1>6, <1>7, DevicesKept DEF WaitHost

LEMMA Places ==
  /\ Main # Handler /\ Main # Delay /\ Handler # Delay /\ Delay \in Wait
  /\ Main \notin Wait /\ Handler \notin Wait
  /\ \A w \in Wait : w.kind # "ly" \/ w \in LyWaits
  /\ \A w \in LyWaits : /\ w.kind = "ly" /\ w # Delay /\ w # Main /\ w # Handler
                        /\ w.target \in Nat /\ w.jr \in {"nz", "z", "c"}
<1>1. \A w \in LyWaits : w.kind = "ly" /\ w.target \in Nat /\ w.jr \in {"nz", "z", "c"}
  BY WaitAssumption
<1>2. Main.kind = "main" /\ Handler.kind = "handler" /\ Delay.kind = "delay"
      /\ Halt.kind = "halt" /\ Idle.kind = "idle"
  BY DEF Main, Handler, Delay, Halt, Idle
<1> QED BY <1>1, <1>2 DEF Wait

LEMMA HereFacts ==
  ASSUME WaitInvariant, NEW kind, Here(kind)
  PROVE  /\ phase = "run" /\ ~exiting /\ frame_cycles < Frame
         /\ kind = "ly" => pc \in LyWaits
         /\ kind = "delay" => pc = Delay /\ reg \in Nat \ {0}
         /\ kind \in {"ly", "halt", "idle", "delay"} => return_to = Main /\ pc \in Wait
<1>1. pc.kind = kind /\ phase = "run" /\ ~exiting
  BY DEF Here
<1>2. pc \in Wait \cup {Main, Handler} /\ (pc # Handler => return_to = Main)
      /\ reg \in Nat /\ (pc = Delay => reg > 0)
  BY DEF WaitInvariant, WaitProgram
<1>3. Main.kind = "main" /\ Handler.kind = "handler" /\ Halt.kind = "halt" /\ Idle.kind = "idle"
  BY DEF Main, Handler, Halt, Idle
<1>4. kind = "delay" => pc = Delay
  BY <1>1, <1>2, <1>3, Places DEF Wait
<1> QED BY <1>1, <1>2, <1>3, <1>4, Places DEF WaitInvariant, WaitHost, WaitClocks

LEMMA LoopNumbers ==
  /\ Pass \in Nat \ {0} /\ DecCycles \in Nat \ {0} /\ JrEnd \in Nat \ {0}
  /\ JrTaken - JrEnd = DecCycles
  /\ Iteration \in Nat \ {0} /\ Iteration = DecCycles + DecCycles + JrEnd
BY WaitAssumption DEF Iteration

-----------------------------------------------------------------------------
(* The cycles of a delay *)

\* What the full delay charges is what is left of the loop, within the limit.
LEMMA FullDelay ==
  ASSUME d2 \in Nat, wake_limit \in Nat, reg \in Nat \ {0}
  PROVE  /\ d2 + DecCycles + FullCost \in Nat
         /\ d2 + DecCycles + FullCost > d2
         /\ (d2 + DecCycles + FullCost) - d2 = LoopCost(reg) - LoopCost(0)
         /\ Full => d2 + DecCycles + FullCost <= wake_limit
<1> DEFINE p == Iteration * reg
<1>1. p \in Nat /\ Iteration <= p
  <2>1. 1 * Iteration <= reg * Iteration /\ reg * Iteration = p
    BY LoopNumbers, ProductMonotone
  <2> QED BY <2>1, LoopNumbers
<1>2. FullCost = p - DecCycles - DecCycles
  BY LoopNumbers DEF FullCost
<1>3. LoopCost(reg) = p - DecCycles /\ LoopCost(0) = 0
  BY LoopNumbers DEF LoopCost
<1> HIDE DEF p
<1>4. Full => FullCost <= wake_limit - (d2 + DecCycles)
  BY <1>1, <1>2, LoopNumbers DEF Full, Remaining
<1> QED BY <1>1, <1>2, <1>3, <1>4, LoopNumbers

\* At least one iteration is run, and not more than are left.
LEMMA FittingFacts ==
  ASSUME d2 \in Nat, wake_limit \in Nat, reg \in Nat \ {0}, ~Full
  PROVE  /\ Fitting \in Nat \ {0} /\ Fitting <= reg
         /\ Fitting = 1 \/ d2 + (Iteration * Fitting) <= wake_limit
<1> DEFINE x == Remaining + DecCycles
           j == x \div Iteration
           p == Iteration * reg
<1>1. x = wake_limit - d2 /\ x \in Int /\ Remaining \in Int
  BY LoopNumbers DEF Remaining
<1>2. j \in Int /\ x % Iteration \in 0 .. Iteration - 1 /\ x = (j * Iteration) + (x % Iteration)
  BY <1>1, LoopNumbers, DivMod
<1>3. Fitting = IF Remaining > 0 /\ j > 0 THEN j ELSE 1
  BY DEF Fitting
<1>4. p \in Nat /\ FullCost = p - DecCycles - DecCycles
  BY LoopNumbers DEF FullCost
<1>5. Remaining > 0 => x < p
  <2> HIDE DEF p, x
  <2>1. Remaining > 0 => Remaining < FullCost
    BY <1>1, <1>4, LoopNumbers DEF Full
  <2> QED BY <1>1, <1>4, <2>1, LoopNumbers DEF x
<1> HIDE DEF x
<1> HIDE DEF j
<1>6. j * Iteration \in Int /\ j * Iteration <= x /\ Iteration * j = j * Iteration
  BY <1>1, <1>2, LoopNumbers
<1>7. ASSUME Remaining > 0 PROVE j < reg
  <2>1. ASSUME reg <= j PROVE FALSE
    <3>1. reg * Iteration <= j * Iteration /\ p = reg * Iteration
      BY <1>2, <2>1, LoopNumbers, ProductMonotone
    <3> HIDE DEF p
    <3> QED BY <1>1, <1>4, <1>5, <1>6, <1>7, <3>1
  <2> QED BY <1>2, <2>1
<1>8. CASE Remaining > 0 /\ j > 0
  BY <1>1, <1>2, <1>3, <1>6, <1>7, <1>8
<1>9. CASE ~(Remaining > 0 /\ j > 0)
  BY <1>3, <1>9
<1> QED BY <1>8, <1>9

LEMMA PartialDelay ==
  ASSUME d2 \in Nat, wake_limit \in Nat, reg \in Nat \ {0}, ~Full
  PROVE  /\ d2 + DecCycles + PartialCost(Fitting) \in Nat
         /\ d2 + DecCycles + PartialCost(Fitting) > d2
         /\ (d2 + DecCycles + PartialCost(Fitting)) - d2
              = LoopCost(reg) - LoopCost(reg - Fitting)
         /\ \/ d2 + DecCycles + PartialCost(Fitting) <= wake_limit
            \/ d2 + DecCycles + PartialCost(Fitting) <= d2 + Iteration
         /\ reg - Fitting \in Nat
<1> DEFINE j == Fitting
           p == Iteration * j
           q == Iteration * reg
           cost == PartialCost(j)
<1>1. j \in Nat \ {0} /\ j <= reg /\ (j = 1 \/ d2 + p <= wake_limit)
  BY FittingFacts
<1>2. cost = p - DecCycles - IF j = reg THEN DecCycles ELSE 0
  BY LoopNumbers DEF PartialCost
<1> HIDE DEF j, cost
<1>3. p \in Nat /\ q \in Nat /\ Iteration <= p /\ (j = 1 => p = Iteration)
      /\ Iteration * (reg - j) = q - p
  <2>1. 1 * Iteration <= j * Iteration /\ j * Iteration = p
    BY <1>1, LoopNumbers, ProductMonotone
  <2> QED BY <1>1, <2>1, LoopNumbers
<1>4. LoopCost(reg) = q - DecCycles
      /\ LoopCost(reg - j) = IF j = reg THEN 0 ELSE (q - p) - DecCycles
  <2>1. reg - j = 0 <=> j = reg
    BY <1>1
  <2> QED BY <1>3, <2>1, LoopNumbers DEF LoopCost
<1>5. j = reg => p = q
  OBVIOUS
<1> HIDE DEF p, q
<1>6. /\ d2 + DecCycles + cost \in Nat
      /\ d2 + DecCycles + cost > d2
      /\ d2 + DecCycles + cost <= d2 + p
  BY <1>1, <1>2, <1>3, LoopNumbers
<1>7. (d2 + DecCycles + cost) - d2 = LoopCost(reg) - LoopCost(reg - j)
  <2>1. CASE j = reg
    BY <1>1, <1>2, <1>3, <1>4, <1>5, <2>1, LoopNumbers
  <2>2. CASE j # reg
    BY <1>1, <1>2, <1>3, <1>4, <2>2, LoopNumbers
  <2> QED BY <2>1, <2>2
<1>8. \/ d2 + DecCycles + cost <= wake_limit
      \/ d2 + DecCycles + cost <= d2 + Iteration
  BY <1>1, <1>3, <1>6, LoopNumbers
<1>9. reg - j \in Nat
  BY <1>1
<1> QED BY <1>6, <1>7, <1>8, <1>9 DEF cost, j

-----------------------------------------------------------------------------
(* Each step keeps the invariant. *)

\* What a poll of LY waits for.
LEMMA LineFacts ==
  ASSUME WaitInvariant, Here("ly")
  PROVE  /\ pc \in LyWaits /\ pc.target \in Nat /\ pc.jr \in {"nz", "z", "c"}
         /\ Lo \in Nat /\ Hi = Lo + Line /\ Lo = pc.target * Line
         /\ frame_cycles \in Nat /\ frame_cycles < Frame
         /\ Reachable => Hi <= Frame
         /\ ~Reachable => Frame <= Lo
<1>1. pc \in LyWaits /\ frame_cycles < Frame /\ frame_cycles \in Nat
  BY HereFacts DEF WaitInvariant, WaitHost, WaitClocks
<1>2. pc.target \in Nat /\ pc.jr \in {"nz", "z", "c"}
  BY <1>1, Places
<1>3. Lo = pc.target * Line /\ Hi = Lo + Line /\ Lo \in Nat
  BY <1>2, FrameFacts DEF Lo, Hi
<1>4. Reachable => Hi <= Frame
  <2>1. SUFFICES ASSUME Reachable PROVE Hi <= Frame
    OBVIOUS
  <2>2. (pc.target + 1) * Line <= Lines * Line
    BY <1>2, <2>1, FrameFacts, ProductMonotone DEF Reachable
  <2>3. (pc.target + 1) * Line = Hi
    BY <1>2, <1>3, FrameFacts
  <2> QED BY <2>2, <2>3 DEF Frame
<1>5. ~Reachable => Frame <= Lo
  BY <1>2, <1>3, FrameFacts, ProductMonotone DEF Reachable, Frame
<1> QED BY <1>1, <1>2, <1>3, <1>4, <1>5

LEMMA DistanceToLine ==
  ASSUME WaitInvariant, Here("ly"), Waits
  PROVE  /\ WaitsFor \in Nat /\ WaitsFor > frame_cycles /\ WaitsFor <= Frame
         /\ Distance \in Nat \ {0}
         /\ Distance = Speed * (WaitsFor - frame_cycles)
<1>1. WaitsFor \in Nat /\ WaitsFor > frame_cycles /\ WaitsFor <= Frame
  BY LineFacts, FrameFacts DEF Waits, WaitsFor
<1>2. WaitsFor - frame_cycles \in Nat \ {0}
  BY <1>1, LineFacts
<1> QED BY <1>1, <1>2, SpeedFacts DEF Distance

LEMMA LeaveProgram ==
  ASSUME WaitInvariant, pc \in Wait, UNCHANGED return_to, pc' = Main, reg' \in Nat
  PROVE  WaitProgram'
BY Places DEF WaitInvariant, WaitProgram

LEMMA StayProgram == WaitProgram /\ UNCHANGED <<pc, return_to, reg>> => WaitProgram'
BY DEF WaitProgram

LEMMA PollKept ==
  ASSUME WaitInvariant, emit_ly_exit_now \/ emit_ly_wait_done
  PROVE  WaitInvariant'
<1>1. Here("ly") /\ pc' = Main /\ UNCHANGED return_to
  BY DEF emit_ly_exit_now, emit_ly_wait_done
<1>2. pc \in Wait /\ phase = "run" /\ d2 \in Nat /\ WaitHost
  BY <1>1, HereFacts DEF WaitInvariant, WaitHost, WaitClocks
<1>3. WaitHost' /\ reg' \in Nat
  <2>1. CASE emit_ly_exit_now
    <3>1. SetD2(d2 + Pass) /\ reg' = frame_cycles \div Line
      BY <2>1 DEF emit_ly_exit_now
    <3>2. d2 + Pass \in Nat /\ d2 + Pass > 0
      BY <1>2, LoopNumbers
    <3>3. frame_cycles \div Line \in Nat
      BY <1>1, LineFacts, FrameFacts, DivNat
    <3> QED BY <1>2, <3>1, <3>2, <3>3, SetD2Host
  <2>2. CASE emit_ly_wait_done
    <3>1. SetD2(Distance) /\ Waits
          /\ reg' = IF pc.jr = "z" THEN NextLine(pc.target) ELSE pc.target
      BY <2>2 DEF emit_ly_wait_done
    <3>2. Distance \in Nat /\ Distance > 0
      BY <1>1, <3>1, DistanceToLine
    <3>3. NextLine(pc.target) \in Nat /\ pc.target \in Nat
      BY <1>1, LineFacts, FrameFacts DEF NextLine
    <3> QED BY <1>2, <3>1, <3>2, <3>3, SetD2Host
  <2> QED BY <2>1, <2>2
<1> QED BY <1>1, <1>2, <1>3, LeaveProgram DEF WaitInvariant

LEMMA SkipHost ==
  ASSUME WaitInvariant, phase = "run", SetD2(wake_limit)
  PROVE  WaitHost'
BY SetD2Host DEF WaitInvariant, WaitHost, WaitClocks

LEMMA SkipKept ==
  ASSUME WaitInvariant,
         KeepPolling \/ compile_halt \/ \E repeats \in BOOLEAN : compile_hram_idle_wait(repeats)
  PROVE  WaitInvariant'
<1>1. CASE KeepPolling
  <2>1. Here("ly") /\ SetD2(wake_limit) /\ UNCHANGED <<pc, return_to, reg>>
    BY <1>1 DEF KeepPolling, emit_wake_skip
  <2> QED BY <2>1, HereFacts, SkipHost, StayProgram DEF WaitInvariant
<1>2. CASE compile_halt
  <2>1. Here("halt") /\ SetD2(wake_limit) /\ pc' = Main /\ UNCHANGED <<return_to, reg>>
    BY <1>2 DEF compile_halt, emit_wake_skip
  <2>2. reg' \in Nat
    BY <2>1 DEF WaitInvariant, WaitProgram
  <2> QED BY <2>1, <2>2, HereFacts, SkipHost, LeaveProgram DEF WaitInvariant
<1>3. ASSUME NEW repeats \in BOOLEAN, compile_hram_idle_wait(repeats)
      PROVE  WaitInvariant'
  <2>1. Here("idle") /\ UNCHANGED <<return_to, reg>>
    BY <1>3 DEF compile_hram_idle_wait
  <2>2. reg' \in Nat
    BY <2>1 DEF WaitInvariant, WaitProgram
  <2>3. CASE repeats
    <3>1. SetD2(wake_limit) /\ pc' = pc
      BY <1>3, <2>3 DEF compile_hram_idle_wait, emit_wake_skip
    <3> QED BY <2>1, <3>1, HereFacts, SkipHost, StayProgram DEF WaitInvariant
  <2>4. CASE ~repeats
    <3>1. UNCHANGED vars /\ pc' = Main
      BY <1>3, <2>4 DEF compile_hram_idle_wait
    <3> QED BY <2>1, <2>2, <3>1, HereFacts, VarsKeepHost, LeaveProgram DEF WaitInvariant
  <2> QED BY <2>3, <2>4
<1> QED BY <1>1, <1>2, <1>3

LEMMA DelayKept ==
  ASSUME WaitInvariant, compile_delay_loop_full \/ compile_delay_loop_partial
  PROVE  WaitInvariant'
<1>1. Here("delay") /\ UNCHANGED return_to
  BY DEF compile_delay_loop_full, compile_delay_loop_partial
<1>2. pc = Delay /\ pc \in Wait /\ reg \in Nat \ {0} /\ phase = "run" /\ return_to = Main
      /\ d2 \in Nat /\ wake_limit \in Nat /\ WaitHost
  BY <1>1, HereFacts DEF WaitInvariant, WaitHost, WaitClocks
<1>3. CASE compile_delay_loop_full
  <2>1. SetD2(d2 + DecCycles + FullCost) /\ reg' = 0 /\ pc' = Main
    BY <1>3 DEF compile_delay_loop_full
  <2>2. d2 + DecCycles + FullCost \in Nat /\ d2 + DecCycles + FullCost > 0
    BY <1>2, FullDelay
  <2>3. WaitHost'
    BY <1>2, <2>1, <2>2, SetD2Host
  <2> QED BY <1>1, <1>2, <2>1, <2>3, LeaveProgram DEF WaitInvariant
<1>4. CASE compile_delay_loop_partial
  <2>1. SetD2(d2 + DecCycles + PartialCost(Fitting)) /\ reg' = reg - Fitting
        /\ pc' = (IF reg' = 0 THEN Main ELSE pc) /\ ~Full
    BY <1>4 DEF compile_delay_loop_partial
  <2>2. /\ d2 + DecCycles + PartialCost(Fitting) \in Nat
        /\ d2 + DecCycles + PartialCost(Fitting) > 0 /\ reg' \in Nat
    BY <1>2, <2>1, PartialDelay
  <2>3. WaitHost'
    BY <1>2, <2>1, <2>2, SetD2Host
  <2>4. WaitProgram'
    BY <1>1, <1>2, <2>1, <2>2, Places DEF WaitProgram
  <2> QED BY <2>3, <2>4 DEF WaitInvariant
<1> QED BY <1>3, <1>4

LEMMA CodeKept ==
  ASSUME WaitInvariant, RunBlock \/ Access
  PROVE  WaitInvariant'
<1>1. WaitHost /\ UNCHANGED <<pc, return_to, reg>>
  BY DEF RunBlock, Access, program, WaitInvariant
<1>2. WaitHost'
  <2>1. CASE RunBlock
    BY <1>1, <2>1, RunHost DEF RunBlock
  <2>2. CASE Access
    <3>1. d2 > 0
      BY <2>2 DEF Access
    <3>2. ASSUME NEW data \in IeWrites, WriteIe(data) PROVE WaitHost'
      BY <1>1, <3>2, RegistersHost DEF WriteIe
    <3>3. ASSUME NEW sources \in StatWrites, WriteStat(sources) PROVE WaitHost'
      BY <1>1, <3>3, StatHost
    <3>4. ASSUME NEW enabled \in ImeWrites, dmg_ei_di(enabled) PROVE WaitHost'
      <4>1. Registers(enabled, ie, interrupt_request_mask)
            /\ (dmg_budget_update \/ UNCHANGED wake_limit)
        BY <3>4 DEF dmg_ei_di
      <4> QED BY <1>1, <4>1, RegistersHost
    <3>5. ASSUME NEW double \in SpeedSwitches, jit_handle_stop(double) PROVE WaitHost'
      BY <1>1, <3>1, <3>5, StopHost, WriteAssumption
    <3> QED BY <2>2, <3>2, <3>3, <3>4, <3>5 DEF Access
  <2> QED BY <2>1, <2>2
<1>3. WaitProgram'
  BY <1>1, StayProgram DEF WaitInvariant
<1> QED BY <1>2, <1>3 DEF WaitInvariant

LEMMA EnterKept ==
  ASSUME WaitInvariant, Enter
  PROVE  WaitInvariant'
<1>1. UNCHANGED vars /\ pc = Main /\ pc' \in Wait /\ UNCHANGED return_to
      /\ reg' \in IF pc' = Delay THEN Counts ELSE {0}
  BY DEF Enter
<1>2. return_to = Main /\ return_to # Delay
  BY <1>1, Places DEF WaitInvariant, WaitProgram
<1>3. reg' \in Nat /\ (pc' = Delay => reg' > 0)
  BY <1>1, WaitAssumption
<1>4. WaitProgram'
  BY <1>1, <1>2, <1>3 DEF WaitInvariant, WaitProgram
<1> QED BY <1>1, <1>4, VarsKeepHost DEF WaitInvariant

LEMMA ReturnKept ==
  ASSUME WaitInvariant, Return
  PROVE  WaitInvariant'
<1>1. pc = Handler /\ dmg_ei_di(TRUE) /\ pc' = return_to /\ return_to' = Main /\ reg' = reg
  BY DEF Return
<1>2. Registers(TRUE, ie, interrupt_request_mask) /\ (dmg_budget_update \/ UNCHANGED wake_limit)
  BY <1>1 DEF dmg_ei_di
<1>3. WaitHost'
  BY <1>2, RegistersHost DEF WaitInvariant
<1>4. WaitProgram'
  BY <1>1, Places DEF WaitInvariant, WaitProgram
<1> QED BY <1>3, <1>4 DEF WaitInvariant

LEMMA SyncKept ==
  ASSUME WaitInvariant, Sync
  PROVE  WaitInvariant'
<1>1. dmg_sync_hw /\ UNCHANGED <<pc, return_to>> /\ reg' = IF pc = Main THEN 0 ELSE reg
  BY DEF Sync
<1>2. WaitProgram'
  BY <1>1, Places DEF WaitInvariant, WaitProgram
<1> QED BY <1>1, <1>2, SyncHost DEF WaitInvariant

LEMMA FireKept ==
  ASSUME WaitInvariant, Fire
  PROVE  WaitInvariant'
<1>1. WaitHost'
  BY FireStatHost, FireVblankHost, FireRenderHost, FireWrapHost DEF Fire, WaitInvariant
<1> QED BY <1>1, StayProgram DEF WaitInvariant, Fire, program

LEMMA ReenterKept ==
  ASSUME WaitInvariant, Reenter
  PROVE  WaitInvariant'
<1>1. EndDispatch /\ reg' = reg
  BY DEF Reenter
<1>2. WaitHost'
  BY <1>1, EndDispatchHost DEF WaitInvariant
<1>3. WaitProgram'
  <2>1. CASE Taken = {}
    BY <1>1, <2>1, StayProgram DEF Reenter, WaitInvariant
  <2>2. CASE Taken # {}
    <3>1. pc' = Handler /\ return_to' = IF pc = Handler THEN return_to ELSE pc
      BY <2>2 DEF Reenter
    <3> QED BY <1>1, <3>1, Places DEF WaitInvariant, WaitProgram
  <2> QED BY <2>1, <2>2
<1> QED BY <1>2, <1>3 DEF WaitInvariant

LEMMA WaitNextKept == WaitInvariant /\ [WaitNext]_wvars => WaitInvariant'
<1> SUFFICES ASSUME WaitInvariant, [WaitNext]_wvars PROVE WaitInvariant'
  OBVIOUS
<1>1. CASE WaitStep
  BY <1>1, PollKept, SkipKept, DelayKept DEF WaitStep
<1>2. CASE RunBlock \/ Access
  BY <1>2, CodeKept
<1>3. CASE Enter
  BY <1>3, EnterKept
<1>4. CASE Return
  BY <1>4, ReturnKept
<1>5. CASE Sync
  BY <1>5, SyncKept
<1>6. CASE Fire
  BY <1>6, FireKept
<1>7. CASE Reenter
  BY <1>7, ReenterKept
<1>8. CASE UNCHANGED wvars
  BY <1>8, VarsKeepHost, StayProgram DEF wvars, program, WaitInvariant
<1> QED BY <1>1, <1>2, <1>3, <1>4, <1>5, <1>6, <1>7, <1>8 DEF WaitNext, Continue

\* Of every run of the waits: the dispatch has a budget within its frame, and
\* a delay that is interrupted has iterations left.
THEOREM WaitsKeepTheirState == WaitSpec => []WaitInvariant
<1>1. WaitInit => WaitInvariant
  BY InitHost
<1>2. WaitInvariant /\ [WaitNext]_wvars => WaitInvariant'
  BY WaitNextKept
<1> QED BY <1>1, <1>2, PTL DEF WaitSpec

\* What register A or a counter holds.
RegValues == {n \in Nat : n < Lines \/ \E count \in Counts : n <= count}

LEMMA RegValuesFacts ==
  /\ RegValues = (0 .. Lines - 1) \cup UNION {0 .. count : count \in Counts}
  /\ 0 \in RegValues /\ Counts \subseteq RegValues
  /\ \A n \in Nat : n < Lines => n \in RegValues
  /\ \A n \in RegValues, m \in Nat : m <= n => m \in RegValues
<1>1. Counts \subseteq Nat \ {0} /\ Lines \in Nat /\ Lines > 0
  BY WaitAssumption, FrameFacts
<1>2. \A n \in RegValues, m \in Nat : m <= n => m \in RegValues
  BY <1>1 DEF RegValues
<1>3. ASSUME NEW n \in RegValues
      PROVE  n \in 0 .. Lines - 1 \/ \E count \in Counts : n \in 0 .. count
  BY <1>1 DEF RegValues
<1>4. ASSUME NEW n, n \in 0 .. Lines - 1 \/ \E count \in Counts : n \in 0 .. count
      PROVE  n \in RegValues
  BY <1>1, <1>4 DEF RegValues
<1>5. RegValues = (0 .. Lines - 1) \cup UNION {0 .. count : count \in Counts}
  BY <1>3, <1>4
<1>6. 0 \in RegValues /\ Counts \subseteq RegValues
      /\ \A n \in Nat : n < Lines => n \in RegValues
  BY <1>1 DEF RegValues
<1> QED BY <1>2, <1>5, <1>6

LEMMA RegTyped ==
  WaitTypeOK <=> /\ pc \in Wait \cup {Main, Handler} /\ return_to \in Wait \cup {Main}
                 /\ exiting \in BOOLEAN /\ reg \in RegValues /\ flags \in {"none", "Z", "C"}
<1>1. reg \in RegValues <=> reg \in 0 .. Lines - 1 \/ \E n \in Counts : reg \in 0 .. n
  BY RegValuesFacts
<1> QED BY <1>1 DEF WaitTypeOK

LEMMA ExitingTyped ==
  ASSUME exiting \in BOOLEAN, [WaitNext]_wvars
  PROVE  exiting' \in BOOLEAN
<1>1. CASE WaitStep
  BY <1>1 DEF WaitStep, emit_ly_exit_now, emit_ly_wait_done, KeepPolling, compile_halt,
     compile_hram_idle_wait, compile_delay_loop_full, compile_delay_loop_partial, emit_wake_skip
<1>2. CASE RunBlock \/ Access \/ Fire
  BY <1>2 DEF RunBlock, Access, Fire, program
<1>3. CASE Enter \/ Sync \/ Reenter
  BY <1>3 DEF Enter, Sync, Reenter
<1>4. CASE Return
  <2>1. exiting' = (d2 >= wake_limit')
    BY <1>4 DEF Return
  <2>2. (d2 >= wake_limit') \in BOOLEAN
    OBVIOUS
  <2> QED BY <2>1, <2>2, Zenon
<1> QED BY <1>1, <1>2, <1>3, <1>4 DEF WaitNext, Continue, wvars, program

\* The register and the flags after a poll of LY.
LEMMA PollTyped ==
  ASSUME WaitInvariant, emit_ly_exit_now \/ emit_ly_wait_done
  PROVE  reg' \in RegValues /\ flags' \in {"none", "Z", "C"}
<1>1. CASE emit_ly_exit_now
  <2>1. Here("ly") /\ reg' = frame_cycles \div Line /\ flags' = ExitFlags
    BY <1>1 DEF emit_ly_exit_now
  <2>2. frame_cycles \in Nat /\ frame_cycles < Lines * Line
    BY <2>1, LineFacts DEF Frame
  <2>3. frame_cycles \div Line \in Nat /\ ~(Lines <= frame_cycles \div Line)
    BY <2>2, FrameFacts, DivNat, QuotientAtLeast
  <2>4. reg' \in RegValues
    BY <2>1, <2>3, FrameFacts, RegValuesFacts
  <2> QED BY <2>1, <2>4 DEF ExitFlags
<1>2. CASE emit_ly_wait_done
  <2>1. Here("ly") /\ Reachable
        /\ reg' = (IF pc.jr = "z" THEN NextLine(pc.target) ELSE pc.target)
    BY <1>2 DEF emit_ly_wait_done, Waits
  <2>2. flags' = CASE pc.jr # "z" -> "Z"
                   [] pc.jr = "z" /\ pc.target = Lines - 1 -> "C"
                   [] OTHER -> "none"
    BY <1>2 DEF emit_ly_wait_done
  <2>3. pc.target \in Nat /\ pc.target < Lines
    BY <2>1, LineFacts DEF Reachable
  <2>4. NextLine(pc.target) \in Nat /\ NextLine(pc.target) < Lines
    BY <2>3, FrameFacts DEF NextLine
  <2> QED BY <2>1, <2>2, <2>3, <2>4, RegValuesFacts
<1> QED BY <1>1, <1>2

LEMMA WaitTypeStep ==
  ASSUME WaitInvariant, WaitTypeOK, [WaitNext]_wvars
  PROVE  WaitTypeOK'
<1>1. reg \in RegValues /\ flags \in {"none", "Z", "C"} /\ exiting \in BOOLEAN
  BY RegTyped
<1>2. pc' \in Wait \cup {Main, Handler} /\ return_to' \in Wait \cup {Main} /\ reg \in Nat
  BY WaitNextKept DEF WaitInvariant, WaitProgram
<1>3. exiting' \in BOOLEAN
  BY <1>1, ExitingTyped
<1>4. reg' \in RegValues /\ flags' \in {"none", "Z", "C"}
  <2>1. CASE emit_ly_exit_now \/ emit_ly_wait_done
    BY <2>1, PollTyped
  <2>2. CASE KeepPolling \/ compile_halt \/ \E repeats \in BOOLEAN : compile_hram_idle_wait(repeats)
    BY <1>1, <2>2 DEF KeepPolling, compile_halt, compile_hram_idle_wait
  <2>3. CASE compile_delay_loop_full
    BY <1>1, <2>3, RegValuesFacts DEF compile_delay_loop_full
  <2>4. CASE compile_delay_loop_partial
    <3>1. Here("delay") /\ ~Full /\ reg' = reg - Fitting /\ flags' = flags
      BY <2>4 DEF compile_delay_loop_partial
    <3>2. reg \in Nat \ {0} /\ d2 \in Nat /\ wake_limit \in Nat
      BY <3>1, HereFacts DEF WaitInvariant, WaitHost, WaitClocks
    <3>3. Fitting \in Nat /\ reg - Fitting \in Nat
      BY <3>1, <3>2, FittingFacts, PartialDelay
    <3>4. reg - Fitting <= reg
      BY <3>2, <3>3
    <3> QED BY <1>1, <3>1, <3>3, <3>4, RegValuesFacts
  <2>5. CASE RunBlock \/ Access \/ Return \/ Fire \/ Reenter \/ UNCHANGED wvars
    BY <1>1, <2>5 DEF RunBlock, Access, Return, Fire, Reenter, wvars, program
  <2>6. CASE Enter
    BY <2>6, RegValuesFacts DEF Enter
  <2>7. CASE Sync
    BY <1>1, <2>7, RegValuesFacts DEF Sync
  <2> QED BY <2>1, <2>2, <2>3, <2>4, <2>5, <2>6, <2>7 DEF WaitNext, Continue, WaitStep
<1>5. (reg \in RegValues)' <=> reg' \in RegValues
  BY DEF RegValues
<1> QED BY <1>2, <1>3, <1>4, <1>5, RegTyped, RegValuesFacts DEF WaitTypeOK

\* Type correctness of the waits: in particular, A never holds a line past the
\* last, and the counter of a delay that is cut never grows nor goes below zero.
THEOREM WaitTypes == WaitSpec => []WaitTypeOK
<1>1. WaitInit => WaitTypeOK
  BY RegTyped, RegValuesFacts DEF WaitInit
<1>2. WaitInvariant /\ WaitTypeOK /\ [WaitNext]_wvars => WaitTypeOK'
  BY WaitTypeStep
<1> QED BY <1>1, <1>2, WaitsKeepTheirState, PTL DEF WaitSpec

-----------------------------------------------------------------------------
(* What a wait does to the clock. *)

\* While the program is at a loop, D2 moves only through the loop, or is
\* cleared with the dispatch.
LEMMA OnlyWaits ==
  ASSUME WaitInvariant, [WaitNext]_wvars, pc \in Wait
  PROVE  WaitStep \/ UNCHANGED d2 \/ (phase = "sync" /\ d2' = 0)
<1>1. ~Runs
  <2>1. Main.kind = "main" /\ Handler.kind = "handler" /\ Halt.kind = "halt"
        /\ Idle.kind = "idle" /\ Delay.kind = "delay"
    BY DEF Main, Handler, Halt, Idle, Delay
  <2> QED BY <2>1, Places DEF Runs, Wait
<1>2. CASE RunBlock \/ Access \/ Enter \/ Return
  BY <1>1, <1>2 DEF RunBlock, Access, Enter, Return
<1>3. CASE Sync
  BY <1>3 DEF Sync, dmg_sync_hw
<1>4. CASE Fire
  BY <1>4 DEF Fire, FireStat, FireVblank, FireRender, FireWrap, cpu
<1>5. CASE Reenter
  BY <1>5 DEF Reenter, EndDispatch
<1>6. CASE UNCHANGED wvars
  BY <1>6 DEF wvars, vars, cpu
<1> QED BY <1>2, <1>3, <1>4, <1>5, <1>6 DEF WaitNext, Continue

\* The step of a loop is the step of its kind.
LEMMA WaitKinds ==
  ASSUME WaitStep
  PROVE  \/ Here("ly") /\ (emit_ly_exit_now \/ emit_ly_wait_done \/ KeepPolling)
         \/ Here("halt") /\ d2' = wake_limit
         \/ Here("idle") /\ (d2' = wake_limit \/ UNCHANGED d2)
         \/ Here("delay") /\ (compile_delay_loop_full \/ compile_delay_loop_partial)
<1>1. CASE emit_ly_exit_now \/ emit_ly_wait_done \/ KeepPolling
  BY <1>1 DEF emit_ly_exit_now, emit_ly_wait_done, KeepPolling
<1>2. CASE compile_halt
  BY <1>2 DEF compile_halt, emit_wake_skip, SetD2
<1>3. ASSUME NEW repeats \in BOOLEAN, compile_hram_idle_wait(repeats)
      PROVE  Here("idle") /\ (d2' = wake_limit \/ UNCHANGED d2)
  <2>1. CASE repeats
    BY <1>3, <2>1 DEF compile_hram_idle_wait, emit_wake_skip, SetD2
  <2>2. CASE ~repeats
    BY <1>3, <2>2 DEF compile_hram_idle_wait, vars, cpu
  <2> QED BY <2>1, <2>2, <1>3 DEF compile_hram_idle_wait
<1>4. CASE compile_delay_loop_full \/ compile_delay_loop_partial
  BY <1>4 DEF compile_delay_loop_full, compile_delay_loop_partial
<1> QED BY <1>1, <1>2, <1>3, <1>4 DEF WaitStep

\* The cycles of a step of a delay.
LEMMA DelayStep ==
  ASSUME WaitInvariant, compile_delay_loop_full \/ compile_delay_loop_partial
  PROVE  /\ pc = Delay
         /\ d2' - d2 = LoopCost(reg) - LoopCost(reg')
         /\ d2' <= wake_limit \/ d2' <= d2 + Iteration
<1>1. Here("delay")
  BY DEF compile_delay_loop_full, compile_delay_loop_partial
<1>2. pc = Delay /\ reg \in Nat \ {0} /\ d2 \in Nat /\ wake_limit \in Nat
  BY <1>1, HereFacts DEF WaitInvariant, WaitHost, WaitClocks
<1>3. CASE compile_delay_loop_full
  <2>1. d2' = d2 + DecCycles + FullCost /\ reg' = 0 /\ Full
    BY <1>3 DEF compile_delay_loop_full, SetD2
  <2> QED BY <1>2, <2>1, FullDelay
<1>4. CASE compile_delay_loop_partial
  <2>1. d2' = d2 + DecCycles + PartialCost(Fitting) /\ reg' = reg - Fitting /\ ~Full
    BY <1>4 DEF compile_delay_loop_partial, SetD2
  <2> QED BY <1>2, <2>1, PartialDelay
<1> QED BY <1>3, <1>4

\* DelayTakesItsTime: however deadlines and handlers cut a delay up, its parts
\* take the cycles of the loop it replaces (compiler/timing.c,
\* compile_delay_loop), for every count, limit and instruction time.
THEOREM DelaysTakeTheirTime == WaitSpec => DelayTakesItsTime
<1> DEFINE Takes == pc = Delay /\ d2' # d2 /\ phase = "run" /\ ~exiting =>
                      d2' - d2 = LoopCost(reg) - LoopCost(reg')
<1>1. WaitInvariant /\ [WaitNext]_wvars => [Takes]_wvars
  <2> SUFFICES ASSUME WaitInvariant, [WaitNext]_wvars,
                      pc = Delay, d2' # d2, phase = "run", ~exiting
               PROVE  d2' - d2 = LoopCost(reg) - LoopCost(reg')
    OBVIOUS
  <2>1. WaitStep
    BY OnlyWaits, Places
  <2>2. Delay.kind = "delay"
    BY DEF Delay
  <2>3. compile_delay_loop_full \/ compile_delay_loop_partial
    BY <2>1, <2>2, WaitKinds DEF Here
  <2> QED BY <2>3, DelayStep
<1>2. WaitSpec => []WaitInvariant
  BY WaitsKeepTheirState
<1> QED BY <1>1, <1>2, PTL DEF WaitSpec, DelayTakesItsTime

\* WaitsStopAtTheLimit: a wait takes the program past the limit of its
\* dispatch by one pass of its loop at most (compiler/timing.c, the clamp of
\* emit_ly_wait_clamp and the iterations of compile_delay_loop that fit).
THEOREM WaitsKeepTheLimit == WaitSpec => WaitsStopAtTheLimit
<1> DEFINE Stops == d2' > d2 /\ pc \in Wait => d2' <= wake_limit \/ d2' <= d2 + OnePass
<1>1. WaitInvariant /\ [WaitNext]_wvars => [Stops]_wvars
  <2> SUFFICES ASSUME WaitInvariant, [WaitNext]_wvars, d2' > d2, pc \in Wait
               PROVE  d2' <= wake_limit \/ d2' <= d2 + OnePass
    OBVIOUS
  <2>1. d2 \in Nat /\ wake_limit \in Nat
    BY DEF WaitInvariant, WaitHost, WaitClocks
  <2>2. WaitStep
    BY <2>1, OnlyWaits
  <2>3. CASE Here("ly") /\ (emit_ly_exit_now \/ emit_ly_wait_done \/ KeepPolling)
    <3>1. OnePass = Pass
      BY <2>3, HereFacts, Places DEF OnePass
    <3>2. CASE emit_ly_exit_now
      BY <2>1, <3>1, <3>2, LoopNumbers DEF emit_ly_exit_now, SetD2
    <3>3. CASE emit_ly_wait_done
      BY <3>3 DEF emit_ly_wait_done, SetD2, InReach
    <3>4. CASE KeepPolling
      BY <2>1, <3>4 DEF KeepPolling, emit_wake_skip, SetD2
    <3> QED BY <2>3, <3>2, <3>3, <3>4
  <2>4. CASE d2' = wake_limit
    BY <2>1, <2>4
  <2>5. CASE Here("delay") /\ (compile_delay_loop_full \/ compile_delay_loop_partial)
    BY <2>5, DelayStep DEF OnePass
  <2> QED BY <2>1, <2>2, <2>3, <2>4, <2>5, WaitKinds
<1>2. WaitSpec => []WaitInvariant
  BY WaitsKeepTheirState
<1> QED BY <1>1, <1>2, PTL DEF WaitSpec, WaitsStopAtTheLimit

-----------------------------------------------------------------------------
(* A poll of LY against the loop it replaces. *)

\* What the loop reads and compares at a position of this frame.
LEMMA PollAt ==
  ASSUME WaitInvariant, Here("ly"), NEW p \in Nat, p < Frame
  PROVE  /\ LyOf(p) = p \div Line /\ LyOf(p) \in Nat
         /\ Lo <= p /\ p < Hi => LyOf(p) = pc.target
         /\ p < Lo => LyOf(p) < pc.target
         /\ Hi <= p => LyOf(p) > pc.target
         /\ Compare(LyOf(p), pc.target) =
              IF Lo <= p /\ p < Hi THEN "Z" ELSE IF p < Lo THEN "C" ELSE "none"
<1>1. pc.target \in Nat /\ Lo \in Nat /\ Lo = pc.target * Line /\ Hi = Lo + Line
      /\ Line \in Nat \ {0} /\ Frame \in Nat \ {0} /\ Hi \in Nat
  BY LineFacts, FrameFacts
<1>2. p % Frame = p
  BY <1>1
<1>3. LyOf(p) = p \div Line /\ LyOf(p) \in Nat
  BY <1>1, <1>2, DivNat DEF LyOf
<1>4. Lo <= p <=> pc.target <= LyOf(p)
  BY <1>1, <1>3, QuotientAtLeast
<1>5. Hi <= p <=> pc.target + 1 <= LyOf(p)
  <2>1. (pc.target + 1) * Line = Hi /\ pc.target + 1 \in Int
    BY <1>1
  <2>2. (pc.target + 1) * Line <= p <=> pc.target + 1 <= p \div Line
    BY <1>1, <2>1, QuotientAtLeast
  <2> QED BY <1>3, <2>1, <2>2
<1>6. PICK n \in Nat : n = LyOf(p)
  BY <1>3
<1>7. /\ Lo <= p /\ p < Hi => n = pc.target
      /\ p < Lo => n < pc.target
      /\ Hi <= p => n > pc.target
  BY <1>1, <1>4, <1>5, <1>6
<1>8. Compare(n, pc.target) = IF Lo <= p /\ p < Hi THEN "Z" ELSE IF p < Lo THEN "C" ELSE "none"
  <2>1. CASE Lo <= p /\ p < Hi
    BY <1>7, <2>1 DEF Compare
  <2>2. CASE p < Lo
    <3>1. ~(Lo <= p /\ p < Hi) /\ n # pc.target /\ n < pc.target
      BY <1>1, <1>6, <1>7, <2>2
    <3> QED BY <2>2, <3>1 DEF Compare
  <2>3. CASE Hi <= p
    <3>1. ~(Lo <= p /\ p < Hi) /\ ~(p < Lo) /\ n # pc.target /\ ~(n < pc.target)
      BY <1>1, <1>6, <1>7, <2>3
    <3> QED BY <3>1 DEF Compare
  <2>4. (Lo <= p /\ p < Hi) \/ p < Lo \/ Hi <= p
    BY <1>1
  <2> QED BY <2>1, <2>2, <2>3, <2>4
<1> QED BY <1>3, <1>6, <1>7, <1>8

LEMMA PassesOf ==
  ASSUME NEW s \in {1, 2}, NEW n \in Nat, NEW k \in Nat, k < s * n
  PROVE  k \div s \in Nat /\ k \div s < n
OBVIOUS

\* The exits of the compiled poll, per condition of its jump.
LEMMA Exits ==
  ASSUME WaitInvariant, Here("ly")
  PROVE  /\ pc.jr = "nz" => (ExitsNow <=> Reachable /\ OnLine)
         /\ pc.jr = "z" => (ExitsNow <=> ~OnLine)
         /\ pc.jr = "c" => (ExitsNow <=> Reachable /\ frame_cycles >= Lo)
         /\ OnLine <=> Lo <= frame_cycles /\ frame_cycles < Hi
<1>1. pc.jr \in {"nz", "z", "c"} /\ Lo \in Nat /\ Hi \in Nat /\ frame_cycles \in Nat
  BY LineFacts, FrameFacts
<1>2. OnLine <=> Lo <= frame_cycles /\ frame_cycles < Hi
  BY <1>1 DEF OnLine
<1>3. /\ pc.jr = "nz" => (ExitsNow <=> Reachable /\ OnLine)
      /\ pc.jr = "z" => (ExitsNow <=> ~OnLine)
      /\ pc.jr = "c" => (ExitsNow <=> Reachable /\ frame_cycles >= Lo)
  BY DEF ExitsNow
<1> QED BY <1>2, <1>3

\* The loop goes round at a position.
Repeats(p) == Loops(pc.jr, Compare(LyOf(p), pc.target))

LEMMA LoopsFacts ==
  ASSUME NEW f
  PROVE  /\ Loops("nz", f) <=> f # "Z"
         /\ Loops("z", f) <=> f = "Z"
         /\ Loops("c", f) <=> f = "C"
BY DEF Loops

LEMMA RepeatsAt ==
  ASSUME WaitInvariant, Here("ly"), NEW p \in Nat, p < Frame
  PROVE  /\ pc.jr = "nz" => (Repeats(p) <=> p < Lo \/ Hi <= p)
         /\ pc.jr = "z" => (Repeats(p) <=> Lo <= p /\ p < Hi)
         /\ pc.jr = "c" => (Repeats(p) <=> p < Lo)
<1>1. Lo \in Nat /\ Hi \in Nat /\ Lo < Hi
  BY LineFacts, FrameFacts
<1>2. Compare(LyOf(p), pc.target) =
        IF Lo <= p /\ p < Hi THEN "Z" ELSE IF p < Lo THEN "C" ELSE "none"
  BY PollAt
<1>3. CASE pc.jr = "nz"
  <2>1. Repeats(p) <=> Loops("nz", Compare(LyOf(p), pc.target))
    BY <1>3 DEF Repeats
  <2>2. Repeats(p) <=> Compare(LyOf(p), pc.target) # "Z"
    BY <2>1, LoopsFacts
  <2>3. pc.jr # "z" /\ pc.jr # "c"
    BY <1>3
  <2>4. p < Lo \/ Hi <= p <=> ~(Lo <= p /\ p < Hi)
    BY <1>1
  <2>5. Compare(LyOf(p), pc.target) = "Z" <=> Lo <= p /\ p < Hi
    BY <1>2
  <2> QED BY <1>3, <2>2, <2>3, <2>4, <2>5
<1>4. CASE pc.jr = "z"
  <2>1. Repeats(p) <=> Loops("z", Compare(LyOf(p), pc.target))
    BY <1>4 DEF Repeats
  <2>2. Repeats(p) <=> Compare(LyOf(p), pc.target) = "Z"
    BY <2>1, LoopsFacts
  <2>3. pc.jr # "nz" /\ pc.jr # "c"
    BY <1>4
  <2>4. Repeats(p) <=> Lo <= p /\ p < Hi
    BY <1>1, <1>2, <2>2
  <2> QED BY <1>4, <2>3, <2>4
<1>5. CASE pc.jr = "c"
  <2>1. Repeats(p) <=> Loops("c", Compare(LyOf(p), pc.target))
    BY <1>5 DEF Repeats
  <2>2. Repeats(p) <=> Compare(LyOf(p), pc.target) = "C"
    BY <2>1, LoopsFacts
  <2>3. pc.jr # "nz" /\ pc.jr # "z"
    BY <1>5
  <2>4. p < Lo => ~(Lo <= p /\ p < Hi)
    BY <1>1
  <2>5. Compare(LyOf(p), pc.target) = "C" <=> p < Lo
    BY <1>2, <2>4
  <2> QED BY <1>5, <2>2, <2>3, <2>5
<1>6. pc.jr \in {"nz", "z", "c"}
  BY LineFacts
<1> QED BY <1>3, <1>4, <1>5, <1>6

\* Until the position it waits for, and in the rest of the frame if there is
\* none, the loop goes round.
LEMMA RepeatsUntil ==
  ASSUME WaitInvariant, Here("ly"), ~ExitsNow, NEW p \in Nat,
         frame_cycles <= p, p < Frame, Waits => p < WaitsFor
  PROVE  Repeats(p)
<1>1. /\ pc.jr \in {"nz", "z", "c"} /\ Lo \in Nat /\ Hi \in Nat /\ Lo < Hi
      /\ frame_cycles \in Nat /\ Frame \in Nat
      /\ Reachable => Hi <= Frame
      /\ ~Reachable => Frame <= Lo
  BY LineFacts, FrameFacts
<1>2. Waits <=> Reachable /\ frame_cycles < WaitsFor
  BY DEF Waits
<1>3. WaitsFor = IF pc.jr = "z" THEN Hi ELSE Lo
  BY DEF WaitsFor
<1>4. CASE pc.jr = "nz"
  BY <1>1, <1>2, <1>3, <1>4, Exits, RepeatsAt
<1>5. CASE pc.jr = "z"
  BY <1>1, <1>2, <1>3, <1>5, Exits, RepeatsAt
<1>6. CASE pc.jr = "c"
  BY <1>1, <1>2, <1>3, <1>6, Exits, RepeatsAt
<1> QED BY <1>1, <1>4, <1>5, <1>6

\* A wait over all the cycles before a position n, or fewer of them.
LEMMA SkippedRepeat ==
  ASSUME WaitInvariant, Here("ly"), ~ExitsNow, NEW last \in Nat,
         last <= Speed * (Frame - frame_cycles),
         Waits => last <= Distance
  PROVE  \A k \in 0 .. last - 1 : LoopsAt(k)
<1> SUFFICES ASSUME NEW k \in 0 .. last - 1 PROVE LoopsAt(k)
  OBVIOUS
<1>1. frame_cycles \in Nat /\ frame_cycles < Frame /\ Frame \in Nat /\ Speed \in {1, 2}
  BY LineFacts, FrameFacts, SpeedFacts
<1> DEFINE s == Speed
           n == Frame - frame_cycles
           q == k \div s
<1>2. n \in Nat /\ k \in Nat /\ k < s * n
  BY <1>1
<1> HIDE DEF s, n
<1>3. s \in {1, 2}
  BY <1>1 DEF s
<1>4. q \in Nat /\ q < n
  BY <1>2, <1>3, PassesOf
<1>5. Waits => q < WaitsFor - frame_cycles
  <2>1. SUFFICES ASSUME Waits PROVE q < WaitsFor - frame_cycles
    OBVIOUS
  <2> DEFINE m == WaitsFor - frame_cycles
  <2>2. WaitsFor \in Nat /\ m \in Nat /\ Distance = s * m /\ Distance \in Nat
    BY <1>1, <2>1, DistanceToLine DEF s
  <2> HIDE DEF m
  <2>3. k < s * m
    BY <1>2, <2>1, <2>2
  <2>4. q < m
    BY <1>2, <1>3, <2>2, <2>3, PassesOf
  <2> QED BY <2>4 DEF m
<1> HIDE DEF q
<1>6. frame_cycles + q \in Nat /\ frame_cycles + q < Frame /\ frame_cycles <= frame_cycles + q
  BY <1>1, <1>4 DEF n
<1>7. Waits => frame_cycles + q < WaitsFor
  BY <1>1, <1>4, <1>5, DistanceToLine
<1>8. Repeats(frame_cycles + q)
  BY <1>6, <1>7, RepeatsUntil
<1> QED BY <1>8 DEF LoopsAt, Repeats, q, s

LEMMA ExitMatches ==
  ASSUME WaitInvariant, emit_ly_exit_now, d2 = 0
  PROVE  WaitMatchesLoop
<1>1. /\ Here("ly") /\ ExitsNow /\ pc' = Main
      /\ reg' = frame_cycles \div Line /\ flags' = ExitFlags /\ d2' = Pass
  <2>1. 0 + Pass = Pass
    BY LoopNumbers
  <2> QED BY <2>1 DEF emit_ly_exit_now, SetD2
<1>2. /\ pc.jr \in {"nz", "z", "c"} /\ Lo \in Nat /\ Hi \in Nat /\ Lo < Hi
      /\ frame_cycles \in Nat /\ frame_cycles < Frame
  BY <1>1, LineFacts, FrameFacts
<1>3. frame_cycles + ((0 + 0) \div Speed) = frame_cycles
  <2>1. 0 \div 1 = 0 /\ 0 \div 2 = 0 /\ 0 + 0 = 0
    OBVIOUS
  <2> QED BY <1>2, <2>1, SpeedFacts
<1>4. reg' = LyOf(frame_cycles) /\ flags' = Compare(reg', pc.target)
  <2>1. reg' = LyOf(frame_cycles)
    BY <1>1, <1>2, PollAt
  <2>2. ExitFlags = Compare(LyOf(frame_cycles), pc.target)
    BY <1>1, <1>2, PollAt, Exits DEF ExitFlags
  <2> QED BY <1>1, <2>1, <2>2
<1>5. ~Loops(pc.jr, flags')
  <2>1. ~Repeats(frame_cycles)
    BY <1>1, <1>2, Exits, RepeatsAt
  <2> QED BY <1>4, <2>1 DEF Repeats
<1>6. d2' >= d2
  BY <1>1, LoopNumbers
<1>7. \A k \in 0 .. 0 - 1 : LoopsAt(0 + k)
  OBVIOUS
<1> QED BY <1>1, <1>3, <1>4, <1>5, <1>6, <1>7 DEF WaitMatchesLoop

LEMMA DoneMatches ==
  ASSUME WaitInvariant, emit_ly_wait_done, d2 = 0
  PROVE  WaitMatchesLoop
<1>1. /\ Here("ly") /\ Waits /\ pc' = Main /\ d2' = Distance
      /\ reg' = IF pc.jr = "z" THEN NextLine(pc.target) ELSE pc.target
  BY DEF emit_ly_wait_done, SetD2
<1>2. /\ pc.jr # "z" => flags' = "Z"
      /\ pc.jr = "z" /\ pc.target = Lines - 1 => flags' = "C"
      /\ pc.jr = "z" /\ pc.target # Lines - 1 => flags' = "none"
  <2>1. flags' = CASE pc.jr # "z" -> "Z"
                   [] pc.jr = "z" /\ pc.target = Lines - 1 -> "C"
                   [] OTHER -> "none"
    BY DEF emit_ly_wait_done
  <2>2. pc.jr # "z" => flags' = "Z"
    BY <2>1
  <2>3. pc.jr = "z" /\ pc.target = Lines - 1 => flags' = "C"
    BY <2>1
  <2>4. pc.jr = "z" /\ pc.target # Lines - 1 => flags' = "none"
    BY <2>1
  <2> QED BY <2>2, <2>3, <2>4
<1>3. /\ pc.jr \in {"nz", "z", "c"} /\ pc.target \in Nat
      /\ Lo \in Nat /\ Hi \in Nat /\ Hi = Lo + Line /\ Lo = pc.target * Line
      /\ frame_cycles \in Nat /\ frame_cycles < Frame /\ Frame \in Nat
      /\ Line \in Nat \ {0} /\ Lines \in Nat \ {0}
  BY <1>1, LineFacts, FrameFacts
<1>4. ~ExitsNow /\ Reachable
  BY <1>1 DEF Waits
<1>5. /\ WaitsFor \in Nat /\ WaitsFor > frame_cycles /\ WaitsFor <= Frame
      /\ Distance \in Nat \ {0} /\ Distance = Speed * (WaitsFor - frame_cycles)
  BY <1>1, DistanceToLine
<1>6. frame_cycles + (Distance \div Speed) = WaitsFor
  <2>1. \A s \in {1, 2}, n \in Nat : (s * n) \div s = n
    OBVIOUS
  <2>2. Distance \div Speed = WaitsFor - frame_cycles
    BY <1>3, <1>5, <2>1, SpeedFacts
  <2> QED BY <1>3, <1>5, <2>2
<1>7. \A k \in 0 .. Distance - 1 : LoopsAt(k)
  <2>1. Distance <= Speed * (Frame - frame_cycles)
    BY <1>3, <1>5, SpeedFacts
  <2> QED BY <1>1, <1>4, <1>5, <2>1, SkippedRepeat
<1>8. /\ reg' = LyOf(WaitsFor) /\ flags' = Compare(reg', pc.target) /\ ~Loops(pc.jr, flags')
  <2>1. CASE pc.jr # "z"
    <3>1. WaitsFor = Lo /\ Lo < Frame /\ Lo < Hi
      BY <1>3, <1>4, <2>1, LineFacts, <1>1 DEF WaitsFor
    <3>2. LyOf(Lo) = pc.target
      <4>1. PICK p \in Nat : p = Lo
        BY <1>3
      <4>2. p < Frame /\ Lo <= p /\ p < Hi
        BY <1>3, <3>1, <4>1
      <4> QED BY <1>1, <4>1, <4>2, PollAt
    <3>3. reg' = pc.target /\ flags' = "Z"
      BY <1>1, <1>2, <2>1
    <3> QED BY <1>3, <2>1, <3>1, <3>2, <3>3 DEF Compare, Loops
  <2>2. CASE pc.jr = "z" /\ pc.target = Lines - 1
    <3>1. WaitsFor = Frame
      BY <1>3, <2>2 DEF WaitsFor, Frame
    <3>2. LyOf(Frame) = 0
      <4>1. Frame % Frame = 0 /\ 0 \div Line = 0
        BY <1>3
      <4> QED BY <4>1 DEF LyOf
    <3>3. reg' = 0
      BY <1>1, <1>3, <2>2 DEF NextLine
    <3>4. flags' = "C"
      BY <1>2, <2>2
    <3>5. 0 < pc.target
      BY <1>3, <2>2, RasterAssumption
    <3> QED BY <1>3, <2>2, <3>1, <3>2, <3>3, <3>4, <3>5 DEF Compare, Loops
  <2>3. CASE pc.jr = "z" /\ pc.target # Lines - 1
    <3>1. pc.target + 1 < Lines
      BY <1>3, <1>4, <2>3 DEF Reachable
    <3>2. WaitsFor = Hi /\ Hi = (pc.target + 1) * Line
      BY <1>3, <2>3 DEF WaitsFor
    <3>3. Hi < Frame
      <4>1. (pc.target + 1 + 1) * Line <= Lines * Line
        BY <1>3, <3>1, ProductMonotone
      <4>2. (pc.target + 1 + 1) * Line = Hi + Line
        BY <1>3
      <4> QED BY <1>3, <4>1, <4>2 DEF Frame
    <3>4. LyOf(Hi) = pc.target + 1
      <4>1. Hi % Frame = Hi
        BY <1>3, <3>3
      <4>2. Hi \div Line = pc.target + 1
        BY <1>3, <3>2, QuotientUnique
      <4> QED BY <4>1, <4>2 DEF LyOf
    <3>5. reg' = pc.target + 1
      <4>1. (pc.target + 1) % Lines = pc.target + 1
        <5>1. PICK m \in Nat : m = pc.target + 1
          BY <1>3
        <5>2. m % Lines = m
          BY ONLY <1>3, <3>1, <5>1, SmallRemainder
        <5> QED BY <5>1, <5>2
      <4> QED BY <1>1, <2>3, <4>1 DEF NextLine
    <3>6. flags' = "none"
      BY <1>2, <2>3
    <3>7. Compare(pc.target + 1, pc.target) = "none"
      <4>1. pc.target + 1 # pc.target /\ ~(pc.target + 1 < pc.target)
        BY <1>3
      <4> QED BY <4>1 DEF Compare
    <3>8. ~Loops("z", "none")
      BY LoopsFacts
    <3> QED BY <2>3, <3>2, <3>4, <3>5, <3>6, <3>7, <3>8
  <2> QED BY <2>1, <2>2, <2>3
<1>9. Distance - 0 = Distance /\ 0 + Distance = Distance /\ Distance >= 0
  BY <1>5
<1>10. \A k \in 0 .. Distance - 1 : LoopsAt(0 + k)
  <2>1. \A k \in 0 .. Distance - 1 : 0 + k = k
    BY <1>5
  <2> QED BY <1>7, <2>1
<1> QED BY <1>1, <1>4, <1>6, <1>8, <1>9, <1>10 DEF WaitMatchesLoop

LEMMA PollingMatches ==
  ASSUME WaitInvariant, KeepPolling, d2 = 0
  PROVE  WaitMatchesLoop
<1>1. Here("ly") /\ ~ExitsNow /\ ~(Waits /\ InReach) /\ d2' = wake_limit /\ pc' = pc
  BY DEF KeepPolling, emit_wake_skip, SetD2
<1>2. pc' # Main
  BY <1>1, LineFacts, Places
<1>3. wake_limit \in Nat /\ wake_limit <= Speed * (Frame - frame_cycles)
  BY <1>1 DEF Here, WaitInvariant, WaitHost, WaitClocks, WaitBudget
<1>4. Waits => wake_limit <= Distance
  BY <1>1, <1>3, DistanceToLine DEF InReach
<1>5. \A k \in 0 .. wake_limit - 1 : LoopsAt(k)
  BY <1>1, <1>3, <1>4, SkippedRepeat
<1>6. \A k \in 0 .. (wake_limit - 0) - 1 : LoopsAt(0 + k)
  <2>1. wake_limit - 0 = wake_limit /\ \A k \in 0 .. wake_limit - 1 : 0 + k = k
    BY <1>3
  <2> QED BY <1>5, <2>1
<1> QED BY <1>1, <1>2, <1>3, <1>6 DEF WaitMatchesLoop

\* LyWaitMatchesLoop: a poll of LY that begins a dispatch skips no moment at
\* which the loop it replaces would have ended, and leaves A and the flags of
\* its last pass (compile_ly_wait, _reg and _hl), for every line, condition,
\* frame, limit and either speed.
THEOREM PollsMatchTheirLoop == WaitSpec => LyWaitMatchesLoop
<1> DEFINE Matches == PollsLy /\ d2 = 0 => WaitMatchesLoop
<1>1. WaitInvariant /\ [WaitNext]_wvars => [Matches]_wvars
  <2> SUFFICES ASSUME WaitInvariant, [WaitNext]_wvars, PollsLy, d2 = 0
               PROVE  WaitMatchesLoop
    OBVIOUS
  <2>1. pc \in LyWaits /\ pc \in Wait /\ pc.kind = "ly" /\ ~exiting /\ exiting'
    <3>1. Main.kind = "main" /\ Handler.kind = "handler"
      BY DEF Main, Handler
    <3> QED BY <3>1, Places DEF PollsLy, WaitInvariant, WaitProgram
  <2>2. pc # Main /\ pc # Handler
    BY <2>1, Places
  <2>3. WaitStep
    <3>1. ~Runs
      BY <2>1 DEF Runs
    <3> QED BY <2>1, <2>2, <3>1 DEF WaitNext, Continue, RunBlock, Access, Enter, Return,
              Sync, Fire, Reenter, program, wvars
  <2>4. emit_ly_exit_now \/ emit_ly_wait_done \/ KeepPolling
    BY <2>1, <2>3, WaitKinds DEF Here
  <2> QED BY <2>4, ExitMatches, DoneMatches, PollingMatches
<1>2. WaitSpec => []WaitInvariant
  BY WaitsKeepTheirState
<1> QED BY <1>1, <1>2, PTL DEF WaitSpec, LyWaitMatchesLoop
=============================================================================
