-------------------------- MODULE FrameBeamProofs --------------------------
(* Theorems about FrameBeam, for every frame, transfer and log that its
   assumptions admit. *)
EXTENDS FrameBeam, NaturalsInduction, WellFoundedInduction, TLAPS

Lines == 0 .. Visible - 1
Transfers == [active : BOOLEAN, remaining : Nat, at : Nat]

-----------------------------------------------------------------------------
(* Arithmetic. *)

LEMMA ProductMonotone ==
    ASSUME NEW a \in Int, NEW b \in Int, NEW c \in Nat, a <= b
    PROVE  a * c <= b * c
<1> DEFINE d == b - a
<1>1. d \in Nat
  OBVIOUS
<1>2. d * c \in Nat
  BY <1>1
<1>3. d * c = (b * c) - (a * c)
  OBVIOUS
<1> QED BY <1>2, <1>3

LEMMA DivMod ==
    ASSUME NEW x \in Int, NEW c \in Nat \ {0}
    PROVE  /\ x \div c \in Int /\ x % c \in 0 .. c - 1
           /\ x = ((x \div c) * c) + (x % c)
OBVIOUS

\* A quotient and a remainder determine each other.
LEMMA RemainderUnique ==
    ASSUME NEW c \in Nat \ {0}, NEW q \in Int, NEW p \in Int,
           NEW r \in 0 .. c - 1, NEW s \in 0 .. c - 1, (q * c) + r = (p * c) + s
    PROVE  r = s
<1>1. CASE q < p
  <2>1. (q + 1) * c <= p * c
    BY <1>1, ProductMonotone
  <2>2. (q + 1) * c = (q * c) + c
    OBVIOUS
  <2> QED BY <2>1, <2>2
<1>2. CASE p < q
  <2>1. (p + 1) * c <= q * c
    BY <1>2, ProductMonotone
  <2>2. (p + 1) * c = (p * c) + c
    OBVIOUS
  <2> QED BY <2>1, <2>2
<1>3. CASE p = q
  BY <1>3
<1> QED BY <1>1, <1>2, <1>3

LEMMA ModPlus ==
    ASSUME NEW c \in Nat \ {0}, NEW x \in Nat, NEW n \in Nat
    PROVE  ((x % c) + n) % c = (x + n) % c
<1> DEFINE y == (x % c) + n
           z == x + n
<1>1. x % c \in 0 .. c - 1 /\ x \div c \in Int /\ x = ((x \div c) * c) + (x % c)
  BY DivMod
<1>2. y \in Int /\ z \in Int
  BY <1>1
<1>3. y % c \in 0 .. c - 1 /\ y \div c \in Int /\ y = ((y \div c) * c) + (y % c)
  BY <1>2, DivMod
<1>4. z % c \in 0 .. c - 1 /\ z \div c \in Int /\ z = ((z \div c) * c) + (z % c)
  BY <1>2, DivMod
<1> DEFINE q == (y \div c) + (x \div c)
<1>5. z = y + ((x \div c) * c)
  BY <1>1
<1>6. q * c = ((y \div c) * c) + ((x \div c) * c)
  BY <1>1, <1>3
<1>7. (q * c) + (y % c) = ((z \div c) * c) + (z % c)
  BY <1>1, <1>3, <1>4, <1>5, <1>6
<1>8. q \in Int
  BY <1>1, <1>3
<1> HIDE DEF y, z, q
<1>9. y % c = z % c
  BY <1>3, <1>4, <1>7, <1>8, RemainderUnique
<1> QED BY <1>9 DEF y, z

-----------------------------------------------------------------------------
(* The beam. *)

\* The frame is longer than a line, and the lines drawn end before it.
LEMMA FrameFacts ==
    /\ Line \in Nat /\ Frame \in Nat /\ Drawn \in Nat
    /\ Line <= Drawn /\ Drawn + Line <= Frame
<1> USE BeamAssumption
<1>1. 1 * Line <= Visible * Line /\ (Visible + 1) * Line <= Total * Line
  BY ProductMonotone
<1>2. (Visible + 1) * Line = (Visible * Line) + Line
  OBVIOUS
<1>3. Frame \in Nat /\ Drawn \in Nat
  BY DEF Frame, Drawn
<1> QED BY <1>1, <1>2, <1>3 DEF Frame, Drawn

\* hdma_line_done counts the lines whose HBLANK has started.
LEMMA LineDone ==
    ASSUME NEW at \in Nat
    PROVE  /\ hdma_line_done(at) \in -1 .. Visible - 1
           /\ \A l \in Lines : l <= hdma_line_done(at) <=> (l * Line) + Hblank <= at
<1> USE BeamAssumption
<1> DEFINE x == at - Hblank
           line == x \div Line
<1>1. CASE at < Hblank
  <2>1. hdma_line_done(at) = -1
    BY <1>1 DEF hdma_line_done
  <2>2. \A l \in Lines : l * Line >= 0
    BY DEF Lines
  <2> QED BY <1>1, <2>1, <2>2 DEF Lines
<1>2. CASE at >= Hblank
  <2>1. x \in Nat /\ line \in Int /\ x % Line \in 0 .. Line - 1
        /\ x = (line * Line) + (x % Line)
    BY <1>2, DivMod
  <2>2. line >= 0
    <3>1. SUFFICES ASSUME line <= -1 PROVE FALSE
      BY <2>1
    <3>2. line * Line <= (-1) * Line
      BY <2>1, <3>1, ProductMonotone
    <3> QED BY <2>1, <3>2
  <2>3. hdma_line_done(at) = IF line > Visible - 1 THEN Visible - 1 ELSE line
    BY <1>2 DEF hdma_line_done
  <2> HIDE DEF line
  <2>4. ASSUME NEW l \in Lines
        PROVE  l <= line <=> l * Line <= x
    <3>1. l \in Int
      BY DEF Lines
    <3>2. CASE l <= line
      BY <2>1, <3>1, <3>2, ProductMonotone
    <3>3. CASE l > line
      <4>1. (line + 1) * Line <= l * Line
        BY <2>1, <3>1, <3>3, ProductMonotone
      <4>2. (line + 1) * Line = (line * Line) + Line
        BY <2>1
      <4> QED BY <2>1, <3>1, <3>3, <4>1, <4>2
    <3> QED BY <2>1, <3>1, <3>2, <3>3
  <2>5. hdma_line_done(at) \in -1 .. Visible - 1
    BY <2>1, <2>2, <2>3
  <2>6. ASSUME NEW l \in Lines
        PROVE  l <= hdma_line_done(at) <=> (l * Line) + Hblank <= at
    <3>1. l <= hdma_line_done(at) <=> l <= line
      BY <2>1, <2>3 DEF Lines
    <3>2. l * Line \in Int
      BY DEF Lines
    <3> QED BY <2>4, <3>1, <3>2
  <2> QED BY <2>5, <2>6
<1> QED BY <1>1, <1>2

LEMMA LineDoneMonotone ==
    ASSUME NEW a \in Nat, NEW b \in Nat, a <= b
    PROVE  hdma_line_done(a) <= hdma_line_done(b)
<1> DEFINE l == hdma_line_done(a)
<1>1. l \in -1 .. Visible - 1 /\ hdma_line_done(b) \in -1 .. Visible - 1
  BY LineDone
<1>2. CASE l = -1
  BY <1>1, <1>2
<1>3. CASE l \in Lines
  <2>1. (l * Line) + Hblank <= a
    BY <1>3, LineDone DEF Lines
  <2>2. l * Line \in Int /\ Hblank \in Int
    BY <1>3, BeamAssumption DEF Lines
  <2>3. (l * Line) + Hblank <= b
    BY <2>1, <2>2
  <2> QED BY <1>3, <2>3, LineDone
<1> QED BY <1>1, <1>2, <1>3, BeamAssumption DEF Lines

\* All lines are done when the last of them has been drawn.
LEMMA AllDone ==
    ASSUME NEW at \in Nat, at >= Drawn
    PROVE  hdma_line_done(at) = Visible - 1
<1> USE BeamAssumption
<1> DEFINE l == Visible - 1
<1>1. l \in Lines /\ l * Line = Drawn - Line
  BY DEF Lines, Drawn
<1>2. (l * Line) + Hblank <= at
  BY <1>1, FrameFacts
<1>3. l <= hdma_line_done(at)
  BY <1>1, <1>2, LineDone
<1> QED BY <1>3, LineDone

\* LY and the position in the line say which HBLANK was the last.
LEMMA LineOf ==
    ASSUME NEW at \in Nat, at < Frame
    PROVE  /\ Ly(at) \in Nat /\ Pos(at) \in Nat
           /\ Ly(at) >= Visible => hdma_line_done(at) = Visible - 1
           /\ Ly(at) < Visible => hdma_line_done(at) = IF Pos(at) >= Hblank THEN Ly(at) ELSE Ly(at) - 1
<1> USE BeamAssumption
<1> DEFINE l == at \div Line
           p == at % Line
           done == hdma_line_done(at)
<1>1. Ly(at) = l /\ Pos(at) = p
  BY FrameFacts DEF Ly, Pos, InFrame
<1>2. l \in Int /\ p \in 0 .. Line - 1 /\ at = (l * Line) + p
  <2>1. Line \in Nat \ {0} /\ at \in Int
    OBVIOUS
  <2> QED BY <2>1, DivMod
<1>3. l >= 0
  <2>1. SUFFICES ASSUME l <= -1 PROVE FALSE
    BY <1>2
  <2>2. l * Line <= (-1) * Line
    BY <1>2, <2>1, ProductMonotone
  <2> QED BY <1>2, <2>2
<1> HIDE DEF l, p
<1>4. CASE l >= Visible
  <2>1. Visible * Line <= l * Line
    BY <1>2, <1>4, ProductMonotone
  <2>2. at >= Drawn
    BY <1>2, <2>1 DEF Drawn
  <2> QED BY <1>1, <1>2, <1>3, <1>4, <2>2, AllDone
<1>5. CASE l < Visible
  <2>1. l \in Lines
    BY <1>2, <1>3, <1>5 DEF Lines
  <2>2. done \in -1 .. Visible - 1 /\ (l <= done <=> (l * Line) + Hblank <= at)
    BY <2>1, LineDone
  <2>3. l <= done <=> p >= Hblank
    BY <1>2, <2>2
  <2>4. done <= l
    <3>1. CASE l + 1 \in Lines
      <4>1. (l + 1) * Line = (l * Line) + Line
        BY <1>2
      <4>2. ~(((l + 1) * Line) + Hblank <= at)
        BY <1>2, <4>1
      <4>3. ~(l + 1 <= done)
        BY <3>1, <4>2, LineDone
      <4> QED BY <1>2, <2>2, <4>3
    <3>2. CASE l + 1 \notin Lines
      BY <1>2, <1>3, <2>1, <2>2, <3>2 DEF Lines
    <3> QED BY <3>1, <3>2
  <2>5. l - 1 <= done
    <3>1. CASE l = 0
      BY <2>2, <3>1
    <3>2. CASE l > 0
      <4>1. l - 1 \in Lines
        BY <2>1, <3>2 DEF Lines
      <4>2. (l - 1) * Line = (l * Line) - Line
        BY <1>2
      <4>3. ((l - 1) * Line) + Hblank <= at
        BY <1>2, <4>2
      <4> QED BY <4>1, <4>3, LineDone
    <3> QED BY <1>2, <1>3, <3>1, <3>2
  <2> QED BY <1>1, <1>2, <1>3, <1>5, <2>2, <2>3, <2>4, <2>5
<1> QED BY <1>2, <1>4, <1>5

\* The HBLANKs crossed, over a frame and the line it may go too far.
LEMMA HblanksFacts ==
    ASSUME NEW at \in Nat
    PROVE  /\ Hblanks(at) \in Nat
           /\ at < Frame => Hblanks(at) = hdma_line_done(at) + 1 /\ Hblanks(at) <= Visible
           /\ at >= Frame => Hblanks(at) = Visible + hdma_line_done(at - Frame) + 1
<1>1. hdma_line_done(at) \in -1 .. Visible - 1
  BY LineDone
<1>2. CASE at < Frame
  BY <1>1, <1>2, FrameFacts, BeamAssumption DEF Hblanks
<1>3. CASE at >= Frame
  <2>1. at - Frame \in Nat
    BY <1>3, FrameFacts
  <2>2. hdma_line_done(at - Frame) \in -1 .. Visible - 1
    BY <2>1, LineDone
  <2> QED BY <1>3, <2>2, FrameFacts, BeamAssumption DEF Hblanks
<1> QED BY <1>2, <1>3, FrameFacts

LEMMA HblanksMonotone ==
    ASSUME NEW a \in Nat
    PROVE  Hblanks(a) <= Hblanks(a + 1)
<1>1. CASE a + 1 < Frame
  BY <1>1, FrameFacts, HblanksFacts, LineDoneMonotone, LineDone, BeamAssumption
<1>2. CASE a >= Frame
  <2>1. a - Frame \in Nat /\ (a + 1) - Frame \in Nat /\ a - Frame <= (a + 1) - Frame
    BY <1>2, FrameFacts
  <2>2. hdma_line_done(a - Frame) <= hdma_line_done((a + 1) - Frame)
    BY <2>1, LineDoneMonotone
  <2>3. hdma_line_done(a - Frame) \in Int /\ hdma_line_done((a + 1) - Frame) \in Int
    BY <2>1, LineDone
  <2> QED BY <1>2, <2>2, <2>3, FrameFacts, HblanksFacts, BeamAssumption
<1>3. CASE a < Frame /\ a + 1 >= Frame
  <2>1. (a + 1) - Frame \in Nat
    BY <1>3, FrameFacts
  <2>2. hdma_line_done((a + 1) - Frame) \in -1 .. Visible - 1
    BY <2>1, LineDone
  <2>3. Hblanks(a) <= Visible /\ Hblanks(a) \in Int
    BY <1>3, HblanksFacts
  <2>4. Hblanks(a + 1) = Visible + hdma_line_done((a + 1) - Frame) + 1
    BY <1>3, HblanksFacts
  <2> QED BY <2>2, <2>3, <2>4, BeamAssumption
<1> QED BY <1>1, <1>2, <1>3, FrameFacts

-----------------------------------------------------------------------------
(* Transfers. *)

LEMMA NoHblanks ==
    ASSUME NEW d, NEW n \in Int, ~d.active \/ n <= 0
    PROVE  hdma_hblanks(d, n) = d
BY DEF hdma_hblanks

\* A transfer some HBLANKs later: in the middle of it, and after its end.
Later(d, n) == [active |-> TRUE, remaining |-> d.remaining - n, at |-> (d.at + n) % Chunks]
Ended(d)    == [active |-> FALSE, remaining |-> 0, at |-> (d.at + (d.remaining + 1)) % Chunks]

LEMMA SomeHblanks ==
    ASSUME NEW d \in Transfers, d.active, NEW n \in Nat \ {0}
    PROVE  /\ n <= d.remaining => hdma_hblanks(d, n) = Later(d, n)
           /\ n > d.remaining => hdma_hblanks(d, n) = Ended(d)
<1>1. d.remaining \in Nat
  BY DEF Transfers
<1> DEFINE m == IF n > d.remaining THEN d.remaining + 1 ELSE n
<1>4. hdma_hblanks(d, n) =
        [active |-> m <= d.remaining,
         remaining |-> IF m <= d.remaining THEN d.remaining - m ELSE 0,
         at |-> (d.at + m) % Chunks]
  BY <1>1 DEF hdma_hblanks
<1>2. CASE n <= d.remaining
  <2>1. m = n /\ (m <= d.remaining) = TRUE
    BY <1>1, <1>2
  <2> HIDE DEF m
  <2>2. hdma_hblanks(d, n) = Later(d, n)
    BY <1>4, <2>1 DEF Later
  <2> QED BY <1>1, <1>2, <2>2
<1>3. CASE n > d.remaining
  <2>1. m = d.remaining + 1 /\ (m <= d.remaining) = FALSE
    BY <1>1, <1>3
  <2> HIDE DEF m
  <2>2. hdma_hblanks(d, n) = Ended(d)
    BY <1>4, <2>1 DEF Ended
  <2> QED BY <1>1, <1>3, <2>2
<1> QED BY <1>1, <1>2, <1>3

LEMMA LaterFields ==
    ASSUME NEW d \in Transfers, NEW n \in Nat, n <= d.remaining
    PROVE  /\ Later(d, n) \in Transfers /\ Later(d, n).active
           /\ Later(d, n).remaining = d.remaining - n
           /\ Later(d, n).at = (d.at + n) % Chunks
<1>1. d.remaining - n \in Nat /\ d.at + n \in Nat
  BY DEF Transfers
<1>2. (d.at + n) % Chunks \in Nat
  BY <1>1, DivMod, DmaAssumption
<1> QED BY <1>1, <1>2 DEF Later, Transfers

LEMMA EndedFields ==
    ASSUME NEW d \in Transfers
    PROVE  /\ Ended(d) \in Transfers /\ ~Ended(d).active
           /\ Ended(d).at = (d.at + (d.remaining + 1)) % Chunks
<1>1. d.at + (d.remaining + 1) \in Nat
  BY DEF Transfers
<1>2. (d.at + (d.remaining + 1)) % Chunks \in Nat
  BY <1>1, DivMod, DmaAssumption
<1> QED BY <1>2 DEF Ended, Transfers

LEMMA HblanksType ==
    ASSUME NEW d \in Transfers, NEW n \in Int
    PROVE  hdma_hblanks(d, n) \in Transfers
<1>1. CASE ~d.active \/ n <= 0
  BY <1>1, NoHblanks
<1>2. CASE d.active /\ n > 0
  <2>1. n \in Nat \ {0} /\ n \in Nat /\ d.remaining \in Nat
    BY <1>2 DEF Transfers
  <2>2. CASE n <= d.remaining
    BY <1>2, <2>1, <2>2, SomeHblanks, LaterFields
  <2>3. CASE n > d.remaining
    BY <1>2, <2>1, <2>3, SomeHblanks, EndedFields
  <2> QED BY <2>1, <2>2, <2>3
<1> QED BY <1>1, <1>2

\* HBLANKs may be caught up with in parts.
LEMMA HblanksInParts ==
    ASSUME NEW d \in Transfers, NEW n \in Nat, NEW k \in Nat
    PROVE  hdma_hblanks(hdma_hblanks(d, n), k) = hdma_hblanks(d, n + k)
<1>1. CASE ~d.active \/ n = 0
  BY <1>1, NoHblanks
<1>2. CASE k = 0
  BY <1>2, NoHblanks
<1>3. CASE d.active /\ n # 0 /\ k # 0
  <2>0. d.remaining \in Nat /\ d.at \in Nat /\ n \in Nat \ {0} /\ k \in Nat \ {0}
        /\ n + k \in Nat \ {0}
    BY <1>3 DEF Transfers
  <2>1. CASE n > d.remaining
    <3>1. hdma_hblanks(d, n) = Ended(d) /\ hdma_hblanks(d, n + k) = Ended(d)
      BY <1>3, <2>0, <2>1, SomeHblanks
    <3> QED BY <2>0, <3>1, EndedFields, NoHblanks
  <2>2. CASE n <= d.remaining
    <3> DEFINE e == Later(d, n)
    <3>1. e \in Transfers /\ e.active /\ e.remaining = d.remaining - n
          /\ e.at = (d.at + n) % Chunks
      BY <2>2, LaterFields
    <3>2. hdma_hblanks(d, n) = e
      BY <1>3, <2>0, <2>2, SomeHblanks
    <3> HIDE DEF e
    <3>3. CASE n + k <= d.remaining
      <4>1. k <= e.remaining
        BY <2>0, <3>1, <3>3
      <4>2. hdma_hblanks(e, k) = Later(e, k) /\ hdma_hblanks(d, n + k) = Later(d, n + k)
        BY <1>3, <2>0, <3>1, <3>3, <4>1, SomeHblanks
      <4>3. (e.at + k) % Chunks = ((d.at + n) + k) % Chunks
        BY <2>0, <3>1, ModPlus, DmaAssumption
      <4>4. (d.at + n) + k = d.at + (n + k) /\ e.remaining - k = d.remaining - (n + k)
        BY <2>0, <3>1
      <4> QED BY <3>2, <4>2, <4>3, <4>4 DEF Later
    <3>4. CASE n + k > d.remaining
      <4>1. k > e.remaining
        BY <2>0, <3>1, <3>4
      <4>2. hdma_hblanks(e, k) = Ended(e) /\ hdma_hblanks(d, n + k) = Ended(d)
        BY <1>3, <2>0, <3>1, <3>4, <4>1, SomeHblanks
      <4>3. e.remaining + 1 \in Nat
        BY <2>0, <2>2, <3>1
      <4>6. d.at + n \in Nat /\ Chunks \in Nat \ {0}
        BY <2>0, DmaAssumption
      <4>7. (((d.at + n) % Chunks) + (e.remaining + 1)) % Chunks
            = ((d.at + n) + (e.remaining + 1)) % Chunks
        BY <4>3, <4>6, ModPlus
      <4>4. (e.at + (e.remaining + 1)) % Chunks = ((d.at + n) + (e.remaining + 1)) % Chunks
        BY <3>1, <4>7
      <4>5. (d.at + n) + (e.remaining + 1) = d.at + (d.remaining + 1)
        BY <2>0, <3>1
      <4> QED BY <3>2, <4>2, <4>4, <4>5 DEF Ended
    <3> QED BY <2>0, <3>3, <3>4
  <2> QED BY <2>0, <2>1, <2>2
<1> QED BY <1>1, <1>2, <1>3

\* A transfer that runs is not the same after an HBLANK.
LEMMA HblanksChange ==
    ASSUME NEW d \in Transfers, d.active, NEW n \in Nat \ {0}
    PROVE  hdma_hblanks(d, n) # d
<1>1. d.remaining \in Nat
  BY DEF Transfers
<1>2. CASE n <= d.remaining
  BY <1>1, <1>2, SomeHblanks, LaterFields
<1>3. CASE n > d.remaining
  BY <1>1, <1>3, SomeHblanks, EndedFields
<1> QED BY <1>1, <1>2, <1>3

-----------------------------------------------------------------------------
(* The invariant. *)

BeamTypes ==
    /\ lcd \in BOOLEAN /\ rendered \in BOOLEAN
    /\ frame \in Nat /\ beam \in Nat
    /\ frame <= beam /\ frame < Frame /\ beam < Frame + Line

DmaTypes ==
    /\ dma \in Transfers /\ exact \in Transfers
    /\ last \in Lines \cup {NoLine}
    /\ dmaOrderly \in BOOLEAN

\* HBLANKs the transfer has not been caught up with.
Due == Hblanks(beam) - FirstLine(last)

\* The transfer is the exact one but for what is due; hdma_last_ly is never
\* ahead of the beam while a transfer runs.
DmaAgrees ==
    dmaOrderly =>
        /\ lcd => exact = hdma_hblanks(dma, Due) /\ (dma.active => Due >= 0)
        /\ ~lcd => exact = dma

RasterTypes ==
    /\ reg \in Values /\ base \in Values
    /\ log \in Seq(Nat \X Values)
    /\ overflow \in BOOLEAN /\ logOrderly \in BOOLEAN
    /\ shown \in [Lines -> Values]

\* The log gives every line that has been shown the value it was shown with,
\* and every other line the value the register has now.
RasterAgrees ==
    lcd /\ logOrderly /\ ~overflow =>
        \A l \in Lines : Band(l) = IF l <= hdma_line_done(beam) THEN shown[l] ELSE reg

DmaInv    == DmaTypes /\ DmaAgrees
RasterInv == RasterTypes /\ RasterAgrees
IInv      == BeamTypes /\ DmaInv /\ RasterInv

\* One step, by what it does.
LEMMA Steps ==
    ASSUME Next
    PROVE  \/ WriteHdmaAddress
           \/ \E n \in Lengths : WriteHdma5(n)
           \/ \E v \in Values : WriteReg(v)
           \/ SwitchLcd \/ ReadHdma5 \/ Run \/ dmg_sync_hw
BY DEF Next, ProgramWrites

LEMMA BeamKept ==
    ASSUME BeamTypes, Next
    PROVE  BeamTypes'
<1> USE DEF BeamTypes
<1>1. CASE UNCHANGED <<lcd, frame, beam, rendered>>
  BY <1>1
<1>2. CASE SwitchLcd
  <2>1. lcd' \in BOOLEAN /\ rendered' \in BOOLEAN
    BY <1>2 DEF SwitchLcd
  <2>2. \/ frame' = 0 /\ beam' = beam - frame
        \/ frame' = frame /\ beam' = beam
    BY <1>2 DEF SwitchLcd
  <2> QED BY <2>1, <2>2, FrameFacts, BeamAssumption
<1>3. CASE Run
  <2>1. Limit \in Nat /\ Limit <= Frame
    BY FrameFacts DEF Limit
  <2>2. Max2(Limit, frame) \in Nat /\ Max2(Limit, frame) <= Frame
    BY <2>1, FrameFacts DEF Max2
  <2>3. beam' = beam + 1 /\ beam < Max2(Limit, frame) + Overshoot
        /\ UNCHANGED <<lcd, frame, rendered>>
    BY <1>3 DEF Run
  <2> QED BY <2>2, <2>3, FrameFacts, BeamAssumption
<1>4. CASE dmg_sync_hw
  <2>1. CASE beam >= Frame
    <3>1. frame' = beam - Frame /\ beam' = beam - Frame
      BY <1>4, <2>1 DEF dmg_sync_hw
    <3>2. lcd' \in BOOLEAN /\ rendered' \in BOOLEAN
      BY <1>4, <2>1 DEF dmg_sync_hw
    <3>3. beam - Frame \in Nat /\ beam - Frame < Frame /\ beam - Frame < Frame + Line
      BY <2>1, FrameFacts
    <3> QED BY <3>1, <3>2, <3>3
  <2>2. CASE beam < Frame
    BY <1>4, <2>2, FrameFacts DEF dmg_sync_hw
  <2> QED BY <2>1, <2>2, FrameFacts
<1>5. CASE WriteHdmaAddress
  BY <1>5, <1>1 DEF WriteHdmaAddress
<1>6. CASE \E n \in Lengths : WriteHdma5(n)
  BY <1>6, <1>1 DEF WriteHdma5
<1>7. CASE \E v \in Values : WriteReg(v)
  BY <1>7, <1>1 DEF WriteReg
<1>8. CASE ReadHdma5
  BY <1>8, <1>1 DEF ReadHdma5
<1> QED BY <1>2, <1>3, <1>4, <1>5, <1>6, <1>7, <1>8, Steps

-----------------------------------------------------------------------------
(* DMA. *)

LEMMA FirstLineFacts ==
    ASSUME NEW l \in Lines \cup {NoLine}
    PROVE  /\ FirstLine(l) \in 0 .. Visible
           /\ l \in Lines => FirstLine(l) = l + 1
           /\ FirstLine(NoLine) = 0
BY BeamAssumption DEF FirstLine, Lines, NoLine

\* However much of what is due is caught up with, the rest makes it up.
LEMMA CaughtKeeps ==
    ASSUME NEW d \in Transfers, NEW l \in Lines \cup {NoLine},
           NEW done \in -1 .. Visible - 1, NEW h \in Nat, done + 1 <= h,
           d.active => h - FirstLine(l) >= 0
    PROVE  /\ Caught(d, l, done) \in Transfers
           /\ CaughtLast(d, l, done) \in Lines \cup {NoLine}
           /\ hdma_hblanks(Caught(d, l, done), h - FirstLine(CaughtLast(d, l, done)))
              = hdma_hblanks(d, h - FirstLine(l))
           /\ Caught(d, l, done).active => h - FirstLine(CaughtLast(d, l, done)) >= 0
<1> DEFINE f  == FirstLine(l)
           n  == done - f + 1
           d2 == Caught(d, l, done)
           l2 == CaughtLast(d, l, done)
<1>1. f \in 0 .. Visible /\ n \in Int /\ d.remaining \in Nat /\ Visible \in Nat
  BY FirstLineFacts, BeamAssumption DEF Transfers
<1>2. d2 = hdma_hblanks(d, n) /\ d2 \in Transfers
  BY <1>1, HblanksType DEF Caught
<1>3. CASE ~d.active \/ n <= 0
  <2>1. d2 = d
    BY <1>1, <1>2, <1>3, NoHblanks
  <2>2. l2 = l
    BY <1>1, <1>3 DEF CaughtLast
  <2> QED BY <1>2, <2>1, <2>2
<1>4. CASE d.active /\ n > 0
  <2>1. l2 = IF done - f > d.remaining THEN f + d.remaining ELSE done
    BY <1>1, <1>4 DEF CaughtLast
  <2>2. n \in Nat \ {0} /\ h - f \in Nat \ {0} /\ n <= h - f
    BY <1>1, <1>4
  <2>3. l2 \in Lines
    BY <1>1, <1>4, <2>1 DEF Lines
  <2>4. FirstLine(l2) \in 0 .. Visible
    BY <2>3, FirstLineFacts
  <2>5. CASE n <= d.remaining
    <3>1. l2 = done /\ FirstLine(l2) = f + n
      BY <1>1, <2>1, <2>3, <2>5, FirstLineFacts
    <3> DEFINE k == h - (f + n)
    <3>2. k \in Nat /\ n + k = h - f /\ n \in Nat
      BY <1>1, <2>2
    <3>3. hdma_hblanks(hdma_hblanks(d, n), k) = hdma_hblanks(d, n + k)
      BY <3>2, HblanksInParts
    <3> HIDE DEF n, f, d2, l2
    <3> QED BY <1>2, <2>3, <3>1, <3>2, <3>3 DEF d2, l2, f
  <2>6. CASE n > d.remaining
    <3>1. d2 = Ended(d)
      BY <1>2, <1>4, <2>2, <2>6, SomeHblanks
    <3>2. hdma_hblanks(d, h - f) = Ended(d)
      BY <1>1, <1>4, <2>2, <2>6, SomeHblanks
    <3>3. ~d2.active
      BY <3>1, EndedFields
    <3>4. hdma_hblanks(d2, h - FirstLine(l2)) = d2
      BY <2>4, <3>3, NoHblanks
    <3> QED BY <1>2, <2>3, <3>1, <3>2, <3>3, <3>4
  <2> QED BY <1>1, <2>5, <2>6
<1> QED BY <1>1, <1>3, <1>4

LEMMA DoneInTime ==
    ASSUME NEW at \in Nat
    PROVE  hdma_line_done(at) + 1 <= Hblanks(at)
<1>1. CASE at < Frame
  BY <1>1, HblanksFacts, LineDone
<1>2. CASE at >= Frame
  <2>1. at - Frame \in Nat /\ at >= Drawn
    BY <1>2, FrameFacts
  <2> QED BY <1>2, <2>1, HblanksFacts, LineDone, AllDone, BeamAssumption
<1> QED BY <1>1, <1>2, FrameFacts

\* What CaughtUp comes to.
LEMMA CaughtUpFacts ==
    ASSUME BeamTypes, DmaTypes
    PROVE  CaughtUp = IF lcd THEN hdma_hblanks(dma, Due) ELSE dma
<1> DEFINE f == FirstLine(last)
<1>1. f \in 0 .. Visible /\ FirstLine(NoLine) = 0 /\ Visible \in Nat
  BY FirstLineFacts, BeamAssumption DEF DmaTypes
<1>2. CASE ~lcd
  BY <1>2 DEF CaughtUp
<1>3. CASE lcd /\ beam < Frame
  <2>1. hdma_line_done(beam) \in -1 .. Visible - 1 /\ Hblanks(beam) = hdma_line_done(beam) + 1
    BY <1>3, HblanksFacts, LineDone DEF BeamTypes
  <2>2. hdma_line_done(beam) - f + 1 = Due
    BY <1>1, <2>1 DEF Due
  <2> QED BY <1>3, <2>2 DEF CaughtUp, Caught
<1>4. CASE lcd /\ beam >= Frame
  <2> DEFINE done == hdma_line_done(beam - Frame)
             n == Visible - f
             k == done + 1
  <2>1. beam - Frame \in Nat
    BY <1>4, FrameFacts DEF BeamTypes
  <2>2. done \in -1 .. Visible - 1 /\ Hblanks(beam) = Visible + done + 1
    BY <1>4, <2>1, HblanksFacts, LineDone DEF BeamTypes
  <2>3. n \in Nat /\ k \in Nat /\ n + k = Due
    BY <1>1, <2>2 DEF Due
  <2>4. (Visible - 1) - f + 1 = n /\ done - FirstLine(NoLine) + 1 = k
    BY <1>1, <2>2
  <2>5. CaughtUp = hdma_hblanks(hdma_hblanks(dma, n), k)
    <3>1. Caught(dma, last, Visible - 1) = hdma_hblanks(dma, n)
      BY <2>4 DEF Caught
    <3>2. \A d : Caught(d, NoLine, done) = hdma_hblanks(d, k)
      BY <2>4 DEF Caught
    <3>3. ~(beam < Frame)
      BY <1>4, FrameFacts DEF BeamTypes
    <3> QED BY <1>4, <3>1, <3>2, <3>3 DEF CaughtUp
  <2> HIDE DEF n, k
  <2>6. hdma_hblanks(hdma_hblanks(dma, n), k) = hdma_hblanks(dma, n + k)
    BY <2>3, HblanksInParts DEF DmaTypes
  <2> QED BY <1>4, <2>3, <2>5, <2>6
<1> QED BY <1>2, <1>3, <1>4, FrameFacts DEF BeamTypes

\* The first theorem's property, from the invariant.
LEMMA AgreesIsCaughtUp ==
    ASSUME BeamTypes, DmaInv
    PROVE  HdmaCatchesUp
BY CaughtUpFacts DEF DmaInv, DmaAgrees, HdmaCatchesUp, BeamTypes

\* A transfer of which nothing is pending is the exact one, and nothing is due
\* to it.
LEMMA NothingPending ==
    ASSUME BeamTypes, DmaInv, dmaOrderly, ~Pending
    PROVE  dma = exact /\ (lcd /\ dma.active => Due = 0)
<1>1. CaughtUp = dma /\ CaughtUp = exact
  BY AgreesIsCaughtUp DEF Pending, HdmaCatchesUp
<1>2. ASSUME lcd, dma.active PROVE Due = 0
  <2>1. Due \in Int
    BY FirstLineFacts, HblanksFacts DEF Due, BeamTypes, DmaInv, DmaTypes
  <2>2. Due >= 0
    BY <1>2 DEF DmaInv, DmaAgrees
  <2>3. hdma_hblanks(dma, Due) = dma
    BY <1>1, <1>2, CaughtUpFacts DEF DmaInv
  <2>4. ~(Due \in Nat \ {0})
    BY <1>2, <2>3, HblanksChange DEF DmaInv, DmaTypes
  <2> QED BY <2>1, <2>2, <2>4
<1> QED BY <1>1, <1>2

LEMMA StartHdmaKeeps ==
    ASSUME BeamTypes, DmaInv, NEW n \in Lengths, StartHdma(n),
           UNCHANGED <<lcd, frame, beam>>
    PROVE  DmaInv'
<1> DEFINE new == [dma EXCEPT !.active = TRUE, !.remaining = n]
<1> USE DEF BeamTypes
<1>1. n \in Nat
  BY DmaAssumption
<1>2. new \in Transfers
  BY <1>1 DEF DmaInv, DmaTypes, Transfers
<1>3. Started(dma, n) \in Transfers
  BY <1>2, HblanksType DEF Started
<1>4. dma' = Started(dma, n)
  BY DEF StartHdma
<1>5. last' = CASE Ly(beam) >= Visible -> Visible - 1
                [] Ly(beam) < Visible /\ Pos(beam) >= Hblank -> Ly(beam)
                [] OTHER -> IF Ly(beam) = 0 THEN NoLine ELSE Ly(beam) - 1
  BY DEF StartHdma
<1>6. dmaOrderly' = (dmaOrderly /\ (~Pending /\ beam < Frame))
  BY DEF StartHdma, Compare
<1>7. CASE dmaOrderly'
  <2>1. dmaOrderly /\ ~Pending /\ beam < Frame
    BY <1>6, <1>7
  <2>2. exact = dma
    BY <2>1, NothingPending
  <2>3. exact' = Started(exact, n)
    BY <2>1 DEF StartHdma, Compare
  <2>4. exact' = dma'
    BY <1>4, <2>2, <2>3
  <2>5. Ly(beam) \in Nat /\ Hblanks(beam) = hdma_line_done(beam) + 1
    BY <2>1, LineOf, HblanksFacts
  <2>6. last' \in Lines \cup {NoLine} /\ FirstLine(last') = Hblanks(beam)
    <3>1. CASE Ly(beam) >= Visible
      <4>1. last' = Visible - 1 /\ last' \in Lines
        BY <1>5, <2>5, <3>1, BeamAssumption DEF Lines
      <4>2. hdma_line_done(beam) = Visible - 1
        BY <2>1, <3>1, LineOf
      <4> QED BY <2>5, <4>1, <4>2, FirstLineFacts, BeamAssumption
    <3>2. CASE Ly(beam) < Visible /\ Pos(beam) >= Hblank
      <4>1. last' = Ly(beam) /\ last' \in Lines
        BY <1>5, <2>5, <3>2, BeamAssumption DEF Lines
      <4>2. hdma_line_done(beam) = Ly(beam)
        BY <2>1, <3>2, LineOf
      <4> QED BY <2>5, <4>1, <4>2, FirstLineFacts
    <3>3. CASE Ly(beam) < Visible /\ ~(Pos(beam) >= Hblank)
      <4>1. last' = IF Ly(beam) = 0 THEN NoLine ELSE Ly(beam) - 1
        BY <1>5, <2>5, <3>3, BeamAssumption
      <4>2. hdma_line_done(beam) = Ly(beam) - 1
        BY <2>1, <3>3, LineOf
      <4>3. CASE Ly(beam) = 0
        BY <2>5, <4>1, <4>2, <4>3, FirstLineFacts
      <4>4. CASE Ly(beam) # 0
        <5>1. last' = Ly(beam) - 1 /\ last' \in Lines
          BY <2>5, <3>3, <4>1, <4>4, BeamAssumption DEF Lines
        <5> QED BY <2>5, <4>2, <5>1, FirstLineFacts
      <4> QED BY <4>3, <4>4
    <3> QED BY <2>5, <3>1, <3>2, <3>3, BeamAssumption
  <2>7. Due' = 0
    BY <2>5, <2>6, HblanksFacts DEF Due
  <2>8. hdma_hblanks(dma', Due') = dma'
    BY <2>7, NoHblanks
  <2>9. dma' \in Transfers /\ exact' \in Transfers /\ dmaOrderly' \in BOOLEAN
    BY <1>3, <1>4, <2>4, <1>7
  <2>10. DmaTypes'
    BY <2>6, <2>9 DEF DmaTypes
  <2>11. DmaAgrees'
    BY <2>4, <2>7, <2>8 DEF DmaAgrees
  <2> QED BY <2>10, <2>11 DEF DmaInv
<1>8. CASE ~dmaOrderly'
  <2>1. exact' = Idle
    BY <1>6, <1>8 DEF StartHdma, Compare
  <2>2. Idle \in Transfers
    BY DEF Idle, Transfers
  <2>3. dmaOrderly' \in BOOLEAN
    BY <1>6
  <2>4. last' \in Lines \cup {NoLine}
    <3>1. Ly(beam) \in Nat \/ beam >= Frame
      BY FrameFacts, LineOf
    <3>2. Ly(beam) \in Nat
      <4>1. CASE beam >= Frame
        <5>1. beam - Frame \in Nat /\ beam - Frame < Frame
          BY <4>1, FrameFacts
        <5>2. Ly(beam) = Ly(beam - Frame)
          BY <4>1, <5>1, FrameFacts DEF Ly, InFrame
        <5> QED BY <5>1, <5>2, LineOf
      <4> QED BY <3>1, <4>1
    <3>3. CASE Ly(beam) >= Visible
      BY <1>5, <3>2, <3>3, BeamAssumption DEF Lines
    <3>4. CASE Ly(beam) < Visible /\ Pos(beam) >= Hblank
      BY <1>5, <3>2, <3>4, BeamAssumption DEF Lines
    <3>5. CASE Ly(beam) < Visible /\ ~(Pos(beam) >= Hblank)
      <4>1. last' = IF Ly(beam) = 0 THEN NoLine ELSE Ly(beam) - 1
        BY <1>5, <3>2, <3>5, BeamAssumption
      <4> QED BY <3>2, <3>5, <4>1, BeamAssumption DEF Lines
    <3> QED BY <3>2, <3>3, <3>4, <3>5, BeamAssumption
  <2>5. DmaTypes'
    BY <1>3, <1>4, <2>1, <2>2, <2>3, <2>4 DEF DmaTypes
  <2> QED BY <1>8, <2>5 DEF DmaInv, DmaAgrees
<1> QED BY <1>7, <1>8

\* A transfer stopped, moved, or done at once.
Stopped(d)     == [d EXCEPT !.active = FALSE]
Moved(d, to)   == [d EXCEPT !.at = to]

LEMMA StoppedFields ==
    ASSUME NEW d \in Transfers, NEW to \in Nat
    PROVE  /\ Stopped(d) \in Transfers /\ ~Stopped(d).active
           /\ Moved(d, to) \in Transfers /\ Moved(d, to).active = d.active
BY DEF Transfers, Stopped, Moved

\* A step after which no transfer runs.
LEMMA IdleKeeps ==
    ASSUME BeamTypes', DmaTypes', dmaOrderly' => exact' = dma' /\ ~dma'.active
    PROVE  DmaInv'
<1>1. Due' \in Int
  BY FirstLineFacts, HblanksFacts DEF Due, BeamTypes, DmaTypes
<1> QED BY <1>1, NoHblanks DEF DmaInv, DmaAgrees

\* What Compare leaves.
LEMMA CompareTypes ==
    ASSUME NEW becomes, NEW orderly \in BOOLEAN, DmaTypes, Compare(becomes, orderly),
           dmaOrderly /\ orderly => becomes \in Transfers
    PROVE  exact' \in Transfers /\ dmaOrderly' \in BOOLEAN
<1>1. Idle \in Transfers
  BY DEF Idle, Transfers
<1>2. CASE dmaOrderly /\ orderly
  <2>1. exact' = becomes
    BY <1>2 DEF Compare
  <2>2. dmaOrderly' \in BOOLEAN
    BY DEF Compare
  <2> QED BY <1>2, <2>1, <2>2
<1>3. CASE ~(dmaOrderly /\ orderly)
  <2>1. exact' = Idle
    BY <1>3 DEF Compare
  <2>2. dmaOrderly' \in BOOLEAN
    BY DEF Compare
  <2> QED BY <1>1, <2>1, <2>2
<1> QED BY <1>2, <1>3

\* hdma_flush_now and a sync in the frame.
LEMMA FlushKeeps ==
    ASSUME BeamTypes, DmaInv
    PROVE  /\ Flushed \in Transfers /\ FlushedLast \in Lines \cup {NoLine}
           /\ dmaOrderly =>
                /\ lcd => /\ exact = hdma_hblanks(Flushed, Hblanks(beam) - FirstLine(FlushedLast))
                          /\ Flushed.active => Hblanks(beam) - FirstLine(FlushedLast) >= 0
                /\ ~lcd => exact = Flushed
           /\ dmaOrderly /\ beam < Frame => Flushed = exact
<1> USE DEF BeamTypes
<1> DEFINE done == hdma_line_done(beam)
<1>1. done \in -1 .. Visible - 1 /\ done + 1 <= Hblanks(beam) /\ Hblanks(beam) \in Nat
  BY LineDone, DoneInTime, HblanksFacts
<1>2. dma \in Transfers /\ last \in Lines \cup {NoLine}
  BY DEF DmaInv, DmaTypes
<1>3. CASE ~lcd
  BY <1>2, <1>3 DEF Flushed, FlushedLast, DmaInv, DmaAgrees
<1>4. CASE lcd
  <2>1. Flushed = Caught(dma, last, done) /\ FlushedLast = CaughtLast(dma, last, done)
    BY <1>4 DEF Flushed, FlushedLast
  <2>2. Flushed \in Transfers /\ FlushedLast \in Lines \cup {NoLine}
    <3>1. Flushed \in Transfers
      <4>1. done - FirstLine(last) + 1 \in Int
        BY <1>1, <1>2, FirstLineFacts
      <4> QED BY <1>2, <2>1, <4>1, HblanksType DEF Caught
    <3>2. FlushedLast \in Lines \cup {NoLine}
      <4>1. FirstLine(last) \in Nat /\ dma.remaining \in Nat
        BY <1>2, FirstLineFacts DEF Transfers
      <4>2. FlushedLast \in {last, FirstLine(last) + dma.remaining, done}
        BY <2>1 DEF CaughtLast
      <4>3. CASE ~dma.active \/ done < FirstLine(last)
        BY <1>2, <2>1, <4>3 DEF CaughtLast
      <4>4. CASE dma.active /\ ~(done < FirstLine(last))
        <5>1. FlushedLast = IF done - FirstLine(last) > dma.remaining
                            THEN FirstLine(last) + dma.remaining ELSE done
          BY <2>1, <4>4 DEF CaughtLast
        <5> QED BY <1>1, <4>1, <4>4, <5>1, BeamAssumption DEF Lines
      <4> QED BY <4>3, <4>4
    <3> QED BY <3>1, <3>2
  <2>3. ASSUME dmaOrderly
        PROVE  /\ exact = hdma_hblanks(Flushed, Hblanks(beam) - FirstLine(FlushedLast))
               /\ Flushed.active => Hblanks(beam) - FirstLine(FlushedLast) >= 0
    <3>1. exact = hdma_hblanks(dma, Hblanks(beam) - FirstLine(last))
          /\ (dma.active => Hblanks(beam) - FirstLine(last) >= 0)
      BY <1>4, <2>3 DEF DmaInv, DmaAgrees, Due
    <3> HIDE DEF done
    <3> QED BY <1>1, <1>2, <2>1, <3>1, CaughtKeeps
  <2>4. ASSUME dmaOrderly, beam < Frame
        PROVE  Flushed = exact
    <3>1. Hblanks(beam) = done + 1
      BY <2>4, HblanksFacts
    <3>2. FirstLine(last) \in Int
      BY <1>2, FirstLineFacts
    <3>3. done - FirstLine(last) + 1 = Due
      BY <1>1, <3>1, <3>2 DEF Due
    <3> QED BY <1>4, <2>1, <2>4, <3>3 DEF Caught, DmaInv, DmaAgrees
  <2> QED BY <1>4, <2>2, <2>3, <2>4
<1> QED BY <1>3, <1>4

LEMMA DmaKept ==
    ASSUME BeamTypes, DmaInv, Next
    PROVE  DmaInv'
<1> USE DEF BeamTypes
<1>0. BeamTypes'
  BY BeamKept
<1>t. DmaTypes
  BY DEF DmaInv
<1>1. CASE WriteHdmaAddress
  <2>1. dma' = Moved(dma, 0) /\ UNCHANGED <<lcd, beam, last>>
    BY <1>1 DEF WriteHdmaAddress, Moved
  <2>2. Compare(Moved(exact, 0), ~Pending)
    BY <1>1 DEF WriteHdmaAddress, Moved
  <2>3. Moved(dma, 0) \in Transfers /\ Moved(exact, 0) \in Transfers
        /\ Moved(dma, 0).active = dma.active
    BY <1>t, StoppedFields DEF DmaTypes
  <2>4. exact' \in Transfers /\ dmaOrderly' \in BOOLEAN
    BY <1>t, <2>2, <2>3, CompareTypes DEF Pending
  <2>5. DmaTypes'
    BY <1>t, <2>1, <2>3, <2>4 DEF DmaTypes
  <2>6. ASSUME dmaOrderly'
        PROVE  exact' = dma' /\ (lcd /\ dma'.active => Due' = 0)
    <3>1. dmaOrderly /\ ~Pending /\ exact' = Moved(exact, 0)
      BY <2>2, <2>6 DEF Compare
    <3>2. dma = exact /\ (lcd /\ dma.active => Due = 0)
      BY <3>1, NothingPending
    <3>3. Due' = Due
      BY <2>1 DEF Due, Hblanks, FirstLine
    <3> QED BY <2>1, <2>3, <3>1, <3>2, <3>3
  <2>7. Due' \in Int
    BY <1>0, <2>5, FirstLineFacts, HblanksFacts DEF Due, DmaTypes
  <2>8. dmaOrderly' /\ lcd' => exact' = hdma_hblanks(dma', Due')
    BY <2>1, <2>6, <2>7, NoHblanks
  <2> QED BY <2>1, <2>5, <2>6, <2>7, <2>8 DEF DmaInv, DmaAgrees
<1>2. CASE \E n \in Lengths : WriteHdma5(n)
  <2>1. PICK n \in Lengths : WriteHdma5(n)
    BY <1>2
  <2>2. UNCHANGED <<lcd, frame, beam>>
    BY <2>1 DEF WriteHdma5
  <2>3. CASE StartHdma(n)
    BY <2>2, <2>3, StartHdmaKeeps
  <2>4. CASE CancelHdma(n)
    <3>1. dma' = Stopped(Flushed) /\ last' = FlushedLast
      BY <2>4 DEF CancelHdma, Stopped
    <3>2. Compare(Stopped(exact), exact.active /\ beam < Frame)
      BY <2>4 DEF CancelHdma, Stopped
    <3>3. Stopped(exact) \in Transfers /\ (exact.active /\ beam < Frame) \in BOOLEAN
      BY <1>t, StoppedFields DEF DmaTypes
    <3>4. exact' \in Transfers /\ dmaOrderly' \in BOOLEAN
      BY <1>t, <3>2, <3>3, CompareTypes
    <3>5. dma' \in Transfers /\ ~dma'.active /\ last' \in Lines \cup {NoLine}
      BY <3>1, FlushKeeps, StoppedFields
    <3>6. dmaOrderly' => exact' = dma'
      BY <3>1, <3>2, FlushKeeps DEF Compare
    <3>7. DmaTypes'
      BY <3>4, <3>5 DEF DmaTypes
    <3> QED BY <1>0, <3>5, <3>6, <3>7, IdleKeeps
  <2>5. CASE StartGpdma(n)
    <3> DEFINE Gp(d) == [d EXCEPT !.active = FALSE, !.at = (d.at + n + 1) % Chunks]
    <3>1. dma' = Gp(dma) /\ last' = last /\ ~dma.active
      BY <2>5 DEF StartGpdma, cgb_perform_gpdma
    <3>2. Compare(Gp(exact), TRUE)
      BY <2>5 DEF StartGpdma, cgb_perform_gpdma
    <3>3. ASSUME NEW d \in Transfers
          PROVE  Gp(d) \in Transfers /\ ~Gp(d).active
      <4>1. n \in Nat
        BY DmaAssumption
      <4>2. (d.at + n + 1) % Chunks \in Nat
        <5>1. d.at + n + 1 \in Int
          BY <4>1 DEF Transfers
        <5> QED BY <5>1, DivMod, DmaAssumption
      <4> QED BY <4>2 DEF Transfers
    <3> HIDE DEF Gp
    <3>4. exact' \in Transfers /\ dmaOrderly' \in BOOLEAN
      BY <1>t, <3>2, <3>3, CompareTypes DEF DmaTypes
    <3>5. dma' \in Transfers /\ ~dma'.active /\ last' \in Lines \cup {NoLine}
      BY <1>t, <3>1, <3>3 DEF DmaTypes
    <3>6. ASSUME dmaOrderly' PROVE exact' = dma'
      <4>1. dmaOrderly /\ exact' = Gp(exact)
        BY <3>2, <3>6 DEF Compare
      <4>2. exact = dma
        <5>1. Due \in Int
          BY <1>t, FirstLineFacts, HblanksFacts DEF Due, DmaTypes
        <5> QED BY <3>1, <4>1, <5>1, NoHblanks DEF DmaInv, DmaAgrees
      <4> QED BY <3>1, <4>1, <4>2
    <3>7. DmaTypes'
      BY <3>4, <3>5 DEF DmaTypes
    <3> QED BY <1>0, <3>5, <3>6, <3>7, IdleKeeps
  <2> QED BY <2>1, <2>3, <2>4, <2>5 DEF WriteHdma5
<1>3. CASE \E v \in Values : WriteReg(v)
  <2>1. UNCHANGED <<lcd, beam, dma, last, exact, dmaOrderly>>
    BY <1>3 DEF WriteReg, dmaVars
  <2> QED BY <2>1 DEF DmaInv, DmaTypes, DmaAgrees, Due, Hblanks, FirstLine
<1>4. CASE SwitchLcd
  <2>1. dma' = dma /\ Compare(exact, ~exact.active /\ ~dma.active) /\ last' \in {last, NoLine}
    BY <1>4 DEF SwitchLcd
  <2>2. exact' \in Transfers /\ dmaOrderly' \in BOOLEAN
    BY <1>t, <2>1, CompareTypes DEF DmaTypes
  <2>3. DmaTypes'
    BY <1>t, <2>1, <2>2 DEF DmaTypes
  <2>4. ASSUME dmaOrderly' PROVE exact' = dma' /\ ~dma'.active
    <3>1. dmaOrderly /\ ~dma.active /\ exact' = exact
      BY <2>1, <2>4 DEF Compare
    <3>2. Due \in Int
      BY <1>t, FirstLineFacts, HblanksFacts DEF Due, DmaTypes
    <3>3. exact = dma
      BY <3>1, <3>2, NoHblanks DEF DmaInv, DmaAgrees
    <3> QED BY <2>1, <3>1, <3>3
  <2> QED BY <1>0, <2>3, <2>4, IdleKeeps
<1>5. CASE ReadHdma5
  <2>1. dma' = Flushed /\ last' = FlushedLast /\ UNCHANGED <<lcd, beam, exact, dmaOrderly>>
    BY <1>5 DEF ReadHdma5
  <2>2. DmaTypes'
    BY <1>t, <2>1, FlushKeeps DEF DmaTypes
  <2>3. Due' = Hblanks(beam) - FirstLine(FlushedLast)
    BY <2>1 DEF Due, Hblanks, FirstLine
  <2> QED BY <2>1, <2>2, <2>3, FlushKeeps DEF DmaInv, DmaAgrees
<1>6. CASE Run
  <2>1. beam' = beam + 1 /\ UNCHANGED <<lcd, dma, last, dmaOrderly>>
        /\ exact' = IF lcd THEN hdma_hblanks(exact, Hblanks(beam + 1) - Hblanks(beam)) ELSE exact
    BY <1>6 DEF Run
  <2> DEFINE delta == Hblanks(beam + 1) - Hblanks(beam)
  <2>2. delta \in Nat /\ Due \in Int /\ Due' = Due + delta
    <3>1. Hblanks(beam) \in Nat /\ Hblanks(beam + 1) \in Nat /\ Hblanks(beam) <= Hblanks(beam + 1)
      BY HblanksFacts, HblanksMonotone
    <3>2. FirstLine(last) \in Int
      BY <1>t, FirstLineFacts DEF DmaTypes
    <3>3. Due' = Hblanks(beam + 1) - FirstLine(last)
      BY <2>1 DEF Due, Hblanks, FirstLine
    <3> QED BY <3>1, <3>2, <3>3 DEF Due
  <2> HIDE DEF delta
  <2>3. exact' \in Transfers
    BY <1>t, <2>1, <2>2, HblanksType DEF DmaTypes, delta
  <2>4. DmaTypes'
    BY <1>t, <2>1, <2>3 DEF DmaTypes
  <2>5. ASSUME dmaOrderly, lcd
        PROVE  exact' = hdma_hblanks(dma, Due + delta) /\ (dma.active => Due + delta >= 0)
    <3>1. exact = hdma_hblanks(dma, Due) /\ (dma.active => Due >= 0)
      BY <2>5 DEF DmaInv, DmaAgrees
    <3>2. exact' = hdma_hblanks(exact, delta)
      BY <2>1, <2>5 DEF delta
    <3>3. CASE dma.active
      <4>1. Due \in Nat
        BY <2>2, <3>1, <3>3
      <4>2. hdma_hblanks(hdma_hblanks(dma, Due), delta) = hdma_hblanks(dma, Due + delta)
        BY <1>t, <2>2, <4>1, HblanksInParts DEF DmaTypes
      <4> QED BY <2>2, <3>1, <3>2, <4>1, <4>2
    <3>4. CASE ~dma.active
      <4>1. Due + delta \in Int /\ delta \in Int
        BY <2>2
      <4> QED BY <2>2, <3>1, <3>2, <3>4, <4>1, NoHblanks
    <3> QED BY <3>3, <3>4
  <2>6. ASSUME dmaOrderly, ~lcd PROVE exact' = dma
    BY <2>1, <2>6 DEF DmaInv, DmaAgrees
  <2> QED BY <2>1, <2>2, <2>4, <2>5, <2>6 DEF DmaInv, DmaAgrees
<1>7. CASE dmg_sync_hw
  <2>1. dma' = Flushed /\ UNCHANGED <<lcd, exact, dmaOrderly>>
    BY <1>7 DEF dmg_sync_hw, Flushed
  <2>2. CASE beam < Frame
    <3>1. last' = FlushedLast /\ beam' = beam
      BY <1>7, <2>2, FrameFacts DEF dmg_sync_hw, FlushedLast
    <3>2. DmaTypes'
      BY <1>t, <2>1, <3>1, FlushKeeps DEF DmaTypes
    <3>3. Due' = Hblanks(beam) - FirstLine(FlushedLast)
      BY <3>1 DEF Due, Hblanks, FirstLine
    <3> QED BY <2>1, <3>2, <3>3, FlushKeeps DEF DmaInv, DmaAgrees
  <2>3. CASE beam >= Frame
    <3>1. last' = NoLine /\ beam' = beam - Frame
      BY <1>7, <2>3, FrameFacts DEF dmg_sync_hw, LastAtWrap
    <3>2. DmaTypes'
      BY <1>t, <2>1, <3>1, FlushKeeps DEF DmaTypes
    <3> DEFINE done == hdma_line_done(beam - Frame)
               n == Visible - FirstLine(last)
               k == done + 1
    <3>3. beam - Frame \in Nat /\ beam - Frame < Frame /\ beam >= Drawn
      BY <2>3, FrameFacts
    <3>4. Hblanks(beam - Frame) = k /\ Hblanks(beam) = Visible + k /\ k \in Nat
      BY <2>3, <3>3, HblanksFacts, LineDone, BeamAssumption
    <3>5. Due' = k
      <4>1. Due' = Hblanks(beam - Frame) - FirstLine(NoLine)
        BY <3>1 DEF Due, Hblanks, FirstLine
      <4> QED BY <3>4, <4>1, FirstLineFacts
    <3>6. n \in Nat /\ n + k = Due
      BY <1>t, <3>4, FirstLineFacts, BeamAssumption DEF Due, DmaTypes
    <3>7. lcd => Flushed = hdma_hblanks(dma, n)
      <4>1. hdma_line_done(beam) = Visible - 1
        BY <3>3, AllDone
      <4>2. (Visible - 1) - FirstLine(last) + 1 = n
        BY <1>t, FirstLineFacts, BeamAssumption DEF DmaTypes
      <4> QED BY <4>1, <4>2 DEF Flushed, Caught
    <3> HIDE DEF n, k
    <3>8. hdma_hblanks(hdma_hblanks(dma, n), k) = hdma_hblanks(dma, n + k)
      BY <1>t, <3>4, <3>6, HblanksInParts DEF DmaTypes
    <3>9. dmaOrderly /\ lcd => exact = hdma_hblanks(dma', k)
      BY <2>1, <3>6, <3>7, <3>8 DEF DmaInv, DmaAgrees
    <3>10. dmaOrderly /\ ~lcd => exact = dma'
      BY <2>1, FlushKeeps
    <3> QED BY <2>1, <3>2, <3>4, <3>5, <3>9, <3>10 DEF DmaInv, DmaAgrees
  <2> QED BY <2>2, <2>3, FrameFacts
<1> QED BY <1>1, <1>2, <1>3, <1>4, <1>5, <1>6, <1>7, Steps

-----------------------------------------------------------------------------
(* The raster log. *)

\* A set of indices that is not empty has a last one.
LEMMA LastExists ==
    ASSUME NEW n \in Nat, NEW S \in SUBSET (1 .. n), S # {}
    PROVE  \E k \in S : \A j \in S : j <= k
<1> DEFINE T == {d \in 0 .. n - 1 : n - d \in S}
<1>1. T \subseteq Nat /\ T # {}
  <2>1. PICK i \in S : TRUE
    OBVIOUS
  <2>2. n - i \in 0 .. n - 1 /\ n - (n - i) = i
    OBVIOUS
  <2>3. n - i \in T
    BY <2>1, <2>2
  <2>4. T \subseteq Nat
    OBVIOUS
  <2> QED BY <2>3, <2>4
<1>2. \E x \in T : \A y \in T : ~ (<<y, x>> \in OpToRel(<, Nat))
  <2> HIDE DEF T
  <2> QED BY <1>1, NatLessThanWellFounded, WFMin
<1>3. PICK x \in T : \A y \in T : ~ (y < x)
  BY <1>1, <1>2 DEF OpToRel
<1>4. n - x \in S /\ x \in 0 .. n - 1
  BY <1>3
<1>5. ASSUME NEW j \in S PROVE j <= n - x
  <2>1. n - j \in 0 .. n - 1 /\ n - (n - j) = j /\ j \in Int
    BY <1>5
  <2>2. n - j \in T
    BY <2>1
  <2> HIDE DEF T
  <2>3. ~(n - j < x)
    BY <1>3, <2>2
  <2> QED BY <1>4, <2>1, <2>3
<1> QED BY <1>4, <1>5

\* A band that is drawn with nothing logged for it.
LEMMA EmptyLog ==
    ASSUME log = <<>>, ~overflow, NEW l
    PROVE  Band(l) = base
<1>1. Len(log) = 0
  OBVIOUS
<1>2. {k \in 1 .. Len(log) : log[k][1] <= l} = {}
  BY <1>1
<1> QED BY <1>2 DEF Band

\* What a new entry of the log changes: its line and those below.
LEMMA NewEntry ==
    ASSUME RasterTypes, NEW t \in Nat, NEW v \in Values,
           log' = Append(log, <<t, v>>), ~overflow, overflow' = overflow, base' = base,
           NEW l \in Lines
    PROVE  Band(l)' = IF t <= l THEN v ELSE Band(l)
<1> DEFINE n  == Len(log)
           B  == {k \in 1 .. n : log[k][1] <= l}
           B2 == {k \in 1 .. n + 1 : log'[k][1] <= l}
<1>1. n \in Nat /\ Len(log') = n + 1 /\ l \in Int
  BY DEF RasterTypes, Lines
<1>2. log'[n + 1] = <<t, v>> /\ \A k \in 1 .. n : log'[k] = log[k]
  BY DEF RasterTypes
<1>3. Band(l) = IF B = {} THEN base ELSE log[CHOOSE k \in B : \A j \in B : j <= k][2]
  BY DEF Band
<1>4. Band(l)' = IF B2 = {} THEN base ELSE log'[CHOOSE k \in B2 : \A j \in B2 : j <= k][2]
  <2> DEFINE B3 == {k \in 1 .. Len(log') : log'[k][1] <= l}
  <2>1. B3 = B2
    BY <1>1
  <2>2. Band(l)' = IF overflow' THEN reg'
                   ELSE IF B3 = {} THEN base'
                   ELSE log'[CHOOSE k \in B3 : \A j \in B3 : j <= k][2]
    BY Zenon DEF Band
  <2> HIDE DEF B2, B3
  <2> QED BY <2>1, <2>2
<1>5. CASE t <= l
  <2>1. n + 1 \in B2 /\ \A j \in B2 : j <= n + 1
    BY <1>1, <1>2, <1>5
  <2>2. (CHOOSE k \in B2 : \A j \in B2 : j <= k) = n + 1
    <3>1. \A k \in B2 : (\A j \in B2 : j <= k) => k = n + 1
      BY <1>1, <2>1
    <3> HIDE DEF B2
    <3> QED BY <2>1, <3>1
  <2> HIDE DEF B2
  <2> QED BY <1>2, <1>4, <1>5, <2>1, <2>2
<1>6. CASE ~(t <= l)
  <2>1. B2 = B
    <3>1. \A k \in B2 : k \in B
      BY <1>1, <1>2, <1>6
    <3>2. \A k \in B : k \in B2
      BY <1>1, <1>2
    <3> QED BY <3>1, <3>2
  <2>2. CASE B = {}
    <3> HIDE DEF B, B2
    <3> QED BY <1>3, <1>4, <1>6, <2>1, <2>2
  <2>3. CASE B # {}
    <3> DEFINE last1 == CHOOSE k \in B : \A j \in B : j <= k
    <3>1. \E k \in B : \A j \in B : j <= k
      <4>1. B \in SUBSET (1 .. n)
        OBVIOUS
      <4> HIDE DEF B
      <4> QED BY <1>1, <2>3, <4>1, LastExists
    <3>2. last1 \in B
      <4> HIDE DEF B
      <4> QED BY <3>1
    <3>3. log'[last1] = log[last1]
      <4>1. last1 \in 1 .. n
        BY <3>2
      <4> HIDE DEF last1
      <4> QED BY <1>2, <4>1
    <3>4. Band(l) = log[last1][2]
      <4> HIDE DEF B
      <4> QED BY <1>3, <2>3
    <3>5. Band(l)' = log'[last1][2]
      <4> HIDE DEF B, B2
      <4> QED BY <1>4, <2>1, <2>3
    <3> QED BY <1>6, <3>3, <3>4, <3>5
  <2> QED BY <2>2, <2>3
<1> QED BY <1>5, <1>6

\* A write is logged for the first line that has not been shown.
LEMMA TargetLine ==
    ASSUME BeamTypes, lcd, beam < Frame
    PROVE  raster_target_line =
             IF hdma_line_done(beam) = Visible - 1 THEN -1 ELSE hdma_line_done(beam) + 1
<1>1. /\ Ly(beam) \in Nat
      /\ Ly(beam) >= Visible => hdma_line_done(beam) = Visible - 1
      /\ Ly(beam) < Visible =>
            hdma_line_done(beam) = IF Pos(beam) >= Hblank THEN Ly(beam) ELSE Ly(beam) - 1
  BY LineOf DEF BeamTypes
<1>2. Visible \in Nat /\ hdma_line_done(beam) \in -1 .. Visible - 1
  BY LineDone, BeamAssumption DEF BeamTypes
<1> DEFINE line == IF Pos(beam) >= Hblank THEN Ly(beam) + 1 ELSE Ly(beam)
<1>3. raster_target_line = IF line >= Visible THEN -1 ELSE line
  BY DEF raster_target_line
<1>4. CASE Ly(beam) >= Visible
  BY <1>1, <1>2, <1>3, <1>4
<1>5. CASE Ly(beam) < Visible
  BY <1>1, <1>2, <1>3, <1>5
<1> QED BY <1>1, <1>2, <1>4, <1>5

\* The frame starts again.
LEMMA ResetKeeps ==
    ASSUME RasterTypes, raster_frame_reset, reg' = reg, logOrderly' = TRUE
    PROVE  RasterInv'
<1>1. base' = reg /\ log' = <<>> /\ overflow' = FALSE /\ shown' = [l \in Lines |-> reg]
  BY DEF raster_frame_reset, Lines
<1>2. RasterTypes'
  <2>1. shown' \in [Lines -> Values]
    BY <1>1 DEF RasterTypes
  <2>2. log' \in Seq(Nat \X Values)
    BY <1>1
  <2>3. overflow' \in BOOLEAN /\ logOrderly' \in BOOLEAN
    BY <1>1
  <2> QED BY <1>1, <2>1, <2>2, <2>3 DEF RasterTypes
<1>3. ASSUME NEW l \in Lines
      PROVE  Band(l)' = reg' /\ shown'[l] = reg'
  <2>1. {k \in 1 .. Len(log') : log'[k][1] <= l} = {}
    BY <1>1
  <2>2. Band(l)' = base'
    BY <1>1, <2>1 DEF Band
  <2> QED BY <1>1, <2>2
<1> QED BY <1>2, <1>3 DEF RasterInv, RasterAgrees

\* The rest of what the log is made of.
LEMMA UnchangedKeeps ==
    ASSUME RasterInv, UNCHANGED <<lcd, beam, rasterVars>>
    PROVE  RasterInv'
<1>1. UNCHANGED <<lcd, beam, reg, base, log, overflow, shown, logOrderly>>
  BY DEF rasterVars
<1>2. RasterTypes'
  BY <1>1 DEF RasterInv, RasterTypes
<1>3. ASSUME NEW l PROVE Band(l)' = Band(l)
  BY <1>1 DEF Band
<1>4. hdma_line_done(beam)' = hdma_line_done(beam)
  BY <1>1 DEF hdma_line_done
<1> QED BY <1>1, <1>2, <1>3, <1>4 DEF RasterInv, RasterAgrees

LEMMA WriteRegKeeps ==
    ASSUME BeamTypes, RasterInv, NEW v \in Values, WriteReg(v)
    PROVE  RasterInv'
<1> USE DEF BeamTypes
<1> DEFINE done == hdma_line_done(beam)
           line == raster_target_line
<1>1. /\ UNCHANGED <<lcd, beam, base, shown>> /\ reg' = v
      /\ logOrderly' = (logOrderly /\ beam < Frame)
      /\ v # reg => raster_record(v)
      /\ v = reg => UNCHANGED <<log, overflow>>
  BY DEF WriteReg
<1>t. RasterTypes
  BY DEF RasterInv
<1>2. raster_record(v) =>
        \/ line < 0 /\ UNCHANGED <<log, overflow>>
        \/ ~(line < 0) /\ overflow' = TRUE /\ UNCHANGED log
        \/ ~(line < 0) /\ log' = Append(log, <<line, v>>) /\ UNCHANGED overflow
  BY DEF raster_record
<1>3. line \in Int
  <2>1. CASE Ly(beam) \in Int
    BY <2>1, BeamAssumption DEF raster_target_line
  <2>2. Ly(beam) \in Int
    <3>1. CASE beam < Frame
      BY <3>1, LineOf
    <3>2. CASE beam >= Frame
      <4>1. beam - Frame \in Nat /\ beam - Frame < Frame
        BY <3>2, FrameFacts
      <4>2. Ly(beam) = Ly(beam - Frame)
        BY <3>2, <4>1, FrameFacts DEF Ly, InFrame
      <4> QED BY <4>1, <4>2, LineOf
    <3> QED BY <3>1, <3>2, FrameFacts
  <2> QED BY <2>1, <2>2
<1> HIDE DEF line
<1>4. RasterTypes'
  <2>1. logOrderly' \in BOOLEAN
    BY <1>1
  <2>2. log' \in Seq(Nat \X Values) /\ overflow' \in BOOLEAN
    <3>1. CASE ~(line < 0) /\ log' = Append(log, <<line, v>>) /\ UNCHANGED overflow
      <4>1. <<line, v>> \in Nat \X Values
        BY <1>3, <3>1
      <4>2. log' \in Seq(Nat \X Values)
        BY <1>t, <3>1, <4>1 DEF RasterTypes
      <4> QED BY <1>t, <3>1, <4>2 DEF RasterTypes
    <3>2. CASE overflow' = TRUE /\ UNCHANGED log
      BY <1>t, <3>2 DEF RasterTypes
    <3>3. CASE UNCHANGED <<log, overflow>>
      BY <1>t, <3>3 DEF RasterTypes
    <3> QED BY <1>1, <1>2, <3>1, <3>2, <3>3
  <2> QED BY <1>t, <1>1, <2>1, <2>2 DEF RasterTypes
<1>5. ASSUME lcd', logOrderly', ~overflow', NEW l \in Lines
      PROVE  Band(l)' = IF l <= done THEN shown'[l] ELSE reg'
  <2>1. lcd /\ logOrderly /\ beam < Frame
    BY <1>1, <1>5
  <2>2. CASE UNCHANGED <<log, overflow>>
    <3>1. Band(l)' = Band(l)
      BY <1>1, <1>5, <2>2 DEF Band
    <3>2. Band(l) = IF l <= done THEN shown[l] ELSE reg
      BY <1>5, <2>1, <2>2 DEF RasterInv, RasterAgrees
    <3>3. CASE v = reg
      BY <1>1, <3>1, <3>2, <3>3
    <3>4. CASE v # reg
      <4>1. line < 0
        <5>1. \/ line < 0
              \/ overflow' = TRUE
              \/ log' = Append(log, <<line, v>>)
          BY <1>1, <1>2, <3>4
        <5>2. log # Append(log, <<line, v>>)
          <6>1. Len(Append(log, <<line, v>>)) = Len(log) + 1 /\ Len(log) \in Nat
            BY <1>t DEF RasterTypes
          <6> QED BY <6>1
        <5> QED BY <1>5, <2>2, <5>1, <5>2
      <4>2. done = Visible - 1
        <5>1. line = IF done = Visible - 1 THEN -1 ELSE done + 1
          BY <2>1, TargetLine DEF line
        <5>2. done \in -1 .. Visible - 1
          BY LineDone
        <5> QED BY <4>1, <5>1, <5>2
      <4>3. l <= done
        BY <4>2, BeamAssumption DEF Lines
      <4> QED BY <1>1, <3>1, <3>2, <4>3
    <3> QED BY <3>3, <3>4
  <2>3. CASE ~(line < 0) /\ log' = Append(log, <<line, v>>) /\ UNCHANGED overflow
    <3>1. line \in Nat /\ ~overflow
      BY <1>3, <1>5, <2>3
    <3>2. Band(l)' = IF line <= l THEN v ELSE Band(l)
      BY <1>t, <1>1, <2>3, <3>1, NewEntry
    <3>3. Band(l) = IF l <= done THEN shown[l] ELSE reg
      BY <2>1, <3>1 DEF RasterInv, RasterAgrees
    <3>4. done \in Int /\ l \in Int /\ line = done + 1
      <4>1. line = IF done = Visible - 1 THEN -1 ELSE done + 1
        BY <2>1, TargetLine DEF line
      <4>2. done \in Int
        BY LineDone
      <4> QED BY <3>1, <4>1, <4>2 DEF Lines
    <3>5. line <= l <=> ~(l <= done)
      BY <3>4
    <3> QED BY <1>1, <3>2, <3>3, <3>5
  <2> QED BY <1>1, <1>2, <1>5, <2>2, <2>3
<1>6. hdma_line_done(beam)' = done
  BY <1>1 DEF hdma_line_done
<1> QED BY <1>4, <1>5, <1>6 DEF RasterInv, RasterAgrees

LEMMA RasterKept ==
    ASSUME BeamTypes, RasterInv, Next
    PROVE  RasterInv'
<1> USE DEF BeamTypes
<1>t. RasterTypes
  BY DEF RasterInv
<1>1. CASE WriteHdmaAddress
  BY <1>1, UnchangedKeeps DEF WriteHdmaAddress
<1>2. CASE \E n \in Lengths : WriteHdma5(n)
  BY <1>2, UnchangedKeeps DEF WriteHdma5
<1>3. CASE \E v \in Values : WriteReg(v)
  BY <1>3, WriteRegKeeps
<1>4. CASE SwitchLcd
  <2>1. CASE raster_frame_reset /\ logOrderly' = TRUE
    BY <1>t, <1>4, <2>1, ResetKeeps DEF SwitchLcd
  <2>2. CASE UNCHANGED <<base, log, overflow, shown>> /\ ~(~lcd /\ frame # 0)
    <3>1. reg' = reg /\ lcd' = ~lcd /\ logOrderly' = (logOrderly /\ beam < Frame /\ frame # 0)
      BY <1>4, <2>2 DEF SwitchLcd
    <3>2. ~lcd' \/ ~logOrderly'
      BY <2>2, <3>1
    <3>3. logOrderly' \in BOOLEAN
      BY <3>1
    <3>4. RasterTypes'
      BY <1>t, <2>2, <3>1, <3>3 DEF RasterTypes
    <3> QED BY <3>2, <3>4 DEF RasterInv, RasterAgrees
  <2> QED BY <1>4, <2>1, <2>2 DEF SwitchLcd
<1>5. CASE ReadHdma5
  BY <1>5, UnchangedKeeps DEF ReadHdma5
<1>6. CASE Run
  <2> DEFINE crossed == {l \in 0 .. Visible - 1 : beam + 1 = l * Line + Hblank}
  <2>1. /\ beam' = beam + 1 /\ UNCHANGED <<lcd, reg, base, log, overflow, logOrderly>>
        /\ shown' = IF lcd THEN [l \in Lines |-> IF l \in crossed THEN reg ELSE shown[l]]
                    ELSE shown
    BY <1>6 DEF Run, Lines
  <2>2. shown' \in [Lines -> Values]
    BY <1>t, <2>1 DEF RasterTypes
  <2>3. RasterTypes'
    BY <1>t, <2>1, <2>2 DEF RasterTypes
  <2>4. ASSUME lcd, logOrderly, ~overflow, NEW l \in Lines
        PROVE  Band(l)' = IF l <= hdma_line_done(beam') THEN shown'[l] ELSE reg
    <3>1. Band(l)' = Band(l)
      BY <2>1 DEF Band
    <3>2. Band(l) = IF l <= hdma_line_done(beam) THEN shown[l] ELSE reg
      BY <2>4 DEF RasterInv, RasterAgrees
    <3>3. /\ l <= hdma_line_done(beam) <=> (l * Line) + Hblank <= beam
          /\ l <= hdma_line_done(beam') <=> (l * Line) + Hblank <= beam + 1
      BY <2>1, LineDone
    <3>4. (l * Line) + Hblank \in Int
      BY BeamAssumption DEF Lines
    <3>5. shown'[l] = IF beam + 1 = (l * Line) + Hblank THEN reg ELSE shown[l]
      BY <2>1, <2>4 DEF Lines
    <3> QED BY <3>1, <3>2, <3>3, <3>4, <3>5
  <2>5. hdma_line_done(beam)' = hdma_line_done(beam')
    BY DEF hdma_line_done
  <2> QED BY <2>1, <2>3, <2>4, <2>5 DEF RasterInv, RasterAgrees
<1>7. CASE dmg_sync_hw
  <2>1. CASE beam >= Frame
    BY <1>t, <1>7, <2>1, ResetKeeps DEF dmg_sync_hw
  <2>2. CASE ~(beam >= Frame)
    BY <1>7, <2>2, UnchangedKeeps DEF dmg_sync_hw, rasterVars
  <2> QED BY <2>1, <2>2
<1> QED BY <1>1, <1>2, <1>3, <1>4, <1>5, <1>6, <1>7, Steps

-----------------------------------------------------------------------------
(* The theorems. *)

LEMMA InitEstablishes == Init => IInv
<1> SUFFICES ASSUME Init PROVE IInv
  OBVIOUS
<1>1. BeamTypes
  BY FrameFacts, BeamAssumption DEF Init, BeamTypes
<1>2. Idle \in Transfers /\ ~Idle.active
  BY DEF Idle, Transfers
<1>3. DmaTypes
  BY <1>2 DEF Init, DmaTypes
<1>4. Due \in Int
  BY <1>1, <1>3, FirstLineFacts, HblanksFacts DEF Due, BeamTypes, DmaTypes
<1>5. DmaAgrees
  BY <1>2, <1>4, NoHblanks DEF Init, DmaAgrees
<1>6. RasterTypes
  <2>1. shown \in [Lines -> Values]
    BY DEF Init, Lines
  <2>2. log \in Seq(Nat \X Values)
    BY DEF Init
  <2> QED BY <2>1, <2>2 DEF Init, RasterTypes
<1>7. ASSUME NEW l \in Lines PROVE Band(l) = reg /\ shown[l] = reg
  <2>1. Band(l) = base
    BY EmptyLog DEF Init
  <2>2. shown = [k \in Lines |-> reg] /\ base = reg
    BY DEF Init, Lines
  <2> QED BY <2>1, <2>2
<1>8. RasterAgrees
  BY <1>7 DEF RasterAgrees
<1> QED BY <1>1, <1>3, <1>5, <1>6, <1>8 DEF IInv, DmaInv, RasterInv

LEMMA StepKeeps == IInv /\ [Next]_vars => IInv'
<1> SUFFICES ASSUME IInv, [Next]_vars PROVE IInv'
  OBVIOUS
<1>1. CASE Next
  BY <1>1, BeamKept, DmaKept, RasterKept DEF IInv
<1>2. CASE UNCHANGED vars
  <2>1. UNCHANGED <<lcd, beam, rasterVars>>
    BY <1>2 DEF vars, rasterVars
  <2>2. RasterInv'
    BY <2>1, UnchangedKeeps DEF IInv
  <2>3. UNCHANGED <<lcd, frame, beam, rendered, dma, last, exact, dmaOrderly>>
    BY <1>2 DEF vars
  <2>4. BeamTypes'
    BY <2>3 DEF IInv, BeamTypes
  <2>5. DmaInv'
    BY <2>3 DEF IInv, DmaInv, DmaTypes, DmaAgrees, Due, Hblanks, FirstLine
  <2> QED BY <2>2, <2>4, <2>5 DEF IInv
<1> QED BY <1>1, <1>2

\* The invariant holds in every behaviour.
THEOREM InvariantHolds == Spec => []IInv
BY InitEstablishes, StepKeeps, PTL DEF Spec

\* HDMA that dmg.c catches up late (hdma_catch_up, at reads of HDMA5 and at
\* syncs) copies what HDMA at each HBLANK copies, for frames of any size,
\* transfers of any length and dispatches that end up to a line late.
THEOREM TransfersAreExact == Spec => []HdmaCatchesUp
<1>1. IInv => HdmaCatchesUp
  BY AgreesIsCaughtUp DEF IInv
<1> QED BY <1>1, InvariantHolds, PTL

\* A frame that dmg.c draws at once from the raster log (render_frame) shows
\* every line with the value it had when the beam crossed it, for frames and
\* logs of any size.
THEOREM FramesAreExact == Spec => []LinesShowTheirValue
<1>1. IInv => LinesShowTheirValue
  <2> SUFFICES ASSUME IInv, lcd, beam >= Drawn, ~overflow, logOrderly, NEW l \in Lines
               PROVE  Band(l) = shown[l]
    BY DEF LinesShowTheirValue, Lines
  <2>1. hdma_line_done(beam) = Visible - 1
    BY AllDone DEF IInv, BeamTypes
  <2>2. l <= hdma_line_done(beam)
    BY <2>1, BeamAssumption DEF Lines
  <2> QED BY <2>2 DEF IInv, RasterInv, RasterAgrees
<1> QED BY <1>1, InvariantHolds, PTL

============================================================================
