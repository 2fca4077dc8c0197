-------------------------- MODULE AudioQueueProofs --------------------------
(***************************************************************************)
(* Proofs about AudioQueue for every queue size, chunk size and clock      *)
(* bound: the indexes stay in the queue, the stamps stay in order, and     *)
(* emulated time stays within MaxBank of the sound.                        *)
(*                                                                         *)
(* Two facts carry the proofs.  The slots of the queue are distinct from   *)
(* each other and from the one being filled, so the interrupt and the main *)
(* loop never touch the same slot.  And a sync never moves emulated time   *)
(* back: Held is what it will be when the sync in progress is done, and no *)
(* stamp is ever ahead of it.                                              *)
(***************************************************************************)
EXTENDS AudioQueue, WellFoundedInduction, SequenceTheorems, TLAPS

\* Emulated time once the sync in progress has clamped it from above.
Held == IF pc = "snap" /\ seen > MaxBank THEN lead + MaxBank - seen ELSE lead

Stamp(i) == evq[Slot(i)].t

Ordered ==
  \A i \in 1 .. Used :
    /\ Stamp(i) <= Held
    /\ \A j \in 1 .. Used : i < j => Stamp(i) <= Stamp(j)

\* The event stored but not yet published is the latest.
Stored ==
  pc = "publish" =>
    /\ evq[evq_write].t <= lead
    /\ \A i \in 1 .. Used : Stamp(i) <= evq[evq_write].t
    /\ evq[evq_write].reg = write.reg /\ evq[evq_write].val = write.val

Room == pc \in {"store", "publish"} => Used < EvqSize - 1

Clocked ==
  IF pc = "snap" THEN lead <= seen ELSE lead <= MaxBank

Playing ==
  /\ playing = (snd_running \/ pc = "quiet")
  /\ pc \in {"check", "store", "publish", "watch", "revive3", "revive2",
             "revive1", "wait"} => snd_running
  /\ pc = "quiet" => ~snd_running

IInv == TypeOK /\ Ordered /\ Stored /\ Room /\ Clocked /\ Playing

-----------------------------------------------------------------------------
\* The helpers of the ring.

LEMMA UsedBounds ==
  ASSUME evq_read \in Index, evq_write \in Index
  PROVE  Used \in 0 .. EvqSize - 1
BY SizeAssumption DEF Index, Used

LEMMA SlotFacts ==
  ASSUME evq_read \in Index, evq_write \in Index, NEW i \in 1 .. Used
  PROVE  /\ Slot(i) \in Index /\ Slot(i) # evq_write
         /\ \A j \in 1 .. Used : Slot(i) = Slot(j) => i = j
BY SizeAssumption DEF Index, Used, Slot

\* Taking n events leaves the others, renumbered.
LEMMA TakeFacts ==
  ASSUME evq_read \in Index, evq_write \in Index, NEW n \in 0 .. Used,
         evq_read' = ReadAfter(n), evq_write' = evq_write
  PROVE  /\ evq_read' \in Index
         /\ Used' = Used - n
         /\ \A i \in 1 .. Used' : Slot(i)' = Slot(i + n)
<1>1. CASE n = 0
  BY <1>1, SizeAssumption DEF Index, Used, Slot, ReadAfter
<1>2. CASE n > 0
  <2>1. evq_read' = IF evq_read + n < EvqSize THEN evq_read + n
                    ELSE evq_read + n - EvqSize
    BY <1>2, SizeAssumption DEF Index, Used, Slot, ReadAfter, NextIndex
  <2> QED
    BY <1>2, <2>1, SizeAssumption DEF Index, Used, Slot
<1> QED BY <1>1, <1>2

LEMMA UsedIsNotFull ==
  ASSUME evq_read \in Index, evq_write \in Index
  PROVE  Full <=> Used = EvqSize - 1
BY SizeAssumption DEF Index, Used, Full, NextIndex

LEMMA PublishFacts ==
  ASSUME evq_read \in Index, evq_write \in Index, Used < EvqSize - 1,
         evq_write' = NextIndex(evq_write), evq_read' = evq_read
  PROVE  /\ evq_write' \in Index
         /\ Used' = Used + 1
         /\ \A i \in 1 .. Used : Slot(i)' = Slot(i)
         /\ Slot(Used)' = evq_write
<1>1. evq_write' \in Index
  BY SizeAssumption DEF Index, NextIndex
<1>2. Used' = Used + 1
  BY SizeAssumption DEF Index, Used, NextIndex
<1>3. Slot(Used)' = evq_write
  BY SizeAssumption DEF Index, Used, Slot, NextIndex
<1>4. \A i \in 1 .. Used : Slot(i)' = Slot(i)
  BY DEF Slot
<1> QED BY <1>1, <1>2, <1>3, <1>4

-----------------------------------------------------------------------------
(* The interrupt *)

\* gen_samples applies some number of the events that are waiting.
LEMMA AppliedFacts ==
  ASSUME evq_read \in Index, evq_write \in Index, NEW samples
  PROVE  Applied(samples) \in 0 .. Used
<1> DEFINE T == {d \in 0 .. Used : Used - d \in Due(samples)}
<1>1. Used \in Nat
  BY UsedBounds, SizeAssumption
<1>2. 0 \in Due(samples)
  BY <1>1 DEF Due
<1>3. T \subseteq Nat /\ T # {}
  <2>1. Used \in 0 .. Used /\ Used - Used = 0
    BY <1>1
  <2>2. Used \in T
    BY <1>2, <2>1
  <2>3. T \subseteq Nat
    BY <1>1
  <2> HIDE DEF T
  <2> QED BY <2>2, <2>3
<1>4. \E x \in T : \A y \in T : ~ (<<y, x>> \in OpToRel(<, Nat))
  <2> HIDE DEF T
  <2> QED BY <1>3, NatLessThanWellFounded, WFMin
<1>5. PICK x \in T : \A y \in T : ~ (y < x)
  BY <1>3, <1>4 DEF OpToRel
<1>6. Due(samples) \subseteq 0 .. Used
  BY DEF Due
<1>7. \A k \in Due(samples) : k <= Used - x
  <2> SUFFICES ASSUME NEW k \in Due(samples)
               PROVE  k <= Used - x
    OBVIOUS
  <2>1. k \in 0 .. Used
    BY <1>6
  <2>2. Used - k \in 0 .. Used /\ Used - (Used - k) = k
    BY <1>1, <2>1
  <2>3. Used - k \in T
    BY <2>2
  <2>4. x \in 0 .. Used
    BY <1>5
  <2> HIDE DEF T
  <2>5. ~ (Used - k < x)
    BY <1>5, <2>3
  <2> QED BY <1>1, <2>1, <2>4, <2>5
<1>8. Used - x \in Due(samples)
  BY <1>5
<1> QED
  BY <1>6, <1>7, <1>8 DEF Applied

\* Of the first n events that write register r, if there is one, there is a last.
IsLast(i, n, r) ==
  evq[Slot(i)].reg = r /\ \A j \in i + 1 .. n : evq[Slot(j)].reg # r

LEMMA LastExists ==
  ASSUME NEW n \in Nat, NEW r, \E i \in 1 .. n : evq[Slot(i)].reg = r
  PROVE  \E i \in 1 .. n : IsLast(i, n, r)
<1> DEFINE T == {d \in 0 .. n - 1 : evq[Slot(n - d)].reg = r}
<1>1. T \subseteq Nat /\ T # {}
  <2>1. PICK i \in 1 .. n : evq[Slot(i)].reg = r
    OBVIOUS
  <2>2. n - i \in 0 .. n - 1 /\ n - (n - i) = i
    OBVIOUS
  <2>3. n - i \in T
    BY <2>1, <2>2
  <2>4. T \subseteq Nat
    OBVIOUS
  <2> HIDE DEF T
  <2> QED BY <2>3, <2>4
<1>2. \E x \in T : \A y \in T : ~ (<<y, x>> \in OpToRel(<, Nat))
  <2> HIDE DEF T
  <2> QED BY <1>1, NatLessThanWellFounded, WFMin
<1>3. PICK x \in T : \A y \in T : ~ (y < x)
  BY <1>1, <1>2 DEF OpToRel
<1>4. \A j \in n - x + 1 .. n : evq[Slot(j)].reg # r
  <2> SUFFICES ASSUME NEW j \in n - x + 1 .. n, evq[Slot(j)].reg = r
               PROVE  FALSE
    OBVIOUS
  <2>1. n - j \in 0 .. n - 1 /\ n - (n - j) = j /\ n - j < x
    BY <1>3
  <2>2. n - j \in T
    BY <2>1
  <2> QED BY <1>3, <2>1, <2>2
<1> QED
  BY <1>3, <1>4 DEF IsLast

\* The value a register has after some events is the old one or an event's.
LEMMA ValueAfterType ==
  ASSUME TypeOK, NEW n \in 0 .. Used, NEW r \in Reg, NEW old \in Value
  PROVE  ValueAfter(n, r, old) \in Value
<1>1. Used \in Nat /\ n \in Nat
  BY UsedBounds, SizeAssumption DEF TypeOK
<1>2. \A i \in 1 .. n : evq[Slot(i)].val \in Value
  <2> TAKE i \in 1 .. n
  <2>1. i \in 1 .. Used
    BY <1>1
  <2>2. Slot(i) \in Index
    BY <2>1, SlotFacts DEF TypeOK
  <2> QED BY <2>2 DEF TypeOK, Event
<1>3. CASE \E i \in 1 .. n : evq[Slot(i)].reg = r
  <2> DEFINE last == CHOOSE i \in 1 .. n : IsLast(i, n, r)
  <2>1. last \in 1 .. n
    BY <1>1, <1>3, LastExists
  <2>2. ValueAfter(n, r, old) = evq[Slot(last)].val
    BY <1>3 DEF ValueAfter, IsLast
  <2> HIDE DEF last
  <2> QED BY <1>2, <2>1, <2>2
<1>4. CASE ~ \E i \in 1 .. n : evq[Slot(i)].reg = r
  BY <1>4 DEF ValueAfter
<1> QED BY <1>3, <1>4

\* A buffer or chunk is generated while the main loop is anywhere but past a
\* step of its own that touches the queue.
LEMMA GenerateKeeps ==
  ASSUME IInv, NEW samples \in Nat, Generate(samples),
         evq_write' = evq_write, seen' = seen, write' = write,
         pc' = pc \/ (pc # "snap" /\ pc' \notin {"snap", "store", "publish"})
  PROVE  /\ evq' \in [Index -> Event] /\ evq_read' \in Index /\ lead' \in Int
         /\ regs' \in [Reg -> Value] /\ apu' \in [Reg -> Value]
         /\ Ordered' /\ Stored' /\ Room' /\ Clocked'
<1> DEFINE n == IF Silent THEN 0 ELSE Applied(samples)
<1>1. /\ evq_read \in Index /\ evq_write \in Index /\ evq \in [Index -> Event]
      /\ lead \in Int /\ seen \in Int /\ Used \in Nat
  BY UsedBounds, SizeAssumption DEF IInv, TypeOK
<1>2. n \in 0 .. Used
  BY <1>1, AppliedFacts
<1>3. /\ evq_read' = ReadAfter(n)
      /\ evq' = SlotsAfter(n, samples)
      /\ apu' = [r \in Reg |-> ValueAfter(n, r, apu[r])]
      /\ regs' = [r \in Reg |-> ValueAfter(n, r, regs[r])]
      /\ lead' = lead - samples
  BY DEF Generate, HandedOut
<1> HIDE DEF n
<1>4. /\ evq_read' \in Index
      /\ Used' = Used - n
      /\ \A i \in 1 .. Used' : Slot(i)' = Slot(i + n)
  BY <1>1, <1>2, <1>3, TakeFacts
<1>5. evq' \in [Index -> Event]
  <2>1. Unused \in Event
    <3>1. (CHOOSE r \in Reg : TRUE) \in Reg
      BY DEF IInv, TypeOK
    <3> QED BY <3>1, ValueAssumption DEF Unused, Event
  <2>2. \A k \in Index : [evq[k] EXCEPT !.t = @ - samples] \in Event
    BY <1>1 DEF Event
  <2> QED BY <1>1, <1>3, <2>1, <2>2 DEF SlotsAfter
<1>6. regs' \in [Reg -> Value] /\ apu' \in [Reg -> Value]
  BY <1>2, <1>3, ValueAfterType DEF IInv, TypeOK
<1>7. \A i \in 1 .. Used' : Stamp(i)' = Stamp(i + n) - samples /\ i + n \in 1 .. Used
  <2> SUFFICES ASSUME NEW i \in 1 .. Used'
               PROVE  Stamp(i)' = Stamp(i + n) - samples /\ i + n \in 1 .. Used
    OBVIOUS
  <2>1. i + n \in n + 1 .. Used /\ i + n \in 1 .. Used
    BY <1>1, <1>2, <1>4
  <2>2. Slot(i + n) \in Index /\ \A j \in 1 .. Used : Slot(i + n) = Slot(j) => i + n = j
    BY <1>1, <2>1, SlotFacts
  <2>3. Slot(i + n) \notin {Slot(j) : j \in 1 .. n}
    BY <1>1, <1>2, <2>1, <2>2
  <2>4. Slot(i + n) \in {Slot(j) : j \in n + 1 .. Used}
    BY <2>1
  <2>5. evq'[Slot(i + n)] = [evq[Slot(i + n)] EXCEPT !.t = @ - samples]
    BY <1>3, <2>2, <2>3, <2>4 DEF SlotsAfter
  <2>6. evq[Slot(i + n)] \in Event
    BY <1>1, <2>2
  <2>7. Slot(i)' = Slot(i + n)
    BY <1>4
  <2> QED BY <2>1, <2>5, <2>6, <2>7 DEF Stamp, Event
<1>8. \A i \in 1 .. Used : Stamp(i) \in Int
  BY <1>1, SlotFacts DEF Stamp, Event
<1>9. Held' = Held - samples /\ Held \in Int
  BY <1>1, <1>3, SizeAssumption DEF Held
<1>10. Ordered'
  <2>1. \A i \in 1 .. Used' :
          /\ Stamp(i)' <= Held'
          /\ \A j \in 1 .. Used' : i < j => Stamp(i)' <= Stamp(j)'
    BY <1>1, <1>2, <1>4, <1>7, <1>8, <1>9 DEF IInv, Ordered
  <2> QED BY <2>1 DEF Ordered
<1>11. Stored'
  <2> SUFFICES ASSUME pc' = "publish"
               PROVE  /\ (evq[evq_write].t <= lead)'
                      /\ \A i \in 1 .. Used' : Stamp(i)' <= (evq[evq_write].t)'
                      /\ (evq[evq_write].reg)' = write'.reg
                      /\ (evq[evq_write].val)' = write'.val
    BY DEF Stored
  <2>1. pc = "publish"
    OBVIOUS
  <2>2. evq_write \notin {Slot(j) : j \in 1 .. n}
    BY <1>1, <1>2, SlotFacts
  <2>3. evq'[evq_write] = [evq[evq_write] EXCEPT !.t = @ - samples]
    BY <1>1, <1>3, <2>1, <2>2 DEF SlotsAfter
  <2>4. evq[evq_write] \in Event
    BY <1>1
  <2>5. /\ evq'[evq_write].t = evq[evq_write].t - samples
        /\ evq[evq_write].t \in Int
        /\ evq'[evq_write].reg = evq[evq_write].reg
        /\ evq'[evq_write].val = evq[evq_write].val
    BY <2>3, <2>4 DEF Event
  <2>6. /\ evq[evq_write].t <= lead
        /\ \A i \in 1 .. Used : Stamp(i) <= evq[evq_write].t
        /\ evq[evq_write].reg = write.reg /\ evq[evq_write].val = write.val
    BY <2>1 DEF IInv, Stored
  <2> QED BY <1>1, <1>3, <1>7, <1>8, <2>5, <2>6
<1>12. Room'
  BY <1>1, <1>2, <1>4, SizeAssumption DEF IInv, Room
<1>13. Clocked'
  BY <1>1, <1>3, SizeAssumption DEF IInv, Clocked
<1> QED
  BY <1>1, <1>3, <1>4, <1>5, <1>6, <1>10, <1>11, <1>12, <1>13

-----------------------------------------------------------------------------
(* The main loop *)

\* A step that leaves the queue alone, and neither moves the clock nor enters
\* or leaves a sync, keeps what relates the three.
LEMMA QueueKept ==
  ASSUME IInv, UNCHANGED <<lead, queue, seen>>,
         pc # "snap", pc' # "snap", pc' # "publish"
  PROVE  Ordered' /\ Stored' /\ Clocked'
<1>1. Used' = Used /\ \A i \in 1 .. Used : Stamp(i)' = Stamp(i)
  BY DEF queue, Used, Stamp, Slot
<1>2. Held' = Held
  BY DEF Held
<1>3. Ordered'
  BY <1>1, <1>2 DEF IInv, Ordered
<1> QED BY <1>3 DEF IInv, Stored, Clocked

LEMMA InitHolds == Init => IInv
<1> SUFFICES ASSUME Init PROVE IInv
  OBVIOUS
<1>1. /\ evq_read = 0 /\ evq_write = 0 /\ lead = 0 /\ pc = "idle"
      /\ snd_running = FALSE /\ playing = FALSE
  BY DEF Init
<1>2. Used = 0
  BY <1>1 DEF Used
<1>3. TypeOK
  <2>1. Unused \in Event
    BY SizeAssumption, ValueAssumption DEF Unused, Event
  <2>2. NoWrite \in [reg : Reg, val : Value]
    BY ValueAssumption DEF NoWrite
  <2>3. 0 \in Index
    BY SizeAssumption DEF Index
  <2>4. regs \in [Reg -> Value] /\ apu \in [Reg -> Value]
    BY ValueAssumption DEF Init
  <2>5. evq \in [Index -> Event] /\ evq_read \in Index /\ evq_write \in Index
    BY <2>1, <2>3 DEF Init
  <2>6. lead \in Int /\ seen \in Int /\ write \in [reg : Reg, val : Value]
    BY <2>2 DEF Init
  <2> QED BY <1>1, <2>4, <2>5, <2>6 DEF Init, TypeOK
<1>4. Ordered
  BY <1>2 DEF Ordered
<1>5. Stored /\ Room /\ Clocked
  BY <1>1, SizeAssumption DEF Stored, Room, Clocked
<1>6. Playing
  BY <1>1 DEF Playing
<1> QED BY <1>3, <1>4, <1>5, <1>6 DEF IInv

LEMMA InterruptKeeps == IInv /\ Interrupt => IInv'
<1> SUFFICES ASSUME IInv, Interrupt PROVE IInv'
  OBVIOUS
<1>1. BufferSamples \in Nat /\ AscChunk \in Nat
  BY SizeAssumption
<1>2. UNCHANGED <<sound, evq_write, main>> /\ pushed' \in BOOLEAN
  BY DEF Interrupt, DoubleBackProc, asc_vec_handler, IInv, TypeOK
<1>3. \E samples \in Nat : Generate(samples)
  BY <1>1 DEF Interrupt, DoubleBackProc, asc_vec_handler
<1>4. PICK samples \in Nat : Generate(samples)
  BY <1>3
<1>5. /\ evq' \in [Index -> Event] /\ evq_read' \in Index /\ lead' \in Int
      /\ regs' \in [Reg -> Value] /\ apu' \in [Reg -> Value]
      /\ Ordered' /\ Stored' /\ Room' /\ Clocked'
  BY <1>2, <1>4, GenerateKeeps DEF main
<1>6. TypeOK'
  BY <1>2, <1>5 DEF IInv, TypeOK, sound, main
<1>7. Playing'
  BY <1>2 DEF IInv, Playing, sound, main
<1> QED BY <1>5, <1>6, <1>7 DEF IInv

LEMMA ReviveKeeps ==
  ASSUME IInv, NEW here \in {"revive3", "revive2", "revive1"},
         NEW next \in {"revive2", "revive1", "idle"}, Revive(here, next)
  PROVE  IInv'
<1>1. /\ pc = here /\ pc' = next /\ pushed' \in BOOLEAN
      /\ UNCHANGED <<sound, evq_write, seen, write>>
  BY DEF Revive
<1>2. pc # "snap" /\ pc' \notin {"snap", "store", "publish"}
  BY <1>1
<1>3. AscChunk \in Nat /\ Generate(AscChunk)
  BY SizeAssumption DEF Revive
<1>4. /\ evq' \in [Index -> Event] /\ evq_read' \in Index /\ lead' \in Int
      /\ regs' \in [Reg -> Value] /\ apu' \in [Reg -> Value]
      /\ Ordered' /\ Stored' /\ Room' /\ Clocked'
  BY <1>1, <1>2, <1>3, GenerateKeeps
<1>5. TypeOK'
  BY <1>1, <1>4 DEF IInv, TypeOK, sound
<1>6. Playing'
  BY <1>1 DEF IInv, Playing, sound
<1> QED BY <1>4, <1>5, <1>6 DEF IInv

\* The three steps of a queued write.
LEMMA CheckFullKeeps == IInv /\ CheckFull => IInv'
<1> SUFFICES ASSUME IInv, CheckFull PROVE IInv'
  OBVIOUS
<1>1. /\ pc = "check" /\ pc' = IF Full THEN "direct" ELSE "store"
      /\ UNCHANGED <<sound, lead, queue, chip, pushed, seen, write>>
  BY DEF CheckFull
<1>2. Ordered' /\ Stored' /\ Clocked'
  BY <1>1, QueueKept
<1>3. Room'
  <2>1. Used' = Used /\ Used \in 0 .. EvqSize - 1 /\ (Full <=> Used = EvqSize - 1)
    BY <1>1, UsedBounds, UsedIsNotFull DEF queue, Used, IInv, TypeOK
  <2> QED BY <1>1, <2>1, SizeAssumption DEF Room
<1>4. TypeOK'
  BY <1>1 DEF IInv, TypeOK, sound, queue, chip
<1>5. Playing'
  BY <1>1 DEF IInv, Playing, sound
<1> QED BY <1>2, <1>3, <1>4, <1>5 DEF IInv

LEMMA StoreKeeps == IInv /\ StoreEvent => IInv'
<1> SUFFICES ASSUME IInv, StoreEvent PROVE IInv'
  OBVIOUS
<1> DEFINE e == [t |-> lead, reg |-> write.reg, val |-> write.val]
<1>1. /\ pc = "store" /\ pc' = "publish"
      /\ evq' = [evq EXCEPT ![evq_write] = e]
      /\ UNCHANGED <<sound, lead, evq_read, evq_write, chip, pushed, seen, write>>
  BY DEF StoreEvent
<1>2. /\ evq_read \in Index /\ evq_write \in Index /\ evq \in [Index -> Event]
      /\ lead \in Int /\ write \in [reg : Reg, val : Value]
  BY DEF IInv, TypeOK
<1>3. e \in Event
  BY <1>2 DEF Event
<1>4. Used' = Used /\ \A i \in 1 .. Used : Slot(i)' = Slot(i)
  BY <1>1 DEF Used, Slot
<1>5. \A i \in 1 .. Used : Stamp(i)' = Stamp(i)
  BY <1>1, <1>2, <1>4, SlotFacts DEF Stamp
<1>6. Held' = lead /\ Held = lead
  BY <1>1 DEF Held
<1>7. evq'[evq_write] = e
  BY <1>1, <1>2
<1>8. Ordered'
  BY <1>4, <1>5, <1>6 DEF IInv, Ordered
<1>9. Stored'
  BY <1>1, <1>2, <1>4, <1>5, <1>6, <1>7 DEF IInv, Stored, Ordered
<1>10. Room' /\ Clocked'
  BY <1>1, <1>4 DEF IInv, Room, Clocked
<1>11. TypeOK'
  <2>1. evq' \in [Index -> Event]
    BY <1>1, <1>2, <1>3
  <2> QED BY <1>1, <2>1 DEF IInv, TypeOK, sound, chip
<1>12. Playing'
  BY <1>1 DEF IInv, Playing, sound
<1> QED BY <1>8, <1>9, <1>10, <1>11, <1>12 DEF IInv

LEMMA PublishKeeps == IInv /\ PublishEvent => IInv'
<1> SUFFICES ASSUME IInv, PublishEvent PROVE IInv'
  OBVIOUS
<1>1. /\ pc = "publish" /\ pc' = "idle" /\ write' = NoWrite
      /\ evq_write' = NextIndex(evq_write)
      /\ UNCHANGED <<sound, lead, evq, evq_read, chip, pushed, seen>>
  BY DEF PublishEvent
<1>2. /\ evq_read \in Index /\ evq_write \in Index /\ evq \in [Index -> Event]
      /\ lead \in Int /\ Used < EvqSize - 1 /\ Used \in Nat
  BY <1>1, UsedBounds DEF IInv, TypeOK, Room
<1>3. /\ evq_write' \in Index
      /\ Used' = Used + 1
      /\ \A i \in 1 .. Used : Slot(i)' = Slot(i)
      /\ Slot(Used)' = evq_write
  BY <1>1, <1>2, PublishFacts
<1>4. \A i \in 1 .. Used : Stamp(i)' = Stamp(i) /\ Stamp(i) \in Int
  BY <1>1, <1>2, <1>3, SlotFacts DEF Stamp, Event
<1>5. Stamp(Used)' = evq[evq_write].t /\ evq[evq_write].t \in Int
  BY <1>1, <1>2, <1>3 DEF Stamp, Event
<1>6. Held' = lead /\ Held = lead
  BY <1>1 DEF Held
<1>7. Ordered'
  <2>1. \A i \in 1 .. Used' : i \in 1 .. Used \/ i = Used'
    BY <1>2, <1>3
  <2>2. /\ evq[evq_write].t <= lead
        /\ \A i \in 1 .. Used : Stamp(i) <= evq[evq_write].t
    BY <1>1 DEF IInv, Stored
  <2>3. \A i \in 1 .. Used :
          Stamp(i) <= lead /\ \A j \in 1 .. Used : i < j => Stamp(i) <= Stamp(j)
    BY <1>6 DEF IInv, Ordered
  <2>4. \A i \in 1 .. Used' : Stamp(i)' <= Held'
    BY <1>3, <1>4, <1>5, <1>6, <2>1, <2>2, <2>3
  <2>5. \A i, j \in 1 .. Used' : i < j => Stamp(i)' <= Stamp(j)'
    BY <1>2, <1>3, <1>4, <1>5, <2>1, <2>2, <2>3
  <2> QED BY <2>4, <2>5 DEF Ordered
<1>8. Stored' /\ Room' /\ Clocked'
  BY <1>1 DEF IInv, Stored, Room, Clocked
<1>9. TypeOK'
  <2>1. NoWrite \in [reg : Reg, val : Value]
    BY ValueAssumption DEF NoWrite, IInv, TypeOK
  <2> QED BY <1>1, <1>3, <2>1 DEF IInv, TypeOK, sound, chip
<1>10. Playing'
  BY <1>1 DEF IInv, Playing, sound
<1> QED BY <1>7, <1>8, <1>9, <1>10 DEF IInv

\* The two steps of a sync.
LEMMA SyncKeeps ==
  ASSUME IInv, NEW samples \in Advances, audio_mac_sync(samples)
  PROVE  IInv'
<1>1. /\ pc = "idle" /\ pc' = "snap"
      /\ lead' = lead + samples /\ seen' = lead'
      /\ UNCHANGED <<sound, queue, chip, pushed, write>>
  BY DEF audio_mac_sync
<1>2. samples \in Nat /\ lead \in Int /\ lead <= MaxBank /\ MaxBank \in Nat
  BY <1>1, SizeAssumption DEF IInv, TypeOK, Clocked
<1>3. Used' = Used /\ \A i \in 1 .. Used : Stamp(i)' = Stamp(i)
  BY <1>1 DEF queue, Used, Stamp, Slot
<1>4. Held = lead /\ Held' \in Int /\ Held <= Held'
  BY <1>1, <1>2 DEF Held
<1>5. \A i \in 1 .. Used : Stamp(i) \in Int
  BY SlotFacts DEF IInv, TypeOK, Stamp, Event
<1>6. Ordered'
  BY <1>2, <1>3, <1>4, <1>5 DEF IInv, Ordered
<1>7. Stored' /\ Room' /\ Clocked'
  BY <1>1, <1>2 DEF Stored, Room, Clocked
<1>8. TypeOK'
  BY <1>1, <1>2 DEF IInv, TypeOK, sound, queue, chip
<1>9. Playing'
  BY <1>1 DEF IInv, Playing, sound
<1> QED BY <1>6, <1>7, <1>8, <1>9 DEF IInv

LEMMA SnapKeeps == IInv /\ Snap => IInv'
<1> SUFFICES ASSUME IInv, Snap PROVE IInv'
  OBVIOUS
<1>1. /\ pc = "snap" /\ pc' = IF use_direct /\ snd_running THEN "watch" ELSE "idle"
      /\ lead' = lead + Snapped(seen) - seen /\ seen' = 0
      /\ UNCHANGED <<sound, queue, chip, pushed, write>>
  BY DEF Snap
<1>2. lead \in Int /\ seen \in Int /\ lead <= seen /\ MaxBank \in Nat
  BY <1>1, SizeAssumption DEF IInv, TypeOK, Clocked
<1>3. Used' = Used /\ \A i \in 1 .. Used : Stamp(i)' = Stamp(i)
  BY <1>1 DEF queue, Used, Stamp, Slot
<1>4. lead' \in Int /\ lead' <= MaxBank /\ Held \in Int /\ Held <= lead'
  BY <1>1, <1>2 DEF Held, Snapped
<1>5. Held' = lead'
  BY <1>1 DEF Held
<1>6. \A i \in 1 .. Used : Stamp(i) \in Int
  BY SlotFacts DEF IInv, TypeOK, Stamp, Event
<1>7. Ordered'
  BY <1>3, <1>4, <1>5, <1>6 DEF IInv, Ordered
<1>8. Stored' /\ Room' /\ Clocked'
  BY <1>1, <1>4 DEF Stored, Room, Clocked
<1>9. TypeOK'
  BY <1>1, <1>4 DEF IInv, TypeOK, sound, queue, chip
<1>10. Playing'
  BY <1>1 DEF IInv, Playing, sound
<1> QED BY <1>7, <1>8, <1>9, <1>10 DEF IInv

LEMMA StartKeeps == IInv /\ audio_mac_start => IInv'
<1> SUFFICES ASSUME IInv, audio_mac_start PROVE IInv'
  OBVIOUS
<1>1. /\ pc = "idle" /\ snd_running' = TRUE /\ playing' = TRUE
      /\ lead' = IF use_direct THEN - 3 * AscChunk ELSE 0
      /\ evq_read' = 0 /\ evq_write' = 0
      /\ evq' = [k \in Index |-> Unused] /\ pushed' = use_direct
      /\ UNCHANGED <<use_direct, chip, main>>
  BY DEF audio_mac_start
<1>2. Used' = 0
  BY <1>1 DEF Used
<1>3. lead' \in Int /\ lead' <= MaxBank
  BY <1>1, SizeAssumption
<1>4. Ordered'
  BY <1>2 DEF Ordered
<1>5. Stored' /\ Room' /\ Clocked'
  BY <1>1, <1>3 DEF main, Stored, Room, Clocked
<1>6. TypeOK'
  <2>1. evq' \in [Index -> Event]
    <3>1. Unused \in Event
      BY ValueAssumption DEF Unused, Event, IInv, TypeOK
    <3> QED BY <1>1, <3>1
  <2>2. 0 \in Index
    BY SizeAssumption DEF Index
  <2> QED BY <1>1, <1>3, <2>1, <2>2 DEF IInv, TypeOK, main, chip
<1>7. Playing'
  BY <1>1 DEF Playing, main
<1> QED BY <1>4, <1>5, <1>6, <1>7 DEF IInv

\* Everything else leaves the queue and the clock alone.
LEMMA OthersKeep ==
  ASSUME IInv,
         \/ \E w \in [reg : Reg, val : Value] : audio_mac_write(w)
         \/ DirectByte \/ DirectEffect
         \/ \E elapsed \in BOOLEAN : asc_watchdog(elapsed)
         \/ BeginWait \/ EndWait \/ audio_mac_stop \/ Quiet
  PROVE  IInv'
<1>1. /\ UNCHANGED <<lead, queue, seen>>
      /\ pc # "snap" /\ pc' \notin {"snap", "store", "publish"}
  BY DEF audio_mac_write, DirectByte, DirectEffect, asc_watchdog, BeginWait,
         EndWait, audio_mac_stop, Quiet
<1>2. Ordered' /\ Stored' /\ Clocked'
  BY <1>1, QueueKept
<1>3. Room'
  BY <1>1 DEF Room
<1>4. Playing'
  BY DEF audio_mac_write, DirectByte, DirectEffect, asc_watchdog, BeginWait,
         EndWait, audio_mac_stop, Quiet, IInv, Playing, TypeOK, sound
<1>5. TypeOK'
  <2>1. CASE \E w \in [reg : Reg, val : Value] : audio_mac_write(w)
    BY <2>1 DEF audio_mac_write, IInv, TypeOK, sound, queue
  <2>2. CASE DirectByte
    BY <2>2 DEF DirectByte, IInv, TypeOK, sound, queue
  <2>3. CASE DirectEffect
    <3>1. NoWrite \in [reg : Reg, val : Value]
      BY ValueAssumption DEF NoWrite, IInv, TypeOK
    <3> QED BY <2>3, <3>1 DEF DirectEffect, IInv, TypeOK, sound, queue
  <2>4. CASE \E elapsed \in BOOLEAN : asc_watchdog(elapsed)
    BY <2>4 DEF asc_watchdog, IInv, TypeOK, sound, queue, chip
  <2>5. CASE BeginWait
    BY <2>5 DEF BeginWait, IInv, TypeOK, sound, queue, chip
  <2>6. CASE EndWait
    BY <2>6 DEF EndWait, IInv, TypeOK, sound, queue, chip
  <2>7. CASE audio_mac_stop
    BY <2>7 DEF audio_mac_stop, IInv, TypeOK, queue, chip
  <2>8. CASE Quiet
    BY <2>8 DEF Quiet, IInv, TypeOK, queue, chip
  <2> QED BY <2>1, <2>2, <2>3, <2>4, <2>5, <2>6, <2>7, <2>8
<1> QED BY <1>2, <1>3, <1>4, <1>5 DEF IInv

LEMMA StepHolds == IInv /\ [Next]_vars => IInv'
<1> SUFFICES ASSUME IInv, [Next]_vars PROVE IInv'
  OBVIOUS
<1>1. CASE Interrupt
  BY <1>1, InterruptKeeps
<1>2. CASE Continue
  BY <1>2, CheckFullKeeps, StoreKeeps, PublishKeeps, SnapKeeps, ReviveKeeps,
     OthersKeep DEF Continue
<1>3. CASE Begin
  BY <1>3, SyncKeeps, StartKeeps, OthersKeep DEF Begin
<1>4. CASE UNCHANGED vars
  BY <1>4 DEF vars, sound, queue, chip, main, IInv, TypeOK, Ordered, Stored,
     Room, Clocked, Playing, Used, Stamp, Slot, Held
<1> QED BY <1>1, <1>2, <1>3, <1>4 DEF Next

-----------------------------------------------------------------------------
(* The theorems *)

\* The strengthened invariant, for every size of the queue, of the buffers and
\* of the bounds on the clock.
THEOREM InvariantHolds == Spec => []IInv
BY InitHolds, StepHolds, PTL DEF Spec

\* The indexes stay in the queue and every slot holds an event: system6/
\* audio_mac.c masks what it increments, and neither side takes a slot that
\* the other is using.
THEOREM TypesHold == Spec => []TypeOK
<1>1. IInv => TypeOK
  BY DEF IInv
<1> QED BY <1>1, InvariantHolds, PTL

\* What gen_samples relies on to apply each write at its sample: the queue is
\* in order of time and none of it is ahead of emulated time, although the
\* interrupt moves the sound's clock between any two steps of a sync.
THEOREM StampsStayOrdered == Spec => []StampsOrdered
<1>1. IInv => StampsOrdered
  <2> SUFFICES ASSUME IInv PROVE StampsOrdered
    OBVIOUS
  <2>1. lead \in Int /\ Held \in Int /\ Held <= lead
    BY SizeAssumption DEF IInv, TypeOK, Held
  <2>2. \A i \in 1 .. Used : Stamp(i) \in Int
    BY SlotFacts DEF IInv, TypeOK, Stamp, Event
  <2> QED BY <2>1, <2>2 DEF IInv, Ordered, StampsOrdered, Stamp
<1> QED BY <1>1, InvariantHolds, PTL

\* Outside a sync emulated time is at most MaxBank samples ahead of the sound.
THEOREM LeadStaysBounded == Spec => []LeadBounded
<1>1. IInv => LeadBounded
  BY DEF IInv, Clocked, LeadBounded
<1> QED BY <1>1, InvariantHolds, PTL

-----------------------------------------------------------------------------
(* The queue implements AudioWrites *)

Late == IF pc \in {"direct", "effect"} THEN {write} ELSE {}
RegWrite == [reg : Reg, val : Value]

\* Pending is a sequence of writes, one for each event of the queue.
PendingOK ==
  /\ Pending \in Seq(RegWrite) /\ Len(Pending) = Used /\ Used \in Nat
  /\ \A i \in 1 .. Used :
       /\ Pending[i] = [reg |-> evq[Slot(i)].reg, val |-> evq[Slot(i)].val]
       /\ Pending[i] \in RegWrite

LEMMA PendingFacts == TypeOK => PendingOK
<1> SUFFICES ASSUME TypeOK PROVE PendingOK
  OBVIOUS
<1>1. Used \in Nat
  BY UsedBounds, SizeAssumption DEF TypeOK
<1>2. \A i \in 1 .. Used : evq[Slot(i)] \in Event
  BY SlotFacts DEF TypeOK
<1>3. \A i \in 1 .. Used :
        [reg |-> evq[Slot(i)].reg, val |-> evq[Slot(i)].val] \in RegWrite
  BY <1>2 DEF Event, RegWrite
<1>4. Pending \in [1 .. Used -> RegWrite]
  BY <1>3 DEF Pending
<1>5. Pending \in Seq(RegWrite)
  BY <1>1, <1>4, SeqDef
<1>6. Len(Pending) = Used
  BY <1>1, <1>4, <1>5, LenProperties
<1> QED BY <1>1, <1>3, <1>5, <1>6 DEF Pending, PendingOK

\* Steps that do not touch the queue leave what it stands for alone.
LEMMA PendingKept ==
  ASSUME UNCHANGED queue
  PROVE  Pending' = Pending
BY DEF queue, Pending, Used, Slot

\* Generating samples takes the first n writes, or changes nothing.
LEMMA GenerateImplements ==
  ASSUME IInv, IInv', NEW samples \in Nat, Generate(samples), playing,
         evq_write' = evq_write, playing' = playing, Late' = Late
  PROVE  [Writes!Next]_(Writes!vars)
<1> DEFINE n == IF Silent THEN 0 ELSE Applied(samples)
<1>1. /\ evq_read \in Index /\ evq_write \in Index /\ evq \in [Index -> Event]
      /\ lead \in Int /\ apu \in [Reg -> Value]
      /\ Used \in Nat /\ TypeOK /\ TypeOK'
  BY UsedBounds, SizeAssumption DEF IInv, TypeOK
<1>2. n \in 0 .. Used
  BY <1>1, AppliedFacts
<1>3. /\ evq_read' = ReadAfter(n)
      /\ evq' = SlotsAfter(n, samples)
      /\ apu' = [r \in Reg |-> ValueAfter(n, r, apu[r])]
  BY DEF Generate, HandedOut
<1> HIDE DEF n
<1>4. /\ Used' = Used - n
      /\ \A i \in 1 .. Used' : Slot(i)' = Slot(i + n)
  BY <1>1, <1>2, <1>3, TakeFacts
<1>5. \A i \in 1 .. Used' :
        /\ i + n \in 1 .. Used
        /\ (evq[Slot(i)])' = [evq[Slot(i + n)] EXCEPT !.t = @ - samples]
  <2> SUFFICES ASSUME NEW i \in 1 .. Used'
               PROVE  /\ i + n \in 1 .. Used
                      /\ (evq[Slot(i)])' = [evq[Slot(i + n)] EXCEPT !.t = @ - samples]
    OBVIOUS
  <2>1. i + n \in n + 1 .. Used /\ i + n \in 1 .. Used
    BY <1>1, <1>2, <1>4
  <2>2. Slot(i + n) \in Index /\ \A j \in 1 .. Used : Slot(i + n) = Slot(j) => i + n = j
    BY <1>1, <2>1, SlotFacts
  <2>3. Slot(i + n) \notin {Slot(j) : j \in 1 .. n}
    BY <1>1, <1>2, <2>1, <2>2
  <2>4. Slot(i + n) \in {Slot(j) : j \in n + 1 .. Used}
    BY <2>1
  <2>5. evq'[Slot(i + n)] = [evq[Slot(i + n)] EXCEPT !.t = @ - samples]
    BY <1>3, <2>2, <2>3, <2>4 DEF SlotsAfter
  <2>6. Slot(i)' = Slot(i + n)
    BY <1>4
  <2> QED BY <2>1, <2>5, <2>6
<1>6. \A i \in 1 .. Used' : (Pending[i])' = Pending[i + n]
  <2> SUFFICES ASSUME NEW i \in 1 .. Used'
               PROVE  (Pending[i])' = Pending[i + n]
    OBVIOUS
  <2>1. i + n \in 1 .. Used /\ evq[Slot(i + n)] \in Event
    BY <1>1, <1>5, SlotFacts
  <2>2. (Pending[i])' = [reg |-> (evq[Slot(i)])'.reg, val |-> (evq[Slot(i)])'.val]
    BY DEF Pending
  <2>3. Pending[i + n] = [reg |-> evq[Slot(i + n)].reg, val |-> evq[Slot(i + n)].val]
    BY <2>1 DEF Pending
  <2>4. /\ (evq[Slot(i)])'.reg = evq[Slot(i + n)].reg
        /\ (evq[Slot(i)])'.val = evq[Slot(i + n)].val
    BY <1>5, <2>1 DEF Event
  <2> QED BY <2>2, <2>3, <2>4
<1>7. PendingOK /\ PendingOK'
  <2>1. TypeOK' => PendingOK'
    BY PendingFacts, PTL
  <2> QED BY <1>1, <2>1, PendingFacts
<1>8. \A r \in Reg : ValueAfter(n, r, apu[r]) = Writes!After(apu, Pending, n)[r]
  <2> SUFFICES ASSUME NEW r \in Reg
               PROVE  ValueAfter(n, r, apu[r]) = Writes!After(apu, Pending, n)[r]
    OBVIOUS
  <2>1. \A i \in 1 .. n :
          Pending[i].reg = evq[Slot(i)].reg /\ Pending[i].val = evq[Slot(i)].val
    BY <1>1, <1>2, <1>7 DEF PendingOK
  <2>2. \A i \in 1 .. n : i + 1 .. n \subseteq 1 .. n
    BY <1>1, <1>2
  <2> DEFINE PLast(i) == Pending[i].reg = r /\ \A j \in i + 1 .. n : Pending[j].reg # r
  <2>3. \A i \in 1 .. n : IsLast(i, n, r) <=> PLast(i)
    BY <2>1, <2>2 DEF IsLast
  <2>4. (CHOOSE i \in 1 .. n : IsLast(i, n, r)) = (CHOOSE i \in 1 .. n : PLast(i))
    BY <2>3
  <2>5. CASE \E i \in 1 .. n : evq[Slot(i)].reg = r
    <3> DEFINE last == CHOOSE i \in 1 .. n : IsLast(i, n, r)
    <3>1. last \in 1 .. n
      <4>1. n \in Nat
        BY <1>1, <1>2
      <4>2. \E i \in 1 .. n : IsLast(i, n, r)
        BY <2>5, <4>1, LastExists
      <4> QED BY <4>2
    <3>2. ValueAfter(n, r, apu[r]) = evq[Slot(last)].val
      BY <2>5 DEF ValueAfter, IsLast
    <3>3. Writes!After(apu, Pending, n)[r] = Pending[last].val
      <4>1. \E i \in 1 .. n : Pending[i].reg = r
        BY <2>1, <2>5
      <4>2. Writes!After(apu, Pending, n)[r] = Pending[CHOOSE i \in 1 .. n : PLast(i)].val
        BY <4>1 DEF Writes!After
      <4> QED BY <2>4, <4>2
    <3> HIDE DEF last
    <3> QED BY <2>1, <3>1, <3>2, <3>3
  <2>6. CASE ~ \E i \in 1 .. n : evq[Slot(i)].reg = r
    BY <2>1, <2>6 DEF ValueAfter, Writes!After
  <2> QED BY <2>5, <2>6
<1>9. apu' = Writes!After(apu, Pending, n)
  BY <1>3, <1>8 DEF Writes!After
<1>10. CASE n = 0
  <2>1. Pending' = Pending
    <3>1. Len(Pending') = Len(Pending) /\ \A i \in 1 .. Len(Pending') : Pending'[i] = Pending[i]
      BY <1>1, <1>4, <1>6, <1>7, <1>10 DEF PendingOK
    <3> QED BY <1>7, <3>1, SeqEqual DEF PendingOK
  <2>2. apu' = apu
    BY <1>1, <1>3, <1>10 DEF ValueAfter
  <2> QED BY <2>1, <2>2 DEF Writes!vars, Late
<1>11. CASE n # 0
  <2>1. n \in 1 .. Len(Pending)
    BY <1>2, <1>7, <1>11 DEF PendingOK
  <2>2. Pending' = SubSeq(Pending, n + 1, Len(Pending))
    <3> DEFINE rest == SubSeq(Pending, n + 1, Len(Pending))
    <3>1. \A i \in n + 1 .. Len(Pending) : Pending[i] \in RegWrite
      BY <1>1, <1>2, <1>7 DEF PendingOK
    <3>2. n + 1 \in Int /\ Len(Pending) \in Int
      BY <1>1, <1>2, <1>7 DEF PendingOK
    <3>3. /\ rest \in Seq(RegWrite)
          /\ Len(rest) = IF n + 1 <= Len(Pending) THEN Len(Pending) - (n + 1) + 1 ELSE 0
          /\ \A i \in 1 .. Len(Pending) - (n + 1) + 1 : rest[i] = Pending[n + 1 + i - 1]
      BY <3>1, <3>2, SubSeqProperties
    <3> HIDE DEF rest
    <3>4. Len(rest) = Len(Pending') /\ \A i \in 1 .. Len(Pending') : Pending'[i] = rest[i]
      <4>1. Len(rest) = Len(Pending') /\ Len(Pending') = Used' /\ Used' \in Nat
        BY <1>1, <1>2, <1>4, <1>7, <3>3 DEF PendingOK
      <4>2. \A i \in 1 .. Used' : i \in 1 .. Used - n /\ n + 1 + i - 1 = i + n
        BY <1>1, <1>2, <1>4
      <4>3. Used - n = Len(Pending) - (n + 1) + 1
        BY <1>1, <1>2, <1>7 DEF PendingOK
      <4> QED BY <1>6, <3>3, <4>1, <4>2, <4>3
    <3>5. Pending' = rest
      BY <1>7, <3>3, <3>4, SeqEqual DEF PendingOK
    <3> QED BY <3>5 DEF rest
  <2>3. Writes!Apply(n)
    BY <1>9, <2>2 DEF Writes!Apply, Late
  <2> QED BY <2>1, <2>3 DEF Writes!Next
<1> QED BY <1>2, <1>10, <1>11

LEMMA PublishImplements ==
  ASSUME IInv, IInv', PublishEvent
  PROVE  \E w \in RegWrite : Writes!Append1(w)
<1>1. /\ pc = "publish" /\ pc' = "idle"
      /\ evq_write' = NextIndex(evq_write)
      /\ UNCHANGED <<sound, evq, evq_read, chip>>
  BY DEF PublishEvent
<1>2. /\ evq_read \in Index /\ evq_write \in Index /\ evq \in [Index -> Event]
      /\ Used < EvqSize - 1 /\ Used \in Nat /\ write \in RegWrite /\ playing
  <2>1. playing
    BY <1>1 DEF IInv, Playing
  <2> QED BY <1>1, <2>1, UsedBounds DEF IInv, TypeOK, Room, RegWrite
<1>3. /\ Used' = Used + 1
      /\ \A i \in 1 .. Used : Slot(i)' = Slot(i)
      /\ Slot(Used)' = evq_write
  BY <1>1, <1>2, PublishFacts
<1>4. PendingOK /\ PendingOK'
  <2>1. TypeOK' => PendingOK'
    BY PendingFacts, PTL
  <2> QED BY <2>1, PendingFacts DEF IInv
<1> DEFINE more == Append(Pending, write)
<1>5. /\ more \in Seq(RegWrite) /\ Len(more) = Used + 1
      /\ \A i \in 1 .. Used : more[i] = Pending[i]
      /\ more[Used + 1] = write
  BY <1>2, <1>4, AppendProperties DEF PendingOK
<1> HIDE DEF more
<1>6. \A i \in 1 .. Used : Pending'[i] = Pending[i]
  BY <1>1, <1>2, <1>3, <1>4 DEF PendingOK
<1>7. Pending'[Used + 1] = write
  <2>1. Pending'[Used + 1] = [reg |-> evq[evq_write].reg, val |-> evq[evq_write].val]
    BY <1>1, <1>2, <1>3, <1>4 DEF PendingOK
  <2>2. evq[evq_write].reg = write.reg /\ evq[evq_write].val = write.val
    BY <1>1 DEF IInv, Stored
  <2> QED BY <1>2, <2>1, <2>2 DEF RegWrite
<1>8. Pending' = more
  <2>1. \A i \in 1 .. Used + 1 : i \in 1 .. Used \/ i = Used + 1
    BY <1>2
  <2>2. \A i \in 1 .. Used + 1 : Pending'[i] = more[i]
    BY <1>5, <1>6, <1>7, <2>1
  <2> QED BY <1>3, <1>4, <1>5, <2>2, SeqEqual DEF PendingOK
<1>9. Writes!Append1(write)
  BY <1>1, <1>2, <1>4, <1>8 DEF more, Writes!Append1, sound, chip, PendingOK
<1> QED BY <1>2, <1>9

\* Every step takes, appends or makes one write, turns sound on or off, or
\* changes nothing that the generator can see.
LEMMA StepImplements ==
  ASSUME IInv, IInv', [Next]_vars
  PROVE  [Writes!Next]_(Writes!vars)
<1> USE DEF Late
<1>1. CASE Interrupt
  <2>1. \E samples \in Nat : Generate(samples)
    BY <1>1, SizeAssumption DEF Interrupt, DoubleBackProc, asc_vec_handler
  <2>2. playing /\ evq_write' = evq_write /\ playing' = playing /\ Late' = Late
    BY <1>1 DEF Interrupt, DoubleBackProc, asc_vec_handler, sound, main
  <2> QED BY <2>1, <2>2, GenerateImplements
<1>2. CASE \/ Revive("revive3", "revive2") \/ Revive("revive2", "revive1")
           \/ Revive("revive1", "idle")
  <2>1. Generate(AscChunk) /\ AscChunk \in Nat
    BY <1>2, SizeAssumption DEF Revive
  <2>2. playing /\ evq_write' = evq_write /\ playing' = playing /\ Late' = Late
    BY <1>2 DEF Revive, sound, IInv, Playing
  <2> QED BY <2>1, <2>2, GenerateImplements
<1>3. CASE CheckFull
  <2>1. /\ pc = "check" /\ pc' = IF Full THEN "direct" ELSE "store"
        /\ UNCHANGED <<sound, queue, chip, write>>
    BY <1>3 DEF CheckFull
  <2>2. Pending' = Pending /\ UNCHANGED <<playing, apu>>
    BY <2>1, PendingKept DEF sound, chip
  <2>3. CASE Full
    <3>1. Len(Pending) = EvqSize - 1
      BY <2>3, PendingFacts, UsedIsNotFull DEF PendingOK, IInv, TypeOK
    <3>2. write \in RegWrite
      BY DEF IInv, TypeOK, RegWrite
    <3>3. Writes!BeginDirect(write)
      BY <2>1, <2>2, <2>3, <3>1 DEF Writes!BeginDirect
    <3> QED BY <3>2, <3>3 DEF Writes!Next, Writes!Write, RegWrite
  <2>4. CASE ~ Full
    BY <2>1, <2>2, <2>4 DEF Writes!vars
  <2> QED BY <2>3, <2>4
<1>4. CASE \E w \in [reg : Reg, val : Value] : audio_mac_write(w)
  <2>1. PICK w \in [reg : Reg, val : Value] : audio_mac_write(w)
    BY <1>4
  <2>2. /\ pc = "idle" /\ write' = w
        /\ pc' = IF snd_running THEN "check" ELSE "direct"
        /\ UNCHANGED <<sound, queue, apu>>
    BY <2>1 DEF audio_mac_write
  <2>3. Pending' = Pending /\ UNCHANGED <<playing, apu>>
    BY <2>2, PendingKept DEF sound
  <2>4. CASE snd_running
    BY <2>2, <2>3, <2>4 DEF Writes!vars
  <2>5. CASE ~ snd_running
    <3>1. ~ playing
      BY <2>2, <2>5 DEF IInv, Playing
    <3>2. Writes!BeginDirect(w)
      BY <2>2, <2>3, <2>5, <3>1 DEF Writes!BeginDirect
    <3> QED BY <3>2 DEF Writes!Next, Writes!Write
  <2> QED BY <2>4, <2>5
<1>5. CASE StoreEvent
  <2>1. /\ pc = "store" /\ pc' = "publish"
        /\ evq' = [evq EXCEPT ![evq_write] =
                    [t |-> lead, reg |-> write.reg, val |-> write.val]]
        /\ UNCHANGED <<sound, evq_read, evq_write, chip>>
    BY <1>5 DEF StoreEvent
  <2>2. Used' = Used /\ \A i \in 1 .. Used : Slot(i)' = Slot(i)
    BY <2>1 DEF Used, Slot
  <2>3. \A i \in 1 .. Used : evq'[Slot(i)] = evq[Slot(i)]
    BY <2>1, SlotFacts DEF IInv, TypeOK
  <2>4. Pending' = Pending
    BY <2>2, <2>3 DEF Pending
  <2> QED BY <2>1, <2>4 DEF Writes!vars, sound, chip
<1>6. CASE PublishEvent
  BY <1>6, PublishImplements DEF Writes!Next, Writes!Write, RegWrite
<1>7. CASE DirectEffect
  <2>1. /\ pc = "effect" /\ pc' = "idle"
        /\ apu' = [apu EXCEPT ![write.reg] = write.val]
        /\ UNCHANGED <<sound, queue>>
    BY <1>7 DEF DirectEffect
  <2>2. Pending' = Pending /\ UNCHANGED playing
    BY <2>1, PendingKept DEF sound
  <2>3. Writes!EndDirect
    BY <2>1, <2>2 DEF Writes!EndDirect
  <2> QED BY <2>3 DEF Writes!Next
<1>8. CASE audio_mac_start
  <2>1. /\ pc = "idle" /\ ~ snd_running /\ playing' = TRUE
        /\ evq_read' = 0 /\ evq_write' = 0 /\ UNCHANGED <<chip, main>>
    BY <1>8 DEF audio_mac_start
  <2>2. ~ playing
    BY <2>1 DEF IInv, Playing
  <2>3. Used' = 0
    BY <2>1 DEF Used
  <2>4. Pending' = << >>
    BY <2>3 DEF Pending
  <2>5. Writes!TurnOn
    BY <2>1, <2>2, <2>4 DEF Writes!TurnOn, chip, main
  <2> QED BY <2>5 DEF Writes!Next
<1>9. CASE Quiet
  <2>1. /\ pc = "quiet" /\ pc' = "idle" /\ playing' = FALSE
        /\ UNCHANGED <<queue, chip>>
    BY <1>9 DEF Quiet
  <2>2. playing
    BY <2>1 DEF IInv, Playing
  <2>3. Writes!TurnOff
    BY <2>1, <2>2, PendingKept DEF Writes!TurnOff, chip
  <2> QED BY <2>3 DEF Writes!Next
<1>10. CASE \/ DirectByte \/ Snap \/ \E elapsed \in BOOLEAN : asc_watchdog(elapsed)
            \/ EndWait \/ BeginWait \/ audio_mac_stop
            \/ \E samples \in Advances : audio_mac_sync(samples)
            \/ UNCHANGED vars
  <2>1. /\ UNCHANGED <<queue, playing, apu>>
    BY <1>10 DEF DirectByte, Snap, asc_watchdog, EndWait, BeginWait,
       audio_mac_stop, audio_mac_sync, vars, sound, chip
  <2>2. Late' = Late
    BY <1>10 DEF DirectByte, Snap, asc_watchdog, EndWait, BeginWait,
       audio_mac_stop, audio_mac_sync, vars, main
  <2> QED BY <2>1, <2>2, PendingKept DEF Writes!vars
<1> QED
  BY <1>1, <1>2, <1>3, <1>4, <1>5, <1>6, <1>7, <1>8, <1>9, <1>10
  DEF Next, Continue, Begin

LEMMA InitImplements == Init => Writes!Init
<1> SUFFICES ASSUME Init PROVE Writes!Init
  OBVIOUS
<1>1. /\ playing = FALSE /\ pc = "idle" /\ evq_read = 0 /\ evq_write = 0
      /\ apu \in [Reg -> Value]
  BY ValueAssumption DEF Init
<1>2. Used = 0
  BY <1>1 DEF Used
<1>3. Pending = << >>
  BY <1>2 DEF Pending
<1> QED BY <1>1, <1>3 DEF Writes!Init

\* Writes to the sound registers reach the generator in order and once, with
\* the exceptions AudioWrites names, whatever the interrupt does between two
\* steps of audio_mac_write, and for every size of the queue.
THEOREM WritesStayInOrder == Spec => WritesInOrder
BY InitImplements, StepImplements, InvariantHolds, PTL
DEF Spec, WritesInOrder, Writes!Spec
=============================================================================
