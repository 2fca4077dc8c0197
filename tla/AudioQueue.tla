----------------------------- MODULE AudioQueue -----------------------------
(***************************************************************************)
(* The sound queue of system6/audio_mac.c: one producer, the main loop, and *)
(* one consumer, which runs at interrupt time between any two steps of it. *)
(*                                                                         *)
(* Register writes of the game are stamped with emulated time and queued;  *)
(* the interrupt generates samples and applies each write at its sample.   *)
(* emu_samples and samples_out are u32 clocks of which the program only    *)
(* takes differences: lead is emu_samples - samples_out, and stamps are    *)
(* kept relative to samples_out.                                           *)
(*                                                                         *)
(* With the Sound Manager the interrupt is DoubleBackProc; with use_direct *)
(* it is asc_vec_handler, and audio_mac_sync runs a watchdog.  A chunk     *)
(* pushed by the main loop itself is one step: asc_in_push keeps the       *)
(* interrupt out of it.                                                    *)
(***************************************************************************)
EXTENDS Integers, Sequences

CONSTANTS
  EvqSize,            \* EVQ_SIZE, 512
  BufferSamples,      \* 512
  AscChunk,           \* ASC_CHUNK, 128
  MaxLead,            \* MAX_LEAD_SAMPLES, 768
  Stall,              \* STALL_SAMPLES, 1024
  MaxBank,            \* MAX_BANK_SAMPLES, 2048
  Reg, Value,         \* sound registers and their values
  InitValue,
  Advances,           \* samples that one sync advances emulated time by
  MaxBehind           \* bound on how far emulation falls behind the sound

ASSUME SizeAssumption ==
  /\ EvqSize \in Nat \ {0, 1}
  /\ {BufferSamples, AscChunk} \subseteq Nat \ {0}
  /\ {MaxLead, Stall, MaxBank} \subseteq Nat
  /\ Advances \subseteq Nat
  \* where the bound stops the interrupt, silence has set in
  /\ MaxBehind \in Nat /\ MaxBehind >= Stall + BufferSamples
  /\ MaxBehind >= Stall + AscChunk
ASSUME ValueAssumption == Reg # {} /\ InitValue \in Value

Index == 0 .. EvqSize - 1
Event == [t : Int, reg : Reg, val : Value]

VARIABLES
  use_direct,
  snd_running,
  playing,          \* the interrupt is installed
  lead,
  evq,
  evq_read, evq_write,
  regs,             \* audio->regs: what the game reads back
  apu,              \* what the generator uses
  pushed,           \* asc_stats.pushes != asc_watch_pushes
  pc,               \* where the main loop is
  seen,             \* emu_samples - out of the sync in progress
  write             \* the register write in progress

sound == <<use_direct, snd_running, playing>>
queue == <<evq, evq_read, evq_write>>
chip == <<regs, apu>>
main == <<pc, seen, write>>
vars == <<sound, lead, queue, chip, pushed, main>>

-----------------------------------------------------------------------------
(* The queue *)

\* Seeded error: no EVQ_MASK.
NextIndex_NoMask(k) == k + 1
NextIndex(k) == IF k = EvqSize - 1 THEN 0 ELSE k + 1

Used == IF evq_write >= evq_read THEN evq_write - evq_read
        ELSE evq_write - evq_read + EvqSize
Slot(i) == IF evq_read + i - 1 < EvqSize THEN evq_read + i - 1
           ELSE evq_read + i - 1 - EvqSize

\* Seeded error: the queue is never full.
Full_Never == FALSE
Full == NextIndex(evq_write) = evq_read

\* What the locals of audio_mac_write, and a slot, hold when not in use.
NoWrite == [reg |-> CHOOSE r \in Reg : TRUE, val |-> InitValue]
Unused == [t |-> 0, reg |-> CHOOSE r \in Reg : TRUE, val |-> InitValue]

-----------------------------------------------------------------------------
(* The consumer *)

\* The first events of the queue that a chunk of samples reaches.
Due(samples) ==
  {n \in 0 .. Used : \A i \in 1 .. n : evq[Slot(i)].t < samples}

\* gen_samples: how many events it applies.
Applied(samples) == CHOOSE n \in Due(samples) : \A k \in Due(samples) : k <= n

\* The value register r has after the first n events, if it was old.
ValueAfter(n, r, old) ==
  IF \E i \in 1 .. n : evq[Slot(i)].reg = r
    THEN evq[Slot(CHOOSE i \in 1 .. n :
               /\ evq[Slot(i)].reg = r
               /\ \A j \in i + 1 .. n : evq[Slot(j)].reg # r)].val
    ELSE old

\* "turn off the audio if real time > this period"
Silent == - lead > Stall

\* Seeded error: the index of the last event, not of the one after it.
ReadAfter_Last(n) == IF n = 0 THEN evq_read ELSE Slot(n)
\* evq_read once n events have been applied
ReadAfter(n) == IF n = 0 THEN evq_read ELSE NextIndex(Slot(n))

\* The slots once n events have been applied and the clock moved by samples.
SlotsAfter(n, samples) ==
  LET applied == {Slot(i) : i \in 1 .. n}
      waiting == {Slot(i) : i \in n + 1 .. Used}
                   \cup (IF pc = "publish" THEN {evq_write} ELSE {})
  IN [k \in Index |-> IF k \in applied THEN Unused
                      ELSE IF k \in waiting THEN [evq[k] EXCEPT !.t = @ - samples]
                      ELSE evq[k]]

\* Seeded error: only the Sound Manager's path counts what it hands out.
HandedOut_NotDirect(samples) == IF use_direct THEN 0 ELSE samples
\* samples_out += samples
HandedOut(samples) == samples

\* One buffer or chunk is filled, with silence or by gen_samples, and handed
\* out.
Generate(samples) ==
  LET n == IF Silent THEN 0 ELSE Applied(samples)
  IN /\ evq_read' = ReadAfter(n)
     /\ evq' = SlotsAfter(n, HandedOut(samples))
     /\ apu' = [r \in Reg |-> ValueAfter(n, r, apu[r])]
     /\ regs' = [r \in Reg |-> ValueAfter(n, r, regs[r])]
     /\ lead' = lead - HandedOut(samples)

\* DoubleBackProc, when the Sound Manager has played a buffer
DoubleBackProc ==
  /\ playing /\ ~use_direct
  /\ lead - BufferSamples >= - MaxBehind
  /\ Generate(BufferSamples)
  /\ UNCHANGED <<sound, evq_write, pushed, main>>

\* asc_vec_handler, when the chip is half empty or empty.  When it is empty
\* three chunks are pushed, which is no more than three times one.
asc_vec_handler ==
  /\ playing /\ use_direct /\ snd_running
  /\ lead - AscChunk >= - MaxBehind
  /\ Generate(AscChunk)
  /\ pushed' = TRUE
  /\ UNCHANGED <<sound, evq_write, main>>

Interrupt == DoubleBackProc \/ asc_vec_handler

-----------------------------------------------------------------------------
(* The producer: audio_mac_write *)

\* The raw byte is mirrored, or there is no interrupt and audio_write is called.
audio_mac_write(w) ==
  /\ pc = "idle"
  /\ write' = w
  /\ pc' = IF snd_running THEN "check" ELSE "direct"
  /\ regs' = IF snd_running THEN [regs EXCEPT ![w.reg] = w.val] ELSE regs
  /\ UNCHANGED <<sound, lead, queue, apu, pushed, seen>>

\* "queue full, just write it out of order"
CheckFull ==
  /\ pc = "check"
  /\ pc' = IF Full THEN "direct" ELSE "store"
  /\ UNCHANGED <<sound, lead, queue, chip, pushed, seen, write>>

StoreEvent ==
  /\ pc = "store"
  /\ evq' = [evq EXCEPT ![evq_write] =
               [t |-> lead, reg |-> write.reg, val |-> write.val]]
  /\ pc' = "publish"
  /\ UNCHANGED <<sound, lead, evq_read, evq_write, chip, pushed, seen, write>>

PublishEvent ==
  /\ pc = "publish"
  /\ evq_write' = NextIndex(evq_write)
  /\ pc' = "idle" /\ write' = NoWrite
  /\ UNCHANGED <<sound, lead, evq, evq_read, chip, pushed, seen>>

\* audio_write called by the main loop: the raw byte, then its effect.
DirectByte ==
  /\ pc = "direct"
  /\ regs' = [regs EXCEPT ![write.reg] = write.val]
  /\ pc' = "effect"
  /\ UNCHANGED <<sound, lead, queue, apu, pushed, seen, write>>

DirectEffect ==
  /\ pc = "effect"
  /\ apu' = [apu EXCEPT ![write.reg] = write.val]
  /\ pc' = "idle" /\ write' = NoWrite
  /\ UNCHANGED <<sound, lead, queue, regs, pushed, seen>>

-----------------------------------------------------------------------------
(* The main loop: time, pacing, turning sound on and off *)

\* emu_samples is advanced and samples_out read ...
audio_mac_sync(samples) ==
  /\ pc = "idle"
  /\ lead' = lead + samples
  /\ seen' = lead'
  /\ pc' = "snap"
  /\ UNCHANGED <<sound, queue, chip, pushed, write>>

\* Seeded error: emu_samples = out in both cases.
Snapped_ToOut(ahead) == IF ahead < 0 \/ ahead > MaxBank THEN 0 ELSE ahead
\* Seeded error: there is no upper bound.
Snapped_NoCap(ahead) == IF ahead < 0 THEN 0 ELSE ahead
Snapped(ahead) ==
  IF ahead < 0 THEN 0 ELSE IF ahead > MaxBank THEN MaxBank ELSE ahead

\* ... and emu_samples is kept between that and MaxBank more.
Snap ==
  /\ pc = "snap"
  /\ lead' = lead + Snapped(seen) - seen
  /\ seen' = 0
  /\ pc' = IF use_direct /\ snd_running THEN "watch" ELSE "idle"
  /\ UNCHANGED <<sound, queue, chip, pushed, write>>

\* asc_watchdog: when half a second has passed since the last look, and
\* nothing was pushed meanwhile, three chunks are pushed.
asc_watchdog(elapsed) ==
  /\ pc = "watch"
  /\ pc' = IF elapsed /\ ~pushed THEN "revive3" ELSE "idle"
  /\ pushed' = (pushed /\ ~elapsed)
  /\ UNCHANGED <<sound, lead, queue, chip, seen, write>>

Revive(here, next) ==
  /\ pc = here
  /\ Generate(AscChunk)
  /\ pc' = next
  /\ pushed' = (next # "idle")
  /\ UNCHANGED <<sound, evq_write, seen, write>>

\* audio_mac_wait_if_ahead
BeginWait ==
  /\ pc = "idle" /\ snd_running
  /\ pc' = "wait"
  /\ UNCHANGED <<sound, lead, queue, chip, pushed, seen, write>>

Ahead == lead > MaxLead

EndWait ==
  /\ pc = "wait" /\ ~Ahead
  /\ pc' = "idle"
  /\ UNCHANGED <<sound, lead, queue, chip, pushed, seen, write>>

\* audio_mac_start; asc_start pushes three chunks before snd_running is set.
audio_mac_start ==
  /\ pc = "idle" /\ ~snd_running
  /\ snd_running' = TRUE /\ playing' = TRUE
  /\ lead' = IF use_direct THEN - 3 * AscChunk ELSE 0
  /\ evq_read' = 0 /\ evq_write' = 0
  /\ evq' = [k \in Index |-> Unused]
  /\ pushed' = use_direct
  /\ UNCHANGED <<use_direct, chip, main>>

\* audio_mac_stop: the interrupt may still come until quietCmd is executed.
audio_mac_stop ==
  /\ pc = "idle" /\ snd_running
  /\ snd_running' = FALSE
  /\ pc' = "quiet"
  /\ UNCHANGED <<use_direct, playing, lead, queue, chip, pushed, seen, write>>

Quiet ==
  /\ pc = "quiet"
  /\ playing' = FALSE
  /\ pc' = "idle"
  /\ UNCHANGED <<use_direct, snd_running, lead, queue, chip, pushed, seen, write>>

-----------------------------------------------------------------------------
Init ==
  /\ use_direct \in BOOLEAN
  /\ snd_running = FALSE /\ playing = FALSE
  /\ lead = 0
  /\ evq = [k \in Index |-> Unused] /\ evq_read = 0 /\ evq_write = 0
  /\ regs = [r \in Reg |-> InitValue] /\ apu = [r \in Reg |-> InitValue]
  /\ pushed = FALSE
  /\ pc = "idle" /\ seen = 0
  /\ write = NoWrite

\* What the main loop does on its own once it has begun.
Continue ==
  \/ CheckFull \/ StoreEvent \/ PublishEvent
  \/ DirectByte \/ DirectEffect
  \/ Snap \/ \E elapsed \in BOOLEAN : asc_watchdog(elapsed)
  \/ Revive("revive3", "revive2") \/ Revive("revive2", "revive1")
  \/ Revive("revive1", "idle")
  \/ EndWait \/ Quiet

Begin ==
  \/ \E w \in [reg : Reg, val : Value] : audio_mac_write(w)
  \/ \E samples \in Advances : audio_mac_sync(samples)
  \/ BeginWait
  \/ audio_mac_start \/ audio_mac_stop

Next == Interrupt \/ Continue \/ Begin

Spec == Init /\ [][Next]_vars

\* An installed interrupt keeps coming, and the processor keeps running.
FairSpec == Spec /\ WF_vars(Interrupt) /\ WF_vars(Continue)

-----------------------------------------------------------------------------
(* Properties *)

TypeOK ==
  /\ use_direct \in BOOLEAN /\ snd_running \in BOOLEAN /\ playing \in BOOLEAN
  /\ lead \in Int
  /\ evq \in [Index -> Event] /\ evq_read \in Index /\ evq_write \in Index
  /\ regs \in [Reg -> Value] /\ apu \in [Reg -> Value]
  /\ pushed \in BOOLEAN
  /\ pc \in {"idle", "check", "store", "publish", "direct", "effect", "snap",
             "watch", "revive3", "revive2", "revive1", "wait", "quiet"}
  /\ seen \in Int
  /\ write \in [reg : Reg, val : Value]

\* The queue is in order of time and no stamp is ahead of emulated time, so
\* that gen_samples, which stops at the first event that is not due, applies
\* each "at their exact sample offsets" (system6/audio_mac.c:7): emulated time
\* never goes back, although every sync moves it to and fro against a clock
\* that the interrupt has moved since it was read.
StampsOrdered ==
  \A i, j \in 1 .. Used :
    /\ i < j => evq[Slot(i)].t <= evq[Slot(j)].t
    /\ evq[Slot(i)].t <= lead

\* "how far sample generation can get ahead when the frame limiter is off"
\* (system6/audio_mac.c:36), outside the sync that sees to it.
LeadBounded == pc # "snap" => lead <= MaxBank

\* The queue hands writes over in order and once, whatever the interrupt does
\* between the producer's steps; AudioWrites names the exceptions.
Pending ==
  [i \in 1 .. Used |-> [reg |-> evq[Slot(i)].reg, val |-> evq[Slot(i)].val]]

Writes == INSTANCE AudioWrites WITH
  Capacity <- EvqSize - 1,
  on <- playing, pending <- Pending, apu <- apu,
  late <- IF pc \in {"direct", "effect"} THEN {write} ELSE {}

WritesInOrder == Writes!Spec

\* The main loop never waits for the sound for ever: audio_mac_wait_if_ahead
\* returns as long as the interrupt keeps coming.
WaitEnds == pc = "wait" ~> pc # "wait"

\* What is queued is applied in the end: as long as something is waiting the
\* consumer takes from the queue again and again, unless sound is turned off or
\* emulation stands still.
QueueDrains ==
  \/ []<>(Used = 0 \/ ~snd_running \/ Silent)
  \/ []<><<evq_read' # evq_read>>_evq_read

\* "mirror the raw byte now so register readback doesn't see stale values"
\* (system6/audio_mac.c:245): between two writes the game reads back what it
\* wrote last.
ReadbackNotStale ==
  pc = "idle" /\ snd_running =>
    \A i \in 1 .. Used :
      (\A j \in i + 1 .. Used : Pending[j].reg # Pending[i].reg)
        => regs[Pending[i].reg] = Pending[i].val
=============================================================================
