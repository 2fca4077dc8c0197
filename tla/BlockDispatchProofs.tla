------------------------- MODULE BlockDispatchProofs -------------------------
(* Theorems about BlockDispatch, for every set of addresses, jumps, bank
   numbers and controllers that its assumptions admit. *)
EXTENDS BlockDispatch, TLAPS

Cart ==
    [kind : {1, 2, 3, 5}, rom_bank : 0 .. LastBank, ram_bank : Int,
     ram_enabled : BOOLEAN, rtc_select : Int, rtc_latch_state : Int,
     rom : 0 .. LastBank, ram : Int]

\* A bank that a controller can map.
Reaches(kind, bank) ==
    /\ kind = 1 => 1 <= bank /\ bank <= 31
    /\ kind = 2 => 1 <= bank /\ bank <= 15
    /\ kind = 3 => 1 <= bank /\ bank <= 127

\* TypeOK with every field of the cartridge.
Types ==
    /\ mbc \in Cart /\ plain \in Cart
    /\ mbc.kind \in Kinds /\ plain.kind = mbc.kind
    /\ booting \in BOOLEAN /\ swapped \in BOOLEAN
    /\ cache \subseteq Block
    /\ patched \subseteq [from : Block, to : Block]
    /\ running \in Block \cup {InC}
    /\ pc \in Pcs
    /\ taken \subseteq [from : Block, to : Pcs, key : 0 .. LastByte]

\* While the list is replayed no block has run, so nothing is patched.
BootIsQuiet == booting => running = InC /\ patched = {} /\ plain.rom = 1

\* Once the game runs, no bank is mapped that its controller could not select:
\* a skipped write of bank 0 would otherwise have selected bank 1.
BanksInReach == ~booting => Reaches(mbc.kind, mbc.rom)

\* A jump patched outside the switched region was taken with the bank of the
\* block it leads to; one patched inside of it stays in its own bank.
PatchesRemembered ==
    \A x \in patched : x.to.pc \in Banked =>
        IF x.from.pc \in Banked
        THEN OneBankPerJump => Key(x.from.bank) = Key(x.to.bank)
        ELSE [from |-> x.from, to |-> x.to.pc, key |-> Key(x.to.bank)] \in taken

IInv ==
    /\ Types
    /\ BootIsQuiet
    /\ BanksInReach
    /\ PatchedCodeIsCached
    /\ PatchesRemembered
    /\ RunsMappedCode
    /\ SkipsUnseenButMbc5

-----------------------------------------------------------------------------
(* The cartridge. *)

LEMMA Limits == LastBank = 511 /\ LastByte = 255
BY DEF LastBank, LastByte

LEMMA KeyType == ASSUME NEW bank \in 0 .. LastBank PROVE Key(bank) \in 0 .. LastByte
BY Limits DEF Key

\* The register and the mapping are changed together.
Updated(c, low, bank) == dmg_update_rom_bank([c EXCEPT !.rom_bank = low], bank)

LEMMA UpdatedType ==
    ASSUME NEW c \in Cart, NEW low \in 0 .. LastBank, NEW bank \in 0 .. LastBank
    PROVE  /\ Updated(c, low, bank) \in Cart
           /\ Updated(c, low, bank).kind = c.kind
           /\ Updated(c, low, bank).rom = bank
BY DEF Cart, Updated, dmg_update_rom_bank

\* What a write of one of the addresses comes to, for each controller.
LEMMA WriteMbc1 ==
    ASSUME NEW c \in Cart, NEW addr \in BankAddresses, NEW data, c.kind = 1
    PROVE  mbc_write(c, addr, data) = Updated(c, data % 32, OrOne(data % 32))
<1>1. mbc_write(c, addr, data) = mbc1_write(c, addr, data)
  BY DEF mbc_write
<1>2. ~(addr < 8192) /\ Within(addr, 8192, 16383) /\ ~Within(addr, 16384, 24575)
  BY DEF BankAddresses, Within
<1> QED BY <1>1, <1>2 DEF mbc1_write, Updated

LEMMA WriteMbc2 ==
    ASSUME NEW c \in Cart, NEW addr \in BankAddresses, NEW data, c.kind = 2
    PROVE  mbc_write(c, addr, data) =
               IF addr = 8448 THEN Updated(c, data % 16, OrOne(data % 16))
               ELSE [c EXCEPT !.ram_enabled = data % 16 = 10]
<1>1. mbc_write(c, addr, data) = mbc2_write(c, addr, data)
  BY DEF mbc_write
<1>2. CASE addr = 8448
  <2>1. addr < 16384 /\ (addr \div 256) % 2 = 1
    BY <1>2
  <2> QED BY <1>1, <1>2, <2>1 DEF mbc2_write, Updated
<1>3. CASE addr # 8448
  <2>1. addr < 16384 /\ (addr \div 256) % 2 = 0
    BY <1>3 DEF BankAddresses
  <2> QED BY <1>1, <1>3, <2>1 DEF mbc2_write
<1> QED BY <1>2, <1>3

LEMMA WriteMbc3 ==
    ASSUME NEW c \in Cart, NEW addr \in BankAddresses, NEW data, c.kind = 3
    PROVE  mbc_write(c, addr, data) = Updated(c, data % 128, OrOne(data % 128))
<1>1. mbc_write(c, addr, data) = mbc3_write(c, addr, data)
  BY DEF mbc_write
<1>2. /\ ~(addr < 8192) /\ Within(addr, 8192, 16383)
      /\ ~Within(addr, 16384, 24575) /\ ~Within(addr, 24576, 32767)
  BY DEF BankAddresses, Within
<1> QED BY <1>1, <1>2 DEF mbc3_write, Updated

LEMMA WriteMbc5 ==
    ASSUME NEW c \in Cart, NEW addr \in BankAddresses, NEW data, c.kind = 5
    PROVE  \E bank \in {(c.rom_bank \div 256) * 256 + data,
                        (data % 2) * 256 + (c.rom_bank % 256)} :
               mbc_write(c, addr, data) = Updated(c, bank, bank)
<1>1. mbc_write(c, addr, data) = mbc5_write(c, addr, data)
  BY DEF mbc_write
<1>2. CASE addr \in {8192, 8448}
  <2>1. /\ ~(addr < 8192) /\ Within(addr, 8192, 12287)
        /\ ~Within(addr, 12288, 16383) /\ ~Within(addr, 16384, 24575)
    BY <1>2 DEF Within
  <2> QED BY <1>1, <2>1 DEF mbc5_write, Updated
<1>3. CASE addr = 12288
  <2>1. /\ ~(addr < 8192) /\ ~Within(addr, 8192, 12287)
        /\ Within(addr, 12288, 16383) /\ ~Within(addr, 16384, 24575)
    BY <1>3 DEF Within
  <2> QED BY <1>1, <2>1 DEF mbc5_write, Updated
<1> QED BY <1>2, <1>3 DEF BankAddresses

\* The bank that is mapped after a write of a register of some bits.
LEMMA OrOneRange ==
    ASSUME NEW data \in 0 .. LastByte, NEW size \in {16, 32, 128}
    PROVE  /\ data % size \in 0 .. LastBank
           /\ OrOne(data % size) \in 0 .. LastBank
           /\ 1 <= OrOne(data % size) /\ OrOne(data % size) <= size - 1
<1>1. CASE size = 16
  BY <1>1, Limits DEF OrOne
<1>2. CASE size = 32
  BY <1>2, Limits DEF OrOne
<1>3. CASE size = 128
  BY <1>3, Limits DEF OrOne
<1> QED BY <1>1, <1>2, <1>3

\* A register of some bits is written and the bank it selects is mapped.
LEMMA RegisterWritten ==
    ASSUME NEW c \in Cart, NEW data \in 0 .. LastByte, NEW size \in {16, 32, 128},
           NEW w, w = Updated(c, data % size, OrOne(data % size))
    PROVE  /\ w \in Cart /\ w.kind = c.kind /\ w.rom = OrOne(data % size)
           /\ 1 <= w.rom /\ w.rom <= size - 1
<1> DEFINE low == data % size
           bank == OrOne(data % size)
<1>1. low \in 0 .. LastBank /\ bank \in 0 .. LastBank /\ 1 <= bank /\ bank <= size - 1
  BY OrOneRange
<1> HIDE DEF low, bank
<1>2. /\ Updated(c, low, bank) \in Cart
      /\ Updated(c, low, bank).kind = c.kind
      /\ Updated(c, low, bank).rom = bank
  BY <1>1, UpdatedType
<1>3. w = Updated(c, low, bank)
  BY DEF low, bank
<1>4. w \in Cart /\ w.kind = c.kind /\ w.rom = bank /\ 1 <= w.rom /\ w.rom <= size - 1
  BY <1>1, <1>2, <1>3
<1> QED BY <1>4 DEF bank

\* A write of a bank register keeps the controller, and maps a bank of its own.
LEMMA WriteType ==
    ASSUME NEW c \in Cart, NEW addr \in BankAddresses, NEW data \in 0 .. LastByte
    PROVE  /\ mbc_write(c, addr, data) \in Cart
           /\ mbc_write(c, addr, data).kind = c.kind
           /\ Reaches(c.kind, c.rom) => Reaches(c.kind, mbc_write(c, addr, data).rom)
<1> DEFINE w == mbc_write(c, addr, data)
<1> HIDE DEF w
<1> SUFFICES /\ w \in Cart /\ w.kind = c.kind
             /\ Reaches(c.kind, c.rom) => Reaches(c.kind, w.rom)
  BY DEF w
<1>1. CASE c.kind = 1
  <2>1. w = Updated(c, data % 32, OrOne(data % 32))
    BY <1>1, WriteMbc1 DEF w
  <2>2. w \in Cart /\ w.kind = c.kind /\ 1 <= w.rom /\ w.rom <= 32 - 1
    BY <2>1, RegisterWritten
  <2> QED BY <1>1, <2>2 DEF Reaches
<1>2. CASE c.kind = 2
  <2>1. CASE addr = 8448
    <3>1. w = Updated(c, data % 16, OrOne(data % 16))
      BY <1>2, <2>1, WriteMbc2 DEF w
    <3>2. w \in Cart /\ w.kind = c.kind /\ 1 <= w.rom /\ w.rom <= 16 - 1
      BY <3>1, RegisterWritten
    <3> QED BY <1>2, <3>2 DEF Reaches
  <2>2. CASE addr # 8448
    <3>1. w = [c EXCEPT !.ram_enabled = data % 16 = 10]
      BY <1>2, <2>2, WriteMbc2 DEF w
    <3>2. w \in Cart /\ w.kind = c.kind /\ w.rom = c.rom
      BY <3>1 DEF Cart
    <3> QED BY <3>2
  <2> QED BY <2>1, <2>2
<1>3. CASE c.kind = 3
  <2>1. w = Updated(c, data % 128, OrOne(data % 128))
    BY <1>3, WriteMbc3 DEF w
  <2>2. w \in Cart /\ w.kind = c.kind /\ 1 <= w.rom /\ w.rom <= 128 - 1
    BY <2>1, RegisterWritten
  <2> QED BY <1>3, <2>2 DEF Reaches
<1>4. CASE c.kind = 5
  <2>1. c.rom_bank \in 0 .. LastBank
    BY DEF Cart
  <2>2. /\ (c.rom_bank \div 256) * 256 + data \in 0 .. LastBank
        /\ (data % 2) * 256 + (c.rom_bank % 256) \in 0 .. LastBank
    BY <2>1, Limits
  <2>3. PICK bank \in 0 .. LastBank : w = Updated(c, bank, bank)
    BY <1>4, <2>2, WriteMbc5 DEF w
  <2> QED BY <1>4, <2>3, UpdatedType DEF Reaches
<1> QED BY <1>1, <1>2, <1>3, <1>4 DEF Cart

\* The bank a controller other than MBC5 maps does not depend on the others of
\* its registers.
LEMMA WriteRom ==
    ASSUME NEW c \in Cart, NEW addr \in BankAddresses, NEW data \in 0 .. LastByte
    PROVE  /\ c.kind = 1 => mbc_write(c, addr, data).rom = OrOne(data % 32)
           /\ c.kind = 2 => mbc_write(c, addr, data).rom =
                               IF addr = 8448 THEN OrOne(data % 16) ELSE c.rom
           /\ c.kind = 3 => mbc_write(c, addr, data).rom = OrOne(data % 128)
<1>1. ASSUME c.kind = 1 PROVE mbc_write(c, addr, data).rom = OrOne(data % 32)
  <2>1. mbc_write(c, addr, data) = Updated(c, data % 32, OrOne(data % 32))
    BY <1>1, WriteMbc1
  <2> QED BY <2>1, RegisterWritten
<1>2. ASSUME c.kind = 2, addr = 8448
      PROVE  mbc_write(c, addr, data).rom = OrOne(data % 16)
  <2>1. mbc_write(c, addr, data) = Updated(c, data % 16, OrOne(data % 16))
    BY <1>2, WriteMbc2
  <2> QED BY <2>1, RegisterWritten
<1>3. ASSUME c.kind = 2, addr # 8448 PROVE mbc_write(c, addr, data).rom = c.rom
  <2>1. mbc_write(c, addr, data) = [c EXCEPT !.ram_enabled = data % 16 = 10]
    BY <1>3, WriteMbc2
  <2> QED BY <2>1 DEF Cart
<1>4. ASSUME c.kind = 3 PROVE mbc_write(c, addr, data).rom = OrOne(data % 128)
  <2>1. mbc_write(c, addr, data) = Updated(c, data % 128, OrOne(data % 128))
    BY <1>4, WriteMbc3
  <2> QED BY <2>1, RegisterWritten
<1> QED BY <1>1, <1>2, <1>3, <1>4

\* Of two cartridges with the same bank mapped, both have the same mapped
\* after the same write: but for MBC5, what is mapped says all.
LEMMA WriteSame ==
    ASSUME NEW c \in Cart, NEW d \in Cart, NEW addr \in BankAddresses,
           NEW data \in 0 .. LastByte,
           c.kind = d.kind, c.kind # 5, c.rom = d.rom
    PROVE  mbc_write(c, addr, data).rom = mbc_write(d, addr, data).rom
<1>1. c.kind \in {1, 2, 3}
  BY DEF Cart
<1> QED BY <1>1, WriteRom

\* A write that is left out would have mapped what is mapped.
LEMMA SkipSame ==
    ASSUME NEW addr \in BankAddresses, NEW data \in 0 .. LastByte, NEW d \in Cart,
           mbc \in Cart, d.kind = mbc.kind, mbc.kind # 5,
           Reaches(mbc.kind, mbc.rom), Skipped(addr, data)
    PROVE  mbc_write(d, addr, data).rom = mbc.rom
<1>1. data = mbc.rom % 256 /\ mbc.kind \in {1, 3} /\ mbc.rom \in Int
  BY DEF Skipped, BankRegister, Key, Cart
<1>2. CASE mbc.kind = 1
  <2>1. 1 <= mbc.rom /\ mbc.rom <= 31
    BY <1>2 DEF Reaches
  <2>2. OrOne(data % 32) = mbc.rom
    BY <1>1, <2>1 DEF OrOne
  <2> QED BY <1>2, <2>2, WriteRom
<1>3. CASE mbc.kind = 3
  <2>1. 1 <= mbc.rom /\ mbc.rom <= 127
    BY <1>3 DEF Reaches
  <2>2. OrOne(data % 128) = mbc.rom
    BY <1>1, <2>1 DEF OrOne
  <2> QED BY <1>3, <2>2, WriteRom
<1> QED BY <1>1, <1>2, <1>3

-----------------------------------------------------------------------------
(* The history variables only grow. *)

LEMMA PremiseWasTrue ==
    ASSUME swapped => swapped', taken \subseteq taken', OneBankPerJump'
    PROVE  OneBankPerJump
BY DEF OneBankPerJump

LEMMA CompiledType ==
    ASSUME mbc \in Cart, NEW p \in Pcs
    PROVE  Compiled(p) \in Block /\ Mapped(Compiled(p))
<1>1. mbc.rom \in 0 .. LastBank /\ 0 \in 0 .. LastBank
  BY Limits DEF Cart
<1> QED BY <1>1 DEF Compiled, Block, Mapped

LEMMA FoundType ==
    ASSUME NEW p, NEW b \in Found(p)
    PROVE  b \in cache /\ b.pc = p /\ Mapped(b)
BY DEF Found

-----------------------------------------------------------------------------
THEOREM InitEstablishes == Init => IInv
<1> SUFFICES ASSUME Init PROVE IInv
  OBVIOUS
<1> USE KindsAssumption
<1>1. PICK kind \in Kinds : mbc = mbc_new(kind) /\ plain = mbc_new(kind)
  BY DEF Init
<1>2. mbc \in Cart /\ plain \in Cart /\ mbc.kind = kind /\ plain.kind = kind
      /\ mbc.rom = 1 /\ plain.rom = 1
  <2>1. 0 \in 0 .. LastBank /\ 1 \in 0 .. LastBank /\ kind \in {1, 2, 3, 5}
    BY Limits
  <2> QED BY <1>1, <2>1 DEF mbc_new, Cart, NoRam, NoRtc
<1>3. Types
  BY <1>2 DEF Init, Types, Pcs
<1> QED
  BY <1>2, <1>3 DEF Init, IInv, BootIsQuiet, BanksInReach, PatchedCodeIsCached,
     PatchesRemembered, RunsMappedCode, SkipsUnseenButMbc5

\* A jump that leaves for C keeps the invariant.
LEMMA ToCKeeps ==
    ASSUME IInv, NEW p \in Pcs, ToC(p), Untouched, ~booting, UNCHANGED swapped,
           taken \subseteq taken', taken' \subseteq [from : Block, to : Pcs, key : 0 .. LastByte]
    PROVE  IInv'
<1> USE DEF IInv, ToC, Untouched
<1>1. Types'
  BY DEF Types
<1>2. OneBankPerJump' => OneBankPerJump
  BY PremiseWasTrue
<1>3. PatchesRemembered'
  BY <1>2 DEF PatchesRemembered
<1> QED
  BY <1>1, <1>3 DEF BootIsQuiet, BanksInReach, PatchedCodeIsCached, RunsMappedCode,
     SkipsUnseenButMbc5

\* So does one that ends in a block of the mapped bank.
LEMMA LookupKeeps ==
    ASSUME IInv, NEW p \in Pcs, NEW b \in Found(p), running' = b, pc' = p,
           Untouched, ~booting, UNCHANGED <<patched, taken, swapped>>
    PROVE  IInv'
<1> USE DEF IInv, Untouched
<1>1. Types'
  BY FoundType DEF Types
<1>2. RunsMappedCode'
  BY FoundType DEF RunsMappedCode, Mapped
<1> QED
  BY <1>1, <1>2 DEF BootIsQuiet, BanksInReach, PatchedCodeIsCached, PatchesRemembered,
     OneBankPerJump, SkipsUnseenButMbc5

LEMMA DispatcherKeeps ==
    ASSUME IInv, NEW p \in Pcs, dispatcher(p), Untouched, running # InC,
           UNCHANGED <<taken, swapped>>
    PROVE  IInv'
<1>1. ~booting
  BY DEF IInv, BootIsQuiet
<1>2. CASE ToC(p)
  BY <1>1, <1>2, ToCKeeps DEF IInv, Types
<1>3. CASE ~ToC(p)
  BY <1>1, <1>3, LookupKeeps DEF dispatcher
<1> QED BY <1>2, <1>3

LEMMA JumpNoted ==
    ASSUME IInv, NEW p \in Pcs, running \in Block, NoteJump(p)
    PROVE  /\ taken \subseteq taken'
           /\ taken' \subseteq [from : Block, to : Pcs, key : 0 .. LastByte]
           /\ p \in Banked /\ running.pc \notin Banked =>
                [from |-> running, to |-> p, key |-> Key(mbc.rom)] \in taken'
<1>1. Key(mbc.rom) \in 0 .. LastByte
  BY KeyType DEF IInv, Types, Cart
<1> QED BY <1>1 DEF IInv, Types, NoteJump

LEMMA PatchableExitKeeps ==
    ASSUME IInv, NEW p \in Pcs, PatchableExit(p)
    PROVE  IInv'
<1> USE DEF IInv
<1>1. ~booting /\ running \in Block /\ UNCHANGED <<mbc, plain, booting, cache, swapped>>
  BY DEF PatchableExit, BootIsQuiet, Types, Untouched
<1>2. /\ taken \subseteq taken'
      /\ taken' \subseteq [from : Block, to : Pcs, key : 0 .. LastByte]
      /\ p \in Banked /\ running.pc \notin Banked =>
           [from |-> running, to |-> p, key |-> Key(mbc.rom)] \in taken'
  BY <1>1, JumpNoted DEF PatchableExit
<1>3. OneBankPerJump' => OneBankPerJump
  BY <1>1, <1>2, PremiseWasTrue
<1>4. CASE ToC(p)
  BY <1>1, <1>2, <1>4, ToCKeeps DEF PatchableExit
<1>5. CASE patch_helper(p)
  <2>1. PICK b \in Found(p) : /\ patched' = patched \cup {[from |-> running, to |-> b]}
                              /\ running' = b /\ pc' = p
    BY <1>5 DEF patch_helper
  <2>2. b \in cache /\ b.pc = p /\ Mapped(b) /\ b \in Block
    BY <2>1, FoundType DEF Types
  <2>3. Types'
    BY <1>1, <1>2, <2>1, <2>2 DEF Types
  <2>4. PatchedCodeIsCached'
    BY <1>1, <2>1, <2>2 DEF PatchedCodeIsCached, PatchableExit
  <2>5. PatchesRemembered'
    <3> SUFFICES ASSUME NEW x \in patched', x.to.pc \in Banked
                 PROVE  IF x.from.pc \in Banked
                        THEN OneBankPerJump' => Key(x.from.bank) = Key(x.to.bank)
                        ELSE [from |-> x.from, to |-> x.to.pc, key |-> Key(x.to.bank)] \in taken'
      BY DEF PatchesRemembered
    <3>1. CASE x \in patched
      BY <1>2, <1>3, <3>1 DEF PatchesRemembered
    <3>2. CASE x = [from |-> running, to |-> b]
      <4>1. Key(b.bank) = Key(mbc.rom) /\ x.from = running /\ x.to = b /\ b.pc = p
        BY <2>2, <3>2 DEF Mapped
      <4>2. CASE running.pc \in Banked
        <5>1. OneBankPerJump' => Mapped(running)
          BY <1>1, <1>3, InCAssumption DEF RunsMappedCode
        <5> QED BY <4>1, <4>2, <5>1 DEF Mapped
      <4>3. CASE running.pc \notin Banked
        BY <1>2, <4>1, <4>3
      <4> QED BY <4>2, <4>3
    <3> QED BY <2>1, <3>1, <3>2
  <2>6. RunsMappedCode'
    BY <1>1, <2>1, <2>2 DEF RunsMappedCode, Mapped
  <2> QED
    BY <1>1, <2>3, <2>4, <2>5, <2>6 DEF BootIsQuiet, BanksInReach, SkipsUnseenButMbc5
<1>6. CASE \E x \in Patches(running, p) :
              running' = x.to /\ pc' = p /\ UNCHANGED patched
  <2>1. PICK x \in patched : /\ x.from = running /\ x.to.pc = p
                             /\ running' = x.to /\ pc' = p /\ UNCHANGED patched
    BY <1>6 DEF Patches
  <2>2. Types'
    BY <1>1, <1>2, <2>1 DEF Types
  <2>3. PatchesRemembered'
    BY <1>2, <1>3, <2>1 DEF PatchesRemembered
  <2>4. RunsMappedCode'
    <3> SUFFICES ASSUME OneBankPerJump', p \in Banked
                 PROVE  Key(x.to.bank) = Key(mbc.rom)
      BY <1>1, <2>1 DEF RunsMappedCode, Mapped
    <3>1. OneBankPerJump
      BY <1>3
    <3>2. CASE running.pc \in Banked
      <4>1. Mapped(running)
        BY <1>1, <3>1, InCAssumption DEF RunsMappedCode
      <4>2. Key(running.bank) = Key(x.to.bank)
        BY <2>1, <3>1, <3>2 DEF PatchesRemembered
      <4> QED BY <3>2, <4>1, <4>2 DEF Mapped
    <3>3. CASE running.pc \notin Banked
      <4> DEFINE now  == [from |-> running, to |-> p, key |-> Key(mbc.rom)]
      <4> DEFINE then == [from |-> running, to |-> p, key |-> Key(x.to.bank)]
      <4>1. now \in taken'
        BY <1>2, <3>3
      <4>2. then \in taken'
        BY <1>2, <2>1, <3>3 DEF PatchesRemembered
      <4>3. now.key = then.key
        BY <4>1, <4>2 DEF OneBankPerJump
      <4> QED BY <4>3
    <3> QED BY <3>2, <3>3
  <2> QED
    BY <1>1, <2>1, <2>2, <2>3, <2>4 DEF BootIsQuiet, BanksInReach, PatchedCodeIsCached,
       SkipsUnseenButMbc5
<1> QED BY <1>4, <1>5, <1>6 DEF PatchableExit

LEMMA WriteBankKeeps ==
    ASSUME IInv, NEW addr \in BankAddresses, NEW data \in RomData,
           NEW fixed \in BOOLEAN, WriteBank(addr, data, fixed)
    PROVE  IInv'
<1> USE DEF IInv
<1>1. /\ ~booting /\ running \in Block
      /\ UNCHANGED <<booting, cache, patched, running, pc, taken>>
  BY DEF WriteBank, BootIsQuiet, Types
<1>2. data \in 0 .. LastByte
  BY DataAssumption
<1> DEFINE skip == fixed /\ Skipped(addr, data)
<1>3. /\ mbc' = IF skip THEN mbc ELSE mbc_write(mbc, addr, data)
      /\ plain' = mbc_write(plain, addr, data)
  BY DEF WriteBank
<1>4. /\ mbc' \in Cart /\ plain' \in Cart /\ mbc'.kind = mbc.kind
      /\ plain'.kind = plain.kind /\ Reaches(mbc.kind, mbc'.rom)
  BY <1>1, <1>2, <1>3, WriteType DEF Types, BanksInReach
<1>5. swapped' = (swapped \/ (running.pc \in Banked /\ Key(mbc'.rom) # Key(mbc.rom)))
  BY DEF WriteBank
<1>6. Types'
  BY <1>1, <1>4, <1>5 DEF Types
<1>7. OneBankPerJump' => OneBankPerJump
  BY <1>1, <1>5, PremiseWasTrue
<1>8. PatchesRemembered'
  BY <1>1, <1>7 DEF PatchesRemembered
<1>9. RunsMappedCode'
  <2> SUFFICES ASSUME OneBankPerJump', running.pc \in Banked
               PROVE  Key(running.bank) = Key(mbc'.rom)
    BY <1>1 DEF RunsMappedCode, Mapped
  <2>1. Key(mbc'.rom) = Key(mbc.rom)
    BY <1>5 DEF OneBankPerJump
  <2>2. Mapped(running)
    BY <1>1, <1>7, InCAssumption DEF RunsMappedCode
  <2> QED BY <2>1, <2>2 DEF Mapped
<1>10. SkipsUnseenButMbc5'
  <2> SUFFICES ASSUME mbc.kind # 5 PROVE mbc'.rom = plain'.rom
    BY <1>1, <1>4 DEF SkipsUnseenButMbc5
  <2>1. mbc.rom = plain.rom
    BY <1>1 DEF SkipsUnseenButMbc5
  <2>2. CASE skip
    BY <1>1, <1>2, <1>3, <2>2, SkipSame DEF Types, BanksInReach
  <2>3. CASE ~skip
    BY <1>2, <1>3, <2>1, <2>3, WriteSame DEF Types
  <2> QED BY <2>2, <2>3
<1> QED
  BY <1>1, <1>4, <1>6, <1>8, <1>9, <1>10 DEF BootIsQuiet, BanksInReach, PatchedCodeIsCached

LEMMA JitRunKeeps ==
    ASSUME IInv, jit_run
    PROVE  IInv'
<1> USE DEF IInv
<1>1. ~booting /\ UNCHANGED <<mbc, plain, booting, pc, taken, swapped>>
  BY DEF jit_run
<1>2. running' \in Block /\ Mapped(running')
  BY FoundType, CompiledType DEF jit_run, Types
<1>3. /\ cache' \subseteq Block
      /\ \/ cache \subseteq cache' /\ patched' = patched
         \/ patched' = {}
  BY CompiledType DEF jit_run, Stored, Types
<1>4. Types'
  BY <1>1, <1>2, <1>3 DEF Types
<1>5. PatchedCodeIsCached'
  BY <1>3 DEF PatchedCodeIsCached
<1>6. PatchesRemembered'
  BY <1>1, <1>3 DEF PatchesRemembered, OneBankPerJump
<1>7. RunsMappedCode'
  BY <1>1, <1>2 DEF RunsMappedCode, Mapped
<1> QED
  BY <1>1, <1>4, <1>5, <1>6, <1>7 DEF BootIsQuiet, BanksInReach, SkipsUnseenButMbc5

LEMMA PrecompileKeeps ==
    ASSUME IInv, NEW bank \in ListBanks, NEW p \in Bank0 \cup Banked,
           jit_precompile(bank, p)
    PROVE  IInv'
<1> USE DEF IInv
<1>1. /\ booting /\ running = InC /\ patched = {}
      /\ UNCHANGED <<plain, booting, patched, running, pc, taken, swapped>>
  BY DEF jit_precompile, BootIsQuiet
<1>2. bank \in 0 .. LastBank /\ 0 \in 0 .. LastBank
  BY ListAssumption, Limits
<1>3. mbc' \in Cart /\ mbc'.kind = mbc.kind
  BY <1>2 DEF jit_precompile, dmg_update_rom_bank, Types, Cart
<1>4. cache' \subseteq Block
  <2>1. [pc |-> p, bank |-> IF p \in Banked THEN bank ELSE 0] \in Block
    BY <1>2 DEF Block, Pcs
  <2> QED BY <2>1 DEF jit_precompile, Types
<1>5. Types'
  BY <1>1, <1>3, <1>4 DEF Types
<1> QED
  BY <1>1, <1>5 DEF BootIsQuiet, BanksInReach, PatchedCodeIsCached, PatchesRemembered,
     RunsMappedCode, SkipsUnseenButMbc5

LEMMA PrecompileFinishKeeps ==
    ASSUME IInv, jit_precompile_finish
    PROVE  IInv'
<1> USE DEF IInv
<1>1. /\ running = InC /\ patched = {} /\ plain.rom = 1 /\ ~booting'
      /\ UNCHANGED <<plain, cache, patched, running, pc, taken, swapped>>
  BY DEF jit_precompile_finish, BootIsQuiet
<1>2. mbc' \in Cart /\ mbc'.kind = mbc.kind /\ mbc'.rom = 1
  <2>1. 1 \in 0 .. LastBank
    BY Limits
  <2> QED BY <2>1 DEF jit_precompile_finish, dmg_update_rom_bank, Types, Cart
<1>3. Reaches(mbc.kind, 1)
  BY DEF Reaches, Types, Cart
<1>4. Types'
  BY <1>1, <1>2 DEF Types, jit_precompile_finish
<1> QED
  BY <1>1, <1>2, <1>3, <1>4 DEF BootIsQuiet, BanksInReach, PatchedCodeIsCached,
     PatchesRemembered, RunsMappedCode, SkipsUnseenButMbc5

THEOREM StepKeeps == IInv /\ [Next]_vars => IInv'
<1> SUFFICES ASSUME IInv, [Next]_vars PROVE IInv'
  OBVIOUS
<1>1. ASSUME NEW p \in Pcs, DynamicExit(p) PROVE IInv'
  BY <1>1, DispatcherKeeps DEF DynamicExit
<1>2. ASSUME NEW p \in Pcs, FixedExitToRam(p) PROVE IInv'
  BY <1>2, DispatcherKeeps DEF FixedExitToRam
<1>3. ASSUME NEW p \in Pcs, PatchableExit(p) PROVE IInv'
  BY <1>3, PatchableExitKeeps
<1>4. ASSUME NEW p \in Upper \cup Hram, DropUpper(p) PROVE IInv'
  <2> USE DEF IInv
  <2>1. UNCHANGED <<mbc, plain, booting, patched, running, pc, taken, swapped>>
    BY <1>4 DEF DropUpper
  <2>2. Types'
    BY <1>4, <2>1 DEF Types, DropUpper
  <2>3. PatchedCodeIsCached'
    BY <1>4, <2>1, PcAssumption DEF PatchedCodeIsCached, DropUpper
  <2> QED
    BY <2>1, <2>2, <2>3 DEF BootIsQuiet, BanksInReach, PatchesRemembered, OneBankPerJump,
       RunsMappedCode, Mapped, SkipsUnseenButMbc5
<1>5. ASSUME NEW addr \in BankAddresses, NEW data \in RomData, NEW fixed \in BOOLEAN,
             WriteBank(addr, data, fixed)
      PROVE  IInv'
  BY <1>5, WriteBankKeeps
<1>6. CASE jit_run
  BY <1>6, JitRunKeeps
<1>7. ASSUME NEW v \in Vectors, check_interrupts(v) PROVE IInv'
  <2>1. v \in Pcs
    BY PcAssumption DEF Pcs
  <2> QED
    BY <1>7, <2>1 DEF check_interrupts, IInv, Types, BootIsQuiet, BanksInReach,
       PatchedCodeIsCached, PatchesRemembered, OneBankPerJump, RunsMappedCode,
       SkipsUnseenButMbc5
<1>8. ASSUME NEW bank \in ListBanks, NEW p \in Bank0 \cup Banked, jit_precompile(bank, p)
      PROVE  IInv'
  BY <1>8, PrecompileKeeps
<1>9. CASE jit_precompile_finish
  BY <1>9, PrecompileFinishKeeps
<1>10. CASE UNCHANGED vars
  BY <1>10 DEF vars, IInv, Types, BootIsQuiet, BanksInReach, PatchedCodeIsCached,
     PatchesRemembered, OneBankPerJump, RunsMappedCode, Mapped, SkipsUnseenButMbc5
<1> QED
  BY <1>1, <1>2, <1>3, <1>4, <1>5, <1>6, <1>7, <1>8, <1>9, <1>10 DEF Next

-----------------------------------------------------------------------------
THEOREM InvariantHolds == Spec => []IInv
BY InitEstablishes, StepKeeps, PTL DEF Spec

\* The variables keep their types.
THEOREM TypesAreCorrect == Spec => []TypeOK
<1>1. IInv => TypeOK
  BY DEF IInv, Types, TypeOK, Cart
<1> QED BY <1>1, InvariantHolds, PTL

\* Whatever the program, its jumps and its bank switches are: no patched jump
\* leads to code that has been given up.
THEOREM PatchesAreSafe == Spec => []PatchedCodeIsCached
<1>1. IInv => PatchedCodeIsCached
  BY DEF IInv
<1> QED BY <1>1, InvariantHolds, PTL

\* A program without a fixed jump that means different banks at different
\* times, and without code that switches itself away, runs the code it sees.
THEOREM PatchingRespectsBanks == Spec => []RunsMappedCode
<1>1. IInv => RunsMappedCode
  BY DEF IInv
<1> QED BY <1>1, InvariantHolds, PTL

\* Leaving out bank writes is never noticed, unless the cartridge is an MBC5.
THEOREM SkippingIsUnseen == Spec => []SkipsUnseenButMbc5
<1>1. IInv => SkipsUnseenButMbc5
  BY DEF IInv
<1> QED BY <1>1, InvariantHolds, PTL

============================================================================
