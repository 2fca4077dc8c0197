\* One address of each kind, every controller (MBC5 with banks that share a
\* key), a fixed jump into the switched region and one into RAM.
CONSTANTS
    Bank0 = {entry}
    Banked = {b}
    Upper = {w}
    Hram = {h}
    Vectors = {entry}
    Kinds = {1, 2, 3, 5}
    RomData = {0, 1, 2}
    ListBanks = {2}
    Exits <- MCExits
    entry = entry
    b = b
    w = w
    h = h
    InC = InC
SPECIFICATION Spec
INVARIANT PatchedCodeIsCached RunsMappedCode SkipsUnseenButMbc5
