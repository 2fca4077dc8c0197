\* The game starts an MBC5 cartridge by selecting bank 1.
CONSTANTS
    Bank0 = {entry}
    Banked = {b}
    Upper = {w}
    Hram = {h}
    Vectors = {entry}
    Kinds = {5}
    RomData = {0, 1}
    ListBanks = {2}
    Exits <- MCExits
    entry = entry
    b = b
    w = w
    h = h
    InC = InC
SPECIFICATION Spec
INVARIANT SkipsUnseen
