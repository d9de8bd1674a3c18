SPECIFICATION Spec
CONSTANTS
    Users = {u1, u2}
    Flags = {g1, g2}
    Saves = {s1, s2}
    None = None
    MaxPatches = 3
    MaxVersion = 2
SYMMETRY Symmetry
INVARIANTS
    TypeOK
    FavoritesKept
    StateKept
    ImportantKept
    NoDeletedUser
    StatesAlternate
