SPECIFICATION Spec
CONSTANTS
    p1 = p1
    p2 = p2
    here = here
    there = there
    nobody = nobody
    Players = {p1, p2}
    MaxEntities = 2
    Models = {0, 1}
    Spots = {here, there}
    Start = here
    Local = 65535
    Nobody = nobody
    MaxGeneration = 3
    MaxActs = 2
SYMMETRY Symmetry
INVARIANTS EntitiesInvariant ClientShowsTable
PROPERTY CalleeKeepsItsSlot
