SPECIFICATION FairSpec
CONSTANTS
    Objects = {a, b}
    Null = null
    Pointers = {pointer}
    Variants = {variant}
    MaxGen = 2
CHECK_DEADLOCK FALSE
INVARIANTS
    TypeOK
PROPERTIES
    ProgramSpec
    CollectionEnds
