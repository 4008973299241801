SPECIFICATION Spec
CONSTANTS
    Objects = {a, b, c}
    Null = null
    Pointers = {pointer}
    Variants = {variant}
    MaxGen = 1
SYMMETRY Symmetry
CHECK_DEADLOCK FALSE
INVARIANTS
    CountsExact
    SortedByTenure
    CollectionExact
