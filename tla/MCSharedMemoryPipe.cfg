SPECIFICATION Spec
CONSTANTS
    Empty = Empty
    Messages = {m1, m2, Empty}
    MaxInTransit = 2
SYMMETRY Symmetry
INVARIANTS
    TypeOK
    RegionExclusion
    RegionIntegrity
PROPERTY FifoSpec
