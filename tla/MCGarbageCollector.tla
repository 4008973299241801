------------------------ MODULE MCGarbageCollector --------------------------
EXTENDS GarbageCollection, TLC

\* Addresses are interchangeable: no step compares two of them.
Symmetry == Permutations(Objects)
=============================================================================
