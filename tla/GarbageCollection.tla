------------------------- MODULE GarbageCollection --------------------------
(***************************************************************************)
(* What GarbageCollector promises, in terms of what can be reached: it is  *)
(* invisible to the program, and it leaves nothing it could have freed.    *)
(***************************************************************************)
EXTENDS GarbageCollector

Graph == INSTANCE Reachability

\* When the collection has decided, it keeps exactly those of the objects it looked
\* at that can be reached from a reference of the program or from an object it did
\* not look at, whatever the order it visited them in.
CollectionExact ==
    pc = "reap" =>
       saved = (saved \cup items) \cap
                  Graph!ReachableFrom(held \cup (Allocated \ (items \cup saved)), Contents)

\* The collector is invisible to the program: whatever it can reach stays
\* allocated, and after a collection every field is what it was.
Program == INSTANCE ProgramHeap WITH view <- Graph!Visible(held, Contents)
ProgramSpec == Program!Spec
=============================================================================
