-------------------------- MODULE GarbageCollector --------------------------
(***************************************************************************)
(* The reference counted objects of the formula engine and the collector   *)
(* that frees their cycles: formula_garbage_collector.cpp, with the counts *)
(* of reference_counted_object.hpp and the list of GarbageCollectible.     *)
(*                                                                         *)
(* A collection pins every object of the generations it looks at, makes    *)
(* each of them surrender its references to the others, and then gives     *)
(* them back to every object that something else still refers to, until    *)
(* nothing changes.  What is left is garbage.                              *)
(***************************************************************************)
EXTENDS Integers, SequencesExt, FiniteSets

CONSTANTS
    Objects,   \* the addresses objects may have
    Null,      \* a null pointer or a variant that holds no object
    Pointers,  \* the fields of an object that are intrusive pointers
    Variants,  \* the fields of an object that are variants
    MaxGen     \* bound: the largest num_gens a collection is run with

Fields == Pointers \cup Variants
NoFields == [f \in Fields |-> Null]

ASSUME HeapAssumption ==
    /\ IsFiniteSet(Objects) /\ Null \notin Objects
    /\ IsFiniteSet(Fields) /\ Pointers \cap Variants = {}
    /\ MaxGen \in Nat

VARIABLES
    list,    \* the list from g_head along next_
    held,    \* the objects the engine or a running formula refers to
    refs,    \* refs[o][f]: what field f of o holds
    count,   \* count_
    tenure,  \* tenure_, up to MaxGen
    doomed,  \* objects whose count fell to 0, not destroyed yet
    pc,      \* "program", or what the collector is doing
    items,   \* items_
    saved,   \* saved_
    taken,   \* taken[o]: the references o surrendered (records_)
    todo,    \* the items the loop the collector is in has yet to visit
    nlast    \* nlast

heap == <<list, held, refs, count, tenure, doomed>>
collector == <<pc, items, saved, taken, todo, nlast>>
vars == <<heap, collector>>

Allocated == {list[i] : i \in DOMAIN list}

\* The counts after the references of a record are added or released.
Plus(c, record) == [t \in Objects |-> c[t] + Cardinality({f \in Fields : record[f] = t})]
Minus(c, record) == [t \in Objects |-> c[t] - Cardinality({f \in Fields : record[f] = t})]

\* The references of o to objects of S.
Into(S, o) == [f \in Fields |-> IF refs[o][f] \in S THEN refs[o][f] ELSE Null]

\* dec_reference destroys an object when its count falls to 0.
Doom == doomed' = doomed \cup {o \in Allocated : count[o] > 0 /\ count'[o] = 0}

Init ==
    /\ list = << >> /\ held = {} /\ doomed = {}
    /\ refs = [o \in Objects |-> NoFields]
    /\ count = [o \in Objects |-> 0]
    /\ tenure = [o \in Objects |-> 0]
    /\ pc = "program" /\ items = {} /\ saved = {} /\ todo = {} /\ nlast = -1
    /\ taken = [o \in Objects |-> NoFields]

-----------------------------------------------------------------------------
(* The program.  It works on objects it holds; a collection is one call on *)
(* the game's thread, and nothing runs while an object is destroyed.       *)

Running == pc = "program" /\ doomed = {}

\* The fields of every object as the program would find them: what an object
\* surrendered is given back before the program runs again.
Contents ==
    [o \in Allocated |->
        [f \in Fields |-> IF taken[o][f] # Null THEN taken[o][f] ELSE refs[o][f]]]

\* Mutant of New: the new object is put at the end of the list.
NewAtTail(o) ==
    /\ Running
    /\ o \in Objects \ Allocated
    /\ list' = list \o <<o>>
    /\ held' = held \cup {o}
    /\ count' = [count EXCEPT ![o] = 1]
    /\ tenure' = [tenure EXCEPT ![o] = 0]
    /\ UNCHANGED <<refs, doomed, collector>>

\* GarbageCollectible(): the new object is put at the head of the list.
New(o) ==
    /\ Running
    /\ o \in Objects \ Allocated
    /\ list' = <<o>> \o list
    /\ held' = held \cup {o}
    /\ count' = [count EXCEPT ![o] = 1]
    /\ tenure' = [tenure EXCEPT ![o] = 0]
    /\ UNCHANGED <<refs, doomed, collector>>

\* A reference is copied out of a field of an object the program holds.
Take(o) ==
    /\ Running
    /\ o \notin held
    /\ \E x \in held, f \in Fields : refs[x][f] = o
    /\ held' = held \cup {o}
    /\ count' = [count EXCEPT ![o] = @ + 1]
    /\ UNCHANGED <<list, refs, tenure, doomed, collector>>

Drop(o) ==
    /\ Running
    /\ o \in held
    /\ held' = held \ {o}
    /\ count' = [count EXCEPT ![o] = @ - 1]
    /\ Doom
    /\ UNCHANGED <<list, refs, tenure, collector>>

\* A field is assigned: the new reference is counted and the old one released.
Assign(o, f, t) ==
    /\ Running
    /\ o \in held /\ t \in held \cup {Null}
    /\ refs' = [refs EXCEPT ![o][f] = t]
    /\ count' = Plus(Minus(count, refs[o]), refs'[o])
    /\ Doom
    /\ UNCHANGED <<list, held, tenure, collector>>

\* ~GarbageCollectible and the destructors of its fields.
Destroy(o) ==
    /\ o \in doomed
    /\ list' = RemoveFirst(list, o)       \* it is there once
    /\ count' = Minus(count, refs[o])
    /\ refs' = [refs EXCEPT ![o] = NoFields]
    /\ taken' = [taken EXCEPT ![o] = NoFields]
    /\ doomed' = (doomed \ {o}) \cup {x \in Allocated : count[x] > 0 /\ count'[x] = 0}
    /\ UNCHANGED <<held, tenure, pc, items, saved, todo, nlast>>

-----------------------------------------------------------------------------
(* The collection: accumulateAll, performCollection, reap.                 *)

\* The objects the list shows before the first one of a generation not collected.
Young(gens) ==
    {list[i] : i \in {k \in DOMAIN list :
                        gens < 0 \/ \A j \in 1..k : tenure[list[j]] < gens}}

\* runGarbageCollection(gens): every object that may be collected is pinned, and
\* surrenders its references to the others.  A pointer is reset when it is
\* surrendered, a variant keeps its value.
Accumulate(gens) ==
    /\ Running
    /\ items' = Young(gens)
    /\ taken' = [o \in Objects |-> IF o \in items' THEN Into(items', o) ELSE NoFields]
    /\ refs' = [o \in Objects |-> [f \in Fields |->
                  IF f \in Pointers /\ taken'[o][f] # Null THEN Null ELSE refs[o][f]]]
    /\ count' = [t \in Objects |->
                  count[t] + (IF t \in items' THEN 1 ELSE 0)
                           - Cardinality({r \in items' \X Fields : taken'[r[1]][r[2]] = t})]
    /\ Doom
    /\ pc' = "collect"
    /\ todo' = {} /\ saved' = {} /\ nlast' = -1
    /\ UNCHANGED <<list, held, tenure>>

\* Mutant of StartPass: the number of items is not remembered.
StartPassForgetful ==
    /\ pc = "collect" /\ todo = {}
    /\ todo' = items
    /\ UNCHANGED <<heap, pc, items, saved, taken, nlast>>

\* while(nlast != items_.size()): the items are visited once more.
StartPass ==
    /\ pc = "collect" /\ todo = {}
    /\ nlast # Cardinality(items)
    /\ nlast' = Cardinality(items)
    /\ todo' = items
    /\ UNCHANGED <<heap, pc, items, saved, taken>>

\* Mutant of PassOver: an item with one reference besides the pin is passed over.
PassOverReferenced(o) ==
    /\ pc = "collect" /\ o \in todo
    /\ count[o] \in {1, 2}
    /\ todo' = todo \ {o}
    /\ UNCHANGED <<heap, pc, items, saved, taken, nlast>>

\* Nothing but the collector's pin refers to the item: it stays a candidate.
PassOver(o) ==
    /\ pc = "collect" /\ o \in todo
    /\ count[o] = 1
    /\ todo' = todo \ {o}
    /\ UNCHANGED <<heap, pc, items, saved, taken, nlast>>

\* Mutant of Restore: the item stays among the candidates.
RestoreKept(o) ==
    /\ pc = "collect" /\ o \in todo
    /\ count[o] # 1
    /\ count' = Plus(count, taken[o])
    /\ refs' = [refs EXCEPT ![o] = Contents[o]]
    /\ taken' = [taken EXCEPT ![o] = NoFields]
    /\ saved' = saved \cup {o} /\ todo' = todo \ {o}
    /\ tenure' = [tenure EXCEPT ![o] = IF @ < MaxGen THEN @ + 1 ELSE @]
    /\ UNCHANGED <<list, held, doomed, pc, items, nlast>>

\* Mutant of Restore: the variants given back are not counted.
RestoreUncounted(o) ==
    /\ pc = "collect" /\ o \in todo
    /\ count[o] # 1
    /\ count' = Plus(count, [f \in Fields |-> IF f \in Variants THEN Null ELSE taken[o][f]])
    /\ refs' = [refs EXCEPT ![o] = Contents[o]]
    /\ taken' = [taken EXCEPT ![o] = NoFields]
    /\ saved' = saved \cup {o} /\ items' = items \ {o} /\ todo' = todo \ {o}
    /\ tenure' = [tenure EXCEPT ![o] = IF @ < MaxGen THEN @ + 1 ELSE @]
    /\ UNCHANGED <<list, held, doomed, pc, nlast>>

\* Something refers to the item: it is saved and gets its references back.
Restore(o) ==
    /\ pc = "collect" /\ o \in todo
    /\ count[o] # 1
    /\ count' = Plus(count, taken[o])
    /\ refs' = [refs EXCEPT ![o] = Contents[o]]
    /\ taken' = [taken EXCEPT ![o] = NoFields]
    /\ saved' = saved \cup {o} /\ items' = items \ {o} /\ todo' = todo \ {o}
    /\ tenure' = [tenure EXCEPT ![o] = IF @ < MaxGen THEN @ + 1 ELSE @]
    /\ UNCHANGED <<list, held, doomed, pc, nlast>>

\* Mutant of DestroyReferences: one pass over the items is taken to be enough.
DestroyAfterOnePass ==
    /\ pc = "collect" /\ todo = {}
    /\ nlast # -1
    /\ refs' = [o \in Objects |-> [f \in Fields |->
                  IF o \in items /\ taken[o][f] # Null THEN Null ELSE refs[o][f]]]
    /\ pc' = "reap"
    /\ UNCHANGED <<list, held, count, tenure, doomed, items, saved, taken, todo, nlast>>

\* destroyReferences of every item that is left: its variants become null.
DestroyReferences ==
    /\ pc = "collect" /\ todo = {}
    /\ nlast = Cardinality(items)
    /\ refs' = [o \in Objects |-> [f \in Fields |->
                  IF o \in items /\ taken[o][f] # Null THEN Null ELSE refs[o][f]]]
    /\ pc' = "reap"
    /\ UNCHANGED <<list, held, count, tenure, doomed, items, saved, taken, todo, nlast>>

\* reap: the pins of the saved objects go first.
UnpinSaved ==
    /\ pc = "reap"
    /\ count' = [o \in Objects |-> IF o \in saved THEN count[o] - 1 ELSE count[o]]
    /\ Doom
    /\ pc' = "free"
    /\ saved' = {}
    /\ UNCHANGED <<list, held, refs, tenure, items, taken, todo, nlast>>

\* Then those of the garbage, which destroys it.
Unpin(o) ==
    /\ pc = "free" /\ doomed = {}
    /\ o \in items
    /\ items' = items \ {o}
    /\ count' = [count EXCEPT ![o] = @ - 1]
    /\ Doom
    /\ UNCHANGED <<list, held, refs, tenure, pc, saved, taken, todo, nlast>>

Finish ==
    /\ pc = "free" /\ doomed = {}
    /\ items = {}
    /\ pc' = "program"
    /\ nlast' = -1
    /\ UNCHANGED <<heap, items, saved, taken, todo>>

-----------------------------------------------------------------------------

Collect ==
    \/ StartPass \/ DestroyReferences \/ UnpinSaved \/ Finish
    \/ \E o \in Objects : PassOver(o) \/ Restore(o) \/ Unpin(o) \/ Destroy(o)

Next ==
    \/ Collect
    \/ \E o \in Objects :
          \/ New(o) \/ Take(o) \/ Drop(o)
          \/ \E f \in Fields, t \in held \cup {Null} : Assign(o, f, t)
    \/ \E gens \in {-1} \cup 1..MaxGen : Accumulate(gens)

Spec == Init /\ [][Next]_vars

\* A collection and a destructor are calls that run to their end.
FairSpec == Spec /\ WF_vars(Collect)

-----------------------------------------------------------------------------
(* Correctness.                                                            *)

TypeOK ==
    /\ list \in Seq(Objects) /\ Cardinality(Allocated) = Len(list)
    /\ held \subseteq Allocated
    /\ refs \in [Objects -> [Fields -> Objects \cup {Null}]]
    /\ taken \in [Objects -> [Fields -> Objects \cup {Null}]]
    /\ count \in [Objects -> Nat]
    /\ tenure \in [Objects -> 0..MaxGen]
    /\ pc \in {"program", "collect", "reap", "free"}
    /\ doomed \subseteq Allocated /\ items \subseteq Allocated
    /\ saved \subseteq Allocated /\ todo \subseteq items
    /\ nlast \in Nat \cup {-1}

\* The count of an object is always the number of references to it: those the
\* program holds, those in fields that are not surrendered, and the pin.
CountsExact ==
    \A t \in Allocated :
       count[t] = (IF t \in held THEN 1 ELSE 0)
                  + Cardinality({r \in Allocated \X Fields :
                                   refs[r[1]][r[2]] = t /\ taken[r[1]][r[2]] # t})
                  + (IF t \in items \cup saved THEN 1 ELSE 0)

\* "The list of objects is sorted in order of tenure", so that a collection of the
\* young generations may stop at the first tenured object.
SortedByTenure ==
    pc = "program" => \A i, j \in DOMAIN list : i < j => tenure[list[i]] <= tenure[list[j]]

\* A collection comes to an end.
CollectionEnds == pc # "program" ~> pc = "program"
=============================================================================
