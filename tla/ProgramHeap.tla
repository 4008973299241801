---------------------------- MODULE ProgramHeap -----------------------------
(***************************************************************************)
(* What a program sees of a garbage collected heap: the objects it can     *)
(* reach from the references it holds, and what their fields refer to.     *)
(* Only the program changes it.  GarbageCollector implements it.           *)
(***************************************************************************)
EXTENDS Reachability

CONSTANT
    Objects   \* the objects there may be

VARIABLES
    held,  \* the objects the program holds a reference to
    view   \* the fields of every object it can reach

Init == held = {} /\ view = [o \in {} |-> NoFields]

New(o) ==
    /\ held' = held \cup {o}
    /\ o \in Objects \ DOMAIN view
    /\ view' = [x \in DOMAIN view \cup {o} |-> IF x = o THEN NoFields ELSE view[x]]

Take(o) ==
    /\ o \notin held
    /\ held' = held \cup {o}
    /\ \E x \in held, f \in Fields : view[x][f] = o
    /\ UNCHANGED view

Drop(o) ==
    /\ o \in held
    /\ held' = held \ {o}
    /\ view' = Visible(held', view)

Assign(o, f, t) ==
    /\ UNCHANGED held
    /\ o \in held
    /\ t \in held \cup {Null}
    /\ view' = Visible(held, [view EXCEPT ![o][f] = t])

\* A step that changes nothing the program sees is not one of the program's.
Next ==
    /\ held' # held \/ view' # view
    /\ \E o \in Objects :
          \/ New(o) \/ Take(o) \/ Drop(o)
          \/ \E f \in Fields, t \in held \cup {Null} : Assign(o, f, t)

Spec == Init /\ [][Next]_<<held, view>>
=============================================================================
