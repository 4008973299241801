---------------------------- MODULE Reachability ----------------------------
(***************************************************************************)
(* Which objects of a heap can be reached.  A heap is a function from its  *)
(* objects to what each of their fields refers to.                         *)
(***************************************************************************)
CONSTANTS
    Fields,  \* the fields of an object that hold a reference
    Null     \* what a field without a reference holds

\* A set of objects that no field leads out of.
Closed(S, fields) ==
    \A o \in S, f \in Fields : fields[o][f] \in DOMAIN fields => fields[o][f] \in S

\* The least such set that has the roots among its objects.
ReachableFrom(roots, fields) ==
    {o \in DOMAIN fields :
       \A S \in SUBSET DOMAIN fields :
          roots \cap DOMAIN fields \subseteq S /\ Closed(S, fields) => o \in S}

\* The part of a heap that can be reached.
Visible(roots, fields) == [o \in ReachableFrom(roots, fields) |-> fields[o]]

NoFields == [f \in Fields |-> Null]
=============================================================================
