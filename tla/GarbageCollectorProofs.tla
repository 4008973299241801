------------------------ MODULE GarbageCollectorProofs ------------------------
(***************************************************************************)
(* Proofs about GarbageCollector, for any objects and fields.              *)
(*                                                                         *)
(* The invariant says of every phase of a collection what is surrendered   *)
(* and what refers to the items, so that counts are exact at every step;   *)
(* from that follows what the collection keeps, and that the program sees  *)
(* nothing of it.                                                          *)
(***************************************************************************)
EXTENDS GarbageCollection, FiniteSetTheorems, WellFoundedInduction, TLAPS

\* The tenure of an object that a collection saves
Up(n) == IF n < MaxGen THEN n + 1 ELSE n

\* An object's tenure, as if the items had been saved
Effective(o) == IF o \in items THEN Up(tenure[o]) ELSE tenure[o]

\* The fields that refer to an object and are not surrendered
Holders(t) == {r \in Objects \X Fields : refs[r[1]][r[2]] = t /\ taken[r[1]][r[2]] # t}

Types ==
    /\ list \in Seq(Objects) /\ IsInjective(list)
    /\ held \subseteq Allocated
    /\ refs \in [Objects -> [Fields -> Objects \cup {Null}]]
    /\ taken \in [Objects -> [Fields -> Objects \cup {Null}]]
    /\ count \in [Objects -> Int]
    /\ tenure \in [Objects -> 0..MaxGen]
    /\ pc \in {"program", "collect", "reap", "free"}
    /\ doomed \subseteq Allocated /\ items \subseteq Allocated
    /\ saved \subseteq Allocated /\ todo \subseteq items
    /\ items \cap saved = {}
    /\ nlast \in Nat \cup {-1}

\* No field refers to an object that was destroyed.
Intact ==
    /\ \A o \in Objects, f \in Fields : refs[o][f] \in Allocated \cup {Null}
    /\ \A o \in Objects \ Allocated : refs[o] = NoFields /\ taken[o] = NoFields

Exact == \A t \in Objects :
    count[t] = (IF t \in held THEN 1 ELSE 0) + Cardinality(Holders(t))
               + (IF t \in items \cup saved THEN 1 ELSE 0)

Dead == \A o \in doomed : count[o] = 0

\* What is surrendered is a reference of an item to an object looked at.
Surrendered ==
    \A o \in Objects, f \in Fields : taken[o][f] # Null =>
       /\ pc # "program"
       /\ pc = "collect" => /\ o \in items /\ taken[o][f] \in items \cup saved
                            /\ refs[o][f] = IF f \in Pointers THEN Null ELSE taken[o][f]
       /\ pc = "reap" => o \in items /\ refs[o][f] = Null
       /\ pc = "free" => o \in items \cup doomed /\ refs[o][f] = Null

\* An item that was passed over has only the collector's reference while no other is restored.
Phases ==
    /\ pc = "program" => items = {} /\ saved = {}
    /\ pc = "collect" =>
          /\ doomed = {}
          /\ nlast # -1 => nlast >= Cardinality(items)
          /\ nlast = Cardinality(items) => \A o \in items \ todo : count[o] = 1
          /\ \A o \in items, f \in Fields :
                refs[o][f] \in items \cup saved => taken[o][f] = refs[o][f]
    /\ pc # "collect" => todo = {} /\ \A o \in items : count[o] = 1
    /\ pc = "reap" => doomed = {}
    /\ pc = "free" => saved = {}

\* The list would be in order of tenure if the items had been saved, but for those that are
\* destroyed.
Ordered == \A i, j \in DOMAIN list :
    i < j /\ (pc = "free" => {list[i], list[j]} \cap (items \cup doomed) = {})
       => Effective(list[i]) <= Effective(list[j])

\* What something outside of the objects looked at can reach
Roots     == held \cup (Allocated \ (items \cup saved))
Reachable == Graph!ReachableFrom(Roots, Contents)

\* Only what can be reached is saved.
Reached == pc \in {"collect", "reap"} => saved \subseteq Reachable

IInv ==
    Types /\ Intact /\ Exact /\ Dead /\ Surrendered /\ Phases /\ Ordered /\ Reached

-----------------------------------------------------------------------------
(* Sequences and finite sets. *)

\* A set of numbers has a least one.
LEMMA MinFacts ==
    ASSUME NEW I \in SUBSET Nat, I # {}
    PROVE  Min(I) \in I /\ \A j \in I : Min(I) <= j
<1> DEFINE R == OpToRel(<, Nat)
<1>1. IsWellFoundedOn(R, Nat)
  BY NatLessThanWellFounded
<1>2. \E k \in I : \A j \in I : ~(<<j, k>> \in R)
  <2> HIDE DEF R
  <2> QED
    BY <1>1, WFMin
<1>3. \E k \in I : \A j \in I : k <= j
  <2>1. PICK k \in I : \A j \in I : ~(<<j, k>> \in R)
    BY <1>2
  <2>2. \A j \in I : ~(j < k)
    BY <2>1 DEF OpToRel
  <2> QED
    BY <2>2
<1> QED
  BY <1>3 DEF Min

\* The elements of a sequence.
LEMMA RangeFacts ==
    ASSUME NEW T, NEW s \in Seq(T)
    PROVE  \A x : x \in Range(s) <=> \E i \in 1 .. Len(s) : s[i] = x
BY DEF Range

\* One sequence after another.
LEMMA ConcatFacts ==
    ASSUME NEW T, NEW u \in Seq(T), NEW v \in Seq(T)
    PROVE  /\ u \o v \in Seq(T) /\ Len(u \o v) = Len(u) + Len(v)
           /\ \A i \in 1 .. Len(u) : (u \o v)[i] = u[i]
           /\ \A i \in 1 .. Len(v) : (u \o v)[Len(u) + i] = v[i]
OBVIOUS

\* A sequence with an element in front of it
InFront(t, e, s) ==
    \A i \in DOMAIN t :
       \/ i = 1 /\ t[i] = e
       \/ i - 1 \in DOMAIN s /\ t[i] = s[i - 1]

\* An element put in front of a sequence.
LEMMA ConsFacts ==
    ASSUME NEW T, NEW s \in Seq(T), NEW e \in T
    PROVE  /\ <<e>> \o s \in Seq(T)
           /\ Range(<<e>> \o s) = Range(s) \cup {e}
           /\ InFront(<<e>> \o s, e, s)
<1> DEFINE t == <<e>> \o s
<1>1. /\ t \in Seq(T) /\ Len(t) = Len(s) + 1 /\ t[1] = e
      /\ \A i \in 1 .. Len(s) : t[1 + i] = s[i]
  <2>1. <<e>> \in Seq(T) /\ Len(<<e>>) = 1 /\ <<e>>[1] = e
    OBVIOUS
  <2> QED
    BY <2>1, ConcatFacts
<1> HIDE DEF t
<1>2. /\ Len(s) \in Nat /\ DOMAIN t = 1 .. Len(s) + 1 /\ DOMAIN s = 1 .. Len(s)
  BY <1>1
<1>3. InFront(t, e, s)
  <2> SUFFICES ASSUME NEW i \in DOMAIN t
               PROVE  \/ i = 1 /\ t[i] = e
                      \/ i - 1 \in DOMAIN s /\ t[i] = s[i - 1]
    BY DEF InFront
  <2>1. CASE i = 1
    <3>1. t[i] = e
      BY <1>1, <2>1
    <3> QED
      BY <2>1, <3>1
  <2>2. CASE i # 1
    <3>1. i - 1 \in 1 .. Len(s) /\ 1 + (i - 1) = i
      BY <1>2, <2>2
    <3>2. t[1 + (i - 1)] = s[i - 1]
      BY <1>1, <3>1
    <3> QED
      BY <1>2, <3>1, <3>2
  <2> QED
    BY <2>1, <2>2
<1>4. Range(t) = Range(s) \cup {e}
  <2>1. ASSUME NEW i \in DOMAIN t PROVE t[i] \in Range(s) \cup {e}
    BY <1>3 DEF Range, InFront
  <2>2. ASSUME NEW i \in DOMAIN s PROVE s[i] \in Range(t)
    <3>1. 1 + i \in DOMAIN t /\ t[1 + i] = s[i]
      BY <1>1, <1>2
    <3> QED
      BY <3>1 DEF Range
  <2>3. e \in Range(t)
    <3>1. 1 \in DOMAIN t
      BY <1>2
    <3> QED
      BY <1>1, <3>1 DEF Range
  <2> QED
    BY <2>1, <2>2, <2>3 DEF Range
<1> QED
  BY <1>1, <1>3, <1>4 DEF t

\* What is left of a sequence when its element at k is taken off
Without(t, s, k) ==
    /\ Len(t) = Len(s) - 1
    /\ \A i \in 1 .. Len(s) - 1 : t[i] = IF i < k THEN s[i] ELSE s[i + 1]

\* RemoveFirst takes an element off.
LEMMA RemoveFirstIs ==
    ASSUME NEW T, NEW s \in Seq(T), NEW e, NEW q \in 1 .. Len(s), s[q] = e
    PROVE  /\ RemoveFirst(s, e) \in Seq(T)
           /\ \E k \in 1 .. Len(s) : s[k] = e /\ Without(RemoveFirst(s, e), s, k)
<1> DEFINE I == {i \in 1 .. Len(s) : s[i] = e}
           k == Min(I)
           u == SubSeq(s, 1, k - 1)
           v == SubSeq(s, k + 1, Len(s))
<1>1. k \in 1 .. Len(s) /\ s[k] = e /\ I # {}
  <2>1. I \in SUBSET Nat /\ I # {}
    OBVIOUS
  <2>2. k \in I
    <3> HIDE DEF I
    <3> QED
      BY <2>1, MinFacts
  <2> QED
    BY <2>1, <2>2
<1>2. RemoveFirst(s, e) = u \o v
  BY <1>1 DEF RemoveFirst, SelectInSeq, RemoveAt
<1> HIDE DEF k, I
<1>3. u \in Seq(T) /\ Len(u) = k - 1 /\ \A i \in 1 .. k - 1 : u[i] = s[i]
  BY <1>1
<1>4. v \in Seq(T) /\ Len(v) = Len(s) - k /\ \A i \in 1 .. Len(s) - k : v[i] = s[k + i]
  BY <1>1
<1> HIDE DEF u, v
<1>5. /\ u \o v \in Seq(T) /\ Len(u \o v) = Len(u) + Len(v)
      /\ \A i \in 1 .. Len(u) : (u \o v)[i] = u[i]
      /\ \A i \in 1 .. Len(v) : (u \o v)[Len(u) + i] = v[i]
  <2>1. u \in Seq(T) /\ v \in Seq(T)
    BY <1>3, <1>4
  <2> QED
    BY <2>1, ConcatFacts
<1>6. Len(s) \in Nat /\ k \in 1 .. Len(s)
  BY <1>1
<1>7. u \o v \in Seq(T) /\ Len(u \o v) = Len(s) - 1
  BY <1>3, <1>4, <1>5, <1>6
<1>8. ASSUME NEW i \in 1 .. Len(s) - 1
      PROVE  (u \o v)[i] = IF i < k THEN s[i] ELSE s[i + 1]
  <2>1. CASE i < k
    <3>1. i \in 1 .. k - 1 /\ Len(u) = k - 1
      BY <1>3, <1>6, <2>1
    <3> QED
      BY <1>3, <1>5, <2>1, <3>1
  <2>2. CASE i >= k
    <3>1. i - (k - 1) \in 1 .. Len(s) - k /\ k + (i - (k - 1)) = i + 1 /\ ~(i < k)
      BY <1>6, <2>2
    <3>2. (u \o v)[Len(u) + (i - (k - 1))] = v[i - (k - 1)]
      BY <1>4, <1>5, <3>1
    <3>3. Len(u) + (i - (k - 1)) = i
      BY <1>3, <1>6
    <3> QED
      BY <1>4, <3>1, <3>2, <3>3
  <2>3. i < k \/ i >= k
    BY <1>6
  <2> QED
    BY <2>1, <2>2, <2>3
<1> HIDE DEF I
<1> DEFINE w == u \o v
<1> HIDE DEF w
<1> QED
  <2>1. RemoveFirst(s, e) = w
    BY <1>2 DEF w
  <2>2. w \in Seq(T) /\ Len(w) = Len(s) - 1
    BY <1>7 DEF w
  <2>3. \A i \in 1 .. Len(s) - 1 : w[i] = IF i < k THEN s[i] ELSE s[i + 1]
    BY <1>8 DEF w
  <2> QED
    BY <1>1, <2>1, <2>2, <2>3 DEF Without

\* Taking an object off the list.
LEMMA RemoveFirstFacts ==
    ASSUME NEW T, NEW s \in Seq(T), NEW e, IsInjective(s), e \in Range(s)
    PROVE  /\ RemoveFirst(s, e) \in Seq(T)
           /\ Range(RemoveFirst(s, e)) = Range(s) \ {e}
           /\ IsInjective(RemoveFirst(s, e))
           /\ \A i, j \in DOMAIN RemoveFirst(s, e) : i < j =>
                 \E a, b \in DOMAIN s : a < b /\ s[a] = RemoveFirst(s, e)[i]
                                              /\ s[b] = RemoveFirst(s, e)[j]
<1> DEFINE t == RemoveFirst(s, e)
<1>1. \A x : x \in Range(s) <=> \E i \in 1 .. Len(s) : s[i] = x
  BY RangeFacts
<1> HIDE DEF t
<1>2. PICK k \in 1 .. Len(s) :
         /\ s[k] = e
         /\ t \in Seq(T) /\ Len(t) = Len(s) - 1
         /\ \A i \in 1 .. Len(s) - 1 : t[i] = IF i < k THEN s[i] ELSE s[i + 1]
  <2>1. PICK q \in 1 .. Len(s) : s[q] = e
    BY <1>1
  <2>2. /\ RemoveFirst(s, e) \in Seq(T)
        /\ \E k \in 1 .. Len(s) : s[k] = e /\ Without(RemoveFirst(s, e), s, k)
    BY <2>1, RemoveFirstIs
  <2> QED
    BY <2>2 DEF t, Without
<1> DEFINE from(i) == IF i < k THEN i ELSE i + 1
<1>3. \A i, j \in 1 .. Len(s) : s[i] = s[j] => i = j
  BY DEF IsInjective
<1>4. Len(s) \in Nat /\ DOMAIN t = 1 .. Len(s) - 1 /\ DOMAIN s = 1 .. Len(s)
  BY <1>2
<1>5. \A i \in DOMAIN t : from(i) \in DOMAIN s /\ from(i) # k /\ s[from(i)] = t[i]
  BY <1>2, <1>4
<1>6. \A i, j \in DOMAIN t : i < j => from(i) < from(j)
  BY <1>2, <1>4
<1>7. \A i \in DOMAIN s : i # k => \E j \in DOMAIN t : from(j) = i
  <2> SUFFICES ASSUME NEW i \in DOMAIN s, i # k
               PROVE  \E j \in DOMAIN t : from(j) = i
    OBVIOUS
  <2>1. CASE i < k
    BY <1>4, <2>1
  <2>2. CASE i > k
    <3>1. i - 1 \in DOMAIN t /\ from(i - 1) = i
      BY <1>4, <2>2
    <3> QED
      BY <3>1
  <2> QED
    BY <1>4, <2>1, <2>2
<1> HIDE DEF from
<1>8. \A x : x \in Range(t) <=> x \in Range(s) /\ x # e
  <2>1. \A x : x \in Range(t) <=> \E i \in DOMAIN t : t[i] = x
    BY DEF Range
  <2>2. \A i \in DOMAIN s : s[i] = e <=> i = k
    BY <1>2, <1>3, <1>4
  <2>3. \A i \in DOMAIN t : t[i] \in Range(s) /\ t[i] # e
    BY <1>1, <1>4, <1>5, <2>2
  <2>4. \A i \in DOMAIN s : s[i] # e => \E j \in DOMAIN t : t[j] = s[i]
    BY <1>5, <1>7, <2>2
  <2> QED
    BY <1>1, <1>4, <2>1, <2>3, <2>4
<1>9. IsInjective(t)
  <2> SUFFICES ASSUME NEW i \in DOMAIN t, NEW j \in DOMAIN t, t[i] = t[j]
               PROVE  i = j
    BY DEF IsInjective
  <2>1. from(i) = from(j)
    BY <1>3, <1>4, <1>5
  <2>2. from(i) \in Int /\ ~(i < j) /\ ~(j < i)
    BY <1>4, <1>5, <1>6, <2>1
  <2> QED
    BY <1>4, <2>2
<1>10. \A i, j \in DOMAIN t : i < j =>
          \E a, b \in DOMAIN s : a < b /\ s[a] = t[i] /\ s[b] = t[j]
  BY <1>5, <1>6
<1> QED
  BY <1>2, <1>8, <1>9, <1>10 DEF t

\* How many things are in one of two sets that have none in common.
LEMMA CardUnion ==
    ASSUME NEW A, NEW B, IsFiniteSet(A), IsFiniteSet(B), A \cap B = {}
    PROVE  /\ IsFiniteSet(A \cup B)
           /\ Cardinality(A \cup B) = Cardinality(A) + Cardinality(B)
           /\ Cardinality(A) \in Nat /\ Cardinality(B) \in Nat
<1>1. Cardinality(A) \in Nat /\ Cardinality(B) \in Nat
  BY FS_CardinalityType
<1>2. /\ IsFiniteSet(A \cup B)
      /\ Cardinality(A \cup B) = Cardinality(A) + Cardinality(B) - Cardinality(A \cap B)
  BY FS_Union
<1>3. Cardinality(A \cap B) = 0
  BY FS_EmptySet
<1> QED
  BY <1>1, <1>2, <1>3

\* How many are left when some are taken away.
LEMMA CardDiff ==
    ASSUME NEW A, NEW B, IsFiniteSet(A), B \subseteq A
    PROVE  /\ IsFiniteSet(A \ B) /\ Cardinality(A \ B) = Cardinality(A) - Cardinality(B)
           /\ Cardinality(A) \in Nat /\ Cardinality(B) \in Nat
<1>1. IsFiniteSet(B) /\ IsFiniteSet(A \ B)
  BY FS_Subset
<1>2. (A \ B) \cap B = {} /\ (A \ B) \cup B = A
  OBVIOUS
<1>3. /\ Cardinality((A \ B) \cup B) = Cardinality(A \ B) + Cardinality(B)
      /\ Cardinality(A \ B) \in Nat /\ Cardinality(B) \in Nat
  BY <1>1, <1>2, CardUnion
<1>4. Cardinality(A) = Cardinality(A \ B) + Cardinality(B)
  BY <1>2, <1>3
<1> QED
  BY <1>1, <1>3, <1>4

\* The fields of one object, counted as a part of all.
LEMMA CardFields ==
    ASSUME NEW o, NEW A \in SUBSET Fields
    PROVE  /\ IsFiniteSet(A) /\ IsFiniteSet({o} \X A)
           /\ Cardinality({o} \X A) = Cardinality(A)
           /\ Cardinality(A) \in Nat
<1> DEFINE b == [f \in A |-> <<o, f>>]
           B == {o} \X A
<1>1. IsFiniteSet(A)
  BY HeapAssumption, FS_Subset
<1>2. b \in Bijection(A, B)
  <2>1. b \in [A -> B]
    OBVIOUS
  <2>2. \A f, g \in A : b[f] = b[g] => f = g
    OBVIOUS
  <2>3. \A r \in B : \E f \in A : b[f] = r
    <3> SUFFICES ASSUME NEW r \in B PROVE r[2] \in A /\ b[r[2]] = r
      OBVIOUS
    <3> QED
      OBVIOUS
  <2> HIDE DEF B, b
  <2> QED
    BY <2>1, <2>2, <2>3 DEF Bijection, Injection, Surjection, IsInjective
<1> HIDE DEF B, b
<1>3. ExistsBijection(A, B)
  BY <1>2 DEF ExistsBijection
<1>4. IsFiniteSet(B) /\ Cardinality(B) = Cardinality(A)
  BY <1>1, <1>3, FS_Bijection
<1>5. Cardinality(A) \in Nat
  BY <1>1, FS_CardinalityType
<1> QED
  BY <1>1, <1>4, <1>5 DEF B

\* There are finitely many fields.
LEMMA FieldsFinite ==
    ASSUME NEW H \in SUBSET (Objects \X Fields)
    PROVE  IsFiniteSet(H) /\ Cardinality(H) \in Nat
<1>1. IsFiniteSet(Objects \X Fields)
  BY HeapAssumption, FS_Product
<1>2. IsFiniteSet(H)
  BY <1>1, FS_Subset
<1> QED
  BY <1>2, FS_CardinalityType

\* The fields of one object in a set of fields
Row(H, o) == {f \in Fields : <<o, f>> \in H}

\* Two sets of fields that differ at most in those of one object
SameBut(H, K, o) ==
    \A x \in Objects, f \in Fields : x # o => (<<x, f>> \in H <=> <<x, f>> \in K)

\* How many fields are in a set when only those of one object change.
LEMMA CardRow ==
    ASSUME NEW H \in SUBSET (Objects \X Fields), NEW K \in SUBSET (Objects \X Fields),
           NEW o \in Objects, SameBut(H, K, o)
    PROVE  /\ Cardinality(K) = Cardinality(H) - Cardinality(Row(H, o)) + Cardinality(Row(K, o))
           /\ Cardinality(Row(H, o)) \in Nat /\ Cardinality(Row(K, o)) \in Nat
           /\ Cardinality(H) \in Nat /\ Cardinality(K) \in Nat
<1> DEFINE A == Row(H, o)
           B == Row(K, o)
           a == {o} \X A
           b == {o} \X B
<1>1. a \subseteq H /\ K = (H \ a) \cup b /\ (H \ a) \cap b = {}
  BY DEF SameBut, Row
<1>0. A \in SUBSET Fields /\ B \in SUBSET Fields
  BY DEF Row
<1>2. IsFiniteSet(a) /\ IsFiniteSet(b) /\ Cardinality(a) = Cardinality(A)
      /\ Cardinality(b) = Cardinality(B) /\ Cardinality(A) \in Nat /\ Cardinality(B) \in Nat
  BY <1>0, CardFields
<1> HIDE DEF a, b
<1>3. IsFiniteSet(H) /\ Cardinality(H) \in Nat /\ Cardinality(K) \in Nat
  BY FieldsFinite
<1>4. IsFiniteSet(H \ a) /\ Cardinality(H \ a) = Cardinality(H) - Cardinality(a)
  BY <1>1, <1>3, CardDiff
<1>5. Cardinality((H \ a) \cup b) = Cardinality(H \ a) + Cardinality(b)
  BY <1>1, <1>2, <1>4, CardUnion
<1>6. Cardinality(K) = Cardinality(H \ a) + Cardinality(b)
  BY <1>1, <1>5
<1> QED
  BY <1>2, <1>3, <1>4, <1>6

-----------------------------------------------------------------------------
(* What the invariant says of a count. *)

\* Null is no object.
LEMMA NullFacts ==
    \A t \in Objects : t # Null
BY HeapAssumption

\* A count is a number, and what it is when it is small.
LEMMA CountFacts ==
    ASSUME Types, Exact, NEW t \in Objects
    PROVE  /\ count[t] \in Nat
           /\ t \in items \cup saved => count[t] >= 1
           /\ count[t] = 0 => t \notin held /\ Holders(t) = {} /\ t \notin items \cup saved
           /\ t \in items \cup saved =>
                 (count[t] = 1 <=> t \notin held /\ Holders(t) = {})
<1> DEFINE n == Cardinality(Holders(t))
           h == IF t \in held THEN 1 ELSE 0
           p == IF t \in items \cup saved THEN 1 ELSE 0
<1>1. IsFiniteSet(Holders(t)) /\ n \in Nat
  <2>1. Holders(t) \in SUBSET (Objects \X Fields)
    BY DEF Holders
  <2> QED
    BY <2>1, FieldsFinite
<1>2. n = 0 <=> Holders(t) = {}
  BY <1>1, FS_EmptySet
<1>3. count[t] = h + n + p
  BY DEF Exact
<1> HIDE DEF n
<1> QED
  BY <1>1, <1>2, <1>3

-----------------------------------------------------------------------------
(* Every step keeps the invariant: the program's. *)

\* Nothing is allocated at first.
LEMMA Initial == Init => IInv
<1> SUFFICES ASSUME Init PROVE IInv
  OBVIOUS
<1>1. Allocated = {} /\ MaxGen \in Nat
  BY HeapAssumption DEF Init, Allocated
<1>2. list \in Seq(Objects) /\ IsInjective(list)
  BY DEF Init, IsInjective
<1>3. Types
  BY <1>1, <1>2 DEF Init, Types, NoFields
<1>4. ASSUME NEW t \in Objects PROVE Cardinality(Holders(t)) = 0
  <2>1. Holders(t) = {}
    BY NullFacts DEF Init, Holders, NoFields
  <2> QED
    BY <2>1, FS_EmptySet
<1>5. Exact
  <2> SUFFICES ASSUME NEW t \in Objects
               PROVE  count[t] = (IF t \in held THEN 1 ELSE 0) + Cardinality(Holders(t))
                                 + (IF t \in items \cup saved THEN 1 ELSE 0)
    BY DEF Exact
  <2>1. count[t] = 0 /\ t \notin held /\ t \notin items \cup saved
    BY DEF Init
  <2> QED
    BY <1>4, <2>1
<1>6. Intact /\ Dead /\ Surrendered /\ Phases /\ Ordered /\ Reached
  BY <1>1 DEF Init, Intact, Dead, Surrendered, Phases, Ordered, Reached, NoFields
<1> QED
  BY <1>3, <1>5, <1>6 DEF IInv

\* GarbageCollectible()
LEMMA NewKeeps ==
    ASSUME IInv, NEW o \in Objects, New(o)
    PROVE  IInv'
<1> USE DEF IInv
<1>1. /\ pc = "program" /\ doomed = {} /\ items = {} /\ saved = {} /\ todo = {}
      /\ o \notin Allocated /\ refs[o] = NoFields
  BY DEF New, Running, Phases, Intact
<1>2. /\ list' = <<o>> \o list /\ held' = held \cup {o} /\ doomed' = {}
      /\ count' = [count EXCEPT ![o] = 1] /\ tenure' = [tenure EXCEPT ![o] = 0]
      /\ refs' = refs /\ taken' = taken /\ pc' = pc /\ items' = items /\ saved' = saved
      /\ todo' = todo /\ nlast' = nlast
  BY <1>1 DEF New, collector
<1>3. /\ list' \in Seq(Objects) /\ Range(list') = Range(list) \cup {o}
      /\ \A i \in DOMAIN list' :
            \/ i = 1 /\ list'[i] = o
            \/ i - 1 \in DOMAIN list /\ list'[i] = list[i - 1]
  <2>1. list \in Seq(Objects) /\ list' = <<o>> \o list
    BY <1>2 DEF Types
  <2>2. /\ list' \in Seq(Objects) /\ Range(list') = Range(list) \cup {o}
        /\ InFront(list', o, list)
    BY <2>1, ConsFacts
  <2> QED
    BY <2>2 DEF InFront
<1>4. \A i \in DOMAIN list' : i \in Int
  BY <1>3
<1>5. Allocated' = Allocated \cup {o}
  BY <1>3 DEF Allocated, Range
<1>6. IsInjective(list')
  <2> SUFFICES ASSUME NEW i \in DOMAIN list', NEW j \in DOMAIN list', list'[i] = list'[j]
               PROVE  i = j
    BY DEF IsInjective
  <2>1. \A a, b \in DOMAIN list : list[a] = list[b] => a = b
    BY DEF Types, IsInjective
  <2>2. \A a \in DOMAIN list : list[a] # o
    BY <1>1 DEF Allocated
  <2> QED
    BY <1>3, <1>4, <2>1, <2>2
<1>7. Types'
  BY <1>1, <1>2, <1>3, <1>5, <1>6, HeapAssumption DEF Types
<1>8. Intact'
  BY <1>2, <1>5 DEF Intact
<1>9. ASSUME NEW t \in Objects PROVE Holders(t)' = Holders(t)
  BY <1>2 DEF Holders
<1>10. Exact'
  <2>1. Holders(o) = {}
    BY <1>1, NullFacts DEF Holders, Intact
  <2>2. o \notin held /\ Cardinality({}) = 0
    BY <1>1, FS_EmptySet DEF Types
  <2>3. ASSUME NEW t \in Objects
        PROVE  count'[t] = (IF t \in held' THEN 1 ELSE 0) + Cardinality(Holders(t))
                           + (IF t \in items' \cup saved' THEN 1 ELSE 0)
    <3>1. CASE t = o
      <4>1. count'[t] = 1 /\ t \in held' /\ t \notin items' \cup saved'
        BY <1>1, <1>2, <3>1 DEF Types
      <4>2. Cardinality(Holders(t)) = 0
        BY <2>1, <2>2, <3>1
      <4> QED
        BY <4>1, <4>2
    <3>2. CASE t # o
      BY <1>1, <1>2, <3>2 DEF Types, Exact
    <3> QED
      BY <3>1, <3>2
  <2> QED
    BY <1>9, <2>3 DEF Exact
<1>11. Dead' /\ Surrendered' /\ Phases' /\ Reached'
  BY <1>1, <1>2 DEF Dead, Surrendered, Phases, Reached
<1>12. Ordered'
  <2> SUFFICES ASSUME NEW i \in DOMAIN list', NEW j \in DOMAIN list', i < j
               PROVE  tenure'[list'[i]] <= tenure'[list'[j]]
    BY <1>1, <1>2 DEF Ordered, Effective
  <2>0. \A n \in DOMAIN list : list[n] \in Objects /\ list[n] # o
    BY <1>1 DEF Allocated, Types
  <2>1. /\ j # 1 /\ j - 1 \in DOMAIN list /\ list'[j] = list[j - 1]
        /\ list[j - 1] \in Objects /\ list[j - 1] # o
    <3>1. j # 1
      BY <1>3
    <3> QED
      BY <1>3, <2>0, <3>1
  <2>2. tenure'[list'[j]] = tenure[list[j - 1]] /\ tenure[list[j - 1]] \in Nat
    BY <1>2, <2>1, HeapAssumption DEF Types
  <2>3. CASE i = 1
    BY <1>2, <1>3, <2>2, <2>3 DEF Types
  <2>4. CASE i # 1
    <3>1. /\ i - 1 \in DOMAIN list /\ list'[i] = list[i - 1]
          /\ list[i - 1] \in Objects /\ list[i - 1] # o
      BY <1>3, <2>0, <2>4
    <3>2. i - 1 < j - 1 /\ i - 1 \in Int /\ j - 1 \in Int
      BY <1>4
    <3>3. tenure[list[i - 1]] <= tenure[list[j - 1]]
      BY <1>1, <2>1, <3>1, <3>2 DEF Ordered, Effective
    <3>4. tenure'[list'[i]] = tenure[list[i - 1]]
      BY <1>2, <3>1 DEF Types
    <3> QED
      BY <2>2, <3>3, <3>4
  <2> QED
    BY <2>3, <2>4
<1> QED
  BY <1>7, <1>8, <1>10, <1>11, <1>12

\* A reference is copied.
LEMMA TakeKeeps ==
    ASSUME IInv, NEW o \in Objects, Take(o)
    PROVE  IInv'
<1> USE DEF IInv
<1>1. /\ pc = "program" /\ doomed = {} /\ items = {} /\ saved = {} /\ todo = {}
      /\ o \in Allocated /\ o \notin held
  <2>1. PICK x \in held, f \in Fields : refs[x][f] = o
    BY DEF Take
  <2>2. x \in Objects /\ o # Null
    BY NullFacts DEF Types, Allocated
  <2>3. o \in Allocated
    BY <2>1, <2>2 DEF Intact
  <2> QED
    BY <2>3 DEF Take, Running, Phases
<1>2. /\ list' = list /\ held' = held \cup {o} /\ doomed' = {}
      /\ count' = [count EXCEPT ![o] = @ + 1] /\ tenure' = tenure
      /\ refs' = refs /\ taken' = taken /\ pc' = pc /\ items' = items /\ saved' = saved
      /\ todo' = todo /\ nlast' = nlast
  BY <1>1 DEF Take, collector
<1>3. Allocated' = Allocated
  BY <1>2 DEF Allocated
<1>4. Types'
  BY <1>1, <1>2, <1>3 DEF Types
<1>5. Exact'
  <2>1. ASSUME NEW t \in Objects PROVE Holders(t)' = Holders(t) /\ Cardinality(Holders(t)) \in Nat
    <3>1. Holders(t) \in SUBSET (Objects \X Fields)
      BY DEF Holders
    <3> QED
      BY <1>2, <3>1, FieldsFinite DEF Holders
  <2>2. ASSUME NEW t \in Objects
        PROVE  count'[t] = (IF t \in held' THEN 1 ELSE 0) + Cardinality(Holders(t))
                           + (IF t \in items' \cup saved' THEN 1 ELSE 0)
    BY <1>1, <1>2, <2>1 DEF Types, Exact
  <2> QED
    BY <2>1, <2>2 DEF Exact
<1>6. Intact' /\ Dead' /\ Surrendered' /\ Phases' /\ Reached'
  BY <1>1, <1>2, <1>3 DEF Intact, Dead, Surrendered, Phases, Reached
<1>7. Ordered'
  BY <1>1, <1>2 DEF Ordered, Effective
<1> QED
  BY <1>4, <1>5, <1>6, <1>7

\* A reference is released.
LEMMA DropKeeps ==
    ASSUME IInv, NEW o \in Objects, Drop(o)
    PROVE  IInv'
<1> USE DEF IInv
<1>1. /\ pc = "program" /\ doomed = {} /\ items = {} /\ saved = {} /\ todo = {}
      /\ o \in held
  BY DEF Drop, Running, Phases
<1>2. /\ list' = list /\ held' = held \ {o}
      /\ doomed' = {x \in Allocated : count[x] > 0 /\ count'[x] = 0}
      /\ count' = [count EXCEPT ![o] = @ - 1] /\ tenure' = tenure
      /\ refs' = refs /\ taken' = taken /\ pc' = pc /\ items' = items /\ saved' = saved
      /\ todo' = todo /\ nlast' = nlast
  BY <1>1 DEF Drop, collector, Doom
<1>3. Allocated' = Allocated
  BY <1>2 DEF Allocated
<1>4. Types'
  BY <1>1, <1>2, <1>3 DEF Types
<1>5. Exact'
  <2>1. ASSUME NEW t \in Objects PROVE Holders(t)' = Holders(t) /\ Cardinality(Holders(t)) \in Nat
    <3>1. Holders(t) \in SUBSET (Objects \X Fields)
      BY DEF Holders
    <3> QED
      BY <1>2, <3>1, FieldsFinite DEF Holders
  <2>2. ASSUME NEW t \in Objects
        PROVE  count'[t] = (IF t \in held' THEN 1 ELSE 0) + Cardinality(Holders(t))
                           + (IF t \in items' \cup saved' THEN 1 ELSE 0)
    BY <1>1, <1>2, <2>1 DEF Types, Exact
  <2> QED
    BY <2>1, <2>2 DEF Exact
<1>6. Intact' /\ Dead' /\ Surrendered' /\ Phases' /\ Reached'
  BY <1>1, <1>2, <1>3 DEF Intact, Dead, Surrendered, Phases, Reached
<1>7. Ordered'
  BY <1>1, <1>2 DEF Ordered, Effective
<1> QED
  BY <1>4, <1>5, <1>6, <1>7

\* A field is assigned.
LEMMA AssignKeeps ==
    ASSUME IInv, NEW o \in Objects, NEW f \in Fields, NEW t \in held \cup {Null}, Assign(o, f, t)
    PROVE  IInv'
<1> USE DEF IInv
<1>1. /\ pc = "program" /\ doomed = {} /\ items = {} /\ saved = {} /\ todo = {}
      /\ o \in held /\ o \in Allocated
  BY DEF Assign, Running, Phases, Types
<1>2. /\ list' = list /\ held' = held
      /\ doomed' = {x \in Allocated : count[x] > 0 /\ count'[x] = 0}
      /\ count' = Plus(Minus(count, refs[o]), refs'[o]) /\ tenure' = tenure
      /\ refs' = [refs EXCEPT ![o][f] = t]
      /\ taken' = taken /\ pc' = pc /\ items' = items /\ saved' = saved
      /\ todo' = todo /\ nlast' = nlast
  BY <1>1 DEF Assign, collector, Doom
<1>3. Allocated' = Allocated
  BY <1>2 DEF Allocated
<1>4. /\ t \in Allocated \cup {Null} /\ t \in Objects \cup {Null}
  BY DEF Types, Allocated
<1>5. /\ refs' \in [Objects -> [Fields -> Objects \cup {Null}]]
      /\ \A x \in Objects : x # o => refs'[x] = refs[x]
      /\ \A g \in Fields : refs'[o][g] = IF g = f THEN t ELSE refs[o][g]
  BY <1>2, <1>4 DEF Types
<1>6. \A x \in Objects, g \in Fields : taken[x][g] = Null
  BY <1>1 DEF Surrendered
<1>7. ASSUME NEW x \in Objects
      PROVE  /\ count'[x] \in Int
             /\ count'[x] = (IF x \in held' THEN 1 ELSE 0) + Cardinality(Holders(x)')
                           + (IF x \in items' \cup saved' THEN 1 ELSE 0)
  <2> DEFINE A == {g \in Fields : refs[o][g] = x}
             B == {g \in Fields : refs'[o][g] = x}
             H == Holders(x)
             K == Holders(x)'
  <2>1. count'[x] = count[x] - Cardinality(A) + Cardinality(B)
    BY <1>2 DEF Plus, Minus
  <2>2. /\ H = {r \in Objects \X Fields : refs[r[1]][r[2]] = x}
        /\ K = {r \in Objects \X Fields : refs'[r[1]][r[2]] = x}
    BY <1>2, <1>6, NullFacts DEF Holders
  <2>3. /\ H \in SUBSET (Objects \X Fields) /\ K \in SUBSET (Objects \X Fields)
        /\ SameBut(H, K, o) /\ A = Row(H, o) /\ B = Row(K, o)
    BY <1>5, <2>2 DEF SameBut, Row
  <2> HIDE DEF A, B, H, K
  <2>4. /\ Cardinality(K) = Cardinality(H) - Cardinality(A) + Cardinality(B)
        /\ Cardinality(A) \in Nat /\ Cardinality(B) \in Nat
        /\ Cardinality(H) \in Nat /\ Cardinality(K) \in Nat
    BY <2>3, CardRow
  <2>5. count[x] = (IF x \in held THEN 1 ELSE 0) + Cardinality(H)
                   + (IF x \in items \cup saved THEN 1 ELSE 0)
    BY DEF Exact, H
  <2>6. count'[x] = (IF x \in held' THEN 1 ELSE 0) + Cardinality(K)
                   + (IF x \in items' \cup saved' THEN 1 ELSE 0)
    BY <1>2, <2>1, <2>4, <2>5
  <2>7. count'[x] \in Int
    BY <2>4, <2>6
  <2> QED
    BY <2>6, <2>7 DEF K
<1>8. Exact'
  BY <1>7 DEF Exact
<1>9. Types'
  <2>1. count' \in [Objects -> Int]
    BY <1>2, <1>7 DEF Plus, Minus
  <2> QED
    BY <1>1, <1>2, <1>3, <1>5, <2>1 DEF Types
<1>10. Intact'
  BY <1>1, <1>2, <1>3, <1>4, <1>5 DEF Intact
<1>11. Dead' /\ Surrendered' /\ Phases' /\ Reached'
  BY <1>1, <1>2, <1>6 DEF Dead, Surrendered, Phases, Reached
<1>12. Ordered'
  BY <1>1, <1>2 DEF Ordered, Effective
<1> QED
  BY <1>8, <1>9, <1>10, <1>11, <1>12

\* Nothing refers to an object that is to be destroyed.
LEMMA DoomedFacts ==
    ASSUME IInv, NEW o \in doomed
    PROVE  /\ o \in Allocated /\ o \in Objects /\ count[o] = 0
           /\ o \notin held /\ o \notin items /\ o \notin saved
           /\ pc \in {"program", "free"} /\ todo = {} /\ saved = {}
           /\ \A x \in Objects, f \in Fields : refs[x][f] # o
<1> USE DEF IInv
<1>1. o \in Allocated /\ o \in Objects /\ count[o] = 0 /\ o # Null
  BY NullFacts DEF Types, Dead, Allocated
<1>2. o \notin held /\ Holders(o) = {} /\ o \notin items \cup saved
  BY <1>1, CountFacts
<1>3. pc \in {"program", "free"} /\ todo = {} /\ saved = {}
  BY DEF Phases, Types
<1>4. ASSUME NEW x \in Objects, NEW f \in Fields, refs[x][f] = o PROVE FALSE
  <2>1. taken[x][f] = o
    <3>1. <<x, f>> \in Objects \X Fields /\ <<x, f>> \notin Holders(o)
      BY <1>2
    <3> QED
      BY <1>4, <3>1 DEF Holders
  <2> QED
    BY <1>1, <1>3, <1>4, <2>1 DEF Surrendered
<1> QED
  BY <1>1, <1>2, <1>3, <1>4

\* ~GarbageCollectible
LEMMA DestroyKeeps ==
    ASSUME IInv, NEW o \in Objects, Destroy(o)
    PROVE  IInv'
<1> USE DEF IInv
<1>1. /\ o \in doomed /\ o \in Allocated /\ count[o] = 0 /\ o \notin held /\ o \notin items
      /\ pc \in {"program", "free"} /\ todo = {} /\ saved = {}
      /\ \A x \in Objects, f \in Fields : refs[x][f] # o
  <2>1. o \in doomed
    BY DEF Destroy
  <2> QED
    BY <2>1, DoomedFacts
<1>2. /\ list' = RemoveFirst(list, o) /\ held' = held
      /\ doomed' = (doomed \ {o}) \cup {x \in Allocated : count[x] > 0 /\ count'[x] = 0}
      /\ count' = Minus(count, refs[o]) /\ tenure' = tenure
      /\ refs' = [refs EXCEPT ![o] = NoFields]
      /\ taken' = [taken EXCEPT ![o] = NoFields]
      /\ pc' = pc /\ items' = items /\ saved' = saved /\ todo' = todo /\ nlast' = nlast
  BY DEF Destroy
<1>3. /\ list' \in Seq(Objects) /\ IsInjective(list') /\ Range(list') = Range(list) \ {o}
      /\ \A i, j \in DOMAIN list' : i < j =>
            \E a, b \in DOMAIN list : a < b /\ list[a] = list'[i] /\ list[b] = list'[j]
  <2>1. list \in Seq(Objects) /\ IsInjective(list) /\ o \in Range(list)
    BY <1>1 DEF Types, Allocated, Range
  <2> QED
    BY <1>2, <2>1, RemoveFirstFacts
<1>4. Allocated' = Allocated \ {o}
  BY <1>3 DEF Allocated, Range
<1>5. /\ refs' \in [Objects -> [Fields -> Objects \cup {Null}]]
      /\ taken' \in [Objects -> [Fields -> Objects \cup {Null}]]
      /\ \A x \in Objects : x # o => refs'[x] = refs[x] /\ taken'[x] = taken[x]
      /\ refs'[o] = NoFields /\ taken'[o] = NoFields
  BY <1>2 DEF Types, NoFields
<1>6. ASSUME NEW x \in Objects
      PROVE  /\ count'[x] \in Int
             /\ count'[x] = (IF x \in held' THEN 1 ELSE 0) + Cardinality(Holders(x)')
                           + (IF x \in items' \cup saved' THEN 1 ELSE 0)
             /\ count'[x] <= count[x] /\ count[x] \in Nat /\ count'[x] \in Nat
             /\ x \in items => count'[x] >= 1
  <2> DEFINE A == {g \in Fields : refs[o][g] = x}
             B == {g \in Fields : FALSE}
             H == Holders(x)
             K == Holders(x)'
  <2>1. count'[x] = count[x] - Cardinality(A)
    BY <1>2 DEF Minus
  <2>2. /\ H \in SUBSET (Objects \X Fields) /\ K \in SUBSET (Objects \X Fields)
    BY DEF Holders
  <2>3. SameBut(H, K, o)
    BY <1>5 DEF Holders, SameBut
  <2>4. A = Row(H, o)
    <3>1. \A g \in Fields : refs[o][g] = x => taken[o][g] # x
      BY <1>1, NullFacts DEF Surrendered
    <3> QED
      BY <3>1 DEF Holders, Row
  <2>5. B = Row(K, o)
    BY <1>5, NullFacts DEF Holders, NoFields, Row
  <2>6. B = {} /\ Cardinality({}) = 0
    BY FS_EmptySet
  <2> HIDE DEF A, B, H, K
  <2>7. /\ Cardinality(K) = Cardinality(H) - Cardinality(A) + Cardinality(B)
        /\ Cardinality(A) \in Nat /\ Cardinality(B) \in Nat
        /\ Cardinality(H) \in Nat /\ Cardinality(K) \in Nat
    BY <2>2, <2>3, <2>4, <2>5, CardRow
  <2>8. count[x] = (IF x \in held THEN 1 ELSE 0) + Cardinality(H)
                   + (IF x \in items \cup saved THEN 1 ELSE 0)
    BY DEF Exact, H
  <2>9. count'[x] = (IF x \in held' THEN 1 ELSE 0) + Cardinality(K)
                   + (IF x \in items' \cup saved' THEN 1 ELSE 0)
    BY <1>2, <2>1, <2>6, <2>7, <2>8
  <2>10. /\ count'[x] \in Nat /\ count'[x] <= count[x] /\ count[x] \in Nat
         /\ x \in items => count'[x] >= 1
    BY <1>2, <2>1, <2>7, <2>8, <2>9
  <2> QED
    BY <2>9, <2>10 DEF K
<1>7. Exact'
  BY <1>6 DEF Exact
<1>8. Types'
  <2>1. count' \in [Objects -> Int]
    BY <1>2, <1>6 DEF Minus
  <2>2. doomed' \subseteq Allocated' /\ held' \subseteq Allocated' /\ items' \subseteq Allocated'
    BY <1>1, <1>2, <1>4 DEF Types
  <2> QED
    BY <1>1, <1>2, <1>3, <1>5, <2>1, <2>2 DEF Types
<1>9. Intact'
  <2>1. ASSUME NEW x \in Objects, NEW f \in Fields PROVE refs'[x][f] \in Allocated' \cup {Null}
    <3>1. CASE x = o
      BY <1>5, <3>1 DEF NoFields
    <3>2. CASE x # o
      BY <1>1, <1>4, <1>5, <3>2 DEF Intact
    <3> QED
      BY <3>1, <3>2
  <2>2. \A x \in Objects \ Allocated' : refs'[x] = NoFields /\ taken'[x] = NoFields
    BY <1>4, <1>5 DEF Intact
  <2> QED
    BY <2>1, <2>2 DEF Intact
<1>10. Dead'
  <2> SUFFICES ASSUME NEW x \in doomed' PROVE count'[x] = 0
    BY DEF Dead
  <2>1. CASE x \in doomed
    <3>1. count[x] = 0 /\ x \in Objects
      BY <2>1, DoomedFacts
    <3> QED
      BY <1>6, <3>1
  <2>2. CASE x \notin doomed
    BY <1>2, <2>2
  <2> QED
    BY <2>1, <2>2
<1>11. Surrendered'
  <2> SUFFICES ASSUME NEW x \in Objects, NEW f \in Fields, taken'[x][f] # Null
               PROVE  pc = "free" /\ x \in items' \cup doomed' /\ refs'[x][f] = Null
    BY <1>1, <1>2 DEF Surrendered
  <2>1. x # o
    BY <1>5 DEF NoFields
  <2> QED
    BY <1>1, <1>2, <1>5, <2>1 DEF Surrendered
<1>12. Phases'
  <2>1. pc # "collect" /\ pc # "reap"
    BY <1>1
  <2>2. ASSUME NEW x \in items PROVE count'[x] = 1
    <3>1. x \in Objects /\ count[x] = 1
      BY <2>1 DEF Types, Allocated, Phases
    <3> QED
      BY <1>6, <3>1
  <2> QED
    BY <1>1, <1>2, <2>1, <2>2 DEF Phases
<1>13. Ordered'
  <2> SUFFICES ASSUME NEW i \in DOMAIN list', NEW j \in DOMAIN list', i < j,
                      pc = "free" => {list'[i], list'[j]} \cap (items \cup doomed') = {}
               PROVE  Effective(list'[i]) <= Effective(list'[j])
    BY <1>2 DEF Ordered, Effective
  <2>1. PICK a, b \in DOMAIN list : a < b /\ list[a] = list'[i] /\ list[b] = list'[j]
    BY <1>3
  <2>2. list'[i] # o /\ list'[j] # o
    BY <1>3 DEF Range
  <2>3. pc = "free" => {list[a], list[b]} \cap (items \cup doomed) = {}
    BY <1>2, <2>1, <2>2
  <2> QED
    BY <2>1, <2>3 DEF Ordered
<1>14. Reached'
  BY <1>1, <1>2 DEF Reached
<1> QED
  BY <1>7, <1>8, <1>9, <1>10, <1>11, <1>12, <1>13, <1>14

-----------------------------------------------------------------------------
(* The collector's. *)

\* What is pinned and what it surrenders.
LEMMA AccumulateKeeps ==
    ASSUME IInv, NEW gens \in {-1} \cup 1 .. MaxGen, Accumulate(gens)
    PROVE  IInv'
<1> USE DEF IInv
<1>1. pc = "program" /\ doomed = {} /\ items = {} /\ saved = {} /\ todo = {}
  BY DEF Accumulate, Running, Phases
<1>2. /\ list' = list /\ held' = held /\ tenure' = tenure
      /\ items' = Young(gens)
      /\ taken' = [o \in Objects |-> IF o \in items' THEN Into(items', o) ELSE NoFields]
      /\ refs' = [o \in Objects |-> [f \in Fields |->
                    IF f \in Pointers /\ taken'[o][f] # Null THEN Null ELSE refs[o][f]]]
      /\ count' = [t \in Objects |->
                    count[t] + (IF t \in items' THEN 1 ELSE 0)
                             - Cardinality({r \in items' \X Fields : taken'[r[1]][r[2]] = t})]
      /\ doomed' = {x \in Allocated : count[x] > 0 /\ count'[x] = 0}
      /\ pc' = "collect" /\ saved' = {} /\ todo' = {} /\ nlast' = -1
  BY <1>1 DEF Accumulate, Doom
<1>3. Allocated' = Allocated /\ Allocated \subseteq Objects /\ items' \subseteq Allocated
  BY <1>2 DEF Allocated, Young, Types
<1>4. \A o \in Objects, f \in Fields : taken[o][f] = Null
  BY <1>1 DEF Surrendered
<1>5. ASSUME NEW o \in Objects, NEW f \in Fields
      PROVE  /\ taken'[o][f] = IF o \in items' /\ refs[o][f] \in items' THEN refs[o][f] ELSE Null
             /\ refs'[o][f] = IF f \in Pointers /\ taken'[o][f] # Null THEN Null ELSE refs[o][f]
  BY <1>2 DEF Into, NoFields
<1>6. /\ refs' \in [Objects -> [Fields -> Objects \cup {Null}]]
      /\ taken' \in [Objects -> [Fields -> Objects \cup {Null}]]
  <2>1. ASSUME NEW o \in Objects, NEW f \in Fields
        PROVE  refs'[o][f] \in Objects \cup {Null} /\ taken'[o][f] \in Objects \cup {Null}
    BY <1>5 DEF Types
  <2>2. ASSUME NEW o \in Objects
        PROVE  /\ refs'[o] \in [Fields -> Objects \cup {Null}]
               /\ taken'[o] \in [Fields -> Objects \cup {Null}]
    <3>1. refs'[o] = [f \in Fields |-> refs'[o][f]]
      BY <1>2
    <3>2. taken'[o] = [f \in Fields |-> taken'[o][f]]
      BY <1>2 DEF Into, NoFields
    <3> QED
      BY <2>1, <3>1, <3>2
  <2> QED
    BY <1>2, <2>2
<1>7. ASSUME NEW t \in Objects
      PROVE  /\ count'[t] = (IF t \in held' THEN 1 ELSE 0) + Cardinality(Holders(t)')
                           + (IF t \in items' \cup saved' THEN 1 ELSE 0)
             /\ count'[t] \in Nat /\ count[t] \in Nat
             /\ t \in items' => count'[t] >= 1
             /\ t \notin items' => count'[t] = count[t]
  <2> DEFINE D == {r \in items' \X Fields : taken'[r[1]][r[2]] = t}
             H == Holders(t)
             K == Holders(t)'
  <2>1. count'[t] = count[t] + (IF t \in items' THEN 1 ELSE 0) - Cardinality(D)
    BY <1>2
  <2>2. H \in SUBSET (Objects \X Fields) /\ D \subseteq H /\ K = H \ D
    <3>1. H = {r \in Objects \X Fields : refs[r[1]][r[2]] = t}
      BY <1>4, NullFacts DEF Holders
    <3>2. ASSUME NEW o \in Objects, NEW f \in Fields
          PROVE  /\ <<o, f>> \in D => refs[o][f] = t
                 /\ <<o, f>> \in K <=> refs[o][f] = t /\ <<o, f>> \notin D
      BY <1>3, <1>5, NullFacts DEF Holders
    <3>3. D \subseteq Objects \X Fields /\ K \subseteq Objects \X Fields
      BY <1>3 DEF Holders
    <3> HIDE DEF D, K, H
    <3> QED
      BY <3>1, <3>2, <3>3
  <2>3. t \notin items' => D = {}
    BY <1>3, <1>5, NullFacts
  <2> HIDE DEF D, H, K
  <2>4. /\ IsFiniteSet(H) /\ Cardinality(H) \in Nat
        /\ Cardinality(H \ D) = Cardinality(H) - Cardinality(D) /\ Cardinality(D) \in Nat
    BY <2>2, FieldsFinite, CardDiff
  <2>5. Cardinality(K) = Cardinality(H) - Cardinality(D) /\ Cardinality(K) \in Nat
    <3>1. K \in SUBSET (Objects \X Fields)
      BY <2>2
    <3> QED
      BY <2>2, <2>4, <3>1, FieldsFinite
  <2>6. count[t] = (IF t \in held THEN 1 ELSE 0) + Cardinality(H)
    BY <1>1, <2>4 DEF Exact, H, Types
  <2>7. t \notin items' => Cardinality(D) = 0
    BY <2>3, FS_EmptySet
  <2> QED
    BY <1>2, <2>1, <2>4, <2>5, <2>6, <2>7 DEF K
<1>8. Exact'
  BY <1>7 DEF Exact
<1>9. doomed' = {}
  <2> SUFFICES ASSUME NEW x \in Allocated, count[x] > 0, count'[x] = 0 PROVE FALSE
    BY <1>2
  <2>1. x \in Objects
    BY <1>3
  <2> QED
    BY <1>7, <2>1
<1>10. Types'
  <2>1. count' \in [Objects -> Int]
    <3>1. \A t \in Objects : count'[t] \in Int
      BY <1>7
    <3> DEFINE c(t) == count[t] + (IF t \in items' THEN 1 ELSE 0)
                       - Cardinality({r \in items' \X Fields : taken'[r[1]][r[2]] = t})
    <3>2. count' = [t \in Objects |-> c(t)]
      BY <1>2
    <3> HIDE DEF c
    <3> QED
      BY <3>1, <3>2
  <2>2. items' \cap saved' = {} /\ todo' \subseteq items' /\ nlast' \in Nat \cup {-1}
        /\ saved' \subseteq Allocated'
    BY <1>2
  <2> QED
    BY <1>2, <1>3, <1>6, <1>9, <2>1, <2>2 DEF Types
<1>11. Intact'
  <2>1. \A o \in Objects, f \in Fields : refs'[o][f] \in Allocated' \cup {Null}
    BY <1>3, <1>5 DEF Intact
  <2>2. ASSUME NEW o \in Objects \ Allocated' PROVE refs'[o] = NoFields /\ taken'[o] = NoFields
    <3>1. refs[o] = NoFields /\ o \notin items'
      BY <1>3 DEF Intact
    <3> QED
      BY <1>2, <1>5, <3>1 DEF NoFields
  <2> QED
    BY <2>1, <2>2 DEF Intact
<1>12. Dead' /\ Reached'
  BY <1>2, <1>9 DEF Dead, Reached
<1>13. Surrendered'
  BY <1>2, <1>5 DEF Surrendered
<1>14. Phases'
  <2>1. nlast' # Cardinality(items')
    <3>1. IsFiniteSet(items')
      BY <1>3, HeapAssumption, FS_Subset
    <3>2. Cardinality(items') \in Nat
      BY <3>1, FS_CardinalityType
    <3> QED
      BY <1>2, <3>2
  <2>2. ASSUME NEW o \in items', NEW f \in Fields, refs'[o][f] \in items' \cup saved'
        PROVE  taken'[o][f] = refs'[o][f]
    BY <1>2, <1>3, <1>5, <2>2, NullFacts
  <2> QED
    BY <1>2, <1>9, <2>1, <2>2 DEF Phases
<1>15. Ordered'
  <2> SUFFICES ASSUME NEW i \in DOMAIN list, NEW j \in DOMAIN list, i < j
               PROVE  Effective(list[i])' <= Effective(list[j])'
    BY <1>2 DEF Ordered
  <2> DEFINE x == list[i]
             y == list[j]
  <2>1. /\ tenure[x] <= tenure[y] /\ x \in Objects /\ y \in Objects
        /\ tenure[x] \in 0 .. MaxGen /\ tenure[y] \in 0 .. MaxGen /\ MaxGen \in Nat
    BY <1>1, <1>3, HeapAssumption DEF Ordered, Effective, Types, Allocated
  <2>2. x \in items' /\ y \notin items' => tenure[x] + 1 <= tenure[y]
    <3> SUFFICES ASSUME x \in items', y \notin items' PROVE tenure[x] + 1 <= tenure[y]
      OBVIOUS
    <3>1. gens >= 0 /\ gens \in Int
      BY <1>2, HeapAssumption DEF Young
    <3>2. tenure[x] < gens
      <4>1. PICK k \in DOMAIN list : list[k] = x /\ \A n \in 1 .. k : tenure[list[n]] < gens
        BY <1>2, <3>1 DEF Young
      <4>2. k \in 1 .. k
        BY DEF Types
      <4> QED
        BY <4>1, <4>2
    <3>3. PICK k \in 1 .. j : ~(tenure[list[k]] < gens)
      BY <1>2 DEF Young
    <3>4. k \in DOMAIN list /\ (k = j \/ k < j) /\ tenure[list[k]] \in Int
      <4>1. Len(list) \in Nat /\ DOMAIN list = 1 .. Len(list)
        BY DEF Types
      <4>2. k \in DOMAIN list /\ (k = j \/ k < j)
        BY <4>1
      <4> QED
        BY <4>2 DEF Types
    <3>5. tenure[list[k]] <= tenure[y]
      BY <1>1, <2>1, <3>4 DEF Ordered, Effective
    <3> QED
      BY <2>1, <3>1, <3>2, <3>3, <3>4, <3>5
  <2> HIDE DEF x, y
  <2>3. /\ Effective(x)' = IF x \in items' THEN Up(tenure[x]) ELSE tenure[x]
        /\ Effective(y)' = IF y \in items' THEN Up(tenure[y]) ELSE tenure[y]
    BY <1>2, <2>1 DEF Effective, x, y, Up
  <2>4. Effective(x)' <= Effective(y)'
    BY <2>1, <2>2, <2>3 DEF Up
  <2> QED
    BY <2>4 DEF x, y
<1> QED
  BY <1>8, <1>10, <1>11, <1>12, <1>13, <1>14, <1>15

\* What can be reached is the least closed set of objects with the roots.
LEMMA ReachFacts ==
    ASSUME NEW R, NEW F
    PROVE  /\ Graph!ReachableFrom(R, F) \subseteq DOMAIN F
           /\ R \cap DOMAIN F \subseteq Graph!ReachableFrom(R, F)
           /\ Graph!Closed(Graph!ReachableFrom(R, F), F)
           /\ \A S \in SUBSET DOMAIN F :
                 R \cap DOMAIN F \subseteq S /\ Graph!Closed(S, F)
                    => Graph!ReachableFrom(R, F) \subseteq S
<1> DEFINE Q == Graph!ReachableFrom(R, F)
<1>1. Q \subseteq DOMAIN F /\ R \cap DOMAIN F \subseteq Q
  BY DEF Graph!ReachableFrom
<1>2. ASSUME NEW S \in SUBSET DOMAIN F, R \cap DOMAIN F \subseteq S, Graph!Closed(S, F)
      PROVE  Q \subseteq S
  BY <1>2 DEF Graph!ReachableFrom
<1>3. ASSUME NEW o \in Q, NEW f \in Fields, F[o][f] \in DOMAIN F PROVE F[o][f] \in Q
  <2> SUFFICES ASSUME NEW S \in SUBSET DOMAIN F, R \cap DOMAIN F \subseteq S, Graph!Closed(S, F)
               PROVE  F[o][f] \in S
    BY <1>3 DEF Graph!ReachableFrom
  <2>1. o \in S
    BY <1>2
  <2> QED
    BY <1>3, <2>1 DEF Graph!Closed
<1>4. Graph!Closed(Q, F)
  <2> HIDE DEF Q
  <2> QED
    BY <1>3 DEF Graph!Closed
<1> HIDE DEF Q
<1>5. \A S \in SUBSET DOMAIN F :
         R \cap DOMAIN F \subseteq S /\ Graph!Closed(S, F) => Q \subseteq S
  BY <1>2
<1> QED
  BY <1>1, <1>4, <1>5 DEF Q

\* What the objects hold, surrendered or not.
LEMMA ContentsFacts ==
    /\ DOMAIN Contents = Allocated
    /\ \A o \in Allocated : \A f \in Fields :
          Contents[o][f] = IF taken[o][f] # Null THEN taken[o][f] ELSE refs[o][f]
BY DEF Contents

\* The items are visited once more.
LEMMA StartPassKeeps ==
    ASSUME IInv, StartPass
    PROVE  IInv'
<1> USE DEF IInv
<1>1. pc = "collect" /\ todo = {} /\ doomed = {}
  BY DEF StartPass, Phases
<1>2. /\ list' = list /\ held' = held /\ refs' = refs /\ count' = count /\ tenure' = tenure
      /\ doomed' = doomed /\ pc' = pc /\ items' = items /\ saved' = saved /\ taken' = taken
      /\ todo' = items /\ nlast' = Cardinality(items)
  BY DEF StartPass, heap
<1>3. Cardinality(items) \in Nat /\ Allocated' = Allocated
  <2>1. items \subseteq Objects
    BY DEF Types, Allocated
  <2>2. IsFiniteSet(items)
    BY <2>1, HeapAssumption, FS_Subset
  <2> QED
    BY <1>2, <2>2, FS_CardinalityType DEF Allocated
<1>4. Types'
  BY <1>2, <1>3 DEF Types
<1>5. Intact' /\ Exact' /\ Dead' /\ Surrendered' /\ Ordered'
  BY <1>2, <1>3 DEF Intact, Exact, Holders, Dead, Surrendered, Ordered, Effective
<1>6. Phases'
  BY <1>1, <1>2, <1>3 DEF Phases
<1>7. Reached'
  <2>1. Roots' = Roots /\ Contents' = Contents
    BY <1>2, <1>3 DEF Roots, Contents
  <2> QED
    BY <1>2, <2>1 DEF Reached, Reachable
<1> QED
  BY <1>4, <1>5, <1>6, <1>7

\* An item without references but the pin is passed over.
LEMMA PassOverKeeps ==
    ASSUME IInv, NEW o \in Objects, PassOver(o)
    PROVE  IInv'
<1> USE DEF IInv
<1>1. pc = "collect" /\ o \in todo /\ count[o] = 1
  BY DEF PassOver
<1>2. /\ list' = list /\ held' = held /\ refs' = refs /\ count' = count /\ tenure' = tenure
      /\ doomed' = doomed /\ pc' = pc /\ items' = items /\ saved' = saved /\ taken' = taken
      /\ todo' = todo \ {o} /\ nlast' = nlast
  BY DEF PassOver, heap
<1>3. Allocated' = Allocated
  BY <1>2 DEF Allocated
<1>4. Types'
  BY <1>2, <1>3 DEF Types
<1>5. Intact' /\ Exact' /\ Dead' /\ Surrendered' /\ Ordered'
  BY <1>2, <1>3 DEF Intact, Exact, Holders, Dead, Surrendered, Ordered, Effective
<1>6. Phases'
  BY <1>1, <1>2 DEF Phases
<1>7. Reached'
  <2>1. Roots' = Roots /\ Contents' = Contents
    BY <1>2, <1>3 DEF Roots, Contents
  <2> QED
    BY <1>2, <2>1 DEF Reached, Reachable
<1> QED
  BY <1>4, <1>5, <1>6, <1>7

\* An item that something refers to can be reached.
LEMMA RestoredReached ==
    ASSUME IInv, pc = "collect", NEW o \in items, count[o] # 1
    PROVE  o \in Reachable
<1> USE DEF IInv
<1>1. o \in Objects /\ o \in Allocated /\ Allocated \subseteq Objects
  BY DEF Types, Allocated
<1>2. /\ Reachable \subseteq Allocated /\ Roots \cap Allocated \subseteq Reachable
      /\ Graph!Closed(Reachable, Contents)
  BY ReachFacts, ContentsFacts DEF Reachable
<1>3. o \in held \/ Holders(o) # {}
  BY <1>1, CountFacts
<1>4. CASE o \in held
  BY <1>1, <1>2, <1>4 DEF Roots
<1>5. CASE Holders(o) # {}
  <2>1. PICK x \in Objects, f \in Fields : refs[x][f] = o /\ taken[x][f] # o
    BY <1>5 DEF Holders
  <2>2. x \in Allocated
    BY <1>1, <2>1, NullFacts DEF Intact, NoFields
  <2>3. x \notin items
    BY <2>1 DEF Phases
  <2>4. x \in Reachable
    BY <1>2, <2>2, <2>3 DEF Reached, Roots
  <2>5. Contents[x][f] = o
    BY <2>1, <2>2, <2>3, ContentsFacts DEF Surrendered
  <2> QED
    BY <1>1, <1>2, <2>4, <2>5, ContentsFacts DEF Graph!Closed
<1> QED
  BY <1>3, <1>4, <1>5

\* An item that something refers to is saved.
LEMMA RestoreKeeps ==
    ASSUME IInv, NEW o \in Objects, Restore(o)
    PROVE  IInv'
<1> USE DEF IInv
<1>1. /\ pc = "collect" /\ o \in todo /\ count[o] # 1 /\ o \in items /\ o \in Allocated
      /\ o \notin saved /\ doomed = {}
  BY DEF Restore, Types, Phases
<1>2. /\ list' = list /\ held' = held /\ doomed' = doomed /\ pc' = pc /\ nlast' = nlast
      /\ count' = Plus(count, taken[o])
      /\ refs' = [refs EXCEPT ![o] = Contents[o]]
      /\ taken' = [taken EXCEPT ![o] = NoFields]
      /\ saved' = saved \cup {o} /\ items' = items \ {o} /\ todo' = todo \ {o}
      /\ tenure' = [tenure EXCEPT ![o] = Up(@)]
  BY DEF Restore, Up
<1>3. Allocated' = Allocated /\ Allocated \subseteq Objects
      /\ items' \cup saved' = items \cup saved
  BY <1>1, <1>2 DEF Allocated, Types
<1>4. /\ \A x \in Objects : x # o => refs'[x] = refs[x] /\ taken'[x] = taken[x]
      /\ refs'[o] = Contents[o] /\ taken'[o] = NoFields
  BY <1>2 DEF Types
<1>5. \A f \in Fields : refs'[o][f] = (IF taken[o][f] # Null THEN taken[o][f] ELSE refs[o][f])
                        /\ taken'[o][f] = Null
  BY <1>1, <1>4, ContentsFacts DEF NoFields
<1>6. \A f \in Fields : taken[o][f] # Null =>
         refs[o][f] = Null \/ refs[o][f] = taken[o][f]
  BY <1>1 DEF Surrendered
<1>7. ASSUME NEW x \in Objects
      PROVE  /\ count'[x] = (IF x \in held' THEN 1 ELSE 0) + Cardinality(Holders(x)')
                           + (IF x \in items' \cup saved' THEN 1 ELSE 0)
             /\ count'[x] \in Int
  <2> DEFINE T == {g \in Fields : taken[o][g] = x}
             H == Holders(x)
             K == Holders(x)'
  <2>1. count'[x] = count[x] + Cardinality(T)
    BY <1>2 DEF Plus
  <2>2. H \in SUBSET (Objects \X Fields) /\ K \in SUBSET (Objects \X Fields)
    BY DEF Holders
  <2>3. SameBut(H, K, o)
    BY <1>4 DEF Holders, SameBut
  <2>4. Row(K, o) = Row(H, o) \cup T /\ Row(H, o) \cap T = {}
    <3>1. Row(H, o) = {g \in Fields : refs[o][g] = x /\ taken[o][g] # x}
      BY DEF Holders, Row
    <3>2. Row(K, o) = {g \in Fields : refs'[o][g] = x}
      BY <1>5, NullFacts DEF Holders, Row
    <3>3. ASSUME NEW g \in Fields
          PROVE  refs'[o][g] = x <=> (refs[o][g] = x /\ taken[o][g] # x) \/ taken[o][g] = x
      BY <1>5, <1>6, NullFacts
    <3> QED
      BY <3>1, <3>2, <3>3
  <2>5. T \in SUBSET Fields /\ Row(H, o) \in SUBSET Fields
    BY DEF Row
  <2> HIDE DEF T, H, K
  <2>6. /\ Cardinality(K) = Cardinality(H) - Cardinality(Row(H, o)) + Cardinality(Row(K, o))
        /\ Cardinality(Row(H, o)) \in Nat /\ Cardinality(Row(K, o)) \in Nat
        /\ Cardinality(H) \in Nat /\ Cardinality(K) \in Nat
    BY <2>2, <2>3, CardRow
  <2>7. IsFiniteSet(T) /\ IsFiniteSet(Row(H, o)) /\ Cardinality(T) \in Nat
    BY <2>5, CardFields
  <2>8. Cardinality(Row(K, o)) = Cardinality(Row(H, o)) + Cardinality(T)
    BY <2>4, <2>7, CardUnion
  <2>9. count[x] = (IF x \in held THEN 1 ELSE 0) + Cardinality(H)
                   + (IF x \in items \cup saved THEN 1 ELSE 0)
    BY DEF Exact, H
  <2> QED
    BY <1>2, <1>3, <2>1, <2>6, <2>7, <2>8, <2>9 DEF K
<1>8. Exact'
  BY <1>7 DEF Exact
<1>9. Types'
  <2>1. count' \in [Objects -> Int]
    BY <1>2, <1>7 DEF Plus
  <2>2. Contents[o] \in [Fields -> Objects \cup {Null}] /\ NoFields \in [Fields -> Objects \cup {Null}]
    BY <1>1 DEF Contents, NoFields, Types
  <2>3. /\ refs' \in [Objects -> [Fields -> Objects \cup {Null}]]
        /\ taken' \in [Objects -> [Fields -> Objects \cup {Null}]]
    BY <1>2, <2>2 DEF Types
  <2>4. tenure' \in [Objects -> 0 .. MaxGen]
    <3>1. Up(tenure[o]) \in 0 .. MaxGen
      BY HeapAssumption DEF Types, Up
    <3> QED
      BY <1>2, <3>1 DEF Types
  <2>5. /\ held' \subseteq Allocated' /\ doomed' \subseteq Allocated' /\ items' \subseteq Allocated'
        /\ saved' \subseteq Allocated' /\ todo' \subseteq items' /\ items' \cap saved' = {}
    BY <1>1, <1>2, <1>3 DEF Types
  <2> QED
    BY <1>2, <2>1, <2>3, <2>4, <2>5 DEF Types
<1>10. Intact'
  <2>1. \A x \in Objects, f \in Fields : refs'[x][f] \in Allocated' \cup {Null}
    <3>1. \A f \in Fields : taken[o][f] # Null => taken[o][f] \in Allocated
      BY <1>1 DEF Surrendered, Types
    <3> QED
      BY <1>3, <1>4, <1>5, <3>1 DEF Intact
  <2>2. \A x \in Objects \ Allocated' : refs'[x] = NoFields /\ taken'[x] = NoFields
    BY <1>1, <1>3, <1>4 DEF Intact
  <2> QED
    BY <2>1, <2>2 DEF Intact
<1>11. Dead'
  BY <1>1, <1>2 DEF Dead
<1>12. Surrendered'
  <2> SUFFICES ASSUME NEW x \in Objects, NEW f \in Fields, taken'[x][f] # Null
               PROVE  /\ x \in items' /\ taken'[x][f] \in items' \cup saved'
                      /\ refs'[x][f] = IF f \in Pointers THEN Null ELSE taken'[x][f]
    BY <1>1, <1>2 DEF Surrendered
  <2>1. x # o
    BY <1>5
  <2> QED
    BY <1>1, <1>2, <1>3, <1>4, <2>1 DEF Surrendered
<1>13. Phases'
  <2>1. nlast' # Cardinality(items') /\ (nlast' # -1 => nlast' >= Cardinality(items'))
    <3>1. IsFiniteSet(items)
      BY <1>3, HeapAssumption, FS_Subset DEF Types
    <3>2. /\ Cardinality(items \ {o}) = Cardinality(items) - 1 /\ Cardinality(items) \in Nat
          /\ Cardinality(items \ {o}) \in Nat
      <4>1. IsFiniteSet(items \ {o})
        BY <3>1, FS_Subset
      <4> QED
        BY <1>1, <3>1, <4>1, FS_RemoveElement, FS_CardinalityType
    <3>3. nlast # -1 => nlast >= Cardinality(items)
      BY <1>1 DEF Phases
    <3>4. nlast \in Nat \cup {-1}
      BY DEF Types
    <3> QED
      BY <1>2, <3>2, <3>3, <3>4
  <2>2. ASSUME NEW x \in items', NEW f \in Fields, refs'[x][f] \in items' \cup saved'
        PROVE  taken'[x][f] = refs'[x][f]
    <3>1. x # o /\ x \in items /\ x \in Objects
      BY <1>2, <1>3 DEF Types
    <3> QED
      BY <1>1, <1>3, <1>4, <2>2, <3>1 DEF Phases
  <2> QED
    BY <1>1, <1>2, <2>1, <2>2 DEF Phases
<1>14. Ordered'
  <2>1. ASSUME NEW x \in Objects PROVE Effective(x)' = Effective(x)
    BY <1>1, <1>2 DEF Effective, Up, Types
  <2>2. \A i \in DOMAIN list : list[i] \in Objects
    BY DEF Types
  <2>3. \A i, j \in DOMAIN list : i < j => Effective(list[i]) <= Effective(list[j])
    BY <1>1 DEF Ordered
  <2>4. \A i \in DOMAIN list : Effective(list[i])' = Effective(list[i])
    BY <1>2, <2>1, <2>2 DEF Effective
  <2> QED
    BY <1>1, <1>2, <2>3, <2>4 DEF Ordered
<1>15. Reached'
  <2>1. Roots' = Roots
    BY <1>2, <1>3 DEF Roots
  <2>2. Contents' = Contents
    <3>1. ASSUME NEW x \in Allocated, NEW f \in Fields
          PROVE  (IF taken'[x][f] # Null THEN taken'[x][f] ELSE refs'[x][f])
                 = (IF taken[x][f] # Null THEN taken[x][f] ELSE refs[x][f])
      BY <1>3, <1>4, <1>5
    <3> QED
      BY <1>3, <3>1 DEF Contents
  <2>3. Reachable' = Reachable
    BY <2>1, <2>2 DEF Reachable
  <2> QED
    BY <1>1, <1>2, <2>3, RestoredReached DEF Reached
<1> QED
  BY <1>8, <1>9, <1>10, <1>11, <1>12, <1>13, <1>14, <1>15

\* The items that are left drop what they kept of the references they surrendered.
LEMMA DestroyReferencesKeeps ==
    ASSUME IInv, DestroyReferences
    PROVE  IInv'
<1> USE DEF IInv
<1>1. /\ pc = "collect" /\ todo = {} /\ doomed = {} /\ \A o \in items : count[o] = 1
  BY DEF DestroyReferences, Phases
<1>2. /\ list' = list /\ held' = held /\ count' = count /\ tenure' = tenure
      /\ doomed' = doomed /\ items' = items /\ saved' = saved /\ taken' = taken
      /\ todo' = todo /\ nlast' = nlast /\ pc' = "reap"
      /\ refs' = [o \in Objects |-> [f \in Fields |->
                    IF o \in items /\ taken[o][f] # Null THEN Null ELSE refs[o][f]]]
  BY DEF DestroyReferences
<1>3. Allocated' = Allocated
  BY <1>2 DEF Allocated
<1>4. ASSUME NEW o \in Objects, NEW f \in Fields
      PROVE  /\ refs'[o][f] = IF taken[o][f] # Null THEN Null ELSE refs[o][f]
             /\ taken[o][f] # Null => refs[o][f] \in {Null, taken[o][f]} /\ o \in items
  BY <1>1, <1>2 DEF Surrendered
<1>5. Types'
  <2>1. refs' \in [Objects -> [Fields -> Objects \cup {Null}]]
    BY <1>2 DEF Types
  <2> QED
    BY <1>2, <1>3, <2>1 DEF Types
<1>6. Intact'
  <2>1. ASSUME NEW o \in Objects \ Allocated PROVE refs'[o] = NoFields
    BY <1>2, <2>1 DEF Intact, NoFields
  <2> QED
    BY <1>2, <1>3, <1>4, <2>1 DEF Intact
<1>7. Exact'
  <2>1. ASSUME NEW t \in Objects PROVE Holders(t)' = Holders(t)
    BY <1>2, <1>4, NullFacts DEF Holders
  <2> QED
    BY <1>2, <2>1 DEF Exact
<1>8. Dead' /\ Phases'
  BY <1>1, <1>2 DEF Dead, Phases
<1>9. Surrendered'
  BY <1>2, <1>4 DEF Surrendered
<1>10. Ordered'
  BY <1>1, <1>2 DEF Ordered, Effective
<1>11. Reached'
  <2>1. Roots' = Roots /\ Contents' = Contents
    <3>1. Allocated \subseteq Objects
      BY DEF Types, Allocated
    <3>2. ASSUME NEW x \in Allocated, NEW f \in Fields
          PROVE  (IF taken'[x][f] # Null THEN taken'[x][f] ELSE refs'[x][f])
                 = (IF taken[x][f] # Null THEN taken[x][f] ELSE refs[x][f])
      BY <1>2, <1>4, <3>1
    <3> QED
      BY <1>2, <1>3, <3>2 DEF Roots, Contents
  <2> QED
    BY <1>1, <1>2, <2>1 DEF Reached, Reachable
<1> QED
  BY <1>5, <1>6, <1>7, <1>8, <1>9, <1>10, <1>11

\* The pins of the saved objects go.
LEMMA UnpinSavedKeeps ==
    ASSUME IInv, UnpinSaved
    PROVE  IInv'
<1> USE DEF IInv
<1>1. /\ pc = "reap" /\ todo = {} /\ doomed = {} /\ \A o \in items : count[o] = 1 /\ o \notin saved
  BY DEF UnpinSaved, Phases, Types
<1>2. /\ list' = list /\ held' = held /\ refs' = refs /\ tenure' = tenure
      /\ items' = items /\ saved' = {} /\ taken' = taken
      /\ todo' = todo /\ nlast' = nlast /\ pc' = "free"
      /\ count' = [o \in Objects |-> IF o \in saved THEN count[o] - 1 ELSE count[o]]
      /\ doomed' = {o \in Allocated : count[o] > 0 /\ count'[o] = 0}
  BY <1>1 DEF UnpinSaved, Doom
<1>3. Allocated' = Allocated /\ Allocated \subseteq Objects
  BY <1>2 DEF Allocated, Types
<1>4. Exact'
  <2>1. ASSUME NEW t \in Objects PROVE Holders(t)' = Holders(t) /\ Cardinality(Holders(t)) \in Nat
    <3>1. Holders(t) \in SUBSET (Objects \X Fields)
      BY DEF Holders
    <3> QED
      BY <1>2, <3>1, FieldsFinite DEF Holders
  <2>2. ASSUME NEW t \in Objects
        PROVE  count'[t] = (IF t \in held' THEN 1 ELSE 0) + Cardinality(Holders(t))
                           + (IF t \in items' \cup saved' THEN 1 ELSE 0)
    BY <1>1, <1>2, <2>1 DEF Types, Exact
  <2> QED
    BY <2>1, <2>2 DEF Exact
<1>5. Types'
  <2>1. count' \in [Objects -> Int]
    BY <1>2 DEF Types
  <2> QED
    BY <1>1, <1>2, <1>3, <2>1 DEF Types
<1>6. Intact' /\ Dead' /\ Surrendered' /\ Reached'
  BY <1>1, <1>2, <1>3 DEF Intact, Dead, Surrendered, Reached
<1>7. Phases'
  <2>1. \A o \in items : count'[o] = 1
    BY <1>1, <1>2, <1>3 DEF Types
  <2> QED
    BY <1>1, <1>2, <2>1 DEF Phases
<1>8. Ordered'
  BY <1>1, <1>2 DEF Ordered, Effective
<1> QED
  BY <1>4, <1>5, <1>6, <1>7, <1>8

\* The pin of an item that is left goes, and the item with it.
LEMMA UnpinKeeps ==
    ASSUME IInv, NEW o \in Objects, Unpin(o)
    PROVE  IInv'
<1> USE DEF IInv
<1>1. /\ pc = "free" /\ todo = {} /\ doomed = {} /\ o \in items /\ count[o] = 1 /\ saved = {}
      /\ o \in Allocated
  BY DEF Unpin, Phases, Types
<1>2. /\ list' = list /\ held' = held /\ refs' = refs /\ tenure' = tenure
      /\ items' = items \ {o} /\ saved' = saved /\ taken' = taken
      /\ todo' = todo /\ nlast' = nlast /\ pc' = pc
      /\ count' = [count EXCEPT ![o] = @ - 1]
      /\ doomed' = {x \in Allocated : count[x] > 0 /\ count'[x] = 0}
  BY <1>1 DEF Unpin, Doom
<1>3. Allocated' = Allocated /\ Allocated \subseteq Objects
  BY <1>2 DEF Allocated, Types
<1>4. doomed' = {o}
  BY <1>1, <1>2, <1>3 DEF Types
<1>5. Exact'
  <2>1. ASSUME NEW t \in Objects PROVE Holders(t)' = Holders(t) /\ Cardinality(Holders(t)) \in Nat
    <3>1. Holders(t) \in SUBSET (Objects \X Fields)
      BY DEF Holders
    <3> QED
      BY <1>2, <3>1, FieldsFinite DEF Holders
  <2>2. ASSUME NEW t \in Objects
        PROVE  count'[t] = (IF t \in held' THEN 1 ELSE 0) + Cardinality(Holders(t))
                           + (IF t \in items' \cup saved' THEN 1 ELSE 0)
    BY <1>1, <1>2, <2>1 DEF Types, Exact
  <2> QED
    BY <2>1, <2>2 DEF Exact
<1>6. Types'
  BY <1>1, <1>2, <1>3, <1>4 DEF Types
<1>7. Intact' /\ Surrendered' /\ Reached'
  BY <1>1, <1>2, <1>3, <1>4 DEF Intact, Surrendered, Reached
<1>8. Dead' /\ Phases'
  BY <1>1, <1>2, <1>3, <1>4 DEF Dead, Phases, Types
<1>9. Ordered'
  <2> SUFFICES ASSUME NEW i \in DOMAIN list, NEW j \in DOMAIN list, i < j,
                      {list[i], list[j]} \cap (items' \cup doomed') = {}
               PROVE  Effective(list[i])' <= Effective(list[j])'
    BY <1>1, <1>2 DEF Ordered
  <2>1. {list[i], list[j]} \cap (items \cup doomed) = {}
    BY <1>1, <1>2, <1>4
  <2>2. Effective(list[i]) <= Effective(list[j])
    BY <2>1 DEF Ordered
  <2>3. /\ Effective(list[i]) = tenure[list[i]] /\ Effective(list[j]) = tenure[list[j]]
        /\ Effective(list[i])' = tenure[list[i]] /\ Effective(list[j])' = tenure[list[j]]
    BY <1>2, <2>1 DEF Effective
  <2> QED
    BY <2>2, <2>3
<1> QED
  BY <1>5, <1>6, <1>7, <1>8, <1>9

\* The collection ends.
LEMMA FinishKeeps ==
    ASSUME IInv, Finish
    PROVE  IInv'
<1> USE DEF IInv
<1>1. /\ pc = "free" /\ todo = {} /\ doomed = {} /\ items = {} /\ saved = {}
  BY DEF Finish, Phases
<1>2. /\ list' = list /\ held' = held /\ refs' = refs /\ count' = count /\ tenure' = tenure
      /\ doomed' = doomed /\ items' = items /\ saved' = saved /\ taken' = taken
      /\ todo' = todo /\ nlast' = -1 /\ pc' = "program"
  BY DEF Finish, heap
<1>3. Allocated' = Allocated
  BY <1>2 DEF Allocated
<1>4. Types'
  BY <1>2, <1>3 DEF Types
<1>5. Intact' /\ Exact' /\ Dead' /\ Reached' /\ Phases'
  BY <1>1, <1>2, <1>3 DEF Intact, Exact, Holders, Dead, Reached, Phases
<1>6. Surrendered'
  BY <1>1, <1>2 DEF Surrendered
<1>7. Ordered'
  BY <1>1, <1>2 DEF Ordered, Effective
<1> QED
  BY <1>4, <1>5, <1>6, <1>7

-----------------------------------------------------------------------------

\* Every state the collector reaches is one the invariant describes.
THEOREM Invariance == Spec => []IInv
<1>1. IInv /\ [Next]_vars => IInv'
  <2> SUFFICES ASSUME IInv, [Next]_vars PROVE IInv'
    OBVIOUS
  <2>1. CASE UNCHANGED vars
    <3>1. /\ list' = list /\ held' = held /\ refs' = refs /\ count' = count
          /\ tenure' = tenure /\ doomed' = doomed /\ items' = items /\ saved' = saved
          /\ taken' = taken /\ todo' = todo /\ nlast' = nlast /\ pc' = pc
      BY <2>1 DEF vars, heap, collector
    <3>2. Allocated' = Allocated
      BY <3>1 DEF Allocated
    <3>3. Roots' = Roots /\ Contents' = Contents
      BY <3>1, <3>2 DEF Roots, Contents
    <3>4. Types' /\ Intact' /\ Exact' /\ Dead' /\ Surrendered' /\ Phases' /\ Ordered'
      BY <3>1, <3>2 DEF IInv, Types, Intact, Exact, Holders, Dead, Surrendered, Phases,
         Ordered, Effective
    <3>5. Reached'
      BY <3>1, <3>3 DEF IInv, Reached, Reachable
    <3> QED
      BY <3>4, <3>5 DEF IInv
  <2>2. CASE Collect
    BY <2>2, StartPassKeeps, DestroyReferencesKeeps, UnpinSavedKeeps, FinishKeeps,
       PassOverKeeps, RestoreKeeps, UnpinKeeps, DestroyKeeps DEF Collect
  <2>3. CASE \E o \in Objects : New(o) \/ Take(o) \/ Drop(o)
    BY <2>3, NewKeeps, TakeKeeps, DropKeeps
  <2>4. CASE \E o \in Objects, f \in Fields, t \in held \cup {Null} : Assign(o, f, t)
    BY <2>4, AssignKeeps
  <2>5. CASE \E gens \in {-1} \cup 1 .. MaxGen : Accumulate(gens)
    BY <2>5, AccumulateKeeps
  <2> QED
    BY <2>1, <2>2, <2>3, <2>4, <2>5 DEF Next
<1> QED
  BY Initial, <1>1, PTL DEF Spec

\* The length of a sequence that has nothing twice.
LEMMA InjectiveLength ==
    ASSUME NEW T, NEW s \in Seq(T), IsInjective(s)
    PROVE  Cardinality(Range(s)) = Len(s)
<1>1. Len(s) \in Nat /\ DOMAIN s = 1 .. Len(s)
  OBVIOUS
<1>2. s \in Bijection(1 .. Len(s), Range(s))
  <2>1. s \in [1 .. Len(s) -> Range(s)]
    BY <1>1 DEF Range
  <2>2. \A y \in Range(s) : \E i \in 1 .. Len(s) : s[i] = y
    BY RangeFacts
  <2>3. \A i, j \in 1 .. Len(s) : s[i] = s[j] => i = j
    BY <1>1 DEF IsInjective
  <2> QED
    BY <2>1, <2>2, <2>3 DEF Bijection, Injection, Surjection, IsInjective
<1>3. IsFiniteSet(1 .. Len(s)) /\ Cardinality(1 .. Len(s)) = Len(s)
  BY <1>1, FS_Interval
<1>4. ExistsBijection(1 .. Len(s), Range(s))
  BY <1>2 DEF ExistsBijection
<1> QED
  BY <1>3, <1>4, FS_Bijection

\* The state keeps its types: no object is on the list twice, and no count is negative.
THEOREM TypeCorrect == Spec => []TypeOK
<1>1. IInv => TypeOK
  <2> SUFFICES ASSUME IInv PROVE TypeOK
    OBVIOUS
  <2>1. count \in [Objects -> Nat]
    BY CountFacts DEF IInv, Types
  <2>2. Cardinality(Allocated) = Len(list)
    <3>1. Allocated = Range(list)
      BY DEF Allocated, Range
    <3> QED
      BY <3>1, InjectiveLength DEF IInv, Types
  <2> QED
    BY <2>1, <2>2 DEF IInv, Types, TypeOK
<1> QED
  BY <1>1, Invariance, PTL

\* A count is always the number of references to the object.
THEOREM Counts == Spec => []CountsExact
<1>1. IInv => CountsExact
  <2> SUFFICES ASSUME IInv, NEW t \in Allocated
               PROVE  count[t] = (IF t \in held THEN 1 ELSE 0)
                          + Cardinality({r \in Allocated \X Fields :
                                           refs[r[1]][r[2]] = t /\ taken[r[1]][r[2]] # t})
                          + (IF t \in items \cup saved THEN 1 ELSE 0)
    BY DEF CountsExact
  <2>1. t \in Objects /\ Allocated \subseteq Objects
    BY DEF IInv, Types, Allocated
  <2>2. Holders(t) = {r \in Allocated \X Fields : refs[r[1]][r[2]] = t /\ taken[r[1]][r[2]] # t}
    <3>1. ASSUME NEW o \in Objects, NEW f \in Fields, refs[o][f] = t PROVE o \in Allocated
      BY <2>1, <3>1, NullFacts DEF IInv, Intact, NoFields
    <3> QED
      BY <2>1, <3>1 DEF Holders
  <2> QED
    BY <2>1, <2>2 DEF IInv, Exact
<1> QED
  BY <1>1, Invariance, PTL

\* The list is in order of tenure whenever the program runs.
THEOREM Sorted == Spec => []SortedByTenure
<1>1. IInv => SortedByTenure
  BY DEF IInv, Phases, Ordered, Effective, SortedByTenure
<1> QED
  BY <1>1, Invariance, PTL

-----------------------------------------------------------------------------
(* What the program sees. *)

\* Nothing that lives refers to what a collection has found to be garbage.
LEMMA LiveClosed ==
    ASSUME IInv, pc # "collect"
    PROVE  /\ held \subseteq Allocated \ (items \cup doomed)
           /\ Graph!Closed(Allocated \ (items \cup doomed), Contents)
           /\ \A o \in Allocated \ (items \cup doomed), f \in Fields :
                 /\ Contents[o][f] = refs[o][f]
                 /\ refs[o][f] \notin items \cup doomed
<1> USE DEF IInv
<1>1. Allocated \subseteq Objects /\ \A t \in items : t \in Objects
  BY DEF Types, Allocated
<1>2. \A t \in items : t \notin held /\ Holders(t) = {} /\ t # Null
  <2>1. \A t \in items : count[t] = 1
    BY DEF Phases
  <2> QED
    BY <1>1, <2>1, CountFacts, NullFacts
<1>3. \A t \in doomed : t \notin held /\ \A x \in Objects, f \in Fields : refs[x][f] # t
  BY DoomedFacts
<1>4. ASSUME NEW o \in Allocated \ (items \cup doomed), NEW f \in Fields
      PROVE  Contents[o][f] = refs[o][f] /\ refs[o][f] \notin items \cup doomed
  <2>1. o \in Objects
    BY <1>1
  <2>2. taken[o][f] = Null
    BY <2>1 DEF Surrendered, Types
  <2>3. Contents[o][f] = refs[o][f]
    BY <2>2, ContentsFacts
  <2>4. refs[o][f] \notin doomed
    BY <1>3, <2>1
  <2>5. ASSUME refs[o][f] \in items PROVE FALSE
    <3>1. <<o, f>> \in Objects \X Fields /\ <<o, f>> \notin Holders(refs[o][f])
      BY <1>2, <2>1, <2>5
    <3> QED
      BY <1>2, <2>2, <2>5, <3>1 DEF Holders
  <2> QED
    BY <2>3, <2>4, <2>5
<1>5. held \subseteq Allocated \ (items \cup doomed)
  BY <1>2, <1>3 DEF Types
<1>6. Graph!Closed(Allocated \ (items \cup doomed), Contents)
  BY <1>4, ContentsFacts DEF Graph!Closed
<1> QED
  BY <1>4, <1>5, <1>6

\* A collection keeps exactly those of the objects it looked at that can be reached.
THEOREM Exactness == Spec => []CollectionExact
<1>1. IInv => CollectionExact
  <2> SUFFICES ASSUME IInv, pc = "reap" PROVE saved = (saved \cup items) \cap Reachable
    BY DEF CollectionExact, Reachable, Roots
  <2>1. saved \subseteq Reachable
    BY DEF IInv, Reached
  <2>2. doomed = {} /\ saved \cap items = {} /\ held \subseteq Allocated
    BY DEF IInv, Phases, Types
  <2>3. held \subseteq Allocated \ items /\ Graph!Closed(Allocated \ items, Contents)
    BY <2>2, LiveClosed
  <2>4. Reachable \subseteq Allocated \ items
    <3>1. Allocated \ items \in SUBSET DOMAIN Contents
      BY ContentsFacts
    <3>2. Roots \cap DOMAIN Contents \subseteq Allocated \ items
      BY <2>3, ContentsFacts DEF Roots
    <3> QED
      BY <2>3, <3>1, <3>2, ReachFacts DEF Reachable
  <2> QED
    BY <2>1, <2>2, <2>4
<1> QED
  BY <1>1, Invariance, PTL

\* What can be reached depends on no object outside of a closed set.
LEMMA ReachInside ==
    ASSUME NEW R, NEW F, NEW G, NEW S,
           S \subseteq DOMAIN F, S \subseteq DOMAIN G, R \subseteq S,
           \A x \in S : F[x] = G[x],
           Graph!Closed(S, F), Graph!Closed(S, G)
    PROVE  /\ Graph!ReachableFrom(R, F) \subseteq S
           /\ Graph!ReachableFrom(R, G) \subseteq Graph!ReachableFrom(R, F)
<1> DEFINE A == Graph!ReachableFrom(R, F)
           B == Graph!ReachableFrom(R, G)
<1>1. /\ A \subseteq DOMAIN F /\ R \cap DOMAIN F \subseteq A /\ Graph!Closed(A, F)
      /\ \A T \in SUBSET DOMAIN F :
            R \cap DOMAIN F \subseteq T /\ Graph!Closed(T, F) => A \subseteq T
  BY ReachFacts
<1>2. \A T \in SUBSET DOMAIN G :
            R \cap DOMAIN G \subseteq T /\ Graph!Closed(T, G) => B \subseteq T
  BY ReachFacts
<1> HIDE DEF A, B
<1>3. S \in SUBSET DOMAIN F /\ R \cap DOMAIN F \subseteq S
  OBVIOUS
<1>4. A \subseteq S
  BY <1>1, <1>3
<1>5. A \in SUBSET DOMAIN G /\ R \cap DOMAIN G \subseteq A
  BY <1>1, <1>4
<1>6. Graph!Closed(A, G)
  BY <1>1, <1>4 DEF Graph!Closed
<1>7. B \subseteq A
  BY <1>2, <1>5, <1>6
<1> QED
  BY <1>4, <1>7 DEF A, B

\* ... nor does what is seen of it.
LEMMA SeenInside ==
    ASSUME NEW R, NEW F, NEW G, NEW S,
           S \subseteq DOMAIN F, S \subseteq DOMAIN G, R \subseteq S,
           \A x \in S : F[x] = G[x],
           Graph!Closed(S, F), Graph!Closed(S, G)
    PROVE  Graph!Visible(R, F) = Graph!Visible(R, G)
<1>1. /\ Graph!ReachableFrom(R, F) \subseteq S
      /\ Graph!ReachableFrom(R, G) \subseteq Graph!ReachableFrom(R, F)
  BY ReachInside
<1>2. Graph!ReachableFrom(R, F) \subseteq Graph!ReachableFrom(R, G)
  <2>1. \A x \in S : G[x] = F[x]
    OBVIOUS
  <2> QED
    BY <2>1, ReachInside
<1>3. Graph!ReachableFrom(R, F) = Graph!ReachableFrom(R, G)
  BY <1>1, <1>2
<1> QED
  BY <1>1, <1>3 DEF Graph!Visible

\* What the program can reach
View == Graph!Visible(held, Contents)

\* The roots are seen as they are.
LEMMA ViewFacts ==
    ASSUME IInv
    PROVE  /\ held \subseteq DOMAIN View /\ DOMAIN View \subseteq Allocated
           /\ DOMAIN View = Graph!ReachableFrom(held, Contents)
           /\ \A x \in DOMAIN View : View[x] = Contents[x]
           /\ Graph!Closed(DOMAIN View, Contents)
           /\ Graph!Closed(DOMAIN View, View)
<1>1. DOMAIN View = Graph!ReachableFrom(held, Contents)
  BY DEF View, Graph!Visible
<1>2. \A x \in DOMAIN View : View[x] = Contents[x]
  BY DEF View, Graph!Visible
<1>3. held \subseteq Allocated /\ DOMAIN Contents = Allocated
  BY ContentsFacts DEF IInv, Types
<1>4. held \subseteq DOMAIN View /\ DOMAIN View \subseteq Allocated
      /\ Graph!Closed(DOMAIN View, Contents)
  <2>1. /\ Graph!ReachableFrom(held, Contents) \subseteq DOMAIN Contents
        /\ held \cap DOMAIN Contents \subseteq Graph!ReachableFrom(held, Contents)
        /\ Graph!Closed(Graph!ReachableFrom(held, Contents), Contents)
    BY ReachFacts
  <2> QED
    BY <1>1, <1>3, <2>1
<1>5. Graph!Closed(DOMAIN View, View)
  BY <1>2 DEF Graph!Closed
<1> QED
  BY <1>1, <1>2, <1>4, <1>5

-----------------------------------------------------------------------------
(* The collector implements the program's heap: every step of the program  *)
(* is one there, and no step of the collector is seen.                     *)

\* Both modules see a heap the same way.
LEMMA SameVisible ==
    ASSUME NEW R, NEW F
    PROVE  Program!Visible(R, F) = Graph!Visible(R, F)
BY DEF Program!Visible, Program!ReachableFrom, Program!Closed,
       Graph!Visible, Graph!ReachableFrom, Graph!Closed

\* An object is made.
LEMMA NewSeen ==
    ASSUME IInv, NEW o \in Objects, New(o)
    PROVE  Program!New(o) /\ held' # held
<1> USE DEF IInv
<1>1. /\ pc = "program" /\ o \notin Allocated /\ refs[o] = NoFields /\ taken[o] = NoFields
      /\ o # Null
  BY NullFacts DEF New, Running, Intact
<1>2. held' = held \cup {o} /\ refs' = refs /\ taken' = taken
  BY DEF New, collector
<1>3. Allocated' = Allocated \cup {o}
  <2>1. list' = <<o>> \o list
    BY DEF New
  <2>2. Range(list') = Range(list) \cup {o}
    BY <2>1, ConsFacts DEF Types
  <2> QED
    BY <2>2 DEF Allocated, Range
<1>4. /\ DOMAIN Contents' = Allocated \cup {o}
      /\ \A x \in Allocated : Contents'[x] = Contents[x]
      /\ Contents'[o] = NoFields
  BY <1>1, <1>2, <1>3 DEF Contents, NoFields
<1>5. \A x \in Allocated, f \in Fields : Contents[x][f] # o
  <2>1. Allocated \subseteq Objects
    BY DEF Types, Allocated
  <2>2. \A x \in Objects, f \in Fields : taken[x][f] = Null /\ refs[x][f] # o
    BY <1>1 DEF Surrendered, Intact
  <2> QED
    BY <2>1, <2>2, ContentsFacts
<1> DEFINE R == Graph!ReachableFrom(held, Contents)
           Q == Graph!ReachableFrom(held', Contents')
<1>6. /\ R \subseteq Allocated /\ held \cap Allocated \subseteq R /\ Graph!Closed(R, Contents)
      /\ \A S \in SUBSET Allocated :
            held \cap Allocated \subseteq S /\ Graph!Closed(S, Contents) => R \subseteq S
  BY ReachFacts, ContentsFacts
<1>7. /\ Q \subseteq Allocated \cup {o} /\ (held \cup {o}) \cap (Allocated \cup {o}) \subseteq Q
      /\ Graph!Closed(Q, Contents')
      /\ \A S \in SUBSET (Allocated \cup {o}) :
            (held \cup {o}) \cap (Allocated \cup {o}) \subseteq S /\ Graph!Closed(S, Contents')
               => Q \subseteq S
  BY <1>2, <1>4, ReachFacts
<1> HIDE DEF R, Q
<1>8. held \subseteq Allocated
  BY DEF Types
<1>9. Q \subseteq R \cup {o}
  <2>1. Graph!Closed(R \cup {o}, Contents')
    <3> SUFFICES ASSUME NEW x \in R \cup {o}, NEW f \in Fields,
                        Contents'[x][f] \in Allocated \cup {o}
                 PROVE  Contents'[x][f] \in R \cup {o}
      BY <1>4 DEF Graph!Closed
    <3>1. CASE x = o
      <4>1. Contents'[x][f] = Null
        BY <1>4, <3>1 DEF NoFields
      <4>2. Null \notin Allocated
        BY NullFacts DEF Types, Allocated
      <4> QED
        BY <1>1, <4>1, <4>2
    <3>2. CASE x # o
      <4>1. x \in R /\ x \in Allocated /\ Contents'[x] = Contents[x]
        BY <1>4, <1>6, <3>2
      <4> QED
        BY <1>5, <1>6, <4>1, ContentsFacts DEF Graph!Closed
    <3> QED
      BY <3>1, <3>2
  <2>2. R \cup {o} \in SUBSET (Allocated \cup {o})
        /\ (held \cup {o}) \cap (Allocated \cup {o}) \subseteq R \cup {o}
    BY <1>6, <1>8
  <2> QED
    BY <1>7, <2>1, <2>2
<1>10. R \cup {o} \subseteq Q
  <2>1. Graph!Closed(Q \ {o}, Contents)
    BY <1>4, <1>5, <1>7, ContentsFacts DEF Graph!Closed
  <2>2. Q \ {o} \in SUBSET Allocated /\ held \cap Allocated \subseteq Q \ {o} /\ o \in Q
    BY <1>1, <1>7
  <2> QED
    BY <1>6, <2>1, <2>2
<1>11. /\ View = [x \in R |-> Contents[x]]
       /\ View' = [x \in R \cup {o} |-> Contents'[x]]
  BY <1>9, <1>10 DEF View, Graph!Visible, R, Q
<1>12. View' = [x \in DOMAIN View \cup {o} |-> IF x = o THEN NoFields ELSE View[x]]
  BY <1>1, <1>4, <1>6, <1>11
<1>13. held' # held /\ o \notin DOMAIN View
  BY <1>1, <1>2, <1>6, <1>8, <1>11
<1> QED
  BY <1>2, <1>12, <1>13 DEF Program!New, View, NoFields, Program!NoFields

\* A reference is copied.
LEMMA TakeSeen ==
    ASSUME IInv, NEW o \in Objects, Take(o)
    PROVE  Program!Take(o) /\ held' # held
<1> USE DEF IInv
<1>1. pc = "program" /\ o \notin held /\ held' = held \cup {o}
  BY DEF Take, Running
<1>2. Contents' = Contents /\ Allocated' = Allocated
  BY DEF Take, collector, Contents, Allocated
<1>3. /\ held \subseteq DOMAIN View /\ DOMAIN View \subseteq Allocated
      /\ DOMAIN View = Graph!ReachableFrom(held, Contents)
      /\ \A x \in DOMAIN View : View[x] = Contents[x]
      /\ Graph!Closed(DOMAIN View, Contents)
  BY ViewFacts
<1>4. PICK x \in held, f \in Fields : refs[x][f] = o
  BY DEF Take
<1>5. x \in Allocated /\ x \in Objects /\ o # Null
  BY NullFacts DEF Types, Allocated
<1>6. Contents[x][f] = o /\ o \in Allocated
  <2>1. taken[x][f] = Null
    BY <1>1, <1>5 DEF Surrendered
  <2>2. o \in Allocated
    BY <1>4, <1>5 DEF Intact
  <2> QED
    BY <1>4, <1>5, <2>1, <2>2, ContentsFacts
<1>7. View[x][f] = o
  BY <1>3, <1>6
<1>8. o \in DOMAIN View
  BY <1>3, <1>6, ContentsFacts DEF Graph!Closed
<1>9. Graph!ReachableFrom(held', Contents) = Graph!ReachableFrom(held, Contents)
  <2> DEFINE R == DOMAIN View
             Q == Graph!ReachableFrom(held', Contents)
  <2>1. /\ held' \cap Allocated \subseteq Q /\ Graph!Closed(Q, Contents) /\ Q \subseteq Allocated
        /\ \A S \in SUBSET Allocated :
              held' \cap Allocated \subseteq S /\ Graph!Closed(S, Contents) => Q \subseteq S
    BY ReachFacts, ContentsFacts
  <2>2. \A S \in SUBSET Allocated :
              held \cap Allocated \subseteq S /\ Graph!Closed(S, Contents) => R \subseteq S
    BY <1>3, ReachFacts, ContentsFacts
  <2> HIDE DEF R, Q
  <2>3. held' \cap Allocated \subseteq R /\ R \in SUBSET Allocated /\ Graph!Closed(R, Contents)
    BY <1>1, <1>3, <1>8 DEF R
  <2>4. Q \subseteq R
    BY <2>1, <2>3
  <2>5. R \subseteq Q
    BY <1>1, <2>1, <2>2
  <2> QED
    BY <1>3, <2>4, <2>5 DEF R, Q
<1>10. View' = View
  BY <1>2, <1>9 DEF View, Graph!Visible
<1> QED
  BY <1>1, <1>4, <1>7, <1>10 DEF Program!Take, View

\* A reference is released.
LEMMA DropSeen ==
    ASSUME IInv, NEW o \in Objects, Drop(o)
    PROVE  Program!Drop(o) /\ held' # held
<1>1. o \in held /\ held' = held \ {o}
  BY DEF Drop
<1>2. Contents' = Contents
  BY DEF Drop, collector, Contents, Allocated
<1>3. /\ held' \subseteq DOMAIN View /\ DOMAIN View \subseteq DOMAIN Contents
      /\ \A x \in DOMAIN View : Contents[x] = View[x]
      /\ Graph!Closed(DOMAIN View, Contents) /\ Graph!Closed(DOMAIN View, View)
  BY <1>1, ViewFacts, ContentsFacts
<1>4. Graph!Visible(held', Contents) = Graph!Visible(held', View)
  <2> DEFINE R == DOMAIN View
  <2>1. R \subseteq DOMAIN View
    OBVIOUS
  <2> QED
    BY <1>3, <2>1, SeenInside
<1>5. View' = Program!Visible(held', View)
  BY <1>2, <1>4, SameVisible DEF View
<1> QED
  BY <1>1, <1>5 DEF Program!Drop, View

\* A field is assigned.
LEMMA AssignSeen ==
    ASSUME IInv, NEW o \in Objects, NEW f \in Fields, NEW t \in held \cup {Null}, Assign(o, f, t)
    PROVE  Program!Assign(o, f, t)
<1> USE DEF IInv
<1>1. /\ pc = "program" /\ o \in held /\ held' = held
      /\ refs' = [refs EXCEPT ![o][f] = t] /\ taken' = taken
  BY DEF Assign, Running, collector
<1>2. Allocated' = Allocated /\ Allocated \subseteq Objects
  BY DEF Assign, Allocated, Types
<1>3. /\ held \subseteq DOMAIN View /\ DOMAIN View \subseteq Allocated
      /\ \A x \in DOMAIN View : View[x] = Contents[x]
      /\ Graph!Closed(DOMAIN View, Contents)
  BY ViewFacts
<1>4. /\ DOMAIN Contents' = Allocated
      /\ \A x \in Allocated : x # o => Contents'[x] = Contents[x]
      /\ Contents'[o] = [Contents[o] EXCEPT ![f] = t]
      /\ \A g \in Fields : Contents'[o][g] = IF g = f THEN t ELSE Contents[o][g]
  <2>1. o \in Allocated /\ \A g \in Fields : taken[o][g] = Null
    BY <1>1 DEF Types, Surrendered, Allocated
  <2>2. /\ \A x \in Objects : x # o => refs'[x] = refs[x]
        /\ \A g \in Fields : refs'[o][g] = IF g = f THEN t ELSE refs[o][g]
    BY <1>1 DEF Types
  <2>3. /\ DOMAIN Contents' = Allocated
        /\ \A x \in Allocated : x # o => Contents'[x] = Contents[x]
    BY <1>1, <1>2, <2>2 DEF Contents
  <2>4. Contents[o] = [g \in Fields |-> refs[o][g]]
    BY <2>1 DEF Contents
  <2>5. Contents'[o] = [g \in Fields |-> IF g = f THEN t ELSE refs[o][g]]
    BY <1>1, <1>2, <2>1, <2>2 DEF Contents
  <2>6. Contents'[o] = [Contents[o] EXCEPT ![f] = t]
    BY <2>4, <2>5
  <2> QED
    BY <2>3, <2>4, <2>5, <2>6
<1> DEFINE G == [View EXCEPT ![o][f] = t]
           S == DOMAIN View
<1>5. DOMAIN G = S /\ \A x \in S : Contents'[x] = G[x]
  BY <1>1, <1>3, <1>4
<1>6. \A x \in S, g \in Fields : Contents'[x][g] \in DOMAIN Contents' => Contents'[x][g] \in S
  <2> SUFFICES ASSUME NEW x \in S, NEW g \in Fields, Contents'[x][g] \in Allocated
               PROVE  Contents'[x][g] \in S
    BY <1>4
  <2>1. CASE x = o /\ g = f
    <3>1. Contents'[x][g] = t
      BY <1>4, <2>1
    <3>2. Null \notin Allocated
      BY <1>2, NullFacts
    <3> QED
      BY <1>3, <3>1, <3>2
  <2>2. CASE ~(x = o /\ g = f)
    <3>1. Contents'[x][g] = Contents[x][g]
      BY <1>3, <1>4, <2>2
    <3> QED
      BY <1>3, <3>1, ContentsFacts DEF Graph!Closed
  <2> QED
    BY <2>1, <2>2
<1> HIDE DEF G, S
<1>7. S \subseteq DOMAIN Contents' /\ S \subseteq DOMAIN G /\ held \subseteq S
  BY <1>3, <1>4, <1>5 DEF S
<1>8. Graph!Closed(S, Contents') /\ Graph!Closed(S, G)
  BY <1>5, <1>6 DEF Graph!Closed
<1>9. Graph!Visible(held, Contents') = Graph!Visible(held, G)
  BY <1>5, <1>7, <1>8, SeenInside
<1>10. View' = Program!Visible(held, G)
  BY <1>1, <1>9, SameVisible DEF View
<1> QED
  BY <1>1, <1>10 DEF Program!Assign, View, G

\* Of a destroyed object nothing was seen.
LEMMA DestroyUnseen ==
    ASSUME IInv, NEW o \in Objects, Destroy(o)
    PROVE  held' = held /\ View' = View
<1> USE DEF IInv
<1>1. o \in doomed /\ o \in Allocated /\ pc # "collect"
  <2>1. o \in doomed
    BY DEF Destroy
  <2> QED
    BY <2>1, DoomedFacts
<1>2. /\ held' = held
      /\ refs' = [refs EXCEPT ![o] = NoFields] /\ taken' = [taken EXCEPT ![o] = NoFields]
  BY DEF Destroy
<1>3. Allocated' = Allocated \ {o}
  <2>1. list \in Seq(Objects) /\ IsInjective(list) /\ o \in Range(list)
    BY <1>1 DEF Types, Allocated, Range
  <2>2. Range(list') = Range(list) \ {o}
    BY <2>1, RemoveFirstFacts DEF Destroy
  <2> QED
    BY <2>2 DEF Allocated, Range
<1> DEFINE S == Allocated \ (items \cup doomed)
<1>4. held \subseteq S /\ Graph!Closed(S, Contents)
  BY <1>1, LiveClosed
<1>5. /\ DOMAIN Contents' = Allocated \ {o} /\ DOMAIN Contents = Allocated
      /\ \A x \in S : Contents'[x] = Contents[x]
  <2>1. \A x \in S : x \in Objects /\ x \in Allocated' /\ x # o
    <3>1. Allocated \subseteq Objects
      BY DEF Types, Allocated
    <3> QED
      BY <1>1, <1>3, <3>1
  <2>2. \A x \in S : refs'[x] = refs[x] /\ taken'[x] = taken[x]
    BY <1>2, <2>1 DEF Types
  <2> QED
    BY <1>3, <2>1, <2>2 DEF Contents
<1>6. S \subseteq DOMAIN Contents /\ S \subseteq DOMAIN Contents'
  BY <1>1, <1>5
<1> HIDE DEF S
<1>7. Graph!Closed(S, Contents')
  BY <1>4, <1>5 DEF Graph!Closed
<1>8. Graph!Visible(held, Contents') = Graph!Visible(held, Contents)
  BY <1>4, <1>5, <1>6, <1>7, SeenInside
<1> QED
  BY <1>2, <1>8 DEF View

\* Nor is anything seen of what the collector does.
LEMMA CollectorUnseen ==
    ASSUME IInv,
           \/ StartPass \/ DestroyReferences \/ UnpinSaved \/ Finish \/ UNCHANGED vars
           \/ \E o \in Objects : PassOver(o) \/ Restore(o) \/ Unpin(o)
           \/ \E gens \in {-1} \cup 1 .. MaxGen : Accumulate(gens)
    PROVE  held' = held /\ View' = View
<1> USE DEF IInv
<1>1. held' = held /\ Allocated' = Allocated /\ Allocated \subseteq Objects
  BY DEF StartPass, DestroyReferences, UnpinSaved, Finish, PassOver, Restore, Unpin, Accumulate,
     vars, heap, Allocated, Types
<1>2. Contents' = Contents
  <2>1. CASE \/ StartPass \/ UnpinSaved \/ Finish \/ UNCHANGED vars
             \/ \E o \in Objects : PassOver(o) \/ Unpin(o)
    <3>1. refs' = refs /\ taken' = taken
      BY <2>1 DEF StartPass, UnpinSaved, Finish, PassOver, Unpin, vars, heap, collector
    <3> QED
      BY <1>1, <3>1 DEF Contents
  <2>2. CASE DestroyReferences
    BY <1>1, <2>2 DEF DestroyReferences, Contents
  <2>3. CASE \E o \in Objects : Restore(o)
    <3>1. PICK o \in Objects : Restore(o)
      BY <2>3
    <3>2. o \in Allocated
      BY <3>1 DEF Restore, Types
    <3>3. ASSUME NEW x \in Allocated, NEW f \in Fields
          PROVE  (IF taken'[x][f] # Null THEN taken'[x][f] ELSE refs'[x][f])
                 = (IF taken[x][f] # Null THEN taken[x][f] ELSE refs[x][f])
      BY <1>1, <3>1, <3>2, ContentsFacts DEF Restore, NoFields, Types
    <3> QED
      BY <1>1, <3>3 DEF Contents
  <2>4. CASE \E gens \in {-1} \cup 1 .. MaxGen : Accumulate(gens)
    <3>1. PICK gens \in {-1} \cup 1 .. MaxGen : Accumulate(gens)
      BY <2>4
    <3>2. \A x \in Objects, f \in Fields : taken[x][f] = Null
      BY <3>1 DEF Accumulate, Running, Surrendered
    <3>3. ASSUME NEW x \in Allocated, NEW f \in Fields
          PROVE  (IF taken'[x][f] # Null THEN taken'[x][f] ELSE refs'[x][f])
                 = (IF taken[x][f] # Null THEN taken[x][f] ELSE refs[x][f])
      <4>1. /\ taken'[x][f] = (IF x \in items' /\ refs[x][f] \in items' THEN refs[x][f] ELSE Null)
            /\ refs'[x][f] = IF f \in Pointers /\ taken'[x][f] # Null THEN Null ELSE refs[x][f]
        BY <1>1, <3>1 DEF Accumulate, Into, NoFields
      <4> QED
        BY <1>1, <3>2, <4>1
    <3> QED
      BY <1>1, <3>3 DEF Contents
  <2> QED
    BY <2>1, <2>2, <2>3, <2>4
<1> QED
  BY <1>1, <1>2 DEF View

\* The collector is invisible: the program's view of the heap is changed by the program
\* alone, as if there were no collector and no object were ever destroyed.
THEOREM Invisible == Spec => ProgramSpec
<1>1. Init => Program!Init
  <2> SUFFICES ASSUME Init PROVE Program!Init
    OBVIOUS
  <2>1. Allocated = {} /\ held = {}
    BY DEF Init, Allocated
  <2>2. DOMAIN View = {}
    BY <2>1, ReachFacts, ContentsFacts DEF View, Graph!Visible
  <2>3. View = [o \in {} |-> Program!NoFields]
    BY <2>2 DEF View, Graph!Visible
  <2> QED
    BY <2>1, <2>3 DEF Program!Init, View
<1>2. IInv /\ [Next]_vars => [Program!Next]_<<held, View>>
  <2> SUFFICES ASSUME IInv, [Next]_vars PROVE [Program!Next]_<<held, View>>
    OBVIOUS
  <2> DEFINE Step == \E o \in Objects :
                        \/ Program!New(o) \/ Program!Take(o) \/ Program!Drop(o)
                        \/ \E f \in Fields, t \in held \cup {Null} : Program!Assign(o, f, t)
  <2>1. Step => [Program!Next]_<<held, View>>
    BY DEF Program!Next, View
  <2>2. CASE Collect \/ UNCHANGED vars \/ \E gens \in {-1} \cup 1 .. MaxGen : Accumulate(gens)
    <3>1. held' = held /\ View' = View
      BY <2>2, CollectorUnseen, DestroyUnseen DEF Collect
    <3> QED
      BY <3>1
  <2>3. CASE \E o \in Objects : New(o) \/ Take(o) \/ Drop(o)
    <3>1. Step
      BY <2>3, NewSeen, TakeSeen, DropSeen
    <3> QED
      BY <2>1, <3>1
  <2>4. CASE \E o \in Objects, f \in Fields, t \in held \cup {Null} : Assign(o, f, t)
    <3>1. Step
      BY <2>4, AssignSeen
    <3> QED
      BY <2>1, <3>1
  <2> QED
    BY <2>2, <2>3, <2>4 DEF Next
<1> QED
  BY <1>1, <1>2, Invariance, PTL DEF Spec, ProgramSpec, Program!Spec, View
=============================================================================
