---------------------------- MODULE TbsServerProofs ----------------------------
(***************************************************************************)
(* Proofs about TbsServer, for any players, observers and sockets, and     *)
(* whatever messages are numbered by.                                      *)
(*                                                                         *)
(* The handlers work on the queues and sockets as one record.  Sound says  *)
(* that such a record is what a handler may leave behind, and InOrder that *)
(* the queues continue what was written; every step of a handler keeps     *)
(* both, and so every handler does.                                        *)
(***************************************************************************)
EXTENDS TbsServer, FiniteSetTheorems, WellFoundedInduction, TLAPS

Numbers == 0 .. Stamps - 1
Marks   == {Wrapped} \cup Numbers

\* Queues and sockets
Nets == [queue : [Sessions -> Seq(Marks)], conn : [Sockets -> Sessions \cup {None}],
         wait : SUBSET Sockets, waiter : [Sessions -> Sockets \cup {None}],
         writing : [Sockets -> Seq(Sessions \cup {None})],
         sent : [Sessions -> Numbers], written : [Sessions -> Numbers]]

\* What a handler leaves behind, while lob wait for the lobby and kn are the sessions known, and
\* the sockets asking have a request that is being handled.
Sound(net, lob, kn, asking) ==
    /\ \A k \in net.wait : k \notin lob /\ net.writing[k] = <<>> /\ net.conn[k] \in kn
    /\ \A k \in lob : net.writing[k] = <<>> /\ net.conn[k] = None
    /\ \A k \in asking : k \notin net.wait \cup lob /\ net.writing[k] = <<>>
    /\ \A k \in Sockets : /\ Len(net.writing[k]) <= 1
                          /\ \/ k \in net.wait \cup lob \cup asking
                             \/ net.writing[k] # <<>>
                             \/ net.conn[k] = None
    /\ \A s \in Sessions : net.waiter[s] # None =>
          net.waiter[s] \in net.wait /\ net.conn[net.waiter[s]] = s /\ net.queue[s] = <<>>

\* The messages msgs, but for answers queued again, are those after the one numbered done, up
\* to the one numbered last.
Continues(msgs, done, last) ==
    /\ \A i \in DOMAIN Own(msgs) : Own(msgs)[i] = (done + i) % Stamps
    /\ last = (done + Len(Own(msgs))) % Stamps

InOrder(net) == \A s \in Sessions : Continues(net.queue[s], net.written[s], net.sent[s])

\* Recipients of messages: by their place among the clients, or all, or the observers
Named == All .. Len(Players) + Cardinality(Observers)

\* The sessions the server knows, the clients of the game, its messages, and the lobby
Roster ==
    /\ ingame \subseteq known /\ known \subseteq Sessions
    /\ clients \in Seq(Sessions) /\ Range(clients) = ingame /\ IsInjective(clients)
    /\ outgoing \in Seq(Named)
    /\ lobby \subseteq Sockets

IInv == Roster /\ Net \in Nets /\ Sound(Net, lobby, known, {}) /\ InOrder(Net)

-----------------------------------------------------------------------------
(* Numbers. *)

\* A set of numbers has a least one.
LEMMA MinFacts ==
    ASSUME NEW I \in SUBSET Nat, I # {}
    PROVE  Min(I) \in I /\ \A j \in I : Min(I) <= j
<1> DEFINE R == OpToRel(<, Nat)
<1>1. IsWellFoundedOn(R, Nat)
  BY NatLessThanWellFounded
<1>2. \E k \in I : \A j \in I : ~(<<j, k>> \in R)
  <2> HIDE DEF R
  <2> QED
    BY <1>1, WFMin
<1>3. \E k \in I : \A j \in I : k <= j
  <2>1. PICK k \in I : \A j \in I : ~(<<j, k>> \in R)
    BY <1>2
  <2>2. \A j \in I : ~(j < k)
    BY <2>1 DEF OpToRel
  <2> QED
    BY <2>2
<1> QED
  BY <1>3 DEF Min

\* What holds of 0, and of the next number of whatever it holds of, holds of every number.
LEMMA Every ==
    ASSUME NEW T \in SUBSET Nat, 0 \in T, \A i \in T : i + 1 \in T
    PROVE  T = Nat
<1> DEFINE U == Nat \ T
<1> SUFFICES ASSUME U # {} PROVE FALSE
  OBVIOUS
<1>1. U \in SUBSET Nat
  OBVIOUS
<1> HIDE DEF U
<1>2. PICK k \in U : \A j \in U : k <= j
  BY <1>1, MinFacts
<1> USE DEF U
<1>3. k \in Nat \ {0} /\ k - 1 \in T
  BY <1>2
<1>4. (k - 1) + 1 \in T
  BY <1>3
<1> QED
  BY <1>2, <1>3, <1>4

\* ... up to n.
LEMMA UpTo ==
    ASSUME NEW n \in Nat, NEW T \in SUBSET (0 .. n), 0 \in T,
           \A i \in T : i < n => i + 1 \in T
    PROVE  T = 0 .. n
<1> DEFINE U == {i \in Nat : i <= n => i \in T}
<1>1. 0 \in U /\ U \in SUBSET Nat
  OBVIOUS
<1>2. \A i \in U : i + 1 \in U
  OBVIOUS
<1>3. U = Nat
  <2> HIDE DEF U
  <2> QED
    BY <1>1, <1>2, Every
<1>4. \A i \in Nat : i <= n => i \in T
  BY <1>3
<1>5. \A i \in 0 .. n : i \in Nat /\ i <= n
  OBVIOUS
<1> HIDE DEF U
<1> QED
  BY <1>4, <1>5

\* Division with remainder.
LEMMA Remainder ==
    ASSUME NEW x \in Nat, NEW d \in Nat \ {0}
    PROVE  x % d \in 0 .. d - 1 /\ \E q \in Nat : x = d * q + (x % d)
<1> DEFINE P(y) == \E q \in Nat, r \in 0 .. d - 1 : y = d * q + r
           T == {y \in Nat : P(y)}
<1>1. P(0)
  <2>1. 0 = d * 0 + 0 /\ 0 \in 0 .. d - 1
    OBVIOUS
  <2> QED
    BY <2>1
<1>2. ASSUME NEW y \in Nat, P(y) PROVE P(y + 1)
  <2>1. PICK q \in Nat, r \in 0 .. d - 1 : y = d * q + r
    BY <1>2
  <2>2. CASE r < d - 1
    <3>1. y + 1 = d * q + (r + 1) /\ r + 1 \in 0 .. d - 1
      BY <2>1, <2>2
    <3> QED
      BY <3>1
  <2>3. CASE r = d - 1
    <3>1. d * (q + 1) = d * q + d
      OBVIOUS
    <3>2. y + 1 = d * (q + 1) + 0 /\ q + 1 \in Nat /\ 0 \in 0 .. d - 1
      BY <2>1, <2>3, <3>1
    <3>3. \E p \in Nat : \E t \in 0 .. d - 1 : y + 1 = d * p + t
      <4> WITNESS q + 1 \in Nat
      <4> WITNESS 0 \in 0 .. d - 1
      <4> QED
        BY <3>2
    <3> QED
      BY <3>3
  <2> QED
    BY <2>1, <2>2, <2>3
<1> HIDE DEF P
<1>3. T = Nat
  <2>1. T \in SUBSET Nat /\ 0 \in T /\ \A y \in T : y + 1 \in T
    BY <1>1, <1>2
  <2> HIDE DEF T
  <2> QED
    BY <2>1, Every
<1>4. P(x)
  BY <1>3
<1>5. PICK q \in Nat, r \in 0 .. d - 1 : x = d * q + r
  BY <1>4 DEF P
<1>6. (d * q + r) % d = r
  OBVIOUS
<1> HIDE DEF T
<1>7. x % d = r
  BY <1>5, <1>6
<1>8. x = d * q + (x % d)
  BY <1>5, <1>7
<1>9. x % d \in 0 .. d - 1
  BY <1>7
<1> QED
  BY <1>8, <1>9

\* A remainder may be taken before adding.
LEMMA ModPlus ==
    ASSUME NEW x \in Nat, NEW y \in Nat, NEW d \in Nat \ {0}
    PROVE  ((x % d) + y) % d = (x + y) % d
<1>1. PICK q \in Nat : x = d * q + (x % d)
  BY Remainder
<1>2. x % d \in Nat /\ (x % d) + y \in Nat
  BY Remainder
<1>3. PICK p \in Nat : (x % d) + y = d * p + (((x % d) + y) % d)
  BY <1>2, Remainder
<1>4. ((x % d) + y) % d \in 0 .. d - 1
  BY <1>2, Remainder
<1>5. d * q \in Nat /\ d * p \in Nat /\ d * (q + p) = d * q + d * p /\ q + p \in Nat
  OBVIOUS
<1>6. x + y = d * (q + p) + (((x % d) + y) % d)
  <2> DEFINE r == x % d
             t == ((x % d) + y) % d
             a == d * q
             b == d * p
             c == d * (q + p)
  <2>1. /\ r \in Nat /\ t \in Nat /\ a \in Nat /\ b \in Nat /\ c = a + b
        /\ x = a + r /\ r + y = b + t
    BY <1>1, <1>2, <1>3, <1>4, <1>5
  <2> HIDE DEF r, t, a, b, c
  <2>2. x + y = c + t
    BY <2>1
  <2> QED
    BY <2>2 DEF t, c
<1>7. \A t \in 0 .. d - 1 : (d * (q + p) + t) % d = t
  BY <1>5
<1> QED
  BY <1>4, <1>6, <1>7

\* Small numbers are their own remainders.
LEMMA ModSmall == ASSUME NEW d \in Nat \ {0}, NEW x \in 0 .. d - 1 PROVE x % d = x
OBVIOUS

-----------------------------------------------------------------------------
(* Messages of a session, and answers queued again among them. *)

\* What Own has taken of the first messages of a sequence.
Taken(s) == CHOOSE f : f = [i \in 0 .. Len(s) |->
                IF i = 0 THEN <<>>
                ELSE IF s[i] # Wrapped THEN Append(f[i - 1], s[i]) ELSE f[i - 1]]

\* It is defined step by step.
LEMMA TakenFacts ==
    ASSUME NEW S, NEW s \in Seq(S)
    PROVE  /\ Own(s) = Taken(s)[Len(s)]
           /\ Taken(s)[0] = <<>>
           /\ \A i \in 1 .. Len(s) :
                 Taken(s)[i] = IF s[i] # Wrapped THEN Append(Taken(s)[i - 1], s[i])
                               ELSE Taken(s)[i - 1]
<1> DEFINE D(f, n) == f = [i \in 0 .. n |->
                IF i = 0 THEN <<>>
                ELSE IF s[i] # Wrapped THEN Append(f[i - 1], s[i]) ELSE f[i - 1]]
           T == {n \in 0 .. Len(s) : \E f : D(f, n)}
<1>1. 0 \in T
  <2> DEFINE e == [i \in 0 .. 0 |-> <<>>]
             h == [i \in 0 .. 0 |->
                     IF i = 0 THEN <<>>
                     ELSE IF s[i] # Wrapped THEN Append(e[i - 1], s[i]) ELSE e[i - 1]]
  <2>1. \A i \in 0 .. 0 : e[i] = <<>> /\ h[i] = <<>>
    OBVIOUS
  <2>2. D(e, 0)
    <3>1. e = h
      BY <2>1
    <3> QED
      BY <3>1
  <2>3. 0 \in 0 .. Len(s)
    OBVIOUS
  <2> HIDE DEF D, e
  <2> QED
    BY <2>2, <2>3
<1>2. \A n \in T : n < Len(s) => n + 1 \in T
  <2> SUFFICES ASSUME NEW n \in T, n < Len(s) PROVE n + 1 \in T
    OBVIOUS
  <2> PICK f : D(f, n)
    OBVIOUS
  <2> DEFINE g == [i \in 0 .. n + 1 |->
                     IF i = n + 1 THEN IF s[n + 1] # Wrapped THEN Append(f[n], s[n + 1])
                                       ELSE f[n]
                     ELSE f[i]]
             h == [i \in 0 .. n + 1 |->
                     IF i = 0 THEN <<>>
                     ELSE IF s[i] # Wrapped THEN Append(g[i - 1], s[i]) ELSE g[i - 1]]
  <2>1. \A i \in 0 .. n : f[i] = IF i = 0 THEN <<>>
                                 ELSE IF s[i] # Wrapped THEN Append(f[i - 1], s[i])
                                 ELSE f[i - 1]
    OBVIOUS
  <2>2. \A i \in 0 .. n : g[i] = f[i]
    OBVIOUS
  <2>3. \A i \in 0 .. n + 1 : g[i] = h[i]
    <3> SUFFICES ASSUME NEW i \in 0 .. n + 1 PROVE g[i] = h[i]
      OBVIOUS
    <3>1. CASE i = n + 1
      <4>1. g[n] = f[n] /\ h[i] = IF s[i] # Wrapped THEN Append(g[n], s[i]) ELSE g[n]
        BY <2>2, <3>1
      <4> QED
        BY <3>1, <4>1
    <3>2. CASE i \in 1 .. n
      <4>0. i \in 0 .. n /\ i - 1 \in 0 .. n /\ i # 0
        BY <3>2
      <4>1. g[i - 1] = f[i - 1] /\ g[i] = f[i]
        BY <2>2, <4>0
      <4>2. h[i] = IF s[i] # Wrapped THEN Append(g[i - 1], s[i]) ELSE g[i - 1]
        BY <3>2
      <4>3. f[i] = IF s[i] # Wrapped THEN Append(f[i - 1], s[i]) ELSE f[i - 1]
        BY <2>1, <4>0
      <4> HIDE DEF g, h
      <4> QED
        BY <4>1, <4>2, <4>3
    <3>3. CASE i = 0
      BY <2>1, <2>2, <3>3
    <3> QED
      BY <3>1, <3>2, <3>3
  <2>4. D(g, n + 1)
    <3>1. g = h
      BY <2>3
    <3> QED
      BY <3>1
  <2>5. n + 1 \in 0 .. Len(s)
    OBVIOUS
  <2> HIDE DEF D, g
  <2> QED
    BY <2>4, <2>5
<1>3. T = 0 .. Len(s)
  <2>1. T \in SUBSET (0 .. Len(s)) /\ Len(s) \in Nat
    OBVIOUS
  <2> HIDE DEF T
  <2> QED
    BY <1>1, <1>2, <2>1, UpTo
<1>4. \E f : D(f, Len(s))
  BY <1>3
<1>5. /\ Taken(s)[0] = <<>>
      /\ \A i \in 1 .. Len(s) :
            Taken(s)[i] = IF s[i] # Wrapped THEN Append(Taken(s)[i - 1], s[i])
                          ELSE Taken(s)[i - 1]
  <2>1. D(Taken(s), Len(s))
    BY <1>4 DEF Taken
  <2>2. \A i \in 0 .. Len(s) :
           Taken(s)[i] = IF i = 0 THEN <<>>
                         ELSE IF s[i] # Wrapped THEN Append(Taken(s)[i - 1], s[i])
                         ELSE Taken(s)[i - 1]
    <3> HIDE DEF T
    <3> QED
      BY <2>1
  <2>3. 0 \in 0 .. Len(s) /\ \A i \in 1 .. Len(s) : i \in 0 .. Len(s) /\ i # 0
    OBVIOUS
  <2> HIDE DEF D, T
  <2> QED
    BY <2>2, <2>3
<1>6. Own(s) = Taken(s)[Len(s)]
  BY DEF Own, Taken
<1> HIDE DEF D, T
<1> QED
  BY <1>5, <1>6

\* They are messages of the sequence.
LEMMA TakenType ==
    ASSUME NEW S, NEW s \in Seq(S)
    PROVE  \A n \in 0 .. Len(s) : Taken(s)[n] \in Seq(S)
<1> DEFINE T == {n \in 0 .. Len(s) : Taken(s)[n] \in Seq(S)}
<1>1. 0 \in T
  <2>1. Taken(s)[0] = <<>> /\ <<>> \in Seq(S) /\ 0 \in 0 .. Len(s)
    BY TakenFacts
  <2> QED
    BY <2>1
<1>2. \A n \in T : n < Len(s) => n + 1 \in T
  <2> SUFFICES ASSUME NEW n \in 0 .. Len(s), n < Len(s), Taken(s)[n] \in Seq(S)
               PROVE  Taken(s)[n + 1] \in Seq(S)
    OBVIOUS
  <2>1. n + 1 \in 1 .. Len(s) /\ (n + 1) - 1 = n /\ s[n + 1] \in S
    OBVIOUS
  <2>2. Taken(s)[n + 1] = IF s[n + 1] # Wrapped THEN Append(Taken(s)[n], s[n + 1])
                          ELSE Taken(s)[n]
    BY <2>1, TakenFacts
  <2> QED
    BY <2>1, <2>2
<1>3. T = 0 .. Len(s)
  <2>1. T \in SUBSET (0 .. Len(s)) /\ Len(s) \in Nat
    OBVIOUS
  <2> HIDE DEF T
  <2> QED
    BY <1>1, <1>2, <2>1, UpTo
<1> QED
  BY <1>3

\* ... and of the same kind.
LEMMA OwnType ==
    ASSUME NEW S, NEW s \in Seq(S)
    PROVE  Own(s) \in Seq(S)
<1>1. Len(s) \in 0 .. Len(s)
  OBVIOUS
<1> QED
  BY <1>1, TakenFacts, TakenType

\* Equal sequences.
LEMMA SeqEqual ==
    ASSUME NEW S, NEW s \in Seq(S), NEW t \in Seq(S), Len(s) = Len(t),
           \A i \in 1 .. Len(s) : s[i] = t[i]
    PROVE  s = t
OBVIOUS

\* Own messages of two sequences, one after the other.
LEMMA OwnConcat ==
    ASSUME NEW S, NEW s \in Seq(S), NEW t \in Seq(S)
    PROVE  Own(s \o t) = Own(s) \o Own(t)
<1> DEFINE st == s \o t
           T1 == {i \in 0 .. Len(s) : Taken(st)[i] = Taken(s)[i]}
           T2 == {i \in 0 .. Len(t) : Taken(st)[Len(s) + i] = Own(s) \o Taken(t)[i]}
<1>1. /\ st \in Seq(S) /\ Len(st) = Len(s) + Len(t) /\ Len(s) \in Nat /\ Len(t) \in Nat
      /\ \A i \in 1 .. Len(s) : st[i] = s[i]
      /\ \A i \in 1 .. Len(t) : st[Len(s) + i] = t[i]
  OBVIOUS
<1> HIDE DEF st
<1>2. /\ Taken(st)[0] = <<>> /\ Taken(s)[0] = <<>> /\ Taken(t)[0] = <<>>
      /\ Own(s) = Taken(s)[Len(s)] /\ Own(t) = Taken(t)[Len(t)]
      /\ Own(st) = Taken(st)[Len(st)]
      /\ \A i \in 1 .. Len(st) :
            Taken(st)[i] = IF st[i] # Wrapped THEN Append(Taken(st)[i - 1], st[i])
                           ELSE Taken(st)[i - 1]
  <2>1. st \in Seq(S)
    BY <1>1
  <2> QED
    BY <2>1, TakenFacts
<1>3. T1 = 0 .. Len(s)
  <2>1. 0 \in T1
    BY <1>1, <1>2
  <2>2. \A i \in T1 : i < Len(s) => i + 1 \in T1
    <3> SUFFICES ASSUME NEW i \in 0 .. Len(s), i < Len(s), Taken(st)[i] = Taken(s)[i]
                 PROVE  Taken(st)[i + 1] = Taken(s)[i + 1]
      OBVIOUS
    <3>1. /\ i + 1 \in 1 .. Len(s) /\ i + 1 \in 1 .. Len(st) /\ (i + 1) - 1 = i
          /\ st[i + 1] = s[i + 1]
      BY <1>1
    <3>2. Taken(s)[i + 1] = IF s[i + 1] # Wrapped THEN Append(Taken(s)[i], s[i + 1])
                            ELSE Taken(s)[i]
      BY <3>1, TakenFacts
    <3>3. Taken(st)[i + 1] = IF st[i + 1] # Wrapped THEN Append(Taken(st)[i], st[i + 1])
                             ELSE Taken(st)[i]
      BY <1>2, <3>1
    <3> QED
      BY <3>1, <3>2, <3>3
  <2>3. T1 \in SUBSET (0 .. Len(s))
    OBVIOUS
  <2> HIDE DEF T1
  <2> QED
    BY <1>1, <2>1, <2>2, <2>3, UpTo
<1>4. Taken(st)[Len(s)] = Own(s) /\ Own(s) \in Seq(S)
  <2>1. Len(s) \in T1
    BY <1>1, <1>3
  <2> QED
    BY <1>2, <2>1, OwnType
<1>5. T2 = 0 .. Len(t)
  <2>1. 0 \in T2
    <3>1. Own(s) \o <<>> = Own(s)
      BY <1>4
    <3>2. Taken(st)[Len(s) + 0] = Own(s) \o Taken(t)[0]
      BY <1>1, <1>2, <1>4, <3>1
    <3> QED
      BY <1>1, <3>2
  <2>2. \A i \in T2 : i < Len(t) => i + 1 \in T2
    <3> SUFFICES ASSUME NEW i \in T2, i < Len(t) PROVE i + 1 \in T2
      OBVIOUS
    <3>0. i \in 0 .. Len(t) /\ Taken(st)[Len(s) + i] = Own(s) \o Taken(t)[i]
      OBVIOUS
    <3> HIDE DEF T2
    <3> DEFINE j == Len(s) + (i + 1)
    <3>1. /\ i + 1 \in 1 .. Len(t) /\ (i + 1) - 1 = i /\ t[i + 1] \in S
          /\ j \in 1 .. Len(st) /\ j - 1 = Len(s) + i /\ st[j] = t[i + 1]
      BY <1>1, <3>0
    <3>2. Taken(t)[i + 1] = IF t[i + 1] # Wrapped THEN Append(Taken(t)[i], t[i + 1])
                            ELSE Taken(t)[i]
      BY <3>1, TakenFacts
    <3> HIDE DEF j
    <3>3. Taken(st)[j] = IF st[j] # Wrapped THEN Append(Taken(st)[j - 1], st[j])
                         ELSE Taken(st)[j - 1]
      BY <1>2, <3>1
    <3>4. Taken(t)[i] \in Seq(S)
      BY <3>0, TakenType
    <3>5. Append(Own(s) \o Taken(t)[i], t[i + 1]) = Own(s) \o Append(Taken(t)[i], t[i + 1])
      <4> DEFINE a == Own(s)
                 b == Taken(t)[i]
                 e == t[i + 1]
                 u == Append(a \o b, e)
                 v == a \o Append(b, e)
      <4>1. a \in Seq(S) /\ b \in Seq(S) /\ e \in S
        BY <1>4, <3>1, <3>4
      <4> HIDE DEF a, b, e
      <4>2. /\ u \in Seq(S) /\ v \in Seq(S) /\ Len(u) = Len(a) + Len(b) + 1
            /\ Len(v) = Len(u)
        BY <4>1
      <4>3. ASSUME NEW k \in 1 .. Len(a) + Len(b) + 1 PROVE u[k] = v[k]
        <5>1. CASE k <= Len(a)
          BY <4>1, <5>1
        <5>2. CASE k > Len(a) /\ k <= Len(a) + Len(b)
          BY <4>1, <5>2
        <5>3. CASE k = Len(a) + Len(b) + 1
          BY <4>1, <5>3
        <5>4. Len(a) \in Nat /\ Len(b) \in Nat
          BY <4>1
        <5> QED
          BY <5>1, <5>2, <5>3, <5>4
      <4> HIDE DEF u, v
      <4>4. u = v
        BY <4>2, <4>3, SeqEqual
      <4> QED
        BY <4>4 DEF a, b, e, u, v
    <3>6. Taken(st)[j] = Own(s) \o Taken(t)[i + 1]
      BY <3>0, <3>1, <3>2, <3>3, <3>5
    <3>7. i + 1 \in 0 .. Len(t)
      BY <3>1
    <3>8. Taken(st)[Len(s) + (i + 1)] = Own(s) \o Taken(t)[i + 1]
      BY <3>6 DEF j
    <3> QED
      BY <3>7, <3>8 DEF T2
  <2>3. T2 \in SUBSET (0 .. Len(t))
    OBVIOUS
  <2> HIDE DEF T2
  <2> QED
    BY <1>1, <2>1, <2>2, <2>3, UpTo
<1>6. Taken(st)[Len(s) + Len(t)] = Own(s) \o Taken(t)[Len(t)]
  <2>1. Len(t) \in 0 .. Len(t)
    BY <1>1
  <2>2. Len(t) \in T2
    BY <1>5, <2>1
  <2> QED
    BY <2>2
<1>7. Own(st) = Own(s) \o Own(t)
  BY <1>1, <1>2, <1>6
<1> QED
  BY <1>7 DEF st

\* Messages none of which was queued again are all own messages.
LEMMA OwnPlain ==
    ASSUME NEW S, NEW s \in Seq(S), \A i \in 1 .. Len(s) : s[i] # Wrapped
    PROVE  Own(s) = s
<1> DEFINE T == {i \in 0 .. Len(s) : Len(Taken(s)[i]) = i /\ \A j \in 1 .. i : Taken(s)[i][j] = s[j]}
<1>1. 0 \in T
  BY TakenFacts
<1>2. \A i \in T : i < Len(s) => i + 1 \in T
  <2> SUFFICES ASSUME NEW i \in 0 .. Len(s), i < Len(s), Len(Taken(s)[i]) = i,
                      \A j \in 1 .. i : Taken(s)[i][j] = s[j]
               PROVE  /\ Len(Taken(s)[i + 1]) = i + 1
                      /\ \A j \in 1 .. i + 1 : Taken(s)[i + 1][j] = s[j]
    OBVIOUS
  <2>1. i + 1 \in 1 .. Len(s) /\ (i + 1) - 1 = i /\ s[i + 1] \in S
    OBVIOUS
  <2>2. Taken(s)[i + 1] = Append(Taken(s)[i], s[i + 1]) /\ Taken(s)[i] \in Seq(S)
    BY <2>1, TakenFacts, TakenType
  <2> QED
    BY <2>1, <2>2
<1>3. T = 0 .. Len(s)
  <2>1. T \in SUBSET (0 .. Len(s)) /\ Len(s) \in Nat
    OBVIOUS
  <2> HIDE DEF T
  <2> QED
    BY <1>1, <1>2, <2>1, UpTo
<1>4. Len(s) \in T
  BY <1>3
<1>5. Own(s) \in Seq(S) /\ Len(Own(s)) = Len(s) /\ \A j \in 1 .. Len(s) : Own(s)[j] = s[j]
  BY <1>4, TakenFacts, OwnType
<1> QED
  BY <1>5, SeqEqual

\* Numbers of messages, and the mark of an answer queued again.
LEMMA NumbersType ==
    /\ Numbers \subseteq Nat /\ Numbers \subseteq Marks /\ Wrapped \notin Numbers
    /\ Stamps \in Nat \ {0}
<1>1. Stamps \in Nat \ {0}
  BY TbsServerAssumption
<1>2. Numbers \subseteq Nat /\ Numbers \subseteq Marks /\ Wrapped \notin Numbers
  BY DEF Numbers, Marks, Wrapped
<1> QED
  BY <1>1, <1>2

\* Counting modulo Stamps.
LEMMA NumbersFacts ==
    /\ \A w \in Numbers : w % Stamps = w
    /\ \A x \in Nat : x % Stamps \in Numbers
    /\ \A x, y \in Nat : ((x % Stamps) + y) % Stamps = (x + y) % Stamps
<1>1. Stamps \in Nat \ {0}
  BY TbsServerAssumption
<1>2. \A w \in Numbers : w % Stamps = w
  BY <1>1, ModSmall DEF Numbers
<1>3. \A x \in Nat : x % Stamps \in Numbers
  BY <1>1, Remainder DEF Numbers
<1>4. \A x, y \in Nat : ((x % Stamps) + y) % Stamps = (x + y) % Stamps
  BY <1>1, ModPlus
<1> QED
  BY <1>2, <1>3, <1>4

\* Nothing is queued.
LEMMA ContinuesEmpty ==
    ASSUME NEW w \in Numbers
    PROVE  Own(<<>>) = <<>> /\ Continues(<<>>, w, w) /\ \A l : Continues(<<>>, w, l) => l = w
<1>1. <<>> \in Seq(Marks) /\ Len(<<>>) = 0
  OBVIOUS
<1>2. Own(<<>>) = <<>>
  <2> DEFINE e == <<>>
  <2>1. e \in Seq(Marks) /\ \A i \in 1 .. Len(e) : e[i] # Wrapped
    OBVIOUS
  <2> HIDE DEF e
  <2>2. Own(e) = e
    BY <2>1, OwnPlain
  <2> QED
    BY <2>2 DEF e
<1>3. (w + 0) % Stamps = w
  <2>1. w + 0 = w
    BY NumbersType
  <2> QED
    BY <2>1, NumbersFacts
<1> QED
  BY <1>1, <1>2, <1>3 DEF Continues

\* The next messages are queued.
LEMMA ContinuesFresh ==
    ASSUME NEW q \in Seq(Marks), NEW w \in Numbers, NEW l \in Numbers, Continues(q, w, l),
           NEW f \in Seq(Numbers), \A i \in 1 .. Len(f) : f[i] = (l + i) % Stamps
    PROVE  Continues(q \o f, w, (l + Len(f)) % Stamps)
<1> DEFINE o == Own(q)
<1>1. o \in Seq(Marks) /\ f \in Seq(Marks)
  <2>1. f \in [1 .. Len(f) -> Numbers] /\ Len(f) \in Nat
    OBVIOUS
  <2>2. f \in [1 .. Len(f) -> Marks]
    BY <2>1, NumbersType
  <2> QED
    BY <2>1, <2>2, OwnType
<1>2. Own(f) = f
  <2>1. \A i \in 1 .. Len(f) : f[i] \in Numbers
    OBVIOUS
  <2>2. \A i \in 1 .. Len(f) : f[i] # Wrapped
    BY <2>1, NumbersType
  <2> QED
    BY <1>1, <2>2, OwnPlain
<1>3. Own(q \o f) = o \o f
  BY <1>1, <1>2, OwnConcat
<1>4. /\ \A i \in 1 .. Len(o) : o[i] = (w + i) % Stamps
      /\ l = (w + Len(o)) % Stamps
  BY <1>1 DEF Continues
<1> HIDE DEF o
<1>5. Len(o) \in Nat /\ Len(f) \in Nat /\ w \in Nat /\ w + Len(o) \in Nat
  BY <1>1, NumbersType
<1>6. \A j \in Nat : (l + j) % Stamps = ((w + Len(o)) + j) % Stamps
  BY <1>4, <1>5, NumbersFacts
<1>7. /\ DOMAIN (o \o f) = 1 .. Len(o) + Len(f) /\ Len(o \o f) = Len(o) + Len(f)
      /\ \A i \in 1 .. Len(o) : (o \o f)[i] = o[i]
      /\ \A i \in Len(o) + 1 .. Len(o) + Len(f) : (o \o f)[i] = f[i - Len(o)]
  BY <1>1
<1>8. ASSUME NEW i \in 1 .. Len(o) + Len(f) PROVE (o \o f)[i] = (w + i) % Stamps
  <2>1. CASE i \in 1 .. Len(o)
    BY <1>4, <1>7, <2>1
  <2>2. CASE i \in Len(o) + 1 .. Len(o) + Len(f)
    <3> DEFINE j == i - Len(o)
    <3>1. j \in 1 .. Len(f) /\ j \in Nat /\ (w + Len(o)) + j = w + i
      BY <1>5, <2>2
    <3>2. (o \o f)[i] = f[j]
      BY <1>7, <2>2
    <3> HIDE DEF j
    <3>3. f[j] = ((w + Len(o)) + j) % Stamps
      BY <1>6, <3>1
    <3> QED
      BY <3>1, <3>2, <3>3
  <2> QED
    BY <1>5, <2>1, <2>2
<1>9. (l + Len(f)) % Stamps = (w + (Len(o) + Len(f))) % Stamps
  <2>1. (w + Len(o)) + Len(f) = w + (Len(o) + Len(f))
    BY <1>5
  <2> QED
    BY <1>5, <1>6, <2>1
<1> QED
  BY <1>3, <1>7, <1>8, <1>9 DEF Continues

\* The first n messages are taken.
LEMMA ContinuesTaken ==
    ASSUME NEW q \in Seq(Marks), NEW w \in Numbers, NEW l, Continues(q, w, l),
           NEW n \in 0 .. Len(q)
    PROVE  /\ LastOf(SubSeq(q, 1, n), w) \in Numbers
           /\ Continues(SubSeq(q, n + 1, Len(q)), LastOf(SubSeq(q, 1, n), w), l)
<1> DEFINE p == SubSeq(q, 1, n)
           r == SubSeq(q, n + 1, Len(q))
           v == LastOf(p, w)
<1>1. p \in Seq(Marks) /\ r \in Seq(Marks) /\ q = p \o r
  <2>1. p \in Seq(Marks) /\ Len(p) = n /\ \A i \in 1 .. n : p[i] = q[i]
    OBVIOUS
  <2>2. r \in Seq(Marks) /\ Len(r) = Len(q) - n /\ \A i \in 1 .. Len(q) - n : r[i] = q[n + i]
    OBVIOUS
  <2> HIDE DEF p, r
  <2>3. Len(p \o r) = Len(q) /\ p \o r \in Seq(Marks) /\ Len(q) \in Nat
    BY <2>1, <2>2
  <2>4. ASSUME NEW i \in 1 .. Len(q) PROVE q[i] = (p \o r)[i]
    <3>1. CASE i <= n
      BY <2>1, <2>2, <3>1
    <3>2. CASE i > n
      <4>1. i - n \in 1 .. Len(q) - n /\ n + (i - n) = i
        BY <2>3, <3>2
      <4>2. (p \o r)[i] = r[i - n]
        BY <2>1, <2>2, <3>2
      <4> QED
        BY <2>2, <4>1, <4>2
    <3> QED
      BY <2>3, <3>1, <3>2
  <2> QED
    BY <2>1, <2>2, <2>3, <2>4, SeqEqual
<1> HIDE DEF p, r
<1> DEFINE a == Own(p)
           b == Own(r)
<1>2. a \in Seq(Marks) /\ b \in Seq(Marks) /\ Own(q) = a \o b
  BY <1>1, OwnType, OwnConcat
<1>3. v = IF a = <<>> THEN w ELSE Last(a)
  BY DEF LastOf
<1> HIDE DEF v
<1>4. /\ \A i \in DOMAIN (a \o b) : (a \o b)[i] = (w + i) % Stamps
      /\ l = (w + Len(a \o b)) % Stamps
  BY <1>2 DEF Continues
<1> HIDE DEF a, b
<1>5. /\ Len(a) \in Nat /\ Len(b) \in Nat /\ w \in Nat /\ w + Len(a) \in Nat
      /\ DOMAIN (a \o b) = 1 .. Len(a) + Len(b) /\ Len(a \o b) = Len(a) + Len(b)
      /\ \A i \in 1 .. Len(a) : (a \o b)[i] = a[i]
      /\ \A i \in 1 .. Len(b) : (a \o b)[Len(a) + i] = b[i]
  <2>1. w \in Nat /\ Len(a) \in Nat /\ Len(b) \in Nat
    BY <1>2, NumbersType
  <2> QED
    BY <1>2, <2>1
<1>6. v = (w + Len(a)) % Stamps
  <2>1. CASE a = <<>>
    <3>1. w + Len(a) = w
      BY <1>5, <2>1
    <3> QED
      BY <1>3, <2>1, <3>1, NumbersFacts
  <2>2. CASE a # <<>>
    <3>1. Len(a) \in 1 .. Len(a) /\ Last(a) = a[Len(a)]
      BY <1>2, <2>2 DEF Last
    <3>2. a[Len(a)] = (w + Len(a)) % Stamps
      BY <1>4, <1>5, <3>1
    <3> QED
      BY <1>3, <2>2, <3>1, <3>2
  <2> QED
    BY <2>1, <2>2
<1>7. v \in Numbers /\ \A j \in Nat : (v + j) % Stamps = ((w + Len(a)) + j) % Stamps
  BY <1>5, <1>6, NumbersFacts
<1>8. ASSUME NEW i \in 1 .. Len(b) PROVE b[i] = (v + i) % Stamps
  <2>1. Len(a) + i \in 1 .. Len(a) + Len(b) /\ w + (Len(a) + i) = (w + Len(a)) + i /\ i \in Nat
    BY <1>5
  <2>2. b[i] = (w + (Len(a) + i)) % Stamps
    BY <1>4, <1>5, <2>1
  <2> QED
    BY <1>7, <2>1, <2>2
<1>9. l = (v + Len(b)) % Stamps
  <2>1. w + (Len(a) + Len(b)) = (w + Len(a)) + Len(b)
    BY <1>5
  <2> QED
    BY <1>4, <1>5, <1>7, <2>1
<1>10. Continues(r, v, l)
  <2>1. Own(r) = b
    BY DEF b
  <2>2. DOMAIN b = 1 .. Len(b)
    BY <1>2
  <2>3. \A i \in DOMAIN b : b[i] = (v + i) % Stamps
    BY <1>8, <2>2
  <2> QED
    BY <1>9, <2>1, <2>3 DEF Continues
<1> QED
  BY <1>7, <1>10 DEF p, r, v

\* An answer is queued again.
LEMMA ContinuesWrapped ==
    ASSUME NEW q \in Seq(Marks), NEW w, NEW l, Continues(q, w, l)
    PROVE  Continues(<<Wrapped>> \o q, w, l)
<1>1. <<Wrapped>> \in Seq(Marks) /\ Len(<<Wrapped>>) = 1 /\ <<Wrapped>>[1] = Wrapped
  BY DEF Marks
<1>2. Own(<<Wrapped>>) = <<>>
  <2> DEFINE s == <<Wrapped>>
  <2>1. s \in Seq(Marks) /\ Len(s) = 1 /\ s[1] = Wrapped /\ 1 - 1 = 0 /\ 1 \in 1 .. 1
    BY <1>1
  <2> HIDE DEF s
  <2>2. /\ Own(s) = Taken(s)[Len(s)] /\ Taken(s)[0] = <<>>
        /\ \A i \in 1 .. Len(s) : Taken(s)[i] = IF s[i] # Wrapped
                                                THEN Append(Taken(s)[i - 1], s[i])
                                                ELSE Taken(s)[i - 1]
    BY <2>1, TakenFacts
  <2>3. Own(s) = <<>>
    BY <2>1, <2>2
  <2> QED
    BY <2>3 DEF s
<1>3. Own(<<Wrapped>> \o q) = Own(q)
  <2>1. Own(<<Wrapped>> \o q) = <<>> \o Own(q) /\ Own(q) \in Seq(Marks)
    BY <1>1, <1>2, OwnConcat, OwnType
  <2> QED
    BY <2>1
<1> QED
  BY <1>3 DEF Continues

\* A session's waiting request takes the next message, and the others are queued.
LEMMA ContinuesDirect ==
    ASSUME NEW w \in Numbers, NEW l \in Numbers, Continues(<<>>, w, l),
           NEW f \in Seq(Numbers), Len(f) > 0, \A i \in 1 .. Len(f) : f[i] = (l + i) % Stamps
    PROVE  Continues(<<>> \o Tail(f), (l + 1) % Stamps, (l + Len(f)) % Stamps)
<1> DEFINE v == (l + 1) % Stamps
           t == Tail(f)
<1>1. l \in Nat /\ l + 1 \in Nat /\ <<>> \in Seq(Marks)
  BY NumbersType
<1>2. v \in Numbers /\ \A j \in Nat : (v + j) % Stamps = ((l + 1) + j) % Stamps
  BY <1>1, NumbersFacts
<1>3. t \in Seq(Numbers) /\ Len(t) = Len(f) - 1 /\ \A i \in 1 .. Len(t) : t[i] = f[i + 1]
  OBVIOUS
<1>4. Continues(<<>>, v, v)
  BY <1>2, ContinuesEmpty
<1> HIDE DEF v, t
<1>5. ASSUME NEW i \in 1 .. Len(t) PROVE t[i] = (v + i) % Stamps
  <2>1. i + 1 \in 1 .. Len(f) /\ (l + 1) + i = l + (i + 1) /\ i \in Nat
    BY <1>1, <1>3
  <2> QED
    BY <1>2, <1>3, <2>1
<1>6. Continues(<<>> \o t, v, (v + Len(t)) % Stamps)
  BY <1>1, <1>2, <1>3, <1>4, <1>5, ContinuesFresh
<1>7. (v + Len(t)) % Stamps = (l + Len(f)) % Stamps
  <2>1. Len(t) \in Nat /\ (l + 1) + Len(t) = l + Len(f)
    BY <1>1, <1>3
  <2> QED
    BY <1>2, <2>1
<1> QED
  BY <1>6, <1>7 DEF v, t

-----------------------------------------------------------------------------
(* The steps of a handler, field by field. *)

Fields == {"queue", "conn", "wait", "waiter", "writing", "sent", "written"}

\* A record is what its fields are.
LEMMA RecordIs ==
    ASSUME NEW r, r = [i \in DOMAIN r |-> r[i]], DOMAIN r = Fields
    PROVE  r = [queue |-> r.queue, conn |-> r.conn, wait |-> r.wait, waiter |-> r.waiter,
                writing |-> r.writing, sent |-> r.sent, written |-> r.written]
<1> DEFINE R == [queue |-> r.queue, conn |-> r.conn, wait |-> r.wait, waiter |-> r.waiter,
                 writing |-> r.writing, sent |-> r.sent, written |-> r.written]
<1>1. DOMAIN R = Fields /\ R = [i \in DOMAIN R |-> R[i]]
  BY DEF Fields
<1>2. \A i \in Fields : R[i] = r[i]
  BY DEF Fields
<1> HIDE DEF R
<1>3. R = [i \in Fields |-> r[i]]
  BY <1>1, <1>2
<1> QED
  BY <1>3 DEF R

\* Queues and sockets have these fields.
LEMMA NetFields ==
    ASSUME NEW net \in Nets
    PROVE  DOMAIN net = Fields
BY DEF Nets, Fields

\* The sessions that a request waits for when n messages are queued, and those requests
Direct(net, n)  == {s \in Sessions : n[s] > 0 /\ net.waiter[s] # None}
Waiters(net, n) == {net.waiter[s] : s \in Direct(net, n)}

\* What is written when ks are answered
Answered(net, ks) == [k \in Sockets |-> IF k \in ks THEN Append(net.writing[k], net.conn[k])
                                        ELSE net.writing[k]]

\* Answers are for sessions, or for nobody.
LEMMA AnsweredType ==
    ASSUME NEW net \in Nets, NEW ks
    PROVE  Answered(net, ks) \in [Sockets -> Seq(Sessions \cup {None})]
BY DEF Answered, Nets

\* send_msg.
LEMMA SendIs ==
    ASSUME NEW net \in Nets, NEW ks
    PROVE  Send(net, ks) = [queue |-> net.queue, conn |-> net.conn, wait |-> net.wait,
                            waiter |-> net.waiter, writing |-> Answered(net, ks),
                            sent |-> net.sent, written |-> net.written]
<1> DEFINE r == [net EXCEPT !.writing = Answered(net, ks)]
<1>1. Send(net, ks) = r
  BY DEF Send, Answered
<1>2. r = [i \in DOMAIN r |-> r[i]] /\ DOMAIN r = Fields
  BY NetFields
<1>3. /\ r.queue = net.queue /\ r.conn = net.conn /\ r.wait = net.wait
      /\ r.waiter = net.waiter /\ r.sent = net.sent /\ r.written = net.written
  OBVIOUS
<1>4. r.writing = Answered(net, ks)
  BY NetFields DEF Fields
<1> HIDE DEF r
<1> QED
  BY <1>1, <1>2, <1>3, <1>4, RecordIs

\* What queue_msg makes of a session's queue
Extended(net, n) == [s \in Sessions |-> net.queue[s] \o
                       IF s \in Direct(net, n) THEN Tail(Fresh(net, s, n[s]))
                       ELSE Fresh(net, s, n[s])]

\* queue_msg.
LEMMA QueueIs ==
    ASSUME NEW net \in Nets, NEW n
    PROVE  Queue(net, n) =
              [queue |-> Extended(net, n),
               conn |-> net.conn, wait |-> net.wait \ Waiters(net, n),
               waiter |-> [s \in Sessions |-> IF s \in Direct(net, n) THEN None
                                              ELSE net.waiter[s]],
               writing |-> Answered(net, Waiters(net, n)),
               sent |-> [s \in Sessions |-> (net.sent[s] + n[s]) % Stamps],
               written |-> [s \in Sessions |-> IF s \in Direct(net, n)
                                               THEN (net.sent[s] + 1) % Stamps
                                               ELSE net.written[s]]]
<1> DEFINE sn == Send(net, Waiters(net, n))
           a == Extended(net, n)
           b == [s \in Sessions |-> IF s \in Direct(net, n) THEN (net.sent[s] + 1) % Stamps
                                    ELSE net.written[s]]
           c == net.wait \ Waiters(net, n)
           d == [s \in Sessions |-> IF s \in Direct(net, n) THEN None ELSE net.waiter[s]]
           e == [s \in Sessions |-> (net.sent[s] + n[s]) % Stamps]
           q == [sn EXCEPT !.queue = a, !.written = b, !.wait = c, !.waiter = d, !.sent = e]
<1>1. /\ sn.queue = net.queue /\ sn.conn = net.conn /\ sn.wait = net.wait
      /\ sn.waiter = net.waiter /\ sn.writing = Answered(net, Waiters(net, n))
      /\ sn.sent = net.sent /\ sn.written = net.written /\ DOMAIN sn = Fields
  BY SendIs DEF Fields
<1>2. Queue(net, n) =
        [sn EXCEPT
           !.queue = [s \in Sessions |-> @[s] \o IF s \in Direct(net, n) THEN Tail(Fresh(net, s, n[s]))
                                                 ELSE Fresh(net, s, n[s])],
           !.written = [s \in Sessions |-> IF s \in Direct(net, n) THEN (net.sent[s] + 1) % Stamps ELSE @[s]],
           !.wait = @ \ Waiters(net, n),
           !.waiter = [s \in Sessions |-> IF s \in Direct(net, n) THEN None ELSE @[s]],
           !.sent = [s \in Sessions |-> (@[s] + n[s]) % Stamps]]
  BY DEF Queue, Direct, Waiters
<1> HIDE DEF sn
<1>3. Queue(net, n) = q
  BY <1>1, <1>2 DEF Extended
<1> HIDE DEF a, b, c, d, e
<1>4. q = [i \in DOMAIN q |-> q[i]] /\ DOMAIN q = Fields
  BY <1>1
<1>5. q.queue = a /\ q.conn = net.conn /\ q.wait = c /\ q.waiter = d
  BY <1>1 DEF Fields
<1>6. q.writing = Answered(net, Waiters(net, n)) /\ q.sent = e /\ q.written = b
  BY <1>1 DEF Fields
<1> HIDE DEF q
<1> QED
  BY <1>3, <1>4, <1>5, <1>6, RecordIs DEF a, b, c, d, e

\* close_ajax, when nothing is queued for the session.
LEMMA CloseAjaxWaitsIs ==
    ASSUME NEW net \in Nets, NEW k, NEW s, NEW n, net.queue[s] = <<>>
    PROVE  CloseAjax(net, k, s, n) =
              [queue |-> net.queue, conn |-> net.conn, wait |-> net.wait \cup {k},
               waiter |-> [net.waiter EXCEPT ![s] = k], writing |-> net.writing,
               sent |-> net.sent, written |-> net.written]
<1> DEFINE a == net.wait \cup {k}
           b == [net.waiter EXCEPT ![s] = k]
           q == [net EXCEPT !.wait = a, !.waiter = b]
<1>1. CloseAjax(net, k, s, n) = q
  BY DEF CloseAjax
<1>2. DOMAIN net = Fields
  BY NetFields
<1> HIDE DEF a, b
<1>3. q = [i \in DOMAIN q |-> q[i]] /\ DOMAIN q = Fields
  BY <1>2
<1>4. /\ q.queue = net.queue /\ q.conn = net.conn /\ q.wait = a /\ q.waiter = b
      /\ q.writing = net.writing /\ q.sent = net.sent /\ q.written = net.written
  BY <1>2 DEF Fields
<1> HIDE DEF q
<1> QED
  BY <1>1, <1>3, <1>4, RecordIs DEF a, b

\* The other waiting requests of a session
Others(net, k, s) == {j \in net.wait : net.conn[j] = s /\ j # k}

\* close_ajax, when something is queued.
LEMMA CloseAjaxTakesIs ==
    ASSUME NEW net \in Nets, NEW k, NEW s, NEW n, net.queue[s] # <<>>
    PROVE  CloseAjax(net, k, s, n) =
              [queue |-> [net.queue EXCEPT
                            ![s] = SubSeq(net.queue[s], n + 1, Len(net.queue[s]))],
               conn |-> net.conn, wait |-> net.wait \ Others(net, k, s),
               waiter |-> [net.waiter EXCEPT
                             ![s] = IF Others(net, k, s) # {} THEN None ELSE net.waiter[s]],
               writing |-> Answered(net, {k} \cup Others(net, k, s)),
               sent |-> net.sent,
               written |-> [net.written EXCEPT
                              ![s] = LastOf(SubSeq(net.queue[s], 1, n), net.written[s])]]
<1> DEFINE sn == Send(net, {k} \cup Others(net, k, s))
           a == [net.queue EXCEPT ![s] = SubSeq(net.queue[s], n + 1, Len(net.queue[s]))]
           b == [net.written EXCEPT ![s] = LastOf(SubSeq(net.queue[s], 1, n), net.written[s])]
           c == net.wait \ Others(net, k, s)
           d == [net.waiter EXCEPT ![s] = IF Others(net, k, s) # {} THEN None
                                          ELSE net.waiter[s]]
           q == [sn EXCEPT !.queue = a, !.written = b, !.wait = c, !.waiter = d]
<1>1. /\ sn.queue = net.queue /\ sn.conn = net.conn /\ sn.wait = net.wait
      /\ sn.waiter = net.waiter /\ sn.writing = Answered(net, {k} \cup Others(net, k, s))
      /\ sn.sent = net.sent /\ sn.written = net.written /\ DOMAIN sn = Fields
  BY SendIs DEF Fields
<1>2. CloseAjax(net, k, s, n) =
        [sn EXCEPT
           !.queue[s] = SubSeq(@, n + 1, Len(@)),
           !.written[s] = LastOf(SubSeq(net.queue[s], 1, n), @),
           !.wait = @ \ Others(net, k, s),
           !.waiter[s] = IF Others(net, k, s) # {} THEN None ELSE @]
  BY DEF CloseAjax, Others
<1> HIDE DEF sn
<1>3. CloseAjax(net, k, s, n) = q
  BY <1>1, <1>2, ZenonT(40)
<1> HIDE DEF a, b, c, d
<1>4. q = [i \in DOMAIN q |-> q[i]] /\ DOMAIN q = Fields
  BY <1>1
<1>5. q.queue = a /\ q.conn = net.conn /\ q.wait = c /\ q.waiter = d
  BY <1>1 DEF Fields
<1>6. /\ q.writing = Answered(net, {k} \cup Others(net, k, s)) /\ q.sent = net.sent
      /\ q.written = b
  BY <1>1 DEF Fields
<1> HIDE DEF q
<1> QED
  BY <1>3, <1>4, <1>5, <1>6, RecordIs DEF a, b, c, d

\* How many of the sockets ks are a session's
Owned(net, ks, s) == Cardinality({k \in ks : net.conn[k] = s})

\* heartbeat_internal.
LEMMA BeatenIs ==
    ASSUME NEW net \in Nets, NEW ks, NEW beat
    PROVE  LET replied == IF beat THEN net.wait ELSE ks
           IN  Beaten(net, ks, beat) =
                 [queue |-> [s \in Sessions |->
                               SubSeq(net.queue[s], Owned(net, ks, s) + 1, Len(net.queue[s]))],
                  conn |-> net.conn, wait |-> net.wait \ replied,
                  waiter |-> [s \in Sessions |-> IF \E k \in replied : net.conn[k] = s
                                                 THEN None ELSE net.waiter[s]],
                  writing |-> Answered(net, replied), sent |-> net.sent,
                  written |-> [s \in Sessions |->
                                 LastOf(SubSeq(net.queue[s], 1, Owned(net, ks, s)),
                                        net.written[s])]]
<1> DEFINE replied == IF beat THEN net.wait ELSE ks
           sn == Send(net, replied)
           a == [s \in Sessions |-> SubSeq(net.queue[s], Owned(net, ks, s) + 1, Len(net.queue[s]))]
           b == [s \in Sessions |-> LastOf(SubSeq(net.queue[s], 1, Owned(net, ks, s)),
                                           net.written[s])]
           c == net.wait \ replied
           d == [s \in Sessions |-> IF \E k \in replied : net.conn[k] = s THEN None
                                    ELSE net.waiter[s]]
           q == [sn EXCEPT !.queue = a, !.written = b, !.wait = c, !.waiter = d]
<1>2. Beaten(net, ks, beat) =
        [sn EXCEPT
           !.queue = [s \in Sessions |-> SubSeq(@[s], Owned(net, ks, s) + 1, Len(@[s]))],
           !.written = [s \in Sessions |-> LastOf(SubSeq(net.queue[s], 1, Owned(net, ks, s)), @[s])],
           !.wait = @ \ replied,
           !.waiter = [s \in Sessions |-> IF \E k \in replied : net.conn[k] = s
                                          THEN None ELSE @[s]]]
  BY DEF Beaten, Owned
<1> HIDE DEF replied
<1>1. /\ sn.queue = net.queue /\ sn.conn = net.conn /\ sn.wait = net.wait
      /\ sn.waiter = net.waiter /\ sn.writing = Answered(net, replied)
      /\ sn.sent = net.sent /\ sn.written = net.written /\ DOMAIN sn = Fields
  BY SendIs DEF Fields
<1> HIDE DEF sn
<1>3. Beaten(net, ks, beat) = q
  BY <1>1, <1>2
<1> HIDE DEF a, b, c, d
<1>4. q = [i \in DOMAIN q |-> q[i]] /\ DOMAIN q = Fields
  BY <1>1
<1>5. q.queue = a /\ q.conn = net.conn /\ q.wait = c /\ q.waiter = d
  BY <1>1 DEF Fields
<1>6. q.writing = Answered(net, replied) /\ q.sent = net.sent /\ q.written = b
  BY <1>1 DEF Fields
<1> HIDE DEF q
<1> QED
  BY <1>3, <1>4, <1>5, <1>6, RecordIs DEF a, b, c, d, replied

\* A session is forgotten.
LEMMA ForgottenIs ==
    ASSUME NEW net \in Nets, NEW s
    PROVE  Forgotten(net, s) =
              [queue |-> [net.queue EXCEPT ![s] = <<>>], conn |-> net.conn, wait |-> net.wait,
               waiter |-> net.waiter, writing |-> net.writing,
               sent |-> [net.sent EXCEPT ![s] = 0], written |-> [net.written EXCEPT ![s] = 0]]
<1> DEFINE a == [net.queue EXCEPT ![s] = <<>>]
           b == [net.sent EXCEPT ![s] = 0]
           c == [net.written EXCEPT ![s] = 0]
           q == [net EXCEPT !.queue = a, !.sent = b, !.written = c]
<1>1. DOMAIN net = Fields
  BY NetFields
<1>2. Forgotten(net, s) = q
  BY DEF Forgotten
<1> HIDE DEF a, b, c
<1>3. q = [i \in DOMAIN q |-> q[i]] /\ DOMAIN q = Fields
  BY <1>1
<1>4. /\ q.queue = a /\ q.conn = net.conn /\ q.wait = net.wait /\ q.waiter = net.waiter
      /\ q.writing = net.writing /\ q.sent = b /\ q.written = c
  BY <1>1 DEF Fields
<1> HIDE DEF q
<1> QED
  BY <1>2, <1>3, <1>4, RecordIs DEF a, b, c

\* What is left of a socket's session when the socket is disconnected
Left(net, k) == [q \in Sessions |-> IF q = net.conn[k] /\ net.waiter[q] = k THEN None
                                    ELSE net.waiter[q]]

\* server::disconnect.
LEMMA DisconnectedIs ==
    ASSUME NEW net \in Nets, NEW k
    PROVE  Disconnected(net, k) =
              [queue |-> net.queue, conn |-> [net.conn EXCEPT ![k] = None],
               wait |-> net.wait \ {k}, waiter |-> Left(net, k),
               writing |-> [net.writing EXCEPT ![k] = Tail(net.writing[k])],
               sent |-> net.sent, written |-> net.written]
<1> DEFINE a == [net.conn EXCEPT ![k] = None]
           b == net.wait \ {k}
           c == [net.writing EXCEPT ![k] = Tail(net.writing[k])]
           d == Left(net, k)
           q == [net EXCEPT !.conn = a, !.wait = b, !.writing = c, !.waiter = d]
<1>1. DOMAIN net = Fields
  BY NetFields
<1>2. Disconnected(net, k) = q
  BY DEF Disconnected, Left
<1> HIDE DEF a, b, c, d
<1>3. q = [i \in DOMAIN q |-> q[i]] /\ DOMAIN q = Fields
  BY <1>1
<1>4. /\ q.queue = net.queue /\ q.conn = a /\ q.wait = b /\ q.waiter = d
      /\ q.writing = c /\ q.sent = net.sent /\ q.written = net.written
  BY <1>1 DEF Fields
<1> HIDE DEF q
<1> QED
  BY <1>2, <1>3, <1>4, RecordIs DEF a, b, c, d

\* An answer queued again, for a session with a waiting request.
LEMMA RequeuedAnswersIs ==
    ASSUME NEW net \in Nets, NEW s, s # None, net.waiter[s] # None
    PROVE  Requeued(net, s) =
              [queue |-> net.queue, conn |-> net.conn, wait |-> net.wait \ {net.waiter[s]},
               waiter |-> [net.waiter EXCEPT ![s] = None],
               writing |-> Answered(net, {net.waiter[s]}),
               sent |-> net.sent, written |-> net.written]
<1> DEFINE sn == Send(net, {net.waiter[s]})
           a == net.wait \ {net.waiter[s]}
           b == [net.waiter EXCEPT ![s] = None]
           q == [sn EXCEPT !.wait = a, !.waiter = b]
<1>1. /\ sn.queue = net.queue /\ sn.conn = net.conn /\ sn.wait = net.wait
      /\ sn.waiter = net.waiter /\ sn.writing = Answered(net, {net.waiter[s]})
      /\ sn.sent = net.sent /\ sn.written = net.written /\ DOMAIN sn = Fields
  BY SendIs DEF Fields
<1>2. Requeued(net, s) = [sn EXCEPT !.wait = @ \ {net.waiter[s]}, !.waiter[s] = None]
  BY DEF Requeued
<1> HIDE DEF sn
<1>3. Requeued(net, s) = q
  BY <1>1, <1>2
<1> HIDE DEF a, b
<1>4. q = [i \in DOMAIN q |-> q[i]] /\ DOMAIN q = Fields
  BY <1>1
<1>5. /\ q.queue = net.queue /\ q.conn = net.conn /\ q.wait = a /\ q.waiter = b
      /\ q.writing = Answered(net, {net.waiter[s]}) /\ q.sent = net.sent
      /\ q.written = net.written
  BY <1>1 DEF Fields
<1> HIDE DEF q
<1> QED
  BY <1>3, <1>4, <1>5, RecordIs DEF a, b

\* ... and for one without.
LEMMA RequeuedQueuesIs ==
    ASSUME NEW net \in Nets, NEW s, s # None, net.waiter[s] = None
    PROVE  Requeued(net, s) =
              [queue |-> [net.queue EXCEPT ![s] = <<Wrapped>> \o net.queue[s]],
               conn |-> net.conn, wait |-> net.wait, waiter |-> net.waiter,
               writing |-> net.writing, sent |-> net.sent, written |-> net.written]
<1> DEFINE a == [net.queue EXCEPT ![s] = <<Wrapped>> \o net.queue[s]]
           q == [net EXCEPT !.queue = a]
<1>1. DOMAIN net = Fields
  BY NetFields
<1>2. Requeued(net, s) = q
  BY DEF Requeued
<1> HIDE DEF a
<1>3. q = [i \in DOMAIN q |-> q[i]] /\ DOMAIN q = Fields
  BY <1>1
<1>4. /\ q.queue = a /\ q.conn = net.conn /\ q.wait = net.wait /\ q.waiter = net.waiter
      /\ q.writing = net.writing /\ q.sent = net.sent /\ q.written = net.written
  BY <1>1 DEF Fields
<1> HIDE DEF q
<1> QED
  BY <1>2, <1>3, <1>4, RecordIs DEF a

-----------------------------------------------------------------------------
(* What each step keeps. *)

\* Sockets that answers are written to stop waiting, and no session waits on them.
LEMMA SoundAnswer ==
    ASSUME NEW net \in Nets, NEW new, NEW lob \in SUBSET Sockets, NEW kn,
           NEW asking \in SUBSET Sockets, NEW ks \in SUBSET (net.wait \cup lob \cup asking),
           Sound(net, lob, kn, asking),
           new.conn = net.conn, new.wait = net.wait \ ks, new.writing = Answered(net, ks),
           \A s \in Sessions : new.waiter[s] # None =>
              new.waiter[s] = net.waiter[s] /\ net.waiter[s] \notin ks /\ new.queue[s] = <<>>
    PROVE  Sound(new, lob \ ks, kn, asking \ ks)
<1>1. /\ net.wait \subseteq Sockets /\ net.conn \in [Sockets -> Sessions \cup {None}]
      /\ net.writing \in [Sockets -> Seq(Sessions \cup {None})]
  BY DEF Nets
<1>2. ASSUME NEW k \in Sockets, k \notin ks PROVE new.writing[k] = net.writing[k]
  BY <1>2 DEF Answered
<1>3. ASSUME NEW k \in ks
      PROVE  net.writing[k] = <<>> /\ Len(new.writing[k]) = 1 /\ new.writing[k] # <<>>
  <2>1. k \in Sockets
    BY <1>1
  <2>2. net.writing[k] = <<>>
    BY DEF Sound
  <2>3. new.writing[k] = Append(<<>>, net.conn[k])
    BY <2>1, <2>2 DEF Answered
  <2> QED
    BY <2>2, <2>3
<1>4. ASSUME NEW k \in new.wait
      PROVE  k \notin lob \ ks /\ new.writing[k] = <<>> /\ new.conn[k] \in kn
  BY <1>1, <1>2 DEF Sound
<1>5. ASSUME NEW k \in lob \ ks PROVE new.writing[k] = <<>> /\ new.conn[k] = None
  BY <1>2 DEF Sound
<1>6. ASSUME NEW k \in asking \ ks
      PROVE  k \notin new.wait \cup (lob \ ks) /\ new.writing[k] = <<>>
  BY <1>2 DEF Sound
<1>7. ASSUME NEW k \in Sockets
      PROVE  /\ Len(new.writing[k]) <= 1
             /\ \/ k \in new.wait \cup (lob \ ks) \cup (asking \ ks)
                \/ new.writing[k] # <<>>
                \/ new.conn[k] = None
  <2>1. CASE k \in ks
    <3>1. Len(new.writing[k]) = 1 /\ new.writing[k] # <<>>
      BY <1>3, <2>1
    <3>2. Len(new.writing[k]) <= 1
      BY <3>1
    <3> QED
      BY <3>1, <3>2
  <2>2. CASE k \notin ks
    BY <1>2, <2>2 DEF Sound
  <2> QED
    BY <2>1, <2>2
<1>8. ASSUME NEW s \in Sessions, new.waiter[s] # None
      PROVE  /\ new.waiter[s] \in new.wait /\ new.conn[new.waiter[s]] = s
             /\ new.queue[s] = <<>>
  BY <1>8 DEF Sound
<1> QED
  BY <1>4, <1>5, <1>6, <1>7, <1>8 DEF Sound

\* A request of a session is handled: its socket is the session's.
LEMMA SoundAsked ==
    ASSUME NEW net \in Nets, NEW lob \in SUBSET Sockets, NEW kn, NEW k \in Sockets,
           NEW s \in Sessions, Sound(net, lob, kn, {}),
           k \notin net.wait \cup lob, net.writing[k] = <<>>
    PROVE  /\ [net EXCEPT !.conn[k] = s] \in Nets
           /\ Sound([net EXCEPT !.conn[k] = s], lob, kn, {k})
           /\ [net EXCEPT !.conn[k] = s].conn[k] = s
           /\ InOrder(net) => InOrder([net EXCEPT !.conn[k] = s])
<1> DEFINE c == [net.conn EXCEPT ![k] = s]
           r == [net EXCEPT !.conn = c]
<1>1. DOMAIN net = Fields /\ net.conn \in [Sockets -> Sessions \cup {None}]
  BY NetFields DEF Nets
<1>2. /\ c \in [Sockets -> Sessions \cup {None}] /\ c[k] = s
      /\ \A j \in Sockets : j # k => c[j] = net.conn[j]
  BY <1>1
<1> HIDE DEF c
<1>3. r = [i \in DOMAIN r |-> r[i]] /\ DOMAIN r = Fields
  BY <1>1
<1>4. /\ r.queue = net.queue /\ r.conn = c /\ r.wait = net.wait /\ r.waiter = net.waiter
      /\ r.writing = net.writing /\ r.sent = net.sent /\ r.written = net.written
  BY <1>1 DEF Fields
<1> HIDE DEF r
<1>5. r \in Nets
  <2>1. r = [queue |-> r.queue, conn |-> r.conn, wait |-> r.wait, waiter |-> r.waiter,
             writing |-> r.writing, sent |-> r.sent, written |-> r.written]
    BY <1>3, RecordIs
  <2> QED
    BY <1>2, <1>4, <2>1 DEF Nets
<1>6. Sound(r, lob, kn, {k})
  <2>1. net.wait \subseteq Sockets
    BY DEF Nets
  <2>2. \A j \in net.wait : j \in Sockets /\ j # k
    BY <2>1
  <2> QED
    BY <1>2, <1>4, <2>2 DEF Sound
<1>7. InOrder(net) => InOrder(r)
  BY <1>4 DEF InOrder
<1>8. [net EXCEPT !.conn[k] = s] = r
  BY DEF r, c
<1> QED
  BY <1>2, <1>4, <1>5, <1>6, <1>7, <1>8

\* The next messages of a session have the next numbers.
LEMMA FreshFacts ==
    ASSUME NEW net \in Nets, NEW s \in Sessions, NEW n \in Nat
    PROVE  /\ Fresh(net, s, n) \in Seq(Numbers) /\ Len(Fresh(net, s, n)) = n
           /\ \A i \in 1 .. n : Fresh(net, s, n)[i] = (net.sent[s] + i) % Stamps
<1>1. net.sent[s] \in Nat
  <2>1. net.sent[s] \in Numbers
    BY DEF Nets
  <2> QED
    BY <2>1, NumbersType
<1>2. \A i \in 1 .. n : net.sent[s] + i \in Nat
  BY <1>1
<1>3. \A i \in 1 .. n : (net.sent[s] + i) % Stamps \in Numbers
  BY <1>2, NumbersFacts
<1> QED
  BY <1>3 DEF Fresh

\* Sequences of some things are sequences of more.
LEMMA MarksOf == ASSUME NEW f \in Seq(Numbers) PROVE f \in Seq(Marks)
<1>1. f \in [1 .. Len(f) -> Numbers] /\ Len(f) \in Nat
  OBVIOUS
<1>2. f \in [1 .. Len(f) -> Marks]
  BY <1>1, NumbersType
<1> QED
  BY <1>1, <1>2

\* queue_msg.
LEMMA QueueKeeps ==
    ASSUME NEW net \in Nets, NEW n \in [Sessions -> Nat], NEW lob \in SUBSET Sockets, NEW kn,
           NEW asking \in SUBSET Sockets, Sound(net, lob, kn, asking), InOrder(net)
    PROVE  /\ Queue(net, n) \in Nets /\ Queue(net, n).conn = net.conn
           /\ Sound(Queue(net, n), lob, kn, asking) /\ InOrder(Queue(net, n))
<1> DEFINE D == Direct(net, n)
           ks == Waiters(net, n)
           w == [s \in Sessions |-> IF s \in D THEN None ELSE net.waiter[s]]
           t == [s \in Sessions |-> (net.sent[s] + n[s]) % Stamps]
           v == [s \in Sessions |-> IF s \in D THEN (net.sent[s] + 1) % Stamps
                                    ELSE net.written[s]]
           r == [queue |-> Extended(net, n), conn |-> net.conn, wait |-> net.wait \ ks,
                 waiter |-> w, writing |-> Answered(net, ks), sent |-> t, written |-> v]
<1>1. Queue(net, n) = r
  BY QueueIs
<1>2. /\ net.queue \in [Sessions -> Seq(Marks)] /\ net.conn \in [Sockets -> Sessions \cup {None}]
      /\ net.wait \subseteq Sockets /\ net.waiter \in [Sessions -> Sockets \cup {None}]
      /\ net.sent \in [Sessions -> Numbers] /\ net.written \in [Sessions -> Numbers]
  BY DEF Nets
<1>3. ASSUME NEW s \in Sessions
      PROVE  /\ Extended(net, n)[s] \in Seq(Marks)
             /\ (net.sent[s] + n[s]) % Stamps \in Numbers
             /\ (net.sent[s] + 1) % Stamps \in Numbers
             /\ Continues(Extended(net, n)[s], v[s], t[s])
  <2> DEFINE f == Fresh(net, s, n[s])
  <2>1. /\ f \in Seq(Numbers) /\ Len(f) = n[s] /\ n[s] \in Nat
        /\ \A i \in 1 .. Len(f) : f[i] = (net.sent[s] + i) % Stamps
    BY FreshFacts
  <2> HIDE DEF f
  <2>2. net.sent[s] \in Numbers /\ net.written[s] \in Numbers /\ net.queue[s] \in Seq(Marks)
    BY <1>2
  <2>3. net.sent[s] + n[s] \in Nat /\ net.sent[s] + 1 \in Nat
    <3>1. net.sent[s] \in Nat
      BY <2>2, NumbersType
    <3> QED
      BY <2>1, <3>1
  <2>4. (net.sent[s] + n[s]) % Stamps \in Numbers /\ (net.sent[s] + 1) % Stamps \in Numbers
    BY <2>3, NumbersFacts
  <2>5. Continues(net.queue[s], net.written[s], net.sent[s])
    BY DEF InOrder
  <2>6. CASE s \in D
    <3>1. n[s] > 0 /\ net.queue[s] = <<>>
      BY <2>6 DEF Direct, Sound
    <3>2. Extended(net, n)[s] = <<>> \o Tail(f)
      BY <2>6, <3>1 DEF Extended, f
    <3>3. v[s] = (net.sent[s] + 1) % Stamps /\ t[s] = (net.sent[s] + Len(f)) % Stamps
      BY <2>1, <2>6
    <3>4. Continues(<<>> \o Tail(f), (net.sent[s] + 1) % Stamps, (net.sent[s] + Len(f)) % Stamps)
      BY <2>1, <2>2, <2>5, <3>1, ContinuesDirect
    <3>5. Tail(f) \in Seq(Numbers)
      BY <2>1, <3>1
    <3>6. Tail(f) \in Seq(Marks)
      BY <3>5, MarksOf
    <3> QED
      BY <2>4, <3>2, <3>3, <3>4, <3>6
  <2>7. CASE s \notin D
    <3>1. Extended(net, n)[s] = net.queue[s] \o f
      BY <2>7 DEF Extended, f
    <3>2. v[s] = net.written[s] /\ t[s] = (net.sent[s] + Len(f)) % Stamps
      BY <2>1, <2>7
    <3>3. Continues(net.queue[s] \o f, net.written[s], (net.sent[s] + Len(f)) % Stamps)
      BY <2>1, <2>2, <2>5, ContinuesFresh
    <3>4. f \in Seq(Marks)
      BY <2>1, MarksOf
    <3> QED
      BY <2>2, <2>4, <3>1, <3>2, <3>3, <3>4
  <2> QED
    BY <2>6, <2>7
<1>4. r \in Nets
  <2>1. Extended(net, n) \in [Sessions -> Seq(Marks)]
    <3>1. Extended(net, n) = [s \in Sessions |-> Extended(net, n)[s]]
      BY DEF Extended
    <3> HIDE DEF r, w, t, v, D, ks
    <3> QED
      BY <1>3, <3>1
  <2>2. w \in [Sessions -> Sockets \cup {None}]
    BY <1>2
  <2>3. t \in [Sessions -> Numbers] /\ v \in [Sessions -> Numbers]
    BY <1>2, <1>3
  <2>4. Answered(net, ks) \in [Sockets -> Seq(Sessions \cup {None})]
    BY AnsweredType
  <2>5. net.wait \ ks \in SUBSET Sockets
    BY <1>2
  <2> HIDE DEF D, ks, w, t, v
  <2> QED
    BY <1>2, <2>1, <2>2, <2>3, <2>4, <2>5 DEF Nets
<1>5. Sound(r, lob, kn, asking)
  <2>1. ks \subseteq net.wait
    BY DEF Waiters, Direct, Sound
  <2>2. ks \cap lob = {} /\ ks \cap asking = {}
    BY <2>1 DEF Sound
  <2>3. ASSUME NEW s \in Sessions, w[s] # None
        PROVE  w[s] = net.waiter[s] /\ net.waiter[s] \notin ks /\ r.queue[s] = <<>>
    <3>1. s \notin D /\ w[s] = net.waiter[s] /\ net.waiter[s] # None
      BY <2>3
    <3>2. net.queue[s] = <<>> /\ net.conn[net.waiter[s]] = s
      BY <3>1 DEF Sound
    <3>3. ASSUME net.waiter[s] \in ks PROVE FALSE
      <4>1. PICK q \in D : net.waiter[s] = net.waiter[q]
        BY <3>3 DEF Waiters
      <4>2. net.conn[net.waiter[q]] = q
        BY <4>1 DEF Direct, Sound
      <4> QED
        BY <3>1, <3>2, <4>1, <4>2
    <3>4. n[s] = 0
      BY <3>1 DEF Direct
    <3>5. Fresh(net, s, 0) = <<>>
      BY DEF Fresh
    <3>6. Extended(net, n)[s] = <<>>
      BY <3>1, <3>2, <3>4, <3>5 DEF Extended
    <3> QED
      BY <3>1, <3>3, <3>6
  <2>4. /\ r.conn = net.conn /\ r.wait = net.wait \ ks /\ r.writing = Answered(net, ks)
        /\ r.waiter = w
    OBVIOUS
  <2>5. ks \in SUBSET (net.wait \cup lob \cup asking)
    BY <2>1
  <2>6. lob \ ks = lob /\ asking \ ks = asking
    BY <2>2
  <2> HIDE DEF r, w, ks, D, t, v
  <2>7. Sound(r, lob \ ks, kn, asking \ ks)
    BY <2>3, <2>4, <2>5, SoundAnswer
  <2> QED
    BY <2>6, <2>7
<1>6. InOrder(r)
  <2>1. r.queue = Extended(net, n) /\ r.written = v /\ r.sent = t
    OBVIOUS
  <2> HIDE DEF r, v, t
  <2> QED
    BY <1>3, <2>1 DEF InOrder
<1>7. r.conn = net.conn
  OBVIOUS
<1> QED
  BY <1>1, <1>4, <1>5, <1>6, <1>7

\* close_ajax: the request that was being handled waits or is answered.
LEMMA CloseAjaxKeeps ==
    ASSUME NEW net \in Nets, NEW lob \in SUBSET Sockets, NEW kn, NEW k \in Sockets,
           NEW s \in Sessions, s \in kn, net.conn[k] = s, NEW n \in {1, Len(net.queue[s])},
           Sound(net, lob, kn, {k}), InOrder(net)
    PROVE  /\ CloseAjax(net, k, s, n) \in Nets /\ CloseAjax(net, k, s, n).conn = net.conn
           /\ Sound(CloseAjax(net, k, s, n), lob, kn, {}) /\ InOrder(CloseAjax(net, k, s, n))
<1>1. /\ net.queue \in [Sessions -> Seq(Marks)] /\ net.conn \in [Sockets -> Sessions \cup {None}]
      /\ net.wait \subseteq Sockets /\ net.waiter \in [Sessions -> Sockets \cup {None}]
      /\ net.writing \in [Sockets -> Seq(Sessions \cup {None})]
      /\ net.sent \in [Sessions -> Numbers] /\ net.written \in [Sessions -> Numbers]
  BY DEF Nets
<1>2. CASE net.queue[s] = <<>>
  <2> DEFINE w == [net.waiter EXCEPT ![s] = k]
             r == [queue |-> net.queue, conn |-> net.conn, wait |-> net.wait \cup {k},
                   waiter |-> w, writing |-> net.writing,
                   sent |-> net.sent, written |-> net.written]
  <2>1. CloseAjax(net, k, s, n) = r
    BY <1>2, CloseAjaxWaitsIs
  <2>2. /\ w \in [Sessions -> Sockets \cup {None}] /\ w[s] = k
        /\ \A q \in Sessions : q # s => w[q] = net.waiter[q]
    BY <1>1
  <2>3. net.wait \cup {k} \in SUBSET Sockets
    BY <1>1
  <2> HIDE DEF w
  <2>4. r \in Nets
    BY <1>1, <2>2, <2>3 DEF Nets
  <2>5. /\ r.queue = net.queue /\ r.conn = net.conn /\ r.wait = net.wait \cup {k}
        /\ r.waiter = w /\ r.writing = net.writing
        /\ r.sent = net.sent /\ r.written = net.written
    OBVIOUS
  <2> HIDE DEF r
  <2>6. Sound(r, lob, kn, {})
    <3>1. ASSUME NEW j \in r.wait
          PROVE  j \notin lob /\ r.writing[j] = <<>> /\ r.conn[j] \in kn
      <4>1. CASE j = k
        BY <2>5, <4>1 DEF Sound
      <4>2. CASE j \in net.wait
        BY <2>5, <4>2 DEF Sound
      <4> QED
        BY <2>5, <4>1, <4>2
    <3>2. \A j \in lob : r.writing[j] = <<>> /\ r.conn[j] = None
      BY <2>5 DEF Sound
    <3>3. \A j \in Sockets : /\ Len(r.writing[j]) <= 1
                             /\ \/ j \in r.wait \cup lob \cup {}
                                \/ r.writing[j] # <<>>
                                \/ r.conn[j] = None
      BY <2>5 DEF Sound
    <3>4. ASSUME NEW q \in Sessions, r.waiter[q] # None
          PROVE  r.waiter[q] \in r.wait /\ r.conn[r.waiter[q]] = q /\ r.queue[q] = <<>>
      <4>1. CASE q = s
        BY <1>2, <2>2, <2>5, <4>1
      <4>2. CASE q # s
        <5>1. r.waiter[q] = net.waiter[q]
          BY <2>2, <2>5, <4>2
        <5> QED
          BY <2>5, <3>4, <5>1 DEF Sound
      <4> QED
        BY <4>1, <4>2
    <3> QED
      BY <3>1, <3>2, <3>3, <3>4 DEF Sound
  <2>7. InOrder(r)
    BY <2>5 DEF InOrder
  <2> QED
    BY <2>1, <2>4, <2>5, <2>6, <2>7
<1>3. CASE net.queue[s] # <<>>
  <2>0. CloseAjax(net, k, s, n) =
          [queue |-> [net.queue EXCEPT
                        ![s] = SubSeq(net.queue[s], n + 1, Len(net.queue[s]))],
           conn |-> net.conn, wait |-> net.wait \ Others(net, k, s),
           waiter |-> [net.waiter EXCEPT
                         ![s] = IF Others(net, k, s) # {} THEN None ELSE net.waiter[s]],
           writing |-> Answered(net, {k} \cup Others(net, k, s)),
           sent |-> net.sent,
           written |-> [net.written EXCEPT
                          ![s] = LastOf(SubSeq(net.queue[s], 1, n), net.written[s])]]
    BY <1>3, CloseAjaxTakesIs, ZenonT(40)
  <2> DEFINE others == Others(net, k, s)
             ks == {k} \cup others
             p == SubSeq(net.queue[s], n + 1, Len(net.queue[s]))
             o == LastOf(SubSeq(net.queue[s], 1, n), net.written[s])
             u == [net.queue EXCEPT ![s] = p]
             w == [net.waiter EXCEPT ![s] = IF others # {} THEN None ELSE net.waiter[s]]
             v == [net.written EXCEPT ![s] = o]
             r == [queue |-> u, conn |-> net.conn, wait |-> net.wait \ others,
                   waiter |-> w, writing |-> Answered(net, ks),
                   sent |-> net.sent, written |-> v]
  <2>1. CloseAjax(net, k, s, n) = r
    BY <2>0
  <2>2. net.waiter[s] = None
    BY <1>3 DEF Sound
  <2>3. n \in 0 .. Len(net.queue[s]) /\ net.queue[s] \in Seq(Marks)
    BY <1>1, <1>3
  <2>4. o \in Numbers /\ Continues(p, o, net.sent[s]) /\ p \in Seq(Marks)
    <3>1. net.written[s] \in Numbers /\ Continues(net.queue[s], net.written[s], net.sent[s])
      BY <1>1 DEF InOrder
    <3>2. p \in Seq(Marks)
      BY <2>3
    <3> QED
      BY <2>3, <3>1, <3>2, ContinuesTaken
  <2>5. k \notin net.wait
    BY DEF Sound
  <2>6. others \subseteq net.wait /\ net.wait \ others = net.wait \ ks
    BY <2>5 DEF Others
  <2> HIDE DEF others, o, p
  <2>7. /\ u \in [Sessions -> Seq(Marks)] /\ u[s] = p
        /\ \A q \in Sessions : q # s => u[q] = net.queue[q]
    BY <1>1, <2>4
  <2>8. /\ v \in [Sessions -> Numbers] /\ v[s] = o
        /\ \A q \in Sessions : q # s => v[q] = net.written[q]
    BY <1>1, <2>4
  <2>9. w = net.waiter
    BY <1>1, <2>2
  <2>10. Answered(net, ks) \in [Sockets -> Seq(Sessions \cup {None})]
    BY AnsweredType
  <2>11. net.wait \ others \in SUBSET Sockets
    BY <1>1
  <2> HIDE DEF u, v, w, ks
  <2>12. r \in Nets
    BY <1>1, <2>7, <2>8, <2>9, <2>10, <2>11 DEF Nets
  <2>13. /\ r.queue = u /\ r.conn = net.conn /\ r.wait = net.wait \ ks
         /\ r.waiter = net.waiter /\ r.writing = Answered(net, ks)
         /\ r.sent = net.sent /\ r.written = v
    BY <2>6, <2>9
  <2> HIDE DEF r
  <2>14. Sound(r, lob, kn, {})
    <3>1. ks \in SUBSET (net.wait \cup lob \cup {k}) /\ {k} \in SUBSET Sockets
      BY <2>6 DEF ks
    <3>2. ASSUME NEW q \in Sessions, r.waiter[q] # None
          PROVE  r.waiter[q] = net.waiter[q] /\ net.waiter[q] \notin ks /\ r.queue[q] = <<>>
      <4>1. r.waiter[q] = net.waiter[q] /\ q # s
        BY <2>2, <2>13, <3>2
      <4>2. net.waiter[q] \in net.wait /\ net.conn[net.waiter[q]] = q /\ net.queue[q] = <<>>
        BY <3>2, <4>1 DEF Sound
      <4>3. net.waiter[q] \notin ks
        BY <2>5, <4>1, <4>2 DEF ks, others, Others
      <4> QED
        BY <2>7, <2>13, <4>1, <4>2, <4>3
    <3>3. Sound(r, lob \ ks, kn, {k} \ ks)
      BY <2>13, <3>1, <3>2, SoundAnswer
    <3>4. lob \ ks = lob /\ {k} \ ks = {}
      <4>1. k \notin lob /\ \A j \in net.wait : j \notin lob
        BY DEF Sound
      <4> QED
        BY <2>6, <4>1 DEF ks
    <3> QED
      BY <3>3, <3>4
  <2>15. InOrder(r)
    <3> SUFFICES ASSUME NEW q \in Sessions
                 PROVE  Continues(r.queue[q], r.written[q], r.sent[q])
      BY DEF InOrder
    <3>1. CASE q = s
      BY <2>4, <2>7, <2>8, <2>13, <3>1
    <3>2. CASE q # s
      BY <2>7, <2>8, <2>13, <3>2 DEF InOrder
    <3> QED
      BY <3>1, <3>2
  <2> QED
    BY <2>1, <2>12, <2>13, <2>14, <2>15
<1> QED
  BY <1>2, <1>3

\* Whoever waits for the lobby, or asks without a session, is answered.
LEMMA SendKeeps ==
    ASSUME NEW net \in Nets, NEW lob \in SUBSET Sockets, NEW kn, NEW asking \in SUBSET Sockets,
           Sound(net, lob, kn, asking), InOrder(net), NEW ks, ks \subseteq lob \cup asking
    PROVE  /\ Send(net, ks) \in Nets /\ Sound(Send(net, ks), lob \ ks, kn, asking \ ks)
           /\ InOrder(Send(net, ks))
<1> DEFINE r == Send(net, ks)
<1>1. /\ r = [queue |-> net.queue, conn |-> net.conn, wait |-> net.wait,
              waiter |-> net.waiter, writing |-> Answered(net, ks),
              sent |-> net.sent, written |-> net.written]
      /\ r.queue = net.queue /\ r.conn = net.conn /\ r.wait = net.wait
      /\ r.waiter = net.waiter /\ r.writing = Answered(net, ks)
      /\ r.sent = net.sent /\ r.written = net.written
  BY SendIs
<1> HIDE DEF r
<1>2. r \in Nets
  <2>1. Answered(net, ks) \in [Sockets -> Seq(Sessions \cup {None})]
    BY AnsweredType
  <2> QED
    BY <1>1, <2>1 DEF Nets
<1>3. Sound(r, lob \ ks, kn, asking \ ks)
  <2>1. ks \in SUBSET (net.wait \cup lob \cup asking)
    OBVIOUS
  <2>2. \A k \in ks : k \notin net.wait
    BY DEF Sound
  <2>3. net.wait = net.wait \ ks
    BY <2>2
  <2>4. ASSUME NEW s \in Sessions, r.waiter[s] # None
        PROVE  r.waiter[s] = net.waiter[s] /\ net.waiter[s] \notin ks /\ r.queue[s] = <<>>
    BY <1>1, <2>2, <2>4 DEF Sound
  <2>5. r.wait = net.wait \ ks
    BY <1>1, <2>3
  <2> QED
    BY <1>1, <2>1, <2>4, <2>5, SoundAnswer
<1>4. InOrder(r)
  BY <1>1 DEF InOrder
<1> QED
  BY <1>2, <1>3, <1>4 DEF r

\* heartbeat_internal.
LEMMA BeatenKeeps ==
    ASSUME NEW net \in Nets, NEW lob \in SUBSET Sockets, NEW kn, Sound(net, lob, kn, {}),
           InOrder(net), NEW ks \in Served(net), NEW beat \in BOOLEAN
    PROVE  /\ Beaten(net, ks, beat) \in Nets /\ Sound(Beaten(net, ks, beat), lob, kn, {})
           /\ InOrder(Beaten(net, ks, beat))
<1> DEFINE replied == IF beat THEN net.wait ELSE ks
           u == [s \in Sessions |-> SubSeq(net.queue[s], Owned(net, ks, s) + 1, Len(net.queue[s]))]
           v == [s \in Sessions |-> LastOf(SubSeq(net.queue[s], 1, Owned(net, ks, s)),
                                           net.written[s])]
           w == [s \in Sessions |-> IF \E k \in replied : net.conn[k] = s THEN None
                                    ELSE net.waiter[s]]
           r == [queue |-> u, conn |-> net.conn, wait |-> net.wait \ replied, waiter |-> w,
                 writing |-> Answered(net, replied), sent |-> net.sent, written |-> v]
<1>1. /\ net.queue \in [Sessions -> Seq(Marks)] /\ net.conn \in [Sockets -> Sessions \cup {None}]
      /\ net.wait \subseteq Sockets /\ net.waiter \in [Sessions -> Sockets \cup {None}]
      /\ net.writing \in [Sockets -> Seq(Sessions \cup {None})]
      /\ net.sent \in [Sessions -> Numbers] /\ net.written \in [Sessions -> Numbers]
  BY DEF Nets
<1>2. Beaten(net, ks, beat) = r
  BY BeatenIs
<1>3. ASSUME NEW s \in Sessions
      PROVE  Owned(net, ks, s) \in 0 .. Len(net.queue[s]) /\ net.queue[s] \in Seq(Marks)
  <2> DEFINE own == {k \in net.wait : net.conn[k] = s}
             m == Cardinality(own)
             l == Len(net.queue[s])
  <2>1. Cardinality(ks \cap own) = Min({m, l}) /\ ks \subseteq net.wait
    BY DEF Served
  <2>2. {k \in ks : net.conn[k] = s} = ks \cap own
    BY <2>1
  <2>3. m \in Nat
    <3>1. IsFiniteSet(Sockets) /\ own \subseteq Sockets
      BY <1>1, TbsServerAssumption
    <3>2. IsFiniteSet(own)
      BY <3>1, FS_Subset
    <3> HIDE DEF own
    <3> QED
      BY <3>2, FS_CardinalityType
  <2>4. l \in Nat /\ net.queue[s] \in Seq(Marks)
    BY <1>1
  <2> HIDE DEF m, l, own
  <2> DEFINE I == {m, l}
  <2>5. I \in SUBSET Nat /\ I # {} /\ l \in I
    BY <2>3, <2>4
  <2> HIDE DEF I
  <2>6. Min(I) \in I /\ \A j \in I : Min(I) <= j
    BY <2>5, MinFacts
  <2>7. Min(I) \in Nat /\ Min(I) <= l
    BY <2>5, <2>6
  <2>8. Owned(net, ks, s) = Min(I)
    BY <2>1, <2>2 DEF Owned, I
  <2>9. Owned(net, ks, s) \in 0 .. l
    BY <2>4, <2>7, <2>8
  <2> QED
    BY <2>4, <2>9 DEF l
<1>4. ASSUME NEW s \in Sessions
      PROVE  u[s] \in Seq(Marks) /\ v[s] \in Numbers /\ Continues(u[s], v[s], net.sent[s])
  <2> DEFINE n == Owned(net, ks, s)
             q == net.queue[s]
  <2>1. n \in 0 .. Len(q) /\ q \in Seq(Marks)
    BY <1>3
  <2>2. net.written[s] \in Numbers /\ Continues(q, net.written[s], net.sent[s])
    BY <1>1 DEF InOrder
  <2>3. u[s] = SubSeq(q, n + 1, Len(q)) /\ v[s] = LastOf(SubSeq(q, 1, n), net.written[s])
    OBVIOUS
  <2> HIDE DEF n, q, u, v
  <2>4. SubSeq(q, n + 1, Len(q)) \in Seq(Marks)
    BY <2>1
  <2> QED
    BY <2>1, <2>2, <2>3, <2>4, ContinuesTaken
<1>5. replied \subseteq net.wait /\ net.wait \ replied \in SUBSET Sockets
  BY <1>1 DEF Served
<1>6. u \in [Sessions -> Seq(Marks)] /\ v \in [Sessions -> Numbers]
  BY <1>4
<1>7. w \in [Sessions -> Sockets \cup {None}]
  BY <1>1
<1>8. Answered(net, replied) \in [Sockets -> Seq(Sessions \cup {None})]
  BY AnsweredType
<1>9. ASSUME NEW s \in Sessions, net.queue[s] = <<>> PROVE u[s] = <<>>
  <2>1. Owned(net, ks, s) = 0
    BY <1>3, <1>9
  <2> QED
    BY <1>9, <2>1
<1>10. \A s \in Sessions : w[s] # None =>
          w[s] = net.waiter[s] /\ \A k \in replied : net.conn[k] # s
  OBVIOUS
<1> HIDE DEF replied, u, v, w
<1>11. r \in Nets
  BY <1>1, <1>5, <1>6, <1>7, <1>8 DEF Nets
<1>12. /\ r.queue = u /\ r.conn = net.conn /\ r.wait = net.wait \ replied /\ r.waiter = w
       /\ r.writing = Answered(net, replied) /\ r.sent = net.sent /\ r.written = v
  OBVIOUS
<1> HIDE DEF r
<1>13. Sound(r, lob, kn, {})
  <2>1. replied \in SUBSET (net.wait \cup lob \cup {}) /\ {} \in SUBSET Sockets
    BY <1>5
  <2>2. ASSUME NEW s \in Sessions, r.waiter[s] # None
        PROVE  r.waiter[s] = net.waiter[s] /\ net.waiter[s] \notin replied /\ r.queue[s] = <<>>
    <3>1. r.waiter[s] = net.waiter[s] /\ \A k \in replied : net.conn[k] # s
      BY <1>10, <1>12, <2>2
    <3>2. net.conn[net.waiter[s]] = s /\ net.queue[s] = <<>>
      BY <2>2, <3>1 DEF Sound
    <3> QED
      BY <1>9, <1>12, <3>1, <3>2
  <2>3. Sound(r, lob \ replied, kn, {} \ replied)
    BY <1>12, <2>1, <2>2, SoundAnswer
  <2>4. lob \ replied = lob /\ {} \ replied = {}
    BY <1>5 DEF Sound
  <2> QED
    BY <2>3, <2>4
<1>14. InOrder(r)
  BY <1>4, <1>12 DEF InOrder
<1> QED
  BY <1>2, <1>11, <1>13, <1>14

\* A session that has no connection is forgotten.
LEMMA ForgottenKeeps ==
    ASSUME NEW net \in Nets, NEW lob \in SUBSET Sockets, NEW kn, NEW s,
           Sound(net, lob, kn, {}), InOrder(net), \A k \in Sockets : net.conn[k] # s
    PROVE  /\ Forgotten(net, s) \in Nets /\ Sound(Forgotten(net, s), lob, kn \ {s}, {})
           /\ InOrder(Forgotten(net, s))
<1> DEFINE u == [net.queue EXCEPT ![s] = <<>>]
           t == [net.sent EXCEPT ![s] = 0]
           v == [net.written EXCEPT ![s] = 0]
           r == [queue |-> u, conn |-> net.conn, wait |-> net.wait,
                 waiter |-> net.waiter, writing |-> net.writing, sent |-> t, written |-> v]
<1>1. /\ net.queue \in [Sessions -> Seq(Marks)] /\ net.conn \in [Sockets -> Sessions \cup {None}]
      /\ net.wait \subseteq Sockets /\ net.waiter \in [Sessions -> Sockets \cup {None}]
      /\ net.writing \in [Sockets -> Seq(Sessions \cup {None})]
      /\ net.sent \in [Sessions -> Numbers] /\ net.written \in [Sessions -> Numbers]
  BY DEF Nets
<1>2. Forgotten(net, s) = r
  BY ForgottenIs
<1>3. 0 \in Numbers /\ <<>> \in Seq(Marks)
  BY NumbersType DEF Numbers
<1>4. /\ u \in [Sessions -> Seq(Marks)] /\ t \in [Sessions -> Numbers]
      /\ v \in [Sessions -> Numbers]
  BY <1>1, <1>3
<1>5. /\ \A q \in Sessions : q # s =>
            u[q] = net.queue[q] /\ t[q] = net.sent[q] /\ v[q] = net.written[q]
      /\ s \in Sessions => u[s] = <<>> /\ t[s] = 0 /\ v[s] = 0
  BY <1>1
<1> HIDE DEF u, t, v
<1>6. r \in Nets
  BY <1>1, <1>4 DEF Nets
<1>7. /\ r.queue = u /\ r.conn = net.conn /\ r.wait = net.wait /\ r.waiter = net.waiter
      /\ r.writing = net.writing /\ r.sent = t /\ r.written = v
  OBVIOUS
<1> HIDE DEF r
<1>8. Sound(r, lob, kn \ {s}, {})
  <2>1. ASSUME NEW k \in r.wait
        PROVE  k \notin lob /\ r.writing[k] = <<>> /\ r.conn[k] \in kn \ {s}
    <3>1. k \in net.wait /\ k \in Sockets
      BY <1>1, <1>7
    <3> QED
      BY <1>7, <3>1 DEF Sound
  <2>2. ASSUME NEW q \in Sessions, r.waiter[q] # None
        PROVE  r.waiter[q] \in r.wait /\ r.conn[r.waiter[q]] = q /\ r.queue[q] = <<>>
    BY <1>5, <1>7, <2>2 DEF Sound
  <2>3. \A k \in lob : r.writing[k] = <<>> /\ r.conn[k] = None
    BY <1>7 DEF Sound
  <2>4. \A k \in Sockets : /\ Len(r.writing[k]) <= 1
                           /\ \/ k \in r.wait \cup lob \cup {}
                              \/ r.writing[k] # <<>>
                              \/ r.conn[k] = None
    BY <1>7 DEF Sound
  <2> QED
    BY <2>1, <2>2, <2>3, <2>4 DEF Sound
<1>9. InOrder(r)
  <2> SUFFICES ASSUME NEW q \in Sessions
               PROVE  Continues(r.queue[q], r.written[q], r.sent[q])
    BY DEF InOrder
  <2>1. CASE q = s
    BY <1>3, <1>5, <1>7, <2>1, ContinuesEmpty
  <2>2. CASE q # s
    BY <1>5, <1>7, <2>2 DEF InOrder
  <2> QED
    BY <2>1, <2>2
<1> QED
  BY <1>2, <1>6, <1>8, <1>9

\* An answer that could not be written is queued again, or answers the waiting request.
LEMMA RequeuedKeeps ==
    ASSUME NEW net \in Nets, NEW lob \in SUBSET Sockets, NEW kn, NEW s \in Sessions \cup {None},
           Sound(net, lob, kn, {}), InOrder(net), NEW k \in Sockets, net.writing[k] # <<>>
    PROVE  /\ Requeued(net, s) \in Nets /\ Sound(Requeued(net, s), lob, kn, {})
           /\ InOrder(Requeued(net, s)) /\ Requeued(net, s).writing[k] # <<>>
<1>1. /\ net.queue \in [Sessions -> Seq(Marks)] /\ net.conn \in [Sockets -> Sessions \cup {None}]
      /\ net.wait \subseteq Sockets /\ net.waiter \in [Sessions -> Sockets \cup {None}]
      /\ net.writing \in [Sockets -> Seq(Sessions \cup {None})]
      /\ net.sent \in [Sessions -> Numbers] /\ net.written \in [Sessions -> Numbers]
  BY DEF Nets
<1>2. CASE s = None
  BY <1>2 DEF Requeued
<1>3. CASE s # None /\ net.waiter[s] # None
  <2> DEFINE j == net.waiter[s]
             w == [net.waiter EXCEPT ![s] = None]
             r == [queue |-> net.queue, conn |-> net.conn, wait |-> net.wait \ {j},
                   waiter |-> w, writing |-> Answered(net, {j}),
                   sent |-> net.sent, written |-> net.written]
  <2>1. Requeued(net, s) = r
    BY <1>3, RequeuedAnswersIs
  <2>2. s \in Sessions /\ j \in net.wait /\ net.conn[j] = s /\ net.writing[j] = <<>>
    BY <1>3 DEF Sound
  <2>3. /\ w \in [Sessions -> Sockets \cup {None}] /\ w[s] = None
        /\ \A q \in Sessions : q # s => w[q] = net.waiter[q]
    BY <1>1, <2>2
  <2>4. Answered(net, {j}) \in [Sockets -> Seq(Sessions \cup {None})]
    BY AnsweredType
  <2>5. net.wait \ {j} \in SUBSET Sockets
    BY <1>1
  <2> HIDE DEF j, w
  <2>6. r \in Nets
    BY <1>1, <2>3, <2>4, <2>5 DEF Nets
  <2>7. /\ r.queue = net.queue /\ r.conn = net.conn /\ r.wait = net.wait \ {j}
        /\ r.waiter = w /\ r.writing = Answered(net, {j})
        /\ r.sent = net.sent /\ r.written = net.written
    OBVIOUS
  <2> HIDE DEF r
  <2>8. Sound(r, lob, kn, {})
    <3>1. {j} \in SUBSET (net.wait \cup lob \cup {}) /\ {} \in SUBSET Sockets
      BY <2>2
    <3>2. ASSUME NEW q \in Sessions, r.waiter[q] # None
          PROVE  r.waiter[q] = net.waiter[q] /\ net.waiter[q] \notin {j} /\ r.queue[q] = <<>>
      <4>1. q # s /\ r.waiter[q] = net.waiter[q]
        BY <2>3, <2>7, <3>2
      <4>2. net.conn[net.waiter[q]] = q /\ net.queue[q] = <<>>
        BY <3>2, <4>1 DEF Sound
      <4> QED
        BY <2>2, <2>7, <4>1, <4>2
    <3>3. Sound(r, lob \ {j}, kn, {} \ {j})
      BY <2>7, <3>1, <3>2, SoundAnswer
    <3>4. lob \ {j} = lob /\ {} \ {j} = {}
      BY <2>2 DEF Sound
    <3> QED
      BY <3>3, <3>4
  <2>9. InOrder(r)
    BY <2>7 DEF InOrder
  <2>10. r.writing[k] # <<>>
    <3>1. k # j
      BY <2>2
    <3> QED
      BY <2>7, <3>1 DEF Answered
  <2> QED
    BY <2>1, <2>6, <2>8, <2>9, <2>10
<1>4. CASE s # None /\ net.waiter[s] = None
  <2> DEFINE u == [net.queue EXCEPT ![s] = <<Wrapped>> \o net.queue[s]]
             r == [queue |-> u, conn |-> net.conn, wait |-> net.wait, waiter |-> net.waiter,
                   writing |-> net.writing, sent |-> net.sent, written |-> net.written]
  <2>1. Requeued(net, s) = r
    BY <1>4, RequeuedQueuesIs
  <2>2. s \in Sessions /\ net.queue[s] \in Seq(Marks) /\ <<Wrapped>> \in Seq(Marks)
    BY <1>1, <1>4 DEF Marks
  <2>3. <<Wrapped>> \o net.queue[s] \in Seq(Marks)
    BY <2>2
  <2>4. /\ u \in [Sessions -> Seq(Marks)] /\ u[s] = <<Wrapped>> \o net.queue[s]
        /\ \A q \in Sessions : q # s => u[q] = net.queue[q]
    BY <1>1, <2>2, <2>3
  <2> HIDE DEF u
  <2>5. r \in Nets
    BY <1>1, <2>4 DEF Nets
  <2>6. /\ r.queue = u /\ r.conn = net.conn /\ r.wait = net.wait /\ r.waiter = net.waiter
        /\ r.writing = net.writing /\ r.sent = net.sent /\ r.written = net.written
    OBVIOUS
  <2> HIDE DEF r
  <2>7. Sound(r, lob, kn, {})
    <3>1. ASSUME NEW q \in Sessions, r.waiter[q] # None
          PROVE  r.waiter[q] \in r.wait /\ r.conn[r.waiter[q]] = q /\ r.queue[q] = <<>>
      <4>1. q # s
        BY <1>4, <2>6, <3>1
      <4> QED
        BY <2>4, <2>6, <3>1, <4>1 DEF Sound
    <3>2. /\ \A i \in r.wait : i \notin lob /\ r.writing[i] = <<>> /\ r.conn[i] \in kn
          /\ \A i \in lob : r.writing[i] = <<>> /\ r.conn[i] = None
          /\ \A i \in {} : i \notin r.wait \cup lob /\ r.writing[i] = <<>>
          /\ \A i \in Sockets : /\ Len(r.writing[i]) <= 1
                                /\ \/ i \in r.wait \cup lob \cup {}
                                   \/ r.writing[i] # <<>>
                                   \/ r.conn[i] = None
      BY <2>6 DEF Sound
    <3> QED
      BY <3>1, <3>2 DEF Sound
  <2>8. InOrder(r)
    <3> SUFFICES ASSUME NEW q \in Sessions
                 PROVE  Continues(r.queue[q], r.written[q], r.sent[q])
      BY DEF InOrder
    <3>1. CASE q = s
      <4>1. Continues(net.queue[s], net.written[s], net.sent[s])
        BY <2>2 DEF InOrder
      <4>2. Continues(<<Wrapped>> \o net.queue[s], net.written[s], net.sent[s])
        BY <2>2, <4>1, ContinuesWrapped
      <4> QED
        BY <2>4, <2>6, <3>1, <4>2
    <3>2. CASE q # s
      BY <2>4, <2>6, <3>2 DEF InOrder
    <3> QED
      BY <3>1, <3>2
  <2> QED
    BY <2>1, <2>5, <2>6, <2>7, <2>8
<1> QED
  BY <1>2, <1>3, <1>4

\* Short sequences.
LEMMA EmptySeq == ASSUME NEW S, NEW x \in Seq(S), Len(x) = 0 PROVE x = <<>>
OBVIOUS

\* ... and shorter.
LEMMA OneLeft == ASSUME NEW S, NEW x \in Seq(S), Len(x) = 1 PROVE Tail(x) = <<>>
<1>1. Tail(x) \in Seq(S) /\ Len(Tail(x)) = 0
  OBVIOUS
<1> QED
  BY <1>1, EmptySeq

\* A socket is disconnected when its answer was written, or could not be.
LEMMA DisconnectedKeeps ==
    ASSUME NEW net \in Nets, NEW lob \in SUBSET Sockets, NEW kn,
           Sound(net, lob, kn, {}), InOrder(net), NEW k \in Sockets, net.writing[k] # <<>>
    PROVE  /\ Disconnected(net, k) \in Nets /\ Sound(Disconnected(net, k), lob, kn, {})
           /\ InOrder(Disconnected(net, k))
<1> DEFINE c == [net.conn EXCEPT ![k] = None]
           w == Left(net, k)
           e == [net.writing EXCEPT ![k] = Tail(net.writing[k])]
           r == [queue |-> net.queue, conn |-> c, wait |-> net.wait \ {k}, waiter |-> w,
                 writing |-> e, sent |-> net.sent, written |-> net.written]
<1>1. /\ net.queue \in [Sessions -> Seq(Marks)] /\ net.conn \in [Sockets -> Sessions \cup {None}]
      /\ net.wait \subseteq Sockets /\ net.waiter \in [Sessions -> Sockets \cup {None}]
      /\ net.writing \in [Sockets -> Seq(Sessions \cup {None})]
      /\ net.sent \in [Sessions -> Numbers] /\ net.written \in [Sessions -> Numbers]
  BY DEF Nets
<1>2. Disconnected(net, k) = r
  BY DisconnectedIs
<1>3. k \notin net.wait /\ k \notin lob /\ Len(net.writing[k]) <= 1
  BY DEF Sound
<1>4. Tail(net.writing[k]) = <<>>
  <2> DEFINE x == net.writing[k]
  <2>1. x \in Seq(Sessions \cup {None}) /\ Len(x) <= 1 /\ x # <<>>
    BY <1>1, <1>3
  <2> HIDE DEF x
  <2>2. Len(x) = 1
    <3> DEFINE n == Len(x)
    <3>1. n \in Nat
      BY <2>1
    <3>2. n # 0
      BY <2>1, EmptySeq
    <3>3. n <= 1
      BY <2>1
    <3> HIDE DEF n
    <3>4. n = 1
      BY <3>1, <3>2, <3>3
    <3> QED
      BY <3>4 DEF n
  <2>3. Tail(x) = <<>>
    BY <2>1, <2>2, OneLeft
  <2> QED
    BY <2>3 DEF x
<1>5. /\ c \in [Sockets -> Sessions \cup {None}] /\ c[k] = None
      /\ \A j \in Sockets : j # k => c[j] = net.conn[j]
  BY <1>1
<1>6. /\ e \in [Sockets -> Seq(Sessions \cup {None})] /\ e[k] = <<>>
      /\ \A j \in Sockets : j # k => e[j] = net.writing[j]
  <2>1. <<>> \in Seq(Sessions \cup {None})
    OBVIOUS
  <2> QED
    BY <1>1, <1>4, <2>1
<1>7. /\ w \in [Sessions -> Sockets \cup {None}]
      /\ \A s \in Sessions : w[s] # None => w[s] = net.waiter[s]
  BY <1>1 DEF Left
<1>8. net.wait \ {k} = net.wait /\ net.wait \ {k} \in SUBSET Sockets
  BY <1>1, <1>3
<1> HIDE DEF c, w, e
<1>9. r \in Nets
  BY <1>1, <1>5, <1>6, <1>7, <1>8 DEF Nets
<1>10. /\ r.queue = net.queue /\ r.conn = c /\ r.wait = net.wait /\ r.waiter = w
       /\ r.writing = e /\ r.sent = net.sent /\ r.written = net.written
  BY <1>8
<1> HIDE DEF r
<1>11. \A j \in net.wait \cup lob : j \in Sockets /\ j # k
  BY <1>1, <1>3
<1>12. Sound(r, lob, kn, {})
  <2>1. ASSUME NEW j \in r.wait
        PROVE  j \notin lob /\ r.writing[j] = <<>> /\ r.conn[j] \in kn
    <3>1. j \in net.wait /\ r.writing[j] = net.writing[j] /\ r.conn[j] = net.conn[j]
      BY <1>5, <1>6, <1>10, <1>11
    <3> QED
      BY <3>1 DEF Sound
  <2>2. ASSUME NEW j \in lob PROVE r.writing[j] = <<>> /\ r.conn[j] = None
    <3>1. r.writing[j] = net.writing[j] /\ r.conn[j] = net.conn[j]
      BY <1>5, <1>6, <1>10, <1>11
    <3> QED
      BY <3>1 DEF Sound
  <2>3. ASSUME NEW j \in Sockets
        PROVE  /\ Len(r.writing[j]) <= 1
               /\ \/ j \in r.wait \cup lob \cup {}
                  \/ r.writing[j] # <<>>
                  \/ r.conn[j] = None
    <3>1. CASE j = k
      <4>1. Len(<<>>) = 0 /\ r.writing[j] = <<>> /\ r.conn[j] = None
        BY <1>5, <1>6, <1>10, <3>1
      <4>2. Len(r.writing[j]) <= 1
        BY <4>1
      <4> QED
        BY <4>1, <4>2
    <3>2. CASE j # k
      BY <1>5, <1>6, <1>10, <3>2 DEF Sound
    <3> QED
      BY <3>1, <3>2
  <2>4. ASSUME NEW s \in Sessions, r.waiter[s] # None
        PROVE  r.waiter[s] \in r.wait /\ r.conn[r.waiter[s]] = s /\ r.queue[s] = <<>>
    <3>1. r.waiter[s] = net.waiter[s] /\ net.waiter[s] # None
      BY <1>7, <1>10, <2>4
    <3>2. net.waiter[s] \in net.wait /\ net.conn[net.waiter[s]] = s /\ net.queue[s] = <<>>
      BY <3>1 DEF Sound
    <3> QED
      BY <1>5, <1>10, <1>11, <3>1, <3>2
  <2> QED
    BY <2>1, <2>2, <2>3, <2>4 DEF Sound
<1>13. InOrder(r)
  BY <1>10 DEF InOrder
<1> QED
  BY <1>2, <1>9, <1>12, <1>13

-----------------------------------------------------------------------------
(* The clients of the game and its messages. *)

\* The elements of a sequence.
LEMMA RangeFacts ==
    ASSUME NEW T, NEW s \in Seq(T)
    PROVE  \A x : x \in Range(s) <=> \E i \in 1 .. Len(s) : s[i] = x
BY DEF Range

\* What is in a sequence has its type.
LEMMA InRange == ASSUME NEW T, NEW s \in Seq(T) PROVE Range(s) \subseteq T
<1>1. DOMAIN s = 1 .. Len(s) /\ \A i \in 1 .. Len(s) : s[i] \in T
  OBVIOUS
<1> QED
  BY <1>1 DEF Range

\* Taking a client off a list on which it is once.
LEMMA RemoveFirstFacts ==
    ASSUME NEW T, NEW s \in Seq(T), NEW e, IsInjective(s)
    PROVE  /\ RemoveFirst(s, e) \in Seq(T)
           /\ Range(RemoveFirst(s, e)) = Range(s) \ {e}
           /\ IsInjective(RemoveFirst(s, e))
<1> DEFINE I == {i \in 1 .. Len(s) : s[i] = e}
           k == Min(I)
           t == SubSeq(s, 1, k - 1) \o SubSeq(s, k + 1, Len(s))
<1>1. CASE I = {}
  <2>1. RemoveFirst(s, e) = s
    BY <1>1 DEF RemoveFirst
  <2> QED
    BY <1>1, <2>1 DEF Range
<1>2. CASE I # {}
  <2>1. k \in 1 .. Len(s) /\ s[k] = e
    <3>1. I \in SUBSET Nat
      OBVIOUS
    <3>2. k \in I
      <4> HIDE DEF I
      <4> QED
        BY <1>2, <3>1, MinFacts
    <3> QED
      BY <3>2
  <2>2. RemoveFirst(s, e) = t
    BY <1>2 DEF RemoveFirst, SelectInSeq, RemoveAt
  <2> HIDE DEF k
  <2>3. /\ t \in Seq(T) /\ Len(t) = Len(s) - 1
        /\ \A i \in 1 .. Len(t) : t[i] = IF i < k THEN s[i] ELSE s[i + 1]
    <3> DEFINE u == SubSeq(s, 1, k - 1)
               v == SubSeq(s, k + 1, Len(s))
    <3>1. u \in Seq(T) /\ Len(u) = k - 1 /\ \A i \in 1 .. k - 1 : u[i] = s[i]
      BY <2>1
    <3>2. v \in Seq(T) /\ Len(v) = Len(s) - k /\ \A i \in 1 .. Len(s) - k : v[i] = s[k + i]
      BY <2>1
    <3> HIDE DEF u, v
    <3>3. u \o v \in Seq(T) /\ Len(u \o v) = Len(s) - 1
      BY <2>1, <3>1, <3>2
    <3>4. ASSUME NEW i \in 1 .. Len(s) - 1
          PROVE  (u \o v)[i] = IF i < k THEN s[i] ELSE s[i + 1]
      BY <2>1, <3>1, <3>2
    <3> QED
      BY <3>3, <3>4 DEF u, v
  <2> HIDE DEF t
  <2>4. \A i, j \in 1 .. Len(s) : s[i] = s[j] => i = j
    BY DEF IsInjective
  <2>5. \A x : x \in Range(t) <=> x \in Range(s) /\ x # e
    <3>1. \A i \in 1 .. Len(s) : s[i] # e => \E j \in 1 .. Len(t) : t[j] = s[i]
      <4> SUFFICES ASSUME NEW i \in 1 .. Len(s), s[i] # e
                   PROVE  \E j \in 1 .. Len(t) : t[j] = s[i]
        OBVIOUS
      <4>1. CASE i < k
        BY <2>1, <2>3, <4>1
      <4>2. CASE i > k
        <5>1. i - 1 \in 1 .. Len(t) /\ t[i - 1] = s[i]
          BY <2>1, <2>3, <4>2
        <5> QED
          BY <5>1
      <4> QED
        BY <2>1, <4>1, <4>2
    <3>2. \A j \in 1 .. Len(t) : t[j] # e /\ \E i \in 1 .. Len(s) : s[i] = t[j]
      BY <2>1, <2>3, <2>4
    <3> QED
      <4>1. \A x : x \in Range(s) <=> \E i \in 1 .. Len(s) : s[i] = x
        BY RangeFacts
      <4>2. \A x : x \in Range(t) <=> \E i \in 1 .. Len(t) : t[i] = x
        BY <2>3, RangeFacts
      <4> QED
        BY <3>1, <3>2, <4>1, <4>2
  <2>6. IsInjective(t)
    BY <2>1, <2>3, <2>4 DEF IsInjective
  <2> QED
    BY <2>2, <2>3, <2>5, <2>6
<1> QED
  BY <1>1, <1>2

\* An observer is added.
LEMMA AppendFacts ==
    ASSUME NEW T, NEW s \in Seq(T), NEW e \in T, IsInjective(s), e \notin Range(s)
    PROVE  /\ Append(s, e) \in Seq(T) /\ Range(Append(s, e)) = Range(s) \cup {e}
           /\ IsInjective(Append(s, e))
<1> DEFINE t == Append(s, e)
<1>1. /\ t \in Seq(T) /\ Len(t) = Len(s) + 1 /\ Len(s) \in Nat
      /\ \A i \in 1 .. Len(s) : t[i] = s[i]
      /\ t[Len(s) + 1] = e
  OBVIOUS
<1> HIDE DEF t
<1>2. \A i \in 1 .. Len(s) + 1 : i \in 1 .. Len(s) \/ i = Len(s) + 1
  BY <1>1
<1>3. /\ \A x : x \in Range(s) <=> \E i \in 1 .. Len(s) : s[i] = x
      /\ \A x : x \in Range(t) <=> \E i \in 1 .. Len(s) + 1 : t[i] = x
  BY <1>1, RangeFacts
<1>4. Range(t) = Range(s) \cup {e}
  <2>1. Len(s) + 1 \in 1 .. Len(s) + 1 /\ \A i \in 1 .. Len(s) : i \in 1 .. Len(s) + 1
    BY <1>1
  <2> QED
    BY <1>1, <1>2, <1>3, <2>1
<1>5. \A i, j \in 1 .. Len(s) : s[i] = s[j] => i = j
  BY DEF IsInjective
<1>6. \A i \in 1 .. Len(s) : t[i] # e
  BY <1>1, <1>3
<1>7. \A i, j \in 1 .. Len(s) + 1 : t[i] = t[j] => i = j
  BY <1>1, <1>2, <1>5, <1>6
<1>8. IsInjective(t)
  BY <1>1, <1>7 DEF IsInjective
<1> QED
  BY <1>1, <1>4, <1>8 DEF t

\* How many numbers there are up to n.
LEMMA IntervalSize ==
    ASSUME NEW n \in Nat
    PROVE  IsFiniteSet(1 .. n) /\ Cardinality(1 .. n) = n
<1>1. IsFiniteSet(1 .. n) /\ Cardinality(1 .. n) = IF 1 > n THEN 0 ELSE (n - 1) + 1
  BY FS_Interval
<1> QED
  BY <1>1

\* The game has no more clients than there are sessions.
LEMMA ClientsBound ==
    ASSUME NEW cs \in Seq(Sessions), IsInjective(cs)
    PROVE  /\ Cardinality(Observers) \in Nat /\ Len(Players) \in Nat
           /\ Len(cs) <= Len(Players) + Cardinality(Observers)
<1> DEFINE P == Range(Players)
<1>1. IsFiniteSet(Observers) /\ Players \in Seq(P)
  BY TbsServerAssumption
<1>2. Cardinality(Observers) \in Nat /\ Len(Players) \in Nat /\ Len(cs) \in Nat
  BY <1>1, FS_CardinalityType
<1>3. IsFiniteSet(P) /\ Cardinality(P) <= Len(Players)
  <2>1. Players \in Surjection(1 .. Len(Players), P)
    BY <1>1, RangeFacts DEF Surjection
  <2>2. IsFiniteSet(1 .. Len(Players)) /\ Cardinality(1 .. Len(Players)) = Len(Players)
    BY <1>2, IntervalSize
  <2> HIDE DEF P
  <2> QED
    BY <2>1, <2>2, FS_Surjection
<1> HIDE DEF P
<1>4. IsFiniteSet(P \cup Observers)
  BY <1>1, <1>3, FS_Union
<1>5. Cardinality(P \cup Observers) <= Len(Players) + Cardinality(Observers)
  <2>1. /\ Cardinality(P \cup Observers)
           = Cardinality(P) + Cardinality(Observers) - Cardinality(P \cap Observers)
    BY <1>1, <1>3, FS_Union
  <2>2. IsFiniteSet(P \cap Observers)
    BY <1>3, FS_Subset
  <2>3. Cardinality(P \cap Observers) \in Nat /\ Cardinality(P) \in Nat
    BY <1>3, <2>2, FS_CardinalityType
  <2> QED
    BY <1>2, <1>3, <2>1, <2>3
<1>6. Cardinality(1 .. Len(cs)) <= Cardinality(P \cup Observers)
  <2>1. cs \in Injection(1 .. Len(cs), P \cup Observers)
    BY DEF Injection, IsInjective, Sessions, P
  <2> QED
    BY <1>4, <2>1, FS_Injection
<1>7. Cardinality(1 .. Len(cs)) = Len(cs)
  BY <1>2, IntervalSize
<1>8. Cardinality(P \cup Observers) \in Nat
  BY <1>4, FS_CardinalityType
<1> QED
  BY <1>2, <1>5, <1>6, <1>7, <1>8

\* A session is sent a number of messages.
LEMMA CountType ==
    ASSUME NEW S, NEW out \in Seq(S), NEW s, NEW cs
    PROVE  Count(s, out, cs) \in Nat
<1> DEFINE I == {i \in DOMAIN out : s \in Recipients(out[i], cs)}
<1>1. IsFiniteSet(1 .. Len(out))
  BY FS_Interval
<1>2. I \subseteq 1 .. Len(out)
  OBVIOUS
<1> HIDE DEF I
<1>3. IsFiniteSet(I)
  BY <1>1, <1>2, FS_Subset
<1>4. Cardinality(I) \in Nat
  BY <1>3, FS_CardinalityType
<1> QED
  BY <1>4 DEF Count, I

\* Recipients of a message.
LEMMA NamedFacts ==
    /\ Len(Players) \in Nat /\ Cardinality(Observers) \in Nat
    /\ All \in Named /\ AllObservers \in Named /\ 0 .. Len(Players) \subseteq Named
<1>1. Len(Players) \in Nat /\ Cardinality(Observers) \in Nat
  BY TbsServerAssumption, FS_CardinalityType
<1> QED
  BY <1>1 DEF Named, All, AllObservers

\* send_game_state names recipients.
LEMMA StateToAllType == StateToAll \in Seq(Named)
<1> DEFINE a == [i \in 1 .. NPlayers |-> i - 1]
<1>1. NPlayers \in Nat /\ \A i \in 1 .. NPlayers : i - 1 \in 0 .. Len(Players)
  BY NamedFacts DEF NPlayers
<1>2. a \in Seq(Named)
  BY <1>1, NamedFacts
<1>3. <<AllObservers>> \in Seq(Named)
  BY NamedFacts
<1> HIDE DEF a
<1>4. a \o <<AllObservers>> \in Seq(Named)
  BY <1>2, <1>3
<1> QED
  BY <1>4 DEF StateToAll, a

\* ... as does a message to the other players.
LEMMA OtherPlayersType == ASSUME NEW n PROVE OtherPlayers(n) \in Seq(Named)
<1>1. NPlayers \in Nat /\ NPlayers = Len(Players)
  BY NamedFacts DEF NPlayers
<1>2. \A i \in 1 .. NPlayers - 1 : i - 1 \in 0 .. Len(Players) /\ i \in 0 .. Len(Players)
  BY <1>1
<1>3. CASE NPlayers = 0
  <2> DEFINE f == [i \in 1 .. NPlayers - 1 |-> IF i <= n THEN i - 1 ELSE i]
  <2>1. 1 .. NPlayers - 1 = {} /\ 1 .. 0 = {}
    BY <1>3
  <2>2. f \in [1 .. 0 -> Named] /\ 0 \in Nat
    BY <2>1
  <2> HIDE DEF f
  <2>3. f \in Seq(Named)
    BY <2>2
  <2> QED
    BY <2>3 DEF OtherPlayers, f
<1>4. CASE NPlayers > 0
  <2>1. NPlayers - 1 \in Nat
    BY <1>1, <1>4
  <2>2. \A i \in 1 .. NPlayers - 1 : (IF i <= n THEN i - 1 ELSE i) \in Named
    BY <1>2, NamedFacts
  <2> QED
    BY <2>1, <2>2 DEF OtherPlayers
<1> QED
  BY <1>1, <1>3, <1>4

\* ... and whatever answers a message of a client with this nplayer.
LEMMA ScriptsType == ASSUME NEW n, NEW out \in Scripts(n) PROVE out \in Seq(Named \cup {n})
<1>1. <<All>> \in Seq(Named) /\ StateToAll \in Seq(Named) /\ OtherPlayers(n) \in Seq(Named)
  BY NamedFacts, StateToAllType, OtherPlayersType
<1>2. StateToAll \o StateToAll \in Seq(Named)
  BY <1>1
<1>3. ASSUME NEW x \in Seq(Named) PROVE x \in Seq(Named \cup {n})
  <2>1. x \in [1 .. Len(x) -> Named] /\ Len(x) \in Nat
    OBVIOUS
  <2>2. x \in [1 .. Len(x) -> Named \cup {n}]
    BY <2>1
  <2> QED
    BY <2>1, <2>2
<1>4. out \in {<<>>, <<All>>, StateToAll, StateToAll \o StateToAll, <<n>>, OtherPlayers(n)}
  BY DEF Scripts
<1>5. <<>> \in Seq(Named \cup {n}) /\ <<n>> \in Seq(Named \cup {n})
  OBVIOUS
<1> QED
  BY <1>1, <1>2, <1>3, <1>4, <1>5

\* ... and what is said of players gone or back.
LEMMA NoticesType == ASSUME NEW out \in Notices PROVE out \in Seq(Named)
<1>1. CASE out = <<>>
  BY <1>1
<1>2. ASSUME NEW n, NEW x \in {<<>>, StateToAll}, out = OtherPlayers(n) \o x
      PROVE  out \in Seq(Named)
  <2>1. <<>> \in Seq(Named) /\ StateToAll \in Seq(Named)
    BY StateToAllType
  <2>2. x = <<>> \/ x = StateToAll
    OBVIOUS
  <2>3. x \in Seq(Named) /\ OtherPlayers(n) \in Seq(Named)
    BY <2>1, <2>2, OtherPlayersType
  <2> QED
    BY <1>2, <2>3
<1> QED
  BY <1>1, <1>2 DEF Notices

\* A client quits the game.
LEMMA QuittingFacts ==
    ASSUME NEW s \in Sessions, NEW pending \in Seq(Named),
           clients \in Seq(Sessions), IsInjective(clients)
    PROVE  LET q == Quitting(s, pending)
           IN  /\ q.clients \in Seq(Sessions) /\ IsInjective(q.clients)
               /\ Range(q.clients) = Range(clients) \ {s}
               /\ q.outgoing \in Seq(Named) /\ q.counts \in [Sessions -> Nat]
<1> DEFINE cs == RemoveFirst(clients, s)
           q == Quitting(s, pending)
<1>1. cs \in Seq(Sessions) /\ IsInjective(cs) /\ Range(cs) = Range(clients) \ {s}
  BY RemoveFirstFacts
<1>2. pending \o <<All, All>> \in Seq(Named)
  <2>1. <<All, All>> \in Seq(Named)
    BY NamedFacts
  <2> QED
    BY <2>1
<1>3. \A r \in Sessions : Count(r, pending \o <<All, All>>, cs) \in Nat
  BY <1>2, CountType
<1>4. /\ q.clients = cs
      /\ q.outgoing = IF s \in Range(Players) \/ cs = <<>> THEN <<>> ELSE pending
      /\ q.counts = [r \in Sessions |-> IF s \in Range(Players)
                                        THEN Count(r, pending \o <<All, All>>, cs) ELSE 0]
  BY DEF Quitting
<1> HIDE DEF q, cs
<1>5. q.outgoing \in Seq(Named) /\ q.counts \in [Sessions -> Nat]
  BY <1>3, <1>4
<1> QED
  BY <1>1, <1>4, <1>5 DEF q

-----------------------------------------------------------------------------
(* Every handler keeps the invariant. *)

\* A handler ends with the state that its steps made.
LEMMA BecomeKeeps ==
    ASSUME NEW new \in Nets, Become(new), Sound(new, lobby', known', {}), InOrder(new)
    PROVE  (Net \in Nets /\ Sound(Net, lobby, known, {}) /\ InOrder(Net))'
<1>1. new = [queue |-> new.queue, conn |-> new.conn, wait |-> new.wait,
             waiter |-> new.waiter, writing |-> new.writing, sent |-> new.sent,
             written |-> new.written]
  BY DEF Nets
<1>2. Net' = new
  BY <1>1 DEF Net, Become
<1>3. Net' \in Nets /\ Sound(Net', lobby', known', {}) /\ InOrder(Net')
  BY <1>2
<1> QED
  BY <1>3

\* ... and one that leaves queues and sockets alone keeps them.
LEMMA NetSame ==
    ASSUME UNCHANGED network
    PROVE  Net' = Net
BY DEF network, Net

\* More sessions are known.
LEMMA SoundKnown ==
    ASSUME NEW net, NEW lob, NEW kn, NEW more, kn \subseteq more, Sound(net, lob, kn, {})
    PROVE  Sound(net, lob, more, {})
BY DEF Sound

\* A socket on which a request may come.
LEMMA Idle ==
    ASSUME NEW k \in Sockets, ~Busy(k)
    PROVE  k \notin Net.wait \cup lobby /\ Net.writing[k] = <<>>
BY DEF Busy, Net

\* A request of a session is answered, or waits.
LEMMA AnswerKeeps ==
    ASSUME IInv, NEW k \in Sockets, ~Busy(k), NEW s \in known, NEW n \in [Sessions -> Nat],
           Answer(k, s, n), UNCHANGED <<known, lobby>>
    PROVE  (Net \in Nets /\ Sound(Net, lobby, known, {}) /\ InOrder(Net))'
<1> DEFINE a == [Net EXCEPT !.conn[k] = s]
           b == Queue(a, n)
<1>1. s \in Sessions /\ lobby \in SUBSET Sockets /\ {k} \in SUBSET Sockets
  BY DEF IInv, Roster
<1>2. Net \in Nets /\ Sound(Net, lobby, known, {}) /\ InOrder(Net)
  BY DEF IInv
<1>3. k \notin Net.wait \cup lobby /\ Net.writing[k] = <<>>
  BY Idle
<1>4. a \in Nets /\ Sound(a, lobby, known, {k}) /\ a.conn[k] = s /\ InOrder(a)
  BY <1>1, <1>2, <1>3, SoundAsked, ZenonT(40)
<1>5. \E taken \in {1, Len(b.queue[s])} : Become(CloseAjax(b, k, s, taken))
  BY DEF Answer
<1> HIDE DEF a
<1>6. b \in Nets /\ b.conn = a.conn /\ Sound(b, lobby, known, {k}) /\ InOrder(b)
  BY <1>1, <1>4, QueueKeeps
<1> HIDE DEF b
<1>7. PICK taken \in {1, Len(b.queue[s])} : Become(CloseAjax(b, k, s, taken))
  BY <1>5
<1> DEFINE c == CloseAjax(b, k, s, taken)
<1>8. c \in Nets /\ Sound(c, lobby, known, {}) /\ InOrder(c)
  BY <1>1, <1>4, <1>6, CloseAjaxKeeps
<1>9. Become(c) /\ lobby' = lobby /\ known' = known
  BY <1>7
<1> HIDE DEF c
<1> QED
  BY <1>8, <1>9, BecomeKeeps

\* A request of no session is answered at once.
LEMMA ReplyKeeps ==
    ASSUME IInv, NEW k \in Sockets, ~Busy(k), Reply(k), known \subseteq known', lobby' = lobby
    PROVE  (Net \in Nets /\ Sound(Net, lobby, known, {}) /\ InOrder(Net))'
<1> DEFINE a == Send(Net, {k})
<1>1. lobby \in SUBSET Sockets /\ {k} \in SUBSET Sockets /\ {k} \subseteq lobby \cup {k}
  BY DEF IInv, Roster
<1>2. Net \in Nets /\ Sound(Net, lobby, known, {}) /\ InOrder(Net)
  BY DEF IInv
<1>3. k \notin Net.wait \cup lobby /\ Net.writing[k] = <<>>
  BY Idle
<1>4. Sound(Net, lobby, known, {k})
  BY <1>2, <1>3 DEF Sound
<1>5. a \in Nets /\ Sound(a, lobby \ {k}, known, {k} \ {k}) /\ InOrder(a)
  BY <1>1, <1>2, <1>4, SendKeeps
<1>6. lobby \ {k} = lobby' /\ {k} \ {k} = {}
  BY <1>3
<1>7. Become(a)
  BY DEF Reply
<1> HIDE DEF a
<1>8. Sound(a, lobby', known, {})
  BY <1>5, <1>6
<1>9. Sound(a, lobby', known', {})
  BY <1>8, SoundKnown
<1> QED
  BY <1>5, <1>7, <1>9, BecomeKeeps

\* get_status.
LEMMA GetStatusKeeps ==
    ASSUME IInv, NEW k \in Sockets, GetStatus(k)
    PROVE  IInv'
<1>1. ~Busy(k) /\ UNCHANGED members
  BY DEF GetStatus
<1>2. CASE Reply(k) /\ UNCHANGED lobby
  <2>1. Roster'
    BY <1>1, <1>2 DEF members, IInv, Roster
  <2>2. (Net \in Nets /\ Sound(Net, lobby, known, {}) /\ InOrder(Net))'
    BY <1>1, <1>2, ReplyKeeps DEF members
  <2> QED
    BY <2>1, <2>2 DEF IInv
<1>3. CASE lobby' = lobby \cup {k} /\ UNCHANGED network
  <2>1. Roster'
    BY <1>1, <1>3 DEF members, IInv, Roster
  <2>2. Net' = Net /\ known' = known
    BY <1>1, <1>3, NetSame DEF members
  <2>3. k \notin Net.wait \cup lobby /\ Net.writing[k] = <<>> /\ Net.conn[k] = None
    <3>1. k \notin Net.wait \cup lobby /\ Net.writing[k] = <<>>
      BY <1>1, Idle
    <3> QED
      BY <3>1 DEF IInv, Sound
  <2>4. Sound(Net, lobby \cup {k}, known, {})
    BY <2>3 DEF IInv, Sound
  <2>5. (Net \in Nets /\ Sound(Net, lobby, known, {}) /\ InOrder(Net))'
    BY <1>3, <2>2, <2>4 DEF IInv
  <2> QED
    BY <2>1, <2>5 DEF IInv
<1> QED
  BY <1>2, <1>3 DEF GetStatus

\* observe_game.
LEMMA ObserveGameKeeps ==
    ASSUME IInv, NEW k \in Sockets, NEW s \in Sessions, ObserveGame(k, s)
    PROVE  IInv'
<1>1. ~Busy(k) /\ Reply(k) /\ lobby' = lobby
  BY DEF ObserveGame
<1>2. Roster' /\ known \subseteq known'
  <2>1. CASE UNCHANGED members
    BY <1>1, <2>1 DEF members, IInv, Roster
  <2>2. CASE /\ s \notin known /\ known' = known \cup {s} /\ ingame' = ingame \cup {s}
             /\ clients' = Append(clients, s)
             /\ outgoing' = outgoing \o <<All, Len(clients)>>
    <3>1. /\ clients \in Seq(Sessions) /\ IsInjective(clients) /\ Range(clients) = ingame
          /\ ingame \subseteq known /\ outgoing \in Seq(Named)
      BY DEF IInv, Roster
    <3>2. /\ clients' \in Seq(Sessions) /\ IsInjective(clients')
          /\ Range(clients') = ingame'
      <4>1. s \notin Range(clients)
        BY <2>2, <3>1
      <4> QED
        BY <2>2, <3>1, <4>1, AppendFacts
    <3>3. All \in Named /\ Len(clients) \in Named
      <4>1. /\ Cardinality(Observers) \in Nat /\ Len(Players) \in Nat
            /\ Len(clients) <= Len(Players) + Cardinality(Observers)
        BY <3>1, ClientsBound
      <4>2. Len(clients) \in Nat
        BY <3>1
      <4> QED
        BY <4>1, <4>2, NamedFacts DEF Named, All
    <3>4. outgoing' \in Seq(Named)
      <4>1. <<All, Len(clients)>> \in Seq(Named)
        BY <3>3
      <4> QED
        BY <2>2, <3>1, <4>1
    <3> QED
      BY <1>1, <2>2, <3>2, <3>4 DEF IInv, Roster
  <2> QED
    BY <2>1, <2>2 DEF ObserveGame
<1>3. (Net \in Nets /\ Sound(Net, lobby, known, {}) /\ InOrder(Net))'
  BY <1>1, <1>2, ReplyKeeps
<1> QED
  BY <1>2, <1>3 DEF IInv

\* An unknown session.
LEMMA InvalidSessionKeeps ==
    ASSUME IInv, NEW k \in Sockets, NEW s \in Sessions, InvalidSession(k, s)
    PROVE  IInv'
<1>1. ~Busy(k) /\ Reply(k) /\ lobby' = lobby /\ UNCHANGED members
  BY DEF InvalidSession
<1>2. Roster' /\ known \subseteq known'
  BY <1>1 DEF members, IInv, Roster
<1>3. (Net \in Nets /\ Sound(Net, lobby, known, {}) /\ InOrder(Net))'
  BY <1>1, <1>2, ReplyKeeps
<1> QED
  BY <1>2, <1>3 DEF IInv

\* What the game has to send, all of it, for each session.
LEMMA CountsType ==
    ASSUME outgoing \in Seq(Named), NEW S, NEW out \in Seq(S)
    PROVE  [q \in Sessions |-> Count(q, outgoing \o out, clients)] \in [Sessions -> Nat]
<1>1. outgoing \o out \in Seq(Named \cup S)
  <2>1. ASSUME NEW T, NEW U, NEW x \in Seq(T), T \subseteq U PROVE x \in Seq(U)
    <3>1. x \in [1 .. Len(x) -> T] /\ Len(x) \in Nat
      OBVIOUS
    <3>2. x \in [1 .. Len(x) -> U]
      BY <2>1, <3>1
    <3> QED
      BY <3>1, <3>2
  <2>2. outgoing \in Seq(Named \cup S)
    BY <2>1
  <2>3. out \in Seq(Named \cup S)
    BY <2>1
  <2> QED
    BY <2>2, <2>3
<1>2. \A q \in Sessions : Count(q, outgoing \o out, clients) \in Nat
  BY <1>1, CountType
<1> QED
  BY <1>2

\* A message for the game.
LEMMA GameMessageKeeps ==
    ASSUME IInv, NEW k \in Sockets, NEW s \in Sessions, GameMessage(k, s)
    PROVE  IInv'
<1>1. /\ ~Busy(k) /\ s \in known /\ outgoing' = <<>>
      /\ UNCHANGED <<known, ingame, clients, lobby>>
  BY DEF GameMessage, IInv, Roster
<1>2. PICK out \in Scripts(NPlayer(s)) :
         Answer(k, s, [q \in Sessions |-> Count(q, outgoing \o out, clients)])
  BY DEF GameMessage
<1> DEFINE n == [q \in Sessions |-> Count(q, outgoing \o out, clients)]
<1>3. n \in [Sessions -> Nat]
  <2>1. outgoing \in Seq(Named) /\ out \in Seq(Named \cup {NPlayer(s)})
    BY ScriptsType DEF IInv, Roster
  <2> QED
    BY <2>1, CountsType
<1>4. Answer(k, s, n)
  BY <1>2
<1> HIDE DEF n
<1>5. (Net \in Nets /\ Sound(Net, lobby, known, {}) /\ InOrder(Net))'
  BY <1>1, <1>3, <1>4, AnswerKeeps
<1>6. Roster'
  <2>1. <<>> \in Seq(Named)
    OBVIOUS
  <2> QED
    BY <1>1, <2>1 DEF IInv, Roster
<1> QED
  BY <1>5, <1>6 DEF IInv

\* A request of a session without a game.
LEMMA IdleMessageKeeps ==
    ASSUME IInv, NEW k \in Sockets, NEW s \in Sessions, IdleMessage(k, s)
    PROVE  IInv'
<1> DEFINE n == [q \in Sessions |-> 0]
<1>1. ~Busy(k) /\ s \in known /\ Answer(k, s, n) /\ UNCHANGED <<members, lobby>>
  BY DEF IdleMessage
<1>2. n \in [Sessions -> Nat]
  OBVIOUS
<1> HIDE DEF n
<1>3. (Net \in Nets /\ Sound(Net, lobby, known, {}) /\ InOrder(Net))'
  BY <1>1, <1>2, AnswerKeeps DEF members
<1>4. Roster'
  BY <1>1 DEF members, IInv, Roster
<1> QED
  BY <1>3, <1>4 DEF IInv

\* quit.
LEMMA QuitKeeps ==
    ASSUME IInv, NEW k \in Sockets, NEW s \in Sessions, Quit(k, s)
    PROVE  IInv'
<1> DEFINE q == Quitting(s, outgoing)
           n == [q.counts EXCEPT ![s] = @ + 1]
           a == [Net EXCEPT !.conn[k] = s]
           b == Queue(a, n)
<1>1. /\ ~Busy(k) /\ s \in ingame
      /\ \E taken \in {1, Len(b.queue[s])} :
            Become(IF q.clients = <<>> THEN StatusChange(CloseAjax(b, k, s, taken))
                   ELSE CloseAjax(b, k, s, taken))
      /\ lobby' = IF q.clients = <<>> THEN {} ELSE lobby
      /\ clients' = q.clients /\ outgoing' = q.outgoing
      /\ ingame' = ingame \ {s} /\ known' = known
  BY DEF Quit
<1>2. /\ lobby \in SUBSET Sockets /\ {k} \in SUBSET Sockets /\ s \in known
      /\ outgoing \in Seq(Named) /\ clients \in Seq(Sessions) /\ IsInjective(clients)
      /\ Range(clients) = ingame /\ ingame \subseteq known /\ known \subseteq Sessions
      /\ Net \in Nets /\ Sound(Net, lobby, known, {}) /\ InOrder(Net)
  BY <1>1 DEF IInv, Roster
<1>3. /\ q.clients \in Seq(Sessions) /\ IsInjective(q.clients)
      /\ Range(q.clients) = ingame \ {s}
      /\ q.outgoing \in Seq(Named) /\ q.counts \in [Sessions -> Nat]
  BY <1>2, QuittingFacts
<1> HIDE DEF q
<1>4. n \in [Sessions -> Nat]
  BY <1>3
<1> HIDE DEF n
<1>5. k \notin Net.wait \cup lobby /\ Net.writing[k] = <<>>
  BY <1>1, Idle
<1>6. a \in Nets /\ Sound(a, lobby, known, {k}) /\ a.conn[k] = s /\ InOrder(a)
  BY <1>2, <1>5, SoundAsked, ZenonT(40)
<1> HIDE DEF a
<1>7. b \in Nets /\ b.conn = a.conn /\ Sound(b, lobby, known, {k}) /\ InOrder(b)
  BY <1>2, <1>4, <1>6, QueueKeeps
<1> HIDE DEF b
<1>8. PICK taken \in {1, Len(b.queue[s])} :
         Become(IF q.clients = <<>> THEN StatusChange(CloseAjax(b, k, s, taken))
                ELSE CloseAjax(b, k, s, taken))
  BY <1>1
<1> DEFINE c == CloseAjax(b, k, s, taken)
<1>9. c \in Nets /\ Sound(c, lobby, known, {}) /\ InOrder(c)
  BY <1>2, <1>6, <1>7, CloseAjaxKeeps
<1> HIDE DEF c
<1>10. Roster'
  BY <1>1, <1>2, <1>3 DEF Roster
<1>11. (Net \in Nets /\ Sound(Net, lobby, known, {}) /\ InOrder(Net))'
  <2>1. CASE q.clients = <<>>
    <3> DEFINE d == Send(c, lobby)
    <3>1. Become(d)
      BY <1>8, <2>1 DEF StatusChange, c
    <3>2. d \in Nets /\ Sound(d, lobby \ lobby, known, {} \ lobby) /\ InOrder(d)
      <4>1. {} \in SUBSET Sockets /\ lobby \subseteq lobby \cup {}
        OBVIOUS
      <4> QED
        BY <1>2, <1>9, <4>1, SendKeeps
    <3>3. lobby \ lobby = lobby' /\ {} \ lobby = {} /\ known' = known
      BY <1>1, <2>1
    <3> HIDE DEF d
    <3>4. Sound(d, lobby', known', {})
      BY <3>2, <3>3
    <3> QED
      BY <3>1, <3>2, <3>4, BecomeKeeps
  <2>2. CASE q.clients # <<>>
    <3>1. Become(c) /\ lobby' = lobby /\ known' = known
      BY <1>1, <1>8, <2>2 DEF c
    <3> QED
      BY <1>9, <3>1, BecomeKeeps
  <2> QED
    BY <2>1, <2>2
<1> QED
  BY <1>10, <1>11 DEF IInv

\* handle_send.
LEMMA HandleSendKeeps ==
    ASSUME IInv, NEW k \in Sockets, HandleSend(k)
    PROVE  IInv'
<1>1. /\ writing[k] # <<>> /\ UNCHANGED <<members, lobby>>
      /\ Become(Disconnected(Net, k)) \/ Become(Disconnected(Requeued(Net, Head(writing[k])), k))
  BY DEF HandleSend
<1>2. /\ lobby \in SUBSET Sockets
      /\ Net \in Nets /\ Sound(Net, lobby, known, {}) /\ InOrder(Net)
  BY DEF IInv, Roster
<1>3. Net.writing[k] # <<>> /\ Net.writing[k] = writing[k] /\ lobby' = lobby /\ known' = known
  BY <1>1 DEF Net, members
<1>4. Roster'
  BY <1>1 DEF members, IInv, Roster
<1>5. CASE Become(Disconnected(Net, k))
  <2> DEFINE d == Disconnected(Net, k)
  <2>1. d \in Nets /\ Sound(d, lobby, known, {}) /\ InOrder(d)
    BY <1>2, <1>3, DisconnectedKeeps
  <2> HIDE DEF d
  <2>2. (Net \in Nets /\ Sound(Net, lobby, known, {}) /\ InOrder(Net))'
    BY <1>3, <1>5, <2>1, BecomeKeeps DEF d
  <2> QED
    BY <1>4, <2>2 DEF IInv
<1>6. CASE Become(Disconnected(Requeued(Net, Head(writing[k])), k))
  <2> DEFINE s == Head(writing[k])
             r == Requeued(Net, s)
             d == Disconnected(r, k)
  <2>1. s \in Sessions \cup {None}
    <3> DEFINE x == writing[k]
    <3>1. x \in Seq(Sessions \cup {None}) /\ x # <<>>
      <4>1. Net.writing \in [Sockets -> Seq(Sessions \cup {None})]
        BY <1>2 DEF Nets
      <4> QED
        BY <1>1, <1>3, <4>1
    <3> HIDE DEF x
    <3>2. Head(x) \in Sessions \cup {None}
      BY <3>1
    <3> QED
      BY <3>2 DEF x
  <2> HIDE DEF s
  <2>2. r \in Nets /\ Sound(r, lobby, known, {}) /\ InOrder(r) /\ r.writing[k] # <<>>
    BY <1>2, <1>3, <2>1, RequeuedKeeps
  <2> HIDE DEF r
  <2>3. d \in Nets /\ Sound(d, lobby, known, {}) /\ InOrder(d)
    BY <1>2, <2>2, DisconnectedKeeps
  <2>4. Become(d)
    BY <1>6 DEF r, s
  <2> HIDE DEF d
  <2>5. (Net \in Nets /\ Sound(Net, lobby, known, {}) /\ InOrder(Net))'
    BY <1>3, <2>3, <2>4, BecomeKeeps
  <2> QED
    BY <1>4, <2>5 DEF IInv
<1> QED
  BY <1>1, <1>5, <1>6

\* heartbeat.
LEMMA HeartbeatKeeps ==
    ASSUME IInv, NEW beat \in BOOLEAN, Heartbeat(beat)
    PROVE  IInv'
<1>1. PICK s \in {q \in Sessions : TimedOut(q)} \cup {None} :
        LET quits == s # None /\ s \in ingame
            q == IF quits THEN Quitting(s, <<>>)
                 ELSE [clients |-> clients, outgoing |-> <<>>,
                       counts |-> [r \in Sessions |-> 0]]
            ends == quits /\ q.clients = <<>>
        IN  \E out \in IF clients # <<>> /\ Uncrowded THEN {<<>>, StateToAll} ELSE {<<>>} :
            LET flushed == Queue(Net, [r \in Sessions |-> Count(r, outgoing \o out, clients)])
                left    == Queue(flushed, q.counts)
                net     == IF s = None THEN flushed ELSE Forgotten(left, s)
            IN  /\ \E ks \in Served(net) :
                      Become(IF ends \/ beat THEN StatusChange(Beaten(net, ks, beat))
                             ELSE Beaten(net, ks, beat))
                /\ lobby' = IF ends \/ beat THEN {} ELSE lobby
                /\ clients' = q.clients
                /\ ingame' = ingame \ {s} /\ known' = known \ {s}
                /\ outgoing' \in IF q.clients # <<>> /\ Uncrowded THEN Notices ELSE {<<>>}
  BY DEF Heartbeat
<1> DEFINE quits == s # None /\ s \in ingame
           q == IF quits THEN Quitting(s, <<>>)
                ELSE [clients |-> clients, outgoing |-> <<>>, counts |-> [r \in Sessions |-> 0]]
           ends == quits /\ q.clients = <<>>
<1>2. /\ lobby \in SUBSET Sockets /\ None \notin Sessions
      /\ outgoing \in Seq(Named) /\ clients \in Seq(Sessions) /\ IsInjective(clients)
      /\ Range(clients) = ingame /\ ingame \subseteq known /\ known \subseteq Sessions
      /\ Net \in Nets /\ Sound(Net, lobby, known, {}) /\ InOrder(Net)
  BY TbsServerAssumption DEF IInv, Roster, None
<1>3. /\ q.clients \in Seq(Sessions) /\ IsInjective(q.clients)
      /\ Range(q.clients) = ingame \ {s} /\ q.counts \in [Sessions -> Nat]
  <2>1. CASE quits
    <3>1. s \in Sessions /\ <<>> \in Seq(Named)
      BY <1>2, <2>1
    <3> QED
      BY <1>2, <2>1, <3>1, QuittingFacts
  <2>2. CASE ~quits
    <3>1. s \notin ingame /\ ingame \ {s} = ingame
      BY <1>2, <2>2
    <3>2. q.clients = clients /\ q.counts = [r \in Sessions |-> 0]
      BY <2>2
    <3> QED
      BY <1>2, <3>1, <3>2
  <2> QED
    BY <2>1, <2>2
<1> HIDE DEF q, quits
<1>4. PICK out \in {<<>>, StateToAll} :
        LET flushed == Queue(Net, [r \in Sessions |-> Count(r, outgoing \o out, clients)])
            left    == Queue(flushed, q.counts)
            net     == IF s = None THEN flushed ELSE Forgotten(left, s)
        IN  /\ \E ks \in Served(net) :
                  Become(IF ends \/ beat THEN StatusChange(Beaten(net, ks, beat))
                         ELSE Beaten(net, ks, beat))
            /\ lobby' = IF ends \/ beat THEN {} ELSE lobby
            /\ clients' = q.clients
            /\ ingame' = ingame \ {s} /\ known' = known \ {s}
            /\ outgoing' \in IF q.clients # <<>> /\ Uncrowded THEN Notices ELSE {<<>>}
  BY <1>1 DEF q, quits
<1> HIDE DEF ends
<1> DEFINE n == [r \in Sessions |-> Count(r, outgoing \o out, clients)]
           flushed == Queue(Net, n)
           left    == Queue(flushed, q.counts)
           net     == IF s = None THEN flushed ELSE Forgotten(left, s)
<1>5. n \in [Sessions -> Nat]
  <2>1. <<>> \in Seq(Named) /\ StateToAll \in Seq(Named)
    BY StateToAllType
  <2>2. out \in Seq(Named)
    BY <2>1
  <2> QED
    BY <1>2, <2>2, CountsType
<1>6. PICK ks \in Served(net) :
        Become(IF ends \/ beat THEN StatusChange(Beaten(net, ks, beat))
               ELSE Beaten(net, ks, beat))
  BY <1>4
<1>7. /\ lobby' = IF ends \/ beat THEN {} ELSE lobby
      /\ clients' = q.clients /\ ingame' = ingame \ {s} /\ known' = known \ {s}
      /\ outgoing' \in IF q.clients # <<>> /\ Uncrowded THEN Notices ELSE {<<>>}
  BY <1>4
<1> HIDE DEF n
<1>8. /\ flushed \in Nets /\ flushed.conn = Net.conn /\ Sound(flushed, lobby, known, {})
      /\ InOrder(flushed)
  <2>1. {} \in SUBSET Sockets
    OBVIOUS
  <2> QED
    BY <1>2, <1>5, <2>1, QueueKeeps
<1> HIDE DEF flushed
<1>9. /\ left \in Nets /\ left.conn = Net.conn /\ Sound(left, lobby, known, {})
      /\ InOrder(left)
  <2>1. {} \in SUBSET Sockets
    OBVIOUS
  <2> QED
    BY <1>2, <1>3, <1>8, <2>1, QueueKeeps
<1> HIDE DEF left
<1>10. net \in Nets /\ Sound(net, lobby, known \ {s}, {}) /\ InOrder(net)
  <2>1. CASE s = None
    <3>1. known \ {s} = known /\ net = flushed
      BY <1>2, <2>1
    <3> QED
      BY <1>8, <3>1
  <2>2. CASE s # None
    <3>1. net = Forgotten(left, s)
      BY <2>2
    <3>2. \A k \in Sockets : left.conn[k] # s
      <4>1. TimedOut(s) /\ Net.conn = connection
        BY <2>2 DEF Net
      <4> QED
        BY <1>9, <4>1 DEF TimedOut
    <3>3. /\ Forgotten(left, s) \in Nets /\ Sound(Forgotten(left, s), lobby, known \ {s}, {})
          /\ InOrder(Forgotten(left, s))
      <4>1. lobby \in SUBSET Sockets
        BY <1>2
      <4> HIDE DEF net
      <4> QED
        BY <1>9, <3>2, <4>1, ForgottenKeeps
    <3> HIDE DEF net
    <3> QED
      BY <3>1, <3>3
  <2> QED
    BY <2>1, <2>2
<1> HIDE DEF net
<1> DEFINE c == Beaten(net, ks, beat)
<1>11. c \in Nets /\ Sound(c, lobby, known', {}) /\ InOrder(c)
  <2>1. c \in Nets /\ Sound(c, lobby, known \ {s}, {}) /\ InOrder(c)
    BY <1>2, <1>10, BeatenKeeps
  <2> QED
    BY <1>7, <2>1
<1>12. Become(IF ends \/ beat THEN StatusChange(c) ELSE c)
  BY <1>6
<1> HIDE DEF c
<1>13. (Net \in Nets /\ Sound(Net, lobby, known, {}) /\ InOrder(Net))'
  <2>1. CASE ends \/ beat
    <3> DEFINE d == Send(c, lobby)
    <3>1. Become(d)
      BY <1>12, <2>1 DEF StatusChange
    <3>2. d \in Nets /\ Sound(d, lobby \ lobby, known', {} \ lobby) /\ InOrder(d)
      <4>1. {} \in SUBSET Sockets /\ lobby \subseteq lobby \cup {}
        OBVIOUS
      <4> QED
        BY <1>2, <1>11, <4>1, SendKeeps
    <3>3. lobby \ lobby = lobby' /\ {} \ lobby = {}
      BY <1>7, <2>1
    <3> HIDE DEF d
    <3>4. Sound(d, lobby', known', {})
      BY <3>2, <3>3
    <3> QED
      BY <3>1, <3>2, <3>4, BecomeKeeps
  <2>2. CASE ~(ends \/ beat)
    <3>1. Become(c) /\ lobby' = lobby
      BY <1>7, <1>12, <2>2
    <3> QED
      BY <1>11, <3>1, BecomeKeeps
  <2> QED
    BY <2>1, <2>2
<1>14. Roster'
  <2>1. outgoing' \in Seq(Named)
    <3>1. outgoing' = <<>> \/ outgoing' \in Notices
      BY <1>7
    <3>2. <<>> \in Seq(Named)
      OBVIOUS
    <3> QED
      BY <3>1, <3>2, NoticesType
  <2>2. lobby' \subseteq Sockets
    BY <1>2, <1>7
  <2>3. /\ ingame' \subseteq known' /\ known' \subseteq Sessions
        /\ clients' \in Seq(Sessions) /\ Range(clients') = ingame' /\ IsInjective(clients')
    BY <1>2, <1>3, <1>7
  <2> QED
    BY <2>1, <2>2, <2>3 DEF Roster
<1> QED
  BY <1>13, <1>14 DEF IInv

\* Nothing is known of anything but the players when the server starts.
LEMMA InitKeeps == Init => IInv
<1> SUFFICES ASSUME Init PROVE IInv
  OBVIOUS
<1>1. Players \in Seq(Range(Players)) /\ IsInjective(Players) /\ Range(Players) \subseteq Sessions
  BY TbsServerAssumption DEF Sessions
<1>2. Roster
  <2>1. Players \in Seq(Sessions)
    <3>1. Players \in [1 .. Len(Players) -> Range(Players)] /\ Len(Players) \in Nat
      BY <1>1
    <3>2. Players \in [1 .. Len(Players) -> Sessions]
      BY <1>1, <3>1
    <3> QED
      BY <3>1, <3>2
  <2>2. outgoing \in Seq(Named)
    <3>1. <<>> \in Seq(Named)
      OBVIOUS
    <3> QED
      BY <3>1 DEF Init
  <2> QED
    BY <1>1, <2>1, <2>2 DEF Init, Roster
<1>3. /\ Net.queue = [s \in Sessions |-> <<>>] /\ Net.conn = [k \in Sockets |-> None]
      /\ Net.wait = {} /\ Net.waiter = [s \in Sessions |-> None]
      /\ Net.writing = [k \in Sockets |-> <<>>]
      /\ Net.sent = [s \in Sessions |-> 0] /\ Net.written = [s \in Sessions |-> 0]
  BY DEF Init, Net
<1>4. 0 \in Numbers
  BY NumbersType DEF Numbers
<1>5. Net \in Nets
  <2>1. <<>> \in Seq(Marks) /\ <<>> \in Seq(Sessions \cup {None})
    OBVIOUS
  <2>2. Net = [queue |-> Net.queue, conn |-> Net.conn, wait |-> Net.wait,
               waiter |-> Net.waiter, writing |-> Net.writing, sent |-> Net.sent,
               written |-> Net.written]
    BY DEF Net
  <2> QED
    BY <1>3, <1>4, <2>1, <2>2 DEF Nets
<1>6. Sound(Net, lobby, known, {})
  <2>1. lobby = {} /\ Len(<<>>) <= 1
    BY DEF Init
  <2> QED
    BY <1>3, <2>1 DEF Sound
<1>7. InOrder(Net)
  BY <1>3, <1>4, ContinuesEmpty DEF InOrder
<1> QED
  BY <1>2, <1>5, <1>6, <1>7 DEF IInv

\* Every step keeps the invariant.
LEMMA StepKeeps == IInv /\ [Next]_vars => IInv'
<1> SUFFICES ASSUME IInv, [Next]_vars PROVE IInv'
  OBVIOUS
<1>1. ASSUME NEW k \in Sockets, Request(k) PROVE IInv'
  <2>1. CASE GetStatus(k)
    BY <2>1, GetStatusKeeps
  <2>2. ASSUME NEW s \in Sessions,
               \/ ObserveGame(k, s) \/ InvalidSession(k, s)
               \/ GameMessage(k, s) \/ IdleMessage(k, s) \/ Quit(k, s)
        PROVE  IInv'
    <3>1. CASE ObserveGame(k, s)
      BY <3>1, ObserveGameKeeps
    <3>2. CASE InvalidSession(k, s)
      BY <3>2, InvalidSessionKeeps
    <3>3. CASE GameMessage(k, s)
      BY <3>3, GameMessageKeeps
    <3>4. CASE IdleMessage(k, s)
      BY <3>4, IdleMessageKeeps
    <3>5. CASE Quit(k, s)
      BY <3>5, QuitKeeps
    <3> QED
      BY <2>2, <3>1, <3>2, <3>3, <3>4, <3>5
  <2> QED
    BY <1>1, <2>1, <2>2 DEF Request
<1>2. ASSUME NEW k \in Sockets, HandleSend(k) PROVE IInv'
  BY <1>2, HandleSendKeeps
<1>3. ASSUME NEW beat \in BOOLEAN, Heartbeat(beat) PROVE IInv'
  BY <1>3, HeartbeatKeeps
<1>4. CASE UNCHANGED vars
  <2>1. UNCHANGED <<members, lobby>> /\ Net' = Net
    BY <1>4, NetSame DEF vars
  <2>2. Roster'
    BY <2>1 DEF members, IInv, Roster
  <2>3. (Net \in Nets /\ Sound(Net, lobby, known, {}) /\ InOrder(Net))'
    BY <2>1 DEF members, IInv
  <2> QED
    BY <2>2, <2>3 DEF IInv
<1> QED
  BY <1>1, <1>2, <1>3, <1>4 DEF Next

\* The invariant: server, queues and sockets are sound between handlers, whatever requests come
\* and whichever answers are lost.
THEOREM Invariance == Spec => []IInv
<1> QED
  BY InitKeeps, StepKeeps, PTL DEF Spec

\* The fields of Net are the variables.
LEMMA NetIs ==
    /\ Net.queue = msg_queue /\ Net.conn = connection /\ Net.wait = waiting
    /\ Net.waiter = waiter /\ Net.writing = writing /\ Net.sent = sent /\ Net.written = written
BY DEF Net

\* TypeOK: sessions, sockets, queues and recipients are what they should be, always.
THEOREM TypeCorrect == Spec => []TypeOK
<1>1. IInv => TypeOK
  <2> SUFFICES ASSUME IInv PROVE TypeOK
    OBVIOUS
  <2>1. /\ msg_queue \in [Sessions -> Seq(Marks)]
        /\ connection \in [Sockets -> Sessions \cup {None}]
        /\ waiting \subseteq Sockets /\ waiter \in [Sessions -> Sockets \cup {None}]
        /\ writing \in [Sockets -> Seq(Sessions \cup {None})]
        /\ sent \in [Sessions -> Numbers] /\ written \in [Sessions -> Numbers]
    BY NetIs DEF IInv, Nets
  <2>2. \A s \in Sessions : Range(msg_queue[s]) \subseteq {Wrapped} \cup 0 .. Stamps - 1
    <3>1. ASSUME NEW s \in Sessions PROVE Range(msg_queue[s]) \subseteq Marks
      <4>1. msg_queue[s] \in Seq(Marks)
        BY <2>1
      <4> QED
        BY <4>1, InRange
    <3> QED
      BY <3>1 DEF Marks, Numbers
  <2>3. \A k \in Sockets : Range(writing[k]) \subseteq Sessions \cup {None}
    <3> SUFFICES ASSUME NEW k \in Sockets PROVE Range(writing[k]) \subseteq Sessions \cup {None}
      OBVIOUS
    <3>1. writing[k] \in Seq(Sessions \cup {None})
      BY <2>1
    <3> QED
      BY <3>1, InRange
  <2>4. Range(clients) \subseteq Sessions /\ Range(outgoing) \subseteq Named
    BY InRange DEF IInv, Roster
  <2>5. ingame \subseteq known /\ known \subseteq Sessions /\ lobby \subseteq Sockets
    BY DEF IInv, Roster
  <2> QED
    BY <2>1, <2>2, <2>3, <2>4, <2>5 DEF TypeOK, Named, Numbers
<1> QED
  BY <1>1, Invariance, PTL

\* OneReplyPerRequest: no socket is ever answered twice, or has its next request read before.
THEOREM Replies == Spec => []OneReplyPerRequest
<1>1. IInv => OneReplyPerRequest
  BY NetIs DEF IInv, Sound, OneReplyPerRequest
<1> QED
  BY <1>1, Invariance, PTL

\* MapsAgree: the server's maps of sockets, sessions and clients agree between handlers.
THEOREM Maps == Spec => []MapsAgree
<1>1. IInv => MapsAgree
  <2> SUFFICES ASSUME IInv PROVE MapsAgree
    OBVIOUS
  <2>1. \A k \in waiting : connection[k] \in known
    BY NetIs DEF IInv, Sound
  <2>2. \A s \in Sessions : waiter[s] # None =>
           waiter[s] \in waiting /\ connection[waiter[s]] = s
    BY NetIs DEF IInv, Sound
  <2>3. \A k \in Sockets : ~Busy(k) => connection[k] = None
    BY NetIs DEF IInv, Sound, Busy
  <2>4. Range(clients) = ingame /\ IsInjective(clients)
    BY DEF IInv, Roster
  <2> QED
    BY <2>1, <2>2, <2>3, <2>4 DEF MapsAgree
<1> QED
  BY <1>1, Invariance, PTL

\* NothingStranded: no message is queued for a session that waits to be answered at once.
THEOREM Prompt == Spec => []NothingStranded
<1>1. IInv => NothingStranded
  BY NetIs DEF IInv, Sound, NothingStranded
<1> QED
  BY <1>1, Invariance, PTL

\* AnsweredInOrder: whatever answers the requests of a session, each of its messages is taken
\* from the queue for its first write once, in the order in which they were queued, also when
\* writes fail in between.  Answers queued again after a failed write are outside this order.
THEOREM Order == Spec => []AnsweredInOrder
<1>1. IInv => AnsweredInOrder
  BY NetIs DEF IInv, InOrder, Continues, AnsweredInOrder
<1> QED
  BY <1>1, Invariance, PTL
=============================================================================
