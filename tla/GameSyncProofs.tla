---------------------------- MODULE GameSyncProofs ----------------------------
(***************************************************************************)
(* Proofs about GameSync, for any number of players, states of the game,   *)
(* faults and messages under way.                                          *)
(*                                                                         *)
(* The documents of the game only ever grow in number.  So whatever was    *)
(* true of a message when it was written stays true of it, wherever it is, *)
(* and however late it arrives: that is what Genuine says of messages,     *)
(* Believed of what the server takes a player to have, and Held of what    *)
(* the player has.                                                         *)
(*                                                                         *)
(* What is on the way to a client is also in order: a player's Line is     *)
(* Sound when what the client has yet to process, in its queue, in the     *)
(* answers and in the mail, continues the state it has with deltas that    *)
(* each apply to the state before, unless a message was missed.  Sync says *)
(* so of every line; each action is shown to keep it for one line, and     *)
(* then for all.                                                           *)
(***************************************************************************)
EXTENDS GameSync, FiniteSetTheorems, SequenceTheorems, WellFoundedInduction, TLAPS

\* Messages that carry the document of their state, a delta made from that of its basis
Genuine == {m \in Message : m.id # None =>
               /\ m.id <= state_id /\ m.document = document[m.id]
               /\ m.basis # None => m.basis <= state_id /\ m.from = document[m.basis]}

\* Records of a player that was sent the document it is believed to have been sent
Believed == {pl \in PlayerRecord : pl.state_id_sent # None =>
                /\ pl.state_id_sent <= state_id
                /\ pl.state_sent = document[pl.state_id_sent]}

\* Clients that have the document of the state they are in
Held == {c \in [state_id : Ids \cup {None}, state : Ids \cup {None}, queue : Seq(Genuine)] :
            c.state # None => /\ c.state_id # None /\ c.state_id <= state_id
                              /\ c.state = document[c.state_id]}

Types ==
    /\ local \in BOOLEAN
    /\ state_id \in Ids /\ document \in [0 .. state_id -> Ids]
    /\ replay \subseteq 0 .. state_id
    /\ player \in [Players -> Believed]
    /\ mail \in [Players -> Seq(Genuine)]
    /\ waiting \in [Players -> {"no", "live", "dead"}]
    /\ requests \in [Players -> SUBSET Request]
    /\ answers \in [Players -> Seq(Seq(Genuine))]
    /\ client \in [Players -> Held]
    /\ faults \in 0 .. MaxFaults
    /\ missed \in [Players -> BOOLEAN]

\* Players with a request to restore a state on its way
Restoring == {q \in Players : \E r \in requests[q] : r.type = "restore_state"}

\* There is a state left for each of them
Space ==
    /\ state_id + Cardinality(Restoring) <= MaxState
    /\ \A p \in Players : \A r, s \in requests[p] :
          r.type # "request_updates" /\ s.type # "request_updates" => r = s

IInv == Types /\ Space

-----------------------------------------------------------------------------
(* Helpers. *)

\* A set of numbers has a least one.
LEMMA MinFacts ==
    ASSUME NEW I \in SUBSET Nat, I # {}
    PROVE  Min(I) \in I /\ \A j \in I : Min(I) <= j
<1> DEFINE R == OpToRel(<, Nat)
<1>1. IsWellFoundedOn(R, Nat)
  BY NatLessThanWellFounded
<1>2. \E k \in I : \A j \in I : ~(<<j, k>> \in R)
  <2> HIDE DEF R
  <2> QED
    BY <1>1, WFMin
<1>3. \E k \in I : \A j \in I : k <= j
  <2>1. PICK k \in I : \A j \in I : ~(<<j, k>> \in R)
    BY <1>2
  <2>2. \A j \in I : ~(j < k)
    BY <2>1 DEF OpToRel
  <2> QED
    BY <2>2
<1> QED
  BY <1>3 DEF Min

\* A bounded set of numbers has a greatest one.
LEMMA MaxFacts ==
    ASSUME NEW n \in Nat, NEW I \in SUBSET (0 .. n), I # {}
    PROVE  Max(I) \in I /\ \A j \in I : j <= Max(I)
<1> DEFINE J == {n - i : i \in I}
<1>1. J \in SUBSET Nat /\ J # {}
  <2>1. \A i \in I : i \in Nat /\ i <= n
    OBVIOUS
  <2>2. \A i \in I : n - i \in Nat
    BY <2>1
  <2> QED
    BY <2>2
<1> HIDE DEF J
<1>2. Min(J) \in J /\ \A j \in J : Min(J) <= j
  BY <1>1, MinFacts
<1> USE DEF J
<1>3. PICK k \in I : Min(J) = n - k
  BY <1>2
<1>4. \A i \in I : i <= k
  <2> SUFFICES ASSUME NEW i \in I PROVE i <= k
    OBVIOUS
  <2>1. n - i \in J /\ i \in Nat /\ k \in Nat
    OBVIOUS
  <2>2. n - k <= n - i
    BY <1>2, <1>3, <2>1
  <2> QED
    BY <2>1, <2>2
<1> QED
  BY <1>4 DEF Max

\* What holds of 0, and of the next number of whatever it holds of, holds up to n.
LEMMA UpTo ==
    ASSUME NEW n \in Nat, NEW T \in SUBSET (0 .. n), 0 \in T,
           \A i \in T : i < n => i + 1 \in T
    PROVE  T = 0 .. n
<1> DEFINE U == (0 .. n) \ T
<1> SUFFICES ASSUME U # {} PROVE FALSE
  OBVIOUS
<1>1. U \in SUBSET Nat
  OBVIOUS
<1> HIDE DEF U
<1>2. PICK k \in U : \A j \in U : k <= j
  BY <1>1, MinFacts
<1> USE DEF U
<1>3. k \in 1 .. n /\ k - 1 \in T
  BY <1>2
<1>4. (k - 1) + 1 \in T
  BY <1>3
<1> QED
  BY <1>2, <1>3, <1>4

\* Sequences over a larger set.
LEMMA SeqLarger ==
    ASSUME NEW S, NEW T, S \subseteq T
    PROVE  Seq(S) \subseteq Seq(T)
<1> SUFFICES ASSUME NEW s \in Seq(S) PROVE s \in Seq(T)
  OBVIOUS
<1>1. s \in [1 .. Len(s) -> S] /\ Len(s) \in Nat
  OBVIOUS
<1>2. s \in [1 .. Len(s) -> T]
  BY <1>1
<1> QED
  BY <1>1, <1>2

\* A sequence without one of its elements.
LEMMA RemoveAtType ==
    ASSUME NEW S, NEW s \in Seq(S), NEW i \in DOMAIN s
    PROVE  RemoveAt(s, i) \in Seq(S)
<1>1. i \in 1 .. Len(s) /\ Len(s) \in Nat
  OBVIOUS
<1>2. SubSeq(s, 1, i - 1) \in Seq(S) /\ SubSeq(s, i + 1, Len(s)) \in Seq(S)
  BY <1>1
<1> QED
  BY <1>2 DEF RemoveAt

\* What GameMessages has taken of the first messages of a sequence.
Taken(s) == CHOOSE f : f = [i \in 0 .. Len(s) |->
                IF i = 0 THEN <<>>
                ELSE IF s[i].id # None THEN Append(f[i - 1], s[i]) ELSE f[i - 1]]

\* It is defined step by step.
LEMMA TakenFacts ==
    ASSUME NEW S, NEW s \in Seq(S)
    PROVE  /\ GameMessages(s) = Taken(s)[Len(s)]
           /\ Taken(s)[0] = <<>>
           /\ \A i \in 1 .. Len(s) :
                 Taken(s)[i] = IF s[i].id # None THEN Append(Taken(s)[i - 1], s[i])
                               ELSE Taken(s)[i - 1]
<1> DEFINE D(f, n) == f = [i \in 0 .. n |->
                IF i = 0 THEN <<>>
                ELSE IF s[i].id # None THEN Append(f[i - 1], s[i]) ELSE f[i - 1]]
           T == {n \in 0 .. Len(s) : \E f : D(f, n)}
<1>1. 0 \in T
  <2> DEFINE e == [i \in 0 .. 0 |-> <<>>]
             h == [i \in 0 .. 0 |->
                     IF i = 0 THEN <<>>
                     ELSE IF s[i].id # None THEN Append(e[i - 1], s[i]) ELSE e[i - 1]]
  <2>1. \A i \in 0 .. 0 : e[i] = <<>> /\ h[i] = <<>>
    OBVIOUS
  <2>2. D(e, 0)
    <3>1. e = h
      BY <2>1
    <3> QED
      BY <3>1
  <2>3. 0 \in 0 .. Len(s)
    OBVIOUS
  <2> HIDE DEF D, e
  <2> QED
    BY <2>2, <2>3
<1>2. \A n \in T : n < Len(s) => n + 1 \in T
  <2> SUFFICES ASSUME NEW n \in T, n < Len(s) PROVE n + 1 \in T
    OBVIOUS
  <2> PICK f : D(f, n)
    OBVIOUS
  <2> DEFINE g == [i \in 0 .. n + 1 |->
                     IF i = n + 1 THEN IF s[n + 1].id # None THEN Append(f[n], s[n + 1])
                                       ELSE f[n]
                     ELSE f[i]]
             h == [i \in 0 .. n + 1 |->
                     IF i = 0 THEN <<>>
                     ELSE IF s[i].id # None THEN Append(g[i - 1], s[i]) ELSE g[i - 1]]
  <2>1. \A i \in 0 .. n : f[i] = IF i = 0 THEN <<>>
                                 ELSE IF s[i].id # None THEN Append(f[i - 1], s[i])
                                 ELSE f[i - 1]
    OBVIOUS
  <2>2. \A i \in 0 .. n : g[i] = f[i]
    OBVIOUS
  <2>3. \A i \in 0 .. n + 1 : g[i] = h[i]
    <3> SUFFICES ASSUME NEW i \in 0 .. n + 1 PROVE g[i] = h[i]
      OBVIOUS
    <3>1. CASE i = n + 1
      <4>1. g[n] = f[n] /\ h[i] = IF s[i].id # None THEN Append(g[n], s[i]) ELSE g[n]
        <5>1. n \in 0 .. n /\ n \in Nat
          OBVIOUS
        <5>2. g[n] = f[n]
          BY <2>2, <5>1
        <5>3. h[n + 1] = IF s[n + 1].id # None THEN Append(g[n], s[n + 1]) ELSE g[n]
          <6>1. n + 1 \in 0 .. n + 1 /\ n + 1 # 0 /\ (n + 1) - 1 = n
            BY <5>1
          <6> HIDE DEF g
          <6> QED
            BY <6>1
        <5> HIDE DEF g, h
        <5> QED
          BY <3>1, <5>2, <5>3
      <4> QED
        BY <3>1, <4>1
    <3>2. CASE i \in 1 .. n
      <4>0. i \in 0 .. n /\ i - 1 \in 0 .. n /\ i # 0
        BY <3>2
      <4>1. g[i - 1] = f[i - 1] /\ g[i] = f[i]
        BY <2>2, <4>0
      <4>2. h[i] = IF s[i].id # None THEN Append(g[i - 1], s[i]) ELSE g[i - 1]
        BY <3>2
      <4>3. f[i] = IF s[i].id # None THEN Append(f[i - 1], s[i]) ELSE f[i - 1]
        BY <2>1, <4>0
      <4> HIDE DEF g, h
      <4> QED
        BY <4>1, <4>2, <4>3
    <3>3. CASE i = 0
      BY <2>1, <2>2, <3>3
    <3> QED
      BY <3>1, <3>2, <3>3
  <2>4. D(g, n + 1)
    <3>1. g = h
      BY <2>3
    <3> QED
      BY <3>1
  <2>5. n + 1 \in 0 .. Len(s)
    OBVIOUS
  <2> HIDE DEF D, g
  <2> QED
    BY <2>4, <2>5
<1>3. T = 0 .. Len(s)
  <2>1. T \in SUBSET (0 .. Len(s)) /\ Len(s) \in Nat
    OBVIOUS
  <2> HIDE DEF T
  <2> QED
    BY <1>1, <1>2, <2>1, UpTo
<1>4. \E f : D(f, Len(s))
  BY <1>3
<1>5. /\ Taken(s)[0] = <<>>
      /\ \A i \in 1 .. Len(s) :
            Taken(s)[i] = IF s[i].id # None THEN Append(Taken(s)[i - 1], s[i])
                          ELSE Taken(s)[i - 1]
  <2>1. D(Taken(s), Len(s))
    BY <1>4 DEF Taken
  <2>2. \A i \in 0 .. Len(s) :
           Taken(s)[i] = IF i = 0 THEN <<>>
                         ELSE IF s[i].id # None THEN Append(Taken(s)[i - 1], s[i])
                         ELSE Taken(s)[i - 1]
    <3> HIDE DEF T
    <3> QED
      BY <2>1
  <2>3. 0 \in 0 .. Len(s) /\ \A i \in 1 .. Len(s) : i \in 0 .. Len(s) /\ i # 0
    OBVIOUS
  <2> HIDE DEF D, T
  <2> QED
    BY <2>2, <2>3
<1>6. GameMessages(s) = Taken(s)[Len(s)]
  BY DEF GameMessages, Taken
<1> HIDE DEF D, T
<1> QED
  BY <1>5, <1>6

\* The game messages of a sequence are messages of it.
LEMMA GameMessagesType ==
    ASSUME NEW S, NEW s \in Seq(S)
    PROVE  GameMessages(s) \in Seq(S)
<1> DEFINE T == {n \in 0 .. Len(s) : Taken(s)[n] \in Seq(S)}
<1>1. 0 \in T
  <2>1. Taken(s)[0] = <<>> /\ <<>> \in Seq(S) /\ 0 \in 0 .. Len(s)
    BY TakenFacts
  <2> QED
    BY <2>1
<1>2. \A n \in T : n < Len(s) => n + 1 \in T
  <2> SUFFICES ASSUME NEW n \in 0 .. Len(s), n < Len(s), Taken(s)[n] \in Seq(S)
               PROVE  Taken(s)[n + 1] \in Seq(S)
    OBVIOUS
  <2>1. n + 1 \in 1 .. Len(s) /\ (n + 1) - 1 = n /\ s[n + 1] \in S
    OBVIOUS
  <2>2. Taken(s)[n + 1] = IF s[n + 1].id # None THEN Append(Taken(s)[n], s[n + 1])
                          ELSE Taken(s)[n]
    BY <2>1, TakenFacts
  <2> QED
    BY <2>1, <2>2
<1>3. Len(s) \in T
  <2>1. T \in SUBSET (0 .. Len(s)) /\ Len(s) \in Nat
    OBVIOUS
  <2> HIDE DEF T
  <2> QED
    BY <1>1, <1>2, <2>1, UpTo
<1> QED
  BY <1>3, TakenFacts

-----------------------------------------------------------------------------
(* What is written of a growing game. *)

\* The game keeps its documents, and may get more.
Grows == /\ state_id' \in Ids /\ state_id <= state_id'
         /\ document' \in [0 .. state_id' -> Ids]
         /\ \A i \in 0 .. state_id : document'[i] = document[i]

\* What was true of messages, records and clients stays so.
LEMMA GrowthFacts ==
    ASSUME Types, Grows
    PROVE  /\ Genuine \subseteq Genuine' /\ Believed \subseteq Believed'
           /\ Seq(Genuine) \subseteq Seq(Genuine') /\ Seq(Seq(Genuine)) \subseteq Seq(Seq(Genuine'))
           /\ Held \subseteq Held'
<1>1. state_id \in Nat /\ state_id' \in Nat /\ state_id <= state_id'
  BY GameSyncAssumption DEF Types, Grows, Ids
<1>2. \A i \in Ids : i <= state_id => i <= state_id' /\ document'[i] = document[i]
  BY <1>1, GameSyncAssumption DEF Grows, Ids
<1>3. Genuine \subseteq Genuine'
  <2> SUFFICES ASSUME NEW m \in Message,
                      m.id # None => /\ m.id <= state_id /\ m.document = document[m.id]
                                     /\ m.basis # None => m.basis <= state_id
                                                          /\ m.from = document[m.basis]
               PROVE  m.id # None => /\ m.id <= state_id' /\ m.document = document'[m.id]
                                     /\ m.basis # None => m.basis <= state_id'
                                                          /\ m.from = document'[m.basis]
    BY DEF Genuine
  <2>1. m.id # None => m.id \in Ids /\ m.basis \in Ids \cup {None}
    BY DEF Message
  <2> QED
    BY <1>2, <2>1
<1>4. Believed \subseteq Believed'
  BY <1>2 DEF Believed, PlayerRecord
<1>5. Seq(Genuine) \subseteq Seq(Genuine')
  BY <1>3, SeqLarger
<1>6. Seq(Seq(Genuine)) \subseteq Seq(Seq(Genuine'))
  BY <1>5, SeqLarger
<1>7. Held \subseteq Held'
  BY <1>2, <1>5 DEF Held
<1> QED
  BY <1>3, <1>4, <1>5, <1>6, <1>7

\* A game that stays as it is.
LEMMA KeptGrows == ASSUME Types, UNCHANGED <<state_id, document>> PROVE Grows
BY GameSyncAssumption DEF Types, Grows, Ids

\* A game that moves on.
LEMMA AdvanceFacts ==
    ASSUME Types, NEW n \in Ids, state_id < n, NEW d \in [Ids -> Ids], Advance(n, d)
    PROVE  /\ Grows /\ replay' \subseteq 0 .. state_id'
           /\ \A i \in state_id + 1 .. n : document'[i] = d[i]
<1>1. state_id \in Nat /\ n \in Nat /\ \A i \in 0 .. n : i \in Ids
  BY GameSyncAssumption DEF Types, Ids
<1>2. document' = [i \in 0 .. n |-> IF i <= state_id THEN document[i] ELSE d[i]]
  BY DEF Advance
<1>3. document' \in [0 .. n -> Ids]
  BY <1>1, <1>2 DEF Types
<1>4. \A i \in 0 .. state_id : document'[i] = document[i]
  BY <1>1, <1>2
<1>5. \A i \in state_id + 1 .. n : document'[i] = d[i]
  BY <1>1, <1>2
<1>6. replay' \subseteq 0 .. n
  BY <1>1 DEF Advance, Types
<1> QED
  BY <1>1, <1>3, <1>4, <1>5, <1>6 DEF Advance, Grows

\* What the server sends of a state is genuine, and so is what it believes afterwards.
LEMMA SendFacts ==
    ASSUME Types, Grows, local' = local, NEW pl \in Believed', NEW n \in 0 .. state_id'
    PROVE  /\ SendGameState(pl, n, document'[n]).player \in Believed'
           /\ SendGameState(pl, n, document'[n]).out \in Seq(Genuine')
<1> DEFINE d == document'[n]
           m == Write(pl, n, d)
           w == [Written(pl, n, d) EXCEPT !.confirmed_state_id =
                   IF local /\ @ # None THEN n ELSE @]
<1>1. n \in Ids /\ d \in Ids /\ n <= state_id' /\ n # None
  BY GameSyncAssumption DEF Grows, Ids, None
<1>2. pl \in PlayerRecord
  BY DEF Believed
<1>3. m \in Genuine'
  <2>1. CASE pl.state_id_sent # None /\ pl.allow_deltas
    <3>1. m = [id |-> n, document |-> d, basis |-> pl.state_id_sent, from |-> pl.state_sent]
      BY <2>1 DEF Write
    <3>2. pl.state_id_sent <= state_id' /\ pl.state_sent = document'[pl.state_id_sent]
      BY <2>1 DEF Believed
    <3>3. m \in Message
      BY <1>1, <1>2, <3>1 DEF Message, PlayerRecord
    <3> QED
      BY <1>1, <3>1, <3>2, <3>3 DEF Genuine
  <2>2. CASE ~(pl.state_id_sent # None /\ pl.allow_deltas)
    <3>1. m = [id |-> n, document |-> d, basis |-> None, from |-> None]
      BY <2>2 DEF Write
    <3>2. m \in Message
      BY <1>1, <3>1 DEF Message
    <3> QED
      BY <1>1, <3>1, <3>2 DEF Genuine
  <2> QED
    BY <2>1, <2>2
<1>4. w \in Believed'
  <2>1. /\ w \in PlayerRecord /\ w.state_id_sent = n /\ w.state_sent = d
    BY <1>1, <1>2 DEF Written, PlayerRecord
  <2> QED
    BY <1>1, <2>1 DEF Believed
<1>5. <<m>> \in Seq(Genuine') /\ <<>> \in Seq(Genuine')
  BY <1>3
<1> QED
  BY <1>4, <1>5 DEF SendGameState

\* The network carries what it is given.
LEMMA TransmitFacts ==
    ASSUME local \in BOOLEAN, mail \in [Players -> Seq(Genuine')],
           answers \in [Players -> Seq(Seq(Genuine'))],
           waiting \in [Players -> {"no", "live", "dead"}],
           NEW asking, NEW out \in [Players -> Seq(Genuine')], Transmit(asking, out)
    PROVE  /\ mail' \in [Players -> Seq(Genuine')]
           /\ answers' \in [Players -> Seq(Seq(Genuine'))]
           /\ waiting' \in [Players -> {"no", "live", "dead"}]
<1>1. ASSUME NEW q \in Players
      PROVE  Left(q, out[q]) \in Seq(Genuine') /\ Arriving(q, out[q]) \in Seq(Seq(Genuine'))
  <2>1. out[q] \in Seq(Genuine') /\ mail[q] \in Seq(Genuine') /\ answers[q] \in Seq(Seq(Genuine'))
    OBVIOUS
  <2>2. out[q] # <<>> => Tail(out[q]) \in Seq(Genuine') /\ <<Head(out[q])>> \in Seq(Genuine')
    BY <2>1
  <2>3. Left(q, out[q]) \in Seq(Genuine')
    BY <2>1, <2>2 DEF Left, Answers
  <2>4. Arriving(q, out[q]) \in Seq(Seq(Genuine'))
    BY <2>1, <2>2 DEF Arriving, Answers
  <2> QED
    BY <2>3, <2>4
<1>2. ASSUME NEW q \in Players
      PROVE  answers[q] \o [i \in DOMAIN out[q] |-> <<out[q][i]>>] \in Seq(Seq(Genuine'))
  <2>1. out[q] \in Seq(Genuine') /\ answers[q] \in Seq(Seq(Genuine'))
    OBVIOUS
  <2>2. DOMAIN out[q] = 1 .. Len(out[q]) /\ Len(out[q]) \in Nat
        /\ \A i \in 1 .. Len(out[q]) : <<out[q][i]>> \in Seq(Genuine')
    BY <2>1
  <2>3. [i \in DOMAIN out[q] |-> <<out[q][i]>>] \in [1 .. Len(out[q]) -> Seq(Genuine')]
    BY <2>2
  <2>4. [i \in DOMAIN out[q] |-> <<out[q][i]>>] \in Seq(Seq(Genuine'))
    BY <2>2, <2>3
  <2> QED
    BY <2>1, <2>4
<1>3. mail' \in [Players -> Seq(Genuine')]
  BY <1>1 DEF Transmit
<1>4. answers' \in [Players -> Seq(Seq(Genuine'))]
  BY <1>1, <1>2 DEF Transmit
<1>5. waiting' \in [Players -> {"no", "live", "dead"}]
  BY DEF Transmit
<1> QED
  BY <1>3, <1>4, <1>5

-----------------------------------------------------------------------------
(* The steps of the players. *)

\* Fewer requests leave more states.
LEMMA SpaceFacts ==
    ASSUME Types, Space, NEW p \in Players, NEW new, new \subseteq requests[p],
           requests' = [requests EXCEPT ![p] = new]
    PROVE  /\ requests' \in [Players -> SUBSET Request]
           /\ Cardinality(Restoring) \in Nat /\ Cardinality(Restoring') \in Nat
           /\ Cardinality(Restoring') <= Cardinality(Restoring)
           /\ \A q \in Players : \A r, s \in requests'[q] :
                 r.type # "request_updates" /\ s.type # "request_updates" => r = s
           /\ (\E r \in requests[p] : r.type = "restore_state" /\ r \notin new)
                 => Cardinality(Restoring') + 1 <= Cardinality(Restoring)
<1>1. \A q \in Players : requests'[q] = IF q = p THEN new ELSE requests[q]
  BY DEF Types
<1>2. Restoring' \subseteq Restoring
  BY <1>1 DEF Restoring
<1>3. IsFiniteSet(Restoring) /\ IsFiniteSet(Restoring')
  <2>1. Restoring \subseteq Players
    BY DEF Restoring
  <2> QED
    BY <1>2, <2>1, GameSyncAssumption, FS_Subset
<1>4. /\ Cardinality(Restoring) \in Nat /\ Cardinality(Restoring') \in Nat
      /\ Cardinality(Restoring') <= Cardinality(Restoring)
  BY <1>2, <1>3, FS_Subset, FS_CardinalityType
<1>5. requests' \in [Players -> SUBSET Request]
  BY DEF Types
<1>6. \A q \in Players : \A r, s \in requests'[q] :
         r.type # "request_updates" /\ s.type # "request_updates" => r = s
  BY <1>1 DEF Space
<1>7. ASSUME NEW r \in requests[p], r.type = "restore_state", r \notin new
      PROVE  Cardinality(Restoring') + 1 <= Cardinality(Restoring)
  <2>1. p \in Restoring
    BY <1>7 DEF Restoring
  <2>2. p \notin Restoring'
    <3>1. \A s \in new : s.type # "restore_state"
      <4> SUFFICES ASSUME NEW s \in new, s.type = "restore_state" PROVE FALSE
        OBVIOUS
      <4>1. s = r
        BY <1>7 DEF Space
      <4> QED
        BY <1>7, <4>1
    <3> QED
      BY <1>1, <3>1 DEF Restoring
  <2>3. Restoring' \subseteq Restoring \ {p}
    BY <1>2, <2>2
  <2>4. /\ IsFiniteSet(Restoring \ {p})
        /\ Cardinality(Restoring \ {p}) = Cardinality(Restoring) - 1
    BY <1>3, <2>1, FS_RemoveElement
  <2>5. Cardinality(Restoring') <= Cardinality(Restoring \ {p})
    BY <2>3, <2>4, FS_Subset
  <2> QED
    BY <1>4, <2>4, <2>5
<1> QED
  BY <1>4, <1>5, <1>6, <1>7

\* The most recent state that a client knows of is its own or one it has yet to process.
LEMMA MostRecentFacts ==
    ASSUME NEW c \in Held
    PROVE  /\ MostRecentKnown(c) \in Ids \cup {None}
           /\ \/ MostRecentKnown(c) = c.state_id
              \/ \E i \in DOMAIN c.queue : MostRecentKnown(c) = c.queue[i].id
<1> DEFINE I == {c.state_id} \cup {c.queue[i].id : i \in DOMAIN c.queue}
           J == {k + 1 : k \in I}
<1>1. \A i \in DOMAIN c.queue : c.queue[i] \in Message
  BY DEF Held, Genuine
<1>2. \A m \in Message : m.id \in Ids \cup {None}
  BY DEF Message
<1>3. c.state_id \in Ids \cup {None}
  BY DEF Held
<1>4. I \subseteq Ids \cup {None}
  BY <1>1, <1>2, <1>3
<1>5. J \in SUBSET (0 .. MaxState + 1) /\ J # {}
  <2>1. \A k \in Ids \cup {None} : k + 1 \in 0 .. MaxState + 1
    BY GameSyncAssumption DEF Ids, None
  <2> QED
    BY <1>4, <2>1
<1>5a. \A k \in I : k = c.state_id \/ \E i \in DOMAIN c.queue : k = c.queue[i].id
  OBVIOUS
<1> HIDE DEF I
<1>6. PICK j \in J : \A k \in J : k <= j
  <2>1. MaxState + 1 \in Nat
    BY GameSyncAssumption
  <2>2. Max(J) \in J /\ \A k \in J : k <= Max(J)
    BY <1>5, <2>1, MaxFacts
  <2> QED
    BY <2>2
<1>7. PICK i \in I : j = i + 1
  BY <1>6
<1>8. \A k \in I : i >= k
  <2> SUFFICES ASSUME NEW k \in I PROVE i >= k
    OBVIOUS
  <2>1. k + 1 <= i + 1
    BY <1>6, <1>7
  <2>2. k \in Int /\ i \in Int
    BY <1>4, GameSyncAssumption DEF Ids, None
  <2> QED
    BY <2>1, <2>2
<1>9. Max(I) \in I
  BY <1>8 DEF Max
<1>10. MostRecentKnown(c) = Max(I)
  BY DEF MostRecentKnown, I
<1> QED
  BY <1>4, <1>5a, <1>9, <1>10

\* pump_client.
LEMMA PollInv == ASSUME IInv, NEW p \in Players, Poll(p) PROVE IInv'
<1> USE DEF IInv
<1> DEFINE new == [type |-> "request_updates", state_id |-> MostRecentKnown(client[p]),
                   allow_deltas |-> client[p].state # None]
<1>1. client[p] \in Held
  BY DEF Types
<1>2. MostRecentKnown(client[p]) \in Ids \cup {None}
  BY <1>1, MostRecentFacts
<1>3. new \in Request /\ new.type = "request_updates"
  BY <1>2 DEF Request
<1> HIDE DEF new
<1>4. \A q \in Players : requests'[q] = IF q = p THEN requests[q] \cup {new} ELSE requests[q]
  BY DEF Poll, Types, new
<1>5. requests' \in [Players -> SUBSET Request]
  BY <1>3 DEF Poll, Types, new
<1>6. Types'
  BY <1>5 DEF Poll, Types, Genuine, Believed, Held, game
<1>7. Restoring' = Restoring
  BY <1>3, <1>4 DEF Restoring
<1>8. \A q \in Players : \A r, s \in requests'[q] :
         r.type # "request_updates" /\ s.type # "request_updates" => r = s
  BY <1>3, <1>4 DEF Space
<1>9. state_id' = state_id
  BY DEF Poll, game
<1> QED
  BY <1>6, <1>7, <1>8, <1>9 DEF Space

\* send.
LEMMA ActInv == ASSUME IInv, NEW p \in Players, Act(p) PROVE IInv'
<1> USE DEF IInv
<1>1. PICK new \in Request :
         /\ new.type = "restore_state" => Room
         /\ requests' = [requests EXCEPT ![p] = @ \cup {new}]
  BY DEF Act
<1>2. requests' \in [Players -> SUBSET Request]
  BY <1>1 DEF Types
<1>3. UNCHANGED <<local, state_id, document, replay, player, mail, waiting, answers, client,
                  faults, missed>>
  BY DEF Act, game
<1>4. Types'
  BY <1>2, <1>3 DEF Types, Genuine, Believed, Held
<1>5. \A q \in Players : requests'[q] = IF q = p THEN requests[q] \cup {new} ELSE requests[q]
  BY <1>1 DEF Types
<1>6. \A q \in Players : \A r, s \in requests'[q] :
         r.type # "request_updates" /\ s.type # "request_updates" => r = s
  BY <1>5 DEF Space, Act
<1>7. IsFiniteSet(Restoring)
  BY GameSyncAssumption, FS_Subset DEF Restoring
<1>8. CASE new.type # "restore_state"
  <2>1. Restoring' = Restoring
    BY <1>5, <1>8 DEF Restoring
  <2> QED
    BY <1>3, <1>4, <1>6, <2>1 DEF Space
<1>9. CASE new.type = "restore_state"
  <2>1. MaxState > state_id + Cardinality(Restoring)
    BY <1>1, <1>9 DEF Room, Restoring
  <2>2. Restoring' \subseteq Restoring \cup {p}
    BY <1>5 DEF Restoring
  <2>3. /\ IsFiniteSet(Restoring \cup {p})
        /\ Cardinality(Restoring \cup {p}) <= Cardinality(Restoring) + 1
    <3>1. Cardinality(Restoring) \in Nat
      BY <1>7, FS_CardinalityType
    <3> QED
      BY <1>7, <3>1, FS_AddElement
  <2>4. Cardinality(Restoring') <= Cardinality(Restoring \cup {p})
    BY <2>2, <2>3, FS_Subset
  <2>5. /\ Cardinality(Restoring) \in Nat /\ Cardinality(Restoring') \in Nat
        /\ Cardinality(Restoring \cup {p}) \in Nat
    BY <1>7, <2>2, <2>3, FS_Subset, FS_CardinalityType
  <2>6. state_id \in Nat /\ MaxState \in Nat
    BY GameSyncAssumption DEF Types, Ids
  <2>7. state_id + Cardinality(Restoring') <= MaxState
    BY <2>1, <2>3, <2>4, <2>5, <2>6
  <2> QED
    BY <1>3, <1>4, <1>6, <2>7 DEF Space
<1> QED
  BY <1>8, <1>9

\* recv_handler.
LEMMA ReceiveInv == ASSUME IInv, NEW p \in Players, NEW i, ReceiveAt(p, i) PROVE IInv'
<1> USE DEF IInv
<1>1. /\ i \in DOMAIN answers[p] /\ answers[p] \in Seq(Seq(Genuine)) /\ client[p] \in Held
  BY DEF ReceiveAt, Types
<1>2. answers[p][i] \in Seq(Genuine)
  BY <1>1
<1>3. GameMessages(answers[p][i]) \in Seq(Genuine)
  BY <1>2, GameMessagesType
<1>4. RemoveAt(answers[p], i) \in Seq(Seq(Genuine))
  BY <1>1, RemoveAtType
<1>5. [client[p] EXCEPT !.queue = @ \o GameMessages(answers[p][i])] \in Held
  <2>1. client[p].queue \o GameMessages(answers[p][i]) \in Seq(Genuine)
    BY <1>1, <1>3 DEF Held
  <2> HIDE DEF IInv
  <2> QED
    BY <1>1, <2>1 DEF Held
<1>6. client' \in [Players -> Held]
  BY <1>5 DEF ReceiveAt, Types
<1>7. answers' \in [Players -> Seq(Seq(Genuine))]
  BY <1>4 DEF ReceiveAt, Types
<1>8. missed' \in [Players -> BOOLEAN]
  BY DEF ReceiveAt, Types
<1>9. UNCHANGED <<local, state_id, document, replay, player, mail, waiting, requests, faults>>
  BY DEF ReceiveAt, game
<1> QED
  BY <1>6, <1>7, <1>8, <1>9 DEF Types, Space, Restoring, Genuine, Believed, Held

\* A delta applied to the document it was made from gives the document of its state.
LEMMA NewStateFacts ==
    ASSUME Types, NEW c \in Held, NEW m \in Genuine, m.id # None, NewState(c, m) # None
    PROVE  NewState(c, m) = document[m.id] /\ m.id <= state_id /\ m.id \in Ids
<1>1. m.id \in Ids /\ m.basis \in Ids \cup {None} /\ m.id <= state_id
  BY DEF Genuine, Message
<1>2. m.document = document[m.id] /\ (m.basis # None => m.from = document[m.basis])
  BY DEF Genuine
<1>3. CASE m.basis = None
  BY <1>1, <1>2, <1>3 DEF NewState
<1>4. CASE m.basis # None
  <2>1. c.state # None /\ c.state_id = m.basis
    BY <1>4 DEF NewState
  <2>2. c.state = m.from
    BY <1>2, <1>4, <2>1 DEF Held
  <2> QED
    BY <1>1, <1>2, <1>4, <2>1, <2>2 DEF NewState
<1> QED
  BY <1>3, <1>4

\* _process_game_state.
LEMMA ApplyInv == ASSUME IInv, NEW p \in Players, Apply(p) PROVE IInv'
<1> USE DEF IInv
<1> DEFINE c == client[p]
           m == Head(c.queue)
           new == [state_id |-> m.id, state |-> NewState(c, m), queue |-> Tail(c.queue)]
<1>1. c \in Held /\ c.queue \in Seq(Genuine) /\ c.queue # <<>>
  BY DEF Apply, Types, Held
<1>2. m \in Genuine /\ Tail(c.queue) \in Seq(Genuine)
  BY <1>1
<1>3. [c EXCEPT !.queue = Tail(@)] \in Held
  BY <1>1, <1>2 DEF Held
<1>4. ASSUME m.id > c.state_id, NewState(c, m) # None
      PROVE  new \in Held
  <2>1. m.id # None
    <3>1. m.id \in Ids \cup {None} /\ c.state_id \in Ids \cup {None}
      BY <1>1, <1>2 DEF Genuine, Message, Held
    <3> QED
      BY <1>4, <3>1, GameSyncAssumption DEF Ids, None
  <2>2. NewState(c, m) = document[m.id] /\ m.id <= state_id /\ m.id \in Ids
    BY <1>1, <1>2, <1>4, <2>1, NewStateFacts
  <2>3. document[m.id] \in Ids
    BY <2>2, GameSyncAssumption DEF Types, Ids
  <2> HIDE DEF m, c
  <2> QED
    BY <1>2, <2>1, <2>2, <2>3 DEF Held
<1>5. client' = [client EXCEPT ![p] = IF m.id > c.state_id /\ NewState(c, m) # None THEN new
                                      ELSE [c EXCEPT !.queue = Tail(@)]]
  BY DEF Apply
<1> HIDE DEF c, m, new
<1>6. client' \in [Players -> Held]
  <2>1. CASE m.id > c.state_id /\ NewState(c, m) # None
    BY <1>4, <1>5, <2>1 DEF Types
  <2>2. CASE ~(m.id > c.state_id /\ NewState(c, m) # None)
    BY <1>3, <1>5, <2>2 DEF Types
  <2> QED
    BY <2>1, <2>2
<1>7. UNCHANGED <<local, state_id, document, replay, player, mail, waiting, requests, answers,
                  faults, missed>>
  BY DEF Apply, game, network
<1> QED
  BY <1>6, <1>7 DEF Types, Space, Restoring, Genuine, Believed, Held

-----------------------------------------------------------------------------
(* The steps of the server and the network. *)

\* send_game_state of whatever was sent to each player.
LEMMA SendToAllFacts ==
    ASSUME Types, Grows, replay' \subseteq 0 .. state_id',
           requests' \in [Players -> SUBSET Request],
           NEW asking, NEW sent, SendToAll(asking, sent),
           \A q \in Players : sent[q].player \in Believed' /\ sent[q].out \in Seq(Genuine')
    PROVE  Types'
<1> DEFINE out == [q \in Players |-> sent[q].out]
<1>1. /\ player' = [q \in Players |-> sent[q].player]
      /\ Transmit(asking, out)
      /\ missed' = [q \in Players |-> missed[q] \/ LostOn(q, out[q])]
      /\ UNCHANGED <<local, client, faults>>
  BY DEF SendToAll
<1>2. out \in [Players -> Seq(Genuine')]
  OBVIOUS
<1> HIDE DEF out
<1>3. /\ mail \in [Players -> Seq(Genuine')] /\ answers \in [Players -> Seq(Seq(Genuine'))]
      /\ client \in [Players -> Held']
  BY GrowthFacts DEF Types
<1>4. /\ mail' \in [Players -> Seq(Genuine')] /\ answers' \in [Players -> Seq(Seq(Genuine'))]
      /\ waiting' \in [Players -> {"no", "live", "dead"}]
  <2>1. local \in BOOLEAN /\ waiting \in [Players -> {"no", "live", "dead"}]
    BY DEF Types
  <2> QED
    BY <1>1, <1>2, <1>3, <2>1, TransmitFacts
<1>5. player' \in [Players -> Believed']
  BY <1>1
<1>6. missed' \in [Players -> BOOLEAN]
  BY <1>1 DEF Types
<1> QED
  BY <1>1, <1>3, <1>4, <1>5, <1>6 DEF Types, Grows

\* Two states sent one after the other.
LEMMA SendTwiceFacts ==
    ASSUME Types, Grows, local' = local, NEW pl \in Believed', NEW n1 \in 0 .. state_id',
           NEW n2 \in 0 .. state_id'
    PROVE  /\ SendTwice(pl, n1, document'[n1], n2, document'[n2]).player \in Believed'
           /\ SendTwice(pl, n1, document'[n1], n2, document'[n2]).out \in Seq(Genuine')
<1> DEFINE one == SendGameState(pl, n1, document'[n1])
           two == SendGameState(one.player, n2, document'[n2])
<1>1. one.player \in Believed' /\ one.out \in Seq(Genuine')
  BY SendFacts
<1> HIDE DEF one
<1>2. two.player \in Believed' /\ two.out \in Seq(Genuine')
  BY <1>1, SendFacts
<1> HIDE DEF two
<1>3. SendTwice(pl, n1, document'[n1], n2, document'[n2]) =
         [player |-> two.player, out |-> one.out \o two.out]
  BY DEF SendTwice, one, two
<1> QED
  BY <1>1, <1>2, <1>3

\* game::handle_message for request_updates.
LEMMA HandleUpdatesInv == ASSUME IInv, NEW p \in Players, HandleUpdates(p) PROVE IInv'
<1> USE DEF IInv
<1>1. PICK r \in requests[p] :
         LET asked == Asked(player[p], r)
             sent  == SendGameState(Noted(asked, r), state_id, document[state_id])
             behind  == r.state_id # state_id
             confirm == ~behind /\ asked.confirmed_state_id # state_id
             out == [q \in Players |->
                        IF q = p THEN IF behind THEN sent.out ELSE <<>>
                        ELSE IF confirm THEN <<SyncNotice>> ELSE <<>>]
         IN  /\ r.type = "request_updates"
             /\ requests' = [requests EXCEPT ![p] = @ \ {r}]
             /\ player' = [player EXCEPT ![p] =
                   CASE behind  -> sent.player
                     [] confirm -> [asked EXCEPT !.confirmed_state_id = state_id]
                     [] ~behind /\ ~confirm -> asked]
             /\ Transmit({p}, out)
             /\ missed' = [q \in Players |->
                   \/ LostOn(q, out[q])
                   \/ missed[q] /\ ~(q = p /\ behind /\ ~r.allow_deltas)]
             /\ KeepGame
             /\ UNCHANGED <<local, client, faults>>
  BY DEF HandleUpdates
<1> DEFINE asked == Asked(player[p], r)
           sent  == SendGameState(Noted(asked, r), state_id, document[state_id])
           behind  == r.state_id # state_id
           confirm == ~behind /\ asked.confirmed_state_id # state_id
           out == [q \in Players |->
                      IF q = p THEN IF behind THEN sent.out ELSE <<>>
                      ELSE IF confirm THEN <<SyncNotice>> ELSE <<>>]
<1>2. Grows /\ state_id \in 0 .. state_id' /\ document' = document /\ state_id' = state_id
      /\ state_id \in Ids
  BY <1>1, KeptGrows, GameSyncAssumption DEF KeepGame, Types, Ids
<1>3. Genuine' = Genuine /\ Believed' = Believed /\ Held' = Held
  BY <1>2 DEF Genuine, Believed, Held
<1>4. /\ r \in Request /\ r.type = "request_updates"
      /\ r.state_id \in Ids \cup {None} /\ r.allow_deltas \in BOOLEAN
  <2>1. r \in Request /\ r.type = "request_updates"
    BY <1>1 DEF Types
  <2> QED
    BY <2>1 DEF Request
<1>5. asked \in Believed /\ Noted(asked, r) \in Believed
  <2>1. player[p] \in Believed
    BY DEF Types
  <2>2. asked \in Believed
    BY <1>4, <2>1 DEF Asked, Believed, PlayerRecord
  <2> HIDE DEF asked
  <2>3. Noted(asked, r) \in Believed
    BY <1>4, <2>2 DEF Noted, Believed, PlayerRecord
  <2> QED
    BY <2>2, <2>3
<1>6. sent.player \in Believed /\ sent.out \in Seq(Genuine)
  BY <1>1, <1>2, <1>3, <1>5, SendFacts
<1>7. [asked EXCEPT !.confirmed_state_id = state_id] \in Believed
  BY <1>2, <1>5 DEF Believed, PlayerRecord
<1>8. SyncNotice \in Genuine
  BY DEF SyncNotice, Genuine, Message
<1> HIDE DEF asked, sent
<1>9. out \in [Players -> Seq(Genuine)]
  BY <1>6, <1>8
<1>10. player' \in [Players -> Believed]
  <2>1. (CASE behind  -> sent.player
           [] confirm -> [asked EXCEPT !.confirmed_state_id = state_id]
           [] ~behind /\ ~confirm -> asked) \in Believed
    BY <1>5, <1>6, <1>7
  <2> QED
    BY <1>1, <2>1 DEF Types, asked, sent
<1>11. Transmit({p}, out)
  BY <1>1 DEF asked, sent
<1> HIDE DEF out
<1>12. /\ mail' \in [Players -> Seq(Genuine)] /\ answers' \in [Players -> Seq(Seq(Genuine))]
       /\ waiting' \in [Players -> {"no", "live", "dead"}]
  <2>1. /\ local \in BOOLEAN /\ mail \in [Players -> Seq(Genuine)]
        /\ answers \in [Players -> Seq(Seq(Genuine))]
        /\ waiting \in [Players -> {"no", "live", "dead"}]
    BY DEF Types
  <2> HIDE DEF IInv
  <2> QED
    BY <1>3, <1>9, <1>11, <2>1, TransmitFacts
<1>13. missed' \in [Players -> BOOLEAN]
  BY <1>1
<1>14. /\ requests' \in [Players -> SUBSET Request]
       /\ Cardinality(Restoring) \in Nat /\ Cardinality(Restoring') \in Nat
       /\ Cardinality(Restoring') <= Cardinality(Restoring)
       /\ \A q \in Players : \A r1, r2 \in requests'[q] :
             r1.type # "request_updates" /\ r2.type # "request_updates" => r1 = r2
  <2>1. requests[p] \ {r} \subseteq requests[p]
    OBVIOUS
  <2>2. requests' = [requests EXCEPT ![p] = requests[p] \ {r}]
    BY <1>1
  <2> QED
    BY <2>1, <2>2, SpaceFacts
<1>15. Types'
  BY <1>1, <1>2, <1>3, <1>10, <1>12, <1>13, <1>14 DEF Types, KeepGame
<1>16. Space'
  BY <1>2, <1>14, GameSyncAssumption DEF Space, Ids
<1> QED
  BY <1>15, <1>16

\* The game stays, and everybody is sent its state.
LEMMA KeptSendInv ==
    ASSUME IInv, UNCHANGED <<state_id, document>>, replay' \subseteq 0 .. state_id',
           NEW p \in Players, NEW new, new \subseteq requests[p],
           requests' = [requests EXCEPT ![p] = new],
           NEW asking,
           SendToAll(asking, [q \in Players |-> SendGameState(player[q], state_id, document[state_id])])
    PROVE  IInv'
<1> USE DEF IInv
<1>1. Grows /\ state_id \in 0 .. state_id' /\ state_id \in Nat
  BY KeptGrows, GameSyncAssumption, SMTT(30) DEF Types, Ids
<1>2. local' = local
  BY DEF SendToAll
<1> DEFINE sent == [q \in Players |-> SendGameState(player[q], state_id, document[state_id])]
<1>3. \A q \in Players : sent[q].player \in Believed' /\ sent[q].out \in Seq(Genuine')
  BY <1>1, <1>2, GrowthFacts, SendFacts DEF Types
<1> HIDE DEF sent
<1>4. /\ requests' \in [Players -> SUBSET Request]
      /\ Cardinality(Restoring) \in Nat /\ Cardinality(Restoring') \in Nat
      /\ Cardinality(Restoring') <= Cardinality(Restoring)
      /\ \A q \in Players : \A r, s \in requests'[q] :
            r.type # "request_updates" /\ s.type # "request_updates" => r = s
  BY SpaceFacts
<1>5. Types'
  BY <1>1, <1>3, <1>4, SendToAllFacts DEF sent
<1> QED
  BY <1>1, <1>4, <1>5, GameSyncAssumption DEF Space

\* The game moves on, as far as there is a state for it, and everybody is sent what is written.
LEMMA AdvanceSendInv ==
    ASSUME IInv, Grows, replay' \subseteq 0 .. state_id',
           NEW p \in Players, NEW new, new \subseteq requests[p],
           requests' = [requests EXCEPT ![p] = new],
           \/ state_id' + Cardinality(Restoring) <= MaxState
           \/ /\ state_id' + Cardinality(Restoring) <= MaxState + 1
              /\ \E r \in requests[p] : r.type = "restore_state" /\ r \notin new,
           NEW asking, NEW sent, SendToAll(asking, sent),
           \A q \in Players : sent[q].player \in Believed' /\ sent[q].out \in Seq(Genuine')
    PROVE  IInv'
<1> USE DEF IInv
<1>1. /\ requests' \in [Players -> SUBSET Request]
      /\ Cardinality(Restoring) \in Nat /\ Cardinality(Restoring') \in Nat
      /\ Cardinality(Restoring') <= Cardinality(Restoring)
      /\ \A q \in Players : \A r, s \in requests'[q] :
            r.type # "request_updates" /\ s.type # "request_updates" => r = s
      /\ (\E r \in requests[p] : r.type = "restore_state" /\ r \notin new)
            => Cardinality(Restoring') + 1 <= Cardinality(Restoring)
  BY SpaceFacts
<1>2. Types'
  BY <1>1, SendToAllFacts
<1>3. state_id' \in Nat /\ MaxState \in Nat
  BY GameSyncAssumption DEF Grows, Ids
<1>4. state_id' + Cardinality(Restoring') <= MaxState
  BY <1>1, <1>3
<1> QED
  BY <1>1, <1>2, <1>4 DEF Space

\* start_game.
LEMMA HandleStartInv == ASSUME IInv, NEW p \in Players, HandleStart(p) PROVE IInv'
<1>1. requests[p] \ {[type |-> "start_game"]} \subseteq requests[p]
  OBVIOUS
<1>2. requests' = [requests EXCEPT ![p] = requests[p] \ {[type |-> "start_game"]}]
  BY DEF HandleStart
<1>3. UNCHANGED <<state_id, document>> /\ replay' \subseteq 0 .. state_id'
  BY DEF HandleStart, KeepGame, IInv, Types
<1> QED
  BY <1>1, <1>2, <1>3, KeptSendInv DEF HandleStart

\* Room for one more state.
LEMMA RoomFacts ==
    ASSUME IInv, Room
    PROVE  /\ state_id \in Nat /\ MaxState \in Nat /\ Cardinality(Restoring) \in Nat
           /\ state_id + 1 + Cardinality(Restoring) <= MaxState
<1>1. IsFiniteSet(Restoring)
  BY GameSyncAssumption, FS_Subset DEF Restoring
<1>2. state_id \in Nat /\ MaxState \in Nat /\ Cardinality(Restoring) \in Nat
  BY <1>1, FS_CardinalityType, GameSyncAssumption DEF IInv, Types, Ids
<1>3. MaxState > state_id + Cardinality(Restoring)
  BY DEF Room, Restoring
<1> QED
  BY <1>2, <1>3

\* The game moves on by one state, which is new, and it is sent to everybody.
LEMMA MoveOnInv ==
    ASSUME IInv, Room, Advance(state_id + 1, [i \in Ids |-> i]),
           NEW p \in Players, NEW new, new \subseteq requests[p],
           requests' = [requests EXCEPT ![p] = new],
           NEW asking,
           SendToAll(asking, [q \in Players |-> SendGameState(player[q], state_id', document'[state_id'])])
    PROVE  IInv'
<1>1. /\ state_id \in Nat /\ MaxState \in Nat /\ Cardinality(Restoring) \in Nat
      /\ state_id + 1 + Cardinality(Restoring) <= MaxState
  BY RoomFacts
<1>2. state_id + 1 \in Ids /\ state_id < state_id + 1 /\ [i \in Ids |-> i] \in [Ids -> Ids]
  BY <1>1 DEF Ids
<1>3. Grows /\ replay' \subseteq 0 .. state_id'
  BY <1>2, AdvanceFacts DEF IInv
<1>4. state_id' = state_id + 1
  BY DEF Advance
<1>5. local' = local
  BY DEF SendToAll
<1> DEFINE sent == [q \in Players |-> SendGameState(player[q], state_id', document'[state_id'])]
<1>6. \A q \in Players : sent[q].player \in Believed' /\ sent[q].out \in Seq(Genuine')
  <2>1. state_id' \in 0 .. state_id'
    BY <1>1, <1>4
  <2>2. \A q \in Players : player[q] \in Believed'
    BY <1>3, GrowthFacts DEF IInv, Types
  <2> QED
    BY <1>3, <1>5, <2>1, <2>2, SendFacts DEF IInv
<1>7. SendToAll(asking, sent)
  OBVIOUS
<1> HIDE DEF sent
<1>8. state_id' + Cardinality(Restoring) <= MaxState
  BY <1>1, <1>4
<1> QED
  BY <1>3, <1>6, <1>7, <1>8, AdvanceSendInv

\* Any other message.
LEMMA HandleMoveInv == ASSUME IInv, NEW p \in Players, HandleMove(p) PROVE IInv'
<1> DEFINE new == requests[p] \ {[type |-> "move"]}
<1>1. new \subseteq requests[p] /\ requests' = [requests EXCEPT ![p] = new]
  BY DEF HandleMove
<1> HIDE DEF new
<1>2. SendToAll({p}, [q \in Players |-> SendGameState(player[q], state_id', document'[state_id'])])
  BY DEF HandleMove
<1>3. CASE Room /\ Advance(state_id + 1, [i \in Ids |-> i])
  BY <1>1, <1>2, <1>3, MoveOnInv
<1>4. CASE replay' = replay \cup {state_id} /\ UNCHANGED <<state_id, document>>
  <2>1. replay' \subseteq 0 .. state_id'
    BY <1>4, GameSyncAssumption DEF IInv, Types, Ids
  <2>2. SendToAll({p}, [q \in Players |-> SendGameState(player[q], state_id, document[state_id])])
    BY <1>2, <1>4
  <2> QED
    BY <1>1, <1>4, <2>1, <2>2, KeptSendInv
<1> QED
  BY <1>3, <1>4 DEF HandleMove

\* What is restored is a document of the game.
LEMMA RestoredFacts ==
    ASSUME Types, NEW k
    PROVE  Restored(k) \in Ids
<1>1. state_id \in Nat /\ \A i \in 0 .. state_id : document[i] \in Ids
  BY GameSyncAssumption DEF Types, Ids
<1>2. CASE replay = {}
  BY <1>1, <1>2 DEF Restored
<1>3. CASE replay # {}
  <2> DEFINE late == {i \in replay : i >= k}
  <2>1. late \in SUBSET Nat /\ late \subseteq 0 .. state_id /\ replay \in SUBSET (0 .. state_id)
    <3>1. replay \subseteq 0 .. state_id
      BY DEF Types
    <3>2. \A i \in 0 .. state_id : i \in Nat
      BY <1>1
    <3> QED
      BY <3>1, <3>2
  <2>2. \/ Restored(k) = document[state_id]
        \/ Restored(k) = document[IF late # {} THEN Min(late) ELSE Max(replay)]
    BY DEF Restored
  <2>3. state_id \in 0 .. state_id
    BY <1>1
  <2> HIDE DEF late
  <2>4. late # {} => Min(late) \in late
    BY <2>1, MinFacts
  <2>5. Max(replay) \in replay
    BY <1>1, <1>3, <2>1, MaxFacts
  <2> QED
    BY <1>1, <2>1, <2>2, <2>3, <2>4, <2>5
<1> QED
  BY <1>2, <1>3

\* restore_state.
LEMMA HandleRestoreInv == ASSUME IInv, NEW p \in Players, HandleRestore(p) PROVE IInv'
<1>1. PICK r \in requests[p] :
         LET n == state_id + 1
             d == Restored(r.state_id)
         IN  /\ r.type = "restore_state"
             /\ requests' = [requests EXCEPT ![p] = @ \ {r}]
             /\ \/ Advance(n, [i \in Ids |-> d])
                \/ /\ Room
                   /\ Advance(n + 1, [i \in Ids |-> IF i = n THEN d ELSE i])
             /\ SendToAll({p}, [q \in Players |->
                   SendTwice(player[q], n, d, state_id', document'[state_id'])])
  BY DEF HandleRestore
<1> DEFINE n == state_id + 1
           d == Restored(r.state_id)
           new == requests[p] \ {r}
           sent == [q \in Players |-> SendTwice(player[q], n, d, state_id', document'[state_id'])]
<1>2. d \in Ids
  BY RestoredFacts DEF IInv
<1>3. /\ state_id \in Nat /\ MaxState \in Nat /\ Cardinality(Restoring) \in Nat
      /\ n + Cardinality(Restoring) <= MaxState + 1 /\ Cardinality(Restoring) >= 1
  <2>1. IsFiniteSet(Restoring)
    BY GameSyncAssumption, FS_Subset DEF Restoring
  <2>2. Restoring # {}
    BY <1>1 DEF Restoring
  <2>3. state_id \in Nat /\ MaxState \in Nat /\ Cardinality(Restoring) \in Nat
    BY <2>1, FS_CardinalityType, GameSyncAssumption DEF IInv, Types, Ids
  <2>4. Cardinality(Restoring) # 0
    BY <2>1, <2>2, FS_EmptySet
  <2> QED
    BY <2>3, <2>4 DEF IInv, Space
<1>4. local' = local /\ SendToAll({p}, sent)
  BY <1>1 DEF SendToAll
<1>5. /\ new \subseteq requests[p] /\ requests' = [requests EXCEPT ![p] = new]
      /\ \E s \in requests[p] : s.type = "restore_state" /\ s \notin new
  BY <1>1
<1> HIDE DEF d, new
<1>6. ASSUME Grows, replay' \subseteq 0 .. state_id', document'[n] = d, n <= state_id',
             \/ state_id' + Cardinality(Restoring) <= MaxState
             \/ state_id' + Cardinality(Restoring) <= MaxState + 1
      PROVE  IInv'
  <2>1. n \in 0 .. state_id' /\ state_id' \in 0 .. state_id'
    BY <1>3, <1>6, GameSyncAssumption DEF Grows, Ids
  <2>2. \A q \in Players : player[q] \in Believed'
    BY <1>6, GrowthFacts DEF IInv, Types
  <2>3. \A q \in Players :
           /\ SendTwice(player[q], n, document'[n], state_id', document'[state_id']).player \in Believed'
           /\ SendTwice(player[q], n, document'[n], state_id', document'[state_id']).out \in Seq(Genuine')
    <3> HIDE DEF n
    <3> QED
      BY <1>4, <1>6, <2>1, <2>2, SendTwiceFacts DEF IInv
  <2>4. \A q \in Players : sent[q].player \in Believed' /\ sent[q].out \in Seq(Genuine')
    BY <1>6, <2>3
  <2> HIDE DEF sent, n
  <2> QED
    BY <1>4, <1>5, <1>6, <2>4, AdvanceSendInv
<1>7. CASE Advance(n, [i \in Ids |-> d])
  <2>1. n \in Ids /\ state_id < n /\ [i \in Ids |-> d] \in [Ids -> Ids]
    BY <1>2, <1>3 DEF Ids
  <2>2. /\ Grows /\ replay' \subseteq 0 .. state_id'
        /\ \A i \in n .. n : document'[i] = [j \in Ids |-> d][i]
    BY <1>7, <2>1, AdvanceFacts DEF IInv
  <2>3. document'[n] = d /\ state_id' = n
    BY <1>3, <1>7, <2>1, <2>2 DEF Advance
  <2>4. n <= state_id' /\ state_id' + Cardinality(Restoring) <= MaxState + 1
    BY <1>3, <2>3
  <2> QED
    BY <1>6, <2>2, <2>3, <2>4
<1>8. CASE Room /\ Advance(n + 1, [i \in Ids |-> IF i = n THEN d ELSE i])
  <2> DEFINE docs == [i \in Ids |-> IF i = n THEN d ELSE i]
  <2>1. state_id + 1 + Cardinality(Restoring) <= MaxState
    BY <1>8, RoomFacts
  <2>2. n \in Ids /\ n + 1 \in Ids /\ state_id < n + 1 /\ docs \in [Ids -> Ids]
    BY <1>2, <1>3, <2>1 DEF Ids
  <2>3. /\ Grows /\ replay' \subseteq 0 .. state_id'
        /\ \A i \in n .. n + 1 : document'[i] = docs[i]
    BY <1>8, <2>2, AdvanceFacts DEF IInv
  <2>4. document'[n] = d /\ state_id' = n + 1
    BY <1>3, <1>8, <2>2, <2>3 DEF Advance
  <2>5. n <= state_id' /\ state_id' + Cardinality(Restoring) <= MaxState + 1
    BY <1>3, <2>1, <2>4
  <2> QED
    BY <1>6, <2>3, <2>4, <2>5
<1> QED
  BY <1>1, <1>7, <1>8 DEF d

\* The game's own clock.
LEMMA ProcessInv == ASSUME IInv, Process PROVE IInv'
<1>1. PICK p \in Players : TRUE
  BY GameSyncAssumption
<1>2. requests' = [requests EXCEPT ![p] = requests[p]] /\ requests[p] \subseteq requests[p]
  BY DEF Process, IInv, Types
<1>3. /\ Room /\ Advance(state_id + 1, [i \in Ids |-> i])
      /\ SendToAll({}, [q \in Players |-> SendGameState(player[q], state_id', document'[state_id'])])
  BY DEF Process
<1> QED
  BY <1>2, <1>3, MoveOnInv

\* Requests of others.
LEMMA ElsewhereInv == ASSUME IInv, Elsewhere PROVE IInv'
<1>1. PICK p \in Players : TRUE
  BY GameSyncAssumption
<1>2. requests' = [requests EXCEPT ![p] = requests[p]] /\ requests[p] \subseteq requests[p]
  BY DEF Elsewhere, IInv, Types
<1>3. UNCHANGED <<state_id, document, requests>>
  BY DEF Elsewhere
<1>4. CASE /\ replay' = replay \cup {state_id}
           /\ SendToAll({}, [q \in Players |-> SendGameState(player[q], state_id, document[state_id])])
  <2>1. replay' \subseteq 0 .. state_id'
    BY <1>3, <1>4, GameSyncAssumption DEF IInv, Types, Ids
  <2> QED
    BY <1>2, <1>3, <1>4, <2>1, KeptSendInv
<1>5. CASE /\ SendToAll({}, [q \in Players |-> [player |-> player[q], out |-> <<SyncNotice>>]])
           /\ UNCHANGED replay
  <2> DEFINE sent == [q \in Players |-> [player |-> player[q], out |-> <<SyncNotice>>]]
  <2>1. Grows
    BY <1>3, KeptGrows DEF IInv
  <2>2. SyncNotice \in Genuine'
    BY DEF SyncNotice, Genuine, Message
  <2>3. \A q \in Players : sent[q].player \in Believed' /\ sent[q].out \in Seq(Genuine')
    <3>1. \A q \in Players : player[q] \in Believed'
      BY <2>1, GrowthFacts DEF IInv, Types
    <3>2. <<SyncNotice>> \in Seq(Genuine')
      BY <2>2
    <3> QED
      BY <3>1, <3>2
  <2>4. requests' \in [Players -> SUBSET Request] /\ replay' \subseteq 0 .. state_id'
    BY <1>3, <1>5 DEF IInv, Types
  <2>5. SendToAll({}, sent)
    BY <1>5
  <2> HIDE DEF sent
  <2>6. Types'
    BY <2>1, <2>3, <2>4, <2>5, SendToAllFacts DEF IInv
  <2>7. Space'
    BY <1>3 DEF IInv, Space, Restoring
  <2> QED
    BY <2>6, <2>7 DEF IInv
<1> QED
  BY <1>4, <1>5 DEF Elsewhere

\* heartbeat_internal.
LEMMA HeartbeatInv == ASSUME IInv, NEW p \in Players, Heartbeat(p) PROVE IInv'
<1>1. /\ answers' = [answers EXCEPT ![p] = IF waiting[p] = "live" THEN Append(@, <<>>) ELSE @]
      /\ waiting' = [waiting EXCEPT ![p] = "no"]
      /\ UNCHANGED <<local, state_id, document, replay, player, mail, requests, client, faults, missed>>
  BY DEF Heartbeat, game
<1>2. answers' \in [Players -> Seq(Seq(Genuine))]
  <2>1. answers[p] \in Seq(Seq(Genuine)) /\ <<>> \in Seq(Genuine)
    BY DEF IInv, Types
  <2>2. Append(answers[p], <<>>) \in Seq(Seq(Genuine))
    BY <2>1
  <2> QED
    BY <1>1, <2>2 DEF IInv, Types
<1> QED
  BY <1>1, <1>2 DEF IInv, Types, Space, Restoring, Genuine, Believed, Held

\* A broken connection.
LEMMA LoseInv == ASSUME IInv, NEW p \in Players, Lose(p) PROVE IInv'
<1>1. /\ faults < MaxFaults /\ faults' = faults + 1
      /\ UNCHANGED <<local, state_id, document, replay, player, mail, client>>
  BY DEF Lose, game
<1>2. faults' \in 0 .. MaxFaults
  BY <1>1, GameSyncAssumption DEF IInv, Types
<1>3. CASE \E r \in requests[p] : requests' = [requests EXCEPT ![p] = @ \ {r}]
           /\ UNCHANGED <<answers, waiting, missed>>
  <2>1. PICK r \in requests[p] : requests' = [requests EXCEPT ![p] = requests[p] \ {r}]
    BY <1>3
  <2>2. /\ requests' \in [Players -> SUBSET Request]
        /\ Cardinality(Restoring) \in Nat /\ Cardinality(Restoring') \in Nat
        /\ Cardinality(Restoring') <= Cardinality(Restoring)
        /\ \A q \in Players : \A r1, r2 \in requests'[q] :
              r1.type # "request_updates" /\ r2.type # "request_updates" => r1 = r2
    <3>1. requests[p] \ {r} \subseteq requests[p]
      OBVIOUS
    <3> QED
      BY <2>1, <3>1, SpaceFacts DEF IInv
  <2>3. Types'
    BY <1>1, <1>2, <1>3, <2>2 DEF IInv, Types, Genuine, Believed, Held
  <2>4. state_id \in Nat
    BY GameSyncAssumption DEF IInv, Types, Ids
  <2> QED
    BY <1>1, <2>2, <2>3, <2>4, GameSyncAssumption DEF IInv, Space
<1>4. CASE /\ \E i \in DOMAIN answers[p] :
                 /\ answers' = [answers EXCEPT ![p] = RemoveAt(@, i)]
                 /\ missed' = [missed EXCEPT ![p] = @ \/ HasState(answers[p][i])]
           /\ UNCHANGED <<requests, waiting>>
  <2>1. PICK i \in DOMAIN answers[p] :
           /\ answers' = [answers EXCEPT ![p] = RemoveAt(@, i)]
           /\ missed' = [missed EXCEPT ![p] = @ \/ HasState(answers[p][i])]
    BY <1>4
  <2>2. answers[p] \in Seq(Seq(Genuine))
    BY DEF IInv, Types
  <2>3. RemoveAt(answers[p], i) \in Seq(Seq(Genuine))
    BY <2>2, RemoveAtType
  <2>4. answers' \in [Players -> Seq(Seq(Genuine))] /\ missed' \in [Players -> BOOLEAN]
    BY <2>1, <2>3 DEF IInv, Types
  <2> QED
    BY <1>1, <1>2, <1>4, <2>4 DEF IInv, Types, Space, Restoring, Genuine, Believed, Held
<1>5. CASE /\ waiting' = [waiting EXCEPT ![p] = "dead"]
           /\ UNCHANGED <<requests, answers, missed>>
  BY <1>1, <1>2, <1>5 DEF IInv, Types, Space, Restoring, Genuine, Believed, Held
<1> QED
  BY <1>3, <1>4, <1>5 DEF Lose

\* A new client.
LEMMA RestartInv == ASSUME IInv, NEW p \in Players, Restart(p) PROVE IInv'
<1>1. NewClient \in Held /\ <<>> \in Seq(Seq(Genuine))
  BY DEF NewClient, Held
<1>2. /\ faults' \in 0 .. MaxFaults
      /\ client' \in [Players -> Held] /\ answers' \in [Players -> Seq(Seq(Genuine))]
      /\ waiting' \in [Players -> {"no", "live", "dead"}]
      /\ missed' \in [Players -> BOOLEAN]
  BY <1>1, GameSyncAssumption DEF Restart, IInv, Types
<1>3. UNCHANGED <<local, state_id, document, replay, player, mail, requests>>
  BY DEF Restart, game
<1> QED
  BY <1>2, <1>3 DEF IInv, Types, Space, Restoring, Genuine, Believed, Held

-----------------------------------------------------------------------------
(* The first theorems: what is on its way is genuine. *)

LEMMA InitInv == Init => IInv
<1> SUFFICES ASSUME Init PROVE IInv
  OBVIOUS
<1>1. local \in BOOLEAN /\ state_id = 0 /\ document = [i \in {0} |-> 0] /\ replay = {}
  BY DEF Init
<1>2. state_id \in Ids /\ document \in [0 .. state_id -> Ids]
  <2>1. 0 \in Ids /\ 0 .. 0 = {0}
    BY GameSyncAssumption DEF Ids
  <2> QED
    BY <1>1, <2>1
<1>3. player \in [Players -> Believed]
  BY DEF Init, Believed, PlayerRecord
<1>4. NewClient \in Held
  BY DEF NewClient, Held
<1>5. Types
  <2>1. /\ mail \in [Players -> Seq(Genuine)] /\ answers \in [Players -> Seq(Seq(Genuine))]
        /\ requests \in [Players -> SUBSET Request] /\ client \in [Players -> Held]
    BY <1>4 DEF Init
  <2>2. /\ waiting \in [Players -> {"no", "live", "dead"}] /\ missed \in [Players -> BOOLEAN]
        /\ faults \in 0 .. MaxFaults
    BY GameSyncAssumption DEF Init
  <2> QED
    BY <1>1, <1>2, <1>3, <2>1, <2>2 DEF Types
<1>6. Restoring = {}
  BY DEF Init, Restoring
<1>7. Space
  BY <1>1, <1>6, FS_EmptySet, GameSyncAssumption DEF Init, Space
<1> QED
  BY <1>5, <1>7 DEF IInv

LEMMA NextInv == IInv /\ [Next]_vars => IInv'
<1> SUFFICES ASSUME IInv, [Next]_vars PROVE IInv'
  OBVIOUS
<1>1. CASE Process
  BY <1>1, ProcessInv
<1>2. CASE Elsewhere
  BY <1>2, ElsewhereInv
<1>3. ASSUME NEW p \in Players,
             \/ Poll(p) \/ Act(p) \/ Receive(p) \/ Apply(p)
             \/ HandleUpdates(p) \/ HandleAction(p) \/ Heartbeat(p)
             \/ Lose(p) \/ Restart(p)
      PROVE  IInv'
  <2>1. CASE Receive(p)
    BY <2>1, ReceiveInv DEF Receive
  <2>2. CASE HandleAction(p)
    BY <2>2, HandleStartInv, HandleMoveInv, HandleRestoreInv DEF HandleAction
  <2> QED
    BY <1>3, <2>1, <2>2, PollInv, ActInv, ApplyInv, HandleUpdatesInv, HeartbeatInv, LoseInv,
       RestartInv
<1>4. CASE UNCHANGED vars
  BY <1>4 DEF vars, game, network, IInv, Types, Space, Restoring, Genuine, Believed, Held
<1> QED
  BY <1>1, <1>2, <1>3, <1>4 DEF Next

\* The invariant of the specification: whatever is on its way is genuine, and there is a state
\* left for every request to restore one.
THEOREM Invariance == Spec => []IInv
BY InitInv, NextInv, PTL DEF Spec

\* What is in a sequence.
LEMMA RangeFacts ==
    ASSUME NEW S, NEW s \in Seq(S)
    PROVE  Range(s) \subseteq S /\ DOMAIN s = 1 .. Len(s) /\ \A i \in DOMAIN s : s[i] \in S
<1>1. DOMAIN s = 1 .. Len(s) /\ \A i \in DOMAIN s : s[i] \in S
  OBVIOUS
<1> QED
  BY <1>1 DEF Range

\* Types.
THEOREM TypeCorrect == Spec => []TypeOK
<1>1. IInv => TypeOK
  <2> SUFFICES ASSUME IInv PROVE TypeOK
    OBVIOUS
  <2>1. Genuine \subseteq Message /\ Believed \subseteq PlayerRecord
    BY DEF Genuine, Believed
  <2>2. player \in [Players -> PlayerRecord]
    BY <2>1 DEF IInv, Types
  <2>3. ASSUME NEW p \in Players
        PROVE  /\ Range(mail[p]) \subseteq Message
               /\ \A i \in DOMAIN answers[p] : Range(answers[p][i]) \subseteq Message
               /\ requests[p] \subseteq Request
               /\ client[p].state_id \in Ids \cup {None}
               /\ client[p].state \in Ids \cup {None, Garbled}
               /\ Range(client[p].queue) \subseteq Message
    <3>1. /\ mail[p] \in Seq(Genuine) /\ answers[p] \in Seq(Seq(Genuine))
          /\ client[p] \in Held /\ requests[p] \subseteq Request
      BY DEF IInv, Types
    <3>2. \A i \in DOMAIN answers[p] : answers[p][i] \in Seq(Genuine)
      BY <3>1, RangeFacts
    <3>3. /\ client[p].queue \in Seq(Genuine) /\ client[p].state_id \in Ids \cup {None}
          /\ client[p].state \in Ids \cup {None}
      BY <3>1 DEF Held
    <3>4. \A s \in Seq(Genuine) : Range(s) \subseteq Message
      BY <2>1, RangeFacts
    <3> QED
      BY <3>1, <3>2, <3>3, <3>4
  <2> QED
    BY <2>2, <2>3 DEF TypeOK, IInv, Types
<1> QED
  BY <1>1, Invariance, PTL

\* A client that has a state has the server's document of the state with that id.
THEOREM ClientsTrue == Spec => []ClientStateTrue
<1>1. IInv => ClientStateTrue
  BY DEF IInv, Types, Held, ClientStateTrue
<1> QED
  BY <1>1, Invariance, PTL

-----------------------------------------------------------------------------
(* The game messages of a sequence. *)

\* What holds of the empty sequence, and of whatever it holds of with one more element, holds
\* of every sequence.
LEMMA EverySeq ==
    ASSUME NEW S, NEW T, <<>> \in T,
           \A s \in Seq(S) : \A x \in S : s \in T => Append(s, x) \in T
    PROVE  Seq(S) \subseteq T
<1> SUFFICES ASSUME NEW s \in Seq(S) PROVE s \in T
  OBVIOUS
<1> DEFINE U == {n \in 0 .. Len(s) : SubSeq(s, 1, n) \in T}
<1>1. 0 \in U
  <2>1. SubSeq(s, 1, 0) \in T
    <3>1. SubSeq(s, 1, 0) = <<>>
      OBVIOUS
    <3> QED
      BY <3>1
  <2>2. 0 \in 0 .. Len(s)
    OBVIOUS
  <2> QED
    BY <2>1, <2>2
<1>2. \A n \in U : n < Len(s) => n + 1 \in U
  <2> SUFFICES ASSUME NEW n \in 0 .. Len(s), n < Len(s), SubSeq(s, 1, n) \in T
               PROVE  SubSeq(s, 1, n + 1) \in T
    OBVIOUS
  <2>1. /\ SubSeq(s, 1, n) \in Seq(S) /\ s[n + 1] \in S
        /\ Append(SubSeq(s, 1, n), s[n + 1]) = SubSeq(s, 1, n + 1)
    OBVIOUS
  <2> QED
    BY <2>1
<1>3. U \in SUBSET (0 .. Len(s)) /\ Len(s) \in Nat
  OBVIOUS
<1> HIDE DEF U
<1>4. Len(s) \in U
  BY <1>1, <1>2, <1>3, UpTo
<1> QED
  BY <1>4, SubSeqFull, ZenonT(40) DEF U

\* One more element of a concatenation.
LEMMA ConcatAppend ==
    ASSUME NEW S, NEW s \in Seq(S), NEW t \in Seq(S), NEW x \in S
    PROVE  s \o Append(t, x) = Append(s \o t, x)
<1> DEFINE a == s \o Append(t, x)
           b == Append(s \o t, x)
<1>1. a \in Seq(S) /\ b \in Seq(S) /\ Len(a) = Len(s) + Len(t) + 1 /\ Len(b) = Len(a)
  OBVIOUS
<1>2. \A i \in 1 .. Len(a) : a[i] = b[i]
  OBVIOUS
<1> HIDE DEF a, b
<1> QED
  BY <1>1, <1>2, SeqEqual

\* The game messages of a sequence with one more message.
LEMMA GameMessagesAppend ==
    ASSUME NEW S, NEW s \in Seq(S), NEW m \in S
    PROVE  GameMessages(Append(s, m)) = IF m.id # None THEN Append(GameMessages(s), m)
                                        ELSE GameMessages(s)
<1> DEFINE w == Append(s, m)
           T == {n \in 0 .. Len(s) : Taken(w)[n] = Taken(s)[n]}
<1>1. /\ w \in Seq(S) /\ Len(w) = Len(s) + 1 /\ Len(s) \in Nat /\ w[Len(s) + 1] = m
      /\ \A i \in 1 .. Len(s) : w[i] = s[i]
  OBVIOUS
<1> HIDE DEF w
<1>2. Taken(w)[0] = <<>> /\ Taken(s)[0] = <<>>
  BY <1>1, TakenFacts
<1>3. 0 \in T
  BY <1>1, <1>2
<1>4. \A n \in T : n < Len(s) => n + 1 \in T
  <2> SUFFICES ASSUME NEW n \in 0 .. Len(s), n < Len(s), Taken(w)[n] = Taken(s)[n]
               PROVE  Taken(w)[n + 1] = Taken(s)[n + 1]
    OBVIOUS
  <2>1. n + 1 \in 1 .. Len(s) /\ n + 1 \in 1 .. Len(w) /\ (n + 1) - 1 = n
    BY <1>1
  <2>2. Taken(s)[n + 1] = IF s[n + 1].id # None THEN Append(Taken(s)[n], s[n + 1])
                          ELSE Taken(s)[n]
    BY <2>1, TakenFacts
  <2>3. Taken(w)[n + 1] = IF w[n + 1].id # None THEN Append(Taken(w)[n], w[n + 1])
                          ELSE Taken(w)[n]
    BY <1>1, <2>1, TakenFacts
  <2>4. w[n + 1] = s[n + 1]
    BY <1>1, <2>1
  <2> QED
    BY <2>2, <2>3, <2>4
<1>5. T \in SUBSET (0 .. Len(s))
  OBVIOUS
<1>6. Taken(w)[Len(s)] = Taken(s)[Len(s)]
  <2> HIDE DEF T
  <2>1. Len(s) \in T
    BY <1>1, <1>3, <1>4, <1>5, UpTo
  <2> QED
    BY <2>1 DEF T
<1>7. GameMessages(s) = Taken(s)[Len(s)] /\ GameMessages(w) = Taken(w)[Len(s) + 1]
  BY <1>1, TakenFacts
<1>8. Taken(w)[Len(s) + 1] = IF w[Len(s) + 1].id # None
                             THEN Append(Taken(w)[Len(s)], w[Len(s) + 1]) ELSE Taken(w)[Len(s)]
  <2>1. Len(s) + 1 \in 1 .. Len(w) /\ (Len(s) + 1) - 1 = Len(s)
    BY <1>1
  <2> QED
    BY <1>1, <2>1, TakenFacts
<1> QED
  BY <1>1, <1>6, <1>7, <1>8 DEF w

\* The game messages of nothing.
LEMMA GameMessagesEmpty == GameMessages(<<>>) = <<>>
<1>1. <<>> \in Seq({}) /\ Len(<<>>) = 0
  OBVIOUS
<1> QED
  BY <1>1, TakenFacts

\* The game messages of two sequences.
LEMMA GameMessagesConcat ==
    ASSUME NEW S, NEW s \in Seq(S), NEW t \in Seq(S)
    PROVE  GameMessages(s \o t) = GameMessages(s) \o GameMessages(t)
<1> DEFINE T == {u \in Seq(S) : GameMessages(s \o u) = GameMessages(s) \o GameMessages(u)}
<1>0. GameMessages(s) \in Seq(S)
  BY GameMessagesType
<1>1. <<>> \in T
  <2>1. s \o <<>> = s /\ GameMessages(s) \o <<>> = GameMessages(s) /\ <<>> \in Seq(S)
    BY <1>0, ConcatEmptySeq
  <2> QED
    BY <2>1, GameMessagesEmpty
<1>2. ASSUME NEW u \in Seq(S), NEW x \in S, u \in T PROVE Append(u, x) \in T
  <2>1. s \o Append(u, x) = Append(s \o u, x) /\ s \o u \in Seq(S) /\ Append(u, x) \in Seq(S)
    BY ConcatAppend
  <2>2. GameMessages(u) \in Seq(S)
    BY GameMessagesType
  <2>3. GameMessages(s) \o Append(GameMessages(u), x) = Append(GameMessages(s) \o GameMessages(u), x)
    BY <1>0, <2>2, ConcatAppend
  <2>4. GameMessages(s \o u) = GameMessages(s) \o GameMessages(u)
    BY <1>2
  <2>5. /\ GameMessages(Append(s \o u, x)) = IF x.id # None THEN Append(GameMessages(s \o u), x)
                                             ELSE GameMessages(s \o u)
        /\ GameMessages(Append(u, x)) = IF x.id # None THEN Append(GameMessages(u), x)
                                        ELSE GameMessages(u)
    BY <2>1, GameMessagesAppend
  <2> QED
    BY <2>1, <2>3, <2>4, <2>5
<1> HIDE DEF T
<1>3. Seq(S) \subseteq T
  BY <1>1, <1>2, EverySeq
<1> QED
  BY <1>3 DEF T

\* Messages with a state in them.
States == [id : Ids, document : Ids, basis : Ids \cup {None}, from : Ids \cup {None}]

\* The game messages of a sequence are those with a state, and there is one if one has a state.
LEMMA GameMessagesStates ==
    ASSUME NEW s \in Seq(Message)
    PROVE  GameMessages(s) \in Seq(States) /\ (HasState(s) <=> GameMessages(s) # <<>>)
<1> DEFINE T == {u \in Seq(Message) : /\ GameMessages(u) \in Seq(States)
                                      /\ GameMessages(u) # <<>> <=>
                                            \E i \in 1 .. Len(u) : u[i].id # None}
<1>1. <<>> \in T
  <2>1. <<>> \in Seq(Message) /\ <<>> \in Seq(States) /\ ~ \E i \in 1 .. Len(<<>>) : TRUE
    OBVIOUS
  <2>2. ~ \E i \in 1 .. Len(<<>>) : <<>>[i].id # None
    BY <2>1
  <2> QED
    BY <2>1, <2>2, GameMessagesEmpty
<1>2. ASSUME NEW u \in Seq(Message), NEW x \in Message, u \in T PROVE Append(u, x) \in T
  <2>1. GameMessages(Append(u, x)) = IF x.id # None THEN Append(GameMessages(u), x)
                                     ELSE GameMessages(u)
    BY GameMessagesAppend
  <2>2. /\ Append(u, x) \in Seq(Message) /\ Len(Append(u, x)) = Len(u) + 1 /\ Len(u) \in Nat
        /\ Append(u, x)[Len(u) + 1] = x /\ \A i \in 1 .. Len(u) : Append(u, x)[i] = u[i]
    OBVIOUS
  <2>3. /\ GameMessages(u) \in Seq(States)
        /\ GameMessages(u) # <<>> <=> \E i \in 1 .. Len(u) : u[i].id # None
    BY <1>2
  <2>4. CASE x.id # None
    <3>1. x \in States
      BY <2>4 DEF Message, States
    <3>2. Append(GameMessages(u), x) \in Seq(States) /\ Append(GameMessages(u), x) # <<>>
      BY <2>3, <3>1, SMTT(30)
    <3>3. \E i \in 1 .. Len(u) + 1 : Append(u, x)[i].id # None
      BY <2>2, <2>4
    <3> QED
      BY <2>1, <2>2, <2>4, <3>2, <3>3
  <2>5. CASE x.id = None
    <3>1. (\E i \in 1 .. Len(u) + 1 : Append(u, x)[i].id # None)
             <=> (\E i \in 1 .. Len(u) : u[i].id # None)
      BY <2>2, <2>5
    <3> QED
      BY <2>1, <2>2, <2>3, <2>5, <3>1
  <2> QED
    BY <2>4, <2>5
<1> HIDE DEF T
<1>3. Seq(Message) \subseteq T
  BY <1>1, <1>2, EverySeq
<1>4. HasState(s) <=> \E i \in 1 .. Len(s) : s[i].id # None
  BY DEF HasState, Range
<1> QED
  BY <1>3, <1>4 DEF T

\* Messages with a state are all game messages.
LEMMA GameMessagesAll ==
    ASSUME NEW s \in Seq(States)
    PROVE  GameMessages(s) = s
<1> DEFINE T == {u \in Seq(States) : GameMessages(u) = u}
<1>1. <<>> \in T
  BY GameMessagesEmpty
<1>2. ASSUME NEW u \in Seq(States), NEW x \in States, u \in T PROVE Append(u, x) \in T
  <2>1. x.id # None
    BY GameSyncAssumption DEF States, Ids, None
  <2> QED
    BY <1>2, <2>1, GameMessagesAppend
<1> HIDE DEF T
<1>3. Seq(States) \subseteq T
  BY <1>1, <1>2, EverySeq
<1> QED
  BY <1>3 DEF T

-----------------------------------------------------------------------------
(* The messages of a sequence of sequences, in their order. *)

\* What FlattenSeq has taken of the first sequences of a sequence.
Joined(s) == CHOOSE f : f = [i \in 1 .. Len(s) |-> IF i = 1 THEN s[i] ELSE f[i - 1] \o s[i]]

\* It is defined step by step.
LEMMA JoinedFacts ==
    ASSUME NEW S, NEW s \in Seq(S)
    PROVE  /\ FlattenSeq(s) = IF s = <<>> THEN <<>> ELSE Joined(s)[Len(s)]
           /\ \A i \in 1 .. Len(s) :
                 Joined(s)[i] = IF i = 1 THEN s[i] ELSE Joined(s)[i - 1] \o s[i]
<1> DEFINE D(f, n) == f = [i \in 1 .. n |-> IF i = 1 THEN s[i] ELSE f[i - 1] \o s[i]]
           T == {n \in 0 .. Len(s) : \E f : D(f, n)}
<1>1. 0 \in T
  <2> DEFINE e == [i \in 1 .. 0 |-> <<>>]
             h == [i \in 1 .. 0 |-> IF i = 1 THEN s[i] ELSE e[i - 1] \o s[i]]
  <2>1. \A i \in 1 .. 0 : e[i] = h[i]
    OBVIOUS
  <2>2. D(e, 0)
    <3>1. e = h
      BY <2>1
    <3> QED
      BY <3>1
  <2>3. 0 \in 0 .. Len(s)
    OBVIOUS
  <2> HIDE DEF D, e
  <2> QED
    BY <2>2, <2>3
<1>2. \A n \in T : n < Len(s) => n + 1 \in T
  <2> SUFFICES ASSUME NEW n \in T, n < Len(s) PROVE n + 1 \in T
    OBVIOUS
  <2> PICK f : D(f, n)
    OBVIOUS
  <2> DEFINE g == [i \in 1 .. n + 1 |->
                     IF i = n + 1 THEN IF i = 1 THEN s[i] ELSE f[n] \o s[i] ELSE f[i]]
             h == [i \in 1 .. n + 1 |-> IF i = 1 THEN s[i] ELSE g[i - 1] \o s[i]]
  <2>0. n \in Nat
    OBVIOUS
  <2>1. \A i \in 1 .. n : f[i] = IF i = 1 THEN s[i] ELSE f[i - 1] \o s[i]
    OBVIOUS
  <2>2. \A i \in 1 .. n : g[i] = f[i]
    BY <2>0
  <2>3. \A i \in 1 .. n + 1 : g[i] = h[i]
    <3> SUFFICES ASSUME NEW i \in 1 .. n + 1 PROVE g[i] = h[i]
      OBVIOUS
    <3>1. CASE i = n + 1
      <4>1. CASE n = 0
        BY <3>1, <4>1
      <4>2. CASE n # 0
        <5>1. n \in 1 .. n /\ (n + 1) - 1 = n /\ n + 1 # 1 /\ n + 1 \in 1 .. n + 1
          BY <2>0, <4>2
        <5>2. g[n] = f[n]
          BY <2>2, <5>1
        <5>3. g[n + 1] = f[n] \o s[n + 1]
          BY <5>1
        <5>4. h[n + 1] = g[n] \o s[n + 1]
          <6> HIDE DEF g
          <6> QED
            BY <5>1
        <5> HIDE DEF g, h
        <5> QED
          BY <3>1, <5>2, <5>3, <5>4
      <4> QED
        BY <4>1, <4>2
    <3>2. CASE i \in 2 .. n
      <4>0. i \in 1 .. n /\ i - 1 \in 1 .. n /\ i # 1
        BY <3>2
      <4>1. g[i - 1] = f[i - 1] /\ g[i] = f[i]
        BY <2>2, <4>0
      <4>2. h[i] = g[i - 1] \o s[i]
        <5> HIDE DEF g
        <5> QED
          BY <4>0
      <4>3. f[i] = f[i - 1] \o s[i]
        BY <2>1, <4>0
      <4> HIDE DEF g, h
      <4> QED
        BY <4>1, <4>2, <4>3
    <3>3. CASE i = 1 /\ n # 0
      <4>1. 1 \in 1 .. n
        BY <2>0, <3>3
      <4>2. g[1] = f[1] /\ f[1] = s[1]
        BY <2>1, <2>2, <4>1
      <4>3. h[1] = s[1]
        BY <3>3
      <4> HIDE DEF g, h
      <4> QED
        BY <3>3, <4>2, <4>3
    <3> QED
      BY <2>0, <3>1, <3>2, <3>3
  <2>4. D(g, n + 1)
    <3>1. g = h
      BY <2>3
    <3> QED
      BY <3>1
  <2>5. n + 1 \in 0 .. Len(s)
    OBVIOUS
  <2> HIDE DEF D, g
  <2> QED
    BY <2>4, <2>5
<1>3. Len(s) \in T
  <2>1. T \in SUBSET (0 .. Len(s))
    <3> HIDE DEF D
    <3> QED
      OBVIOUS
  <2>2. Len(s) \in Nat
    OBVIOUS
  <2> HIDE DEF T
  <2> QED
    BY <1>1, <1>2, <2>1, <2>2, UpTo
<1>4. \E f : D(f, Len(s))
  <2> HIDE DEF D
  <2> QED
    BY <1>3
<1>5. \A i \in 1 .. Len(s) : Joined(s)[i] = IF i = 1 THEN s[i] ELSE Joined(s)[i - 1] \o s[i]
  <2>1. D(Joined(s), Len(s))
    BY <1>4 DEF Joined
  <2> HIDE DEF T
  <2> QED
    BY <2>1
<1>6. FlattenSeq(s) = IF s = <<>> THEN <<>> ELSE Joined(s)[Len(s)]
  <2>1. Len(s) = 0 <=> s = <<>>
    OBVIOUS
  <2>2. FlattenSeq(s) = IF Len(s) = 0 THEN s ELSE Joined(s)[Len(s)]
    BY DEF FlattenSeq, Joined
  <2> QED
    BY <2>1, <2>2
<1> HIDE DEF D, T
<1> QED
  BY <1>5, <1>6

\* FlattenSeq of nothing.
LEMMA FlattenEmpty == FlattenSeq(<<>>) = <<>>
<1>1. <<>> \in Seq({})
  OBVIOUS
<1> QED
  BY <1>1, JoinedFacts

\* One more sequence.
LEMMA FlattenAppend ==
    ASSUME NEW S, NEW s \in Seq(Seq(S)), NEW x \in Seq(S)
    PROVE  FlattenSeq(Append(s, x)) = FlattenSeq(s) \o x
<1> DEFINE w == Append(s, x)
           T == {n \in 0 .. Len(s) : n = 0 \/ Joined(w)[n] = Joined(s)[n]}
<1>1. /\ w \in Seq(Seq(S)) /\ Len(w) = Len(s) + 1 /\ Len(s) \in Nat /\ w[Len(s) + 1] = x
      /\ w # <<>> /\ \A i \in 1 .. Len(s) : w[i] = s[i]
  OBVIOUS
<1> HIDE DEF w
<1>2. 0 \in T
  BY <1>1
<1>3. \A n \in T : n < Len(s) => n + 1 \in T
  <2> SUFFICES ASSUME NEW n \in T, n < Len(s) PROVE Joined(w)[n + 1] = Joined(s)[n + 1]
    OBVIOUS
  <2>1. n \in Nat /\ n + 1 \in 1 .. Len(s) /\ n + 1 \in 1 .. Len(w) /\ (n + 1) - 1 = n
        /\ w[n + 1] = s[n + 1]
    <3>1. Len(s) \in Nat /\ Len(w) = Len(s) + 1 /\ n \in 0 .. Len(s)
      BY <1>1
    <3>2. n \in Nat /\ n + 1 \in 1 .. Len(s) /\ n + 1 \in 1 .. Len(w) /\ (n + 1) - 1 = n
      BY <3>1
    <3>3. \A i \in 1 .. Len(s) : w[i] = s[i]
      BY <1>1
    <3> QED
      BY <3>2, <3>3
  <2>2. /\ Joined(s)[n + 1] = IF n + 1 = 1 THEN s[n + 1] ELSE Joined(s)[n] \o s[n + 1]
        /\ Joined(w)[n + 1] = IF n + 1 = 1 THEN w[n + 1] ELSE Joined(w)[n] \o w[n + 1]
    BY <1>1, <2>1, JoinedFacts, SMTT(30)
  <2>3. n = 0 \/ Joined(w)[n] = Joined(s)[n]
    OBVIOUS
  <2> HIDE DEF T
  <2> QED
    BY <2>1, <2>2, <2>3
<1>4. T \in SUBSET (0 .. Len(s))
  OBVIOUS
<1>5. Len(s) = 0 \/ Joined(w)[Len(s)] = Joined(s)[Len(s)]
  <2> HIDE DEF T
  <2>0. Len(s) \in Nat
    OBVIOUS
  <2>1. Len(s) \in T
    BY <1>2, <1>3, <1>4, <2>0, UpTo
  <2> QED
    BY <2>1 DEF T
<1>6. FlattenSeq(w) = IF Len(s) = 0 THEN x ELSE Joined(w)[Len(s)] \o x
  <2>1. Len(s) + 1 \in 1 .. Len(w) /\ (Len(s) + 1) - 1 = Len(s)
    BY <1>1
  <2>2. Joined(w)[Len(s) + 1] = IF Len(s) + 1 = 1 THEN w[Len(s) + 1]
                                ELSE Joined(w)[Len(s)] \o w[Len(s) + 1]
    BY <1>1, <2>1, JoinedFacts
  <2>3. FlattenSeq(w) = Joined(w)[Len(s) + 1]
    BY <1>1, JoinedFacts
  <2> QED
    BY <1>1, <2>2, <2>3
<1>7. FlattenSeq(s) = IF s = <<>> THEN <<>> ELSE Joined(s)[Len(s)]
  BY JoinedFacts
<1>8. CASE Len(s) = 0
  <2>1. s = <<>> /\ <<>> \o x = x
    BY <1>8, ConcatEmptySeq
  <2> QED
    BY <1>6, <1>7, <1>8, <2>1 DEF w
<1>9. CASE Len(s) # 0
  <2>1. s # <<>>
    BY <1>9
  <2> QED
    BY <1>5, <1>6, <1>7, <1>9, <2>1 DEF w
<1> QED
  BY <1>8, <1>9

\* FlattenSeq gives a sequence of what its sequences have.
LEMMA FlattenType ==
    ASSUME NEW S, NEW s \in Seq(Seq(S))
    PROVE  FlattenSeq(s) \in Seq(S)
<1> DEFINE T == {u \in Seq(Seq(S)) : FlattenSeq(u) \in Seq(S)}
<1>1. <<>> \in T
  <2>1. <<>> \in Seq(Seq(S)) /\ <<>> \in Seq(S)
    OBVIOUS
  <2> QED
    BY <2>1, FlattenEmpty
<1>2. ASSUME NEW u \in Seq(Seq(S)), NEW x \in Seq(S), u \in T PROVE Append(u, x) \in T
  <2>1. FlattenSeq(u) \o x \in Seq(S)
    BY <1>2, ConcatProperties
  <2>2. Append(u, x) \in Seq(Seq(S))
    OBVIOUS
  <2> QED
    BY <2>1, <2>2, FlattenAppend
<1> HIDE DEF T
<1>3. Seq(Seq(S)) \subseteq T
  BY <1>1, <1>2, EverySeq
<1> QED
  BY <1>3 DEF T

\* More sequences.
LEMMA FlattenConcat ==
    ASSUME NEW S, NEW s \in Seq(Seq(S)), NEW t \in Seq(Seq(S))
    PROVE  FlattenSeq(s \o t) = FlattenSeq(s) \o FlattenSeq(t)
<1> DEFINE T == {u \in Seq(Seq(S)) : FlattenSeq(s \o u) = FlattenSeq(s) \o FlattenSeq(u)}
<1>0. FlattenSeq(s) \in Seq(S)
  BY FlattenType
<1>1. <<>> \in T
  <2>1. s \o <<>> = s /\ FlattenSeq(s) \o <<>> = FlattenSeq(s) /\ <<>> \in Seq(Seq(S))
    BY <1>0, ConcatEmptySeq
  <2> QED
    BY <2>1, FlattenEmpty
<1>2. ASSUME NEW u \in Seq(Seq(S)), NEW x \in Seq(S), u \in T PROVE Append(u, x) \in T
  <2>1. /\ s \o Append(u, x) = Append(s \o u, x) /\ s \o u \in Seq(Seq(S))
        /\ Append(u, x) \in Seq(Seq(S))
    BY ConcatAppend
  <2>2. FlattenSeq(u) \in Seq(S)
    BY FlattenType
  <2>3. /\ FlattenSeq(Append(s \o u, x)) = FlattenSeq(s \o u) \o x
        /\ FlattenSeq(Append(u, x)) = FlattenSeq(u) \o x
    BY <2>1, FlattenAppend
  <2>4. (FlattenSeq(s) \o FlattenSeq(u)) \o x = FlattenSeq(s) \o (FlattenSeq(u) \o x)
    BY <1>0, <2>2, ConcatAssociative, SMTT(30)
  <2> QED
    BY <1>2, <2>1, <2>3, <2>4
<1> HIDE DEF T
<1>3. Seq(Seq(S)) \subseteq T
  BY <1>1, <1>2, EverySeq
<1> QED
  BY <1>3 DEF T

\* A sequence of single elements.
LEMMA FlattenSingles ==
    ASSUME NEW S, NEW s \in Seq(S)
    PROVE  /\ [i \in DOMAIN s |-> <<s[i]>>] \in Seq(Seq(S))
           /\ FlattenSeq([i \in DOMAIN s |-> <<s[i]>>]) = s
<1> DEFINE one(u) == [i \in DOMAIN u |-> <<u[i]>>]
           T == {u \in Seq(S) : one(u) \in Seq(Seq(S)) /\ FlattenSeq(one(u)) = u}
<1>1. <<>> \in T
  <2>1. one(<<>>) = <<>>
    OBVIOUS
  <2> QED
    BY <2>1, FlattenEmpty
<1>2. ASSUME NEW u \in Seq(S), NEW x \in S, u \in T PROVE Append(u, x) \in T
  <2> DEFINE w == Append(u, x)
             a == one(w)
             b == Append(one(u), <<x>>)
  <2>1. /\ w \in Seq(S) /\ DOMAIN w = 1 .. Len(u) + 1 /\ Len(u) \in Nat /\ DOMAIN u = 1 .. Len(u)
        /\ w[Len(u) + 1] = x /\ \A i \in 1 .. Len(u) : w[i] = u[i]
    OBVIOUS
  <2>2. one(u) \in Seq(Seq(S)) /\ FlattenSeq(one(u)) = u /\ <<x>> \in Seq(S)
    BY <1>2
  <2>3. Len(one(u)) = Len(u) /\ \A i \in 1 .. Len(u) : one(u)[i] = <<u[i]>>
    BY <2>1
  <2>4. b \in Seq(Seq(S)) /\ Len(b) = Len(u) + 1 /\ b[Len(u) + 1] = <<x>>
        /\ \A i \in 1 .. Len(u) : b[i] = <<u[i]>>
    <3> HIDE DEF one
    <3> QED
      BY <2>1, <2>2, <2>3
  <2>5. \A i \in 1 .. Len(u) + 1 : a[i] = b[i]
    <3>1. \A i \in 1 .. Len(u) + 1 : a[i] = <<w[i]>>
      <4> HIDE DEF w
      <4> QED
        BY <2>1
    <3>2. \A i \in 1 .. Len(u) + 1 : b[i] = <<w[i]>>
      <4> SUFFICES ASSUME NEW i \in 1 .. Len(u) + 1 PROVE b[i] = <<w[i]>>
        OBVIOUS
      <4> HIDE DEF w, b
      <4>1. CASE i = Len(u) + 1
        BY <2>1, <2>4, <4>1
      <4>2. CASE i # Len(u) + 1
        <5>1. i \in 1 .. Len(u)
          BY <2>1, <4>2
        <5> QED
          BY <2>1, <2>4, <5>1
      <4> QED
        BY <4>1, <4>2
    <3> HIDE DEF w, a, b
    <3> QED
      BY <3>1, <3>2
  <2>6. a = b
    <3>1. a \in [1 .. Len(u) + 1 -> Seq(S)]
      <4> HIDE DEF w
      <4> QED
        BY <2>1
    <3>2. a \in Seq(Seq(S)) /\ Len(a) = Len(u) + 1
      <4> HIDE DEF a
      <4> QED
        BY <2>1, <3>1
    <3> HIDE DEF a, b
    <3> QED
      BY <2>4, <2>5, <3>2, SeqEqual
  <2>7. FlattenSeq(b) = u \o <<x>>
    <3> HIDE DEF one
    <3> QED
      BY <2>2, FlattenAppend
  <2>8. u \o <<x>> = w
    OBVIOUS
  <2>9. one(w) \in Seq(Seq(S)) /\ FlattenSeq(one(w)) = w /\ w \in Seq(S)
    BY <2>1, <2>4, <2>6, <2>7, <2>8
  <2> HIDE DEF w, one
  <2> QED
    BY <2>9 DEF w
<1> HIDE DEF T
<1>3. Seq(S) \subseteq T
  BY <1>1, <1>2, EverySeq
<1> QED
  BY <1>3 DEF T

-----------------------------------------------------------------------------
(* Chains of states. *)

\* Every delta of s is made from the state before it.
Linked(s) == \A i \in 2 .. Len(s) : s[i].basis \in {None, s[i - 1].id}

\* No delta of s is made from a state older than b, or than one that comes before it in s.
Rising(b, s) == \A j \in 1 .. Len(s) : s[j].basis # None =>
                   b <= s[j].basis /\ \A i \in 1 .. j - 1 : s[i].id <= s[j].basis

\* There are no deltas in s; there is a whole state; no state is newer than b.
Whole(s)     == \A i \in 1 .. Len(s) : s[i].basis = None
HasWhole(s)  == \E i \in 1 .. Len(s) : s[i].basis = None
Within(s, b) == \A i \in 1 .. Len(s) : s[i].id <= b

\* The numbers of a state.
LEMMA StateFacts ==
    ASSUME NEW m \in States
    PROVE  m.id \in Int /\ m.basis \in Int /\ m.id > None /\ m.basis >= None /\ None \in Int
BY GameSyncAssumption DEF States, Ids, None

\* What is in a concatenation, its first and its last state.
LEMMA JoinFacts ==
    ASSUME NEW s \in Seq(States), NEW t \in Seq(States)
    PROVE  /\ s \o t \in Seq(States) /\ Len(s) \in Nat /\ Len(t) \in Nat
           /\ Len(s \o t) = Len(s) + Len(t)
           /\ \A i \in 1 .. Len(s) : (s \o t)[i] = s[i]
           /\ \A i \in 1 .. Len(t) : (s \o t)[Len(s) + i] = t[i]
           /\ \A i \in 1 .. Len(s) + Len(t) :
                 \/ i \in 1 .. Len(s)
                 \/ i - Len(s) \in 1 .. Len(t) /\ (s \o t)[i] = t[i - Len(s)]
           /\ s \o t = <<>> <=> s = <<>> /\ t = <<>>
           /\ s # <<>> => (s \o t)[1] = s[1]
           /\ s = <<>> => s \o t = t
           /\ t = <<>> => s \o t = s
           /\ t # <<>> => Last(s \o t) = Last(t)
<1>1. Len(s) \in Nat /\ Len(t) \in Nat /\ s \o t \in Seq(States) /\ Len(s \o t) = Len(s) + Len(t)
  OBVIOUS
<1>2. \A i \in 1 .. Len(s) + Len(t) : (s \o t)[i] = IF i <= Len(s) THEN s[i] ELSE t[i - Len(s)]
  BY ConcatProperties
<1>3. \A i \in 1 .. Len(s) : (s \o t)[i] = s[i]
  BY <1>1, <1>2
<1>4. \A i \in 1 .. Len(t) : (s \o t)[Len(s) + i] = t[i]
  BY <1>1, <1>2
<1>5. \A i \in 1 .. Len(s) + Len(t) :
         \/ i \in 1 .. Len(s)
         \/ i - Len(s) \in 1 .. Len(t) /\ (s \o t)[i] = t[i - Len(s)]
  <2> SUFFICES ASSUME NEW i \in 1 .. Len(s) + Len(t), i \notin 1 .. Len(s)
               PROVE  i - Len(s) \in 1 .. Len(t) /\ (s \o t)[i] = t[i - Len(s)]
    OBVIOUS
  <2>1. ~(i <= Len(s)) /\ i - Len(s) \in 1 .. Len(t)
    BY <1>1
  <2> QED
    BY <1>2, <2>1
<1>6. s \o t = <<>> <=> s = <<>> /\ t = <<>>
  BY ConcatEqualIffEmpty
<1>7. (s = <<>> => s \o t = t) /\ (t = <<>> => s \o t = s)
  BY ConcatEmptySeq
<1>8. s # <<>> => (s \o t)[1] = s[1]
  <2>1. s # <<>> => 1 \in 1 .. Len(s)
    OBVIOUS
  <2> QED
    BY <1>3, <2>1
<1>9. t # <<>> => Last(s \o t) = Last(t)
  <2>1. t # <<>> => Len(t) \in 1 .. Len(t)
    OBVIOUS
  <2>2. t # <<>> => (s \o t)[Len(s) + Len(t)] = t[Len(t)]
    BY <1>4, <2>1
  <2> QED
    BY <1>1, <2>2 DEF Last
<1> QED
  BY <1>1, <1>3, <1>4, <1>5, <1>6, <1>7, <1>8, <1>9

\* A concatenation whose deltas are made from the state before.
LEMMA LinkedJoin ==
    ASSUME NEW s \in Seq(States), NEW t \in Seq(States)
    PROVE  /\ Linked(s) /\ Linked(t)
              /\ (s # <<>> /\ t # <<>> => t[1].basis \in {None, Last(s).id}) => Linked(s \o t)
           /\ Linked(s \o t) => Linked(s)
           /\ Linked(s) /\ Whole(t) => Linked(s \o t)
<1>0. Len(s) \in Nat /\ Len(t) \in Nat
  OBVIOUS
<1>1. ASSUME Linked(s), Linked(t), s # <<>> /\ t # <<>> => t[1].basis \in {None, Last(s).id}
      PROVE  Linked(s \o t)
  <2> SUFFICES ASSUME NEW i \in 2 .. Len(s) + Len(t)
               PROVE  (s \o t)[i].basis \in {None, (s \o t)[i - 1].id}
    BY JoinFacts DEF Linked
  <2>1. CASE i \in 2 .. Len(s)
    <3>1. i \in 1 .. Len(s) /\ i - 1 \in 1 .. Len(s)
      BY <1>0, <2>1
    <3>2. (s \o t)[i] = s[i] /\ (s \o t)[i - 1] = s[i - 1]
      BY <3>1, JoinFacts
    <3> QED
      BY <1>1, <2>1, <3>2 DEF Linked
  <2>2. CASE i = Len(s) + 1
    <3>1. Len(s) \in 1 .. Len(s) /\ 1 \in 1 .. Len(t) /\ s # <<>> /\ t # <<>>
      BY <1>0, <2>2
    <3>2. (s \o t)[Len(s) + 1] = t[1] /\ (s \o t)[Len(s)] = s[Len(s)] /\ i - 1 = Len(s)
      BY <1>0, <2>2, <3>1, JoinFacts
    <3> QED
      BY <1>1, <2>2, <3>1, <3>2 DEF Last
  <2>3. CASE i > Len(s) + 1
    <3> DEFINE k == i - Len(s)
    <3>1. k \in 2 .. Len(t) /\ k \in 1 .. Len(t) /\ k - 1 \in 1 .. Len(t)
          /\ i = Len(s) + k /\ i - 1 = Len(s) + (k - 1)
      BY <1>0, <2>3
    <3>2. (s \o t)[i] = t[k] /\ (s \o t)[i - 1] = t[k - 1]
      <4> HIDE DEF k
      <4> QED
        BY <3>1, JoinFacts
    <3>3. t[k].basis \in {None, t[k - 1].id}
      <4> HIDE DEF k
      <4> QED
        BY <1>1, <3>1 DEF Linked
    <3> QED
      BY <3>2, <3>3
  <2> QED
    BY <1>0, <2>1, <2>2, <2>3
<1>2. ASSUME Linked(s \o t) PROVE Linked(s)
  <2> SUFFICES ASSUME NEW i \in 2 .. Len(s) PROVE s[i].basis \in {None, s[i - 1].id}
    BY DEF Linked
  <2>1. i \in 1 .. Len(s) /\ i - 1 \in 1 .. Len(s) /\ i \in 2 .. Len(s) + Len(t)
    BY <1>0
  <2>2. (s \o t)[i] = s[i] /\ (s \o t)[i - 1] = s[i - 1] /\ Len(s \o t) = Len(s) + Len(t)
    BY <2>1, JoinFacts
  <2> QED
    BY <1>2, <2>1, <2>2 DEF Linked
<1>3. ASSUME Linked(s), Whole(t) PROVE Linked(s \o t)
  <2>1. Linked(t)
    <3>1. \A i \in 2 .. Len(t) : i \in 1 .. Len(t)
      BY <1>0
    <3> QED
      BY <1>3, <3>1 DEF Linked, Whole
  <2>2. t # <<>> => t[1].basis = None
    <3>1. t # <<>> => 1 \in 1 .. Len(t)
      BY <1>0
    <3> QED
      BY <1>3, <3>1 DEF Whole
  <2> QED
    BY <1>1, <1>3, <2>1, <2>2
<1> QED
  BY <1>1, <1>2, <1>3

\* A concatenation whose deltas are made from nothing old.
LEMMA RisingJoin ==
    ASSUME NEW s \in Seq(States), NEW t \in Seq(States), NEW b \in Int, NEW e \in Int
    PROVE  /\ Rising(b, s) /\ Rising(e, t) /\ b <= e /\ Within(s, e) => Rising(b, s \o t)
           /\ Rising(b, s \o t) => Rising(b, s)
           /\ Rising(b, s) /\ Whole(t) => Rising(b, s \o t)
<1>0. Len(s) \in Nat /\ Len(t) \in Nat /\ Len(s \o t) = Len(s) + Len(t)
  BY JoinFacts
<1>1. ASSUME Rising(b, s),
             \A j \in 1 .. Len(t) : t[j].basis # None =>
                /\ b <= t[j].basis /\ Within(s, t[j].basis)
                /\ \A i \in 1 .. j - 1 : t[i].id <= t[j].basis
      PROVE  Rising(b, s \o t)
  <2> SUFFICES ASSUME NEW j \in 1 .. Len(s) + Len(t), (s \o t)[j].basis # None
               PROVE  /\ b <= (s \o t)[j].basis
                      /\ \A i \in 1 .. j - 1 : (s \o t)[i].id <= (s \o t)[j].basis
    BY <1>0 DEF Rising
  <2>1. CASE j \in 1 .. Len(s)
    <3>1. (s \o t)[j] = s[j] /\ \A i \in 1 .. j - 1 : (s \o t)[i] = s[i]
      BY <1>0, <2>1, JoinFacts
    <3> QED
      BY <1>1, <2>1, <3>1 DEF Rising
  <2>2. CASE j - Len(s) \in 1 .. Len(t) /\ (s \o t)[j] = t[j - Len(s)]
    <3> DEFINE k == j - Len(s)
    <3>1. b <= t[k].basis /\ Within(s, t[k].basis) /\ \A i \in 1 .. k - 1 : t[i].id <= t[k].basis
      BY <1>1, <2>2
    <3>2. ASSUME NEW i \in 1 .. j - 1 PROVE (s \o t)[i].id <= t[k].basis
      <4>1. i \in 1 .. Len(s) + Len(t)
        BY <1>0
      <4>2. CASE i \in 1 .. Len(s)
        BY <3>1, <4>2, JoinFacts DEF Within
      <4>3. CASE i - Len(s) \in 1 .. Len(t) /\ (s \o t)[i] = t[i - Len(s)]
        <5>1. i - Len(s) \in 1 .. k - 1
          BY <1>0, <2>2, <4>3
        <5> QED
          BY <3>1, <4>3, <5>1
      <4> QED
        BY <4>1, <4>2, <4>3, JoinFacts
    <3> QED
      BY <2>2, <3>1, <3>2
  <2> QED
    BY <2>1, <2>2, JoinFacts
<1>2. ASSUME Rising(b, s), Rising(e, t), b <= e, Within(s, e) PROVE Rising(b, s \o t)
  <2>1. ASSUME NEW j \in 1 .. Len(t), t[j].basis # None
        PROVE  b <= t[j].basis /\ Within(s, t[j].basis)
    <3>1. e <= t[j].basis /\ t[j].basis \in Int
      BY <1>2, <2>1, StateFacts DEF Rising
    <3>2. \A i \in 1 .. Len(s) : s[i].id \in Int
      BY StateFacts
    <3> QED
      BY <1>2, <3>1, <3>2 DEF Within
  <2> QED
    BY <1>1, <1>2, <2>1 DEF Rising
<1>3. ASSUME Rising(b, s \o t) PROVE Rising(b, s)
  <2> SUFFICES ASSUME NEW j \in 1 .. Len(s), s[j].basis # None
               PROVE  b <= s[j].basis /\ \A i \in 1 .. j - 1 : s[i].id <= s[j].basis
    BY DEF Rising
  <2>1. j \in 1 .. Len(s) + Len(t) /\ (s \o t)[j] = s[j]
        /\ \A i \in 1 .. j - 1 : (s \o t)[i] = s[i]
    BY <1>0, JoinFacts
  <2> QED
    BY <1>0, <1>3, <2>1 DEF Rising
<1>4. ASSUME Rising(b, s), Whole(t) PROVE Rising(b, s \o t)
  BY <1>1, <1>4 DEF Whole
<1> QED
  BY <1>2, <1>3, <1>4

\* The whole states, and the newest, of a concatenation.
LEMMA WholeJoin ==
    ASSUME NEW s \in Seq(States), NEW t \in Seq(States), NEW b \in Int
    PROVE  /\ Whole(s \o t) <=> Whole(s) /\ Whole(t)
           /\ HasWhole(s \o t) <=> HasWhole(s) \/ HasWhole(t)
           /\ Within(s \o t, b) <=> Within(s, b) /\ Within(t, b)
<1>0. Len(s) \in Nat /\ Len(t) \in Nat /\ Len(s \o t) = Len(s) + Len(t)
  BY JoinFacts
<1>1. \A i \in 1 .. Len(s) + Len(t) :
         \/ i \in 1 .. Len(s) /\ (s \o t)[i] = s[i]
         \/ i - Len(s) \in 1 .. Len(t) /\ (s \o t)[i] = t[i - Len(s)]
  BY JoinFacts
<1>2. /\ \A i \in 1 .. Len(s) : i \in 1 .. Len(s) + Len(t) /\ (s \o t)[i] = s[i]
      /\ \A i \in 1 .. Len(t) : Len(s) + i \in 1 .. Len(s) + Len(t) /\ (s \o t)[Len(s) + i] = t[i]
  BY <1>0, JoinFacts
<1>3. Whole(s \o t) <=> Whole(s) /\ Whole(t)
  BY <1>0, <1>1, <1>2, SMTT(30) DEF Whole
<1>4. HasWhole(s \o t) <=> HasWhole(s) \/ HasWhole(t)
  BY <1>0, <1>1, <1>2, SMTT(30) DEF HasWhole
<1>5. Within(s \o t, b) <=> Within(s, b) /\ Within(t, b)
  <2>1. Within(s \o t, b) => Within(s, b) /\ Within(t, b)
    BY <1>0, <1>2 DEF Within
  <2>2. Within(s, b) /\ Within(t, b) => Within(s \o t, b)
    BY <1>0, <1>1 DEF Within
  <2> QED
    BY <2>1, <2>2
<1> QED
  BY <1>3, <1>4, <1>5

\* Without its first state.
LEMMA TailFacts ==
    ASSUME NEW s \in Seq(States), s # <<>>, NEW b \in Int
    PROVE  /\ Tail(s) \in Seq(States) /\ s[1] \in States /\ Head(s) = s[1]
           /\ Linked(s) => Linked(Tail(s))
           /\ Linked(s) /\ Tail(s) # <<>> => Tail(s)[1].basis \in {None, s[1].id}
           /\ Rising(b, s) => Rising(b, Tail(s)) /\ Rising(s[1].id, Tail(s))
           /\ Whole(s) => Whole(Tail(s))
           /\ HasWhole(s) => s[1].basis = None \/ HasWhole(Tail(s))
           /\ Within(s, b) => Within(Tail(s), b) /\ s[1].id <= b
           /\ Tail(s) # <<>> => Last(Tail(s)) = Last(s)
           /\ Tail(s) = <<>> => Last(s) = s[1]
<1> DEFINE t == Tail(s)
<1>1. /\ t \in Seq(States) /\ Len(s) \in Nat \ {0} /\ Len(t) = Len(s) - 1 /\ s[1] \in States
      /\ Head(s) = s[1]
      /\ \A i \in 1 .. Len(t) : t[i] = s[i + 1] /\ i + 1 \in 2 .. Len(s)
  OBVIOUS
<1>0. Len(s) \in Nat /\ Len(t) \in Nat /\ Len(t) = Len(s) - 1
  BY <1>1
<1> HIDE DEF t
<1>2. (t # <<>> => 1 \in 1 .. Len(t) /\ Len(t) \in 1 .. Len(t)) /\ (t = <<>> => Len(s) = 1)
  <2>1. t = <<>> <=> Len(t) = 0
    BY <1>1, EmptySeq
  <2> QED
    BY <1>0, <2>1
<1>3. \A i \in 1 .. Len(s) : i # 1 => i - 1 \in 1 .. Len(t) /\ t[i - 1] = s[i]
  <2> SUFFICES ASSUME NEW i \in 1 .. Len(s), i # 1 PROVE i - 1 \in 1 .. Len(t) /\ t[i - 1] = s[i]
    OBVIOUS
  <2>1. i - 1 \in 1 .. Len(t) /\ (i - 1) + 1 = i
    BY <1>0
  <2> QED
    BY <1>1, <2>1
<1>4. ASSUME Linked(s) PROVE Linked(t)
  <2> SUFFICES ASSUME NEW i \in 2 .. Len(t) PROVE t[i].basis \in {None, t[i - 1].id}
    BY DEF Linked
  <2>1. i \in 1 .. Len(t) /\ i - 1 \in 1 .. Len(t) /\ (i - 1) + 1 = i /\ (i + 1) - 1 = i
    BY <1>1
  <2>2. t[i] = s[i + 1] /\ t[i - 1] = s[i] /\ i + 1 \in 2 .. Len(s)
    BY <1>1, <2>1
  <2> QED
    BY <1>4, <2>1, <2>2 DEF Linked
<1>5. ASSUME Linked(s), t # <<>> PROVE t[1].basis \in {None, s[1].id}
  <2>1. t[1] = s[2] /\ 2 \in 2 .. Len(s) /\ 2 - 1 = 1
    BY <1>1, <1>2, <1>5
  <2> QED
    BY <1>5, <2>1 DEF Linked
<1>6. ASSUME Rising(b, s) PROVE Rising(b, t) /\ Rising(s[1].id, t)
  <2>1. ASSUME NEW j \in 1 .. Len(t), t[j].basis # None
        PROVE  /\ b <= t[j].basis /\ s[1].id <= t[j].basis
               /\ \A i \in 1 .. j - 1 : t[i].id <= t[j].basis
    <3>1. t[j] = s[j + 1] /\ j + 1 \in 1 .. Len(s) /\ 1 \in 1 .. (j + 1) - 1
      BY <1>1
    <3>2. b <= s[j + 1].basis /\ \A i \in 1 .. (j + 1) - 1 : s[i].id <= s[j + 1].basis
      BY <1>6, <2>1, <3>1 DEF Rising
    <3>3. \A i \in 1 .. j - 1 : t[i] = s[i + 1] /\ i + 1 \in 1 .. (j + 1) - 1
      BY <1>1
    <3> QED
      BY <3>1, <3>2, <3>3
  <2> QED
    BY <2>1 DEF Rising
<1>7. Whole(s) => Whole(t)
  BY <1>1 DEF Whole
<1>8. HasWhole(s) => s[1].basis = None \/ HasWhole(t)
  BY <1>3 DEF HasWhole
<1>9. Within(s, b) => Within(t, b) /\ s[1].id <= b
  BY <1>1 DEF Within
<1>10. (t # <<>> => Last(t) = Last(s)) /\ (t = <<>> => Last(s) = s[1])
  BY <1>1, <1>2 DEF Last
<1> QED
  BY <1>1, <1>4, <1>5, <1>6, <1>7, <1>8, <1>9, <1>10 DEF t

-----------------------------------------------------------------------------
(* Lines. *)

(* One player's line: what the server believes of it, what is under way to it, and its client. *)

Lines == [local : BOOLEAN, player : PlayerRecord,
          client : [state_id : Ids \cup {None}, state : Ids \cup {None}, queue : Seq(States)],
          mail : Seq(Message), waiting : {"no", "live", "dead"}, requests : SUBSET Request,
          answers : Seq(Seq(Message)), missed : BOOLEAN]

Line(p) == [local |-> local, player |-> player[p], client |-> client[p], mail |-> mail[p],
            waiting |-> waiting[p], requests |-> requests[p], answers |-> answers[p],
            missed |-> missed[p]]

\* The game messages of the answers, of the mail, and all that the client has yet to process
Coming(v) == GameMessages(FlattenSeq(v.answers))
Kept(v)   == GameMessages(v.mail)
Todo(v)   == v.client.queue \o (Coming(v) \o Kept(v))

\* A request for a whole state is on its way
ForWhole(v) == \E r \in v.requests : r.type = "request_updates" /\ ~r.allow_deltas

\* Nobody knows of a newer state than the one the server sent last.
Newest(v) ==
    /\ v.client.state_id <= v.player.state_id_sent
    /\ v.player.confirmed_state_id <= v.player.state_id_sent
    /\ Within(Todo(v), v.player.state_id_sent)
    /\ \A r \in v.requests : r.type = "request_updates" => r.state_id <= v.player.state_id_sent

\* One request for updates at a time; what a client with a state asks for, it still has a state
\* when the request arrives.
Requested(v) ==
    /\ IsFiniteSet(v.requests)
    /\ \A r, s \in v.requests : r.type = "request_updates" /\ s.type = "request_updates" => r = s
    /\ \A r \in v.requests : /\ r.type = "request_updates" /\ r.allow_deltas => v.client.state # None
                             /\ r.type \in {"move", "restore_state"} => v.client.state # None
    /\ v.player.allow_deltas /\ ForWhole(v) => v.client.state = None

\* No state, no id of a state; deltas are for players that were sent something.
Stateless(v) ==
    /\ v.client.state = None => v.client.state_id = None
    /\ v.player.allow_deltas => v.player.state_id_sent # None

\* The mail is empty while a request waits, and is a chain that ends at what was sent last.
Queued(v) ==
    /\ v.waiting # "no" \/ v.local => v.mail = <<>>
    /\ v.local => ~v.missed
    /\ Linked(Kept(v)) /\ Rising(None, Kept(v))
    /\ Kept(v) # <<>> => Last(Kept(v)).id = v.player.state_id_sent
    /\ ~v.player.allow_deltas => Whole(Kept(v))

\* The server writes deltas for a client without a state only until the first request of a
\* client that was restarted arrives; until then nothing is on its way to that client.
Fresh(v) == v.player.allow_deltas /\ v.client.state = None =>
    /\ v.missed /\ ~v.local /\ v.client.queue = <<>> /\ v.answers = <<>> /\ v.waiting # "live"
    /\ \A r \in v.requests : r.type = "request_updates" /\ ~r.allow_deltas

\* The answer to that request is the only one with deltas when the server writes none any more,
\* and nothing else is under way until it arrives.
Leftover(v) == ~v.player.allow_deltas /\ ~Whole(Coming(v)) =>
    /\ ~v.local /\ v.client.state = None /\ v.client.queue = <<>> /\ v.waiting # "live"
    /\ Len(v.answers) = 1 /\ v.requests = {} /\ v.player.state_id_sent # None

\* The states s are a chain that continues the state of client c.
Follows(c, s) == /\ Linked(s) /\ Rising(c.state_id, s)
                 /\ c.state # None /\ s # <<>> => s[1].basis \in {None, c.state_id}

\* Unless a message was missed and the server goes on with deltas, what is to come is a chain
\* that continues the client's state.
Chain(v) == ~v.missed \/ ~v.player.allow_deltas \/ ForWhole(v) => Follows(v.client, Todo(v))

\* As long as no message was missed, it ends at what was sent last, and starts from something.
Complete(v) == ~v.missed =>
    /\ Todo(v) = <<>> => v.player.state_id_sent = v.client.state_id
    /\ Todo(v) # <<>> => /\ v.player.state_id_sent = Last(Todo(v)).id
                         /\ v.client.state = None => HasWhole(Todo(v))

Sound(v) == /\ Newest(v) /\ Requested(v) /\ Stateless(v) /\ Queued(v)
            /\ Fresh(v) /\ Leftover(v) /\ Chain(v) /\ Complete(v)

\* What is on a line is states.
LEMMA TodoFacts ==
    ASSUME NEW v \in Lines
    PROVE  /\ FlattenSeq(v.answers) \in Seq(Message) /\ v.mail \in Seq(Message)
           /\ Coming(v) \in Seq(States) /\ Kept(v) \in Seq(States)
           /\ Coming(v) \o Kept(v) \in Seq(States)
           /\ v.client.queue \in Seq(States) /\ Todo(v) \in Seq(States)
<1>1. v.mail \in Seq(Message) /\ v.answers \in Seq(Seq(Message)) /\ v.client.queue \in Seq(States)
  BY DEF Lines
<1>2. FlattenSeq(v.answers) \in Seq(Message)
  BY <1>1, FlattenType
<1>3. Coming(v) \in Seq(States) /\ Kept(v) \in Seq(States)
  BY <1>1, <1>2, GameMessagesStates DEF Coming, Kept
<1>4. Coming(v) \o Kept(v) \in Seq(States)
  BY <1>3, ConcatProperties
<1>5. Todo(v) \in Seq(States)
  BY <1>1, <1>4, ConcatProperties DEF Todo
<1> QED
  BY <1>1, <1>2, <1>3, <1>4, <1>5

\* A chain goes on with whole states, or with one that is made from its end.
LEMMA FollowsWhole ==
    ASSUME NEW c, c.state_id \in Int, NEW s \in Seq(States), NEW t \in Seq(States),
           NEW u \in Seq(States), Follows(c, s \o t), Whole(u)
    PROVE  Follows(c, s \o u)
<1>1. Linked(s \o u) /\ Rising(c.state_id, s \o u)
  BY LinkedJoin, RisingJoin DEF Follows
<1>2. ASSUME c.state # None, s # <<>> PROVE (s \o u)[1].basis \in {None, c.state_id}
  BY <1>2, JoinFacts DEF Follows
<1>3. ASSUME s = <<>>, u # <<>> PROVE (s \o u)[1].basis = None
  <2>1. 1 \in 1 .. Len(u)
    BY <1>3, EmptySeq
  <2> QED
    BY <1>3, <2>1, JoinFacts DEF Whole
<1> QED
  BY <1>1, <1>2, <1>3, JoinFacts DEF Follows

\* A chain goes on with one that starts from its end.
LEMMA FollowsJoin ==
    ASSUME NEW c, c.state_id \in Int, NEW s \in Seq(States), NEW t \in Seq(States), NEW e \in Int,
           Follows(c, s), c.state_id <= e, Within(s, e), Linked(t), Rising(e, t),
           s # <<>> /\ t # <<>> => t[1].basis \in {None, Last(s).id},
           c.state # None /\ s = <<>> /\ t # <<>> => t[1].basis \in {None, c.state_id}
    PROVE  Follows(c, s \o t)
<1>1. Linked(s \o t)
  BY LinkedJoin DEF Follows
<1>2. Rising(c.state_id, s \o t)
  BY RisingJoin DEF Follows
<1>3. c.state # None /\ s \o t # <<>> => (s \o t)[1].basis \in {None, c.state_id}
  BY JoinFacts DEF Follows
<1> QED
  BY <1>1, <1>2, <1>3 DEF Follows

\* The numbers of a line.
LEMMA LineFacts ==
    ASSUME NEW v \in Lines
    PROVE  /\ v.client.state_id \in Int /\ v.client.state_id >= None /\ None \in Int
           /\ v.player.state_id_sent \in Int /\ v.player.state_id_sent >= None
           /\ v.player.confirmed_state_id \in Int
           /\ v.local \in BOOLEAN /\ v.missed \in BOOLEAN /\ v.player.allow_deltas \in BOOLEAN
           /\ \A r \in v.requests : r \in Request /\
                 (r.type = "request_updates" => r.state_id \in Int /\ r.allow_deltas \in BOOLEAN)
<1>1. \A i \in Ids \cup {None} : i \in Int /\ i >= None
  BY GameSyncAssumption DEF Ids, None
<1>2. v.client.state_id \in Ids \cup {None} /\ v.player \in PlayerRecord /\ v.requests \subseteq Request
      /\ v.local \in BOOLEAN /\ v.missed \in BOOLEAN
  BY DEF Lines
<1>3. \A r \in Request : r.type = "request_updates" => r.state_id \in Ids \cup {None} /\ r.allow_deltas \in BOOLEAN
  BY DEF Request
<1> QED
  BY <1>1, <1>2, <1>3 DEF PlayerRecord, None

\* All but the first of a concatenation.
LEMMA TailConcat ==
    ASSUME NEW s \in Seq(States), NEW t \in Seq(States), s # <<>>
    PROVE  Tail(s \o t) = Tail(s) \o t
<1> DEFINE a == Tail(s) \o t
           b == Tail(s \o t)
           n == Len(s)
           u == Tail(s)
<1>1. /\ n \in Nat \ {0} /\ Len(t) \in Nat /\ s \o t \in Seq(States) /\ Len(s \o t) = n + Len(t)
      /\ u \in Seq(States) /\ Len(u) = n - 1 /\ \A i \in 1 .. n - 1 : u[i] = s[i + 1]
  OBVIOUS
<1>2. a \in Seq(States) /\ b \in Seq(States) /\ Len(a) = n + Len(t) - 1 /\ Len(b) = n + Len(t) - 1
  BY <1>1
<1>3. \A i \in 1 .. n + Len(t) - 1 : b[i] = (s \o t)[i + 1]
  BY <1>1
<1>4. \A i \in 1 .. n + Len(t) : (s \o t)[i] = IF i <= n THEN s[i] ELSE t[i - n]
  BY ConcatProperties
<1>5. \A i \in 1 .. (n - 1) + Len(t) : a[i] = IF i <= n - 1 THEN u[i] ELSE t[i - (n - 1)]
  BY <1>1, ConcatProperties
<1> HIDE DEF a, b, n, u
<1>6. ASSUME NEW i \in 1 .. n + Len(t) - 1 PROVE a[i] = b[i]
  <2>1. i + 1 \in 1 .. n + Len(t) /\ i \in 1 .. (n - 1) + Len(t) /\ i - (n - 1) = (i + 1) - n
        /\ (i <= n - 1 <=> i + 1 <= n) /\ (i <= n - 1 => i \in 1 .. n - 1)
    BY <1>1
  <2> QED
    BY <1>1, <1>3, <1>4, <1>5, <2>1
<1>7. a = b
  BY <1>2, <1>6, SeqEqual
<1> QED
  BY <1>7 DEF a, b, u

-----------------------------------------------------------------------------
(* The client takes a message from its queue. *)

\* _process_game_state takes the state to its id, or drops the message.
LEMMA ApplySound ==
    ASSUME NEW v \in Lines, NEW w \in Lines, Sound(v), NEW c, c = v.client, c.queue # <<>>,
           w.local = v.local, w.player = v.player, w.mail = v.mail, w.waiting = v.waiting,
           w.requests = v.requests, w.answers = v.answers, w.missed = v.missed,
           w.client.queue = Tail(c.queue),
           LET m == Head(c.queue)
           IN  IF m.id > c.state_id /\ NewState(c, m) # None
               THEN w.client.state_id = m.id /\ w.client.state = NewState(c, m)
               ELSE w.client.state_id = c.state_id /\ w.client.state = c.state
    PROVE  Sound(w)
<1> DEFINE t == Todo(v)
           rest == Coming(v) \o Kept(v)
           m == Head(c.queue)
           sent == v.player.state_id_sent
<1>1. /\ c.queue \in Seq(States) /\ rest \in Seq(States) /\ t \in Seq(States)
      /\ t = c.queue \o rest /\ c.state_id \in Ids \cup {None} /\ c.state \in Ids \cup {None}
  BY TodoFacts DEF Todo, Lines
<1>2. Coming(w) = Coming(v) /\ Kept(w) = Kept(v) /\ (ForWhole(w) <=> ForWhole(v))
  BY DEF Coming, Kept, ForWhole
<1> HIDE DEF rest
<1>3. t # <<>> /\ t[1] = m /\ m \in States /\ Todo(w) = Tail(t) /\ Tail(t) \in Seq(States)
  <2>1. m = c.queue[1] /\ m \in States /\ Tail(c.queue) \in Seq(States) /\ 1 \in 1 .. Len(c.queue)
    BY <1>1
  <2>2. t # <<>> /\ t[1] = m
    BY <1>1, <2>1, JoinFacts
  <2>3. Tail(c.queue) \o rest = Tail(c.queue \o rest)
    BY <1>1, TailConcat
  <2>4. Todo(w) = Tail(c.queue) \o rest
    BY <1>2 DEF Todo, rest
  <2> QED
    BY <1>1, <2>1, <2>2, <2>3, <2>4, SMTT(30)
<1> HIDE DEF t, m
<1>4. /\ m.id \in Int /\ m.id > None /\ m.basis \in Int /\ None \in Int
      /\ c.state_id \in Int /\ c.state_id >= None /\ sent \in Int
  BY <1>3, StateFacts, LineFacts
<1>5. NewState(c, m) # None <=> m.basis = None \/ (c.state # None /\ c.state_id = m.basis)
  <2>1. m.document # None /\ Garbled # None
    BY <1>3, GameSyncAssumption DEF States, Ids, None, Garbled
  <2> QED
    BY <2>1 DEF NewState
<1>6. /\ Linked(t) => Linked(Tail(t)) /\ (Tail(t) # <<>> => Tail(t)[1].basis \in {None, m.id})
      /\ Rising(c.state_id, t) => Rising(c.state_id, Tail(t)) /\ Rising(m.id, Tail(t))
      /\ HasWhole(t) => m.basis = None \/ HasWhole(Tail(t))
      /\ Within(t, sent) => Within(Tail(t), sent) /\ m.id <= sent
      /\ Tail(t) # <<>> => Last(Tail(t)) = Last(t)
      /\ Tail(t) = <<>> => Last(t) = m
      /\ t \in Seq(States)
  BY <1>1, <1>3, <1>4, TailFacts
<1>7. Newest(w)
  <2>1. /\ v.client.state_id <= sent /\ v.player.confirmed_state_id <= sent /\ Within(t, sent)
        /\ \A r \in v.requests : r.type = "request_updates" => r.state_id <= sent
    BY DEF Sound, Newest, t
  <2>2. w.client.state_id <= sent
    BY <1>6, <2>1 DEF m
  <2> QED
    BY <1>3, <1>6, <2>1, <2>2 DEF Newest
<1>8. w.client.state = None => v.client.state = None /\ w.client.state_id = v.client.state_id
  BY <1>5 DEF m
<1>8a. v.client.state = None => ~v.player.allow_deltas
  BY DEF Sound, Fresh
<1>8b. v.player.allow_deltas => ~ForWhole(v)
  BY <1>8a DEF Sound, Requested
<1>9. Requested(w) /\ Stateless(w)
  <2>1. v.client.state # None => w.client.state # None
    BY <1>8
  <2> QED
    BY <1>2, <1>8, <1>8b, <2>1 DEF Sound, Requested, Stateless
<1>10. Queued(w)
  BY <1>2 DEF Sound, Queued
<1>11. Fresh(w) /\ Leftover(w)
  BY <1>2, <1>8, <1>8a DEF Sound, Fresh, Leftover
<1>12. CASE m.id > c.state_id /\ NewState(c, m) # None
  <2>1. w.client.state_id = m.id /\ w.client.state # None
    BY <1>12 DEF m
  <2>2. Chain(w)
    BY <1>2, <1>3, <1>6, <2>1 DEF Sound, Chain, Follows, t
  <2>3. Complete(w)
    BY <1>3, <1>6, <2>1 DEF Sound, Complete, t
  <2> QED
    BY <1>7, <1>9, <1>10, <1>11, <2>2, <2>3 DEF Sound
<1>13. CASE ~(m.id > c.state_id /\ NewState(c, m) # None)
  <2>1. w.client.state_id = c.state_id /\ w.client.state = c.state
    BY <1>13 DEF m
  <2>2. c.state = None => m.basis # None
    BY <1>4, <1>5, <1>13 DEF Sound, Stateless
  <2>3. c.state # None /\ m.basis \in {None, c.state_id} => m.id <= c.state_id
    BY <1>4, <1>5, <1>13
  <2>4. Chain(w)
    <3> SUFFICES ASSUME ~w.missed \/ ~w.player.allow_deltas \/ ForWhole(w)
                 PROVE  /\ Linked(Todo(w)) /\ Rising(w.client.state_id, Todo(w))
                        /\ w.client.state # None /\ Todo(w) # <<>>
                              => Todo(w)[1].basis \in {None, w.client.state_id}
      BY DEF Chain, Follows
    <3>1. /\ Linked(t) /\ Rising(c.state_id, t)
          /\ c.state # None => m.basis \in {None, c.state_id}
      BY <1>2, <1>3 DEF Sound, Chain, Follows, t
    <3>2. Linked(Todo(w)) /\ Rising(w.client.state_id, Todo(w))
      BY <1>3, <1>6, <2>1, <3>1
    <3>3. ASSUME c.state # None, Tail(t) # <<>> PROVE Tail(t)[1].basis \in {None, c.state_id}
      <4>1. Tail(t)[1].basis \in {None, m.id} /\ m.id <= c.state_id
        BY <1>6, <2>3, <3>1, <3>3
      <4>2. 1 \in 1 .. Len(Tail(t))
        BY <1>3, <3>3, EmptySeq
      <4>3. Tail(t)[1].basis # None => c.state_id <= Tail(t)[1].basis
        BY <1>6, <3>1, <4>2 DEF Rising
      <4>4. CASE Tail(t)[1].basis = m.id /\ m.id # None
        <5>1. c.state_id <= m.id
          BY <4>3, <4>4
        <5>2. c.state_id = m.id
          BY <1>4, <4>1, <5>1
        <5> QED
          BY <4>4, <5>2
      <4> QED
        BY <4>1, <4>4
    <3> QED
      BY <1>1, <1>3, <2>1, <3>2, <3>3
  <2>5. Complete(w)
    <3> SUFFICES ASSUME ~w.missed
                 PROVE  /\ Todo(w) = <<>> => w.player.state_id_sent = w.client.state_id
                        /\ Todo(w) # <<>> => /\ w.player.state_id_sent = Last(Todo(w)).id
                                             /\ w.client.state = None => HasWhole(Todo(w))
      BY DEF Complete
    <3>1. sent = Last(t).id /\ (c.state = None => HasWhole(t))
      BY <1>3 DEF Sound, Complete, t
    <3>2. c.state = None => HasWhole(Tail(t)) /\ Tail(t) # <<>>
      <4>1. c.state = None => HasWhole(Tail(t))
        BY <1>6, <2>2, <3>1
      <4>2. HasWhole(Tail(t)) => Tail(t) # <<>>
        BY DEF HasWhole
      <4> QED
        BY <4>1, <4>2
    <3>3. ASSUME Tail(t) = <<>> PROVE sent = c.state_id
      <4>1. sent = m.id /\ c.state # None
        BY <1>6, <3>1, <3>2, <3>3
      <4>2. c.state_id <= sent
        BY DEF Sound, Newest
      <4>3. m.basis \in {None, c.state_id}
        BY <1>3, <4>1 DEF Sound, Chain, Follows, t
      <4> QED
        BY <1>4, <2>3, <4>1, <4>2, <4>3
    <3> QED
      BY <1>3, <1>6, <2>1, <3>1, <3>2, <3>3
  <2> QED
    BY <1>7, <1>9, <1>10, <1>11, <2>4, <2>5 DEF Sound
<1> QED
  BY <1>12, <1>13

-----------------------------------------------------------------------------
(* Answers. *)

\* One answer.
LEMMA FlattenOne ==
    ASSUME NEW x \in Seq(Message)
    PROVE  FlattenSeq(<<x>>) = x
<1>1. <<>> \in Seq(Seq(Message)) /\ Append(<<>>, x) = <<x>> /\ <<>> \o x = x
  OBVIOUS
<1> QED
  BY <1>1, FlattenEmpty, FlattenAppend

\* A state among the answers is in one of them.
LEMMA FlattenHas ==
    ASSUME NEW s \in Seq(Seq(Message)), GameMessages(FlattenSeq(s)) # <<>>
    PROVE  \E j \in 1 .. Len(s) : HasState(s[j])
<1> DEFINE T == {u \in Seq(Seq(Message)) :
                    GameMessages(FlattenSeq(u)) # <<>> => \E j \in 1 .. Len(u) : HasState(u[j])}
<1>1. <<>> \in T
  <2>1. <<>> \in Seq(Seq(Message))
    OBVIOUS
  <2> QED
    BY <2>1, FlattenEmpty, GameMessagesEmpty
<1>2. ASSUME NEW u \in Seq(Seq(Message)), NEW x \in Seq(Message), u \in T PROVE Append(u, x) \in T
  <2>1. FlattenSeq(Append(u, x)) = FlattenSeq(u) \o x /\ FlattenSeq(u) \in Seq(Message)
    BY FlattenAppend, FlattenType
  <2>2. GameMessages(FlattenSeq(u) \o x) = GameMessages(FlattenSeq(u)) \o GameMessages(x)
    BY <2>1, GameMessagesConcat
  <2>3. /\ GameMessages(FlattenSeq(u)) \in Seq(States) /\ GameMessages(x) \in Seq(States)
        /\ HasState(x) <=> GameMessages(x) # <<>>
    BY <2>1, GameMessagesStates
  <2>4. /\ Append(u, x) \in Seq(Seq(Message)) /\ Len(Append(u, x)) = Len(u) + 1 /\ Len(u) \in Nat
        /\ Append(u, x)[Len(u) + 1] = x /\ \A i \in 1 .. Len(u) : Append(u, x)[i] = u[i]
    OBVIOUS
  <2>5. ASSUME GameMessages(FlattenSeq(Append(u, x))) # <<>>
        PROVE  \E j \in 1 .. Len(u) + 1 : HasState(Append(u, x)[j])
    <3>1. CASE GameMessages(x) # <<>>
      <4>1. HasState(x) /\ Len(u) + 1 \in 1 .. Len(u) + 1 /\ Append(u, x)[Len(u) + 1] = x
        BY <2>3, <2>4, <3>1
      <4> QED
        BY <4>1, Zenon
    <3>2. CASE GameMessages(x) = <<>>
      <4>1. GameMessages(FlattenSeq(u)) # <<>>
        BY <2>1, <2>2, <2>3, <2>5, <3>2, ConcatEmptySeq
      <4>2. PICK j \in 1 .. Len(u) : HasState(u[j])
        BY <1>2, <4>1
      <4>3. j \in 1 .. Len(u) + 1 /\ Append(u, x)[j] = u[j]
        BY <2>4, <4>2
      <4> QED
        BY <4>2, <4>3, Zenon
    <3> QED
      BY <3>1, <3>2
  <2> QED
    BY <2>4, <2>5
<1> HIDE DEF T
<1>3. Seq(Seq(Message)) \subseteq T
  BY <1>1, <1>2, EverySeq
<1> QED
  BY <1>3 DEF T

\* What comes before an answer and after it.
LEMMA SplitAnswers ==
    ASSUME NEW an \in Seq(Seq(Message)), NEW i \in 1 .. Len(an)
    PROVE  /\ RemoveAt(an, i) \in Seq(Seq(Message)) /\ an[i] \in Seq(Message)
           /\ Len(RemoveAt(an, i)) = Len(an) - 1
           /\ GameMessages(an[i]) \in Seq(States)
           /\ HasState(an[i]) <=> GameMessages(an[i]) # <<>>
           /\ \E a, b \in Seq(States) :
                 /\ GameMessages(FlattenSeq(an)) = a \o (GameMessages(an[i]) \o b)
                 /\ GameMessages(FlattenSeq(RemoveAt(an, i))) = a \o b
                 /\ i = 1 => a = <<>>
                 /\ Len(an) = 1 => a = <<>> /\ b = <<>>
                 /\ a # <<>> => \E j \in 1 .. i - 1 : HasState(an[j])
<1> DEFINE L == SubSeq(an, 1, i - 1)
           R == SubSeq(an, i + 1, Len(an))
           x == an[i]
           S == Seq(Message)
           G(s) == GameMessages(FlattenSeq(s))
<1>1. /\ L \in Seq(S) /\ R \in Seq(S) /\ x \in S /\ <<x>> \in Seq(S) /\ Len(an) \in Nat
      /\ Len(L) = i - 1 /\ Len(R) = Len(an) - i /\ \A j \in 1 .. i - 1 : L[j] = an[j]
      /\ \A j \in 1 .. Len(an) - i : R[j] = an[i + j]
  OBVIOUS
<1>2. RemoveAt(an, i) = L \o R
  BY DEF RemoveAt
<1>3. an = L \o (<<x>> \o R)
  <2> DEFINE c == <<x>> \o R
             d == L \o c
  <2>1. /\ c \in Seq(S) /\ Len(c) = 1 + (Len(an) - i) /\ c[1] = x
        /\ \A j \in 2 .. 1 + (Len(an) - i) : c[j] = R[j - 1]
    BY <1>1
  <2>2. \A j \in 1 .. Len(L) + Len(c) : d[j] = IF j <= Len(L) THEN L[j] ELSE c[j - Len(L)]
    BY <1>1, <2>1, ConcatProperties, ZenonT(40)
  <2>3. d \in Seq(S) /\ Len(d) = Len(an)
    <3> HIDE DEF c, L, R, x, S
    <3>1. d \in Seq(S) /\ Len(d) = Len(L) + Len(c)
      BY <1>1, <2>1, ConcatProperties
    <3> QED
      BY <1>1, <2>1, <3>1
  <2> HIDE DEF c, d, L, R, x, S
  <2>4. ASSUME NEW j \in 1 .. Len(an) PROVE d[j] = an[j]
    <3>1. j \in 1 .. Len(L) + Len(c) /\ Len(L) = i - 1
      BY <1>1, <2>1
    <3>2. CASE j <= i - 1
      BY <1>1, <2>2, <3>1, <3>2
    <3>3. CASE j = i
      <4>1. ~(j <= i - 1) /\ j - Len(L) = 1
        BY <3>1, <3>3
      <4> QED
        BY <2>1, <2>2, <3>1, <3>3, <4>1 DEF x
    <3>4. CASE j > i
      <4>1. ~(j <= i - 1) /\ j - Len(L) = j - i + 1 /\ j - i + 1 \in 2 .. 1 + (Len(an) - i)
            /\ (j - i + 1) - 1 = j - i /\ j - i \in 1 .. Len(an) - i /\ i + (j - i) = j
        BY <1>1, <3>1, <3>4
      <4>2. d[j] = c[j - i + 1] /\ c[j - i + 1] = R[j - i] /\ R[j - i] = an[j]
        BY <1>1, <2>1, <2>2, <3>1, <4>1
      <4> QED
        BY <4>2
    <3> QED
      BY <1>1, <3>2, <3>3, <3>4
  <2>5. an \in Seq(S)
    BY DEF S
  <2>6. d = an
    BY <2>3, <2>4, <2>5, SeqEqual
  <2> QED
    BY <2>6 DEF c, d
<1> HIDE DEF L, R, x
<1>4. /\ FlattenSeq(L) \in S /\ FlattenSeq(R) \in S /\ FlattenSeq(<<x>>) = x
      /\ FlattenSeq(L \o R) = FlattenSeq(L) \o FlattenSeq(R)
      /\ FlattenSeq(<<x>> \o R) = x \o FlattenSeq(R) /\ <<x>> \o R \in Seq(S)
  <2>1. FlattenSeq(L) \in S /\ FlattenSeq(R) \in S
    BY <1>1, FlattenType
  <2>2. FlattenSeq(<<x>>) = x
    BY <1>1, FlattenOne
  <2>3. FlattenSeq(L \o R) = FlattenSeq(L) \o FlattenSeq(R)
    BY <1>1, FlattenConcat
  <2>4. FlattenSeq(<<x>> \o R) = FlattenSeq(<<x>>) \o FlattenSeq(R)
    BY <1>1, FlattenConcat
  <2>5. <<x>> \o R \in Seq(S)
    BY <1>1, ConcatProperties
  <2> QED
    BY <2>1, <2>2, <2>3, <2>4, <2>5
<1>5. FlattenSeq(an) = FlattenSeq(L) \o (x \o FlattenSeq(R)) /\ x \o FlattenSeq(R) \in S
  BY <1>1, <1>3, <1>4, FlattenConcat, ConcatProperties
<1>6. /\ G(L) \in Seq(States) /\ G(R) \in Seq(States) /\ GameMessages(x) \in Seq(States)
      /\ HasState(x) <=> GameMessages(x) # <<>>
  BY <1>1, <1>4, GameMessagesStates
<1>7. G(an) = G(L) \o (GameMessages(x) \o G(R)) /\ G(RemoveAt(an, i)) = G(L) \o G(R)
  <2>1. GameMessages(x \o FlattenSeq(R)) = GameMessages(x) \o G(R)
    BY <1>1, <1>4, GameMessagesConcat
  <2>2. GameMessages(FlattenSeq(L) \o (x \o FlattenSeq(R)))
           = G(L) \o GameMessages(x \o FlattenSeq(R))
    BY <1>4, <1>5, GameMessagesConcat
  <2>3. GameMessages(FlattenSeq(L) \o FlattenSeq(R)) = G(L) \o G(R)
    BY <1>4, GameMessagesConcat
  <2> QED
    BY <1>2, <1>4, <1>5, <2>1, <2>2, <2>3
<1>8. i = 1 => G(L) = <<>>
  <2>1. i = 1 => L = <<>>
    BY <1>1, EmptySeq
  <2> QED
    BY <2>1, FlattenEmpty, GameMessagesEmpty
<1>9. Len(an) = 1 => G(L) = <<>> /\ G(R) = <<>>
  <2>1. Len(an) = 1 => i = 1 /\ R = <<>>
    BY <1>1, EmptySeq
  <2> QED
    BY <1>8, <2>1, FlattenEmpty, GameMessagesEmpty
<1>10. G(L) # <<>> => \E j \in 1 .. i - 1 : HasState(an[j])
  <2> SUFFICES ASSUME G(L) # <<>> PROVE \E j \in 1 .. i - 1 : HasState(an[j])
    OBVIOUS
  <2>1. PICK j \in 1 .. Len(L) : HasState(L[j])
    BY <1>1, FlattenHas
  <2>2. j \in 1 .. i - 1 /\ L[j] = an[j]
    BY <1>1, <2>1
  <2> QED
    BY <2>1, <2>2, Zenon
<1>11. RemoveAt(an, i) \in Seq(S) /\ Len(RemoveAt(an, i)) = Len(an) - 1
  <2>1. L \o R \in Seq(S) /\ Len(L \o R) = Len(L) + Len(R)
    BY <1>1, ConcatProperties
  <2> QED
    BY <1>1, <1>2, <2>1
<1> HIDE DEF G, S
<1>12. \E a, b \in Seq(States) :
                 /\ G(an) = a \o (GameMessages(x) \o b)
                 /\ G(RemoveAt(an, i)) = a \o b
                 /\ i = 1 => a = <<>>
                 /\ Len(an) = 1 => a = <<>> /\ b = <<>>
                 /\ a # <<>> => \E j \in 1 .. i - 1 : HasState(an[j])
  BY <1>6, <1>7, <1>8, <1>9, <1>10
<1> QED
  BY <1>1, <1>6, <1>11, <1>12 DEF G, x, S

-----------------------------------------------------------------------------
(* The client receives an answer, or an answer is lost. *)

\* Concatenation is associative.
LEMMA StatesJoin == \A s, t, u \in Seq(States) : (s \o t) \o u = s \o (t \o u)
BY ConcatAssociative

\* The answers without one of them.
LEMMA AnswerTaken ==
    ASSUME NEW v \in Lines, NEW w \in Lines, NEW i \in 1 .. Len(v.answers),
           w.answers = RemoveAt(v.answers, i)
    PROVE  LET g == GameMessages(v.answers[i])
           IN
           /\ g \in Seq(States) /\ (HasState(v.answers[i]) <=> g # <<>>)
           /\ Len(v.answers) \in Nat /\ v.answers # <<>>
           /\ \E a, b \in Seq(States) :
                 /\ Coming(v) = a \o (g \o b) /\ Coming(w) = a \o b
                 /\ i = 1 => a = <<>>
                 /\ Len(v.answers) = 1 => a = <<>> /\ b = <<>>
                 /\ a # <<>> => \E j \in 1 .. i - 1 : HasState(v.answers[j])
<1> DEFINE an == v.answers
           g  == GameMessages(an[i])
<1>1. an \in Seq(Seq(Message))
  BY DEF Lines
<1>2. Len(an) \in Nat /\ an # <<>>
  BY <1>1
<1>3. /\ GameMessages(FlattenSeq(an)) = Coming(v)
      /\ GameMessages(FlattenSeq(RemoveAt(an, i))) = Coming(w)
  BY DEF Coming
<1> HIDE DEF an
<1>4. i \in 1 .. Len(an)
  BY DEF an
<1>5. /\ GameMessages(an[i]) \in Seq(States)
      /\ HasState(an[i]) <=> GameMessages(an[i]) # <<>>
      /\ \E a, b \in Seq(States) :
                 /\ GameMessages(FlattenSeq(an)) = a \o (GameMessages(an[i]) \o b)
                 /\ GameMessages(FlattenSeq(RemoveAt(an, i))) = a \o b
                 /\ i = 1 => a = <<>>
                 /\ Len(an) = 1 => a = <<>> /\ b = <<>>
                 /\ a # <<>> => \E j \in 1 .. i - 1 : HasState(an[j])
  BY <1>1, <1>4, SplitAnswers
<1>6. \E a, b \in Seq(States) :
                 /\ Coming(v) = a \o (g \o b) /\ Coming(w) = a \o b
                 /\ i = 1 => a = <<>>
                 /\ Len(an) = 1 => a = <<>> /\ b = <<>>
                 /\ a # <<>> => \E j \in 1 .. i - 1 : HasState(an[j])
  BY <1>3, <1>5, Zenon
<1> QED
  BY <1>2, <1>4, <1>5, <1>6, Zenon DEF an

\* What is to come without one of the answers, or with it at the end of the queue.
LEMMA TodoTaken ==
    ASSUME NEW v \in Lines, NEW w \in Lines, NEW i \in 1 .. Len(v.answers),
           w.answers = RemoveAt(v.answers, i)
    PROVE  LET q == v.client.queue
               k == Kept(v)
               n == v.player.state_id_sent
               y == Coming(v)
               z == Coming(w)
               g == GameMessages(v.answers[i])
           IN
           /\ g \in Seq(States) /\ (HasState(v.answers[i]) <=> g # <<>>)
           /\ Len(v.answers) \in Nat /\ v.answers # <<>>
           /\ y \o k \in Seq(States) /\ z \o k \in Seq(States) /\ g \o (z \o k) \in Seq(States)
           /\ (q \o g) \o (z \o k) = q \o (g \o (z \o k))
           /\ g = <<>> => q \o (z \o k) = q \o (y \o k)
           /\ Within(q \o (y \o k), n) => Within((q \o g) \o (z \o k), n) /\ Within(q \o (z \o k), n)
           /\ Whole(y) => Whole(g) /\ Whole(z)
           /\ Whole(y) /\ Whole(k) => Whole(z \o k) /\ Whole(g \o (z \o k))
           /\ Len(v.answers) = 1 => z = <<>> /\ Whole(z)
           /\ \/ (q \o g) \o (z \o k) = q \o (y \o k)
              \/ /\ Len(v.answers) # 1 /\ i # 1 /\ g # <<>>
                 /\ \E j \in 1 .. i - 1 : HasState(v.answers[j])
<1> DEFINE q == v.client.queue
           k == Kept(v)
           n == v.player.state_id_sent
           y == Coming(v)
           z == Coming(w)
           g == GameMessages(v.answers[i])
<1>0. q \in Seq(States) /\ k \in Seq(States) /\ n \in Int
  BY TodoFacts, LineFacts
<1>1. /\ g \in Seq(States) /\ (HasState(v.answers[i]) <=> g # <<>>)
      /\ Len(v.answers) \in Nat /\ v.answers # <<>>
  BY AnswerTaken
<1>2. PICK a \in Seq(States), b \in Seq(States) :
         /\ y = a \o (g \o b) /\ z = a \o b
         /\ i = 1 => a = <<>>
         /\ Len(v.answers) = 1 => a = <<>> /\ b = <<>>
         /\ a # <<>> => \E j \in 1 .. i - 1 : HasState(v.answers[j])
  BY AnswerTaken
<1> HIDE DEF q, k, n, y, z, g
<1>3. /\ y \in Seq(States) /\ z \in Seq(States)
      /\ y \o k \in Seq(States) /\ z \o k \in Seq(States) /\ g \o (z \o k) \in Seq(States)
      /\ (q \o g) \o (z \o k) = q \o (g \o (z \o k))
      /\ a = <<>> \/ g = <<>> => (q \o g) \o (z \o k) = q \o (y \o k)
      /\ g = <<>> => q \o (z \o k) = q \o (y \o k)
      /\ Within(q \o (y \o k), n) => Within((q \o g) \o (z \o k), n) /\ Within(q \o (z \o k), n)
      /\ Whole(y) => Whole(g) /\ Whole(z)
  <2> USE <1>0, <1>1
  <2> DEFINE x == g \o b
             zk == z \o k
             yk == y \o k
             qg == q \o g
  <2>1. x \in Seq(States) /\ z \in Seq(States) /\ qg \in Seq(States) /\ b \o k \in Seq(States)
    BY <1>1, <1>2, ConcatProperties
  <2>2. y = a \o x /\ z = a \o b /\ z \in Seq(States)
    BY <1>2, ConcatProperties
  <2> HIDE DEF x, qg
  <2>3. y \in Seq(States) /\ zk \in Seq(States)
    BY <2>1, <2>2, ConcatProperties
  <2>4. yk \in Seq(States)
    BY <2>3, ConcatProperties
  <2> HIDE DEF yk, zk
  <2>5. g \o zk \in Seq(States)
    BY <2>3, ConcatProperties
  <2>6. qg \o zk = q \o (g \o zk)
    <3>1. q \in Seq(States) /\ g \in Seq(States) /\ zk \in Seq(States)
      BY <2>3
    <3>2. (q \o g) \o zk = q \o (g \o zk)
      BY <3>1, StatesJoin, ZenonT(40)
    <3> QED
      BY <3>2 DEF qg
  <2>7. a = <<>> => qg \o zk = q \o yk
    <3>1. a = <<>> => y = x /\ z = b
      BY <2>1, <2>2, ConcatEmptySeq
    <3>2. x \o k = g \o (b \o k)
      <4>1. k \in Seq(States) /\ g \in Seq(States) /\ b \in Seq(States)
        BY <1>2
      <4>2. (g \o b) \o k = g \o (b \o k)
        BY <4>1, StatesJoin, ZenonT(40)
      <4> QED
        BY <4>2 DEF x
    <3> QED
      BY <2>6, <3>1, <3>2 DEF yk, zk
  <2>8. g = <<>> => qg \o zk = q \o yk /\ q \o zk = q \o yk
    <3>1. g = <<>> => x = b /\ qg = q
      BY ConcatEmptySeq DEF x, qg
    <3> QED
      BY <2>2, <3>1 DEF yk, zk
  <2>9. Within(q \o yk, n) => Within(qg \o zk, n) /\ Within(q \o zk, n)
    <3>1. Within(q \o yk, n) <=> Within(q, n) /\ Within(yk, n)
      BY <2>4, WholeJoin
    <3>2. Within(yk, n) <=> Within(y, n) /\ Within(k, n)
      BY <2>3, WholeJoin DEF yk
    <3>3. Within(y, n) <=> Within(a, n) /\ Within(x, n)
      BY <2>1, <2>2, WholeJoin
    <3>4. Within(x, n) <=> Within(g, n) /\ Within(b, n)
      BY WholeJoin DEF x
    <3>5. Within(zk, n) <=> Within(z, n) /\ Within(k, n)
      BY <2>1, WholeJoin DEF zk
    <3>6. Within(z, n) <=> Within(a, n) /\ Within(b, n)
      BY <2>2, WholeJoin
    <3>7. Within(qg, n) <=> Within(q, n) /\ Within(g, n)
      BY WholeJoin DEF qg
    <3>8. Within(qg \o zk, n) <=> Within(qg, n) /\ Within(zk, n)
      BY <2>1, <2>3, WholeJoin
    <3>9. Within(q \o zk, n) <=> Within(q, n) /\ Within(zk, n)
      BY <2>3, WholeJoin
    <3> QED
      BY <3>1, <3>2, <3>3, <3>4, <3>5, <3>6, <3>7, <3>8, <3>9
  <2>10. Whole(y) => Whole(g) /\ Whole(z)
    <3>1. Whole(y) <=> Whole(a) /\ Whole(x)
      BY <2>1, <2>2, WholeJoin
    <3>2. Whole(x) <=> Whole(g) /\ Whole(b)
      BY WholeJoin DEF x
    <3>3. Whole(z) <=> Whole(a) /\ Whole(b)
      BY <2>2, WholeJoin
    <3> QED
      BY <3>1, <3>2, <3>3
  <2> QED
    BY <2>1, <2>3, <2>4, <2>5, <2>6, <2>7, <2>8, <2>9, <2>10 DEF yk, zk, qg
<1>4. Whole(y) /\ Whole(k) => Whole(z \o k) /\ Whole(g \o (z \o k))
  <2> DEFINE zk == z \o k
  <2>1. Whole(zk) <=> Whole(z) /\ Whole(k)
    BY <1>0, <1>3, WholeJoin
  <2>2. zk \in Seq(States)
    BY <1>3
  <2> HIDE DEF zk
  <2>3. Whole(g \o zk) <=> Whole(g) /\ Whole(zk)
    BY <1>1, <2>2, WholeJoin
  <2> QED
    BY <1>3, <2>1, <2>3 DEF zk
<1>5. Len(v.answers) = 1 => a = <<>> /\ z = <<>> /\ Whole(z)
  <2>1. Len(v.answers) = 1 => z = <<>>
    BY <1>2, ConcatEmptySeq
  <2> QED
    BY <1>2, <2>1 DEF Whole
<1>6. \/ (q \o g) \o (z \o k) = q \o (y \o k)
      \/ /\ Len(v.answers) # 1 /\ i # 1 /\ g # <<>>
         /\ \E j \in 1 .. i - 1 : HasState(v.answers[j])
  BY <1>2, <1>3, Zenon
<1> QED
  BY <1>1, <1>3, <1>4, <1>5, <1>6, Zenon DEF q, k, n, y, z, g

\* An answer is received.
LEMMA ReceiveSound ==
    ASSUME NEW v \in Lines, NEW w \in Lines, Sound(v), NEW i \in 1 .. Len(v.answers),
           v.local => i = 1,
           w.local = v.local, w.player = v.player, w.mail = v.mail, w.waiting = v.waiting,
           w.requests = v.requests,
           w.client.state_id = v.client.state_id, w.client.state = v.client.state,
           w.client.queue = v.client.queue \o GameMessages(v.answers[i]),
           w.answers = RemoveAt(v.answers, i),
           w.missed = (v.missed \/ (/\ HasState(v.answers[i])
                                    /\ \E j \in 1 .. i - 1 : HasState(v.answers[j])))
    PROVE  Sound(w)
<1> DEFINE q == v.client.queue
           k == Kept(v)
           y == Coming(v)
           z == Coming(w)
           g == GameMessages(v.answers[i])
           sent == v.player.state_id_sent
<1>1. q \in Seq(States) /\ k \in Seq(States) /\ sent \in Int /\ v.client.state_id \in Int
  BY TodoFacts, LineFacts
<1>2. Kept(w) = k /\ (ForWhole(w) <=> ForWhole(v))
  BY DEF Kept, ForWhole
<1>3. Todo(v) = q \o (y \o k) /\ Todo(w) = (q \o g) \o (z \o k)
  BY <1>2 DEF Todo
<1> HIDE DEF q, k, sent
<1>4. /\ g \in Seq(States) /\ (HasState(v.answers[i]) <=> g # <<>>)
      /\ v.answers # <<>>
      /\ y \o k \in Seq(States) /\ g \o (z \o k) \in Seq(States)
      /\ (q \o g) \o (z \o k) = q \o (g \o (z \o k))
      /\ Within(q \o (y \o k), sent) => Within((q \o g) \o (z \o k), sent)
      /\ Whole(y) => Whole(z)
      /\ Whole(y) /\ Whole(k) => Whole(g \o (z \o k))
      /\ Len(v.answers) = 1 => Whole(z)
      /\ \/ (q \o g) \o (z \o k) = q \o (y \o k)
         \/ /\ Len(v.answers) # 1 /\ i # 1 /\ g # <<>>
            /\ \E j \in 1 .. i - 1 : HasState(v.answers[j])
  BY TodoTaken, ZenonT(40) DEF q, k, sent
<1>5. \/ Todo(w) = Todo(v)
      \/ Len(v.answers) # 1 /\ w.missed /\ ~v.local
  <2>1. CASE (q \o g) \o (z \o k) = q \o (y \o k)
    BY <1>3, <2>1
  <2>2. CASE /\ Len(v.answers) # 1 /\ i # 1 /\ g # <<>>
             /\ \E j \in 1 .. i - 1 : HasState(v.answers[j])
    BY <1>4, <2>2, Zenon
  <2> QED
    BY <1>4, <2>1, <2>2, Zenon
<1>6. v.missed => w.missed
  OBVIOUS
<1>7. Newest(w)
  <2>1. /\ v.client.state_id <= sent /\ v.player.confirmed_state_id <= sent /\ Within(Todo(v), sent)
        /\ \A r \in v.requests : r.type = "request_updates" => r.state_id <= sent
    BY DEF Sound, Newest, sent
  <2>2. Within(Todo(w), sent)
    BY <1>3, <1>4, <2>1, Zenon
  <2> QED
    BY <2>1, <2>2 DEF Newest, sent
<1>8. Requested(w) /\ Stateless(w)
  BY <1>2 DEF Sound, Requested, Stateless
<1>9. Queued(w)
  <2>1. v.local => ~w.missed
    <3>1. v.local => ~v.missed
      BY DEF Sound, Queued
    <3>2. v.local => ~ \E j \in 1 .. i - 1 : HasState(v.answers[j])
      OBVIOUS
    <3> QED
      BY <3>1, <3>2, Zenon
  <2> QED
    BY <1>2, <2>1 DEF Sound, Queued, k
<1>10. Fresh(w)
  BY <1>4 DEF Sound, Fresh
<1>11. ~v.player.allow_deltas => Whole(z) /\ (Len(v.answers) # 1 => Whole(y))
  BY <1>4 DEF Sound, Leftover
<1>12. Leftover(w)
  BY <1>11 DEF Leftover
<1>13. Chain(w)
  <2> SUFFICES ASSUME ~w.missed \/ ~v.player.allow_deltas \/ ForWhole(v)
               PROVE  Follows(v.client, Todo(w))
    BY <1>2 DEF Chain, Follows
  <2>1. Follows(v.client, Todo(v))
    BY <1>6 DEF Sound, Chain
  <2>2. CASE Todo(w) = Todo(v)
    BY <2>1, <2>2
  <2>3. CASE Len(v.answers) # 1 /\ w.missed
    <3>1. ~v.player.allow_deltas
      BY <1>4, <2>3 DEF Sound, Requested, Fresh
    <3>2. Whole(y) /\ Whole(k)
      BY <1>11, <2>3, <3>1 DEF Sound, Queued, k
    <3>3. Follows(v.client, q \o (g \o (z \o k)))
      <4> HIDE DEF y, z, g
      <4> DEFINE yk == y \o k
                 zk == g \o (z \o k)
      <4>1. yk \in Seq(States) /\ zk \in Seq(States) /\ Whole(zk) /\ Follows(v.client, q \o yk)
        BY <1>3, <1>4, <2>1, <3>2
      <4> HIDE DEF yk, zk
      <4>2. Follows(v.client, q \o zk)
        BY <1>1, <4>1, FollowsWhole
      <4> QED
        BY <4>2 DEF zk
    <3> QED
      BY <1>3, <1>4, <3>3
  <2> QED
    BY <1>5, <2>2, <2>3
<1>14. Complete(w)
  <2> SUFFICES ASSUME ~w.missed PROVE Complete(w)
    BY DEF Complete
  <2>1. Todo(w) = Todo(v) /\ ~v.missed
    BY <1>5, <1>6
  <2> QED
    BY <2>1 DEF Sound, Complete
<1> QED
  BY <1>7, <1>8, <1>9, <1>10, <1>12, <1>13, <1>14 DEF Sound

\* An answer is lost.
LEMMA LoseAnswerSound ==
    ASSUME NEW v \in Lines, NEW w \in Lines, Sound(v), NEW i \in 1 .. Len(v.answers), ~v.local,
           w.local = v.local, w.player = v.player, w.mail = v.mail, w.waiting = v.waiting,
           w.requests = v.requests, w.client = v.client,
           w.answers = RemoveAt(v.answers, i),
           w.missed = (v.missed \/ HasState(v.answers[i]))
    PROVE  Sound(w)
<1> DEFINE q == v.client.queue
           k == Kept(v)
           y == Coming(v)
           z == Coming(w)
           g == GameMessages(v.answers[i])
           sent == v.player.state_id_sent
<1>1. q \in Seq(States) /\ k \in Seq(States) /\ sent \in Int /\ v.client.state_id \in Int
  BY TodoFacts, LineFacts
<1>2. Kept(w) = k /\ (ForWhole(w) <=> ForWhole(v))
  BY DEF Kept, ForWhole
<1>3. Todo(v) = q \o (y \o k) /\ Todo(w) = q \o (z \o k)
  BY <1>2 DEF Todo
<1> HIDE DEF q, k, sent
<1>4. /\ (HasState(v.answers[i]) <=> g # <<>>)
      /\ v.answers # <<>>
      /\ y \o k \in Seq(States) /\ z \o k \in Seq(States)
      /\ g = <<>> => q \o (z \o k) = q \o (y \o k)
      /\ Within(q \o (y \o k), sent) => Within(q \o (z \o k), sent)
      /\ Whole(y) => Whole(z)
      /\ Whole(y) /\ Whole(k) => Whole(z \o k)
      /\ Len(v.answers) = 1 => z = <<>> /\ Whole(z)
  BY TodoTaken, ZenonT(40) DEF q, k, sent
<1>5. (w.missed \/ Todo(w) = Todo(v)) /\ (v.missed => w.missed)
  BY <1>3, <1>4
<1>6. Newest(w)
  <2>1. /\ v.client.state_id <= sent /\ v.player.confirmed_state_id <= sent /\ Within(Todo(v), sent)
        /\ \A r \in v.requests : r.type = "request_updates" => r.state_id <= sent
    BY DEF Sound, Newest, sent
  <2>2. Within(Todo(w), sent)
    BY <1>3, <1>4, <2>1, Zenon
  <2> QED
    BY <2>1, <2>2 DEF Newest, sent
<1>7. Requested(w) /\ Stateless(w)
  BY <1>2 DEF Sound, Requested, Stateless
<1>8. Queued(w) /\ Fresh(w)
  BY <1>2, <1>4 DEF Sound, Queued, Fresh, k
<1>9. ~v.player.allow_deltas => Whole(z)
  BY <1>4 DEF Sound, Leftover
<1>10. Leftover(w)
  BY <1>9 DEF Leftover
<1>11. Chain(w)
  <2> SUFFICES ASSUME ~w.missed \/ ~v.player.allow_deltas \/ ForWhole(v)
               PROVE  Follows(v.client, Todo(w))
    BY <1>2 DEF Chain
  <2>1. Follows(v.client, Todo(v))
    BY <1>5 DEF Sound, Chain
  <2>2. CASE Todo(w) = Todo(v)
    BY <2>1, <2>2
  <2>3. CASE Todo(w) # Todo(v)
    <3>1. ~v.player.allow_deltas
      BY <1>4, <1>5, <2>3 DEF Sound, Requested, Fresh
    <3>2. Whole(z \o k)
      <4>1. Whole(z) /\ Whole(k)
        BY <1>9, <3>1 DEF Sound, Queued, k
      <4>2. z \in Seq(States)
        BY TodoFacts
      <4> HIDE DEF y, z, g
      <4>3. Whole(z \o k)
        BY <1>1, <4>1, <4>2, WholeJoin
      <4> QED
        BY <4>3
    <3> HIDE DEF y, z, g
    <3> DEFINE yk == y \o k
               zk == z \o k
    <3>3. yk \in Seq(States) /\ zk \in Seq(States) /\ Whole(zk) /\ Follows(v.client, q \o yk)
      BY <1>3, <1>4, <2>1, <3>2
    <3> HIDE DEF yk, zk
    <3>4. Follows(v.client, q \o zk)
      BY <1>1, <3>3, FollowsWhole
    <3> QED
      BY <1>3, <3>4 DEF zk
  <2> QED
    BY <2>2, <2>3
<1>12. Complete(w)
  <2> SUFFICES ASSUME ~w.missed PROVE Complete(w)
    BY DEF Complete
  <2>1. Todo(w) = Todo(v) /\ ~v.missed
    BY <1>5
  <2> QED
    BY <2>1 DEF Sound, Complete
<1> QED
  BY <1>6, <1>7, <1>8, <1>10, <1>11, <1>12 DEF Sound

\* What is to come is in the queue, in an answer or in the mail.
LEMMA TodoParts ==
    ASSUME NEW v \in Lines, NEW n \in Int
    PROVE  Within(Todo(v), n) <=>
              Within(v.client.queue, n) /\ Within(Coming(v), n) /\ Within(Kept(v), n)
<1>1. /\ v.client.queue \in Seq(States) /\ Coming(v) \in Seq(States) /\ Kept(v) \in Seq(States)
      /\ Coming(v) \o Kept(v) \in Seq(States)
  BY TodoFacts
<1>2. Within(Coming(v) \o Kept(v), n) <=> Within(Coming(v), n) /\ Within(Kept(v), n)
  BY <1>1, WholeJoin
<1> QED
  BY <1>1, <1>2, WholeJoin DEF Todo

-----------------------------------------------------------------------------
(* Requests and waiting. *)

\* A request is lost.
LEMMA LoseRequestSound ==
    ASSUME NEW v \in Lines, NEW w \in Lines, Sound(v),
           w.local = v.local, w.player = v.player, w.client = v.client, w.mail = v.mail,
           w.waiting = v.waiting, w.answers = v.answers, w.missed = v.missed,
           w.requests \subseteq v.requests
    PROVE  Sound(w)
<1>1. Coming(w) = Coming(v) /\ Kept(w) = Kept(v) /\ Todo(w) = Todo(v)
  BY DEF Coming, Kept, Todo
<1>2. ForWhole(w) => ForWhole(v)
  BY DEF ForWhole
<1>3. Newest(w)
  BY <1>1 DEF Sound, Newest
<1>4. Requested(w) /\ Stateless(w)
  <2>1. IsFiniteSet(w.requests)
    BY FS_Subset DEF Sound, Requested
  <2> QED
    BY <1>2, <2>1 DEF Sound, Requested, Stateless
<1>5. Queued(w) /\ Fresh(w)
  BY <1>1 DEF Sound, Queued, Fresh
<1>6. Leftover(w)
  BY <1>1 DEF Sound, Leftover
<1>7. Chain(w) /\ Complete(w)
  BY <1>1, <1>2 DEF Sound, Chain, Complete
<1> QED
  BY <1>3, <1>4, <1>5, <1>6, <1>7 DEF Sound

\* The client that waits is gone.
LEMMA LoseWaitSound ==
    ASSUME NEW v \in Lines, NEW w \in Lines, Sound(v), v.waiting = "live", w.waiting = "dead",
           w.local = v.local, w.player = v.player, w.client = v.client, w.mail = v.mail,
           w.requests = v.requests, w.answers = v.answers, w.missed = v.missed
    PROVE  Sound(w)
<1>1. Coming(w) = Coming(v) /\ Kept(w) = Kept(v) /\ Todo(w) = Todo(v) /\ (ForWhole(w) <=> ForWhole(v))
  BY DEF Coming, Kept, Todo, ForWhole
<1>2. Newest(w) /\ Requested(w) /\ Stateless(w)
  BY <1>1 DEF Sound, Newest, Requested, Stateless
<1>3. Queued(w) /\ Fresh(w) /\ Leftover(w)
  BY <1>1 DEF Sound, Queued, Fresh, Leftover
<1>4. Chain(w) /\ Complete(w)
  BY <1>1 DEF Sound, Chain, Complete
<1> QED
  BY <1>2, <1>3, <1>4 DEF Sound

\* The clock answers a request that has waited.
LEMMA HeartbeatSound ==
    ASSUME NEW v \in Lines, NEW w \in Lines, Sound(v), v.waiting # "no", w.waiting = "no",
           w.local = v.local, w.player = v.player, w.client = v.client, w.mail = v.mail,
           w.requests = v.requests, w.missed = v.missed,
           w.answers = IF v.waiting = "live" THEN Append(v.answers, <<>>) ELSE v.answers
    PROVE  Sound(w)
<1>1. Coming(w) = Coming(v)
  <2>1. v.answers \in Seq(Seq(Message))
    BY DEF Lines
  <2>2. <<>> \in Seq(Message)
    OBVIOUS
  <2>3. FlattenSeq(Append(v.answers, <<>>)) = FlattenSeq(v.answers) \o <<>>
        /\ FlattenSeq(v.answers) \in Seq(Message)
    BY <2>1, <2>2, FlattenAppend, FlattenType
  <2>4. FlattenSeq(v.answers) \o <<>> = FlattenSeq(v.answers)
    BY <2>3, ConcatEmptySeq
  <2> QED
    BY <2>3, <2>4 DEF Coming
<1>2. Kept(w) = Kept(v) /\ Todo(w) = Todo(v) /\ (ForWhole(w) <=> ForWhole(v))
  BY <1>1 DEF Kept, Todo, ForWhole
<1>3. Newest(w) /\ Requested(w) /\ Stateless(w)
  BY <1>2 DEF Sound, Newest, Requested, Stateless
<1>4. Queued(w) /\ Fresh(w) /\ Leftover(w)
  BY <1>1, <1>2 DEF Sound, Queued, Fresh, Leftover
<1>5. Chain(w) /\ Complete(w)
  BY <1>2 DEF Sound, Chain, Complete
<1> QED
  BY <1>3, <1>4, <1>5 DEF Sound

\* A client that was sent nothing but the mail.
LEMMA OnlyMail ==
    ASSUME NEW v \in Lines, v.client.queue = <<>>, v.answers = <<>>
    PROVE  Todo(v) = Kept(v) /\ Coming(v) = <<>>
<1>1. Coming(v) = <<>>
  BY FlattenEmpty, GameMessagesEmpty DEF Coming
<1>2. Kept(v) \in Seq(States)
  BY TodoFacts
<1> QED
  BY <1>1, <1>2, ConcatEmptySeq DEF Todo

\* A new client and the old session.
LEMMA RestartSound ==
    ASSUME NEW v \in Lines, NEW w \in Lines, Sound(v), ~v.local, v.requests = {},
           w.local = v.local, w.player = v.player, w.mail = v.mail, w.requests = v.requests,
           w.client = NewClient, w.answers = <<>>, w.missed,
           w.waiting = IF v.waiting = "live" THEN "dead" ELSE v.waiting
    PROVE  Sound(w)
<1>1. /\ Kept(w) = Kept(v) /\ Todo(w) = Kept(v) /\ Coming(w) = <<>> /\ ~ForWhole(w)
      /\ w.client.state_id = None /\ w.client.state = None /\ w.client.queue = <<>>
  BY OnlyMail DEF Kept, NewClient, ForWhole
<1>2. Newest(w)
  <2>1. Within(Todo(v), v.player.state_id_sent) => Within(Kept(v), v.player.state_id_sent)
    BY LineFacts, TodoParts
  <2> QED
    BY <1>1, <2>1, LineFacts DEF Sound, Newest
<1>3. Requested(w) /\ Stateless(w)
  BY <1>1 DEF Sound, Requested, Stateless
<1>4. Queued(w) /\ Fresh(w)
  BY <1>1 DEF Sound, Queued, Fresh
<1>5. Leftover(w)
  <2>1. Len(<<>>) = 0
    OBVIOUS
  <2> QED
    BY <1>1, <2>1 DEF Leftover, Whole
<1>6. Chain(w)
  BY <1>1 DEF Sound, Queued, Chain, Follows
<1>7. Complete(w)
  BY DEF Complete
<1> QED
  BY <1>2, <1>3, <1>4, <1>5, <1>6, <1>7 DEF Sound

\* The player acts.
LEMMA ActSound ==
    ASSUME NEW v \in Lines, NEW w \in Lines, Sound(v), NEW r \in Request,
           r.type # "request_updates",
           r.type = "start_game" => v.player.state_id_sent = None,
           r.type \in {"move", "restore_state"} => v.client.state # None,
           w.local = v.local, w.player = v.player, w.client = v.client, w.mail = v.mail,
           w.waiting = v.waiting, w.answers = v.answers, w.missed = v.missed,
           w.requests = v.requests \cup {r}
    PROVE  Sound(w)
<1>1. Coming(w) = Coming(v) /\ Kept(w) = Kept(v) /\ Todo(w) = Todo(v)
  BY DEF Coming, Kept, Todo
<1>2. ForWhole(w) <=> ForWhole(v)
  BY DEF ForWhole
<1>3. r.type \in {"start_game", "move", "restore_state"}
  BY DEF Request
<1>4. Newest(w)
  BY <1>1 DEF Sound, Newest
<1>5. Requested(w) /\ Stateless(w)
  <2>1. IsFiniteSet(w.requests)
    BY FS_AddElement DEF Sound, Requested
  <2> QED
    BY <1>2, <2>1 DEF Sound, Requested, Stateless
<1>6. Queued(w)
  BY <1>1 DEF Sound, Queued
<1>7. Fresh(w)
  <2>1. ~(v.player.allow_deltas /\ v.client.state = None)
    BY <1>3 DEF Sound, Stateless
  <2> QED
    BY <2>1 DEF Fresh
<1>8. Leftover(w)
  <2>1. v.player.allow_deltas \/ Whole(Coming(v))
    BY <1>3 DEF Sound, Leftover
  <2> QED
    BY <1>1, <2>1 DEF Leftover
<1>9. Chain(w) /\ Complete(w)
  BY <1>1, <1>2 DEF Sound, Chain, Complete
<1> QED
  BY <1>4, <1>5, <1>6, <1>7, <1>8, <1>9 DEF Sound

\* The client asks for updates.
LEMMA PollSound ==
    ASSUME NEW v \in Lines, NEW w \in Lines, Sound(v), NEW r \in Request,
           v.requests = {}, ~v.local => v.answers = <<>> /\ v.waiting # "live",
           r.type = "request_updates", r.allow_deltas = (v.client.state # None),
           \/ r.state_id = v.client.state_id
           \/ \E i \in 1 .. Len(v.client.queue) : r.state_id = v.client.queue[i].id,
           w.local = v.local, w.player = v.player, w.client = v.client, w.mail = v.mail,
           w.waiting = v.waiting, w.answers = v.answers, w.missed = v.missed,
           w.requests = {r}
    PROVE  Sound(w)
<1>1. Coming(w) = Coming(v) /\ Kept(w) = Kept(v) /\ Todo(w) = Todo(v)
  BY DEF Coming, Kept, Todo
<1>2. ForWhole(w) <=> v.client.state = None
  BY DEF ForWhole
<1>3. Newest(w)
  <2>1. r.state_id <= v.player.state_id_sent
    <3>1. Within(Todo(v), v.player.state_id_sent) => Within(v.client.queue, v.player.state_id_sent)
      BY LineFacts, TodoParts
    <3> QED
      BY <3>1 DEF Sound, Newest, Within
  <2> QED
    BY <1>1, <2>1 DEF Sound, Newest
<1>4. Requested(w) /\ Stateless(w)
  <2>1. IsFiniteSet(w.requests)
    BY FS_Singleton
  <2> QED
    BY <1>2, <2>1 DEF Sound, Requested, Stateless
<1>5. Queued(w) /\ Fresh(w)
  BY <1>1 DEF Sound, Queued, Fresh
<1>6. Leftover(w)
  <2>1. Len(<<>>) # 1
    OBVIOUS
  <2>2. v.player.allow_deltas \/ Whole(Coming(v))
    BY <2>1 DEF Sound, Leftover
  <2> QED
    BY <1>1, <2>2 DEF Leftover
<1>7. Chain(w)
  <2>1. CASE ~v.missed \/ ~v.player.allow_deltas
    BY <1>1, <2>1 DEF Sound, Chain
  <2>2. CASE v.player.allow_deltas /\ v.client.state = None
    <3>1. v.client.queue = <<>> /\ v.answers = <<>> /\ v.client.state_id = None
      BY <2>2 DEF Sound, Fresh, Stateless
    <3>2. Todo(v) = Kept(v)
      BY <3>1, OnlyMail
    <3> QED
      BY <1>1, <2>2, <3>1, <3>2 DEF Sound, Queued, Chain, Follows
  <2>3. CASE v.missed /\ v.player.allow_deltas /\ v.client.state # None
    BY <1>2, <2>3 DEF Chain
  <2> QED
    BY <2>1, <2>2, <2>3, LineFacts
<1>8. Complete(w)
  BY <1>1 DEF Sound, Complete
<1> QED
  BY <1>3, <1>4, <1>5, <1>6, <1>7, <1>8 DEF Sound

-----------------------------------------------------------------------------
(* What the server writes for a player. *)

\* The states g, after which the player record pl is pl2: they continue what was sent last.
Wrote(pl, g, pl2) ==
    /\ g \in Seq(States) /\ pl2 \in PlayerRecord
    /\ pl2.allow_deltas = pl.allow_deltas
    /\ pl.state_id_sent <= pl2.state_id_sent /\ pl2.confirmed_state_id <= pl2.state_id_sent
    /\ g = <<>> => pl2.state_id_sent = pl.state_id_sent
    /\ g # <<>> => Last(g).id = pl2.state_id_sent /\ g[1].basis \in {None, pl.state_id_sent}
    /\ Linked(g) /\ Rising(pl.state_id_sent, g) /\ Within(g, pl2.state_id_sent)
    /\ ~pl.allow_deltas => Whole(g)

\* The numbers of a player record.
LEMMA RecordFacts ==
    ASSUME NEW pl \in PlayerRecord
    PROVE  /\ pl.state_id_sent \in Int /\ pl.state_id_sent >= None /\ None \in Int
           /\ pl.confirmed_state_id \in Int /\ pl.allow_deltas \in BOOLEAN
BY GameSyncAssumption DEF PlayerRecord, Ids, None

\* Nothing continues what was sent last.
LEMMA WroteNothing ==
    ASSUME NEW pl \in PlayerRecord, pl.confirmed_state_id <= pl.state_id_sent
    PROVE  Wrote(pl, <<>>, pl)
<1>1. <<>> \in Seq(States) /\ Len(<<>>) = 0
  OBVIOUS
<1>2. Linked(<<>>) /\ Rising(pl.state_id_sent, <<>>) /\ Within(<<>>, pl.state_id_sent) /\ Whole(<<>>)
  BY <1>1 DEF Linked, Rising, Within, Whole
<1> QED
  BY <1>1, <1>2, RecordFacts DEF Wrote

\* send_game_state writes nothing, or one state.
LEMMA SendWrote ==
    ASSUME NEW pl \in PlayerRecord, NEW n \in Ids, NEW d \in Ids,
           pl.state_id_sent <= n, pl.confirmed_state_id <= pl.state_id_sent
    PROVE  LET new == SendGameState(pl, n, d)
           IN  /\ Wrote(pl, new.out, new.player) /\ new.player.state_id_sent <= n
               /\ ~(local /\ pl.confirmed_state_id = n) => new.out # <<>>
<1>1. /\ pl.state_id_sent \in Ids \cup {None} /\ pl.state_sent \in Ids \cup {None}
      /\ pl.confirmed_state_id \in Ids \cup {None} /\ pl.allow_deltas \in BOOLEAN
  BY DEF PlayerRecord
<1>2. n \in Int /\ n > None /\ None \in Int
  BY GameSyncAssumption DEF Ids, None
<1>3. CASE local /\ pl.confirmed_state_id = n
  BY <1>3, WroteNothing DEF SendGameState
<1>4. CASE ~(local /\ pl.confirmed_state_id = n)
  <2> DEFINE m == Write(pl, n, d)
             new == [Written(pl, n, d) EXCEPT !.confirmed_state_id =
                        IF local /\ @ # None THEN n ELSE @]
  <2>1. SendGameState(pl, n, d) = [player |-> new, out |-> <<m>>]
    BY <1>4 DEF SendGameState
  <2>2. /\ m \in States /\ m.id = n /\ m.basis \in {None, pl.state_id_sent}
        /\ ~pl.allow_deltas => m.basis = None
    BY <1>1 DEF Write, States
  <2>3. Written(pl, n, d) \in PlayerRecord
        /\ Written(pl, n, d).confirmed_state_id = pl.confirmed_state_id
        /\ Written(pl, n, d).state_id_sent = n /\ Written(pl, n, d).allow_deltas = pl.allow_deltas
    BY DEF Written, PlayerRecord
  <2>4. /\ new \in PlayerRecord /\ new.state_id_sent = n /\ new.allow_deltas = pl.allow_deltas
        /\ new.confirmed_state_id \in {n, pl.confirmed_state_id}
    BY <2>3 DEF PlayerRecord
  <2> HIDE DEF m, new
  <2> DEFINE g == <<m>>
  <2>5. g \in Seq(States) /\ Len(g) = 1 /\ g[1] = m /\ g # <<>>
    BY <2>2
  <2> HIDE DEF g
  <2>6. Last(g) = m
    BY <2>5 DEF Last
  <2>7. Linked(g) /\ Within(g, n) /\ (~pl.allow_deltas => Whole(g))
    BY <1>2, <2>2, <2>5 DEF Linked, Within, Whole
  <2>8. Rising(pl.state_id_sent, g)
    BY <1>2, <2>2, <2>5, RecordFacts DEF Rising
  <2>9. new.confirmed_state_id <= n
    BY <1>2, <2>4, RecordFacts
  <2>10. Wrote(pl, g, new)
    BY <2>2, <2>4, <2>5, <2>6, <2>7, <2>8, <2>9 DEF Wrote
  <2> QED
    BY <1>2, <2>1, <2>4, <2>5, <2>10 DEF g
<1> QED
  BY <1>3, <1>4

\* What is written twice.
LEMMA WroteTwice ==
    ASSUME NEW pl \in PlayerRecord, NEW pl1 \in PlayerRecord, NEW pl2 \in PlayerRecord,
           NEW g1, NEW g2, Wrote(pl, g1, pl1), Wrote(pl1, g2, pl2)
    PROVE  Wrote(pl, g1 \o g2, pl2)
<1> DEFINE g == g1 \o g2
<1>1. /\ g1 \in Seq(States) /\ g2 \in Seq(States)
      /\ pl1.allow_deltas = pl.allow_deltas /\ pl2.allow_deltas = pl.allow_deltas
      /\ pl.state_id_sent <= pl1.state_id_sent /\ pl1.state_id_sent <= pl2.state_id_sent
      /\ pl2.confirmed_state_id <= pl2.state_id_sent
  BY DEF Wrote
<1>2. /\ pl.state_id_sent \in Int /\ pl1.state_id_sent \in Int /\ pl2.state_id_sent \in Int
  BY RecordFacts
<1>3. g \in Seq(States)
  BY <1>1, ConcatProperties
<1>4. Linked(g)
  BY <1>1, LinkedJoin DEF Wrote
<1>5. Rising(pl.state_id_sent, g)
  BY <1>1, <1>2, RisingJoin DEF Wrote
<1>6. Within(g, pl2.state_id_sent)
  <2>1. Within(g1, pl2.state_id_sent)
    <3>1. \A i \in 1 .. Len(g1) : g1[i] \in States /\ g1[i].id <= pl1.state_id_sent
      BY <1>1 DEF Wrote, Within
    <3> QED
      BY <1>1, <1>2, <3>1, StateFacts DEF Within
  <2> QED
    BY <1>1, <1>2, <2>1, WholeJoin DEF Wrote
<1>7. ~pl.allow_deltas => Whole(g)
  BY <1>1, <1>2, WholeJoin DEF Wrote
<1>8. g = <<>> => pl2.state_id_sent = pl.state_id_sent
  BY <1>1, JoinFacts DEF Wrote
<1>9. g # <<>> => Last(g).id = pl2.state_id_sent /\ g[1].basis \in {None, pl.state_id_sent}
  <2>1. CASE g1 = <<>>
    BY <1>1, <2>1, JoinFacts DEF Wrote
  <2>2. CASE g1 # <<>> /\ g2 = <<>>
    BY <1>1, <2>2, JoinFacts DEF Wrote
  <2>3. CASE g1 # <<>> /\ g2 # <<>>
    BY <1>1, <2>3, JoinFacts DEF Wrote
  <2> QED
    BY <2>1, <2>2, <2>3
<1> HIDE DEF g
<1>10. Wrote(pl, g, pl2)
  BY <1>1, <1>2, <1>3, <1>4, <1>5, <1>6, <1>7, <1>8, <1>9 DEF Wrote
<1> QED
  BY <1>10 DEF g

\* restore_state sends a state, and then the one the game has moved on to.
LEMMA SendTwiceWrote ==
    ASSUME NEW pl \in PlayerRecord, NEW n1 \in Ids, NEW d1 \in Ids, NEW n2 \in Ids, NEW d2 \in Ids,
           pl.state_id_sent <= n1, n1 <= n2, pl.confirmed_state_id <= pl.state_id_sent
    PROVE  LET new == SendTwice(pl, n1, d1, n2, d2) IN Wrote(pl, new.out, new.player)
<1> DEFINE one == SendGameState(pl, n1, d1)
           two == SendGameState(one.player, n2, d2)
<1>1. Wrote(pl, one.out, one.player) /\ one.player.state_id_sent <= n1
  BY SendWrote
<1> HIDE DEF one
<1>2. one.player \in PlayerRecord /\ one.player.confirmed_state_id <= one.player.state_id_sent
  BY <1>1 DEF Wrote
<1>3. one.player.state_id_sent <= n2
  BY <1>1, <1>2, RecordFacts, GameSyncAssumption DEF Ids
<1>4. Wrote(one.player, two.out, two.player)
  BY <1>2, <1>3, SendWrote
<1> HIDE DEF two
<1>5. two.player \in PlayerRecord
  BY <1>4 DEF Wrote
<1>6. Wrote(pl, one.out \o two.out, two.player)
  BY <1>1, <1>2, <1>4, <1>5, WroteTwice
<1>7. SendTwice(pl, n1, d1, n2, d2) = [player |-> two.player, out |-> one.out \o two.out]
  BY DEF SendTwice, one, two
<1> QED
  BY <1>6, <1>7

-----------------------------------------------------------------------------
(* What the server's messages o do to a line. *)

\* Transmit, for one player; asks tells whether it is the one whose request was handled.
Answered(v, o) == ~v.local /\ v.waiting # "no" /\ o # <<>>
LostOf(v, o)   == Answered(v, o) /\ v.waiting = "dead" /\ Head(o).id # None
LeftOf(v, o)   == v.mail \o IF Answered(v, o) THEN Tail(o) ELSE o
GoneOf(v, o)   == IF Answered(v, o) /\ v.waiting = "live"
                  THEN Append(v.answers, <<Head(o)>>) ELSE v.answers

Sent(v, o, asks, w) ==
    /\ w.local = v.local
    /\ w.mail = IF v.local \/ asks THEN <<>> ELSE LeftOf(v, o)
    /\ w.answers = IF v.local THEN v.answers \o [i \in DOMAIN o |-> <<o[i]>>]
                   ELSE IF asks /\ LeftOf(v, o) # <<>> THEN Append(GoneOf(v, o), LeftOf(v, o))
                   ELSE GoneOf(v, o)
    /\ w.waiting = IF v.local THEN "no" ELSE IF asks /\ LeftOf(v, o) = <<>> THEN "live"
                   ELSE IF Answered(v, o) THEN "no" ELSE v.waiting

\* What a handler sends a player: states, or an announcement.
Outgoing == Seq(States) \cup {<<SyncNotice>>}

\* The concatenation of messages.
LEMMA MessagesJoin == \A s, t \in Seq(Message) :
    s \o t \in Seq(Message) /\ Len(s \o t) = Len(s) + Len(t)
BY ConcatProperties

\* The first message of what is sent, and the rest.
LEMMA OutgoingFacts ==
    ASSUME NEW o \in Outgoing
    PROVE  /\ o \in Seq(Message) /\ GameMessages(o) \in Seq(States)
           /\ o \in Seq(States) => GameMessages(o) = o
           /\ o = <<SyncNotice>> => GameMessages(o) = <<>>
           /\ o # <<>> => /\ Tail(o) \in Seq(Message) /\ <<Head(o)>> \in Seq(Message)
                          /\ o = <<Head(o)>> \o Tail(o)
           /\ o # <<>> /\ Head(o).id = None => o = <<SyncNotice>> /\ Tail(o) = <<>>
           /\ o # <<>> /\ Head(o).id # None =>
                 GameMessages(o) = o /\ GameMessages(Tail(o)) = Tail(o) /\ o \in Seq(States)
<1>1. SyncNotice \in Message /\ SyncNotice.id = None /\ <<SyncNotice>> \in Seq(Message)
  BY DEF SyncNotice, Message
<1>2. States \subseteq Message
  BY DEF States, Message
<1>3. o \in Seq(Message)
  BY <1>1, <1>2, SeqLarger DEF Outgoing
<1>4. o \in Seq(States) => GameMessages(o) = o
  BY GameMessagesAll
<1>5. GameMessages(<<SyncNotice>>) = <<>>
  <2>1. <<>> \in Seq(Message) /\ <<SyncNotice>> = Append(<<>>, SyncNotice)
    OBVIOUS
  <2>2. GameMessages(Append(<<>>, SyncNotice)) = GameMessages(<<>>)
    BY <1>1, <2>1, GameMessagesAppend
  <2> QED
    BY <2>1, <2>2, GameMessagesEmpty
<1>6. GameMessages(o) \in Seq(States)
  BY <1>3, GameMessagesStates
<1>7. o # <<>> => /\ Tail(o) \in Seq(Message) /\ <<Head(o)>> \in Seq(Message)
                  /\ o = <<Head(o)>> \o Tail(o)
  <2> SUFFICES ASSUME o # <<>> PROVE /\ Tail(o) \in Seq(Message) /\ <<Head(o)>> \in Seq(Message)
                                     /\ o = <<Head(o)>> \o Tail(o)
    OBVIOUS
  <2>1. Tail(o) \in Seq(Message) /\ Head(o) \in Message /\ Head(o) = o[1]
        /\ Len(o) \in Nat \ {0} /\ Len(Tail(o)) = Len(o) - 1
        /\ \A i \in 1 .. Len(o) - 1 : Tail(o)[i] = o[i + 1]
    BY <1>3
  <2> DEFINE u == Tail(o)
             h == <<Head(o)>>
             c == h \o u
  <2>2. h \in Seq(Message) /\ Len(h) = 1 /\ h[1] = o[1]
    BY <2>1
  <2> HIDE DEF u, h
  <2>2a. u \in Seq(Message) /\ Len(u) = Len(o) - 1
    BY <2>1 DEF u
  <2>3. c \in Seq(Message) /\ Len(c) = Len(o)
    <3>1. c \in Seq(Message) /\ Len(c) = Len(h) + Len(u)
      BY <2>2, <2>2a, MessagesJoin, Zenon
    <3> QED
      BY <2>1, <2>2, <2>2a, <3>1
  <2>4. \A i \in 1 .. 1 + Len(u) : c[i] = IF i <= 1 THEN h[i] ELSE u[i - 1]
    <3>1. \A i \in 1 .. Len(h) + Len(u) : c[i] = IF i <= Len(h) THEN h[i] ELSE u[i - Len(h)]
      BY <2>2, <2>2a, ConcatProperties
    <3> QED
      BY <2>2, <3>1
  <2> HIDE DEF c
  <2>5. ASSUME NEW i \in 1 .. Len(o) PROVE c[i] = o[i]
    <3>1. i \in 1 .. 1 + Len(u) /\ (i # 1 => ~(i <= 1) /\ i - 1 \in 1 .. Len(o) - 1 /\ (i - 1) + 1 = i)
      BY <2>1 DEF u
    <3> QED
      BY <2>1, <2>2, <2>4, <3>1 DEF u
  <2>6. c = o
    BY <1>3, <2>3, <2>5, SeqEqual
  <2> QED
    BY <2>1, <2>2, <2>6 DEF c, h, u
<1>8. o # <<>> /\ Head(o).id = None => o = <<SyncNotice>> /\ Tail(o) = <<>>
  <2>1. o \in Seq(States) /\ o # <<>> => Head(o).id # None
    <3>1. o \in Seq(States) /\ o # <<>> => Head(o) \in States
      OBVIOUS
    <3> QED
      BY <3>1, StateFacts
  <2>2. Tail(<<SyncNotice>>) = <<>>
    OBVIOUS
  <2> QED
    BY <2>1, <2>2 DEF Outgoing
<1>9. o # <<>> /\ Head(o).id # None =>
         GameMessages(o) = o /\ GameMessages(Tail(o)) = Tail(o) /\ o \in Seq(States)
  <2>1. Head(<<SyncNotice>>).id = None
    BY <1>1
  <2>2. o # <<>> /\ Head(o).id # None => o \in Seq(States) /\ Tail(o) \in Seq(States)
    BY <2>1 DEF Outgoing
  <2> QED
    BY <2>2, GameMessagesAll
<1> QED
  BY <1>3, <1>4, <1>5, <1>6, <1>7, <1>8, <1>9

\* The states among them come last, but for one that is written to a client that is gone.
LEMMA SentFacts ==
    ASSUME NEW v \in Lines, NEW w \in Lines, NEW o \in Outgoing, NEW asks \in BOOLEAN,
           v.waiting # "no" \/ v.local => v.mail = <<>>, Sent(v, o, asks, w)
    PROVE  LET g == GameMessages(o)
               t == IF LostOf(v, o) THEN Tail(g) ELSE g
           IN  /\ g \in Seq(States) /\ t \in Seq(States)
               /\ Coming(w) \o Kept(w) = (Coming(v) \o Kept(v)) \o t
               /\ LostOf(v, o) => ~v.local /\ v.waiting = "dead" /\ Kept(v) = <<>> /\ g # <<>>
               /\ w.waiting # "no" \/ w.local => w.mail = <<>>
               /\ \/ Kept(w) = <<>>
                  \/ Kept(w) = Kept(v) \o g
                  \/ g # <<>> /\ Kept(w) = Tail(g)
               /\ ~v.local /\ ~asks /\ v.waiting # "live" =>
                     w.answers = v.answers /\ w.waiting # "live"
               /\ ~v.local /\ asks /\ v.waiting # "live" /\ v.answers = <<>> =>
                     /\ Kept(w) = <<>>
                     /\ Coming(w) = <<>> \/ (Len(w.answers) = 1 /\ w.waiting # "live")
<1> DEFINE g == GameMessages(o)
           c == Coming(v)
           k == Kept(v)
           L == LeftOf(v, o)
           A == GoneOf(v, o)
           t == IF LostOf(v, o) THEN Tail(g) ELSE g
<1>1. /\ v.mail \in Seq(Message) /\ v.answers \in Seq(Seq(Message)) /\ o \in Seq(Message)
      /\ c \in Seq(States) /\ k \in Seq(States) /\ g \in Seq(States)
      /\ v.waiting \in {"no", "live", "dead"} /\ v.local \in BOOLEAN
  BY TodoFacts, OutgoingFacts DEF Lines
<1>2. /\ w.local = v.local
      /\ w.mail = IF v.local \/ asks THEN <<>> ELSE L
      /\ w.answers = IF v.local THEN v.answers \o [i \in DOMAIN o |-> <<o[i]>>]
                     ELSE IF asks /\ L # <<>> THEN Append(A, L) ELSE A
      /\ w.waiting = IF v.local THEN "no" ELSE IF asks /\ L = <<>> THEN "live"
                     ELSE IF Answered(v, o) THEN "no" ELSE v.waiting
  BY DEF Sent
<1>3. v.mail = <<>> => k = <<>>
  BY GameMessagesEmpty DEF Kept
<1>4. LostOf(v, o) => ~v.local /\ v.waiting = "dead" /\ k = <<>> /\ g = o /\ g # <<>>
  BY <1>3, OutgoingFacts DEF LostOf, Answered
<1>5. t \in Seq(States)
  <2>1. g # <<>> => Tail(g) \in Seq(States)
    BY <1>1
  <2> QED
    BY <1>1, <1>4, <2>1
<1>6. L \in Seq(Message) /\ A \in Seq(Seq(Message))
  <2>1. o # <<>> => Tail(o) \in Seq(Message) /\ <<Head(o)>> \in Seq(Message)
    BY OutgoingFacts
  <2>2. Answered(v, o) => o # <<>>
    BY DEF Answered
  <2>3. L \in Seq(Message)
    BY <1>1, <2>1, <2>2, ConcatProperties DEF LeftOf
  <2>4. A \in Seq(Seq(Message))
    BY <1>1, <2>1, <2>2, AppendProperties DEF GoneOf
  <2> QED
    BY <2>3, <2>4
<1> DEFINE a == GameMessages(FlattenSeq(A))
           l == GameMessages(L)
<1>7. a \in Seq(States) /\ l \in Seq(States) /\ FlattenSeq(A) \in Seq(Message)
  BY <1>6, FlattenType, GameMessagesStates
<1>8. ASSUME ~Answered(v, o)
      PROVE  a = c /\ l = k \o g /\ t = g
  <2>1. A = v.answers /\ L = v.mail \o o /\ ~LostOf(v, o)
    BY <1>8 DEF GoneOf, LeftOf, LostOf
  <2>2. GameMessages(v.mail \o o) = GameMessages(v.mail) \o GameMessages(o)
    BY <1>1, GameMessagesConcat
  <2> QED
    BY <2>1, <2>2 DEF Coming, Kept
<1>9. ASSUME Answered(v, o)
      PROVE  /\ k = <<>> /\ L = Tail(o) /\ ~v.local /\ o # <<>>
             /\ l = <<>> \/ (g # <<>> /\ l = Tail(g))
  <2>1. v.mail = <<>> /\ o # <<>> /\ ~v.local /\ Tail(o) \in Seq(Message)
    BY <1>9, OutgoingFacts DEF Answered
  <2>2. L = Tail(o)
    BY <1>9, <2>1, ConcatEmptySeq DEF LeftOf
  <2>3. CASE Head(o).id = None
    BY <1>3, <2>1, <2>2, <2>3, OutgoingFacts, GameMessagesEmpty
  <2>4. CASE Head(o).id # None
    BY <1>3, <2>1, <2>2, <2>4, OutgoingFacts
  <2> QED
    BY <2>3, <2>4
<1>10. ASSUME Answered(v, o), v.waiting = "live"
       PROVE  a = c \o GameMessages(<<Head(o)>>) /\ g = GameMessages(<<Head(o)>>) \o l /\ t = g
              /\ GameMessages(<<Head(o)>>) \in Seq(States)
  <2> DEFINE h == <<Head(o)>>
  <2>1. o # <<>> /\ A = Append(v.answers, h) /\ L = Tail(o) /\ ~LostOf(v, o)
    BY <1>9, <1>10 DEF GoneOf, LostOf
  <2>2. h \in Seq(Message) /\ Tail(o) \in Seq(Message) /\ o = h \o Tail(o)
    BY <2>1, OutgoingFacts
  <2> HIDE DEF h
  <2>3. FlattenSeq(A) = FlattenSeq(v.answers) \o h /\ FlattenSeq(v.answers) \in Seq(Message)
    BY <1>1, <2>1, <2>2, FlattenAppend, FlattenType
  <2>4. a = c \o GameMessages(h)
    BY <2>2, <2>3, GameMessagesConcat DEF Coming
  <2>5. GameMessages(h \o Tail(o)) = GameMessages(h) \o GameMessages(Tail(o))
    BY <2>2, GameMessagesConcat
  <2>6. GameMessages(h) \in Seq(States)
    BY <2>2, GameMessagesStates
  <2> QED
    BY <2>1, <2>2, <2>4, <2>5, <2>6 DEF h
<1>11. ASSUME Answered(v, o), v.waiting # "live"
       PROVE  a = c /\ t = l
  <2>1. A = v.answers /\ L = Tail(o) /\ v.waiting = "dead"
    BY <1>1, <1>9, <1>11 DEF GoneOf, Answered
  <2>2. CASE Head(o).id = None
    BY <1>9, <1>11, <2>1, <2>2, OutgoingFacts, GameMessagesEmpty DEF Coming, LostOf
  <2>3. CASE Head(o).id # None
    BY <1>9, <1>11, <2>1, <2>3, OutgoingFacts DEF Coming, LostOf
  <2> QED
    BY <2>2, <2>3
<1> HIDE DEF g, c, k, t, a, l
<1>12. a \o l = (c \o k) \o t
  <2>1. CASE ~Answered(v, o)
    <3>1. c \o (k \o g) = (c \o k) \o g
      BY <1>1, StatesJoin, Zenon
    <3> QED
      BY <1>8, <2>1, <3>1
  <2>2. CASE Answered(v, o) /\ v.waiting = "live"
    <3> DEFINE h == GameMessages(<<Head(o)>>)
    <3>1. a = c \o h /\ g = h \o l /\ t = g /\ h \in Seq(States)
      BY <1>10, <2>2
    <3> HIDE DEF h
    <3>2. (c \o h) \o l = c \o (h \o l)
      <4>1. c \in Seq(States) /\ h \in Seq(States) /\ l \in Seq(States)
        BY <1>1, <1>7, <3>1
      <4> QED
        BY <4>1, StatesJoin, Zenon
    <3>3. c \o k = c
      BY <1>1, <1>9, <2>2, ConcatEmptySeq
    <3> QED
      BY <3>1, <3>2, <3>3
  <2>3. CASE Answered(v, o) /\ v.waiting # "live"
    BY <1>1, <1>9, <1>11, <2>3, ConcatEmptySeq
  <2> QED
    BY <2>1, <2>2, <2>3
<1> HIDE DEF L, A
<1>13. CASE v.local
  <2> DEFINE e == [i \in DOMAIN o |-> <<o[i]>>]
  <2>1. e \in Seq(Seq(Message)) /\ FlattenSeq(e) = o
    BY <1>1, FlattenSingles
  <2> HIDE DEF e
  <2>2. FlattenSeq(v.answers \o e) = FlattenSeq(v.answers) \o o /\ FlattenSeq(v.answers) \in Seq(Message)
    BY <1>1, <2>1, FlattenConcat, FlattenType
  <2>3. GameMessages(FlattenSeq(v.answers) \o o) = c \o g
    BY <1>1, <2>2, GameMessagesConcat DEF Coming, c, g
  <2>4. Coming(w) = c \o g /\ w.mail = <<>> /\ Kept(w) = <<>> /\ k = <<>>
    BY <1>2, <1>3, <1>13, <2>2, <2>3, GameMessagesEmpty DEF Coming, Kept, e, k
  <2>5. (c \o g) \o <<>> = c \o g /\ c \o <<>> = c
    BY <1>1, ConcatProperties, ConcatEmptySeq
  <2>6. t = g
    BY <1>4, <1>13 DEF t
  <2>7. Coming(w) \o Kept(w) = (c \o k) \o t
    BY <2>4, <2>5, <2>6
  <2> QED
    BY <1>1, <1>2, <1>4, <1>5, <1>13, <2>4, <2>7 DEF c, k, g, t
<1>14. CASE ~v.local /\ ~asks
  <2>1. w.mail = L /\ w.answers = A /\ w.waiting = IF Answered(v, o) THEN "no" ELSE v.waiting
    BY <1>2, <1>14
  <2>2. Coming(w) = a /\ Kept(w) = l
    BY <2>1 DEF Coming, Kept, a, l
  <2>3. ~Answered(v, o) => l = k \o g
    BY <1>8
  <2>4. Answered(v, o) => l = <<>> \/ (g # <<>> /\ l = Tail(g))
    BY <1>9
  <2>5. w.waiting # "no" \/ w.local => w.mail = <<>>
    <3>1. w.waiting # "no" => ~Answered(v, o) /\ v.waiting # "no"
      BY <2>1
    <3>2. ~Answered(v, o) /\ v.waiting # "no" => o = <<>> /\ v.mail = <<>> /\ L = v.mail \o o
      BY <1>14 DEF Answered, LeftOf, L
    <3>3. <<>> \o <<>> = <<>>
      BY <1>1, <1>14, ConcatEmptySeq
    <3> QED
      BY <1>2, <1>14, <2>1, <3>1, <3>2, <3>3
  <2>6. v.waiting # "live" => w.answers = v.answers /\ w.waiting # "live"
    BY <2>1 DEF GoneOf, A
  <2> QED
    BY <1>1, <1>4, <1>5, <1>12, <1>14, <2>2, <2>3, <2>4, <2>5, <2>6 DEF c, k, g, t
<1>15. CASE ~v.local /\ asks
  <2>1. w.mail = <<>> /\ w.answers = IF L # <<>> THEN Append(A, L) ELSE A
    BY <1>2, <1>15
  <2>2. Kept(w) = <<>>
    BY <2>1, GameMessagesEmpty DEF Kept
  <2>3. Coming(w) = a \o l
    <3>1. CASE L # <<>>
      <4>1. FlattenSeq(Append(A, L)) = FlattenSeq(A) \o L
        BY <1>6, FlattenAppend
      <4>2. GameMessages(FlattenSeq(A) \o L) = a \o l
        BY <1>6, <1>7, GameMessagesConcat DEF a, l
      <4> QED
        BY <2>1, <3>1, <4>1, <4>2 DEF Coming
    <3>2. CASE L = <<>>
      <4>1. l = <<>> /\ Coming(w) = a
        BY <2>1, <3>2, GameMessagesEmpty DEF Coming, a, l
      <4> QED
        BY <1>7, <4>1, ConcatEmptySeq
    <3> QED
      BY <3>1, <3>2
  <2>4. Coming(w) \o Kept(w) = (c \o k) \o t
    <3>1. a \o l \in Seq(States)
      BY <1>7, ConcatProperties
    <3> QED
      BY <1>12, <2>2, <2>3, <3>1, ConcatEmptySeq
  <2>5. ASSUME v.waiting # "live", v.answers = <<>>
        PROVE  Coming(w) = <<>> \/ (Len(w.answers) = 1 /\ w.waiting # "live")
    <3>1. A = <<>>
      BY <2>5 DEF GoneOf, A
    <3>2. CASE L = <<>>
      BY <2>1, <3>1, <3>2, FlattenEmpty, GameMessagesEmpty DEF Coming
    <3>3. CASE L # <<>>
      <4>1. Len(Append(<<>>, L)) = 1
        BY <1>6
      <4>2. w.answers = Append(<<>>, L) /\ w.waiting # "live"
        BY <1>2, <1>15, <2>1, <2>5, <3>1, <3>3
      <4> QED
        BY <4>1, <4>2
    <3> QED
      BY <3>2, <3>3
  <2> QED
    BY <1>1, <1>2, <1>4, <1>5, <1>15, <2>1, <2>2, <2>4, <2>5 DEF c, k, g, t
<1> QED
  BY <1>1, <1>13, <1>14, <1>15

\* The mail and the states that are written next, or all but the first of them.
LEMMA KeptWritten ==
    ASSUME NEW v \in Lines, Newest(v), Queued(v), NEW g, NEW pl, Wrote(v.player, g, pl)
    PROVE  /\ Linked(Kept(v) \o g) /\ Rising(None, Kept(v) \o g)
           /\ Kept(v) \o g # <<>> => Last(Kept(v) \o g).id = pl.state_id_sent
           /\ ~v.player.allow_deltas => Whole(Kept(v) \o g)
           /\ g # <<>> =>
                 /\ Tail(g) \in Seq(States)
                 /\ Linked(Tail(g)) /\ Rising(None, Tail(g)) /\ Within(Tail(g), pl.state_id_sent)
                 /\ Rising(v.player.state_id_sent, Tail(g))
                 /\ Tail(g) # <<>> => Last(Tail(g)).id = pl.state_id_sent
                 /\ ~v.player.allow_deltas => Whole(Tail(g))
<1> DEFINE k == Kept(v)
           sent == v.player.state_id_sent
<1>1. /\ k \in Seq(States) /\ g \in Seq(States) /\ sent \in Int /\ None \in Int /\ None <= sent
      /\ pl \in PlayerRecord /\ sent <= pl.state_id_sent /\ pl.state_id_sent \in Int
  BY TodoFacts, LineFacts, RecordFacts DEF Wrote
<1>2. /\ Linked(k) /\ Rising(None, k) /\ (k # <<>> => Last(k).id = sent)
      /\ ~v.player.allow_deltas => Whole(k)
  BY DEF Queued
<1>3. Within(k, sent)
  BY <1>1, TodoParts DEF Newest
<1>4. /\ Linked(g) /\ Rising(sent, g) /\ Within(g, pl.state_id_sent)
      /\ g = <<>> => pl.state_id_sent = sent
      /\ g # <<>> => Last(g).id = pl.state_id_sent /\ g[1].basis \in {None, sent}
      /\ ~v.player.allow_deltas => Whole(g)
  BY DEF Wrote
<1> HIDE DEF k, sent
<1>5. Linked(k \o g)
  BY <1>1, <1>2, <1>4, LinkedJoin
<1>6. Rising(None, k \o g)
  BY <1>1, <1>2, <1>3, <1>4, RisingJoin
<1>7. k \o g # <<>> => Last(k \o g).id = pl.state_id_sent
  <2>1. CASE g = <<>>
    <3>1. k \o g = k
      BY <1>1, <2>1, ConcatEmptySeq
    <3> QED
      BY <1>2, <1>4, <2>1, <3>1
  <2>2. CASE g # <<>>
    <3>1. Last(k \o g) = Last(g)
      BY <1>1, <2>2, JoinFacts
    <3> QED
      BY <1>4, <2>2, <3>1
  <2> QED
    BY <2>1, <2>2
<1>8. ~v.player.allow_deltas => Whole(k \o g)
  BY <1>1, <1>2, <1>4, WholeJoin
<1>9. ASSUME g # <<>>
      PROVE  /\ Tail(g) \in Seq(States)
             /\ Linked(Tail(g)) /\ Rising(None, Tail(g)) /\ Within(Tail(g), pl.state_id_sent)
             /\ Rising(sent, Tail(g))
             /\ Tail(g) # <<>> => Last(Tail(g)).id = pl.state_id_sent
             /\ ~v.player.allow_deltas => Whole(Tail(g))
  <2>1. /\ Tail(g) \in Seq(States) /\ Linked(Tail(g)) /\ Rising(sent, Tail(g))
        /\ Tail(g) # <<>> => Last(Tail(g)) = Last(g)
        /\ Whole(g) => Whole(Tail(g))
    BY <1>1, <1>4, <1>9, TailFacts
  <2>2. Within(Tail(g), pl.state_id_sent)
    BY <1>1, <1>4, <1>9, TailFacts
  <2>3. Rising(None, <<>> \o Tail(g)) /\ <<>> \o Tail(g) = Tail(g)
    <3>1. <<>> \in Seq(States) /\ Len(<<>>) = 0
      OBVIOUS
    <3>2. Rising(None, <<>>) /\ Within(<<>>, sent)
      BY <3>1 DEF Rising, Within
    <3> QED
      BY <1>1, <2>1, <3>1, <3>2, RisingJoin, ConcatEmptySeq
  <2> QED
    BY <1>4, <2>1, <2>2, <2>3
<1> QED
  BY <1>5, <1>6, <1>7, <1>8, <1>9 DEF k, sent

\* They come after all that the client has yet to process.
LEMMA SentTodo ==
    ASSUME NEW v \in Lines, NEW w \in Lines, NEW o \in Outgoing, NEW asks \in BOOLEAN,
           v.waiting # "no" \/ v.local => v.mail = <<>>, Sent(v, o, asks, w), w.client = v.client
    PROVE  Todo(w) = Todo(v) \o (IF LostOf(v, o) THEN Tail(GameMessages(o)) ELSE GameMessages(o))
<1> DEFINE t == IF LostOf(v, o) THEN Tail(GameMessages(o)) ELSE GameMessages(o)
           ck == Coming(v) \o Kept(v)
<1>1. t \in Seq(States) /\ Coming(w) \o Kept(w) = ck \o t
  BY SentFacts, Zenon
<1>2. ck \in Seq(States) /\ v.client.queue \in Seq(States)
  BY TodoFacts
<1>3. Todo(w) = v.client.queue \o (ck \o t) /\ Todo(v) = v.client.queue \o ck
  BY <1>1 DEF Todo
<1> HIDE DEF t, ck
<1>4. (v.client.queue \o ck) \o t = v.client.queue \o (ck \o t)
  BY <1>1, <1>2, StatesJoin, Zenon
<1>5. Todo(w) = Todo(v) \o t
  BY <1>3, <1>4
<1> QED
  BY <1>5 DEF t

\* The server handles a request, of this player (asks) or of another, and sends o.
LEMMA ServerSound ==
    ASSUME NEW v \in Lines, NEW w \in Lines, Sound(v), NEW o \in Outgoing, NEW asks \in BOOLEAN,
           Sent(v, o, asks, w), w.client = v.client, w.requests \subseteq v.requests,
           Wrote(v.player, GameMessages(o), w.player), w.missed = (v.missed \/ LostOf(v, o)),
           asks => /\ v.player.allow_deltas => v.client.state # None
                   /\ ~v.player.allow_deltas => Whole(Coming(v))
    PROVE  Sound(w)
<1> DEFINE g == GameMessages(o)
           t == IF LostOf(v, o) THEN Tail(g) ELSE g
           k == Kept(v)
           c == v.client
           sent == v.player.state_id_sent
           new  == w.player.state_id_sent
           allow == v.player.allow_deltas
<1>1. /\ g \in Seq(States) /\ t \in Seq(States)
      /\ Coming(w) \o Kept(w) = (Coming(v) \o k) \o t
      /\ LostOf(v, o) => ~v.local /\ v.waiting = "dead" /\ k = <<>> /\ g # <<>>
      /\ w.waiting # "no" \/ w.local => w.mail = <<>>
      /\ \/ Kept(w) = <<>>
         \/ Kept(w) = k \o g
         \/ g # <<>> /\ Kept(w) = Tail(g)
      /\ ~v.local /\ ~asks /\ v.waiting # "live" => w.answers = v.answers /\ w.waiting # "live"
  <2>1. v.waiting # "no" \/ v.local => v.mail = <<>>
    BY DEF Sound, Queued
  <2> QED
    BY <2>1, SentFacts, Zenon
<1>2. /\ c.queue \in Seq(States) /\ Coming(v) \in Seq(States) /\ k \in Seq(States)
      /\ Coming(v) \o k \in Seq(States) /\ Todo(v) \in Seq(States)
      /\ Coming(w) \in Seq(States) /\ Kept(w) \in Seq(States)
      /\ Coming(w) \o Kept(w) \in Seq(States) /\ Todo(w) \in Seq(States)
  BY TodoFacts
<1>3. /\ sent \in Int /\ new \in Int /\ None \in Int /\ None <= sent /\ c.state_id \in Int
      /\ c.state_id >= None
      /\ allow \in BOOLEAN /\ w.missed \in BOOLEAN /\ v.missed \in BOOLEAN /\ v.local \in BOOLEAN
  BY LineFacts
<1>4. /\ sent <= new /\ w.player.confirmed_state_id <= new
      /\ g = <<>> => new = sent
      /\ g # <<>> => Last(g).id = new /\ g[1].basis \in {None, sent}
      /\ Linked(g) /\ Rising(sent, g) /\ Within(g, new)
      /\ ~allow => Whole(g)
      /\ w.player.allow_deltas = allow
  BY DEF Wrote
<1>5. w.local = v.local
  BY DEF Sent
<1>6. /\ Linked(k \o g) /\ Rising(None, k \o g)
      /\ k \o g # <<>> => Last(k \o g).id = new
      /\ ~allow => Whole(k \o g)
      /\ g # <<>> => /\ Tail(g) \in Seq(States)
                     /\ Linked(Tail(g)) /\ Rising(None, Tail(g)) /\ Within(Tail(g), new)
                     /\ Rising(sent, Tail(g))
                     /\ Tail(g) # <<>> => Last(Tail(g)).id = new
                     /\ ~allow => Whole(Tail(g))
  BY KeptWritten DEF Sound
<1>7. ForWhole(w) => ForWhole(v)
  BY DEF ForWhole
<1> HIDE DEF g, k
<1>8. Within(t, new) /\ (~allow => Whole(t))
  BY <1>1, <1>4, <1>6
<1>9. Todo(w) = Todo(v) \o t
  <2>1. v.waiting # "no" \/ v.local => v.mail = <<>>
    BY DEF Sound, Queued
  <2> QED
    BY <2>1, SentTodo, Zenon DEF g
<1>10. Newest(w)
  <2>1. c.state_id <= sent /\ Within(Todo(v), sent)
        /\ \A r \in v.requests : r.type = "request_updates" => r.state_id <= sent
    BY DEF Sound, Newest
  <2>2. Within(Todo(v), new)
    <3>1. \A i \in 1 .. Len(Todo(v)) : Todo(v)[i] \in States /\ Todo(v)[i].id <= sent
      BY <1>2, <2>1 DEF Within
    <3> QED
      BY <1>3, <1>4, <3>1, StateFacts DEF Within
  <2>3. Within(Todo(w), new)
    <3>1. t \in Seq(States) /\ Within(t, new)
      BY <1>1, <1>8
    <3> HIDE DEF t
    <3>2. Within(Todo(v) \o t, new)
      BY <1>2, <1>3, <2>2, <3>1, WholeJoin
    <3> QED
      BY <1>9, <3>2
  <2>4. \A r \in w.requests : r.type = "request_updates" => r.state_id <= new
    BY <1>3, <1>4, <2>1, LineFacts
  <2> QED
    BY <1>3, <1>4, <2>1, <2>3, <2>4 DEF Newest
<1>11. Requested(w)
  <2>1. IsFiniteSet(w.requests)
    BY FS_Subset DEF Sound, Requested
  <2> QED
    BY <1>4, <1>7, <2>1 DEF Sound, Requested
<1>12. Stateless(w)
  BY <1>3, <1>4 DEF Sound, Stateless
<1>13. v.local => ~v.missed /\ ~w.missed
  BY <1>1 DEF Sound, Queued
<1>14. Queued(w)
  <2>1. Linked(Kept(w)) /\ Rising(None, Kept(w)) /\ (Kept(w) # <<>> => Last(Kept(w)).id = new)
        /\ (~allow => Whole(Kept(w)))
    <3>1. CASE Kept(w) = <<>>
      <4>1. Len(<<>>) = 0
        OBVIOUS
      <4> QED
        BY <3>1, <4>1 DEF Linked, Rising, Whole
    <3>2. CASE Kept(w) = k \o g
      BY <1>6, <3>2
    <3>3. CASE g # <<>> /\ Kept(w) = Tail(g)
      BY <1>6, <3>3
    <3> QED
      BY <1>1, <3>1, <3>2, <3>3
  <2> QED
    BY <1>1, <1>4, <1>5, <1>13, <2>1 DEF Queued
<1>15. Fresh(w)
  <2> SUFFICES ASSUME allow, c.state = None
               PROVE  /\ w.missed /\ ~w.local /\ w.client.queue = <<>> /\ w.answers = <<>>
                      /\ w.waiting # "live"
                      /\ \A r \in w.requests : r.type = "request_updates" /\ ~r.allow_deltas
    BY <1>4 DEF Fresh
  <2>1. /\ v.missed /\ ~v.local /\ c.queue = <<>> /\ v.answers = <<>> /\ v.waiting # "live"
        /\ \A r \in v.requests : r.type = "request_updates" /\ ~r.allow_deltas
    BY DEF Sound, Fresh
  <2>2. w.answers = v.answers /\ w.waiting # "live"
    BY <1>1, <2>1
  <2> QED
    BY <1>5, <2>1, <2>2
<1>16. ~allow /\ Whole(Coming(v)) => Whole(Coming(w))
  <2> SUFFICES ASSUME ~allow, Whole(Coming(v)) PROVE Whole(Coming(w))
    OBVIOUS
  <2>1. Whole(k)
    BY DEF Sound, Queued, k
  <2>2. Whole(Coming(v) \o k)
    BY <1>2, <1>3, <2>1, WholeJoin
  <2> DEFINE ck == Coming(v) \o k
  <2>3. ck \in Seq(States) /\ Whole(ck)
    BY <1>2, <2>2
  <2> HIDE DEF ck, t
  <2>4. Whole(ck \o t)
    BY <1>1, <1>3, <1>8, <2>3, WholeJoin
  <2>5. Whole(Coming(w) \o Kept(w))
    BY <1>1, <2>4 DEF ck
  <2> QED
    BY <1>2, <1>3, <2>5, WholeJoin
<1>17. Leftover(w)
  <2> SUFFICES ASSUME ~allow, ~Whole(Coming(w))
               PROVE  /\ ~w.local /\ w.client.state = None /\ w.client.queue = <<>>
                      /\ w.waiting # "live" /\ Len(w.answers) = 1 /\ w.requests = {} /\ new # None
    BY <1>4 DEF Leftover
  <2>1. ~Whole(Coming(v)) /\ ~asks
    BY <1>16
  <2>2. /\ ~v.local /\ c.state = None /\ c.queue = <<>> /\ v.waiting # "live"
        /\ Len(v.answers) = 1 /\ v.requests = {} /\ sent # None
    BY <2>1 DEF Sound, Leftover
  <2>3. w.answers = v.answers /\ w.waiting # "live"
    BY <1>1, <2>1, <2>2
  <2> QED
    BY <1>3, <1>4, <1>5, <2>2, <2>3
<1>18. Chain(w)
  <2> SUFFICES ASSUME ~w.missed \/ ~allow \/ ForWhole(w) PROVE Follows(c, Todo(w))
    BY <1>4 DEF Chain
  <2>1. CASE ~w.missed
    <3>1. ~v.missed /\ t = g
      BY <1>3, <2>1
    <3>2. Follows(c, Todo(v))
      BY <3>1 DEF Sound, Chain
    <3>3. /\ Todo(v) = <<>> => sent = c.state_id
          /\ Todo(v) # <<>> => sent = Last(Todo(v)).id
      BY <3>1 DEF Sound, Complete
    <3>4. c.state_id <= sent /\ Within(Todo(v), sent)
      BY DEF Sound, Newest
    <3>5. Follows(c, Todo(v) \o g)
      BY <1>1, <1>2, <1>3, <1>4, <3>2, <3>3, <3>4, FollowsJoin
    <3> QED
      BY <1>9, <3>1, <3>5
  <2>2. CASE ~allow
    <3>1. Follows(c, Todo(v))
      BY <2>2 DEF Sound, Chain
    <3>2. <<>> \in Seq(States)
      OBVIOUS
    <3>3. Todo(v) \o <<>> = Todo(v)
      BY <1>2, ConcatEmptySeq
    <3>4. Whole(t) /\ t \in Seq(States)
      BY <1>1, <1>8, <2>2
    <3> HIDE DEF t
    <3>5. Follows(c, Todo(v) \o t)
      BY <1>2, <1>3, <3>1, <3>2, <3>3, <3>4, FollowsWhole
    <3> QED
      BY <1>9, <3>5
  <2>3. CASE allow /\ ForWhole(w)
    <3>1. c.state = None /\ c.state_id = None
      BY <1>7, <2>3 DEF Sound, Requested, Stateless
    <3>2. c.queue = <<>> /\ v.answers = <<>>
      BY <2>3, <3>1 DEF Sound, Fresh
    <3>3. Todo(v) = k
      BY <3>2, OnlyMail DEF k
    <3>4. Todo(w) = IF LostOf(v, o) THEN Tail(g) ELSE k \o g
      <4>1. LostOf(v, o) => k = <<>> /\ <<>> \o t = t /\ t = Tail(g)
        BY <1>1, ConcatEmptySeq
      <4> QED
        BY <1>9, <3>3, <4>1
    <3>5. Linked(Todo(w)) /\ Rising(None, Todo(w))
      BY <1>1, <1>6, <3>4
    <3> QED
      BY <3>1, <3>5 DEF Follows
  <2> QED
    BY <1>3, <2>1, <2>2, <2>3
<1>19. Complete(w)
  <2> SUFFICES ASSUME ~w.missed
               PROVE  /\ Todo(w) = <<>> => new = w.client.state_id
                      /\ Todo(w) # <<>> => /\ new = Last(Todo(w)).id
                                           /\ w.client.state = None => HasWhole(Todo(w))
    BY DEF Complete
  <2>1. ~v.missed /\ Todo(w) = Todo(v) \o g
    BY <1>3, <1>9
  <2>2. /\ Todo(v) = <<>> => sent = c.state_id
        /\ Todo(v) # <<>> => /\ sent = Last(Todo(v)).id
                             /\ c.state = None => HasWhole(Todo(v))
    BY <2>1 DEF Sound, Complete
  <2>3. CASE g = <<>>
    <3>1. Todo(w) = Todo(v) /\ new = sent
      BY <1>2, <1>4, <2>1, <2>3, ConcatEmptySeq
    <3> QED
      BY <2>2, <3>1
  <2>4. CASE g # <<>>
    <3>1. Todo(w) # <<>> /\ Last(Todo(w)) = Last(g)
      BY <1>1, <1>2, <2>1, <2>4, JoinFacts
    <3>2. ASSUME c.state = None PROVE HasWhole(Todo(w))
      <4>1. HasWhole(Todo(v)) \/ HasWhole(g)
        <5>1. CASE Todo(v) # <<>>
          BY <2>2, <3>2, <5>1
        <5>2. CASE Todo(v) = <<>>
          <6>1. sent = None
            BY <2>2, <3>2, <5>2 DEF Sound, Stateless
          <6>2. 1 \in 1 .. Len(g) /\ g[1].basis = None
            BY <1>1, <1>4, <2>4, <6>1, EmptySeq
          <6> QED
            BY <6>2 DEF HasWhole
        <5> QED
          BY <5>1, <5>2
      <4> QED
        BY <1>1, <1>2, <1>3, <2>1, <4>1, WholeJoin
    <3> QED
      BY <1>4, <2>4, <3>1, <3>2
  <2> QED
    BY <2>3, <2>4
<1> QED
  BY <1>10, <1>11, <1>12, <1>14, <1>15, <1>17, <1>18, <1>19 DEF Sound

\* The server notes what a request for updates says, and has still to answer it.
LEMMA AskedSound ==
    ASSUME NEW v \in Lines, NEW w \in Lines, Sound(v),
           v.client.state # None => v.client.state_id # None,
           NEW r \in v.requests, r.type = "request_updates",
           r.allow_deltas \/ ~v.player.allow_deltas,
           w.local = v.local, w.client = v.client, w.mail = v.mail, w.waiting = v.waiting,
           w.answers = v.answers, w.missed = v.missed, w.requests = v.requests \ {r},
           w.player.allow_deltas = r.allow_deltas,
           w.player.state_id_sent = v.player.state_id_sent,
           w.player.confirmed_state_id <= v.player.state_id_sent
    PROVE  /\ Sound(w)
           /\ w.player.allow_deltas => w.client.state # None
           /\ ~w.player.allow_deltas => Whole(Coming(w))
<1>1. Coming(w) = Coming(v) /\ Kept(w) = Kept(v) /\ Todo(w) = Todo(v)
  BY DEF Coming, Kept, Todo
<1>2. /\ r.allow_deltas \in BOOLEAN /\ v.player.allow_deltas \in BOOLEAN /\ v.missed \in BOOLEAN
      /\ v.client.state_id \in Int /\ v.client.state_id >= None /\ None \in Int
      /\ v.player.state_id_sent \in Int
  BY LineFacts
<1>3. ~ForWhole(w)
  BY DEF Sound, Requested, ForWhole
<1>4. r.allow_deltas => v.client.state # None
  BY DEF Sound, Requested
<1>5. Newest(w)
  BY <1>1 DEF Sound, Newest
<1>6. Requested(w)
  <2>1. IsFiniteSet(w.requests)
    BY FS_Subset DEF Sound, Requested
  <2> QED
    BY <1>3, <2>1 DEF Sound, Requested
<1>7. Stateless(w)
  <2>1. w.player.allow_deltas => v.player.state_id_sent # None
    BY <1>2, <1>4 DEF Sound, Newest
  <2> QED
    BY <2>1 DEF Sound, Stateless
<1>8. ~w.player.allow_deltas => ~v.player.allow_deltas
  BY <1>2
<1>9. Queued(w)
  BY <1>1, <1>8 DEF Sound, Queued
<1>10. Fresh(w)
  BY <1>4 DEF Fresh
<1>11. ~w.player.allow_deltas => Whole(Coming(w))
  BY <1>1, <1>8 DEF Sound, Leftover
<1>12. Leftover(w)
  BY <1>11 DEF Leftover
<1>13. Chain(w)
  BY <1>1, <1>3, <1>8 DEF Sound, Chain
<1>14. Complete(w)
  BY <1>1 DEF Sound, Complete
<1> QED
  BY <1>4, <1>5, <1>6, <1>7, <1>9, <1>10, <1>11, <1>12, <1>13, <1>14 DEF Sound

\* The first request of a client that was restarted ends the deltas.
LEMMA FirstAskedSound ==
    ASSUME NEW v \in Lines, NEW w \in Lines, Sound(v), NEW o \in Outgoing,
           NEW r \in v.requests, r.type = "request_updates",
           ~r.allow_deltas, v.player.allow_deltas, NEW behind \in BOOLEAN,
           Sent(v, o, TRUE, w), w.client = v.client, w.requests = v.requests \ {r},
           NEW pl \in PlayerRecord, pl.allow_deltas = FALSE,
           pl.state_id_sent = v.player.state_id_sent,
           Wrote(pl, GameMessages(o), w.player),
           behind /\ ~v.local => GameMessages(o) # <<>>,
           w.missed = (LostOf(v, o) \/ (v.missed /\ ~behind))
    PROVE  Sound(w)
<1> DEFINE g == GameMessages(o)
           t == IF LostOf(v, o) THEN Tail(g) ELSE g
           k == Kept(v)
           c == v.client
           sent == v.player.state_id_sent
           new  == w.player.state_id_sent
<1>1. c.state = None /\ c.state_id = None /\ sent # None
  BY DEF Sound, Requested, Stateless, ForWhole
<1>2. /\ v.missed /\ ~v.local /\ c.queue = <<>> /\ v.answers = <<>> /\ v.waiting # "live"
      /\ \A x \in v.requests : x.type = "request_updates" /\ ~x.allow_deltas
  BY <1>1 DEF Sound, Fresh
<1>3. w.requests = {}
  BY <1>2 DEF Sound, Requested
<1>4. /\ Linked(k) /\ Rising(None, k)
      /\ v.waiting # "no" \/ v.local => v.mail = <<>>
  BY DEF Sound, Queued
<1>5. /\ g \in Seq(States) /\ t \in Seq(States)
      /\ LostOf(v, o) => g # <<>>
      /\ Kept(w) = <<>>
      /\ \/ Coming(w) = <<>>
         \/ Len(w.answers) = 1 /\ w.waiting # "live"
      /\ w.waiting # "no" \/ w.local => w.mail = <<>>
  <2>1. /\ g \in Seq(States) /\ t \in Seq(States)
        /\ LostOf(v, o) => g # <<>>
        /\ w.waiting # "no" \/ w.local => w.mail = <<>>
        /\ ~v.local /\ TRUE /\ v.waiting # "live" /\ v.answers = <<>> =>
              /\ Kept(w) = <<>>
              /\ Coming(w) = <<>> \/ (Len(w.answers) = 1 /\ w.waiting # "live")
    BY <1>4, SentFacts, Zenon
  <2> QED
    BY <1>2, <2>1
<1>6. Todo(w) = k \o t
  <2>1. Todo(v) = k
    BY <1>2, OnlyMail
  <2>2. Todo(w) = Todo(v) \o t
    BY <1>4, SentTodo, Zenon
  <2> QED
    BY <2>1, <2>2
<1>7. Todo(w) = Coming(w)
  <2>1. Coming(w) \in Seq(States)
    BY TodoFacts
  <2> QED
    BY <1>2, <1>5, <2>1, ConcatEmptySeq DEF Todo
<1>8. /\ sent \in Int /\ new \in Int /\ None \in Int /\ None < sent /\ k \in Seq(States)
  BY <1>1, LineFacts, TodoFacts
<1>9. /\ sent <= new /\ w.player.confirmed_state_id <= new
      /\ g = <<>> => new = sent
      /\ g # <<>> => Last(g).id = new
      /\ Whole(g) /\ Within(g, new)
      /\ w.player.allow_deltas = FALSE
  BY DEF Wrote
<1>10. w.local = v.local
  BY DEF Sent
<1>11. Whole(t) /\ Within(t, new)
  <2>1. g # <<>> => Whole(Tail(g)) /\ Within(Tail(g), new)
    BY <1>5, <1>8, <1>9, TailFacts
  <2> QED
    BY <1>5, <1>9, <2>1
<1> HIDE DEF g, k
<1>12. Newest(w)
  <2>1. Within(Todo(v), sent)
    BY DEF Sound, Newest
  <2>2. Within(k, sent)
    BY <1>8, <2>1, TodoParts DEF k
  <2>3. Within(k, new)
    <3>1. \A i \in 1 .. Len(k) : k[i] \in States /\ k[i].id <= sent
      BY <1>8, <2>2 DEF Within
    <3> QED
      BY <1>8, <1>9, <3>1, StateFacts DEF Within
  <2>4. Within(Todo(w), new)
    <3>1. t \in Seq(States) /\ Within(t, new)
      BY <1>5, <1>11
    <3> HIDE DEF t
    <3> QED
      BY <1>6, <1>8, <2>3, <3>1, WholeJoin
  <2> QED
    BY <1>1, <1>3, <1>8, <1>9, <2>4 DEF Newest
<1>13. Requested(w)
  <2>1. IsFiniteSet(w.requests)
    BY <1>3, FS_EmptySet
  <2> QED
    BY <1>3, <1>9, <2>1 DEF Requested
<1>14. Stateless(w)
  BY <1>1, <1>9 DEF Stateless
<1>15. Queued(w)
  <2>1. Len(<<>>) = 0
    OBVIOUS
  <2>2. Linked(Kept(w)) /\ Rising(None, Kept(w)) /\ Whole(Kept(w))
    BY <1>5, <2>1 DEF Linked, Rising, Whole
  <2> QED
    BY <1>2, <1>5, <1>10, <2>2 DEF Queued
<1>16. Fresh(w)
  BY <1>9 DEF Fresh
<1>17. Leftover(w)
  <2>1. Len(<<>>) = 0
    OBVIOUS
  <2>2. Whole(<<>>)
    BY <2>1 DEF Whole
  <2> QED
    BY <1>1, <1>2, <1>3, <1>5, <1>8, <1>9, <1>10, <2>2 DEF Leftover
<1>18. Linked(Todo(w)) /\ Rising(None, Todo(w))
  <2>1. t \in Seq(States) /\ Whole(t)
    BY <1>5, <1>11
  <2> HIDE DEF t
  <2> QED
    BY <1>4, <1>6, <1>8, <2>1, LinkedJoin, RisingJoin
<1>19. Chain(w)
  BY <1>1, <1>18 DEF Chain, Follows
<1>20. Complete(w)
  <2> SUFFICES ASSUME ~w.missed
               PROVE  /\ Todo(w) # <<>> /\ new = Last(Todo(w)).id /\ HasWhole(Todo(w))
    BY DEF Complete
  <2>1. behind /\ t = g /\ g # <<>>
    BY <1>2 DEF g
  <2>2. Todo(w) = k \o g
    BY <1>6, <2>1
  <2>3. Todo(w) # <<>> /\ Last(Todo(w)) = Last(g)
    BY <1>5, <1>8, <2>1, <2>2, JoinFacts
  <2>4. HasWhole(g)
    <3>1. 1 \in 1 .. Len(g)
      BY <1>5, <2>1, EmptySeq
    <3> QED
      BY <1>9, <3>1 DEF Whole, HasWhole
  <2>5. HasWhole(Todo(w))
    BY <1>5, <1>8, <2>2, <2>4, WholeJoin
  <2> QED
    BY <1>9, <2>1, <2>3, <2>5
<1> QED
  BY <1>12, <1>13, <1>14, <1>15, <1>16, <1>17, <1>19, <1>20 DEF Sound

\* Whole states make up for what was missed.
LEMMA MadeUpSound ==
    ASSUME NEW u \in Lines, NEW w \in Lines, Sound(u), NEW x \in Seq(States), NEW g \in Seq(States),
           w.local = u.local, w.player = u.player, w.client = u.client, w.mail = u.mail,
           w.waiting = u.waiting, w.requests = u.requests, w.answers = u.answers,
           ~u.player.allow_deltas, Todo(u) = x \o g, g # <<>>, Whole(g),
           Last(g).id = u.player.state_id_sent
    PROVE  Sound(w) \/ (w.local /\ w.missed)
<1>1. Coming(w) = Coming(u) /\ Kept(w) = Kept(u) /\ Todo(w) = Todo(u) /\ (ForWhole(w) <=> ForWhole(u))
  BY DEF Coming, Kept, Todo, ForWhole
<1>2. Newest(w) /\ Requested(w) /\ Stateless(w)
  BY <1>1 DEF Sound, Newest, Requested, Stateless
<1>3. Queued(w) \/ (w.local /\ w.missed)
  BY <1>1 DEF Sound, Queued
<1>4. Fresh(w) /\ Leftover(w)
  BY <1>1 DEF Sound, Fresh, Leftover
<1>5. Chain(w)
  BY <1>1 DEF Sound, Chain
<1>6. Complete(w)
  <2>1. Todo(u) # <<>> /\ Last(Todo(u)) = Last(g)
    BY JoinFacts
  <2>2. HasWhole(g)
    <3>1. 1 \in 1 .. Len(g)
      BY EmptySeq
    <3> QED
      BY <3>1 DEF Whole, HasWhole
  <2>3. None \in Int
    BY LineFacts
  <2>4. HasWhole(Todo(u))
    BY <2>2, <2>3, WholeJoin
  <2> QED
    BY <1>1, <2>1, <2>4 DEF Complete
<1> QED
  BY <1>2, <1>3, <1>4, <1>5, <1>6 DEF Sound

\* The server handles this player's request for updates, and sends o.
LEMMA UpdatesSound ==
    ASSUME NEW v \in Lines, NEW w \in Lines, Sound(v), NEW o \in Outgoing,
           v.client.state # None => v.client.state_id # None,
           NEW r \in v.requests, r.type = "request_updates", NEW behind \in BOOLEAN,
           Sent(v, o, TRUE, w), w.client = v.client, w.requests = v.requests \ {r},
           NEW pl \in PlayerRecord, pl.allow_deltas = r.allow_deltas,
           pl.state_id_sent = v.player.state_id_sent,
           pl.confirmed_state_id <= v.player.state_id_sent,
           Wrote(pl, GameMessages(o), w.player),
           behind /\ ~v.local => GameMessages(o) # <<>>,
           w.missed = (LostOf(v, o) \/ (v.missed /\ ~(behind /\ ~r.allow_deltas)))
    PROVE  Sound(w)
<1>1. /\ r.allow_deltas \in BOOLEAN /\ v.player.allow_deltas \in BOOLEAN /\ v.missed \in BOOLEAN
      /\ r \in Request /\ v.local \in BOOLEAN
  BY LineFacts
<1>2. CASE ~r.allow_deltas /\ v.player.allow_deltas
  BY <1>1, <1>2, FirstAskedSound
<1>3. CASE ~(~r.allow_deltas /\ v.player.allow_deltas)
  <2> DEFINE v1 == [v EXCEPT !.player = pl, !.requests = v.requests \ {r}]
             w1 == [w EXCEPT !.missed = (v.missed \/ LostOf(v, o))]
             g  == GameMessages(o)
  <2>1. v1 \in Lines /\ w1 \in Lines
    BY DEF Lines
  <2>2. /\ v1.local = v.local /\ v1.player = pl /\ v1.client = v.client /\ v1.mail = v.mail
        /\ v1.waiting = v.waiting /\ v1.requests = v.requests \ {r} /\ v1.answers = v.answers
        /\ v1.missed = v.missed
    BY DEF Lines
  <2>3. /\ w1.local = w.local /\ w1.player = w.player /\ w1.client = w.client /\ w1.mail = w.mail
        /\ w1.waiting = w.waiting /\ w1.requests = w.requests /\ w1.answers = w.answers
        /\ w1.missed = (v.missed \/ LostOf(v, o))
    BY DEF Lines
  <2> HIDE DEF v1, w1, g
  <2>4. /\ Sound(v1)
        /\ v1.player.allow_deltas => v1.client.state # None
        /\ ~v1.player.allow_deltas => Whole(Coming(v1))
    BY <1>1, <1>3, <2>1, <2>2, AskedSound
  <2>5. /\ Answered(v1, o) <=> Answered(v, o)
        /\ LostOf(v1, o) <=> LostOf(v, o)
        /\ LeftOf(v1, o) = LeftOf(v, o) /\ GoneOf(v1, o) = GoneOf(v, o)
    BY <2>2 DEF Answered, LostOf, LeftOf, GoneOf
  <2>6. Sent(v1, o, TRUE, w1)
    BY <2>2, <2>3, <2>5 DEF Sent
  <2>7. Wrote(v1.player, GameMessages(o), w1.player)
    BY <2>2, <2>3
  <2>8. w1.client = v1.client /\ w1.requests \subseteq v1.requests
        /\ w1.missed = (v1.missed \/ LostOf(v1, o))
    BY <2>2, <2>3, <2>5
  <2>9. Sound(w1)
    BY <2>1, <2>4, <2>6, <2>7, <2>8, ServerSound
  <2>10. CASE w.missed = w1.missed
    <3>1. w = w1
      BY <2>10 DEF w1, Lines
    <3> QED
      BY <2>9, <3>1
  <2>11. CASE w.missed # w1.missed
    <3>1. v.missed /\ behind /\ ~r.allow_deltas /\ ~LostOf(v, o) /\ ~w.missed
      BY <1>1, <2>3, <2>11
    <3>2. ~v.local /\ (v.waiting # "no" \/ v.local => v.mail = <<>>)
      BY <3>1 DEF Sound, Queued
    <3>3. g \in Seq(States) /\ g # <<>> /\ Whole(g) /\ Last(g).id = w.player.state_id_sent
          /\ ~w.player.allow_deltas
      BY <3>1, <3>2 DEF Wrote, g
    <3>4. Todo(w) = Todo(v) \o g
      BY <3>1, <3>2, SentTodo, Zenon DEF g
    <3>5. Todo(v) \in Seq(States)
      BY TodoFacts
    <3>6. Todo(w1) = Todo(w)
      BY <2>3 DEF Todo, Coming, Kept
    <3> QED
      BY <2>1, <2>3, <2>9, <3>1, <3>3, <3>4, <3>5, <3>6, MadeUpSound
  <2> QED
    BY <2>10, <2>11
<1> QED
  BY <1>2, <1>3

-----------------------------------------------------------------------------
(* The lines in the behaviours of the game. *)

\* Every player's line is sound.
Sync == \A p \in Players : client[p].queue \in Seq(States) /\ Sound(Line(p))

\* What is in a player's line.
LEMMA LineParts ==
    ASSUME NEW p
    PROVE  /\ Line(p).local = local /\ Line(p).player = player[p] /\ Line(p).client = client[p]
           /\ Line(p).mail = mail[p] /\ Line(p).waiting = waiting[p] /\ Line(p).requests = requests[p]
           /\ Line(p).answers = answers[p] /\ Line(p).missed = missed[p]
           /\ Line(p)'.local = local' /\ Line(p)'.player = player'[p] /\ Line(p)'.client = client'[p]
           /\ Line(p)'.mail = mail'[p] /\ Line(p)'.waiting = waiting'[p]
           /\ Line(p)'.requests = requests'[p]
           /\ Line(p)'.answers = answers'[p] /\ Line(p)'.missed = missed'[p]
BY DEF Line

\* A line in the game's behaviours is a line.
LEMMA LineType ==
    ASSUME NEW p \in Players
    PROVE  /\ Types /\ client[p].queue \in Seq(States) => Line(p) \in Lines
           /\ Types' /\ client'[p].queue \in Seq(States) => Line(p)' \in Lines
<1>1. ASSUME Types, client[p].queue \in Seq(States) PROVE Line(p) \in Lines
  <2>1. Genuine \subseteq Message /\ Believed \subseteq PlayerRecord
    BY DEF Genuine, Believed
  <2>2. Seq(Genuine) \subseteq Seq(Message)
    BY <2>1, SeqLarger
  <2>3. Seq(Seq(Genuine)) \subseteq Seq(Seq(Message))
    BY <2>2, SeqLarger
  <2>4. client[p] \in [state_id : Ids \cup {None}, state : Ids \cup {None}, queue : Seq(States)]
    <3>1. /\ client[p] \in [state_id : Ids \cup {None}, state : Ids \cup {None}, queue : Seq(Genuine)]
      BY <1>1 DEF Types, Held
    <3> QED
      BY <1>1, <3>1
  <2>5. /\ local \in BOOLEAN /\ player[p] \in PlayerRecord /\ mail[p] \in Seq(Message)
        /\ waiting[p] \in {"no", "live", "dead"} /\ requests[p] \in SUBSET Request
        /\ answers[p] \in Seq(Seq(Message)) /\ missed[p] \in BOOLEAN
    BY <1>1, <2>1, <2>2, <2>3 DEF Types
  <2> QED
    BY <2>4, <2>5 DEF Lines, Line
<1>2. ASSUME Types', client'[p].queue \in Seq(States) PROVE Line(p)' \in Lines
  <2>1. Genuine' \subseteq Message /\ Believed' \subseteq PlayerRecord
    BY DEF Genuine, Believed
  <2>2. Seq(Genuine') \subseteq Seq(Message)
    BY <2>1, SeqLarger
  <2>3. Seq(Seq(Genuine')) \subseteq Seq(Seq(Message))
    BY <2>2, SeqLarger
  <2>4. client'[p] \in [state_id : Ids \cup {None}, state : Ids \cup {None}, queue : Seq(States)]
    <3>1. /\ client'[p] \in [state_id : Ids \cup {None}, state : Ids \cup {None}, queue : Seq(Genuine')]
      BY <1>2 DEF Types, Held
    <3> QED
      BY <1>2, <3>1
  <2>5. /\ local' \in BOOLEAN /\ player'[p] \in PlayerRecord /\ mail'[p] \in Seq(Message)
        /\ waiting'[p] \in {"no", "live", "dead"} /\ requests'[p] \in SUBSET Request
        /\ answers'[p] \in Seq(Seq(Message)) /\ missed'[p] \in BOOLEAN
    BY <1>2, <2>1, <2>2, <2>3 DEF Types
  <2> QED
    BY <2>4, <2>5 DEF Lines, Line
<1> QED
  BY <1>1, <1>2

\* A step that changes one line, or none.
LEMMA OneLine ==
    ASSUME IInv, IInv', Sync, NEW p \in Players, client'[p].queue \in Seq(States),
           local' = local,
           \A q \in Players : q # p =>
              /\ player'[q] = player[q] /\ client'[q] = client[q] /\ mail'[q] = mail[q]
              /\ waiting'[q] = waiting[q] /\ requests'[q] = requests[q] /\ answers'[q] = answers[q]
              /\ missed'[q] = missed[q],
           Line(p) \in Lines /\ Line(p)' \in Lines /\ Sound(Line(p)) => Sound(Line(p)')
    PROVE  Sync'
<1> SUFFICES ASSUME NEW q \in Players PROVE client'[q].queue \in Seq(States) /\ Sound(Line(q)')
  BY DEF Sync
<1>1. CASE q = p
  <2>1. Line(p) \in Lines /\ Line(p)' \in Lines /\ Sound(Line(p))
    BY LineType DEF IInv, Sync
  <2> QED
    BY <1>1, <2>1
<1>2. CASE q # p
  <2>1. Line(q)' = Line(q)
    BY <1>2 DEF Line
  <2> QED
    BY <1>2, <2>1 DEF Sync
<1> QED
  BY <1>1, <1>2

\* process.
LEMMA ApplySync == ASSUME IInv, IInv', Sync, NEW p \in Players, Apply(p) PROVE Sync'
<1> DEFINE c == client[p]
           m == Head(c.queue)
           v == Line(p)
           w == Line(p)'
<1>1. /\ c.queue # <<>>
      /\ client' = [client EXCEPT ![p] =
            IF m.id > c.state_id /\ NewState(c, m) # None
            THEN [state_id |-> m.id, state |-> NewState(c, m), queue |-> Tail(c.queue)]
            ELSE [c EXCEPT !.queue = Tail(@)]]
      /\ UNCHANGED <<local, player, mail, waiting, requests, answers, missed>>
  BY DEF Apply, game, network
<1>2. client \in [Players -> Held] /\ c.queue \in Seq(States)
  BY DEF IInv, Types, Sync
<1>3. \A q \in Players : q # p => client'[q] = client[q]
  BY <1>1, <1>2
<1>4. /\ client'[p].queue = Tail(c.queue)
      /\ IF m.id > c.state_id /\ NewState(c, m) # None
         THEN client'[p].state_id = m.id /\ client'[p].state = NewState(c, m)
         ELSE client'[p].state_id = c.state_id /\ client'[p].state = c.state
  BY <1>1, <1>2 DEF Held
<1>5. client'[p].queue \in Seq(States)
  BY <1>1, <1>2, <1>4
<1>6. /\ w.local = v.local /\ w.player = v.player /\ w.mail = v.mail /\ w.waiting = v.waiting
      /\ w.requests = v.requests /\ w.answers = v.answers /\ w.missed = v.missed
      /\ c = v.client /\ client'[p] = w.client
  <2>1. UNCHANGED <<local, player, mail, waiting, requests, answers, missed>>
    BY <1>1
  <2> QED
    BY <2>1, LineParts
<1> HIDE DEF v, w, c
<1>7. v \in Lines /\ w \in Lines /\ Sound(v) => Sound(w)
  BY <1>1, <1>4, <1>6, ApplySound
<1> QED
  BY <1>1, <1>3, <1>5, <1>7, OneLine DEF v, w

\* recv_handler and message_received.
LEMMA ReceiveSync == ASSUME IInv, IInv', Sync, NEW p \in Players, Receive(p) PROVE Sync'
<1> DEFINE v == Line(p)
           w == Line(p)'
<1>1. PICK i \in DOMAIN answers[p] : (local => i = 1) /\ ReceiveAt(p, i)
  BY DEF Receive
<1>2. /\ client \in [Players -> Held] /\ answers \in [Players -> Seq(Seq(Genuine))]
      /\ missed \in [Players -> BOOLEAN] /\ client[p].queue \in Seq(States)
  BY DEF IInv, Types, Sync
<1>3. /\ client' = [client EXCEPT ![p].queue = @ \o GameMessages(answers[p][i])]
      /\ answers' = [answers EXCEPT ![p] = RemoveAt(@, i)]
      /\ missed' = [missed EXCEPT ![p] = @ \/ (HasState(answers[p][i])
                                               /\ \E j \in 1 .. i - 1 : HasState(answers[p][j]))]
      /\ UNCHANGED <<local, player, mail, waiting, requests>>
  BY <1>1 DEF ReceiveAt, game
<1>4. \A q \in Players : q # p =>
         client'[q] = client[q] /\ answers'[q] = answers[q] /\ missed'[q] = missed[q]
  BY <1>2, <1>3
<1>5. /\ client'[p].queue = client[p].queue \o GameMessages(answers[p][i])
      /\ client'[p].state_id = client[p].state_id /\ client'[p].state = client[p].state
  BY <1>2, <1>3 DEF Held
<1>6. /\ answers'[p] = RemoveAt(answers[p], i)
      /\ missed'[p] = (missed[p] \/ (/\ HasState(answers[p][i])
                                     /\ \E j \in 1 .. i - 1 : HasState(answers[p][j])))
  BY <1>2, <1>3
<1>7. i \in 1 .. Len(answers[p])
  BY <1>1, <1>2
<1>8. client'[p].queue \in Seq(States)
  <2>1. answers[p][i] \in Seq(Genuine)
    BY <1>2, <1>7
  <2>2. answers[p][i] \in Seq(Message)
    BY <2>1, SeqLarger DEF Genuine
  <2>3. GameMessages(answers[p][i]) \in Seq(States)
    BY <2>2, GameMessagesStates
  <2> QED
    BY <1>2, <1>5, <2>3
<1>9. /\ w.local = v.local /\ w.player = v.player /\ w.mail = v.mail /\ w.waiting = v.waiting
      /\ w.requests = v.requests /\ i \in 1 .. Len(v.answers) /\ (v.local => i = 1)
      /\ w.client.state_id = v.client.state_id /\ w.client.state = v.client.state
      /\ w.client.queue = v.client.queue \o GameMessages(v.answers[i])
      /\ w.answers = RemoveAt(v.answers, i)
  <2>1. UNCHANGED <<local, player, mail, waiting, requests>> /\ (local => i = 1)
    BY <1>1, <1>3
  <2>2. answers'[p] = RemoveAt(answers[p], i)
    BY <1>6
  <2>3. /\ v.local = local /\ v.client = client[p] /\ v.answers = answers[p]
        /\ w.client = client'[p] /\ w.answers = answers'[p]
    BY LineParts
  <2>4. /\ w.local = v.local /\ w.player = v.player /\ w.mail = v.mail /\ w.waiting = v.waiting
        /\ w.requests = v.requests
    BY <2>1, LineParts
  <2> HIDE DEF v, w
  <2> QED
    BY <1>5, <1>7, <2>1, <2>2, <2>3, <2>4
<1>10. w.missed = (v.missed \/ (/\ HasState(v.answers[i])
                                /\ \E j \in 1 .. i - 1 : HasState(v.answers[j])))
  <2>1. w.missed = missed'[p] /\ v.missed = missed[p] /\ v.answers = answers[p]
    BY LineParts
  <2> QED
    BY <1>6, <2>1, Zenon
<1> HIDE DEF v, w
<1>11. v \in Lines /\ w \in Lines /\ Sound(v) => Sound(w)
  BY <1>9, <1>10, ReceiveSound
<1> QED
  BY <1>3, <1>4, <1>8, <1>11, OneLine DEF v, w

\* heartbeat_internal.
LEMMA HeartbeatSync == ASSUME IInv, IInv', Sync, NEW p \in Players, Heartbeat(p) PROVE Sync'
<1> DEFINE v == Line(p)
           w == Line(p)'
<1>1. /\ waiting[p] # "no"
      /\ answers' = [answers EXCEPT ![p] = IF waiting[p] = "live" THEN Append(@, <<>>) ELSE @]
      /\ waiting' = [waiting EXCEPT ![p] = "no"]
      /\ UNCHANGED <<local, player, mail, requests, client, missed>>
  BY DEF Heartbeat, game
<1>2. /\ answers \in [Players -> Seq(Seq(Genuine))] /\ waiting \in [Players -> {"no", "live", "dead"}]
      /\ client[p].queue \in Seq(States)
  BY DEF IInv, Types, Sync
<1>3. /\ \A q \in Players : q # p => answers'[q] = answers[q] /\ waiting'[q] = waiting[q]
      /\ answers'[p] = IF waiting[p] = "live" THEN Append(answers[p], <<>>) ELSE answers[p]
      /\ waiting'[p] = "no"
  BY <1>1, <1>2
<1>4. /\ v.waiting # "no" /\ w.waiting = "no"
      /\ w.local = v.local /\ w.player = v.player /\ w.client = v.client /\ w.mail = v.mail
      /\ w.requests = v.requests /\ w.missed = v.missed
      /\ w.answers = IF v.waiting = "live" THEN Append(v.answers, <<>>) ELSE v.answers
  BY <1>1, <1>3, LineParts
<1> HIDE DEF v, w
<1>5. v \in Lines /\ w \in Lines /\ Sound(v) => Sound(w)
  BY <1>4, HeartbeatSound
<1> QED
  BY <1>1, <1>2, <1>3, <1>5, OneLine DEF v, w

\* A new client.
LEMMA RestartSync == ASSUME IInv, IInv', Sync, NEW p \in Players, Restart(p) PROVE Sync'
<1> DEFINE v == Line(p)
           w == Line(p)'
<1>1. /\ ~local /\ requests[p] = {}
      /\ client' = [client EXCEPT ![p] = NewClient]
      /\ answers' = [answers EXCEPT ![p] = <<>>]
      /\ waiting' = [waiting EXCEPT ![p] = IF @ = "live" THEN "dead" ELSE @]
      /\ missed' = [missed EXCEPT ![p] = TRUE]
      /\ UNCHANGED <<local, player, mail, requests>>
  BY DEF Restart, game
<1>2. /\ answers \in [Players -> Seq(Seq(Genuine))] /\ waiting \in [Players -> {"no", "live", "dead"}]
      /\ client \in [Players -> Held] /\ missed \in [Players -> BOOLEAN]
  BY DEF IInv, Types
<1>3. /\ \A q \in Players : q # p => /\ answers'[q] = answers[q] /\ waiting'[q] = waiting[q]
                                     /\ client'[q] = client[q] /\ missed'[q] = missed[q]
      /\ answers'[p] = <<>> /\ client'[p] = NewClient /\ missed'[p]
      /\ waiting'[p] = IF waiting[p] = "live" THEN "dead" ELSE waiting[p]
  BY <1>1, <1>2
<1>4. client'[p].queue \in Seq(States)
  <2>1. <<>> \in Seq(States)
    OBVIOUS
  <2> QED
    BY <1>3, <2>1 DEF NewClient
<1>5. /\ ~v.local /\ v.requests = {}
      /\ w.local = v.local /\ w.player = v.player /\ w.mail = v.mail /\ w.requests = v.requests
      /\ w.client = NewClient /\ w.answers = <<>> /\ w.missed
      /\ w.waiting = IF v.waiting = "live" THEN "dead" ELSE v.waiting
  <2>1. ~local /\ requests[p] = {} /\ UNCHANGED <<local, player, mail, requests>>
    BY <1>1
  <2> QED
    BY <1>3, <2>1, LineParts
<1> HIDE DEF v, w
<1>6. v \in Lines /\ w \in Lines /\ Sound(v) => Sound(w)
  BY <1>5, RestartSound
<1> QED
  BY <1>1, <1>3, <1>4, <1>6, OneLine DEF v, w

\* A broken connection.
LEMMA LoseSync == ASSUME IInv, IInv', Sync, NEW p \in Players, Lose(p) PROVE Sync'
<1> DEFINE v == Line(p)
           w == Line(p)'
<1>1. ~local /\ UNCHANGED <<local, player, mail, client>>
  BY DEF Lose, game
<1>2. /\ answers \in [Players -> Seq(Seq(Genuine))] /\ waiting \in [Players -> {"no", "live", "dead"}]
      /\ requests \in [Players -> SUBSET Request] /\ missed \in [Players -> BOOLEAN]
      /\ client'[p].queue \in Seq(States)
  BY <1>1 DEF IInv, Types, Sync
<1>3. ASSUME NEW r \in requests[p], requests' = [requests EXCEPT ![p] = @ \ {r}],
             UNCHANGED <<answers, waiting, missed>>
      PROVE  Sync'
  <2>1. /\ \A q \in Players : q # p => requests'[q] = requests[q]
        /\ requests'[p] \subseteq requests[p]
    BY <1>2, <1>3
  <2>2. /\ w.local = v.local /\ w.player = v.player /\ w.client = v.client /\ w.mail = v.mail
        /\ w.waiting = v.waiting /\ w.answers = v.answers /\ w.missed = v.missed
        /\ w.requests \subseteq v.requests
    BY <1>1, <1>3, <2>1, LineParts
  <2> HIDE DEF v, w
  <2>3. v \in Lines /\ w \in Lines /\ Sound(v) => Sound(w)
    BY <2>2, LoseRequestSound
  <2> QED
    BY <1>1, <1>2, <1>3, <2>1, <2>3, OneLine DEF v, w
<1>4. ASSUME NEW i \in DOMAIN answers[p], answers' = [answers EXCEPT ![p] = RemoveAt(@, i)],
             missed' = [missed EXCEPT ![p] = @ \/ HasState(answers[p][i])],
             UNCHANGED <<requests, waiting>>
      PROVE  Sync'
  <2>1. /\ \A q \in Players : q # p => answers'[q] = answers[q] /\ missed'[q] = missed[q]
        /\ answers'[p] = RemoveAt(answers[p], i) /\ missed'[p] = (missed[p] \/ HasState(answers[p][i]))
        /\ i \in 1 .. Len(answers[p])
    BY <1>2, <1>4
  <2>2. /\ w.local = v.local /\ w.player = v.player /\ w.client = v.client /\ w.mail = v.mail
        /\ w.waiting = v.waiting /\ w.requests = v.requests /\ ~v.local
        /\ w.answers = RemoveAt(v.answers, i) /\ w.missed = (v.missed \/ HasState(v.answers[i]))
        /\ i \in 1 .. Len(v.answers)
    BY <1>1, <1>4, <2>1, LineParts
  <2> HIDE DEF v, w
  <2>3. v \in Lines /\ w \in Lines /\ Sound(v) => Sound(w)
    BY <2>2, LoseAnswerSound
  <2> QED
    BY <1>1, <1>2, <1>4, <2>1, <2>3, OneLine DEF v, w
<1>5. ASSUME waiting[p] = "live", waiting' = [waiting EXCEPT ![p] = "dead"],
             UNCHANGED <<requests, answers, missed>>
      PROVE  Sync'
  <2>1. /\ \A q \in Players : q # p => waiting'[q] = waiting[q]
        /\ waiting'[p] = "dead"
    BY <1>2, <1>5
  <2>2. /\ w.local = v.local /\ w.player = v.player /\ w.client = v.client /\ w.mail = v.mail
        /\ w.requests = v.requests /\ w.answers = v.answers /\ w.missed = v.missed
        /\ v.waiting = "live" /\ w.waiting = "dead"
    BY <1>1, <1>5, <2>1, LineParts
  <2> HIDE DEF v, w
  <2>3. v \in Lines /\ w \in Lines /\ Sound(v) => Sound(w)
    BY <2>2, LoseWaitSound
  <2> QED
    BY <1>1, <1>2, <1>5, <2>1, <2>3, OneLine DEF v, w
<1> QED
  BY <1>3, <1>4, <1>5 DEF Lose

\* send.
LEMMA ActSync == ASSUME IInv, IInv', Sync, NEW p \in Players, Act(p) PROVE Sync'
<1> DEFINE v == Line(p)
           w == Line(p)'
<1>1. PICK r \in Request :
         /\ r.type # "request_updates"
         /\ r.type = "start_game" => player[p].state_id_sent = None
         /\ r.type = "move" => client[p].state # None
         /\ r.type = "restore_state" => client[p].state # None
         /\ requests' = [requests EXCEPT ![p] = @ \cup {r}]
  BY DEF Act
<1>2. UNCHANGED <<local, player, mail, waiting, answers, client, missed>>
  BY DEF Act, game
<1>3. /\ requests'[p] = requests[p] \cup {r}
      /\ \A q \in Players : q # p => requests'[q] = requests[q]
  BY <1>1 DEF IInv, Types
<1>4. client'[p].queue \in Seq(States)
  BY <1>2 DEF Sync
<1>5. /\ r.type = "start_game" => v.player.state_id_sent = None
      /\ r.type \in {"move", "restore_state"} => v.client.state # None
      /\ w.local = v.local /\ w.player = v.player /\ w.client = v.client /\ w.mail = v.mail
      /\ w.waiting = v.waiting /\ w.answers = v.answers /\ w.missed = v.missed
      /\ w.requests = v.requests \cup {r}
  <2>1. /\ w.local = v.local /\ w.player = v.player /\ w.client = v.client /\ w.mail = v.mail
        /\ w.waiting = v.waiting /\ w.answers = v.answers /\ w.missed = v.missed
    BY <1>2, LineParts
  <2>2. /\ v.player = player[p] /\ v.client = client[p] /\ v.requests = requests[p]
        /\ w.requests = requests'[p]
    BY LineParts
  <2> HIDE DEF v, w
  <2> QED
    BY <1>1, <1>3, <2>1, <2>2
<1> HIDE DEF v, w
<1>6. v \in Lines /\ w \in Lines /\ Sound(v) => Sound(w)
  BY <1>1, <1>5, ActSound
<1> QED
  BY <1>2, <1>3, <1>4, <1>6, OneLine DEF v, w

\* pump_client.
LEMMA PollSync == ASSUME IInv, IInv', Sync, NEW p \in Players, Poll(p) PROVE Sync'
<1> DEFINE v == Line(p)
           w == Line(p)'
           r == [type |-> "request_updates", state_id |-> MostRecentKnown(client[p]),
                 allow_deltas |-> client[p].state # None]
<1>1. UNCHANGED <<local, player, mail, waiting, answers, client, missed>>
  BY DEF Poll, game
<1>2. /\ requests \in [Players -> SUBSET Request] /\ client[p] \in Held
      /\ answers[p] \in Seq(Seq(Genuine)) /\ local \in BOOLEAN
      /\ client[p].queue \in Seq(States) /\ IsFiniteSet(requests[p])
  BY DEF IInv, Types, Sync, Sound, Requested, Line
<1>3. requests' = [requests EXCEPT ![p] = @ \cup {r}]
  BY DEF Poll
<1>4. requests[p] = {} /\ (~local => answers[p] = <<>> /\ waiting[p] # "live")
  <2>1. CASE local
    BY <2>1 DEF Poll
  <2>2. CASE ~local
    <3>1. InFlight(p) = 0
      BY <2>2 DEF Poll
    <3>2. /\ Cardinality(requests[p]) \in Nat /\ Len(answers[p]) \in Nat
          /\ Cardinality(requests[p]) = 0 <=> requests[p] = {}
      BY <1>2, FS_CardinalityType, FS_EmptySet
    <3>3. Cardinality(requests[p]) = 0 /\ Len(answers[p]) = 0 /\ waiting[p] # "live"
      <4>1. Cardinality(requests[p]) + Len(answers[p]) + (IF waiting[p] = "live" THEN 1 ELSE 0) = 0
        BY <3>1 DEF InFlight
      <4> QED
        BY <3>2, <4>1
    <3> QED
      BY <1>2, <3>2, <3>3, EmptySeq
  <2> QED
    BY <2>1, <2>2
<1>5. /\ r \in Request /\ r.type = "request_updates"
      /\ r.state_id = MostRecentKnown(client[p]) /\ r.allow_deltas = (client[p].state # None)
  BY <1>2, MostRecentFacts DEF Request
<1>6. /\ r.state_id = client[p].state_id
         \/ \E i \in 1 .. Len(client[p].queue) : r.state_id = client[p].queue[i].id
  <2>1. DOMAIN client[p].queue = 1 .. Len(client[p].queue)
    BY <1>2
  <2> QED
    BY <1>2, <1>5, <2>1, MostRecentFacts
<1> HIDE DEF r
<1>7. /\ requests'[p] = {r}
      /\ \A q \in Players : q # p => requests'[q] = requests[q]
  BY <1>2, <1>3, <1>4
<1>8. client'[p].queue \in Seq(States)
  BY <1>1, <1>2
<1>9. /\ v.requests = {}
      /\ ~v.local => v.answers = <<>> /\ v.waiting # "live"
      /\ r.allow_deltas = (v.client.state # None)
      /\ \/ r.state_id = v.client.state_id
         \/ \E i \in 1 .. Len(v.client.queue) : r.state_id = v.client.queue[i].id
      /\ w.local = v.local /\ w.player = v.player /\ w.client = v.client /\ w.mail = v.mail
      /\ w.waiting = v.waiting /\ w.answers = v.answers /\ w.missed = v.missed
      /\ w.requests = {r}
  <2>1. /\ w.local = v.local /\ w.player = v.player /\ w.client = v.client /\ w.mail = v.mail
        /\ w.waiting = v.waiting /\ w.answers = v.answers /\ w.missed = v.missed
    BY <1>1, LineParts
  <2>2. /\ v.client = client[p] /\ v.requests = requests[p] /\ v.local = local
        /\ v.answers = answers[p] /\ v.waiting = waiting[p] /\ w.requests = requests'[p]
    BY LineParts
  <2> HIDE DEF v, w
  <2> QED
    BY <1>4, <1>5, <1>6, <1>7, <2>1, <2>2
<1> HIDE DEF v, w
<1>10. v \in Lines /\ w \in Lines /\ Sound(v) => Sound(w)
  BY <1>5, <1>9, PollSound
<1> QED
  BY <1>1, <1>7, <1>8, <1>10, OneLine DEF v, w

-----------------------------------------------------------------------------
(* The steps of the server. *)

\* What Transmit does to a line.
LEMMA TransmitSent ==
    ASSUME NEW asking, NEW out, Transmit(asking, out), local' = local, NEW q \in Players
    PROVE  /\ Sent(Line(q), out[q], q \in asking, Line(q)')
           /\ LostOn(q, out[q]) = LostOf(Line(q), out[q])
<1> DEFINE v == Line(q)
           w == Line(q)'
           o == out[q]
<1>1. /\ v.local = local /\ v.mail = mail[q] /\ v.answers = answers[q] /\ v.waiting = waiting[q]
      /\ w.local = local' /\ w.mail = mail'[q] /\ w.answers = answers'[q] /\ w.waiting = waiting'[q]
  BY LineParts
<1>2. /\ mail'[q] = IF local \/ q \in asking THEN <<>> ELSE Left(q, o)
      /\ answers'[q] = IF local THEN answers[q] \o [i \in DOMAIN o |-> <<o[i]>>]
                       ELSE IF q \in asking /\ Left(q, o) # <<>>
                            THEN Append(Arriving(q, o), Left(q, o)) ELSE Arriving(q, o)
      /\ waiting'[q] = IF local THEN "no" ELSE IF q \in asking /\ Left(q, o) = <<>> THEN "live"
                       ELSE IF Answers(q, o) THEN "no" ELSE waiting[q]
  BY DEF Transmit
<1> HIDE DEF v, w, o
<1>3. /\ Answers(q, o) <=> Answered(v, o)
      /\ Left(q, o) = LeftOf(v, o) /\ Arriving(q, o) = GoneOf(v, o)
      /\ LostOn(q, o) = LostOf(v, o)
  BY <1>1 DEF Answers, Answered, Left, LeftOf, Arriving, GoneOf, LostOn, LostOf
<1>4. Sent(v, o, q \in asking, w)
  BY <1>1, <1>2, <1>3 DEF Sent
<1> QED
  BY <1>3, <1>4 DEF v, w, o

\* What the server believes of a player.
LEMMA PlayerFacts ==
    ASSUME IInv, Sync, NEW q \in Players
    PROVE  /\ player[q] \in PlayerRecord /\ player[q].state_id_sent <= state_id
           /\ player[q].confirmed_state_id <= player[q].state_id_sent
           /\ state_id \in Ids /\ document[state_id] \in Ids
<1>1. player[q] \in Believed /\ state_id \in Ids /\ document \in [0 .. state_id -> Ids]
  BY DEF IInv, Types
<1>2. player[q] \in PlayerRecord
  BY <1>1 DEF Believed
<1>3. player[q].state_id_sent <= state_id
  BY <1>1, GameSyncAssumption DEF Believed, Ids, None
<1>4. player[q].confirmed_state_id <= player[q].state_id_sent
  BY DEF Sync, Sound, Newest, Line
<1>5. document[state_id] \in Ids
  BY <1>1, GameSyncAssumption DEF Ids
<1> QED
  BY <1>1, <1>2, <1>3, <1>4, <1>5

\* A player whose action is on its way has a state to apply deltas to, or is sent none.
LEMMA ActingFacts ==
    ASSUME Sync, NEW p \in Players, NEW r \in requests[p], r.type # "request_updates"
    PROVE  LET v == Line(p)
           IN  /\ v.player.allow_deltas => v.client.state # None
               /\ ~v.player.allow_deltas => Whole(Coming(v))
<1> DEFINE v == Line(p)
<1>1. v.requests = requests[p] /\ Sound(v)
  BY LineParts DEF Sync
<1> HIDE DEF v
<1>2. v.requests # {} /\ \E s \in v.requests : s.type # "request_updates"
  BY <1>1
<1>3. v.player.allow_deltas => v.client.state # None
  BY <1>1, <1>2 DEF Sound, Fresh
<1>4. ~v.player.allow_deltas => Whole(Coming(v))
  BY <1>1, <1>2 DEF Sound, Leftover
<1> QED
  BY <1>3, <1>4 DEF v

\* Everybody is sent something.
LEMMA SendToAllSync ==
    ASSUME IInv, IInv', Sync, NEW asking, NEW sent, SendToAll(asking, sent),
           \A q \in Players : requests'[q] \subseteq requests[q],
           \A q \in Players : /\ sent[q].out \in Outgoing
                              /\ Wrote(player[q], GameMessages(sent[q].out), sent[q].player),
           \A q \in Players : q \in asking =>
              \E r \in requests[q] : r.type # "request_updates"
    PROVE  Sync'
<1> DEFINE out == [q \in Players |-> sent[q].out]
<1>1. /\ player' = [q \in Players |-> sent[q].player]
      /\ Transmit(asking, out)
      /\ missed' = [q \in Players |-> missed[q] \/ LostOn(q, out[q])]
      /\ UNCHANGED <<local, client>>
  BY DEF SendToAll
<1>2. \A q \in Players : out[q] = sent[q].out
  OBVIOUS
<1> HIDE DEF out
<1> SUFFICES ASSUME NEW q \in Players PROVE client'[q].queue \in Seq(States) /\ Sound(Line(q)')
  BY DEF Sync
<1>3. client[q].queue \in Seq(States) /\ client'[q].queue \in Seq(States) /\ Sound(Line(q))
  BY <1>1 DEF Sync
<1> DEFINE v == Line(q)
           w == Line(q)'
           o == out[q]
           asks == q \in asking
<1>4. v \in Lines /\ w \in Lines
  BY <1>3, LineType DEF IInv
<1>5. Sent(v, o, asks, w) /\ (LostOn(q, o) = LostOf(v, o))
  BY <1>1, TransmitSent
<1>6. asks => /\ v.player.allow_deltas => v.client.state # None
              /\ ~v.player.allow_deltas => Whole(Coming(v))
  BY ActingFacts
<1>7. o \in Outgoing /\ asks \in BOOLEAN
  BY <1>2
<1>8. /\ w.client = v.client /\ w.requests \subseteq v.requests
      /\ Wrote(v.player, GameMessages(o), w.player)
  <2>1. v.client = client[q] /\ w.client = client'[q] /\ v.requests = requests[q]
        /\ w.requests = requests'[q] /\ v.player = player[q] /\ w.player = player'[q]
    BY LineParts
  <2>2. player'[q] = sent[q].player /\ client'[q] = client[q]
    BY <1>1
  <2>3. Wrote(player[q], GameMessages(o), sent[q].player) /\ requests'[q] \subseteq requests[q]
    BY <1>2
  <2> HIDE DEF v, w, o
  <2> QED
    BY <2>1, <2>2, <2>3
<1>9. w.missed = (v.missed \/ LostOf(v, o))
  <2>1. w.missed = missed'[q] /\ v.missed = missed[q]
    BY LineParts
  <2>2. missed'[q] = (missed[q] \/ LostOn(q, o))
    BY <1>1
  <2> HIDE DEF v, w, o
  <2> QED
    BY <1>5, <2>1, <2>2
<1>10. Sound(v)
  BY <1>3
<1> HIDE DEF v, w, o, asks
<1>11. Sound(w)
  BY <1>4, <1>5, <1>6, <1>7, <1>8, <1>9, <1>10, ServerSound
<1> QED
  BY <1>3, <1>11 DEF w

\* A state for everybody.
LEMMA StateSync ==
    ASSUME IInv, IInv', Sync, NEW asking, NEW n \in Ids, NEW d \in Ids, state_id <= n,
           SendToAll(asking, [q \in Players |-> SendGameState(player[q], n, d)]),
           \A q \in Players : requests'[q] \subseteq requests[q],
           \A q \in Players : q \in asking =>
              \E r \in requests[q] : r.type # "request_updates"
    PROVE  Sync'
<1> DEFINE sent == [q \in Players |-> SendGameState(player[q], n, d)]
<1>1. ASSUME NEW q \in Players
      PROVE  /\ sent[q].out \in Outgoing
             /\ Wrote(player[q], GameMessages(sent[q].out), sent[q].player)
  <2> DEFINE new == SendGameState(player[q], n, d)
  <2>1. player[q].state_id_sent <= n
    <3>1. /\ player[q].state_id_sent <= state_id /\ player[q] \in PlayerRecord /\ state_id \in Ids
      BY PlayerFacts
    <3>2. player[q].state_id_sent \in Int /\ state_id \in Int /\ n \in Int
      BY <3>1, RecordFacts, GameSyncAssumption DEF Ids
    <3> QED
      BY <3>1, <3>2
  <2>2. Wrote(player[q], new.out, new.player)
    BY <2>1, PlayerFacts, SendWrote
  <2>3. new.out \in Seq(States)
    BY <2>2 DEF Wrote
  <2>4. sent[q] = new
    OBVIOUS
  <2> HIDE DEF sent, new
  <2>5. new.out \in Outgoing
    BY <2>3 DEF Outgoing
  <2>6. GameMessages(new.out) = new.out
    BY <2>3, <2>5, OutgoingFacts
  <2> QED
    BY <2>2, <2>4, <2>5, <2>6
<1>2. SendToAll(asking, sent)
  OBVIOUS
<1> HIDE DEF sent
<1> QED
  BY <1>1, <1>2, SendToAllSync

\* The next state of the game has a document.
LEMMA DocumentNext == ASSUME IInv' PROVE state_id' \in Ids /\ document'[state_id'] \in Ids
<1>1. state_id' \in Ids /\ document' \in [0 .. state_id' -> Ids]
  BY DEF IInv, Types
<1>2. state_id' \in 0 .. state_id'
  BY <1>1, GameSyncAssumption DEF Ids
<1> QED
  BY <1>1, <1>2

\* start_game.
LEMMA HandleStartSync == ASSUME IInv, IInv', Sync, NEW p \in Players, HandleStart(p) PROVE Sync'
<1> DEFINE r == [type |-> "start_game"]
<1>1. /\ r \in requests[p] /\ requests' = [requests EXCEPT ![p] = @ \ {r}]
      /\ SendToAll({p}, [q \in Players |-> SendGameState(player[q], state_id, document[state_id])])
  BY DEF HandleStart
<1>2. \A q \in Players : requests'[q] \subseteq requests[q]
  BY <1>1 DEF IInv, Types
<1>3. state_id \in Ids /\ document[state_id] \in Ids /\ state_id <= state_id
  BY PlayerFacts, GameSyncAssumption DEF Ids
<1>4. \A q \in Players : q \in {p} => \E s \in requests[q] : s.type # "request_updates"
  <2>1. r.type # "request_updates"
    OBVIOUS
  <2> QED
    BY <1>1, <2>1
<1> QED
  BY <1>1, <1>2, <1>3, <1>4, StateSync

\* A move.
LEMMA HandleMoveSync == ASSUME IInv, IInv', Sync, NEW p \in Players, HandleMove(p) PROVE Sync'
<1> DEFINE r == [type |-> "move"]
<1>1. /\ r \in requests[p] /\ requests' = [requests EXCEPT ![p] = @ \ {r}]
      /\ SendToAll({p}, [q \in Players |-> SendGameState(player[q], state_id', document'[state_id'])])
      /\ state_id' \in {state_id, state_id + 1}
  BY DEF HandleMove, Advance
<1>2. \A q \in Players : requests'[q] \subseteq requests[q]
  BY <1>1 DEF IInv, Types
<1>3. state_id' \in Ids /\ document'[state_id'] \in Ids /\ state_id <= state_id'
  <2>1. state_id \in Int
    BY GameSyncAssumption DEF IInv, Types, Ids
  <2> QED
    BY <1>1, <2>1, DocumentNext
<1>4. \A q \in Players : q \in {p} => \E s \in requests[q] : s.type # "request_updates"
  <2>1. r.type # "request_updates"
    OBVIOUS
  <2> QED
    BY <1>1, <2>1
<1> QED
  BY <1>1, <1>2, <1>3, <1>4, StateSync

\* The game's own clock.
LEMMA ProcessSync == ASSUME IInv, IInv', Sync, Process PROVE Sync'
<1>1. /\ UNCHANGED requests /\ state_id' = state_id + 1
      /\ SendToAll({}, [q \in Players |-> SendGameState(player[q], state_id', document'[state_id'])])
  BY DEF Process, Advance
<1>2. \A q \in Players : requests'[q] \subseteq requests[q]
  BY <1>1
<1>3. state_id' \in Ids /\ document'[state_id'] \in Ids /\ state_id <= state_id'
  <2>1. state_id \in Int
    BY GameSyncAssumption DEF IInv, Types, Ids
  <2> QED
    BY <1>1, <2>1, DocumentNext
<1>4. \A q \in Players : q \in {} => \E s \in requests[q] : s.type # "request_updates"
  OBVIOUS
<1>5. SendToAll({}, [q \in Players |-> SendGameState(player[q], state_id', document'[state_id'])])
  BY <1>1
<1> QED
  BY <1>2, <1>3, <1>4, <1>5, StateSync

\* Requests of others.
LEMMA ElsewhereSync == ASSUME IInv, IInv', Sync, Elsewhere PROVE Sync'
<1>1. \A q \in Players : requests'[q] \subseteq requests[q]
  BY DEF Elsewhere
<1>2. \A q \in Players : q \in {} => \E s \in requests[q] : s.type # "request_updates"
  OBVIOUS
<1>3. CASE SendToAll({}, [q \in Players |-> SendGameState(player[q], state_id, document[state_id])])
  <2>1. state_id \in Ids /\ document[state_id] \in Ids /\ state_id <= state_id
    <3>1. PICK p \in Players : TRUE
      BY GameSyncAssumption
    <3> QED
      BY PlayerFacts, GameSyncAssumption DEF Ids
  <2> QED
    BY <1>1, <1>2, <1>3, <2>1, StateSync
<1>4. CASE SendToAll({}, [q \in Players |-> [player |-> player[q], out |-> <<SyncNotice>>]])
  <2> DEFINE sent == [q \in Players |-> [player |-> player[q], out |-> <<SyncNotice>>]]
  <2>1. ASSUME NEW q \in Players
        PROVE  /\ sent[q].out \in Outgoing
               /\ Wrote(player[q], GameMessages(sent[q].out), sent[q].player)
    <3>1. sent[q].out = <<SyncNotice>> /\ sent[q].player = player[q]
      OBVIOUS
    <3> HIDE DEF sent
    <3>2. sent[q].out \in Outgoing /\ GameMessages(sent[q].out) = <<>>
      BY <3>1, OutgoingFacts DEF Outgoing
    <3>3. Wrote(player[q], <<>>, player[q])
      BY PlayerFacts, WroteNothing
    <3> QED
      BY <3>1, <3>2, <3>3
  <2> HIDE DEF sent
  <2> QED
    BY <1>1, <1>2, <1>4, <2>1, SendToAllSync DEF sent
<1> QED
  BY <1>3, <1>4 DEF Elsewhere

\* restore_state.
LEMMA HandleRestoreSync == ASSUME IInv, IInv', Sync, NEW p \in Players, HandleRestore(p) PROVE Sync'
<1> DEFINE n == state_id + 1
<1>1. PICK r \in requests[p] :
         /\ r.type = "restore_state"
         /\ requests' = [requests EXCEPT ![p] = @ \ {r}]
         /\ state_id' \in {n, n + 1}
         /\ SendToAll({p}, [q \in Players |->
               SendTwice(player[q], n, Restored(r.state_id), state_id', document'[state_id'])])
  BY DEF HandleRestore, Advance
<1> DEFINE d == Restored(r.state_id)
           sent == [q \in Players |-> SendTwice(player[q], n, d, state_id', document'[state_id'])]
<1>2. \A q \in Players : requests'[q] \subseteq requests[q]
  BY <1>1 DEF IInv, Types
<1>3. /\ state_id' \in Ids /\ document'[state_id'] \in Ids /\ d \in Ids
      /\ n \in Ids /\ state_id \in Ids /\ n <= state_id'
  <2>1. state_id \in Ids /\ state_id' \in Ids /\ document'[state_id'] \in Ids /\ d \in Ids
    BY DocumentNext, RestoredFacts DEF IInv, Types
  <2>2. n \in Ids /\ n <= state_id'
    BY <1>1, <2>1, GameSyncAssumption DEF Ids
  <2> QED
    BY <2>1, <2>2
<1>4. \A q \in Players : q \in {p} => \E s \in requests[q] : s.type # "request_updates"
  BY <1>1
<1>5. ASSUME NEW q \in Players
      PROVE  /\ sent[q].out \in Outgoing
             /\ Wrote(player[q], GameMessages(sent[q].out), sent[q].player)
  <2> DEFINE new == SendTwice(player[q], n, d, state_id', document'[state_id'])
  <2>1. sent[q] = new
    OBVIOUS
  <2>2. player[q].state_id_sent <= n /\ player[q] \in PlayerRecord
        /\ player[q].confirmed_state_id <= player[q].state_id_sent
    <3>1. /\ player[q].state_id_sent <= state_id /\ player[q] \in PlayerRecord
          /\ player[q].confirmed_state_id <= player[q].state_id_sent
      BY PlayerFacts
    <3>2. player[q].state_id_sent \in Int /\ state_id \in Int
      BY <1>3, <3>1, RecordFacts, GameSyncAssumption DEF Ids
    <3> QED
      BY <3>1, <3>2
  <2> HIDE DEF n, d, sent
  <2>3. Wrote(player[q], new.out, new.player)
    BY <1>3, <2>2, SendTwiceWrote
  <2>4. new.out \in Seq(States)
    BY <2>3 DEF Wrote
  <2> HIDE DEF new
  <2>5. new.out \in Outgoing
    BY <2>4 DEF Outgoing
  <2>6. GameMessages(new.out) = new.out
    BY <2>4, <2>5, OutgoingFacts
  <2> QED
    BY <2>1, <2>3, <2>5, <2>6
<1>6. SendToAll({p}, sent)
  BY <1>1
<1> HIDE DEF sent
<1> QED
  BY <1>2, <1>4, <1>5, <1>6, SendToAllSync

\* request_updates: the record of the player that is sent something, and what it is sent.
LEMMA UpdateWrote ==
    ASSUME NEW pl \in PlayerRecord, state_id \in Ids, NEW d \in Ids, NEW r \in Request,
           r.type = "request_updates", r.state_id <= pl.state_id_sent,
           pl.confirmed_state_id <= pl.state_id_sent, pl.state_id_sent <= state_id
    PROVE  LET asked  == Asked(pl, r)
               noted  == Noted(asked, r)
               behind == r.state_id # state_id
               new    == SendGameState(noted, state_id, d)
           IN  /\ asked \in PlayerRecord /\ asked.allow_deltas = r.allow_deltas
               /\ asked.state_id_sent = pl.state_id_sent
               /\ asked.confirmed_state_id <= pl.state_id_sent
               /\ noted \in PlayerRecord /\ noted.allow_deltas = r.allow_deltas
               /\ noted.state_id_sent = pl.state_id_sent
               /\ noted.confirmed_state_id <= pl.state_id_sent
               /\ Wrote(noted, new.out, new.player)
               /\ behind /\ ~local => new.out # <<>>
               /\ ~behind => [asked EXCEPT !.confirmed_state_id = state_id] \in PlayerRecord
               /\ ~behind => state_id <= pl.state_id_sent
<1> DEFINE asked == Asked(pl, r)
           noted == Noted(asked, r)
<1>1. r.state_id \in Ids \cup {None} /\ r.allow_deltas \in BOOLEAN
  BY DEF Request
<1>2. /\ asked \in PlayerRecord /\ asked.allow_deltas = r.allow_deltas
      /\ asked.state_id_sent = pl.state_id_sent
      /\ asked.confirmed_state_id = pl.confirmed_state_id
  BY <1>1 DEF Asked, PlayerRecord
<1>3. /\ noted \in PlayerRecord /\ noted.allow_deltas = asked.allow_deltas
      /\ noted.state_id_sent = asked.state_id_sent
      /\ noted.confirmed_state_id \in {asked.confirmed_state_id, r.state_id}
  <2> HIDE DEF asked
  <2> QED
    BY <1>1, <1>2 DEF Noted, PlayerRecord
<1>4. [asked EXCEPT !.confirmed_state_id = state_id] \in PlayerRecord
  <2> HIDE DEF asked
  <2> QED
    BY <1>2 DEF PlayerRecord
<1> HIDE DEF asked, noted
<1>5. noted.confirmed_state_id <= pl.state_id_sent /\ asked.confirmed_state_id <= pl.state_id_sent
  BY <1>2, <1>3
<1>6. LET new == SendGameState(noted, state_id, d)
      IN  /\ Wrote(noted, new.out, new.player)
          /\ ~(local /\ noted.confirmed_state_id = state_id) => new.out # <<>>
  BY <1>2, <1>3, <1>5, SendWrote
<1> QED
  BY <1>2, <1>3, <1>4, <1>5, <1>6 DEF asked, noted

\* request_updates.
LEMMA HandleUpdatesSync ==
    ASSUME IInv, IInv', Sync, NEW p \in Players, HandleUpdates(p)
    PROVE  Sync'
<1>1. PICK r \in requests[p] :
         LET asked == Asked(player[p], r)
             sent  == SendGameState(Noted(asked, r), state_id, document[state_id])
             behind  == r.state_id # state_id
             confirm == ~behind /\ asked.confirmed_state_id # state_id
             out == [q \in Players |->
                        IF q = p THEN IF behind THEN sent.out ELSE <<>>
                        ELSE IF confirm THEN <<SyncNotice>> ELSE <<>>]
         IN  /\ r.type = "request_updates"
             /\ requests' = [requests EXCEPT ![p] = @ \ {r}]
             /\ player' = [player EXCEPT ![p] =
                   CASE behind  -> sent.player
                     [] confirm -> [asked EXCEPT !.confirmed_state_id = state_id]
                     [] ~behind /\ ~confirm -> asked]
             /\ Transmit({p}, out)
             /\ missed' = [q \in Players |->
                   \/ LostOn(q, out[q])
                   \/ missed[q] /\ ~(q = p /\ behind /\ ~r.allow_deltas)]
             /\ UNCHANGED <<local, client>>
  BY DEF HandleUpdates
<1> DEFINE asked == Asked(player[p], r)
           noted == Noted(asked, r)
           sent  == SendGameState(noted, state_id, document[state_id])
           behind  == r.state_id # state_id
           confirm == ~behind /\ asked.confirmed_state_id # state_id
           out == [q \in Players |->
                      IF q = p THEN IF behind THEN sent.out ELSE <<>>
                      ELSE IF confirm THEN <<SyncNotice>> ELSE <<>>]
<1>2. r.type = "request_updates" /\ UNCHANGED <<local, client>>
  BY <1>1
<1>3. /\ requests \in [Players -> SUBSET Request] /\ player \in [Players -> Believed]
      /\ client[p] \in Held /\ r \in Request
  BY DEF IInv, Types
<1>4. Transmit({p}, out)
  BY <1>1
<1>5. /\ requests'[p] = requests[p] \ {r}
      /\ \A q \in Players : q # p => requests'[q] = requests[q]
  BY <1>1, <1>3
<1>6. /\ player'[p] = CASE behind  -> sent.player
                        [] confirm -> [asked EXCEPT !.confirmed_state_id = state_id]
                        [] ~behind /\ ~confirm -> asked
      /\ \A q \in Players : q # p => player'[q] = player[q]
  BY <1>1, <1>3
<1>7. missed' = [q \in Players |->
                   \/ LostOn(q, out[q])
                   \/ missed[q] /\ ~(q = p /\ behind /\ ~r.allow_deltas)]
  BY <1>1
<1>8. /\ out[p] = IF behind THEN sent.out ELSE <<>>
      /\ \A q \in Players : q # p => out[q] \in {<<>>, <<SyncNotice>>}
  OBVIOUS
<1>9. /\ asked \in PlayerRecord /\ asked.allow_deltas = r.allow_deltas
      /\ asked.state_id_sent = player[p].state_id_sent
      /\ asked.confirmed_state_id <= player[p].state_id_sent
      /\ noted \in PlayerRecord /\ noted.allow_deltas = r.allow_deltas
      /\ noted.state_id_sent = player[p].state_id_sent
      /\ noted.confirmed_state_id <= player[p].state_id_sent
      /\ Wrote(noted, sent.out, sent.player)
      /\ behind /\ ~local => sent.out # <<>>
      /\ ~behind => [asked EXCEPT !.confirmed_state_id = state_id] \in PlayerRecord
      /\ ~behind => state_id <= player[p].state_id_sent
  <2>1. r.state_id <= player[p].state_id_sent
    BY <1>2 DEF Sync, Sound, Newest, Line
  <2> QED
    BY <1>2, <1>3, <2>1, PlayerFacts, UpdateWrote
<1> HIDE DEF asked, noted, sent, out, behind, confirm
<1>10. confirm => ~behind
  BY DEF confirm
<1> SUFFICES ASSUME NEW q \in Players PROVE client'[q].queue \in Seq(States) /\ Sound(Line(q)')
  BY DEF Sync
<1>11. client[q].queue \in Seq(States) /\ client'[q].queue \in Seq(States) /\ Sound(Line(q))
  BY <1>2 DEF Sync
<1> DEFINE v == Line(q)
           w == Line(q)'
           o == out[q]
<1>12. v \in Lines /\ w \in Lines /\ Sound(v)
  BY <1>11, LineType DEF IInv
<1>13. Sent(v, o, q \in {p}, w) /\ (LostOn(q, o) = LostOf(v, o))
  BY <1>2, <1>4, TransmitSent
<1>14. /\ v.client = client[q] /\ w.client = client'[q] /\ v.requests = requests[q]
       /\ w.requests = requests'[q] /\ v.player = player[q] /\ w.player = player'[q]
       /\ v.missed = missed[q] /\ w.missed = missed'[q] /\ v.local = local
  BY LineParts
<1>15. missed'[q] = (LostOn(q, o) \/ (missed[q] /\ ~(q = p /\ behind /\ ~r.allow_deltas)))
  BY <1>7
<1>16. <<>> \in Seq(States) /\ <<>> \in Outgoing /\ GameMessages(<<>>) = <<>>
  <2>1. <<>> \in Seq(States)
    OBVIOUS
  <2> QED
    BY <2>1, OutgoingFacts DEF Outgoing
<1>17. CASE q = p
  <2> DEFINE pl == IF behind THEN noted
                   ELSE IF confirm THEN [asked EXCEPT !.confirmed_state_id = state_id] ELSE asked
  <2>1. /\ pl \in PlayerRecord /\ pl.allow_deltas = r.allow_deltas
        /\ pl.state_id_sent = player[p].state_id_sent
        /\ pl.confirmed_state_id <= player[p].state_id_sent
    <3>1. CASE behind
      BY <1>9, <3>1
    <3>2. CASE ~behind
      <4> DEFINE new == [asked EXCEPT !.confirmed_state_id = state_id]
      <4>1. /\ new.allow_deltas = asked.allow_deltas /\ new.state_id_sent = asked.state_id_sent
            /\ new.confirmed_state_id = state_id
        BY <1>9 DEF PlayerRecord
      <4> QED
        BY <1>9, <3>2, <4>1
    <3> QED
      BY <3>1, <3>2
  <2>2. CASE behind
    <3>1. pl = noted /\ o = sent.out /\ player'[p] = sent.player
      BY <1>6, <1>8, <1>10, <1>17, <2>2
    <3>2. sent.out \in Seq(States)
      BY <1>9 DEF Wrote
    <3>3. sent.out \in Outgoing
      BY <3>2 DEF Outgoing
    <3>4. GameMessages(sent.out) = sent.out
      BY <3>2, <3>3, OutgoingFacts
    <3> HIDE DEF v, w, o, pl
    <3>5. /\ o \in Outgoing /\ Wrote(pl, GameMessages(o), player'[p])
          /\ behind /\ ~local => GameMessages(o) # <<>>
      BY <1>9, <3>1, <3>3, <3>4
    <3> QED
      <4>1. /\ v.client.state # None => v.client.state_id # None
            /\ r \in v.requests /\ behind \in BOOLEAN /\ w.client = v.client
            /\ w.requests = v.requests \ {r}
            /\ pl.state_id_sent = v.player.state_id_sent
            /\ pl.confirmed_state_id <= v.player.state_id_sent
            /\ Wrote(pl, GameMessages(o), w.player)
            /\ behind /\ ~v.local => GameMessages(o) # <<>>
            /\ w.missed = (LostOf(v, o) \/ (v.missed /\ ~(behind /\ ~r.allow_deltas)))
            /\ Sent(v, o, TRUE, w)
        BY <1>2, <1>3, <1>5, <1>13, <1>14, <1>15, <1>17, <2>1, <2>2, <3>5 DEF Held
      <4>2. Sound(w)
        BY <1>2, <1>12, <2>1, <3>5, <4>1, UpdatesSound
      <4> QED
        BY <1>11, <4>2 DEF w
  <2>3. CASE ~behind
    <3>1. pl = player'[p] /\ o = <<>>
      BY <1>6, <1>8, <1>17, <2>3
    <3>2. Wrote(pl, <<>>, pl)
      BY <2>1, WroteNothing
    <3> HIDE DEF v, w, o, pl
    <3>3. /\ o \in Outgoing /\ Wrote(pl, GameMessages(o), player'[p])
          /\ behind /\ ~local => GameMessages(o) # <<>>
      BY <1>16, <2>3, <3>1, <3>2
    <3> QED
      <4>1. /\ v.client.state # None => v.client.state_id # None
            /\ r \in v.requests /\ FALSE \in BOOLEAN /\ w.client = v.client
            /\ w.requests = v.requests \ {r}
            /\ pl.state_id_sent = v.player.state_id_sent
            /\ pl.confirmed_state_id <= v.player.state_id_sent
            /\ Wrote(pl, GameMessages(o), w.player)
            /\ FALSE /\ ~v.local => GameMessages(o) # <<>>
            /\ w.missed = (LostOf(v, o) \/ (v.missed /\ ~(FALSE /\ ~r.allow_deltas)))
            /\ Sent(v, o, TRUE, w)
        BY <1>2, <1>3, <1>5, <1>13, <1>14, <1>15, <1>17, <2>1, <2>3, <3>3 DEF Held
      <4>2. Sound(w)
        BY <1>2, <1>12, <2>1, <3>3, <4>1, UpdatesSound
      <4> QED
        BY <1>11, <4>2 DEF w
  <2> QED
    BY <2>2, <2>3
<1>18. CASE q # p
  <2>1. o \in {<<>>, <<SyncNotice>>} /\ player'[q] = player[q] /\ requests'[q] = requests[q]
    BY <1>5, <1>6, <1>8, <1>18
  <2>2. o \in Outgoing /\ GameMessages(o) = <<>>
    BY <1>16, <2>1, OutgoingFacts DEF Outgoing
  <2>3. Wrote(player[q], <<>>, player[q])
    BY PlayerFacts, WroteNothing
  <2> HIDE DEF v, w, o
  <2>4. /\ Sent(v, o, FALSE, w) /\ w.client = v.client /\ w.requests \subseteq v.requests
        /\ Wrote(v.player, GameMessages(o), w.player) /\ (w.missed = (v.missed \/ LostOf(v, o)))
    <3>1. (q \in {p}) = FALSE
      BY <1>18
    <3>2. Sent(v, o, FALSE, w)
      BY <1>13, <3>1
    <3>3. w.missed = (v.missed \/ LostOf(v, o))
      BY <1>13, <1>14, <1>15, <1>18
    <3>4. w.client = v.client /\ w.requests \subseteq v.requests
      BY <1>2, <1>14, <2>1
    <3>5. Wrote(v.player, GameMessages(o), w.player)
      BY <1>14, <2>1, <2>2, <2>3
    <3> QED
      BY <3>2, <3>3, <3>4, <3>5
  <2>5. Sound(w)
    BY <1>12, <2>2, <2>4, ServerSound
  <2> QED
    BY <1>11, <2>5 DEF w
<1> QED
  BY <1>17, <1>18

\* Nothing has been sent.
LEMMA InitSync == Init => Sync
<1> SUFFICES ASSUME Init, NEW p \in Players PROVE client[p].queue \in Seq(States) /\ Sound(Line(p))
  BY DEF Sync
<1> DEFINE v == Line(p)
<1>1. /\ v.player = [state_id_sent |-> None, state_sent |-> None,
                     allow_deltas |-> FALSE, confirmed_state_id |-> None]
      /\ v.client = NewClient /\ v.mail = <<>> /\ v.waiting = "no" /\ v.requests = {}
      /\ v.answers = <<>> /\ v.missed = FALSE /\ client[p] = NewClient
  <2>1. /\ player[p] = [state_id_sent |-> None, state_sent |-> None,
                        allow_deltas |-> FALSE, confirmed_state_id |-> None]
        /\ client[p] = NewClient /\ mail[p] = <<>> /\ waiting[p] = "no" /\ requests[p] = {}
        /\ answers[p] = <<>> /\ missed[p] = FALSE
    BY DEF Init
  <2> QED
    BY <2>1, LineParts
<1> HIDE DEF v
<1>2. /\ v.client.state_id = None /\ v.client.state = None /\ v.client.queue = <<>>
      /\ v.player.state_id_sent = None /\ v.player.confirmed_state_id = None
      /\ v.player.allow_deltas = FALSE /\ None \in Int
  BY <1>1 DEF NewClient, None
<1>3. <<>> \in Seq(States) /\ Len(<<>>) = 0 /\ <<>> \o <<>> = <<>>
  OBVIOUS
<1>4. Coming(v) = <<>> /\ Kept(v) = <<>> /\ Todo(v) = <<>>
  BY <1>1, <1>2, <1>3, FlattenEmpty, GameMessagesEmpty DEF Coming, Kept, Todo
<1>5. /\ Linked(<<>>) /\ Whole(<<>>) /\ Rising(None, <<>>) /\ Within(<<>>, None)
  BY <1>3 DEF Linked, Whole, Rising, Within
<1>6. Newest(v) /\ Stateless(v)
  BY <1>1, <1>2, <1>4, <1>5 DEF Newest, Stateless
<1>7. Requested(v)
  BY <1>1, <1>2, FS_EmptySet DEF Requested
<1>8. Queued(v) /\ Fresh(v) /\ Leftover(v)
  BY <1>1, <1>2, <1>4, <1>5 DEF Queued, Fresh, Leftover
<1>9. Chain(v) /\ Complete(v)
  BY <1>1, <1>2, <1>4, <1>5 DEF Chain, Complete, Follows
<1> QED
  BY <1>1, <1>2, <1>3, <1>6, <1>7, <1>8, <1>9 DEF Sound, v

\* Every step.
LEMMA NextSync == IInv /\ Sync /\ [Next]_vars => Sync'
<1> SUFFICES ASSUME IInv, Sync, [Next]_vars PROVE Sync'
  OBVIOUS
<1>1. IInv'
  BY NextInv
<1>2. CASE Process
  BY <1>1, <1>2, ProcessSync
<1>3. CASE Elsewhere
  BY <1>1, <1>3, ElsewhereSync
<1>4. ASSUME NEW p \in Players,
             \/ Poll(p) \/ Act(p) \/ Receive(p) \/ Apply(p)
             \/ HandleUpdates(p) \/ HandleAction(p) \/ Heartbeat(p)
             \/ Lose(p) \/ Restart(p)
      PROVE  Sync'
  <2>1. CASE HandleAction(p)
    BY <1>1, <2>1, HandleStartSync, HandleMoveSync, HandleRestoreSync DEF HandleAction
  <2> QED
    BY <1>1, <1>4, <2>1, PollSync, ActSync, ReceiveSync, ApplySync, HandleUpdatesSync,
       HeartbeatSync, LoseSync, RestartSync
<1>5. CASE UNCHANGED vars
  <2> SUFFICES ASSUME NEW q \in Players PROVE client'[q].queue \in Seq(States) /\ Sound(Line(q)')
    BY DEF Sync
  <2>1. Line(q)' = Line(q) /\ client'[q] = client[q]
    BY <1>5 DEF vars, game, network, Line
  <2> QED
    BY <2>1 DEF Sync
<1> QED
  BY <1>2, <1>3, <1>4, <1>5 DEF Next

\* The lines of all players are sound in every state of the game.
THEOREM LineInvariance == Spec => [](IInv /\ Sync)
<1>1. Init => IInv /\ Sync
  BY InitInv, InitSync
<1>2. IInv /\ Sync /\ [Next]_vars => IInv' /\ Sync'
  BY NextInv, NextSync
<1> QED
  BY <1>1, <1>2, PTL DEF Spec

\* What a client has yet to process is what is to come on its line.
LEMMA PendingTodo ==
    ASSUME IInv, Sync, NEW p \in Players
    PROVE  Pending(p) = Todo(Line(p)) /\ Pending(p) \in Seq(States) /\ Line(p) \in Lines
<1> DEFINE v == Line(p)
<1>1. v \in Lines
  BY LineType DEF IInv, Sync
<1>2. v.client = client[p] /\ v.answers = answers[p] /\ v.mail = mail[p]
  BY LineParts
<1> HIDE DEF v
<1>3. /\ FlattenSeq(v.answers) \in Seq(Message) /\ v.mail \in Seq(Message)
      /\ Todo(v) \in Seq(States)
  BY <1>1, TodoFacts
<1>4. GameMessages(FlattenSeq(v.answers) \o v.mail) = Coming(v) \o Kept(v)
  BY <1>3, GameMessagesConcat DEF Coming, Kept
<1>5. Pending(p) = Todo(v)
  BY <1>2, <1>4 DEF Pending, Todo
<1> QED
  BY <1>1, <1>3, <1>5 DEF v

\* As long as no message was lost since the last whole state, what is on its way to a client is
\* a chain from the state the client has to the state the server believes it has.
THEOREM Chained == Spec => []ChainUnbroken
<1>1. IInv /\ Sync => ChainUnbroken
  <2> SUFFICES ASSUME IInv, Sync, NEW p \in Players, ~missed[p]
               PROVE  LET todo == Pending(p)
                      IN  /\ \A i \in 2 .. Len(todo) : todo[i].basis \in {None, todo[i - 1].id}
                          /\ todo # <<>> =>
                                /\ player[p].state_id_sent = Last(todo).id
                                /\ IF client[p].state # None
                                   THEN todo[1].basis \in {None, client[p].state_id}
                                   ELSE \E m \in Range(todo) : m.basis = None
                          /\ todo = <<>> => player[p].state_id_sent = client[p].state_id
    BY DEF ChainUnbroken
  <2> DEFINE todo == Pending(p)
             v == Line(p)
  <2>1. todo = Todo(v) /\ todo \in Seq(States)
    BY PendingTodo
  <2>2. v.missed = missed[p] /\ v.client = client[p] /\ v.player = player[p] /\ Sound(v)
    BY LineParts DEF Sync
  <2> HIDE DEF todo, v
  <2>3. /\ Linked(todo)
        /\ client[p].state # None /\ todo # <<>> => todo[1].basis \in {None, client[p].state_id}
    BY <2>1, <2>2 DEF Sound, Chain, Follows
  <2>4. /\ todo = <<>> => player[p].state_id_sent = client[p].state_id
        /\ todo # <<>> => player[p].state_id_sent = Last(todo).id
        /\ todo # <<>> /\ client[p].state = None => HasWhole(todo)
    BY <2>1, <2>2 DEF Sound, Complete
  <2>5. ASSUME HasWhole(todo) PROVE \E m \in Range(todo) : m.basis = None
    <3>1. PICK i \in 1 .. Len(todo) : todo[i].basis = None
      BY <2>5 DEF HasWhole
    <3>2. todo[i] \in Range(todo)
      BY <2>1, RangeFacts DEF Range
    <3> QED
      BY <3>1, <3>2
  <2> QED
    BY <2>3, <2>4, <2>5 DEF Linked, todo
<1> QED
  BY <1>1, LineInvariance, PTL

\* What is not sent again to a player of a local game, because it is confirmed, the player has
\* or is about to receive.
THEOREM Withheld == Spec => []NothingWithheld
<1>1. IInv /\ Sync => NothingWithheld
  <2> SUFFICES ASSUME IInv, Sync, NEW p \in Players, local,
                      player[p].confirmed_state_id = state_id
               PROVE  \/ client[p].state_id = state_id
                      \/ \E m \in Range(Pending(p)) : m.id = state_id
    BY DEF NothingWithheld
  <2> DEFINE todo == Pending(p)
             v == Line(p)
  <2>1. todo = Todo(v) /\ todo \in Seq(States)
    BY PendingTodo
  <2>2. v.local = local /\ v.client = client[p] /\ v.player = player[p] /\ Sound(v)
    BY LineParts DEF Sync
  <2> HIDE DEF todo, v
  <2>3. player[p].state_id_sent = state_id
    <3>1. /\ player[p] \in PlayerRecord /\ player[p].state_id_sent <= state_id
          /\ state_id <= player[p].state_id_sent /\ state_id \in Ids
      BY PlayerFacts
    <3>2. player[p].state_id_sent \in Int /\ state_id \in Int
      BY <3>1, RecordFacts, GameSyncAssumption DEF Ids
    <3> QED
      BY <3>1, <3>2
  <2>4. ~v.missed
    BY <2>2 DEF Sound, Queued
  <2>5. /\ todo = <<>> => client[p].state_id = state_id
        /\ todo # <<>> => Last(todo).id = state_id
    BY <2>1, <2>2, <2>3, <2>4 DEF Sound, Complete
  <2>6. todo # <<>> => Last(todo) \in Range(todo)
    <3>1. todo # <<>> => Len(todo) \in 1 .. Len(todo)
      BY <2>1, EmptySeq
    <3> QED
      BY <2>1, <3>1, RangeFacts DEF Range, Last
  <2> QED
    BY <2>5, <2>6 DEF todo
<1> QED
  BY <1>1, LineInvariance, PTL
=============================================================================
