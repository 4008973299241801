-------------------------- MODULE NetplayStartProofs --------------------------
(***************************************************************************)
(* Proofs about NetplayStart, for any number of clients, players of a      *)
(* level and rounds of confirmations.                                      *)
(*                                                                         *)
(* The invariant follows the game as it starts: the server's tables while  *)
(* clients join (Joining), the lists of players START sends (Rosters), the *)
(* confirmations of the players on a list (Confirmations), and the delay   *)
(* slot 0 tells the others (Agreed).                                       *)
(***************************************************************************)
EXTENDS NetplayStart, FiniteSetTheorems, SequenceTheorems, TLAPS

\* What a client may have written that the server did not read
Streams == {<<>>, <<"greetings!">>, <<"READY">>, <<"greetings!", "READY">>}
Unread  == {<<"READY">>, <<"greetings!", "READY">>}   \* with a READY among it

Types ==
    /\ phase \in [Clients -> Phases]
    /\ stream \in [Clients -> Streams]
    /\ roster \in [Clients -> Seq(Clients)]
    /\ confirmed \in [Clients -> SUBSET Clients]
    /\ rounds \in [Clients -> 0 .. Tries + Extra] /\ point \in [Clients -> 0 .. Tries]
    /\ pinged \subseteq Clients
    /\ announced \in [Clients -> Delays \cup {None}]
    /\ delay \in [Clients -> Delays \cup {None, 3}]
    /\ net \subseteq Packet
    /\ info \subseteq Clients /\ ids \subseteq Clients /\ endpoint \subseteq Clients
    /\ game \in [Clients -> Games \cup {None}] /\ open \in Games \cup {None}
    /\ players \in [Games -> Seq(Clients)]
    /\ errors \in [Clients -> 0 .. 2]
    /\ leaves \in 0 .. MaxLeaves

\* A client that has not said READY is in no game; nobody of the open game was sent START; the
\* addresses of the others are known to the server once START was sent.
Joining ==
    /\ ids \subseteq info /\ info \ ids \subseteq {0}
    /\ \A g \in Games : Range(players[g]) = {c \in Clients : game[c] = g} /\ IsInjective(players[g])
    /\ \A c \in Clients :
          /\ stream[c] \in Unread => game[c] = None /\ roster[c] = <<>>
          /\ phase[c] = "connected" => /\ game[c] = None /\ roster[c] = <<>>
                                       /\ stream[c] \in Streams \ Unread
          /\ open # None /\ game[c] = open => roster[c] = <<>>
          /\ roster[c] # <<>> /\ game[c] # None =>
                \A p \in Clients : game[p] = game[c] => p \in endpoint

\* START sends the same list to everybody on it.
Rosters == \A c \in Clients :
    /\ roster[c] # <<>> => c \in Range(roster[c]) /\ \A p \in Range(roster[c]) : roster[p] = roster[c]
    /\ phase[c] \in {"confirming", "handshaking", "started"} => roster[c] # <<>>

\* Whoever is confirmed, or sent a confirmation that is under way, has made a round.
Confirmations ==
    /\ \A c \in Clients :
          /\ phase[c] = "confirming" =>
                /\ c \in confirmed[c] /\ confirmed[c] \subseteq Range(roster[c])
                /\ \A p \in confirmed[c] \ {c} : rounds[p] > 0
          /\ phase[c] \in {"handshaking", "started"} => \A p \in Range(roster[c]) : rounds[p] > 0
          /\ rounds[c] = 0 => point[c] = Tries
    /\ \A m \in net : m.type \in {"A", "a"} => rounds[m.from] > 0

\* A delay other than 3 is the one slot 0 announces, and it plays with that one itself; pings,
\* and what they tell, come of a slot 0 that has got as far as the handshake.
Agreed ==
    /\ \A c \in Clients :
          /\ announced[c] # None => /\ roster[c] # <<>> /\ IsZero(c) /\ delay[c] = announced[c]
                                    /\ phase[c] \in {"handshaking", "started", "left"}
          /\ phase[c] \in {"handshaking", "started"} => delay[c] # None
          /\ delay[c] \notin {None, 3} => roster[c] # <<>> /\ delay[c] = announced[Zero(c)]
          /\ c \in pinged => roster[c] # <<>> /\ (IsZero(c) \/ delay[Zero(c)] # None)
          /\ phase[c] = "started" => delay[Zero(c)] # None
    /\ \A m \in net : m.type = "P" =>
          /\ roster[m.from] # <<>> /\ roster[m.to] = roster[m.from]
          /\ delay[Zero(m.from)] # None
          /\ m.delay # None => m.delay = announced[Zero(m.from)]

IInv == Types /\ Joining /\ Rosters /\ Confirmations /\ Agreed

-----------------------------------------------------------------------------
(* Helpers. *)

\* A set of numbers has a least one.
LEMMA MinFacts ==
    ASSUME NEW I \in SUBSET Nat, I # {}
    PROVE  Min(I) \in I /\ \A j \in I : Min(I) <= j
<1> DEFINE R == OpToRel(<, Nat)
<1>1. IsWellFoundedOn(R, Nat)
  BY NatLessThanWellFounded
<1>2. \E k \in I : \A j \in I : ~(<<j, k>> \in R)
  <2> HIDE DEF R
  <2> QED
    BY <1>1, WFMin
<1>3. \E k \in I : \A j \in I : k <= j
  <2>1. PICK k \in I : \A j \in I : ~(<<j, k>> \in R)
    BY <1>2
  <2>2. \A j \in I : ~(j < k)
    BY <2>1 DEF OpToRel
  <2> QED
    BY <2>2
<1> QED
  BY <1>3 DEF Min

\* What is in a sequence.
LEMMA RangeFacts ==
    ASSUME NEW T, NEW s \in Seq(T)
    PROVE  /\ \A e : e \in Range(s) <=> \E i \in 1 .. Len(s) : s[i] = e
           /\ Range(s) \subseteq T
           /\ s # <<>> => Head(s) = s[1] /\ Head(s) \in Range(s)
<1>1. DOMAIN s = 1 .. Len(s) /\ Len(s) \in Nat /\ \A i \in 1 .. Len(s) : s[i] \in T
  OBVIOUS
<1>2. s # <<>> => Len(s) # 0 /\ Head(s) = s[1]
  OBVIOUS
<1> QED
  BY <1>1, <1>2 DEF Range

\* Taking a player off a list.
LEMMA RemoveFirstFacts ==
    ASSUME NEW T, NEW s \in Seq(T), NEW e, IsInjective(s)
    PROVE  /\ RemoveFirst(s, e) \in Seq(T)
           /\ Range(RemoveFirst(s, e)) = Range(s) \ {e}
           /\ IsInjective(RemoveFirst(s, e))
<1> DEFINE I == {i \in 1 .. Len(s) : s[i] = e}
           k == Min(I)
           t == SubSeq(s, 1, k - 1) \o SubSeq(s, k + 1, Len(s))
<1>1. CASE I = {}
  <2>1. RemoveFirst(s, e) = s
    BY <1>1 DEF RemoveFirst
  <2> QED
    BY <1>1, <2>1 DEF Range
<1>2. CASE I # {}
  <2>1. k \in 1 .. Len(s) /\ s[k] = e
    <3>1. I \in SUBSET Nat
      OBVIOUS
    <3>2. k \in I
      <4> HIDE DEF I
      <4> QED
        BY <1>2, <3>1, MinFacts
    <3> QED
      BY <3>2
  <2>2. RemoveFirst(s, e) = t
    BY <1>2 DEF RemoveFirst, SelectInSeq, RemoveAt
  <2> HIDE DEF k
  <2>3. /\ t \in Seq(T) /\ Len(t) = Len(s) - 1
        /\ \A i \in 1 .. Len(t) : t[i] = IF i < k THEN s[i] ELSE s[i + 1]
    <3> DEFINE u == SubSeq(s, 1, k - 1)
               v == SubSeq(s, k + 1, Len(s))
    <3>1. u \in Seq(T) /\ Len(u) = k - 1 /\ \A i \in 1 .. k - 1 : u[i] = s[i]
      BY <2>1
    <3>2. v \in Seq(T) /\ Len(v) = Len(s) - k /\ \A i \in 1 .. Len(s) - k : v[i] = s[k + i]
      BY <2>1
    <3> HIDE DEF u, v
    <3>3. u \o v \in Seq(T) /\ Len(u \o v) = Len(s) - 1
      BY <2>1, <3>1, <3>2
    <3>4. ASSUME NEW i \in 1 .. Len(s) - 1
          PROVE  (u \o v)[i] = IF i < k THEN s[i] ELSE s[i + 1]
      BY <2>1, <3>1, <3>2
    <3> QED
      BY <3>3, <3>4 DEF u, v
  <2> HIDE DEF t
  <2>4. \A i, j \in 1 .. Len(s) : s[i] = s[j] => i = j
    BY DEF IsInjective
  <2>5. \A x : x \in Range(t) <=> x \in Range(s) /\ x # e
    <3>1. \A i \in 1 .. Len(s) : s[i] # e => \E j \in 1 .. Len(t) : t[j] = s[i]
      <4> SUFFICES ASSUME NEW i \in 1 .. Len(s), s[i] # e
                   PROVE  \E j \in 1 .. Len(t) : t[j] = s[i]
        OBVIOUS
      <4>1. CASE i < k
        BY <2>1, <2>3, <4>1
      <4>2. CASE i > k
        <5>1. i - 1 \in 1 .. Len(t) /\ t[i - 1] = s[i]
          BY <2>1, <2>3, <4>2
        <5> QED
          BY <5>1
      <4> QED
        BY <2>1, <4>1, <4>2
    <3>2. \A j \in 1 .. Len(t) : t[j] # e /\ \E i \in 1 .. Len(s) : s[i] = t[j]
      BY <2>1, <2>3, <2>4
    <3> QED
      <4>1. \A x : x \in Range(s) <=> \E i \in 1 .. Len(s) : s[i] = x
        BY RangeFacts
      <4>2. \A x : x \in Range(t) <=> \E i \in 1 .. Len(t) : t[i] = x
        BY <2>3, RangeFacts
      <4> QED
        BY <3>1, <3>2, <4>1, <4>2
  <2>6. IsInjective(t)
    BY <2>1, <2>3, <2>4 DEF IsInjective
  <2> QED
    BY <2>2, <2>3, <2>5, <2>6
<1> QED
  BY <1>1, <1>2

\* A piece of one element.
LEMMA SubSeqOne ==
    ASSUME NEW T, NEW s \in Seq(T), NEW i \in 1 .. Len(s)
    PROVE  SubSeq(s, i, i) = <<s[i]>>
<1>1. SubSeq(s, i, i) \in Seq(T) /\ Len(SubSeq(s, i, i)) = 1 /\ SubSeq(s, i, i)[1] = s[i]
  OBVIOUS
<1>2. <<s[i]>> \in Seq(T) /\ Len(<<s[i]>>) = 1 /\ <<s[i]>>[1] = s[i]
  OBVIOUS
<1>3. \A k \in 1 .. 1 : SubSeq(s, i, i)[k] = <<s[i]>>[k]
  BY <1>1, <1>2
<1> QED
  BY <1>1, <1>2, <1>3, SeqEqual

\* What a client wrote consists of these two words.
LEMMA StreamType == \A s \in Streams : s \in Seq({"greetings!", "READY"})
<1>1. /\ <<>> \in Seq({"greetings!", "READY"}) /\ <<"greetings!">> \in Seq({"greetings!", "READY"})
      /\ <<"READY">> \in Seq({"greetings!", "READY"})
      /\ <<"greetings!", "READY">> \in Seq({"greetings!", "READY"})
  OBVIOUS
<1> QED
  BY <1>1 DEF Streams

\* What the server reads of a connection: a READY by itself only if it is all there is.
LEMMA StreamFacts ==
    ASSUME NEW s \in Streams, NEW n \in 1 .. Len(s)
    PROVE  /\ SubSeq(s, n + 1, Len(s)) \in Streams
           /\ SubSeq(s, n + 1, Len(s)) \in Unread => s \in Unread
           /\ SubSeq(s, n + 1, Len(s)) \in Unread => SubSeq(s, 1, n) # <<"READY">>
           /\ SubSeq(s, 1, n) = <<"READY">> => s \in Unread
<1>1. CASE s = <<>>
  BY <1>1
<1>2. s \in Seq({"greetings!", "READY"})
  BY StreamType
<1>3. CASE s = <<"greetings!">>
  <2>1. n = 1 /\ Len(s) = 1
    BY <1>3
  <2>2. SubSeq(s, 2, 1) = <<>>
    BY <1>3
  <2>3. SubSeq(s, 1, 1) # <<"READY">>
    <3>1. SubSeq(s, 1, 1) = <<s[1]>> /\ s[1] = "greetings!"
      BY <1>3, <1>2, <2>1, SubSeqOne
    <3> QED
      BY <3>1
  <2> QED
    BY <2>1, <2>2, <2>3 DEF Streams, Unread
<1>4. CASE s = <<"READY">>
  BY <1>4 DEF Streams, Unread
<1>5. CASE s = <<"greetings!", "READY">>
  <2>1. Len(s) = 2 /\ s \in Unread
    BY <1>5 DEF Unread
  <2>2. CASE n = 1
    <3>0. s[1] = "greetings!" /\ s[2] = "READY"
      BY <1>5
    <3>1. SubSeq(s, 2, 2) = <<s[2]>>
      BY <1>2, <2>1, SubSeqOne
    <3>2. SubSeq(s, 1, 1) = <<s[1]>>
      BY <1>2, <2>1, SubSeqOne
    <3>3. SubSeq(s, 1, 1) # <<"READY">>
      BY <3>0, <3>2
    <3> QED
      BY <2>1, <2>2, <3>0, <3>1, <3>3 DEF Streams
  <2>3. CASE n = 2
    <3>1. SubSeq(s, 3, 2) = <<>>
      BY <1>5
    <3> QED
      BY <2>1, <2>3, <3>1 DEF Streams, Unread
  <2> QED
    BY <2>1, <2>2, <2>3
<1> QED
  BY <1>1, <1>3, <1>4, <1>5 DEF Streams

\* While a client is in no game, there is a number left for a new one.
LEMMA FreeGame ==
    ASSUME Types, NEW c \in Clients, game[c] = None
    PROVE  Min(Games \ Opened) \in Games \ Opened
<1>1. Games \ Opened \in SUBSET Nat
  BY DEF Games
<1>2. Games \ Opened # {}
  <2> SUFFICES ASSUME Games \subseteq Opened PROVE FALSE
    OBVIOUS
  <2> DEFINE f == [g \in Games |-> CHOOSE p \in Clients : game[p] = g]
  <2>1. \A g \in Games : f[g] \in Clients \ {c} /\ game[f[g]] = g
    <3> SUFFICES ASSUME NEW g \in Games
                 PROVE  f[g] \in Clients \ {c} /\ game[f[g]] = g
      OBVIOUS
    <3>1. \E p \in Clients : game[p] = g
      BY DEF Opened
    <3>2. f[g] \in Clients /\ game[f[g]] = g
      BY <3>1
    <3>3. g # None
      BY DEF Games, None
    <3> QED
      BY <3>2, <3>3
  <2>2. f \in [Games -> Clients \ {c}]
    BY <2>1
  <2> HIDE DEF f
  <2>3. NClients \in Nat \ {0}
    BY NetplayStartAssumption
  <2>4. IsFiniteSet(Games) /\ Cardinality(Games) = NClients
    BY <2>3, FS_Interval DEF Games
  <2>5. IsFiniteSet(Clients) /\ Cardinality(Clients) = NClients
    BY <2>3, FS_Interval DEF Clients
  <2>6. IsFiniteSet(Clients \ {c}) /\ Cardinality(Clients \ {c}) = NClients - 1
    BY <2>5, FS_RemoveElement
  <2>7. \E g, h \in Games : g # h /\ f[g] = f[h]
    BY <2>2, <2>3, <2>4, <2>6, FS_PigeonHole
  <2> QED
    BY <2>1, <2>7
<1> QED
  BY <1>1, <1>2, MinFacts

\* The players on a list that START sends.
LEMMA RosterFacts ==
    ASSUME Types, Rosters, NEW c \in Clients, roster[c] # <<>>
    PROVE  /\ Range(roster[c]) \subseteq Clients /\ c \in Range(roster[c])
           /\ Zero(c) \in Range(roster[c])
           /\ IsZero(c) <=> c = Zero(c)
           /\ \A p \in Range(roster[c]) : /\ roster[p] = roster[c] /\ Zero(p) = Zero(c)
                                          /\ IsZero(p) <=> p = Zero(c)
<1>1. roster[c] \in Seq(Clients)
  BY DEF Types
<1>2. /\ Range(roster[c]) \subseteq Clients /\ c \in Range(roster[c])
      /\ Head(roster[c]) \in Range(roster[c])
      /\ \A p \in Range(roster[c]) : roster[p] = roster[c]
  BY <1>1, RangeFacts DEF Rosters
<1> QED
  BY <1>2 DEF Zero, IsZero

\* Packets are sent or forgotten.
LEMMA SentFacts ==
    ASSUME NEW ms, Sent(ms)
    PROVE  net' \subseteq net \cup ms
  BY DEF Sent

\* What a client hears comes of packets that are under way.
LEMMA SendersFacts ==
    ASSUME NEW c, NEW types
    PROVE  \A p \in Senders(c, types) : \E m \in net : m.to = c /\ m.from = p /\ m.type \in types
  BY DEF Senders

\* A READY that is written.
LEMMA AppendFacts ==
    /\ Append(<<>>, "READY") = <<"READY">>
    /\ Append(<<"greetings!">>, "READY") = <<"greetings!", "READY">>
<1> DEFINE T == {"greetings!", "READY"}
           s == Append(<<"greetings!">>, "READY")
           t == <<"greetings!", "READY">>
<1>1. s \in Seq(T) /\ Len(s) = 2 /\ s[1] = "greetings!" /\ s[2] = "READY"
  OBVIOUS
<1>2. t \in Seq(T) /\ Len(t) = 2 /\ t[1] = "greetings!" /\ t[2] = "READY"
  OBVIOUS
<1> HIDE DEF s, t, T
<1>3. \A i \in 1 .. 2 : s[i] = t[i]
  BY <1>1, <1>2
<1>4. s = t
  BY <1>1, <1>2, <1>3, SeqEqual
<1>5. Append(<<>>, "READY") = <<"READY">>
  OBVIOUS
<1> QED
  BY <1>4, <1>5 DEF s, t

\* The kinds of packets.
LEMMA PacketFacts ==
    /\ \A m \in Packet : /\ m.from \in Clients /\ m.to \in Clients
                         /\ m.type \in {"A", "a", "P"}
                         /\ m.type = "P" => m.delay \in Delays \cup {None}
    /\ \A c, p \in Clients, t \in {"A", "a"} :
          /\ [type |-> t, from |-> c, to |-> p] \in Packet
          /\ [type |-> t, from |-> c, to |-> p].from = c
          /\ [type |-> t, from |-> c, to |-> p].type = t
    /\ \A c, p \in Clients, d \in Delays \cup {None} :
          /\ PingPacket(c, p, d) \in Packet
          /\ PingPacket(c, p, d).from = c /\ PingPacket(c, p, d).to = p
          /\ PingPacket(c, p, d).type = "P" /\ PingPacket(c, p, d).delay = d
<1>1. ASSUME NEW m \in Packet
      PROVE  /\ m.from \in Clients /\ m.to \in Clients
             /\ m.type \in {"A", "a", "P"}
             /\ m.type = "P" => m.delay \in Delays \cup {None}
  <2>1. CASE m \in [type : {"A", "a"}, from : Clients, to : Clients]
    BY <2>1
  <2>2. CASE m \in [type : {"P"}, from : Clients, to : Clients, delay : Delays \cup {None}]
    BY <2>2
  <2> QED
    BY <2>1, <2>2 DEF Packet
<1>2. ASSUME NEW c \in Clients, NEW p \in Clients, NEW t \in {"A", "a"}
      PROVE  /\ [type |-> t, from |-> c, to |-> p] \in Packet
             /\ [type |-> t, from |-> c, to |-> p].from = c
             /\ [type |-> t, from |-> c, to |-> p].type = t
  BY DEF Packet
<1>3. ASSUME NEW c \in Clients, NEW p \in Clients, NEW d \in Delays \cup {None}
      PROVE  /\ PingPacket(c, p, d) \in Packet
             /\ PingPacket(c, p, d).from = c /\ PingPacket(c, p, d).to = p
             /\ PingPacket(c, p, d).type = "P" /\ PingPacket(c, p, d).delay = d
  BY DEF PingPacket, Packet
<1> QED
  BY <1>1, <1>2, <1>3

\* The number of rounds.
LEMMA RoundsFacts ==
    ASSUME NEW k \in 0 .. Tries + Extra
    PROVE  Min({k + 1, Tries + Extra}) \in 1 .. Tries + Extra
<1>1. {k + 1, Tries + Extra} \in SUBSET Nat
  BY NetplayStartAssumption
<1>2. Min({k + 1, Tries + Extra}) \in {k + 1, Tries + Extra} /\ Min({k + 1, Tries + Extra}) <= Tries + Extra
  BY <1>1, MinFacts
<1> QED
  BY <1>1, <1>2, NetplayStartAssumption

-----------------------------------------------------------------------------
(* Types. *)

\* What a client hears comes from players on its list.
LEMMA HeardFacts ==
    ASSUME Types, Rosters, NEW c \in Clients, roster[c] # <<>>, NEW heard \in SUBSET Heard(c)
    PROVE  /\ heard \subseteq Range(roster[c]) \ {c} /\ heard \subseteq Clients
           /\ \A p \in heard : \E m \in net : m.to = c /\ m.from = p /\ m.type \in {"A", "a"}
<1>1. heard \subseteq Others(c) /\ heard \subseteq Senders(c, {"A", "a"})
  BY DEF Heard
<1>2. heard \subseteq Range(roster[c]) \ {c}
  BY <1>1 DEF Others
<1> QED
  BY <1>1, <1>2, SendersFacts, RosterFacts

LEMMA NextTypes == ASSUME IInv, Next PROVE Types'
<1> PICK c \in Clients :
       \/ Ready(c) \/ Receive(c) \/ HandleZ(c) \/ ReadStart(c)
       \/ Confirm(c) \/ Decide(c) \/ AnswerConfirm(c)
       \/ Ping(c) \/ PingReturns(c) \/ Pinged(c) \/ Start(c)
       \/ Leave(c) \/ Disconnect(c)
  BY DEF Next
<1> USE DEF IInv
<1>1. CASE Ready(c)
  <2>1. stream[c] \in {<<>>, <<"greetings!">>}
    BY <1>1 DEF Ready, Joining, Streams, Unread
  <2>2. Append(stream[c], "READY") \in Streams
    BY <2>1, AppendFacts DEF Streams
  <2> QED
    BY <1>1, <2>2 DEF Ready, Types, Phases, server
<1>2. CASE Receive(c)
  <2>1. PICK n \in 1 .. Len(stream[c]) :
           LET g == IF open # None THEN open ELSE Min(Games \ Opened)
           IN  /\ stream' = [stream EXCEPT ![c] = SubSeq(@, n + 1, Len(@))]
               /\ IF SubSeq(stream[c], 1, n) = <<"READY">>
                  THEN /\ open' = g
                       /\ game' = [game EXCEPT ![c] = g]
                       /\ players' = [players EXCEPT ![g] = Append(@, c)]
                  ELSE UNCHANGED <<open, game, players>>
               /\ UNCHANGED <<phase, roster, confirmed, rounds, point, pinged, announced,
                              delay, info, ids, endpoint, errors, net, leaves>>
    BY <1>2 DEF Receive
  <2>2. stream' \in [Clients -> Streams]
    <3>1. stream[c] \in Streams
      BY DEF Types
    <3>2. SubSeq(stream[c], n + 1, Len(stream[c])) \in Streams
      BY <3>1, StreamFacts
    <3> QED
      BY <2>1, <3>2 DEF Types
  <2>3. CASE SubSeq(stream[c], 1, n) = <<"READY">>
    <3> DEFINE g == IF open # None THEN open ELSE Min(Games \ Opened)
    <3>1. game[c] = None
      <4>1. stream[c] \in Streams
        BY DEF Types
      <4> QED
        BY <2>3, <4>1, StreamFacts DEF Joining
    <3>2. g \in Games
      BY <3>1, FreeGame DEF Types
    <3>3. players' = [players EXCEPT ![g] = Append(@, c)] /\ open' = g /\ game' = [game EXCEPT ![c] = g]
      BY <2>1, <2>3
    <3> HIDE DEF g
    <3>4. players' \in [Games -> Seq(Clients)]
      <4>1. Append(players[g], c) \in Seq(Clients)
        BY <3>2 DEF Types
      <4> QED
        BY <3>3, <4>1 DEF Types
    <3> QED
      BY <2>1, <2>2, <3>2, <3>3, <3>4 DEF Types
  <2>4. CASE SubSeq(stream[c], 1, n) # <<"READY">>
    BY <2>1, <2>2, <2>4 DEF Types
  <2> QED
    BY <2>3, <2>4
<1>3. CASE HandleZ(c)
  <2>1. roster' \in [Clients -> Seq(Clients)]
    BY <1>3 DEF HandleZ, Types, client, server
  <2>2. open' \in Games \cup {None}
    BY <1>3 DEF HandleZ, Types
  <2>3. errors' \in [Clients -> 0 .. 2]
    BY <1>3 DEF HandleZ, Types
  <2>4. endpoint' \subseteq Clients
    BY <1>3 DEF HandleZ, Types
  <2> QED
    BY <1>3, <2>1, <2>2, <2>3, <2>4 DEF HandleZ, Types
<1>4. CASE ReadStart(c)
  BY <1>4 DEF ReadStart, Types, Phases, server
<1>5. CASE Confirm(c)
  <2>1. PICK heard \in SUBSET Heard(c) : Round(c, heard)
    BY <1>5 DEF Confirm
  <2>2. roster[c] # <<>> /\ phase[c] = "confirming"
    BY <1>5 DEF Confirm, Confirming, Rosters
  <2>3. heard \subseteq Clients /\ Others(c) \subseteq Clients
    BY <2>2, HeardFacts, RosterFacts DEF Others
  <2>4. confirmed' \in [Clients -> SUBSET Clients]
    BY <2>1, <2>3 DEF Round, Types
  <2>5. point' \in [Clients -> 0 .. Tries] /\ rounds' \in [Clients -> 0 .. Tries + Extra]
    <3>0. rounds[c] \in 0 .. Tries + Extra
      BY DEF Types
    <3>1. /\ rounds[c] \in 0 .. Tries + Extra
          /\ Min({rounds[c] + 1, Tries + Extra}) \in 0 .. Tries + Extra
      BY <3>0, RoundsFacts
    <3>2. point[c] \in 0 .. Tries /\ (rounds[c] < point[c] => rounds[c] \in 0 .. Tries)
      BY <3>1, NetplayStartAssumption DEF Types
    <3>3. rounds' = [rounds EXCEPT ![c] = Min({@ + 1, Tries + Extra})]
      BY <2>1 DEF Round
    <3>4. point' = point \/ (rounds[c] < point[c] /\ point' = [point EXCEPT ![c] = rounds[c]])
      BY <2>1 DEF Round, Types
    <3> QED
      BY <3>1, <3>2, <3>3, <3>4 DEF Types
  <2>6. net' \subseteq Packet
    <3>1. net' \subseteq net \cup {Confirmation(c, p, p \in confirmed[c]) : p \in Others(c)}
      BY <2>1, SentFacts DEF Round
    <3>2. \A p \in Others(c) : Confirmation(c, p, p \in confirmed[c]) \in Packet
      BY <2>3, PacketFacts DEF Confirmation
    <3> QED
      BY <3>1, <3>2 DEF Types
  <2> QED
    BY <2>1, <2>4, <2>5, <2>6 DEF Round, Types, server
<1>6. CASE Decide(c)
  <2>1. net' \subseteq net
    BY <1>6, SentFacts DEF Decide
  <2> QED
    BY <1>6, <2>1 DEF Decide, Types, Phases
<1>7. CASE AnswerConfirm(c)
  <2>1. PICK p \in Others(c) \cap Senders(c, {"A"}) : Sent({Confirmation(c, p, TRUE)})
    BY <1>7 DEF AnswerConfirm
  <2>2. p \in Clients
    <3>1. roster[c] # <<>>
      BY <1>7 DEF AnswerConfirm, Rosters
    <3> QED
      BY <2>1, <3>1, RosterFacts DEF Others
  <2>3. net' \subseteq Packet
    <3>1. Confirmation(c, p, TRUE) \in Packet
      BY <2>2, PacketFacts DEF Confirmation
    <3>2. net' \subseteq net \cup {Confirmation(c, p, TRUE)}
      BY <2>1, SentFacts
    <3> QED
      BY <3>1, <3>2 DEF Types
  <2> QED
    BY <1>7, <2>3 DEF AnswerConfirm, Types, client, server
<1>8. CASE Ping(c)
  <2>1. PICK d \in IF announced[c] = None /\ c \in pinged THEN Delays \cup {None}
                   ELSE {announced[c]} :
           /\ announced' = [announced EXCEPT ![c] = d]
           /\ delay' = [delay EXCEPT ![c] = IF d # None THEN d ELSE @]
           /\ UNCHANGED <<phase, stream, roster, confirmed, rounds, point, pinged,
                          server, leaves>>
           /\ Sent({PingPacket(c, p, d) : p \in Others(c)})
    BY <1>8 DEF Ping
  <2>2. d \in Delays \cup {None}
    BY <2>1 DEF Types
  <2>3. Others(c) \subseteq Clients
    <3>1. roster[c] # <<>>
      BY <1>8 DEF Ping, Rosters
    <3> QED
      BY <3>1, RosterFacts DEF Others
  <2>4. net' \subseteq Packet
    <3>1. net' \subseteq net \cup {PingPacket(c, p, d) : p \in Others(c)}
      BY <2>1, SentFacts
    <3> QED
      BY <2>2, <2>3, <3>1, PacketFacts DEF Types
  <2> QED
    BY <2>1, <2>2, <2>4 DEF Types, server
<1>9. CASE PingReturns(c)
  <2>1. net' \subseteq net
    BY <1>9, SentFacts DEF PingReturns
  <2> QED
    BY <1>9, <2>1 DEF PingReturns, Types, server
<1>10. CASE Pinged(c)
  <2>1. PICK m \in {n \in net : n.to = c /\ n.type = "P"} :
           /\ pinged' = pinged \cup {c}
           /\ delay' = [delay EXCEPT ![c] = IF m.delay # None THEN m.delay ELSE @]
           /\ UNCHANGED <<phase, stream, roster, confirmed, rounds, point, announced,
                          server, leaves>>
           /\ Sent({PingPacket(c, Zero(c), m.delay)})
    BY <1>10 DEF Pinged
  <2>2. m.delay \in Delays \cup {None}
    BY <2>1, PacketFacts DEF Types
  <2>3. Zero(c) \in Clients
    <3>1. roster[c] # <<>>
      BY <1>10 DEF Pinged, Rosters
    <3> QED
      BY <3>1, RosterFacts
  <2>4. net' \subseteq Packet
    BY <2>1, <2>2, <2>3, SentFacts, PacketFacts DEF Types
  <2> QED
    BY <2>1, <2>2, <2>4 DEF Types, server
<1>11. CASE Start(c)
  <2>1. net' \subseteq net
    BY <1>11, SentFacts DEF Start
  <2> QED
    BY <1>11, <2>1 DEF Start, Types, Phases, server
<1>12. CASE Leave(c)
  <2>1. net' \subseteq net
    BY <1>12, SentFacts DEF Leave
  <2>2. leaves' \in 0 .. MaxLeaves
    BY <1>12, NetplayStartAssumption DEF Leave, Types
  <2> QED
    BY <1>12, <2>1, <2>2 DEF Leave, Types, Phases
<1>13. CASE Disconnect(c)
  <2>1. players' \in [Games -> Seq(Clients)]
    <3>1. \A g \in Games : players[g] \in Seq(Clients) /\ IsInjective(players[g])
      BY DEF Types, Joining
    <3>2. \A g \in Games : RemoveFirst(players[g], c) \in Seq(Clients)
      BY <3>1, RemoveFirstFacts
    <3> QED
      BY <1>13, <3>2 DEF Disconnect
  <2>2. errors' \in [Clients -> 0 .. 2]
    BY <1>13 DEF Disconnect, Types
  <2> QED
    BY <1>13, <2>1, <2>2 DEF Disconnect, Types, client
<1> QED
  BY <1>1, <1>2, <1>3, <1>4, <1>5, <1>6, <1>7, <1>8, <1>9, <1>10, <1>11, <1>12, <1>13

-----------------------------------------------------------------------------
(* The server's tables, and the lists of players. *)

\* START goes to the players of the open game, none of whom got one before.
LEMMA HandleZFacts ==
    ASSUME IInv, NEW c \in Clients, HandleZ(c)
    PROVE  /\ endpoint \subseteq endpoint'
           /\ \A d \in Clients : roster[d] # <<>> => roster'[d] = roster[d]
           /\ \/ roster' = roster /\ open' = open
              \/ \E g \in Games :
                    /\ open = g /\ open' = None
                    /\ roster' = [p \in Clients |-> IF game[p] = g THEN players[g] ELSE roster[p]]
                    /\ \A p \in Clients : game[p] = g => roster[p] = <<>> /\ p \in endpoint'
<1> DEFINE g == game[c]
           start == g # None /\ open = g /\ Len(players[g]) >= GameSize
                    /\ Range(players[g]) \subseteq endpoint \cup {c}
<1>1. /\ endpoint' = endpoint \cup {c}
      /\ ~start => roster' = roster /\ open' = open
      /\ start => /\ open' = None
                  /\ roster' = [p \in Clients |-> IF p \in Range(players[g]) THEN players[g]
                                                  ELSE roster[p]]
  BY DEF HandleZ
<1>2. CASE ~start
  BY <1>1, <1>2
<1>3. CASE start
  <2>1. g \in Games
    BY <1>3 DEF IInv, Types
  <2>2. \A p \in Clients : p \in Range(players[g]) <=> game[p] = g
    BY <2>1 DEF IInv, Joining
  <2>3. \A p \in Clients : game[p] = g => roster[p] = <<>> /\ p \in endpoint'
    BY <1>1, <1>3, <2>2 DEF IInv, Joining
  <2>4. roster' = [p \in Clients |-> IF game[p] = g THEN players[g] ELSE roster[p]]
    BY <1>1, <1>3, <2>2
  <2>5. \A d \in Clients : roster[d] # <<>> => roster'[d] = roster[d]
    BY <2>3, <2>4
  <2> HIDE DEF g
  <2> QED
    BY <1>1, <1>3, <2>1, <2>3, <2>4, <2>5
<1> QED
  BY <1>2, <1>3

\* Most steps leave the server alone, and nobody connects again.
LEMMA JoiningStays ==
    ASSUME IInv, UNCHANGED <<stream, roster, info, ids, endpoint, game, players, open>>,
           \A d \in Clients : phase'[d] = "connected" => phase[d] = "connected"
    PROVE  Joining'
  BY DEF IInv, Joining

LEMMA NextJoining == ASSUME IInv, Next PROVE Joining'
<1> PICK c \in Clients :
       \/ Ready(c) \/ Receive(c) \/ HandleZ(c) \/ ReadStart(c)
       \/ Confirm(c) \/ Decide(c) \/ AnswerConfirm(c)
       \/ Ping(c) \/ PingReturns(c) \/ Pinged(c) \/ Start(c)
       \/ Leave(c) \/ Disconnect(c)
  BY DEF Next
<1> USE DEF IInv
<1>1. CASE Ready(c)
  <2>1. /\ phase[c] = "connected" /\ phase' = [phase EXCEPT ![c] = "pumping"]
        /\ stream' = [stream EXCEPT ![c] = Append(@, "READY")]
        /\ UNCHANGED <<roster, info, ids, endpoint, game, players, open>>
    BY <1>1 DEF Ready, server
  <2>2. \A d \in Clients : /\ phase'[d] = "connected" => phase[d] = "connected" /\ d # c
                           /\ d # c => stream'[d] = stream[d]
    BY <2>1 DEF Types
  <2>3. game[c] = None /\ roster[c] = <<>>
    BY <2>1 DEF Joining
  <2> QED
    BY <2>1, <2>2, <2>3 DEF Joining
<1>2. CASE Receive(c)
  <2>1. PICK n \in 1 .. Len(stream[c]) :
           LET g == IF open # None THEN open ELSE Min(Games \ Opened)
           IN  /\ stream' = [stream EXCEPT ![c] = SubSeq(@, n + 1, Len(@))]
               /\ IF SubSeq(stream[c], 1, n) = <<"READY">>
                  THEN /\ open' = g
                       /\ game' = [game EXCEPT ![c] = g]
                       /\ players' = [players EXCEPT ![g] = Append(@, c)]
                  ELSE UNCHANGED <<open, game, players>>
               /\ UNCHANGED <<phase, roster, confirmed, rounds, point, pinged, announced,
                              delay, info, ids, endpoint, errors, net, leaves>>
    BY <1>2 DEF Receive
  <2>2. stream[c] \in Streams
    BY DEF Types
  <2> DEFINE rest == SubSeq(stream[c], n + 1, Len(stream[c]))
  <2>3. /\ rest \in Streams
        /\ rest \in Unread => stream[c] \in Unread /\ SubSeq(stream[c], 1, n) # <<"READY">>
        /\ SubSeq(stream[c], 1, n) = <<"READY">> => stream[c] \in Unread
    BY <2>2, StreamFacts
  <2>4. \A d \in Clients : stream'[d] = IF d = c THEN rest ELSE stream[d]
    BY <2>1 DEF Types
  <2> HIDE DEF rest
  <2>5. CASE SubSeq(stream[c], 1, n) = <<"READY">>
    <3> DEFINE g == IF open # None THEN open ELSE Min(Games \ Opened)
    <3>1. game[c] = None /\ roster[c] = <<>> /\ phase[c] # "connected"
      BY <2>3, <2>5 DEF Joining
    <3>2. g \in Games /\ (open = None => \A p \in Clients : game[p] # g)
      <4>1. CASE open # None
        BY <4>1 DEF Types
      <4>2. CASE open = None
        <5>1. g \in Games \ Opened
          BY <3>1, <4>2, FreeGame
        <5> HIDE DEF g
        <5> QED
          BY <5>1 DEF Opened
      <4> QED
        BY <4>1, <4>2
    <3>3. players' = [players EXCEPT ![g] = Append(@, c)] /\ open' = g /\ game' = [game EXCEPT ![c] = g]
      BY <2>1, <2>5
    <3>4. g # None /\ (open # None => open = g)
      BY <3>2 DEF Games, None
    <3> HIDE DEF g
    <3>5. \A d \in Clients : game'[d] = IF d = c THEN g ELSE game[d]
      BY <3>3 DEF Types
    <3>6. /\ players'[g] = Append(players[g], c)
          /\ \A h \in Games \ {g} : players'[h] = players[h]
      BY <3>2, <3>3 DEF Types
    <3>7. /\ \A x : x \in Range(players'[g]) <=> x \in Range(players[g]) \cup {c}
          /\ IsInjective(players'[g])
      <4>1. players[g] \in Seq(Clients) /\ c \notin Range(players[g]) /\ IsInjective(players[g])
        BY <3>1, <3>2, <3>4 DEF Types, Joining
      <4> DEFINE s == players[g]
                 t == players'[g]
      <4>2. t \in Seq(Clients) /\ Len(t) = Len(s) + 1
            /\ \A i \in 1 .. Len(t) : t[i] = IF i <= Len(s) THEN s[i] ELSE c
        BY <3>6, <4>1
      <4>3. s \in Seq(Clients) /\ Len(s) \in Nat
        BY <4>1
      <4> HIDE DEF s, t
      <4>4. /\ \A x : x \in Range(s) <=> \E i \in 1 .. Len(s) : s[i] = x
            /\ \A x : x \in Range(t) <=> \E i \in 1 .. Len(t) : t[i] = x
        BY <4>2, <4>3, RangeFacts
      <4>5. \A x : x \in Range(t) <=> x \in Range(s) \cup {c}
        <5>1. \A i \in 1 .. Len(s) : i \in 1 .. Len(t) /\ t[i] = s[i]
          BY <4>2, <4>3
        <5>2. Len(t) \in 1 .. Len(t) /\ t[Len(t)] = c
          BY <4>2, <4>3
        <5> QED
          BY <4>2, <4>4, <5>1, <5>2
      <4>6. c \notin Range(s) /\ IsInjective(s)
        BY <4>1 DEF s
      <4>7. \A i \in 1 .. Len(s) : s[i] # c
        BY <4>4, <4>6
      <4>8. IsInjective(t)
        <5>1. DOMAIN s = 1 .. Len(s) /\ DOMAIN t = 1 .. Len(t)
          BY <4>2, <4>3
        <5> QED
          BY <4>2, <4>3, <4>6, <4>7, <5>1 DEF IsInjective
      <4> QED
        BY <4>5, <4>8 DEF s, t
    <3>8. \A h \in Games : Range(players'[h]) = {d \in Clients : game'[d] = h} /\ IsInjective(players'[h])
      <4> TAKE h \in Games
      <4>1. CASE h = g
        BY <3>1, <3>2, <3>5, <3>7, <4>1 DEF Joining
      <4>2. CASE h # g
        BY <3>1, <3>5, <3>6, <4>2 DEF Joining, Games, None
      <4> QED
        BY <4>1, <4>2
    <3>9. UNCHANGED <<phase, roster, info, ids, endpoint>>
      BY <2>1
    <3>10. ASSUME NEW d \in Clients
           PROVE  /\ stream'[d] \in Unread => game'[d] = None /\ roster'[d] = <<>>
                  /\ phase'[d] = "connected" => /\ game'[d] = None /\ roster'[d] = <<>>
                                                /\ stream'[d] \in Streams \ Unread
                  /\ open' # None /\ game'[d] = open' => roster'[d] = <<>>
                  /\ roster'[d] # <<>> /\ game'[d] # None =>
                        \A p \in Clients : game'[p] = game'[d] => p \in endpoint'
      <4>1. CASE d = c
        BY <2>3, <2>4, <2>5, <3>1, <3>9, <4>1
      <4>2. CASE d # c
        <5>1. game'[d] = game[d] /\ stream'[d] = stream[d]
          BY <2>4, <3>5, <4>2
        <5>2. game[d] = g => roster[d] = <<>>
          BY <3>2, <3>4 DEF Joining
        <5>3. roster[d] # <<>> /\ game[d] # None => \A p \in Clients : game'[p] = game[d] => p \in endpoint
          BY <3>5, <5>2 DEF Joining
        <5> QED
          BY <3>3, <3>9, <5>1, <5>2, <5>3 DEF Joining
      <4> QED
        BY <4>1, <4>2
    <3> QED
      BY <3>8, <3>9, <3>10 DEF Joining
  <2>6. CASE SubSeq(stream[c], 1, n) # <<"READY">>
    <3>1. UNCHANGED <<open, game, players, phase, roster, info, ids, endpoint>>
      BY <2>1, <2>6
    <3>2. phase[c] = "connected" => rest \notin Unread
      BY <2>3 DEF Joining
    <3> QED
      BY <2>3, <2>4, <3>1, <3>2 DEF Joining
  <2> QED
    BY <2>5, <2>6
<1>3. CASE HandleZ(c)
  <2>1. UNCHANGED <<phase, stream, info, ids, game, players>>
    BY <1>3 DEF HandleZ
  <2>2. CASE roster' = roster /\ open' = open
    BY <1>3, <2>1, <2>2, HandleZFacts DEF Joining
  <2>3. CASE \E g \in Games :
                    /\ open = g /\ open' = None
                    /\ roster' = [p \in Clients |-> IF game[p] = g THEN players[g] ELSE roster[p]]
                    /\ \A p \in Clients : game[p] = g => roster[p] = <<>> /\ p \in endpoint'
    <3>1. PICK g \in Games :
                    /\ open = g /\ open' = None
                    /\ roster' = [p \in Clients |-> IF game[p] = g THEN players[g] ELSE roster[p]]
                    /\ \A p \in Clients : game[p] = g => roster[p] = <<>> /\ p \in endpoint'
      BY <2>3
    <3>2. g # None /\ endpoint \subseteq endpoint'
      BY <1>3, HandleZFacts DEF Games, None
    <3>3. ASSUME NEW d \in Clients
          PROVE  /\ stream[d] \in Unread => game[d] = None /\ roster'[d] = <<>>
                 /\ phase[d] = "connected" => /\ game[d] = None /\ roster'[d] = <<>>
                                              /\ stream[d] \in Streams \ Unread
                 /\ roster'[d] # <<>> /\ game[d] # None =>
                       \A p \in Clients : game[p] = game[d] => p \in endpoint'
      BY <3>1, <3>2 DEF Joining
    <3> QED
      BY <2>1, <3>1, <3>3 DEF Joining
  <2> QED
    BY <1>3, <2>2, <2>3, HandleZFacts
<1>4. CASE ReadStart(c)
  BY <1>4, JoiningStays DEF ReadStart, server, Types
<1>5. CASE Confirm(c)
  BY <1>5, JoiningStays DEF Confirm, Round, server
<1>6. CASE Decide(c)
  BY <1>6, JoiningStays DEF Decide, Types
<1>7. CASE AnswerConfirm(c)
  BY <1>7, JoiningStays DEF AnswerConfirm, client, server
<1>8. CASE Ping(c)
  BY <1>8, JoiningStays DEF Ping, server
<1>9. CASE PingReturns(c)
  BY <1>9, JoiningStays DEF PingReturns, server
<1>10. CASE Pinged(c)
  BY <1>10, JoiningStays DEF Pinged, server
<1>11. CASE Start(c)
  BY <1>11, JoiningStays DEF Start, server, Types
<1>12. CASE Leave(c)
  BY <1>12, JoiningStays DEF Leave, Types
<1>13. CASE Disconnect(c)
  <2>1. /\ info' = info \ {c} /\ endpoint' = endpoint \ {c}
        /\ ids' = ids \ {IF c \in info THEN c ELSE 0}
        /\ game' = [game EXCEPT ![c] = None]
        /\ players' = [g \in Games |-> RemoveFirst(players[g], c)]
        /\ UNCHANGED <<phase, stream, roster, open>>
    BY <1>13 DEF Disconnect, client
  <2>2. \A d \in Clients : game'[d] = IF d = c THEN None ELSE game[d]
    BY <2>1 DEF Types
  <2>3. \A g \in Games : Range(players'[g]) = {d \in Clients : game'[d] = g} /\ IsInjective(players'[g])
    <3> TAKE g \in Games
    <3>1. players[g] \in Seq(Clients) /\ IsInjective(players[g]) /\ Range(players[g]) = {d \in Clients : game[d] = g}
      BY DEF Types, Joining
    <3>2. Range(RemoveFirst(players[g], c)) = Range(players[g]) \ {c} /\ IsInjective(RemoveFirst(players[g], c))
      BY <3>1, RemoveFirstFacts
    <3> QED
      BY <2>1, <2>2, <3>1, <3>2 DEF Games, None
  <2>4. ids' \subseteq info' /\ info' \ ids' \subseteq {0}
    BY <2>1 DEF Joining
  <2> QED
    BY <2>1, <2>2, <2>3, <2>4 DEF Joining
<1> QED
  BY <1>1, <1>2, <1>3, <1>4, <1>5, <1>6, <1>7, <1>8, <1>9, <1>10, <1>11, <1>12, <1>13

\* The lists stay, and only who has one goes on to confirm it.
LEMMA RostersStay ==
    ASSUME IInv, roster' = roster,
           \A d \in Clients : phase'[d] \in {"confirming", "handshaking", "started"} => roster[d] # <<>>
    PROVE  Rosters'
  BY DEF IInv, Rosters

LEMMA NextRosters == ASSUME IInv, Next PROVE Rosters'
<1> PICK c \in Clients :
       \/ Ready(c) \/ Receive(c) \/ HandleZ(c) \/ ReadStart(c)
       \/ Confirm(c) \/ Decide(c) \/ AnswerConfirm(c)
       \/ Ping(c) \/ PingReturns(c) \/ Pinged(c) \/ Start(c)
       \/ Leave(c) \/ Disconnect(c)
  BY DEF Next
<1> USE DEF IInv
<1>1. CASE Ready(c)
  BY <1>1, RostersStay DEF Ready, Types, Rosters
<1>2. CASE Receive(c)
  BY <1>2, RostersStay DEF Receive, Types, Rosters
<1>3. CASE HandleZ(c)
  <2>1. phase' = phase
    BY <1>3 DEF HandleZ
  <2>2. \A d \in Clients : roster[d] # <<>> => roster'[d] = roster[d]
    BY <1>3, HandleZFacts
  <2>3. CASE roster' = roster
    BY <2>1, <2>3, RostersStay DEF Rosters
  <2>4. CASE \E g \in Games :
                roster' = [p \in Clients |-> IF game[p] = g THEN players[g] ELSE roster[p]]
    <3>1. PICK g \in Games :
                 roster' = [p \in Clients |-> IF game[p] = g THEN players[g] ELSE roster[p]]
      BY <2>4
    <3>2. Range(players[g]) = {p \in Clients : game[p] = g}
      BY DEF Joining
    <3>3. ASSUME NEW d \in Clients, roster'[d] # <<>>
          PROVE  d \in Range(roster'[d]) /\ \A p \in Range(roster'[d]) : roster'[p] = roster'[d]
      <4>1. CASE game[d] = g
        BY <3>1, <3>2, <4>1
      <4>2. CASE game[d] # g
        <5>1. roster'[d] = roster[d] /\ roster[d] # <<>>
          BY <3>1, <3>3, <4>2
        <5>2. Range(roster[d]) \subseteq Clients /\ d \in Range(roster[d])
              /\ \A p \in Range(roster[d]) : roster[p] = roster[d]
          BY <5>1, RosterFacts
        <5> QED
          BY <2>2, <5>1, <5>2
      <4> QED
        BY <4>1, <4>2
    <3> QED
      BY <2>1, <2>2, <3>3 DEF Rosters
  <2> QED
    BY <1>3, <2>3, <2>4, HandleZFacts
<1>4. CASE ReadStart(c)
  BY <1>4, RostersStay DEF ReadStart, Types, Rosters
<1>5. CASE Confirm(c)
  BY <1>5, RostersStay DEF Confirm, Round, Rosters
<1>6. CASE Decide(c)
  BY <1>6, RostersStay DEF Decide, Types, Rosters
<1>7. CASE AnswerConfirm(c)
  BY <1>7, RostersStay DEF AnswerConfirm, client, Rosters
<1>8. CASE Ping(c)
  BY <1>8, RostersStay DEF Ping, Rosters
<1>9. CASE PingReturns(c)
  BY <1>9, RostersStay DEF PingReturns, Rosters
<1>10. CASE Pinged(c)
  BY <1>10, RostersStay DEF Pinged, Rosters
<1>11. CASE Start(c)
  BY <1>11, RostersStay DEF Start, Types, Rosters
<1>12. CASE Leave(c)
  BY <1>12, RostersStay DEF Leave, Types, Rosters
<1>13. CASE Disconnect(c)
  BY <1>13, RostersStay DEF Disconnect, client, Rosters
<1> QED
  BY <1>1, <1>2, <1>3, <1>4, <1>5, <1>6, <1>7, <1>8, <1>9, <1>10, <1>11, <1>12, <1>13

-----------------------------------------------------------------------------
(* Confirmations. *)

\* Who has confirmed as many players as are on its list has confirmed all of them.
LEMMA AllConfirmed ==
    ASSUME NEW s \in Seq(Clients), NEW S \in SUBSET Range(s), Cardinality(S) >= Len(s)
    PROVE  S = Range(s)
<1>1. Len(s) \in Nat /\ DOMAIN s = 1 .. Len(s)
  OBVIOUS
<1>2. s \in Surjection(1 .. Len(s), Range(s))
  <2>1. s \in [1 .. Len(s) -> Range(s)]
    BY <1>1 DEF Range
  <2>2. \A e \in Range(s) : \E i \in 1 .. Len(s) : s[i] = e
    BY RangeFacts
  <2> QED
    BY <2>1, <2>2 DEF Surjection
<1>3. IsFiniteSet(1 .. Len(s)) /\ Cardinality(1 .. Len(s)) = Len(s)
  BY <1>1, FS_Interval
<1>4. IsFiniteSet(Range(s)) /\ Cardinality(Range(s)) <= Len(s)
  BY <1>2, <1>3, FS_Surjection
<1>5. Cardinality(S) <= Cardinality(Range(s)) /\ IsFiniteSet(S)
  BY <1>4, FS_Subset
<1>6. Cardinality(S) \in Nat /\ Cardinality(Range(s)) \in Nat
  BY <1>4, <1>5, FS_CardinalityType
<1>7. Cardinality(S) = Cardinality(Range(s))
  BY <1>1, <1>4, <1>5, <1>6
<1> QED
  BY <1>4, <1>7, FS_Subset

\* Confirmations of players that have made a round, and nothing else, are sent.
LEMMA ConfirmationsStay ==
    ASSUME IInv, UNCHANGED <<roster, confirmed, rounds, point>>,
           \A d \in Clients : phase'[d] = "confirming" => phase[d] = "confirming",
           \A d \in Clients : phase'[d] \in {"handshaking", "started"} =>
              phase[d] \in {"handshaking", "started"},
           \A m \in net' : m \in net \/ (m.type \in {"A", "a"} => rounds[m.from] > 0)
    PROVE  Confirmations'
  BY DEF IInv, Confirmations

LEMMA NextConfirmations == ASSUME IInv, Next PROVE Confirmations'
<1> PICK c \in Clients :
       \/ Ready(c) \/ Receive(c) \/ HandleZ(c) \/ ReadStart(c)
       \/ Confirm(c) \/ Decide(c) \/ AnswerConfirm(c)
       \/ Ping(c) \/ PingReturns(c) \/ Pinged(c) \/ Start(c)
       \/ Leave(c) \/ Disconnect(c)
  BY DEF Next
<1> USE DEF IInv
<1>1. CASE Ready(c)
  BY <1>1, ConfirmationsStay DEF Ready, Types
<1>2. CASE Receive(c)
  BY <1>2, ConfirmationsStay DEF Receive
<1>3. CASE HandleZ(c)
  <2>1. UNCHANGED <<phase, confirmed, rounds, point, net>>
    BY <1>3 DEF HandleZ
  <2>2. \A d \in Clients : phase[d] \in {"confirming", "handshaking", "started"} => roster'[d] = roster[d]
    BY <1>3, HandleZFacts DEF Rosters
  <2> QED
    BY <2>1, <2>2 DEF Confirmations
<1>4. CASE ReadStart(c)
  <2>1. /\ roster[c] # <<>> /\ phase' = [phase EXCEPT ![c] = "confirming"]
        /\ confirmed' = [confirmed EXCEPT ![c] = {c}]
        /\ UNCHANGED <<roster, rounds, point, net>>
    BY <1>4 DEF ReadStart
  <2>2. c \in Range(roster[c])
    BY <2>1, RosterFacts
  <2>3. \A d \in Clients : d # c => phase'[d] = phase[d] /\ confirmed'[d] = confirmed[d]
    BY <2>1 DEF Types
  <2>4. phase'[c] = "confirming" /\ confirmed'[c] = {c}
    BY <2>1 DEF Types
  <2>5. ASSUME NEW d \in Clients
        PROVE  /\ phase'[d] = "confirming" =>
                     /\ d \in confirmed'[d] /\ confirmed'[d] \subseteq Range(roster[d])
                     /\ \A p \in confirmed'[d] \ {d} : rounds[p] > 0
               /\ phase'[d] \in {"handshaking", "started"} => \A p \in Range(roster[d]) : rounds[p] > 0
               /\ rounds[d] = 0 => point[d] = Tries
    <3>1. CASE d = c
      BY <2>2, <2>4, <3>1 DEF Confirmations
    <3>2. CASE d # c
      BY <2>3, <3>2 DEF Confirmations
    <3> QED
      BY <3>1, <3>2
  <2> QED
    BY <2>1, <2>5 DEF Confirmations
<1>5. CASE Confirm(c)
  <2>1. PICK heard \in SUBSET Heard(c) : Round(c, heard)
    BY <1>5 DEF Confirm
  <2>2. roster[c] # <<>> /\ phase[c] = "confirming"
    BY <1>5 DEF Confirm, Confirming, Rosters
  <2>3. /\ confirmed' = [confirmed EXCEPT ![c] = confirmed[c] \cup heard]
        /\ rounds' = [rounds EXCEPT ![c] = Min({@ + 1, Tries + Extra})]
        /\ UNCHANGED <<phase, roster>>
        /\ \A d \in Clients \ {c} : point'[d] = point[d]
        /\ net' \subseteq net \cup {Confirmation(c, p, p \in confirmed[c]) : p \in Others(c)}
    BY <2>1, SentFacts DEF Round, Types
  <2>4. rounds'[c] > 0 /\ \A d \in Clients \ {c} : rounds'[d] = rounds[d]
    <3>1. rounds[c] \in 0 .. Tries + Extra
      BY DEF Types
    <3>2. Min({rounds[c] + 1, Tries + Extra}) \in 1 .. Tries + Extra
      BY <3>1, RoundsFacts
    <3> QED
      BY <2>3, <3>2 DEF Types
  <2>5. \A p \in Clients : rounds[p] > 0 => rounds'[p] > 0
    BY <2>4
  <2>6. heard \subseteq Range(roster[c]) \ {c} /\ \A p \in heard : p \in Clients /\ rounds[p] > 0
    BY <2>2, HeardFacts DEF Confirmations
  <2>7. /\ c \in confirmed'[c] /\ confirmed'[c] \subseteq Range(roster[c])
        /\ \A p \in confirmed'[c] \ {c} : rounds'[p] > 0
    <3>1. confirmed'[c] = confirmed[c] \cup heard /\ confirmed[c] \subseteq Clients
      BY <2>3 DEF Types
    <3> QED
      BY <2>2, <2>5, <2>6, <3>1 DEF Confirmations
  <2>8. ASSUME NEW d \in Clients
        PROVE  /\ phase[d] = "confirming" =>
                     /\ d \in confirmed'[d] /\ confirmed'[d] \subseteq Range(roster[d])
                     /\ \A p \in confirmed'[d] \ {d} : rounds'[p] > 0
               /\ phase[d] \in {"handshaking", "started"} => \A p \in Range(roster[d]) : rounds'[p] > 0
               /\ rounds'[d] = 0 => point'[d] = Tries
    <3>1. CASE d = c
      BY <2>2, <2>4, <2>7, <3>1
    <3>2. CASE d # c
      <4>1. confirmed'[d] = confirmed[d] /\ confirmed[d] \subseteq Clients
        BY <2>3, <3>2 DEF Types
      <4>2. roster[d] # <<>> => Range(roster[d]) \subseteq Clients
        BY RosterFacts
      <4>3. phase[d] \in {"handshaking", "started"} => roster[d] # <<>>
        BY DEF Rosters
      <4> QED
        BY <2>3, <2>4, <2>5, <3>2, <4>1, <4>2, <4>3 DEF Confirmations
    <3> QED
      BY <3>1, <3>2
  <2>9. ASSUME NEW m \in net', m.type \in {"A", "a"}
        PROVE  rounds'[m.from] > 0
    <3>1. CASE m \in net
      <4>1. m.from \in Clients
        BY <3>1, PacketFacts DEF Types
      <4> QED
        BY <2>5, <2>9, <3>1, <4>1 DEF Confirmations
    <3>2. CASE \E p \in Others(c) : m = Confirmation(c, p, p \in confirmed[c])
      <4>1. m.from = c
        BY <3>2 DEF Confirmation
      <4> QED
        BY <2>4, <4>1
    <3> QED
      BY <2>3, <3>1, <3>2
  <2> QED
    BY <2>3, <2>8, <2>9 DEF Confirmations
<1>6. CASE Decide(c)
  <2> DEFINE all == Cardinality(confirmed[c]) >= Len(roster[c])
  <2>1. /\ phase[c] = "confirming" /\ ~Confirming(c)
        /\ phase' = [phase EXCEPT ![c] = IF all THEN "handshaking" ELSE "failed"]
        /\ UNCHANGED <<roster, confirmed, rounds, point>>
        /\ net' \subseteq net
    BY <1>6, SentFacts DEF Decide
  <2>2. rounds[c] > 0
    <3>1. ~(rounds[c] < point[c] + Extra)
      BY <2>1 DEF Confirming
    <3>2. rounds[c] \in 0 .. Tries + Extra /\ (rounds[c] = 0 => point[c] = Tries)
      BY DEF Types, Confirmations
    <3> QED
      BY <3>1, <3>2, NetplayStartAssumption
  <2>3. all => confirmed[c] = Range(roster[c])
    <3>1. roster[c] \in Seq(Clients) /\ confirmed[c] \subseteq Range(roster[c])
      BY <2>1 DEF Types, Confirmations
    <3> QED
      BY <3>1, AllConfirmed
  <2>4. all => \A p \in Range(roster[c]) : rounds[p] > 0
    BY <2>1, <2>2, <2>3 DEF Confirmations
  <2> HIDE DEF all
  <2>5. ASSUME NEW d \in Clients
        PROVE  /\ phase'[d] = "confirming" =>
                     /\ d \in confirmed[d] /\ confirmed[d] \subseteq Range(roster[d])
                     /\ \A p \in confirmed[d] \ {d} : rounds[p] > 0
               /\ phase'[d] \in {"handshaking", "started"} => \A p \in Range(roster[d]) : rounds[p] > 0
               /\ rounds[d] = 0 => point[d] = Tries
    <3>1. CASE d = c
      BY <2>1, <2>4, <3>1 DEF Confirmations, Types
    <3>2. CASE d # c
      BY <2>1, <3>2 DEF Confirmations, Types
    <3> QED
      BY <3>1, <3>2
  <2> QED
    BY <2>1, <2>5 DEF Confirmations
<1>7. CASE AnswerConfirm(c)
  <2>1. PICK p \in Others(c) \cap Senders(c, {"A"}) : Sent({Confirmation(c, p, TRUE)})
    BY <1>7 DEF AnswerConfirm
  <2>2. UNCHANGED <<phase, roster, confirmed, rounds, point>> /\ phase[c] = "handshaking"
    BY <1>7 DEF AnswerConfirm, client
  <2>3. rounds[c] > 0
    <3>1. c \in Range(roster[c])
      BY <2>2 DEF Rosters
    <3> QED
      BY <2>2, <3>1 DEF Confirmations
  <2>4. net' \subseteq net \cup {Confirmation(c, p, TRUE)} /\ Confirmation(c, p, TRUE).from = c
    BY <2>1, SentFacts DEF Confirmation
  <2> QED
    BY <2>2, <2>3, <2>4, ConfirmationsStay
<1>8. CASE Ping(c)
  <2>1. PICK d \in IF announced[c] = None /\ c \in pinged THEN Delays \cup {None}
                   ELSE {announced[c]} : Sent({PingPacket(c, p, d) : p \in Others(c)})
    BY <1>8 DEF Ping
  <2>2. net' \subseteq net \cup {PingPacket(c, p, d) : p \in Others(c)}
    BY <2>1, SentFacts
  <2>3. \A m \in net' : m \in net \/ m.type = "P"
    BY <2>2 DEF PingPacket
  <2> QED
    BY <1>8, <2>3, ConfirmationsStay DEF Ping
<1>9. CASE PingReturns(c)
  <2>1. net' \subseteq net
    BY <1>9, SentFacts DEF PingReturns
  <2> QED
    BY <1>9, <2>1, ConfirmationsStay DEF PingReturns
<1>10. CASE Pinged(c)
  <2>1. PICK m \in net : Sent({PingPacket(c, Zero(c), m.delay)})
    BY <1>10 DEF Pinged
  <2>2. \A n \in net' : n \in net \/ n.type = "P"
    BY <2>1, SentFacts DEF PingPacket
  <2> QED
    BY <1>10, <2>2, ConfirmationsStay DEF Pinged
<1>11. CASE Start(c)
  <2>1. net' \subseteq net
    BY <1>11, SentFacts DEF Start
  <2> QED
    BY <1>11, <2>1, ConfirmationsStay DEF Start, Types
<1>12. CASE Leave(c)
  <2>1. net' \subseteq net
    BY <1>12, SentFacts DEF Leave
  <2> QED
    BY <1>12, <2>1, ConfirmationsStay DEF Leave, Types
<1>13. CASE Disconnect(c)
  BY <1>13, ConfirmationsStay DEF Disconnect, client
<1> QED
  BY <1>1, <1>2, <1>3, <1>4, <1>5, <1>6, <1>7, <1>8, <1>9, <1>10, <1>11, <1>12, <1>13

-----------------------------------------------------------------------------
(* The handshake. *)

\* The lists and delays stay, and nobody starts or leaves who had not got as far.
LEMMA AgreedStays ==
    ASSUME IInv, UNCHANGED <<roster, pinged, announced, delay>>,
           \A d \in Clients : phase'[d] \in {"handshaking", "started"} =>
              phase[d] \in {"handshaking", "started"},
           \A d \in Clients : phase'[d] = "started" => phase[d] = "started",
           \A d \in Clients : phase[d] \in {"handshaking", "started", "left"} =>
              phase'[d] \in {"handshaking", "started", "left"},
           \A m \in net' : m \in net \/ m.type # "P"
    PROVE  Agreed'
<1>1. ASSUME NEW d \in Clients
      PROVE  /\ announced'[d] # None => /\ roster'[d] # <<>> /\ IsZero(d)' /\ delay'[d] = announced'[d]
                                        /\ phase'[d] \in {"handshaking", "started", "left"}
             /\ phase'[d] \in {"handshaking", "started"} => delay'[d] # None
             /\ delay'[d] \notin {None, 3} => roster'[d] # <<>> /\ delay'[d] = announced'[Zero(d)']
             /\ d \in pinged' => roster'[d] # <<>> /\ (IsZero(d)' \/ delay'[Zero(d)'] # None)
             /\ phase'[d] = "started" => delay'[Zero(d)'] # None
  BY DEF IInv, Agreed, IsZero, Zero
<1>2. ASSUME NEW m \in net', m.type = "P"
      PROVE  /\ roster'[m.from] # <<>> /\ roster'[m.to] = roster'[m.from]
             /\ delay'[Zero(m.from)'] # None
             /\ m.delay # None => m.delay = announced'[Zero(m.from)']
  BY <1>2 DEF IInv, Agreed, Zero
<1> QED
  BY <1>1, <1>2 DEF Agreed

LEMMA NextAgreed == ASSUME IInv, Next PROVE Agreed'
<1> PICK c \in Clients :
       \/ Ready(c) \/ Receive(c) \/ HandleZ(c) \/ ReadStart(c)
       \/ Confirm(c) \/ Decide(c) \/ AnswerConfirm(c)
       \/ Ping(c) \/ PingReturns(c) \/ Pinged(c) \/ Start(c)
       \/ Leave(c) \/ Disconnect(c)
  BY DEF Next
<1> USE DEF IInv
<1>1. CASE Ready(c)
  BY <1>1, AgreedStays DEF Ready, Types
<1>2. CASE Receive(c)
  BY <1>2, AgreedStays DEF Receive
<1>3. CASE HandleZ(c)
  <2>1. UNCHANGED <<phase, pinged, announced, delay, net>>
    BY <1>3 DEF HandleZ
  <2>2. \A d \in Clients : roster[d] # <<>> => roster'[d] = roster[d]
    BY <1>3, HandleZFacts
  <2>3. ASSUME NEW d \in Clients
        PROVE  /\ announced[d] # None => /\ roster'[d] # <<>> /\ IsZero(d)' /\ delay[d] = announced[d]
                                         /\ phase[d] \in {"handshaking", "started", "left"}
               /\ phase[d] \in {"handshaking", "started"} => delay[d] # None
               /\ delay[d] \notin {None, 3} => roster'[d] # <<>> /\ delay[d] = announced[Zero(d)']
               /\ d \in pinged => roster'[d] # <<>> /\ (IsZero(d)' \/ delay[Zero(d)'] # None)
               /\ phase[d] = "started" => delay[Zero(d)'] # None
    <3>1. CASE roster[d] = <<>>
      BY <3>1 DEF Agreed, Rosters
    <3>2. CASE roster[d] # <<>>
      BY <2>2, <3>2 DEF Agreed, IsZero, Zero
    <3> QED
      BY <3>1, <3>2
  <2>4. ASSUME NEW m \in net, m.type = "P"
        PROVE  /\ roster'[m.from] # <<>> /\ roster'[m.to] = roster'[m.from]
               /\ delay[Zero(m.from)'] # None
               /\ m.delay # None => m.delay = announced[Zero(m.from)']
    <3>1. m.from \in Clients /\ m.to \in Clients
      BY PacketFacts DEF Types
    <3> QED
      BY <2>2, <2>4, <3>1 DEF Agreed, Zero
  <2> QED
    BY <2>1, <2>3, <2>4 DEF Agreed
<1>4. CASE ReadStart(c)
  BY <1>4, AgreedStays DEF ReadStart, Types
<1>5. CASE Confirm(c)
  <2>1. PICK heard \in SUBSET Heard(c) : Round(c, heard)
    BY <1>5 DEF Confirm
  <2>2. net' \subseteq net \cup {Confirmation(c, p, p \in confirmed[c]) : p \in Others(c)}
    BY <2>1, SentFacts DEF Round
  <2>3. \A m \in net' : m \in net \/ m.type # "P"
    BY <2>2 DEF Confirmation
  <2> QED
    BY <2>1, <2>3, AgreedStays DEF Round
<1>6. CASE Decide(c)
  <2> DEFINE all == Cardinality(confirmed[c]) >= Len(roster[c])
  <2>1. /\ phase[c] = "confirming"
        /\ phase' = [phase EXCEPT ![c] = IF all THEN "handshaking" ELSE "failed"]
        /\ delay' = [delay EXCEPT ![c] = IF all THEN 3 ELSE @]
        /\ UNCHANGED <<roster, pinged, announced>>
        /\ net' \subseteq net
    BY <1>6, SentFacts DEF Decide
  <2> HIDE DEF all
  <2>2. announced[c] = None
    BY <2>1 DEF Agreed
  <2>3. /\ \A d \in Clients \ {c} : phase'[d] = phase[d] /\ delay'[d] = delay[d]
        /\ \/ delay'[c] = delay[c] /\ phase'[c] = "failed"
           \/ delay'[c] = 3 /\ phase'[c] = "handshaking"
    <3>1. /\ \A d \in Clients \ {c} : phase'[d] = phase[d] /\ delay'[d] = delay[d]
          /\ phase'[c] = IF all THEN "handshaking" ELSE "failed"
          /\ delay'[c] = IF all THEN 3 ELSE delay[c]
      BY <2>1 DEF Types
    <3>2. CASE all
      BY <3>1, <3>2
    <3>3. CASE ~all
      BY <3>1, <3>3
    <3> QED
      BY <3>1, <3>2, <3>3
  <2>4. \A d \in Clients : delay[d] # None => delay'[d] # None
    BY <2>3 DEF None
  <2>5. \A d \in Clients : roster[d] # <<>> => Zero(d) \in Clients
    BY RosterFacts
  <2>6. ASSUME NEW d \in Clients
        PROVE  /\ announced[d] # None => /\ roster[d] # <<>> /\ IsZero(d) /\ delay'[d] = announced[d]
                                         /\ phase'[d] \in {"handshaking", "started", "left"}
               /\ phase'[d] \in {"handshaking", "started"} => delay'[d] # None
               /\ delay'[d] \notin {None, 3} => roster[d] # <<>> /\ delay'[d] = announced[Zero(d)]
               /\ d \in pinged => roster[d] # <<>> /\ (IsZero(d) \/ delay'[Zero(d)] # None)
               /\ phase'[d] = "started" => roster[d] # <<>> /\ delay'[Zero(d)] # None
    <3>1. d \in pinged => roster[d] # <<>> /\ (IsZero(d) \/ delay'[Zero(d)] # None)
      BY <2>4, <2>5 DEF Agreed
    <3>2. phase'[d] = "started" => roster[d] # <<>> /\ delay'[Zero(d)] # None
      BY <2>3, <2>4, <2>5 DEF Agreed, Rosters
    <3>3. CASE d = c
      BY <2>2, <2>3, <3>1, <3>2, <3>3 DEF Agreed, None
    <3>4. CASE d # c
      BY <2>3, <3>1, <3>2, <3>4 DEF Agreed
    <3> QED
      BY <3>3, <3>4
  <2>7. ASSUME NEW m \in net, m.type = "P"
        PROVE  /\ roster[m.from] # <<>> /\ roster[m.to] = roster[m.from]
               /\ delay'[Zero(m.from)] # None
               /\ m.delay # None => m.delay = announced[Zero(m.from)]
    <3>1. m.from \in Clients
      BY PacketFacts DEF Types
    <3> QED
      BY <2>4, <2>5, <2>7, <3>1 DEF Agreed
  <2> QED
    BY <2>1, <2>6, <2>7 DEF Agreed, IsZero, Zero
<1>7. CASE AnswerConfirm(c)
  <2>1. PICK p \in Others(c) \cap Senders(c, {"A"}) : Sent({Confirmation(c, p, TRUE)})
    BY <1>7 DEF AnswerConfirm
  <2>2. \A m \in net' : m \in net \/ m.type # "P"
    BY <2>1, SentFacts DEF Confirmation
  <2> QED
    BY <1>7, <2>2, AgreedStays DEF AnswerConfirm, client
<1>8. CASE Ping(c)
  <2>1. PICK d \in IF announced[c] = None /\ c \in pinged THEN Delays \cup {None}
                   ELSE {announced[c]} :
           /\ phase[c] = "handshaking" /\ IsZero(c)
           /\ announced' = [announced EXCEPT ![c] = d]
           /\ delay' = [delay EXCEPT ![c] = IF d # None THEN d ELSE @]
           /\ UNCHANGED <<phase, roster, pinged>>
           /\ Sent({PingPacket(c, p, d) : p \in Others(c)})
    BY <1>8 DEF Ping
  <2>2. d \in Delays \cup {None} /\ (announced[c] # None => d = announced[c])
    BY <2>1 DEF Types
  <2>3. roster[c] # <<>> /\ delay[c] # None /\ Zero(c) = c
    BY <2>1 DEF Rosters, Agreed, IsZero, Zero
  <2>4. /\ announced'[c] = d /\ delay'[c] = IF d # None THEN d ELSE delay[c]
        /\ \A e \in Clients \ {c} : announced'[e] = announced[e] /\ delay'[e] = delay[e]
    BY <2>1 DEF Types
  <2>5. /\ \A e \in Clients : announced[e] # None => announced'[e] = announced[e]
        /\ \A e \in Clients : delay[e] # None => delay'[e] # None
    BY <2>2, <2>4
  <2>6. \A e \in Clients : roster[e] # <<>> => Zero(e) \in Clients
    BY RosterFacts
  <2>7. delay'[c] \notin {None, 3} => delay'[c] = announced'[c]
    <3>1. delay[c] \notin {None, 3} => delay[c] = announced[c]
      BY <2>3 DEF Agreed
    <3>2. CASE d # None
      BY <2>4, <3>2
    <3>3. CASE d = None
      BY <2>2, <2>4, <3>1, <3>3
    <3> QED
      BY <3>2, <3>3
  <2>8. ASSUME NEW e \in Clients
        PROVE  /\ announced'[e] # None => /\ roster[e] # <<>> /\ IsZero(e) /\ delay'[e] = announced'[e]
                                          /\ phase[e] \in {"handshaking", "started", "left"}
               /\ phase[e] \in {"handshaking", "started"} => delay'[e] # None
               /\ delay'[e] \notin {None, 3} => roster[e] # <<>> /\ delay'[e] = announced'[Zero(e)]
               /\ e \in pinged => roster[e] # <<>> /\ (IsZero(e) \/ delay'[Zero(e)] # None)
               /\ phase[e] = "started" => delay'[Zero(e)] # None
    <3>1. e \in pinged => roster[e] # <<>> /\ (IsZero(e) \/ delay'[Zero(e)] # None)
      BY <2>5, <2>6 DEF Agreed
    <3>2. phase[e] = "started" => delay'[Zero(e)] # None
      BY <2>5, <2>6 DEF Agreed, Rosters
    <3>3. CASE e = c
      BY <2>1, <2>3, <2>4, <2>5, <2>7, <3>1, <3>2, <3>3
    <3>4. CASE e # c
      <4>1. announced'[e] = announced[e] /\ delay'[e] = delay[e]
        BY <2>4, <3>4
      <4>2. delay[e] \notin {None, 3} => roster[e] # <<>> /\ announced[Zero(e)] = delay[e]
        BY DEF Agreed
      <4>3. delay[e] \notin {None, 3} => announced'[Zero(e)] = delay[e]
        BY <2>5, <2>6, <4>2
      <4> QED
        BY <3>1, <3>2, <4>1, <4>2, <4>3 DEF Agreed
    <3> QED
      BY <3>3, <3>4
  <2>9. ASSUME NEW m \in net', m.type = "P"
        PROVE  /\ roster[m.from] # <<>> /\ roster[m.to] = roster[m.from]
               /\ delay'[Zero(m.from)] # None
               /\ m.delay # None => m.delay = announced'[Zero(m.from)]
    <3>1. CASE m \in net
      <4>1. m.from \in Clients
        BY <3>1, PacketFacts DEF Types
      <4>2. /\ roster[m.from] # <<>> /\ roster[m.to] = roster[m.from] /\ delay[Zero(m.from)] # None
            /\ m.delay # None => m.delay = announced[Zero(m.from)]
        BY <2>9, <3>1 DEF Agreed
      <4> QED
        BY <2>5, <2>6, <4>1, <4>2
    <3>2. CASE m \notin net
      <4>1. net' \subseteq net \cup {PingPacket(c, p, d) : p \in Others(c)}
        BY <2>1, SentFacts
      <4>2. PICK p \in Others(c) : m = PingPacket(c, p, d)
        BY <3>2, <4>1
      <4>3. m.from = c /\ m.to = p /\ m.delay = d
        BY <4>2 DEF PingPacket
      <4>4. roster[p] = roster[c]
        BY <2>3, RosterFacts DEF Others
      <4> QED
        BY <2>3, <2>4, <2>5, <4>3, <4>4
    <3> QED
      BY <3>1, <3>2
  <2> QED
    BY <2>1, <2>8, <2>9 DEF Agreed, IsZero, Zero
<1>9. CASE PingReturns(c)
  <2>1. /\ phase[c] = "handshaking" /\ IsZero(c) /\ pinged' = pinged \cup {c}
        /\ UNCHANGED <<phase, roster, announced, delay>> /\ net' \subseteq net
    BY <1>9, SentFacts DEF PingReturns
  <2>2. roster[c] # <<>>
    BY <2>1 DEF Rosters
  <2> QED
    BY <2>1, <2>2 DEF Agreed, IsZero, Zero
<1>10. CASE Pinged(c)
  <2>1. PICK m \in {n \in net : n.to = c /\ n.type = "P"} :
           /\ phase[c] = "handshaking" /\ ~IsZero(c)
           /\ pinged' = pinged \cup {c}
           /\ delay' = [delay EXCEPT ![c] = IF m.delay # None THEN m.delay ELSE @]
           /\ UNCHANGED <<phase, roster, announced>>
           /\ Sent({PingPacket(c, Zero(c), m.delay)})
    BY <1>10 DEF Pinged
  <2>2. roster[c] # <<>> /\ announced[c] = None /\ delay[c] # None
    BY <2>1 DEF Rosters, Agreed
  <2>3. /\ Zero(c) = Zero(m.from) /\ delay[Zero(c)] # None
        /\ m.delay # None => m.delay = announced[Zero(c)]
    <3>1. roster[m.to] = roster[m.from] /\ m.to = c
      BY <2>1 DEF Agreed
    <3>2. Zero(c) = Zero(m.from)
      BY <3>1 DEF Zero
    <3> QED
      BY <2>1, <3>2 DEF Agreed
  <2>4. /\ \A e \in Clients \ {c} : delay'[e] = delay[e]
        /\ delay'[c] = IF m.delay # None THEN m.delay ELSE delay[c]
        /\ \A e \in Clients : delay[e] # None => delay'[e] # None
    BY <2>1 DEF Types
  <2>5. \A e \in Clients : roster[e] # <<>> => Zero(e) \in Clients
    BY RosterFacts
  <2>6. ASSUME NEW e \in Clients
        PROVE  /\ announced[e] # None => /\ roster[e] # <<>> /\ IsZero(e) /\ delay'[e] = announced[e]
                                         /\ phase[e] \in {"handshaking", "started", "left"}
               /\ phase[e] \in {"handshaking", "started"} => delay'[e] # None
               /\ delay'[e] \notin {None, 3} => roster[e] # <<>> /\ delay'[e] = announced[Zero(e)]
               /\ e \in pinged' => roster[e] # <<>> /\ (IsZero(e) \/ delay'[Zero(e)] # None)
               /\ phase[e] = "started" => delay'[Zero(e)] # None
    <3>1. e \in pinged' => roster[e] # <<>> /\ (IsZero(e) \/ delay'[Zero(e)] # None)
      <4>1. CASE e = c
        BY <2>2, <2>3, <2>4, <2>5, <4>1
      <4>2. CASE e # c
        BY <2>1, <2>4, <2>5, <4>2 DEF Agreed
      <4> QED
        BY <4>1, <4>2
    <3>2. phase[e] = "started" => delay'[Zero(e)] # None
      BY <2>4, <2>5 DEF Agreed, Rosters
    <3>3. CASE e = c
      <4>1. delay[c] \notin {None, 3} => delay[c] = announced[Zero(c)]
        BY DEF Agreed
      <4> QED
        BY <2>2, <2>3, <2>4, <3>1, <3>2, <3>3, <4>1
    <3>4. CASE e # c
      BY <2>4, <3>1, <3>2, <3>4 DEF Agreed
    <3> QED
      BY <3>3, <3>4
  <2>7. ASSUME NEW n \in net', n.type = "P"
        PROVE  /\ roster[n.from] # <<>> /\ roster[n.to] = roster[n.from]
               /\ delay'[Zero(n.from)] # None
               /\ n.delay # None => n.delay = announced[Zero(n.from)]
    <3>1. CASE n \in net
      <4>1. n.from \in Clients
        BY <3>1, PacketFacts DEF Types
      <4>2. /\ roster[n.from] # <<>> /\ roster[n.to] = roster[n.from] /\ delay[Zero(n.from)] # None
            /\ n.delay # None => n.delay = announced[Zero(n.from)]
        BY <2>7, <3>1 DEF Agreed
      <4> QED
        BY <2>4, <2>5, <4>1, <4>2
    <3>2. CASE n \notin net
      <4>1. n = PingPacket(c, Zero(c), m.delay)
        BY <2>1, <3>2, SentFacts
      <4>2. n.from = c /\ n.to = Zero(c) /\ n.delay = m.delay
        BY <4>1 DEF PingPacket
      <4>3. roster[Zero(c)] = roster[c]
        BY <2>2, RosterFacts
      <4> QED
        BY <2>2, <2>3, <2>4, <2>5, <4>2, <4>3
    <3> QED
      BY <3>1, <3>2
  <2> QED
    BY <2>1, <2>6, <2>7 DEF Agreed, IsZero, Zero
<1>11. CASE Start(c)
  <2>1. /\ phase[c] = "handshaking" /\ (IsZero(c) \/ c \in pinged)
        /\ phase' = [phase EXCEPT ![c] = "started"]
        /\ UNCHANGED <<roster, pinged, announced, delay>> /\ net' \subseteq net
    BY <1>11, SentFacts DEF Start
  <2>2. delay[Zero(c)] # None
    BY <2>1 DEF Agreed, IsZero, Zero
  <2>3. phase'[c] = "started" /\ \A d \in Clients \ {c} : phase'[d] = phase[d]
    BY <2>1 DEF Types
  <2>4. ASSUME NEW d \in Clients
        PROVE  /\ announced[d] # None => /\ roster[d] # <<>> /\ IsZero(d) /\ delay[d] = announced[d]
                                         /\ phase'[d] \in {"handshaking", "started", "left"}
               /\ phase'[d] \in {"handshaking", "started"} => delay[d] # None
               /\ delay[d] \notin {None, 3} => roster[d] # <<>> /\ delay[d] = announced[Zero(d)]
               /\ d \in pinged => roster[d] # <<>> /\ (IsZero(d) \/ delay[Zero(d)] # None)
               /\ phase'[d] = "started" => delay[Zero(d)] # None
    <3>1. CASE d = c
      BY <2>1, <2>2, <2>3, <3>1 DEF Agreed
    <3>2. CASE d # c
      BY <2>3, <3>2 DEF Agreed
    <3> QED
      BY <3>1, <3>2
  <2> QED
    BY <2>1, <2>4 DEF Agreed, IsZero, Zero
<1>12. CASE Leave(c)
  <2>1. net' \subseteq net
    BY <1>12, SentFacts DEF Leave
  <2> QED
    BY <1>12, <2>1, AgreedStays DEF Leave, Types
<1>13. CASE Disconnect(c)
  BY <1>13, AgreedStays DEF Disconnect, client
<1> QED
  BY <1>1, <1>2, <1>3, <1>4, <1>5, <1>6, <1>7, <1>8, <1>9, <1>10, <1>11, <1>12, <1>13

-----------------------------------------------------------------------------
(* Theorems. *)

LEMMA InitInv == Init => IInv
<1> SUFFICES ASSUME Init PROVE IInv
  OBVIOUS
<1>1. Types
  <2>1. <<>> \in Seq(Clients)
    OBVIOUS
  <2> QED
    BY <2>1, NetplayStartAssumption DEF Init, Types, Phases, Streams, None
<1>2. Joining
  <2>1. \A g \in Games : players[g] = <<>> /\ g # None
    BY DEF Init, Games, None
  <2>2. Range(<<>>) = {} /\ IsInjective(<<>>)
    BY DEF Range, IsInjective
  <2>3. <<"greetings!">> \in Streams \ Unread
    BY DEF Streams, Unread
  <2> QED
    BY <2>1, <2>2, <2>3 DEF Init, Joining
<1>3. Rosters /\ Confirmations /\ Agreed
  BY DEF Init, Rosters, Confirmations, Agreed
<1> QED
  BY <1>1, <1>2, <1>3 DEF IInv

\* What the server knows, what it tells the players and what they tell each other fit together.
THEOREM Invariance == Spec => []IInv
<1>1. IInv /\ [Next]_vars => IInv'
  <2> SUFFICES ASSUME IInv, [Next]_vars PROVE IInv'
    OBVIOUS
  <2>1. CASE Next
    BY <2>1, NextTypes, NextJoining, NextRosters, NextConfirmations, NextAgreed DEF IInv
  <2>2. CASE UNCHANGED vars
    <3>1. Types'
      BY <2>2 DEF IInv, Types, vars, client, server
    <3>2. Joining' /\ Rosters' /\ Confirmations'
      BY <2>2 DEF IInv, Joining, Rosters, Confirmations, vars, client, server
    <3>3. Agreed'
      BY <2>2, AgreedStays DEF vars, client, server
    <3> QED
      BY <3>1, <3>2, <3>3 DEF IInv
  <2> QED
    BY <2>1, <2>2
<1> QED
  BY <1>1, InitInv, PTL DEF Spec

\* Types.
THEOREM TypeCorrect == Spec => []TypeOK
<1>1. IInv => TypeOK
  <2> SUFFICES ASSUME IInv PROVE TypeOK
    OBVIOUS
  <2>1. Types
    BY DEF IInv
  <2>2. \A c \in Clients : Range(stream[c]) \subseteq {"greetings!", "READY"}
    <3> TAKE c \in Clients
    <3> QED
      BY <2>1, StreamType, RangeFacts DEF Types
  <2>3. \A c \in Clients : Range(roster[c]) \subseteq Clients
    BY <2>1, RangeFacts DEF Types
  <2>4. \A g \in Games : Range(players[g]) \subseteq Clients
    BY <2>1, RangeFacts DEF Types
  <2> QED
    BY <2>1, <2>2, <2>3, <2>4 DEF Types, TypeOK
<1> QED
  BY <1>1, Invariance, PTL

\* Whoever starts has the list all the players on it have, each of whom has confirmed, and
\* plays with the delay of slot 0 or the usual one.
THEOREM PlayersStartTogether == Spec => []StartsTogether
<1>1. IInv => StartsTogether
  <2> SUFFICES ASSUME IInv, NEW c \in Clients, phase[c] \in {"handshaking", "started"}
               PROVE  /\ \A p \in Range(roster[c]) : roster[p] = roster[c] /\ rounds[p] > 0
                      /\ phase[c] = "started" => delay[Zero(c)] # None
                      /\ delay[c] \in {3, delay[Zero(c)]}
    BY DEF StartsTogether
  <2>1. roster[c] # <<>> /\ Zero(c) \in Clients
    BY RosterFacts DEF IInv, Rosters
  <2>2. \A p \in Range(roster[c]) : roster[p] = roster[c] /\ rounds[p] > 0
    BY <2>1 DEF IInv, Rosters, Confirmations
  <2>3. phase[c] = "started" => delay[Zero(c)] # None
    BY DEF IInv, Agreed
  <2>4. delay[c] \in {3, delay[Zero(c)]}
    BY <2>1 DEF IInv, Agreed
  <2> QED
    BY <2>2, <2>3, <2>4
<1> QED
  BY <1>1, Invariance, PTL

\* The server's tables agree, and it knows the addresses it relays packets to.
THEOREM ServerTablesAgree == Spec => []TablesAgree
<1>1. IInv => TablesAgree
  <2> SUFFICES ASSUME IInv PROVE TablesAgree
    OBVIOUS
  <2>1. ASSUME NEW c \in Clients, roster[c] # <<>>
        PROVE  RelayTo(c) \subseteq endpoint
    <3>1. CASE c \in ids /\ game[c] # None
      <4>1. game[c] \in Games
        BY <3>1 DEF IInv, Types
      <4>2. Range(players[game[c]]) = {p \in Clients : game[p] = game[c]}
        BY <4>1 DEF IInv, Joining
      <4>3. \A p \in Clients : game[p] = game[c] => p \in endpoint
        BY <2>1, <3>1 DEF IInv, Joining
      <4> QED
        BY <4>2, <4>3 DEF RelayTo
    <3>2. CASE ~(c \in ids /\ game[c] # None)
      BY <3>2 DEF RelayTo
    <3> QED
      BY <3>1, <3>2
  <2> QED
    BY <2>1 DEF IInv, Joining, TablesAgree
<1> QED
  BY <1>1, Invariance, PTL
=============================================================================
