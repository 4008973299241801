--------------------------- MODULE NetplayProofs ----------------------------
(***************************************************************************)
(* Proofs about Netplay under the bounded lag of NetplayBounded, for any   *)
(* number of players, frames, delays and history lengths.                  *)
(***************************************************************************)
EXTENDS NetplayBounded, TLAPS

\* A player's own record: all of it is confirmed, it is never as long as
\* MaxHistory between two turns, and the record of no other player is shorter.
LocalRecord ==
    \A p \in Slots :
       /\ confirmed[p][p] = ending[p][p]
       /\ start[p] <= ending[p][p]
       /\ ending[p][p] - start[p] < MaxHistory
       /\ \A s \in Slots : ending[p][p] <= ending[p][s]

\* What p has confirmed of s, s has recorded, and so has p.
KnownExists ==
    \A p \in Slots : \A s \in Others(p) :
       /\ confirmed[p][s] <= ending[s][s]
       /\ confirmed[p][s] > 0 => confirmed[p][s] < ending[s][s] /\ confirmed[p][s] < ending[p][s]

\* A packet in flight tells the truth: its frames are the ones its sender has
\* recorded, and the cycle it acknowledges was confirmed.
PacketsTrue ==
    \A m \in net :
       /\ m.current < ending[m.slot][m.slot]
       /\ \A i \in m.first..m.current :
             i >= start[m.slot] => m.frames[i] = controls[m.slot][m.slot][i]
       /\ \A r \in Others(m.slot) : m.highest <= confirmed[m.slot][r]

\* The game is as many cycles old as control frames were recorded, up to the
\* one that is recorded at the beginning of a turn and simulated at its end.
CycleCount ==
    \A p \in Slots :
       ending[p][p] = IF pc[p] = "idle" THEN Cycle(p) ELSE Cycle(p) + 1

IInv ==
    /\ TypeOK
    /\ CycleCount
    /\ LocalRecord
    /\ KnownExists
    /\ PacketsTrue
    /\ PacketsConnect
    /\ AcknowledgedFramesArrived
    /\ ConfirmedFramesTrue

-----------------------------------------------------------------------------
(* Helpers.                                                                *)

\* What Larger returns.
LEMMA LargerFacts ==
    \A a, b \in Int : /\ Larger(a, b) \in {a, b}
                      /\ Larger(a, b) >= a
                      /\ Larger(a, b) >= b
  BY DEF Larger

\* What remains of a full history after half of it is erased.
LEMMA HalfFacts ==
    /\ MaxHistory \div 2 \in 1..(MaxHistory - 1)
    /\ MaxHistory - (MaxHistory \div 2) > MaxLag
  BY NetplayAssumption, BoundedLagAssumption

\* The types of single values.
LEMMA Types ==
    ASSUME IInv
    PROVE  /\ Delay \in Nat /\ MaxLag \in Nat /\ MaxHistory \in Nat /\ MaxBackups \in Nat \ {0}
           /\ \A p \in Slots :
                 /\ start[p] \in Nat /\ firstInvalid[p] \in Nat \cup {-1}
                 /\ world[p] \in Seq([Slots -> Frames]) /\ Cycle(p) \in Nat
                 /\ backups[p] \in Seq(Seq([Slots -> Frames])) /\ Len(backups[p]) \in Nat
                 /\ pc[p] \in {"idle", "receiving"}
                 /\ ending[p][p] = IF pc[p] = "idle" THEN Cycle(p) ELSE Cycle(p) + 1
           /\ \A p, s \in Slots :
                 /\ ending[p][s] \in Nat /\ confirmed[p][s] \in Nat /\ remoteConfirmed[p][s] \in Nat
                 /\ ending[p][p] <= ending[p][s]
           /\ \A p, s \in Slots : s # p =>
                 /\ confirmed[p][s] <= ending[s][s]
                 /\ confirmed[p][s] > 0 => confirmed[p][s] < ending[p][s]
<1>1. /\ Delay \in Nat /\ MaxLag \in Nat /\ MaxHistory \in Nat /\ MaxBackups \in Nat \ {0}
  BY NetplayAssumption
<1>2. ASSUME NEW p \in Slots
      PROVE  /\ start[p] \in Nat /\ firstInvalid[p] \in Nat \cup {-1}
             /\ world[p] \in Seq([Slots -> Frames]) /\ backups[p] \in Seq(Seq([Slots -> Frames]))
             /\ pc[p] \in {"idle", "receiving"}
  BY DEF IInv, TypeOK
<1>3. ASSUME NEW p \in Slots PROVE Cycle(p) \in Nat /\ Len(backups[p]) \in Nat
  BY <1>2 DEF Cycle
<1>4. ASSUME NEW p \in Slots
      PROVE  ending[p][p] = IF pc[p] = "idle" THEN Cycle(p) ELSE Cycle(p) + 1
  BY DEF IInv, CycleCount
<1>5. ASSUME NEW p \in Slots, NEW s \in Slots
      PROVE  /\ ending[p][s] \in Nat /\ confirmed[p][s] \in Nat /\ remoteConfirmed[p][s] \in Nat
             /\ ending[p][p] <= ending[p][s]
  BY DEF IInv, TypeOK, LocalRecord
<1>6. ASSUME NEW p \in Slots, NEW s \in Slots, s # p
      PROVE  /\ confirmed[p][s] <= ending[s][s]
             /\ confirmed[p][s] > 0 => confirmed[p][s] < ending[p][s]
  BY <1>6 DEF IInv, KnownExists, Others
<1> QED
  BY <1>1, <1>2, <1>3, <1>4, <1>5, <1>6

\* The invariant holds when a level starts.
LEMMA InitInv == Init => IInv
<1> SUFFICES ASSUME Init PROVE IInv
  OBVIOUS
<1> USE DEF Init
<1>1. TypeOK
  BY NetplayAssumption DEF TypeOK
<1>2. CycleCount
  BY DEF CycleCount, Cycle
<1>3. LocalRecord
  BY NetplayAssumption DEF LocalRecord
<1>4. KnownExists /\ PacketsTrue /\ PacketsConnect /\ AcknowledgedFramesArrived /\ ConfirmedFramesTrue
  BY DEF KnownExists, PacketsTrue, PacketsConnect, AcknowledgedFramesArrived, ConfirmedFramesTrue, Others
<1> QED
  BY <1>1, <1>2, <1>3, <1>4 DEF IInv

-----------------------------------------------------------------------------
(* The simulation: every input it reads is recorded.                       *)

\* A game cycle that is at most one ahead of the simulated ones has its inputs.
LEMMA InputsType ==
    ASSUME TypeOK, LocalRecord, NEW p \in Slots, NEW g \in Nat, g <= ending[p][p], g >= 1
    PROVE  Inputs(p, g) \in [Slots -> Frames]
<1> SUFFICES ASSUME NEW s \in Slots PROVE GameInput(p, s, g) \in Frames
  BY DEF Inputs
<1>1. CASE g - 1 - Delay < start[p]
  BY <1>1, NetplayAssumption DEF GameInput
<1>2. CASE ~(g - 1 - Delay < start[p])
  <2>1. /\ start[p] \in Nat /\ ending[p][p] \in Nat /\ ending[p][s] \in Nat
        /\ ending[p][p] <= ending[p][s] /\ Delay \in Nat
        /\ controls[p][s] \in [start[p]..(ending[p][s] - 1) -> Frames]
    BY NetplayAssumption DEF TypeOK, LocalRecord
  <2>2. g - 1 - Delay \in start[p]..(ending[p][s] - 1)
    BY <1>2, <2>1
  <2> QED
    BY <1>2, <2>1, <2>2 DEF GameInput
<1> QED
  BY <1>1, <1>2

\* The snapshots of a player that has replayed, before the oldest may be dropped.
Retaken(p) ==
    [i \in 1..(Len(backups[p]) + 1) |->
        IF i <= ReplayIndex(p) THEN backups[p][i]
        ELSE SubSeq(Replayed(p), 1, Cycle(p) - Len(backups[p]) + i - 1)]

\* What a rollback computes has the right type.
LEMMA ReplayType ==
    ASSUME IInv, NEW p \in Slots, pc[p] = "idle", NeedsReplay(p), ReplayIndex(p) >= 0
    PROVE  /\ Replayed(p) \in Seq([Slots -> Frames]) /\ Len(Replayed(p)) = Cycle(p)
           /\ Retaken(p) \in Seq(Seq([Slots -> Frames]))
           /\ Len(Retaken(p)) = Len(backups[p]) + 1
           /\ ReplayIndex(p) \in Nat /\ ReplayIndex(p) + 1 \in 1..Len(backups[p])
           /\ ReplayIndex(p) = Len(backups[p]) - (Cycle(p) - firstInvalid[p])
<1> DEFINE Input == [Slots -> Frames]
           c == Cycle(p)
           n == Len(backups[p])
           k == ReplayIndex(p)
<1>1. /\ world \in [Slots -> Seq(Input)] /\ backups \in [Slots -> Seq(Seq(Input))]
      /\ firstInvalid \in [Slots -> Nat \cup {-1}]
  BY DEF IInv, TypeOK
<1>2. /\ c \in Nat /\ n \in Nat /\ firstInvalid[p] \in Nat /\ c > firstInvalid[p]
      /\ k \in Nat /\ k = n - (c - firstInvalid[p]) /\ k + 1 \in 1..n
  BY <1>1, SMTT(60) DEF NeedsReplay, ReplayIndex, Cycle
<1>3. \A s \in Seq(Seq(Input)) : \A i \in 1..Len(s) : s[i] \in Seq(Input)
  OBVIOUS
<1>4. \A s \in Seq(Input) : \A i \in 1..Len(s) : s[i] \in Input
  OBVIOUS
<1>5. backups[p][k + 1] \in Seq(Input)
  <2>1. backups[p] \in Seq(Seq(Input)) /\ k + 1 \in 1..Len(backups[p])
    BY <1>1, <1>2
  <2> QED
    BY <1>3, <2>1, Zenon
<1>6. \A g \in 1..c : Inputs(p, g) \in Input
  <2>1. c = ending[p][p]
    BY DEF IInv, CycleCount
  <2> QED
    BY <1>2, <2>1, InputsType DEF IInv
<1>7. Replayed(p) \in [1..c -> Input]
  <2> SUFFICES ASSUME NEW g \in 1..c, NEW t \in Seq(Input), t = backups[p][k + 1]
               PROVE  (IF g <= Len(t) THEN t[g] ELSE Inputs(p, g)) \in Input
    BY <1>5 DEF Replayed
  <2>1. CASE g <= Len(t)
    <3>1. g \in 1..Len(t)
      BY <1>2, <2>1
    <3> QED
      BY <1>4, <2>1, <3>1, Zenon
  <2>2. CASE ~(g <= Len(t))
    BY <1>6, <2>2, Zenon
  <2> QED
    BY <2>1, <2>2, Zenon
<1>8. Replayed(p) \in Seq(Input) /\ Len(Replayed(p)) = c
  BY <1>2, <1>7
<1>9. ASSUME NEW i \in 1..(n + 1)
      PROVE  (IF i <= k THEN backups[p][i] ELSE SubSeq(Replayed(p), 1, c - n + i - 1)) \in Seq(Input)
  <2>1. CASE i <= k
    <3>1. i \in 1..n
      <4> HIDE DEF n, k, c
      <4> QED
        BY <1>2, <2>1
    <3>2. backups[p] \in Seq(Seq(Input)) /\ i \in 1..Len(backups[p])
      BY <1>1, <3>1
    <3>3. backups[p][i] \in Seq(Input)
      BY <1>3, <3>2, Zenon
    <3> QED
      BY <2>1, <3>3, Zenon
  <2>2. CASE ~(i <= k)
    <3>1. c - n + i - 1 \in 0..c
      <4> HIDE DEF c, n, k
      <4> QED
        BY <1>2, <2>2
    <3>2. SubSeq(Replayed(p), 1, c - n + i - 1) \in Seq(Input)
      BY <1>8, <3>1
    <3> QED
      BY <2>2, <3>2, Zenon
  <2> QED
    BY <2>1, <2>2, Zenon
<1>10. Retaken(p) \in [1..(n + 1) -> Seq(Input)]
  BY <1>9 DEF Retaken
<1>11. Retaken(p) \in Seq(Seq(Input)) /\ Len(Retaken(p)) = n + 1
  <2>1. n + 1 \in Nat
    BY <1>2
  <2> HIDE DEF Input, n
  <2> QED
    BY <1>10, <2>1
<1> QED
  BY <1>2, <1>8, <1>11

\* A rollback leaves a game state and snapshots of the right type, and the game
\* as many cycles old as it was.
LEMMA RollbackType ==
    ASSUME IInv, NEW p \in Slots, pc[p] = "idle", Rollback(p)
    PROVE  /\ world' \in [Slots -> Seq([Slots -> Frames])]
           /\ backups' \in [Slots -> Seq(Seq([Slots -> Frames]))]
           /\ firstInvalid' \in [Slots -> Nat \cup {-1}]
           /\ \A q \in Slots : Len(world'[q]) = Len(world[q])
<1> DEFINE Input == [Slots -> Frames]
<1>1. /\ world \in [Slots -> Seq(Input)] /\ backups \in [Slots -> Seq(Seq(Input))]
      /\ firstInvalid \in [Slots -> Nat \cup {-1}]
  BY DEF IInv, TypeOK
<1>2. firstInvalid' \in [Slots -> Nat \cup {-1}]
  BY <1>1 DEF Rollback
<1>3. \A b \in Seq(Seq(Input)) : Newest(b) \in Seq(Seq(Input))
  <2> TAKE b \in Seq(Seq(Input))
  <2>1. CASE Len(b) > MaxBackups
    <3>1. b # << >> /\ Len(b) \in Nat
      BY <2>1, NetplayAssumption
    <3>2. Tail(b) \in Seq(Seq(Input))
      BY <3>1
    <3> QED
      BY <2>1, <3>2 DEF Newest
  <2>2. CASE ~(Len(b) > MaxBackups)
    BY <2>2 DEF Newest
  <2> QED
    BY <2>1, <2>2
<1>4. CASE ~NeedsReplay(p)
  <2>1. world' = world /\ backups' = [backups EXCEPT ![p] = Newest(Append(backups[p], world[p]))]
    BY <1>4 DEF Rollback
  <2>2. Append(backups[p], world[p]) \in Seq(Seq(Input))
    BY <1>1
  <2>3. Newest(Append(backups[p], world[p])) \in Seq(Seq(Input))
    BY <1>3, <2>2
  <2>4. backups' \in [Slots -> Seq(Seq(Input))]
    BY <1>1, <2>1, <2>3
  <2>5. world' \in [Slots -> Seq(Input)] /\ \A q \in Slots : Len(world'[q]) = Len(world[q])
    BY <1>1, <2>1
  <2> QED
    BY <1>2, <2>4, <2>5, Zenon
<1>5. CASE NeedsReplay(p)
  <2>1. /\ ReplayIndex(p) >= 0
        /\ world' = [world EXCEPT ![p] = Replayed(p)]
        /\ backups' = [backups EXCEPT ![p] = Newest(Retaken(p))]
    BY <1>5 DEF Rollback, Retaken
  <2>2. /\ Replayed(p) \in Seq(Input) /\ Len(Replayed(p)) = Len(world[p])
        /\ Retaken(p) \in Seq(Seq(Input))
    BY <1>5, <2>1, ReplayType DEF Cycle
  <2>3. backups' \in [Slots -> Seq(Seq(Input))]
    <3> HIDE DEF Input
    <3> QED
      BY <1>1, <1>3, <2>1, <2>2
  <2>4. world' \in [Slots -> Seq(Input)] /\ \A q \in Slots : Len(world'[q]) = Len(world[q])
    <3> HIDE DEF Input
    <3> QED
      BY <1>1, <2>1, <2>2
  <2> QED
    BY <1>2, <2>3, <2>4
<1> QED
  BY <1>4, <1>5

-----------------------------------------------------------------------------
(* Recording a frame.                                                      *)

\* Recording a frame adds it to the player's own record, keeps every frame that
\* is not erased, and erases only what every other player has acknowledged.
LEMMA RecordFacts ==
    ASSUME IInv, NEW p \in Slots, NEW keys \in Pressable[p],
           \A s \in Others(p) : Lag(p, s) <= MaxLag, ReadLocalControls(p, keys)
    PROVE  /\ start' \in [Slots -> Nat]
           /\ ending' \in [Slots -> [Slots -> Nat]]
           /\ confirmed' \in [Slots -> [Slots -> Nat]]
           /\ controls' = [q \in Slots |-> [s \in Slots |-> controls'[q][s]]]
           /\ \A s \in Slots : controls'[p][s] \in [start'[p]..(ending'[p][s] - 1) -> Frames]
           /\ \A q \in Slots \ {p} : /\ start'[q] = start[q]
                                     /\ ending'[q] = ending[q]
                                     /\ confirmed'[q] = confirmed[q]
                                     /\ controls'[q] = controls[q]
           /\ start'[p] >= start[p]
           /\ ending'[p][p] = ending[p][p] + 1
           /\ ending'[p][p] - start'[p] \in 1..(MaxHistory - 1)
           /\ \A s \in Slots : /\ ending'[p][s] >= ending[p][s]
                               /\ ending'[p][s] >= ending'[p][p]
           /\ confirmed'[p][p] = confirmed[p][p] + 1
           /\ \A s \in Others(p) : /\ confirmed'[p][s] = confirmed[p][s]
                                   /\ start'[p] <= remoteConfirmed[p][s]
           /\ \A s \in Slots : \A i \in start'[p]..(ending[p][s] - 1) :
                 controls'[p][s][i] = controls[p][s][i]
<1> DEFINE end == ending[p][p] + 1
           nerase == IF end - start[p] >= MaxHistory THEN (end - start[p]) \div 2 ELSE 0
           first == start[p] + nerase
           newEnd == [s \in Slots |-> Larger(ending[p][s], end)]
           record == [s \in Slots |-> [i \in first..(newEnd[s] - 1) |->
                         IF s = p /\ i = end - 1 THEN keys ELSE Predicted(p, s, i)]]
<1>1. /\ start' = [start EXCEPT ![p] = first]
      /\ ending' = [ending EXCEPT ![p] = newEnd]
      /\ controls' = [controls EXCEPT ![p] = record]
      /\ confirmed' = [confirmed EXCEPT ![p][p] = @ + 1]
  BY DEF ReadLocalControls
<1>2. /\ start \in [Slots -> Nat] /\ ending \in [Slots -> [Slots -> Nat]]
      /\ confirmed \in [Slots -> [Slots -> Nat]] /\ remoteConfirmed \in [Slots -> [Slots -> Nat]]
      /\ controls = [q \in Slots |-> [s \in Slots |-> controls[q][s]]]
      /\ \A s \in Slots : controls[p][s] \in [start[p]..(ending[p][s] - 1) -> Frames]
  BY DEF IInv, TypeOK
<1>3. /\ start[p] \in Nat /\ ending[p][p] \in Nat /\ start[p] <= ending[p][p]
      /\ ending[p][p] - start[p] < MaxHistory /\ confirmed[p][p] = ending[p][p]
      /\ \A s \in Slots : ending[p][s] \in Nat /\ ending[p][p] <= ending[p][s]
  BY <1>2 DEF IInv, LocalRecord
<1>4. /\ MaxHistory \in Nat \ {0, 1} /\ MaxLag \in Nat /\ keys \in Frames /\ NoKeys \in Frames
  BY NetplayAssumption
<1>5. /\ end - start[p] < MaxHistory => nerase = 0
      /\ ~(end - start[p] < MaxHistory) => end - start[p] = MaxHistory /\ nerase = MaxHistory \div 2
  BY <1>3, <1>4
<1>6. /\ nerase \in 0..(end - start[p] - 1)
      /\ nerase = 0 \/ end - first > MaxLag
      /\ end - first \in 1..(MaxHistory - 1)
      /\ first \in Nat /\ first >= start[p]
  <2> HIDE DEF nerase
  <2> QED
    BY <1>3, <1>4, <1>5, HalfFacts
<1>7. \A s \in Slots : /\ newEnd[s] \in Nat /\ newEnd[s] >= ending[p][s] /\ newEnd[s] >= end
                       /\ newEnd[s] = ending[p][s] \/ newEnd[s] = end
  BY <1>3, LargerFacts
<1>8. newEnd[p] = end
  BY <1>3 DEF Larger
<1>9. ASSUME NEW s \in Slots, NEW i \in first..(newEnd[s] - 1)
      PROVE  Predicted(p, s, i) \in Frames
  <2>1. controls[p][s] \in [start[p]..(ending[p][s] - 1) -> Frames] /\ i \in Nat /\ i >= start[p]
    <3>1. newEnd[s] \in Nat /\ start[p] \in Nat /\ first \in Nat /\ first >= start[p]
      BY <1>3, <1>6, <1>7
    <3>2. i \in first..(newEnd[s] - 1)
      OBVIOUS
    <3>3. i \in Nat /\ i >= start[p]
      <4> HIDE DEF first, newEnd, record
      <4> QED
        BY <3>1, <3>2
    <3> QED
      BY <1>2, <3>3
  <2>2. CASE i < ending[p][s]
    BY <1>3, <2>1, <2>2, SMTT(30) DEF Predicted
  <2>3. CASE ~(i < ending[p][s])
    <3>1. ending[p][s] = start[p] \/ ending[p][s] - 1 \in start[p]..(ending[p][s] - 1)
      BY <1>3
    <3> QED
      BY <1>4, <2>1, <2>3, <3>1 DEF Predicted
  <2> QED
    BY <2>2, <2>3
<1>10. ASSUME NEW s \in Slots PROVE record[s] \in [first..(newEnd[s] - 1) -> Frames]
  BY <1>4, <1>9
<1>11. ASSUME NEW s \in Slots, NEW i \in first..(ending[p][s] - 1)
       PROVE  record[s][i] = controls[p][s][i]
  <2> HIDE DEF nerase
  <2>1. i \in first..(newEnd[s] - 1) /\ i < ending[p][s]
    BY <1>3, <1>6, <1>7
  <2>2. ~(s = p /\ i = end - 1)
    BY <1>3, <2>1
  <2> QED
    BY <2>1, <2>2 DEF Predicted
<1>12. ASSUME NEW s \in Others(p) PROVE first <= remoteConfirmed[p][s]
  <2>1. /\ start[p] <= remoteConfirmed[p][s] /\ remoteConfirmed[p][s] \in Nat /\ confirmed[p][s] \in Nat
    BY <1>2 DEF IInv, PacketsConnect, Others
  <2>2. ending[p][p] - remoteConfirmed[p][s] <= MaxLag
    <3>1. /\ ending[p][p] - confirmed[p][s] \in Int /\ ending[p][p] - remoteConfirmed[p][s] \in Int
          /\ Lag(p, s) <= MaxLag
      BY <1>3, <2>1
    <3> QED
      BY <3>1, <1>4, LargerFacts DEF Lag
  <2> HIDE DEF nerase
  <2>3. CASE nerase = 0
    BY <1>3, <2>1, <2>3
  <2>4. CASE end - first > MaxLag
    BY <1>3, <1>4, <1>6, <2>1, <2>2, <2>4
  <2> QED
    BY <1>6, <2>3, <2>4
<1>13. /\ start'[p] = first /\ ending'[p] = newEnd /\ controls'[p] = record
       /\ confirmed'[p][p] = confirmed[p][p] + 1
       /\ \A s \in Others(p) : confirmed'[p][s] = confirmed[p][s]
       /\ \A q \in Slots \ {p} : /\ start'[q] = start[q] /\ ending'[q] = ending[q]
                                 /\ confirmed'[q] = confirmed[q] /\ controls'[q] = controls[q]
  <2> HIDE DEF first, newEnd, record
  <2> QED
    BY <1>1, <1>2 DEF Others
<1>14. controls' = [q \in Slots |-> [s \in Slots |-> controls'[q][s]]]
  <2>1. record = [s \in Slots |-> record[s]]
    OBVIOUS
  <2> HIDE DEF record
  <2>2. \A q \in Slots : controls'[q] = [s \in Slots |-> controls'[q][s]]
    <3> TAKE q \in Slots
    <3>1. CASE q = p
      BY <1>13, <2>1, <3>1
    <3>2. CASE q # p
      BY <1>2, <1>13, <3>2
    <3> QED
      BY <3>1, <3>2
  <2>3. controls' = [q \in Slots |-> controls'[q]]
    BY <1>1, <1>2
  <2> QED
    BY <2>2, <2>3
<1>15. /\ start' \in [Slots -> Nat] /\ ending' \in [Slots -> [Slots -> Nat]]
       /\ confirmed' \in [Slots -> [Slots -> Nat]]
  <2>1. newEnd \in [Slots -> Nat]
    BY <1>7
  <2> HIDE DEF first, newEnd, record
  <2> QED
    BY <1>1, <1>2, <1>6, <2>1, SMTT(30)
<1>16. \A s \in Slots : /\ controls'[p][s] \in [start'[p]..(ending'[p][s] - 1) -> Frames]
                        /\ \A i \in start'[p]..(ending[p][s] - 1) : controls'[p][s][i] = controls[p][s][i]
                        /\ ending'[p][s] >= ending[p][s] /\ ending'[p][s] >= ending'[p][p]
  <2> HIDE DEF first, newEnd, record, end
  <2> QED
    BY <1>7, <1>8, <1>10, <1>11, <1>13
<1>17. /\ start'[p] >= start[p] /\ ending'[p][p] = ending[p][p] + 1
       /\ ending'[p][p] - start'[p] \in 1..(MaxHistory - 1)
       /\ \A s \in Others(p) : start'[p] <= remoteConfirmed[p][s]
  <2>1. ending'[p][p] = end
    BY <1>8, <1>13
  <2>2. end = ending[p][p] + 1
    OBVIOUS
  <2> HIDE DEF first, newEnd, record, end
  <2> QED
    BY <1>6, <1>12, <1>13, <2>1, <2>2
<1> QED
  <2> HIDE DEF first, newEnd, record, end, nerase
  <2> QED
    BY <1>13, <1>14, <1>15, <1>16, <1>17

-----------------------------------------------------------------------------
(* One step of each kind preserves the invariant.                          *)

\* A part of a function is a function with the same range.
LEMMA Restriction ==
    ASSUME NEW S, NEW Values, NEW f \in [S -> Values], NEW T \in SUBSET S
    PROVE  [i \in T |-> f[i]] \in [T -> Values]
  OBVIOUS

\* The packet a player sends is well formed, tells the truth, and starts with a
\* frame that every receiver has confirmed or is about to.
LEMMA PacketFacts ==
    ASSUME IInv, NEW p \in Slots, NEW keys \in Pressable[p],
           \A s \in Others(p) : Lag(p, s) <= MaxLag, ReadLocalControls(p, keys),
           SendControlPacket(p)
    PROVE  \A m \in net' : m \in net \/
              /\ PacketOK(m)
              /\ m.slot = p /\ m.current = ending'[p][p] - 1 /\ m.first >= start'[p]
              /\ \A i \in m.first..m.current : m.frames[i] = controls'[p][p][i]
              /\ \A r \in Others(p) : m.highest <= confirmed'[p][r] /\ m.first <= confirmed[r][p]
<1>1. PICK theirs \in Lowest({remoteConfirmed[p][s] : s \in Others(p)}),
           ours \in Lowest({confirmed'[p][s] : s \in Slots}) :
         net' = Useful(net \cup {[slot |-> p, current |-> ending'[p][p] - 1, highest |-> ours,
                   first |-> Larger(start'[p], theirs),
                   frames |-> [i \in Larger(start'[p], theirs)..(ending'[p][p] - 1) |->
                                 controls'[p][p][i]]]}, confirmed')
  BY DEF SendControlPacket
<1> DEFINE current == ending'[p][p] - 1
           first == Larger(start'[p], theirs)
           packet == [slot |-> p, current |-> current, highest |-> ours, first |-> first,
                      frames |-> [i \in first..current |-> controls'[p][p][i]]]
<1>2. /\ start'[p] \in Nat /\ ending'[p][p] \in Nat /\ ending[p][p] \in Nat
      /\ ending'[p][p] = ending[p][p] + 1 /\ start'[p] < ending'[p][p]
      /\ controls'[p][p] \in [start'[p]..current -> Frames]
      /\ confirmed' \in [Slots -> [Slots -> Nat]]
      /\ \A s \in Others(p) : start'[p] <= remoteConfirmed[p][s]
  <2>1. /\ start' \in [Slots -> Nat] /\ ending' \in [Slots -> [Slots -> Nat]]
        /\ confirmed' \in [Slots -> [Slots -> Nat]]
        /\ ending'[p][p] = ending[p][p] + 1
        /\ ending'[p][p] - start'[p] \in 1..(MaxHistory - 1)
    BY RecordFacts
  <2>2. \A s \in Slots : controls'[p][s] \in [start'[p]..(ending'[p][s] - 1) -> Frames]
    BY RecordFacts
  <2>3. \A s \in Others(p) : start'[p] <= remoteConfirmed[p][s]
    BY RecordFacts
  <2>4. ending[p][p] \in Nat /\ start'[p] \in Nat /\ ending'[p][p] \in Nat /\ MaxHistory \in Nat
    BY <2>1, NetplayAssumption DEF IInv, TypeOK
  <2>5. start'[p] < ending'[p][p]
    BY <2>1, <2>4
  <2> QED
    BY <2>1, <2>2, <2>3, <2>4, <2>5
<1>3. /\ \E s \in Others(p) : theirs = remoteConfirmed[p][s]
      /\ \A s \in Others(p) : theirs <= remoteConfirmed[p][s]
      /\ \E s \in Slots : ours = confirmed'[p][s]
      /\ \A s \in Slots : ours <= confirmed'[p][s]
  BY DEF Lowest
<1>4. \A s \in Others(p) : /\ remoteConfirmed[p][s] \in Nat /\ confirmed[s][p] \in Nat
                           /\ remoteConfirmed[p][s] <= confirmed[s][p]
                           /\ confirmed[s][p] <= ending[p][p]
  BY DEF IInv, TypeOK, AcknowledgedFramesArrived, KnownExists, Others
<1>5. first = theirs /\ theirs \in Nat /\ ours \in Nat /\ theirs <= current
  <2>1. PICK s \in Others(p) : theirs = remoteConfirmed[p][s]
    BY <1>3
  <2>2. theirs \in Nat /\ theirs <= ending[p][p] /\ start'[p] <= theirs
    <3>1. /\ remoteConfirmed[p][s] \in Nat /\ confirmed[s][p] \in Nat
          /\ remoteConfirmed[p][s] <= confirmed[s][p] /\ confirmed[s][p] <= ending[p][p]
          /\ start'[p] <= remoteConfirmed[p][s]
      BY <1>2, <1>4
    <3> QED
      BY <1>2, <2>1, <3>1
  <2>3. ours \in Nat
    BY <1>2, <1>3
  <2> QED
    BY <1>2, <2>2, <2>3 DEF Larger
<1>6. \A r \in Others(p) : first <= confirmed[r][p] /\ ours <= confirmed'[p][r]
  <2> HIDE DEF first
  <2> TAKE r \in Others(p)
  <2>1. r \in Slots
    BY DEF Others
  <2>2. ours <= confirmed'[p][r]
    BY <1>3, <2>1
  <2>3. /\ theirs <= remoteConfirmed[p][r] /\ remoteConfirmed[p][r] <= confirmed[r][p]
        /\ remoteConfirmed[p][r] \in Nat /\ confirmed[r][p] \in Nat
    BY <1>3, <1>4
  <2>4. theirs <= confirmed[r][p]
    BY <1>5, <2>3
  <2> QED
    BY <1>5, <2>2, <2>4
<1>7. first \in start'[p]..current /\ current \in Nat
  <2> HIDE DEF first
  <2> QED
    BY <1>2, <1>3, <1>5
<1>8. [i \in first..current |-> controls'[p][p][i]] \in [first..current -> Frames]
  <2> HIDE DEF first, current
  <2>1. first..current \in SUBSET (start'[p]..current)
    BY <1>2, <1>7
  <2>2. controls'[p][p] \in [start'[p]..current -> Frames]
    BY <1>2
  <2> QED
    BY <2>1, <2>2, Restriction
<1>9. PacketOK(packet)
  <2> HIDE DEF first, current
  <2> QED
    BY <1>2, <1>5, <1>7, <1>8 DEF PacketOK
<1>10. ASSUME NEW m \in net' PROVE m \in net \/ m = packet
  BY <1>1 DEF Useful
<1>11. /\ packet.slot = p /\ packet.current = current /\ packet.first >= start'[p]
       /\ \A i \in packet.first..packet.current : packet.frames[i] = controls'[p][p][i]
       /\ \A r \in Others(p) : packet.highest <= confirmed'[p][r] /\ packet.first <= confirmed[r][p]
  <2> HIDE DEF first, current
  <2> QED
    BY <1>2, <1>6, <1>7
<1> HIDE DEF packet
<1> QED
  BY <1>9, <1>10, <1>11

\* A turn of the game loop: rollback, a new local frame, a packet to the others.
LEMMA PlayCycleInv ==
    ASSUME IInv, NEW p \in Slots, NEW keys \in Pressable[p], PlayCycle(p, keys)
    PROVE  IInv'
<1> USE DEF Others
<1>1. /\ pc[p] = "idle" /\ Rollback(p) /\ ReadLocalControls(p, keys) /\ SendControlPacket(p)
      /\ pc' = [pc EXCEPT ![p] = "receiving"]
      /\ \A s \in Others(p) : Lag(p, s) <= MaxLag
      /\ remoteConfirmed' = remoteConfirmed
  BY DEF PlayCycle, ReadLocalControls
<1> DEFINE Facts ==
           /\ start' \in [Slots -> Nat]
           /\ ending' \in [Slots -> [Slots -> Nat]]
           /\ confirmed' \in [Slots -> [Slots -> Nat]]
           /\ controls' = [q \in Slots |-> [s \in Slots |-> controls'[q][s]]]
           /\ \A s \in Slots : controls'[p][s] \in [start'[p]..(ending'[p][s] - 1) -> Frames]
           /\ \A q \in Slots \ {p} : /\ start'[q] = start[q]
                                     /\ ending'[q] = ending[q]
                                     /\ confirmed'[q] = confirmed[q]
                                     /\ controls'[q] = controls[q]
           /\ start'[p] >= start[p]
           /\ ending'[p][p] = ending[p][p] + 1
           /\ ending'[p][p] - start'[p] \in 1..(MaxHistory - 1)
           /\ \A s \in Slots : /\ ending'[p][s] >= ending[p][s]
                               /\ ending'[p][s] >= ending'[p][p]
           /\ confirmed'[p][p] = confirmed[p][p] + 1
           /\ \A s \in Others(p) : /\ confirmed'[p][s] = confirmed[p][s]
                                   /\ start'[p] <= remoteConfirmed[p][s]
           /\ \A s \in Slots : \A i \in start'[p]..(ending[p][s] - 1) :
                 controls'[p][s][i] = controls[p][s][i]
<1>2. Facts
  BY <1>1, RecordFacts
<1>3. \A m \in net' : m \in net \/
              /\ PacketOK(m)
              /\ m.slot = p /\ m.current = ending'[p][p] - 1
              /\ \A i \in m.first..m.current : m.frames[i] = controls'[p][p][i]
              /\ \A r \in Others(p) : m.highest <= confirmed'[p][r] /\ m.first <= confirmed[r][p]
  BY <1>1, PacketFacts
<1>4. /\ world' \in [Slots -> Seq([Slots -> Frames])]
      /\ backups' \in [Slots -> Seq(Seq([Slots -> Frames]))]
      /\ firstInvalid' \in [Slots -> Nat \cup {-1}]
      /\ \A q \in Slots : Len(world'[q]) = Len(world[q])
  BY <1>1, RollbackType
<1>5. /\ start \in [Slots -> Nat] /\ ending \in [Slots -> [Slots -> Nat]]
      /\ confirmed \in [Slots -> [Slots -> Nat]] /\ remoteConfirmed \in [Slots -> [Slots -> Nat]]
      /\ \A q, s \in Slots : controls[q][s] \in [start[q]..(ending[q][s] - 1) -> Frames]
      /\ pc \in [Slots -> {"idle", "receiving"}] /\ \A m \in net : PacketOK(m)
      /\ MaxHistory \in Nat
  BY NetplayAssumption DEF IInv, TypeOK
<1>5a. ASSUME NEW q \in Slots, NEW s \in Slots
       PROVE  /\ controls'[q][s] \in [start'[q]..(ending'[q][s] - 1) -> Frames]
              /\ start'[q] \in Nat /\ ending'[q][s] \in Nat /\ confirmed'[q][s] \in Nat
              /\ start[q] \in Nat /\ ending[q][s] \in Nat /\ confirmed[q][s] \in Nat
              /\ start'[q] >= start[q] /\ ending'[q][s] >= ending[q][s]
              /\ confirmed'[q][s] >= confirmed[q][s]
              /\ q # s => confirmed'[q][s] = confirmed[q][s]
              /\ \A i \in start'[q]..(ending[q][s] - 1) : controls'[q][s][i] = controls[q][s][i]
  <2>1. CASE q # p
    <3>1. /\ start'[q] = start[q] /\ ending'[q] = ending[q]
          /\ confirmed'[q] = confirmed[q] /\ controls'[q] = controls[q]
      BY <1>2, <2>1
    <3>2. /\ start[q] \in Nat /\ ending[q][s] \in Nat /\ confirmed[q][s] \in Nat
          /\ controls[q][s] \in [start[q]..(ending[q][s] - 1) -> Frames]
      BY <1>5
    <3> HIDE DEF Facts
    <3> QED
      BY <3>1, <3>2
  <2>2. CASE q = p
    <3>1. /\ controls'[q][s] \in [start'[q]..(ending'[q][s] - 1) -> Frames]
          /\ start'[q] >= start[q] /\ ending'[q][s] >= ending[q][s]
          /\ \A i \in start'[q]..(ending[q][s] - 1) : controls'[q][s][i] = controls[q][s][i]
      BY <1>2, <2>2
    <3>2. /\ start'[q] \in Nat /\ ending'[q][s] \in Nat /\ confirmed'[q][s] \in Nat
          /\ start[q] \in Nat /\ ending[q][s] \in Nat /\ confirmed[q][s] \in Nat
      BY <1>2, <1>5
    <3>3. /\ q # s => confirmed'[q][s] = confirmed[q][s]
          /\ q = s => confirmed'[q][s] = confirmed[q][s] + 1
      BY <1>2, <2>2
    <3>4. confirmed'[q][s] >= confirmed[q][s]
      <4> HIDE DEF Facts
      <4> QED
        BY <3>2, <3>3
    <3> HIDE DEF Facts
    <3> QED
      BY <3>1, <3>2, <3>3, <3>4, Zenon
  <2> QED
    BY <2>1, <2>2
<1>6. TypeOK'
  <2>1. pc' \in [Slots -> {"idle", "receiving"}]
    BY <1>1, <1>5
  <2>2. \A m \in net' : PacketOK(m)
    BY <1>3, <1>5
  <2> QED
    BY <1>1, <1>2, <1>4, <1>5, <1>5a, <2>1, <2>2 DEF TypeOK, PacketOK
<1>7. CycleCount'
  <2> SUFFICES ASSUME NEW q \in Slots
               PROVE  ending'[q][q] = IF pc'[q] = "idle" THEN Len(world'[q]) ELSE Len(world'[q]) + 1
    BY DEF CycleCount, Cycle
  <2>1. ending[q][q] = IF pc[q] = "idle" THEN Len(world[q]) ELSE Len(world[q]) + 1
    BY DEF IInv, CycleCount, Cycle
  <2>2. CASE q = p
    BY <1>1, <1>2, <1>4, <1>5, <2>1, <2>2
  <2>3. CASE q # p
    BY <1>1, <1>2, <1>4, <1>5, <2>1, <2>3
  <2> QED
    BY <2>2, <2>3
<1>8. LocalRecord'
  <2> SUFFICES ASSUME NEW q \in Slots
               PROVE  /\ confirmed'[q][q] = ending'[q][q]
                      /\ start'[q] <= ending'[q][q]
                      /\ ending'[q][q] - start'[q] < MaxHistory
                      /\ \A s \in Slots : ending'[q][q] <= ending'[q][s]
    BY DEF LocalRecord
  <2>1. /\ confirmed[q][q] = ending[q][q] /\ start[q] <= ending[q][q]
        /\ ending[q][q] - start[q] < MaxHistory /\ \A s \in Slots : ending[q][q] <= ending[q][s]
    BY DEF IInv, LocalRecord
  <2>2. CASE q = p
    BY <1>2, <1>5, <2>1, <2>2, SMTT(30)
  <2>3. CASE q # p
    BY <1>2, <2>1, <2>3
  <2> QED
    BY <2>2, <2>3
<1>9. KnownExists'
  <2> SUFFICES ASSUME NEW q \in Slots, NEW s \in Slots \ {q}
               PROVE  /\ confirmed'[q][s] <= ending'[s][s]
                      /\ confirmed'[q][s] > 0 => /\ confirmed'[q][s] < ending'[s][s]
                                                   /\ confirmed'[q][s] < ending'[q][s]
    BY DEF KnownExists
  <2>1. /\ confirmed[q][s] <= ending[s][s]
        /\ confirmed[q][s] > 0 => confirmed[q][s] < ending[s][s] /\ confirmed[q][s] < ending[q][s]
    BY DEF IInv, KnownExists
  <2> HIDE DEF Facts
  <2> QED
    BY <1>5a, <2>1
<1>10. PacketsTrue'
  <2> SUFFICES ASSUME NEW m \in net'
               PROVE  /\ m.current < ending'[m.slot][m.slot]
                      /\ \A i \in m.first..m.current :
                            i >= start'[m.slot] => m.frames[i] = controls'[m.slot][m.slot][i]
                      /\ \A r \in Others(m.slot) : m.highest <= confirmed'[m.slot][r]
    BY DEF PacketsTrue
  <2>1. CASE m \in net
    <3>1. /\ m.current < ending[m.slot][m.slot] /\ m.slot \in Slots
          /\ m.current \in Nat /\ m.first \in Nat
          /\ \A i \in m.first..m.current :
                i >= start[m.slot] => m.frames[i] = controls[m.slot][m.slot][i]
          /\ \A r \in Others(m.slot) : m.highest <= confirmed[m.slot][r]
      BY <1>5, <2>1 DEF IInv, PacketsTrue, PacketOK
    <3> DEFINE t == m.slot
    <3>2. m.current < ending'[t][t]
      <4> HIDE DEF Facts
      <4> QED
        BY <1>5a, <3>1
    <3>3. ASSUME NEW i \in m.first..m.current, i >= start'[t] PROVE m.frames[i] = controls'[t][t][i]
      <4>1. i \in start'[t]..(ending[t][t] - 1) /\ i >= start[t]
        <5> HIDE DEF Facts
        <5> QED
          BY <1>5a, <3>1, <3>3
      <4> HIDE DEF Facts
      <4> QED
        BY <1>5a, <3>1, <4>1
    <3>4. \A r \in Others(t) : m.highest <= confirmed'[t][r]
      <4> HIDE DEF Facts
      <4> QED
        BY <1>5a, <3>1
    <3> QED
      BY <3>2, <3>3, <3>4
  <2>2. CASE m \notin net
    <3>1. /\ m.slot = p /\ m.current = ending'[p][p] - 1
          /\ \A i \in m.first..m.current : m.frames[i] = controls'[p][p][i]
          /\ \A r \in Others(p) : m.highest <= confirmed'[p][r]
      BY <1>3, <2>2
    <3>2. ending'[p][p] \in Nat
      BY <1>2
    <3> HIDE DEF Facts
    <3> QED
      BY <3>1, <3>2
  <2> QED
    BY <2>1, <2>2
<1>11. PacketsConnect'
  <2>1. ASSUME NEW q \in Slots, NEW s \in Others(q) PROVE start'[q] <= remoteConfirmed'[q][s]
    <3>1. start[q] <= remoteConfirmed[q][s]
      BY DEF IInv, PacketsConnect
    <3> QED
      BY <1>1, <1>2, <3>1
  <2>2. ASSUME NEW m \in net', NEW r \in Others(m.slot) PROVE m.first <= confirmed'[r][m.slot]
    <3>1. m.slot \in Slots /\ m.first <= confirmed[r][m.slot]
      BY <1>3, <1>5 DEF IInv, PacketsConnect, PacketOK
    <3> QED
      BY <1>5a, <3>1
  <2> QED
    BY <2>1, <2>2 DEF PacketsConnect
<1>12. AcknowledgedFramesArrived'
  <2> SUFFICES ASSUME NEW q \in Slots, NEW s \in Slots \ {q}
               PROVE  remoteConfirmed'[q][s] <= confirmed'[s][q]
    BY DEF AcknowledgedFramesArrived
  <2>1. remoteConfirmed[q][s] <= confirmed[s][q]
    BY DEF IInv, AcknowledgedFramesArrived
  <2> QED
    BY <1>1, <1>5a, <2>1
<1>13. ConfirmedFramesTrue'
  <2> SUFFICES ASSUME NEW q \in Slots, NEW s \in Slots \ {q},
                      NEW i \in start'[q]..confirmed'[q][s],
                      confirmed'[q][s] > 0, i \in start'[s]..(ending'[s][s] - 1)
               PROVE  controls'[q][s][i] = controls'[s][s][i]
    <3>1. \A t \in Slots : DOMAIN controls'[t][t] = start'[t]..(ending'[t][t] - 1)
      BY <1>5a
    <3> HIDE DEF Facts
    <3> QED
      BY <3>1 DEF ConfirmedFramesTrue, AgreeOn
  <2> HIDE DEF Facts
  <2>1. confirmed'[q][s] = confirmed[q][s] /\ confirmed[q][s] > 0
    BY <1>5a
  <2>2. confirmed[q][s] < ending[s][s] /\ confirmed[q][s] < ending[q][s]
    BY <2>1 DEF IInv, KnownExists
  <2>3. /\ i \in start'[q]..(ending[q][s] - 1) /\ i \in start[q]..(ending[q][s] - 1)
        /\ i \in start'[s]..(ending[s][s] - 1) /\ i \in start[s]..(ending[s][s] - 1)
        /\ i \in start[q]..confirmed[q][s]
    <3>1. /\ start'[q] >= start[q] /\ start'[s] >= start[s]
          /\ start'[q] \in Nat /\ start'[s] \in Nat /\ start[q] \in Nat /\ start[s] \in Nat
          /\ ending[q][s] \in Nat /\ ending[s][s] \in Nat /\ confirmed[q][s] \in Nat
      BY <1>5a
    <3> QED
      BY <2>1, <2>2, <3>1
  <2>4. controls[q][s][i] = controls[s][s][i]
    <3>1. i \in DOMAIN controls[q][s] /\ i \in DOMAIN controls[s][s]
      BY <1>5, <2>3
    <3>2. AgreeOn(q, s, i)
      BY <2>1, <2>3 DEF IInv, ConfirmedFramesTrue
    <3> QED
      BY <3>1, <3>2 DEF AgreeOn
  <2>5. controls'[q][s][i] = controls[q][s][i] /\ controls'[s][s][i] = controls[s][s][i]
    BY <1>5a, <2>3
  <2> QED
    BY <2>4, <2>5
<1> QED
  BY <1>6, <1>7, <1>8, <1>9, <1>10, <1>11, <1>12, <1>13 DEF IInv

\* A packet that is applied leaves a record of the right type that holds the
\* packet's frames up to its last one.
LEMMA CorrectedFacts ==
    ASSUME IInv, NEW p \in Slots, NEW m \in net, m.slot # p,
           m.current >= confirmed[p][m.slot], FirstNew(p, m) >= start[p]
    PROVE  /\ FirstNew(p, m) = confirmed[p][m.slot]
           /\ Corrected(p, m)
                \in [start[p]..(Larger(ending[p][m.slot], m.current + 1) - 1) -> Frames]
           /\ \A i \in start[p]..m.current :
                 Corrected(p, m)[i] = IF i >= confirmed[p][m.slot] THEN m.frames[i]
                                      ELSE controls[p][m.slot][i]
           /\ \A i \in (m.current + 1)..(Larger(ending[p][m.slot], m.current + 1) - 1) :
                 Corrected(p, m)[i] = m.frames[m.current]
<1> DEFINE s == m.slot
           known == confirmed[p][s]
           last == Larger(ending[p][s], m.current + 1) - 1
<1>1. /\ s \in Slots /\ p \in Others(s) /\ s \in Others(p)
      /\ m.current \in Nat /\ m.first \in 0..m.current
      /\ m.frames \in [m.first..m.current -> Frames]
  BY DEF IInv, TypeOK, PacketOK, Others
<1>2. /\ start[p] \in Nat /\ ending[p][s] \in Nat /\ known \in Nat
      /\ controls[p][s] \in [start[p]..(ending[p][s] - 1) -> Frames]
  <2>1. controls[p][s] \in [start[p]..(ending[p][s] - 1) -> Frames]
    <3>1. \A r \in Slots : controls[p][r] \in [start[p]..(ending[p][r] - 1) -> Frames]
      BY DEF IInv, TypeOK
    <3> QED
      BY <1>1, <3>1, Zenon
  <2> QED
    BY <1>1, <2>1, Types
<1>3. /\ m.first <= known
      /\ known > 0 => known < ending[p][s]
  BY <1>1 DEF IInv, PacketsConnect, KnownExists
<1>4. FirstNew(p, m) = known
  BY <1>1, <1>2, <1>3 DEF FirstNew, Larger
<1>5. /\ last \in Int /\ last >= m.current /\ last >= ending[p][s] - 1
      /\ known \in start[p]..m.current /\ known \in m.first..m.current
  BY <1>1, <1>2, <1>3, <1>4 DEF Larger
<1>6. Corrected(p, m) =
        [i \in start[p]..last |->
           IF i > m.current THEN m.frames[m.current]
           ELSE IF i >= known THEN m.frames[i]
           ELSE IF i < ending[p][s] THEN controls[p][s][i]
           ELSE m.frames[known]]
  BY <1>4 DEF Corrected
<1> HIDE DEF s, known, last
<1>7. ASSUME NEW i \in start[p]..last
      PROVE  (IF i > m.current THEN m.frames[m.current]
              ELSE IF i >= known THEN m.frames[i]
              ELSE IF i < ending[p][s] THEN controls[p][s][i]
              ELSE m.frames[known]) \in Frames
  <2>1. CASE i > m.current
    BY <1>1, <2>1
  <2>2. CASE i <= m.current /\ i >= known
    <3>1. i \in m.first..m.current
      BY <1>1, <1>2, <1>5, <2>2
    <3> QED
      BY <1>1, <1>2, <1>5, <2>2, <3>1
  <2>3. CASE i <= m.current /\ i < known
    <3>1. i \in start[p]..(ending[p][s] - 1) /\ i < ending[p][s]
      BY <1>2, <1>3, <1>5, <2>3
    <3>2. ~(i > m.current) /\ ~(i >= known)
      BY <1>1, <1>2, <1>5, <2>3
    <3> QED
      BY <1>2, <3>1, <3>2
  <2> QED
    BY <1>1, <1>2, <1>5, <2>1, <2>2, <2>3
<1>8. Corrected(p, m) \in [start[p]..last -> Frames]
  BY <1>6, <1>7
<1>9. ASSUME NEW i \in start[p]..m.current
      PROVE  Corrected(p, m)[i] = IF i >= known THEN m.frames[i] ELSE controls[p][s][i]
  <2>1. i \in start[p]..last /\ ~(i > m.current) /\ i \in Int
    BY <1>1, <1>2, <1>5
  <2>2. ~(i >= known) => i < ending[p][s]
    BY <1>1, <1>2, <1>3, <2>1
  <2> QED
    BY <1>6, <2>1, <2>2
<1>10. ASSUME NEW i \in (m.current + 1)..last
       PROVE  Corrected(p, m)[i] = m.frames[m.current]
  <2>1. i \in start[p]..last /\ i > m.current
    BY <1>1, <1>2, <1>5
  <2> QED
    BY <1>6, <2>1
<1> QED
  BY <1>4, <1>8, <1>9, <1>10 DEF s, known, last

\* What a player learns when it applies a packet.
LEMMA ReadRecentFacts ==
    ASSUME IInv, NEW p \in Slots, NEW m \in net, m.slot # p,
           m.current >= confirmed[p][m.slot], ReadRecentPacket(p, m)
    PROVE  /\ ending' \in [Slots -> [Slots -> Nat]]
           /\ confirmed' \in [Slots -> [Slots -> Nat]]
           /\ controls' = [q \in Slots |-> [s \in Slots |-> controls'[q][s]]]
           /\ firstInvalid' \in [Slots -> Nat \cup {-1}]
           /\ net' \subseteq net
           /\ start' = start
           /\ \A q, s \in Slots :
                 /\ controls'[q][s] \in [start[q]..(ending'[q][s] - 1) -> Frames]
                 /\ ending'[q][s] >= ending[q][s]
                 /\ confirmed'[q][s] >= confirmed[q][s]
                 /\ q # p \/ s # m.slot => /\ controls'[q][s] = controls[q][s]
                                           /\ ending'[q][s] = ending[q][s]
                                           /\ confirmed'[q][s] = confirmed[q][s]
           /\ confirmed'[p][m.slot] = m.current
           /\ ending'[p][m.slot] > m.current
           /\ controls'[p][m.slot] = Corrected(p, m)
<1> DEFINE t == m.slot
           fixed == Corrected(p, m)
           last == Larger(ending[p][t], m.current + 1)
<1>1. /\ t \in Slots /\ m.current \in Nat /\ p # t
      /\ start \in [Slots -> Nat] /\ ending \in [Slots -> [Slots -> Nat]]
      /\ confirmed \in [Slots -> [Slots -> Nat]]
      /\ controls = [q \in Slots |-> [s \in Slots |-> controls[q][s]]]
      /\ \A q, s \in Slots : controls[q][s] \in [start[q]..(ending[q][s] - 1) -> Frames]
      /\ firstInvalid \in [Slots -> Nat \cup {-1}]
      /\ m.first \in Nat
  <2>1. t \in Slots /\ m.current \in Nat /\ m.first \in Nat
    BY DEF IInv, TypeOK, PacketOK
  <2> HIDE DEF t
  <2> QED
    BY <2>1 DEF IInv, TypeOK, t
<1>2. /\ controls' = [controls EXCEPT ![p][t] = fixed]
      /\ ending' = [ending EXCEPT ![p][t] = last]
      /\ confirmed' = [confirmed EXCEPT ![p][t] = m.current]
      /\ start' = start /\ FirstNew(p, m) >= start[p]
      /\ net' = Useful(net, confirmed')
  BY DEF ReadRecentPacket
<1>3. /\ FirstNew(p, m) = confirmed[p][t]
      /\ fixed \in [start[p]..(last - 1) -> Frames]
  BY <1>2, CorrectedFacts
<1>4. last \in Nat /\ last > m.current /\ last >= ending[p][t]
  <2>1. ending[p][t] \in Nat /\ m.current \in Nat
    BY <1>1
  <2> HIDE DEF t
  <2> QED
    BY <2>1 DEF Larger
<1>5. firstInvalid' \in [Slots -> Nat \cup {-1}]
  <2>1. CASE UNCHANGED firstInvalid
    BY <1>1, <2>1
  <2>2. ASSUME NEW first \in Lowest(Corrections(p, m)),
               firstInvalid' = [firstInvalid EXCEPT
                   ![p] = IF @ = -1 \/ @ > first THEN first ELSE @]
        PROVE  firstInvalid' \in [Slots -> Nat \cup {-1}]
    <3>1. first \in FirstNew(p, m)..m.current
      BY DEF Lowest, Corrections
    <3>2. confirmed[p][t] \in Nat
      BY <1>1
    <3>3. first \in Nat
      BY <1>1, <1>3, <3>1, <3>2, SMTT(30)
    <3> QED
      BY <1>1, <2>2, <3>3
  <2> QED
    BY <2>1, <2>2 DEF ReadRecentPacket
<1>6. net' \subseteq net
  BY <1>2 DEF Useful
<1> HIDE DEF t, fixed, last
<1>7. /\ controls'[p][t] = fixed /\ ending'[p][t] = last /\ confirmed'[p][t] = m.current
      /\ \A q, s \in Slots : q # p \/ s # t => /\ controls'[q][s] = controls[q][s]
                                               /\ ending'[q][s] = ending[q][s]
                                               /\ confirmed'[q][s] = confirmed[q][s]
  <2>1. /\ DOMAIN controls = Slots /\ \A q \in Slots : DOMAIN controls[q] = Slots
    BY <1>1
  <2> QED
    BY <1>1, <1>2, <2>1
<1>8. /\ ending' \in [Slots -> [Slots -> Nat]]
      /\ confirmed' \in [Slots -> [Slots -> Nat]]
  BY <1>1, <1>2, <1>4
<1>9. controls' = [q \in Slots |-> [s \in Slots |-> controls'[q][s]]]
  <2>1. /\ DOMAIN controls = Slots
        /\ \A q \in Slots : controls[q] = [s \in Slots |-> controls[q][s]]
    BY <1>1
  <2>2. controls' = [q \in Slots |-> controls'[q]]
    BY <1>2, <2>1
  <2>3. ASSUME NEW q \in Slots PROVE controls'[q] = [s \in Slots |-> controls'[q][s]]
    <3>1. CASE q = p
      <4>1. controls'[q] = [controls[q] EXCEPT ![t] = fixed]
        BY <1>2, <2>1, <3>1
      <4> QED
        BY <2>1, <4>1
    <3>2. CASE q # p
      <4>1. controls'[q] = controls[q]
        BY <1>2, <2>1, <3>2
      <4> QED
        BY <2>1, <4>1
    <3> QED
      BY <3>1, <3>2
  <2> QED
    BY <2>2, <2>3
<1>10. ASSUME NEW q \in Slots, NEW s \in Slots
       PROVE  /\ controls'[q][s] \in [start[q]..(ending'[q][s] - 1) -> Frames]
              /\ ending'[q][s] >= ending[q][s]
              /\ confirmed'[q][s] >= confirmed[q][s]
  <2>1. CASE q = p /\ s = t
    <3>1. m.current >= confirmed[p][t]
      BY DEF t
    <3>2. /\ start[p] \in Nat
          /\ controls'[q][s] = fixed /\ ending'[q][s] = last /\ confirmed'[q][s] = m.current
      BY <1>1, <1>7, <2>1
    <3> QED
      BY <1>3, <1>4, <2>1, <3>1, <3>2
  <2>2. CASE ~(q = p /\ s = t)
    <3>1. /\ controls'[q][s] = controls[q][s] /\ ending'[q][s] = ending[q][s]
          /\ confirmed'[q][s] = confirmed[q][s]
      BY <1>7, <2>2
    <3>2. ending[q][s] \in Nat /\ confirmed[q][s] \in Nat
      BY <1>1
    <3>3. controls[q][s] \in [start[q]..(ending[q][s] - 1) -> Frames]
      BY <1>1
    <3> QED
      BY <3>1, <3>2, <3>3
  <2> QED
    BY <2>1, <2>2
<1>11. ending'[p][t] > m.current
  BY <1>4, <1>7
<1> QED
  BY <1>2, <1>5, <1>6, <1>7, <1>8, <1>9, <1>10, <1>11, ZenonT(30) DEF t, fixed

\* A packet that is applied.
LEMMA ReadRecentInv ==
    ASSUME IInv, NEW p \in Slots, NEW m \in net, pc[p] = "receiving", m.slot # p,
           m.current >= confirmed[p][m.slot], ReadRecentPacket(p, m),
           UNCHANGED <<world, backups, pc>>
    PROVE  IInv'
<1> USE DEF Others
<1> DEFINE t == m.slot
           Facts ==
             \A q, s \in Slots :
                 /\ controls'[q][s] \in [start[q]..(ending'[q][s] - 1) -> Frames]
                 /\ ending'[q][s] >= ending[q][s]
                 /\ confirmed'[q][s] >= confirmed[q][s]
                 /\ q # p \/ s # t => /\ controls'[q][s] = controls[q][s]
                                      /\ ending'[q][s] = ending[q][s]
                                      /\ confirmed'[q][s] = confirmed[q][s]
<1>1. /\ ending' \in [Slots -> [Slots -> Nat]] /\ confirmed' \in [Slots -> [Slots -> Nat]]
      /\ controls' = [q \in Slots |-> [s \in Slots |-> controls'[q][s]]]
      /\ firstInvalid' \in [Slots -> Nat \cup {-1}]
      /\ net' \subseteq net /\ start' = start
  BY ReadRecentFacts
<1>2. /\ Facts
      /\ confirmed'[p][t] = m.current /\ ending'[p][t] > m.current
      /\ controls'[p][t] = Corrected(p, m)
  BY ReadRecentFacts
<1> HIDE DEF Facts
<1>3. /\ start \in [Slots -> Nat] /\ remoteConfirmed \in [Slots -> [Slots -> Nat]]
      /\ \A q, s \in Slots : /\ start[q] \in Nat /\ ending[q][s] \in Nat /\ ending'[q][s] \in Nat
                             /\ confirmed[q][s] \in Nat /\ confirmed'[q][s] \in Nat
                             /\ remoteConfirmed[q][s] \in Nat
  <2>1. /\ start \in [Slots -> Nat] /\ ending \in [Slots -> [Slots -> Nat]]
        /\ confirmed \in [Slots -> [Slots -> Nat]] /\ remoteConfirmed \in [Slots -> [Slots -> Nat]]
    BY DEF IInv, TypeOK
  <2> QED
    BY <1>1, <2>1
<1>4. /\ t \in Slots /\ m.current \in Nat /\ m.highest \in Nat /\ p # t
      /\ m.first \in Nat /\ \A n \in net : PacketOK(n)
  <2>1. t \in Slots /\ m.current \in Nat /\ m.highest \in Nat /\ m.first \in Nat
    BY DEF IInv, TypeOK, PacketOK
  <2> HIDE DEF t
  <2> QED
    BY <2>1 DEF IInv, TypeOK, t
<1>5. /\ m.current < ending[t][t] /\ m.highest <= confirmed[t][p]
      /\ \A i \in m.first..m.current : i >= start[t] => m.frames[i] = controls[t][t][i]
      /\ m.first <= confirmed[p][t]
  BY <1>4 DEF IInv, PacketsTrue, PacketsConnect
<1>6. remoteConfirmed' = [remoteConfirmed EXCEPT ![p][t] = Larger(remoteConfirmed[p][t], m.highest)]
  BY DEF ReadRecentPacket, Acknowledge
<1>7. m.current >= confirmed[p][t] /\ UNCHANGED <<world, backups, pc>>
  OBVIOUS
<1>8. \A q \in Slots : controls'[q][q] = controls[q][q] /\ ending'[q][q] = ending[q][q]
                       /\ confirmed'[q][q] = confirmed[q][q]
  BY <1>2, <1>4 DEF Facts
<1>9. /\ remoteConfirmed' \in [Slots -> [Slots -> Nat]]
      /\ \A q, s \in Slots : remoteConfirmed'[q][s] >= remoteConfirmed[q][s]
      /\ \A q, s \in Slots : s # q => remoteConfirmed'[q][s] <= confirmed'[s][q]
  <2>1. Larger(remoteConfirmed[p][t], m.highest) \in Nat
    BY <1>3, <1>4 DEF Larger
  <2>2. remoteConfirmed' \in [Slots -> [Slots -> Nat]]
    BY <1>3, <1>6, <2>1
  <2>3. ASSUME NEW q \in Slots, NEW s \in Slots
        PROVE  /\ remoteConfirmed'[q][s] >= remoteConfirmed[q][s]
               /\ s # q => remoteConfirmed'[q][s] <= confirmed'[s][q]
    <3>1. s # q => remoteConfirmed[q][s] <= confirmed[s][q]
      BY DEF IInv, AcknowledgedFramesArrived
    <3>2. confirmed'[s][q] >= confirmed[s][q]
      BY <1>2 DEF Facts
    <3>3. /\ remoteConfirmed[q][s] \in Nat /\ confirmed[s][q] \in Nat /\ confirmed'[s][q] \in Nat
      BY <1>3
    <3>4. CASE q = p /\ s = t
      <4>1. remoteConfirmed'[q][s] = Larger(remoteConfirmed[q][s], m.highest)
        BY <1>3, <1>6, <3>4
      <4>2. m.highest <= confirmed[s][q]
        BY <1>5, <3>4
      <4> HIDE DEF t
      <4> QED
        BY <1>4, <3>1, <3>2, <3>3, <4>1, <4>2 DEF Larger
    <3>5. CASE ~(q = p /\ s = t)
      <4>1. remoteConfirmed'[q][s] = remoteConfirmed[q][s]
        BY <1>3, <1>6, <3>5
      <4> QED
        BY <3>1, <3>2, <3>3, <4>1
    <3> QED
      BY <3>4, <3>5
  <2> QED
    BY <2>2, <2>3
<1> HIDE DEF t
<1>10. TypeOK'
  <2>1. \A q, s \in Slots : controls'[q][s] \in [start'[q]..(ending'[q][s] - 1) -> Frames]
    BY <1>1, <1>2 DEF Facts
  <2>2. \A n \in net' : PacketOK(n)
    BY <1>1, <1>4
  <2>3. /\ world' \in [Slots -> Seq([Slots -> Frames])]
        /\ backups' \in [Slots -> Seq(Seq([Slots -> Frames]))]
        /\ pc' \in [Slots -> {"idle", "receiving"}] /\ start' \in [Slots -> Nat]
    BY <1>1, <1>7 DEF IInv, TypeOK
  <2> QED
    BY <1>1, <1>9, <2>1, <2>2, <2>3 DEF TypeOK, PacketOK
<1>11. CycleCount'
  BY <1>7, <1>8 DEF IInv, CycleCount, Cycle
<1>12. LocalRecord'
  <2> SUFFICES ASSUME NEW q \in Slots
               PROVE  /\ confirmed'[q][q] = ending'[q][q]
                      /\ start'[q] <= ending'[q][q]
                      /\ ending'[q][q] - start'[q] < MaxHistory
                      /\ \A s \in Slots : ending'[q][q] <= ending'[q][s]
    BY DEF LocalRecord
  <2>1. /\ confirmed[q][q] = ending[q][q] /\ start[q] <= ending[q][q]
        /\ ending[q][q] - start[q] < MaxHistory /\ \A s \in Slots : ending[q][q] <= ending[q][s]
    BY DEF IInv, LocalRecord
  <2>2. ASSUME NEW s \in Slots PROVE ending'[q][q] <= ending'[q][s]
    <3>1. ending'[q][s] >= ending[q][s]
      BY <1>2 DEF Facts
    <3> QED
      BY <1>3, <1>8, <2>1, <3>1
  <2> QED
    BY <1>1, <1>8, <2>1, <2>2
<1>13. KnownExists'
  <2> SUFFICES ASSUME NEW q \in Slots, NEW s \in Slots \ {q}
               PROVE  /\ confirmed'[q][s] <= ending'[s][s]
                      /\ confirmed'[q][s] > 0 => /\ confirmed'[q][s] < ending'[s][s]
                                                   /\ confirmed'[q][s] < ending'[q][s]
    BY DEF KnownExists
  <2>1. CASE q = p /\ s = t
    BY <1>2, <1>3, <1>4, <1>5, <1>8, <2>1
  <2>2. CASE ~(q = p /\ s = t)
    <3>1. /\ confirmed'[q][s] = confirmed[q][s] /\ ending'[q][s] = ending[q][s]
          /\ ending'[s][s] = ending[s][s]
      BY <1>2, <1>8, <2>2 DEF Facts
    <3> QED
      BY <3>1 DEF IInv, KnownExists
  <2> QED
    BY <2>1, <2>2
<1>14. PacketsTrue'
  <2> SUFFICES ASSUME NEW n \in net'
               PROVE  /\ n.current < ending'[n.slot][n.slot]
                      /\ \A i \in n.first..n.current :
                            i >= start'[n.slot] => n.frames[i] = controls'[n.slot][n.slot][i]
                      /\ \A r \in Others(n.slot) : n.highest <= confirmed'[n.slot][r]
    BY DEF PacketsTrue
  <2>1. /\ n.slot \in Slots /\ n.highest \in Nat /\ n \in net
    BY <1>1, <1>4 DEF PacketOK
  <2>2. /\ n.current < ending[n.slot][n.slot]
        /\ \A i \in n.first..n.current :
              i >= start[n.slot] => n.frames[i] = controls[n.slot][n.slot][i]
        /\ \A r \in Others(n.slot) : n.highest <= confirmed[n.slot][r]
    BY <2>1 DEF IInv, PacketsTrue
  <2>3. ASSUME NEW r \in Others(n.slot) PROVE n.highest <= confirmed'[n.slot][r]
    <3>1. /\ confirmed'[n.slot][r] >= confirmed[n.slot][r]
          /\ confirmed'[n.slot][r] \in Nat /\ confirmed[n.slot][r] \in Nat
      BY <1>2, <1>3, <2>1 DEF Facts
    <3> QED
      BY <2>1, <2>2, <3>1
  <2> QED
    BY <1>1, <1>8, <2>1, <2>2, <2>3
<1>15. PacketsConnect'
  <2>1. ASSUME NEW q \in Slots, NEW s \in Others(q) PROVE start'[q] <= remoteConfirmed'[q][s]
    <3>1. start[q] <= remoteConfirmed[q][s]
      BY DEF IInv, PacketsConnect
    <3>2. remoteConfirmed'[q][s] >= remoteConfirmed[q][s] /\ remoteConfirmed'[q][s] \in Nat
      BY <1>9
    <3> QED
      BY <1>1, <1>3, <3>1, <3>2
  <2>2. ASSUME NEW n \in net', NEW r \in Others(n.slot) PROVE n.first <= confirmed'[r][n.slot]
    <3>1. n.slot \in Slots /\ n.first \in Nat /\ n.first <= confirmed[r][n.slot]
      <4>1. n \in net /\ n.slot \in Slots /\ n.first \in Nat
        BY <1>1, <1>4 DEF PacketOK
      <4> QED
        BY <4>1 DEF IInv, PacketsConnect
    <3>2. /\ confirmed'[r][n.slot] >= confirmed[r][n.slot]
          /\ confirmed'[r][n.slot] \in Nat /\ confirmed[r][n.slot] \in Nat
      BY <1>2, <1>3, <3>1 DEF Facts
    <3> QED
      BY <3>1, <3>2
  <2> QED
    BY <2>1, <2>2 DEF PacketsConnect
<1>16. AcknowledgedFramesArrived'
  BY <1>9 DEF AcknowledgedFramesArrived
<1>17. ConfirmedFramesTrue'
  <2> SUFFICES ASSUME NEW q \in Slots, NEW s \in Slots \ {q},
                      NEW i \in start'[q]..confirmed'[q][s],
                      confirmed'[q][s] > 0, i \in start'[s]..(ending'[s][s] - 1)
               PROVE  controls'[q][s][i] = controls'[s][s][i]
    <3>1. \A r \in Slots : DOMAIN controls'[r][r] = start'[r]..(ending'[r][r] - 1)
      BY <1>1, <1>2 DEF Facts
    <3> QED
      BY <3>1 DEF ConfirmedFramesTrue, AgreeOn
  <2>0. /\ i \in start[q]..confirmed'[q][s] /\ i \in start[s]..(ending[s][s] - 1)
        /\ controls'[s][s] = controls[s][s]
    BY <1>1, <1>8
  <2>1. ASSUME confirmed[q][s] > 0, i <= confirmed[q][s]
        PROVE  controls[q][s][i] = controls[s][s][i]
    <3>1. confirmed[q][s] < ending[q][s]
      BY <2>1 DEF IInv, KnownExists
    <3>2. i \in start[q]..(ending[q][s] - 1) /\ i \in start[q]..confirmed[q][s]
      BY <1>3, <2>0, <2>1, <3>1
    <3>3. i \in DOMAIN controls[q][s] /\ i \in DOMAIN controls[s][s]
      BY <2>0, <3>2 DEF IInv, TypeOK
    <3>4. AgreeOn(q, s, i)
      BY <2>1, <3>2 DEF IInv, ConfirmedFramesTrue
    <3> QED
      BY <3>3, <3>4 DEF AgreeOn
  <2>2. CASE q = p /\ s = t
    <3>1. i \in start[p]..m.current
      BY <1>2, <2>0, <2>2
    <3>2. controls'[q][s][i] = IF i >= confirmed[p][t] THEN m.frames[i] ELSE controls[p][t][i]
      <4>1. FirstNew(p, m) >= start[p]
        BY DEF ReadRecentPacket
      <4> QED
        BY <1>2, <2>2, <3>1, <4>1, CorrectedFacts DEF t
    <3>3. CASE i >= confirmed[p][t]
      <4>1. i \in m.first..m.current /\ i >= start[t]
        BY <1>3, <1>4, <1>5, <2>0, <2>2, <3>1, <3>3
      <4> QED
        BY <1>5, <2>0, <2>2, <3>2, <3>3, <4>1
    <3>4. CASE ~(i >= confirmed[p][t])
      <4>1. confirmed[q][s] > 0 /\ i <= confirmed[q][s] /\ i \in Nat
        BY <1>3, <1>4, <2>2, <3>1, <3>4
      <4> QED
        BY <2>0, <2>1, <2>2, <3>2, <3>4, <4>1
    <3> QED
      BY <3>3, <3>4
  <2>3. CASE ~(q = p /\ s = t)
    <3>1. confirmed'[q][s] = confirmed[q][s] /\ controls'[q][s] = controls[q][s]
      BY <1>2, <2>3 DEF Facts
    <3>2. confirmed[q][s] > 0 /\ i <= confirmed[q][s]
      BY <1>3, <2>0, <3>1
    <3> QED
      BY <2>0, <2>1, <3>1, <3>2
  <2> QED
    BY <2>2, <2>3
<1> QED
  BY <1>10, <1>11, <1>12, <1>13, <1>14, <1>15, <1>16, <1>17 DEF IInv

\* A packet that goes back too far is not applied.
LEMMA ReadAncientInv ==
    ASSUME IInv, NEW p \in Slots, NEW m \in net, m.slot # p, ReadAncientPacket(p, m),
           UNCHANGED <<world, backups, pc>>
    PROVE  IInv'
<1> USE DEF Others
<1> DEFINE t == m.slot
<1>1. /\ remoteConfirmed' = [remoteConfirmed EXCEPT ![p][t] = Larger(remoteConfirmed[p][t], m.highest)]
      /\ UNCHANGED <<controls, start, ending, confirmed, gameVars, pc, net>>
  BY DEF ReadAncientPacket, Acknowledge, gameVars
<1>2. /\ t \in Slots /\ m.highest \in Nat /\ m.highest <= confirmed[t][p]
      /\ remoteConfirmed \in [Slots -> [Slots -> Nat]]
      /\ confirmed \in [Slots -> [Slots -> Nat]] /\ start \in [Slots -> Nat]
  <2>1. t \in Slots /\ m.highest \in Nat
    BY DEF IInv, TypeOK, PacketOK
  <2>2. m.highest <= confirmed[t][p]
    BY <2>1 DEF IInv, PacketsTrue
  <2> HIDE DEF t
  <2> QED
    BY <2>1, <2>2 DEF IInv, TypeOK
<1> HIDE DEF t
<1>3. remoteConfirmed' \in [Slots -> [Slots -> Nat]]
  <2>1. remoteConfirmed[p][t] \in Nat
    BY <1>2
  <2>2. Larger(remoteConfirmed[p][t], m.highest) \in Nat
    BY <1>2, <2>1 DEF Larger
  <2> QED
    BY <1>1, <1>2, <2>2
<1>4. ASSUME NEW q \in Slots, NEW s \in Slots \ {q}
      PROVE  remoteConfirmed'[q][s] >= remoteConfirmed[q][s] /\ remoteConfirmed'[q][s] <= confirmed[s][q]
  <2>1. /\ remoteConfirmed[q][s] <= confirmed[s][q]
        /\ remoteConfirmed[q][s] \in Nat /\ confirmed[s][q] \in Nat
    BY <1>2 DEF IInv, AcknowledgedFramesArrived
  <2>2. CASE q = p /\ s = t
    <3>1. remoteConfirmed'[q][s] = Larger(remoteConfirmed[q][s], m.highest)
      BY <1>1, <1>2, <2>2
    <3> QED
      BY <1>2, <2>1, <2>2, <3>1 DEF Larger
  <2>3. CASE ~(q = p /\ s = t)
    <3>1. remoteConfirmed'[q][s] = remoteConfirmed[q][s]
      BY <1>1, <1>2, <2>3
    <3> QED
      BY <2>1, <3>1
  <2> QED
    BY <2>2, <2>3
<1>5. TypeOK'
  <2>1. /\ start' \in [Slots -> Nat] /\ ending' \in [Slots -> [Slots -> Nat]]
        /\ controls' = [q \in Slots |-> [s \in Slots |-> controls'[q][s]]]
        /\ confirmed' \in [Slots -> [Slots -> Nat]]
        /\ firstInvalid' \in [Slots -> Nat \cup {-1}]
        /\ backups' \in [Slots -> Seq(Seq([Slots -> Frames]))]
    BY <1>1 DEF IInv, TypeOK, gameVars
  <2>2. \A q, s \in Slots : controls'[q][s] \in [start'[q]..(ending'[q][s] - 1) -> Frames]
    BY <1>1 DEF IInv, TypeOK
  <2>3. \A n \in net' : PacketOK(n)
    BY <1>1 DEF IInv, TypeOK
  <2>4. world' \in [Slots -> Seq([Slots -> Frames])] /\ pc' \in [Slots -> {"idle", "receiving"}]
    BY <1>1 DEF IInv, TypeOK, gameVars
  <2> QED
    BY <1>3, <2>1, <2>2, <2>3, <2>4 DEF TypeOK, PacketOK
<1>6. PacketsConnect'
  <2>1. ASSUME NEW q \in Slots, NEW s \in Others(q) PROVE start'[q] <= remoteConfirmed'[q][s]
    <3>1. start[q] <= remoteConfirmed[q][s]
      BY DEF IInv, PacketsConnect
    <3>2. /\ remoteConfirmed'[q][s] >= remoteConfirmed[q][s]
          /\ start[q] \in Nat /\ remoteConfirmed[q][s] \in Nat /\ remoteConfirmed'[q][s] \in Nat
      BY <1>2, <1>3, <1>4
    <3> QED
      BY <1>1, <3>1, <3>2
  <2> QED
    BY <1>1, <2>1 DEF IInv, PacketsConnect
<1>7. AcknowledgedFramesArrived'
  BY <1>1, <1>4 DEF AcknowledgedFramesArrived
<1>8. CycleCount' /\ LocalRecord' /\ KnownExists'
  BY <1>1 DEF IInv, CycleCount, Cycle, LocalRecord, KnownExists, gameVars
<1>9. PacketsTrue' /\ ConfirmedFramesTrue'
  BY <1>1 DEF IInv, PacketsTrue, ConfirmedFramesTrue, AgreeOn
<1> QED
  BY <1>5, <1>6, <1>7, <1>8, <1>9 DEF IInv

\* The simulation of a cycle changes no record and no packet.
LEMMA DoProcessingInv ==
    ASSUME IInv, NEW p \in Slots, DoProcessing(p)
    PROVE  IInv'
<1>1. /\ pc[p] = "receiving" /\ pc' = [pc EXCEPT ![p] = "idle"]
      /\ world' = [world EXCEPT ![p] = Append(world[p], Inputs(p, Cycle(p) + 1))]
      /\ UNCHANGED <<controls, start, ending, confirmed, remoteConfirmed, firstInvalid, backups, net>>
  BY DEF DoProcessing, recordVars
<1>2. /\ world \in [Slots -> Seq([Slots -> Frames])] /\ pc \in [Slots -> {"idle", "receiving"}]
      /\ ending[p][p] = Cycle(p) + 1
  BY <1>1 DEF IInv, TypeOK, CycleCount
<1>3. Inputs(p, Cycle(p) + 1) \in [Slots -> Frames]
  <2>1. Cycle(p) \in Nat
    BY <1>2 DEF Cycle
  <2> QED
    BY <1>2, <2>1, InputsType DEF IInv
<1>4. /\ world' \in [Slots -> Seq([Slots -> Frames])]
      /\ Len(world'[p]) = Len(world[p]) + 1
      /\ \A q \in Slots \ {p} : world'[q] = world[q]
  BY <1>1, <1>2, <1>3
<1>5. pc' \in [Slots -> {"idle", "receiving"}]
  BY <1>1, <1>2
<1>6. TypeOK'
  <2>1. /\ start' \in [Slots -> Nat] /\ ending' \in [Slots -> [Slots -> Nat]]
        /\ controls' = [q \in Slots |-> [s \in Slots |-> controls'[q][s]]]
        /\ confirmed' \in [Slots -> [Slots -> Nat]]
        /\ firstInvalid' \in [Slots -> Nat \cup {-1}]
        /\ backups' \in [Slots -> Seq(Seq([Slots -> Frames]))]
    BY <1>1 DEF IInv, TypeOK
  <2>2. \A q, s \in Slots : controls'[q][s] \in [start'[q]..(ending'[q][s] - 1) -> Frames]
    BY <1>1 DEF IInv, TypeOK
  <2>3. \A n \in net' : PacketOK(n)
    BY <1>1 DEF IInv, TypeOK
  <2>4. remoteConfirmed' \in [Slots -> [Slots -> Nat]]
    BY <1>1 DEF IInv, TypeOK
  <2> QED
    BY <1>4, <1>5, <2>1, <2>2, <2>3, <2>4 DEF TypeOK, PacketOK
<1>7. CycleCount'
  <2> SUFFICES ASSUME NEW q \in Slots
               PROVE  ending'[q][q] = IF pc'[q] = "idle" THEN Len(world'[q]) ELSE Len(world'[q]) + 1
    BY DEF CycleCount, Cycle
  <2>1. CASE q = p
    BY <1>1, <1>2, <1>4, <2>1 DEF Cycle
  <2>2. CASE q # p
    BY <1>1, <1>2, <1>4, <2>2 DEF IInv, CycleCount, Cycle
  <2> QED
    BY <2>1, <2>2
<1>8. LocalRecord' /\ KnownExists' /\ PacketsTrue'
  BY <1>1 DEF IInv, LocalRecord, KnownExists, PacketsTrue, Others
<1>9. PacketsConnect' /\ AcknowledgedFramesArrived' /\ ConfirmedFramesTrue'
  BY <1>1
     DEF IInv, PacketsConnect, AcknowledgedFramesArrived, ConfirmedFramesTrue, AgreeOn,
         Others
<1> QED
  BY <1>6, <1>7, <1>8, <1>9 DEF IInv

\* Every step, and a step that changes nothing, preserves the invariant.
LEMMA NextInv == IInv /\ [Next]_vars => IInv'
<1> SUFFICES ASSUME IInv, [Next]_vars PROVE IInv'
  OBVIOUS
<1>1. ASSUME NEW p \in Slots, NEW keys \in Pressable[p], PlayCycle(p, keys) PROVE IInv'
  BY <1>1, PlayCycleInv
<1>2. ASSUME NEW p \in Slots, NEW m \in net, Receive(p, m) PROVE IInv'
  <2>1. /\ pc[p] = "receiving" /\ m.slot # p /\ m.current >= confirmed[p][m.slot]
        /\ UNCHANGED <<world, backups, pc>>
    BY <1>2 DEF Receive
  <2>2. CASE ReadAncientPacket(p, m)
    BY <2>1, <2>2, ReadAncientInv
  <2>3. CASE ReadRecentPacket(p, m)
    BY <2>1, <2>3, ReadRecentInv
  <2> QED
    BY <1>2, <2>2, <2>3 DEF Receive
<1>3. ASSUME NEW p \in Slots, DoProcessing(p) PROVE IInv'
  BY <1>3, DoProcessingInv
<1>4. CASE UNCHANGED vars
  <2>1. UNCHANGED <<controls, start, ending, confirmed, remoteConfirmed,
                    firstInvalid, world, backups, pc, net>>
    BY <1>4 DEF vars, recordVars, gameVars
  <2>2. TypeOK' /\ CycleCount' /\ LocalRecord' /\ KnownExists'
    BY <2>1 DEF IInv, TypeOK, PacketOK, CycleCount, Cycle, LocalRecord, KnownExists
  <2>3. PacketsTrue' /\ PacketsConnect' /\ AcknowledgedFramesArrived' /\ ConfirmedFramesTrue'
    BY <2>1
       DEF IInv, PacketsTrue, PacketsConnect, AcknowledgedFramesArrived,
           ConfirmedFramesTrue, AgreeOn
  <2> QED
    BY <2>2, <2>3 DEF IInv
<1> QED
  BY <1>1, <1>2, <1>3, <1>4 DEF Next

-----------------------------------------------------------------------------
(* The invariant of the records.                                           *)

\* The strengthening of the properties below is invariant.
THEOREM Invariance == Spec => []IInv
<1>1. Init => IInv
  BY InitInv
<1>2. IInv /\ [Next]_vars => IInv'
  BY NextInv
<1> QED
  BY <1>1, <1>2, PTL DEF Spec

\* Whatever UDP does to the packets, the records, the snapshots and the game
\* state keep their types: no frame is read that is not recorded.
THEOREM TypeCorrect == Spec => []TypeOK
<1>1. IInv => TypeOK
  BY DEF IInv
<1> QED
  BY <1>1, Invariance, PTL

\* A player's record of the others is right up to the cycle it takes for
\* confirmed: read_control_packet never confirms a frame nobody pressed.
THEOREM ConfirmedTrue == Spec => []ConfirmedFramesTrue
<1>1. IInv => ConfirmedFramesTrue
  BY DEF IInv
<1> QED
  BY <1>1, Invariance, PTL

\* The acknowledgement in a control packet never promises a frame that has not
\* arrived, so write_control_packet never stops sending one too early.
THEOREM AcknowledgedArrived == Spec => []AcknowledgedFramesArrived
<1>1. IInv => AcknowledgedFramesArrived
  BY DEF IInv
<1> QED
  BY <1>1, Invariance, PTL

\* With the lag bounded, read_local_controls erases only what everybody has, so
\* a packet never leaves a hole in its receiver's record.
THEOREM NoHoles == Spec => []PacketsConnect
<1>1. IInv => PacketsConnect
  BY DEF IInv
<1> QED
  BY <1>1, Invariance, PTL

-----------------------------------------------------------------------------
(* The players stay in sync: the definitions.                              *)

\* What player s pressed in cycle i: what its own game played, or is about to.
Pressed(s, i) ==
    IF i < 0 THEN NoKeys
    ELSE IF i + 1 + Delay <= Cycle(s) THEN world[s][i + 1 + Delay][s]
    ELSE controls[s][s][i]

\* The history reaches back to the frames that a rollback needs.
HistoryLong ==
    \A p \in Slots :
       \/ start[p] = 0
       \/ /\ ending[p][p] - start[p] >= MaxLag + Delay
          /\ ending[p][p] - start[p] > Delay

\* The snapshots taken by turn number e: those of the last cycles, each a prefix of
\* the game state.
SnapshotsOf(snapshots, state, e) ==
    /\ Len(snapshots) = IF e < MaxBackups THEN e ELSE MaxBackups
    /\ \A i \in 1..Len(snapshots) :
          /\ Len(snapshots[i]) = e - Len(snapshots) + i - 1
          /\ \A g \in 1..Len(snapshots[i]) : snapshots[i][g] = state[g]

Snapshots == \A p \in Slots : SnapshotsOf(backups[p], world[p], ending[p][p])

\* What a player erased, it had confirmed; and what it still expects is recent.
ConfirmedRecent ==
    \A p \in Slots : \A s \in Others(p) :
       /\ start[p] <= confirmed[p][s]
       /\ pc[p] = "receiving" => ending[p][p] - 1 - confirmed[p][s] <= MaxLag

\* A rollback never reaches further back than the lag, or than one cycle more
\* when nothing was erased yet.
InvalidRecent ==
    \A p \in Slots :
       \/ firstInvalid[p] = -1
       \/ firstInvalid[p] >= ending[p][p] - MaxLag
       \/ start[p] = 0 /\ firstInvalid[p] >= ending[p][p] - 1 - MaxLag

\* From the last frame it knows on, a player expects nothing to change.
PredictionsConstant ==
    \A p \in Slots : \A s \in Others(p) : \A i, j \in start[p]..(ending[p][s] - 1) :
       i >= confirmed[p][s] /\ j >= confirmed[p][s] => controls[p][s][i] = controls[p][s][j]

\* A player's own record and what it has confirmed of the others is what they pressed,
RecordsPressed ==
    \A p, s \in Slots : \A i \in start[p]..(ending[p][s] - 1) :
       s = p \/ (confirmed[p][s] > 0 /\ i <= confirmed[p][s])
          => controls[p][s][i] = Pressed(s, i)

\* and so are the frames in flight,
PacketsPressed ==
    \A m \in net : \A i \in m.first..m.current : m.frames[i] = Pressed(m.slot, i)

\* and what drove the cycles whose frames are erased.
ErasedPressed ==
    \A p, s \in Slots : \A g \in 1..Cycle(p) :
       g - 1 - Delay < start[p] => world[p][g][s] = Pressed(s, g - 1 - Delay)

SyncInv ==
    /\ IInv
    /\ HistoryLong
    /\ Snapshots
    /\ ConfirmedRecent
    /\ InvalidRecent
    /\ PredictionsConstant
    /\ WrongCyclesAreInvalid
    /\ RecordsPressed
    /\ PacketsPressed
    /\ ErasedPressed

\* The invariant holds when a level starts.
LEMMA InitSync == Init => SyncInv
<1> SUFFICES ASSUME Init PROVE SyncInv
  OBVIOUS
<1>1. IInv
  BY InitInv
<1> USE DEF Init
<1>2. HistoryLong /\ ConfirmedRecent /\ InvalidRecent /\ PredictionsConstant /\ PacketsPressed
  BY DEF HistoryLong, ConfirmedRecent, InvalidRecent, PredictionsConstant, PacketsPressed, Others
<1>3. Snapshots
  BY NetplayAssumption DEF Snapshots, SnapshotsOf
<1>4. WrongCyclesAreInvalid /\ RecordsPressed /\ ErasedPressed
  BY DEF WrongCyclesAreInvalid, RecordsPressed, ErasedPressed, Cycle
<1> QED
  BY <1>1, <1>2, <1>3, <1>4 DEF SyncInv

-----------------------------------------------------------------------------
(* Rolling back.                                                           *)

\* Dropping the oldest of a player's snapshots keeps them those of the last cycles.
LEMMA NewestFacts ==
    ASSUME NEW R \in Seq(Seq([Slots -> Frames])), NEW w \in Seq([Slots -> Frames]),
           NEW e \in Nat, NEW n \in Nat,
           n = IF e < MaxBackups THEN e ELSE MaxBackups,
           Len(R) = n + 1,
           \A i \in 1..(n + 1) : /\ Len(R[i]) = e - n + i - 1
                                 /\ \A g \in 1..Len(R[i]) : R[i][g] = w[g]
    PROVE  SnapshotsOf(Newest(R), w, e + 1)
<1>1. MaxBackups \in Nat \ {0}
  BY NetplayAssumption
<1>2. CASE n + 1 > MaxBackups
  <2>1. /\ Newest(R) = Tail(R) /\ R # << >> /\ n = MaxBackups /\ e >= MaxBackups
    BY <1>1, <1>2 DEF Newest
  <2>2. /\ Len(Tail(R)) = n /\ \A i \in 1..n : Tail(R)[i] = R[i + 1]
    BY <2>1
  <2>3. ASSUME NEW i \in 1..n
        PROVE  /\ Len(Tail(R)[i]) = (e + 1) - n + i - 1
               /\ \A g \in 1..Len(Tail(R)[i]) : Tail(R)[i][g] = w[g]
    <3>1. i + 1 \in 1..(n + 1) /\ e - n + (i + 1) - 1 = (e + 1) - n + i - 1
      BY SMTT(30)
    <3>2. Tail(R)[i] = R[i + 1]
      BY <2>2
    <3>3. Len(R[i + 1]) = e - n + (i + 1) - 1 /\ \A g \in 1..Len(R[i + 1]) : R[i + 1][g] = w[g]
      BY <3>1
    <3> QED
      BY <3>1, <3>2, <3>3, Zenon
  <2>4. Len(Newest(R)) = n /\ n = IF e + 1 < MaxBackups THEN e + 1 ELSE MaxBackups
    BY <1>1, <2>1, <2>2
  <2> QED
    BY <2>1, <2>3, <2>4, Zenon DEF SnapshotsOf
<1>3. CASE ~(n + 1 > MaxBackups)
  <2>1. Newest(R) = R /\ n = e /\ e < MaxBackups
    BY <1>1, <1>3 DEF Newest
  <2>2. \A i \in 1..(n + 1) : e - n + i - 1 = (e + 1) - (n + 1) + i - 1
    BY <2>1
  <2>3. Len(Newest(R)) = n + 1 /\ n + 1 = IF e + 1 < MaxBackups THEN e + 1 ELSE MaxBackups
    BY <1>1, <2>1
  <2> QED
    BY <2>1, <2>2, <2>3, Zenon DEF SnapshotsOf
<1> QED
  BY <1>2, <1>3

\* A replay changes no cycle up to the first invalid one, and computes the others
\* from the records.
LEMMA ReplayFacts ==
    ASSUME SyncInv, NEW p \in Slots, pc[p] = "idle", NeedsReplay(p), ReplayIndex(p) >= 0
    PROVE  /\ \A g \in 1..Cycle(p) : Replayed(p)[g] = IF g <= firstInvalid[p] THEN world[p][g]
                                                      ELSE Inputs(p, g)
           /\ \A i \in 1..(Len(backups[p]) + 1) :
                 /\ Len(Retaken(p)[i]) = Cycle(p) - Len(backups[p]) + i - 1
                 /\ \A g \in 1..Len(Retaken(p)[i]) : Retaken(p)[i][g] = Replayed(p)[g]
<1> DEFINE c == Cycle(p)
           n == Len(backups[p])
           k == ReplayIndex(p)
           fi == firstInvalid[p]
<1>1. IInv /\ Snapshots
  BY DEF SyncInv
<1>2. /\ c \in Nat /\ n \in Nat /\ fi \in Nat /\ c > fi /\ c = ending[p][p]
      /\ k \in Nat /\ k + 1 \in 1..n /\ k = n - (c - fi)
  <2>1. /\ c \in Nat /\ n \in Nat /\ fi \in Nat \cup {-1} /\ c = ending[p][p]
    BY <1>1, Types
  <2>2. fi >= 0 /\ c > fi
    BY DEF NeedsReplay
  <2>3. k \in Nat /\ k + 1 \in 1..n /\ k = n - (c - fi)
    BY <1>1, ReplayType
  <2> QED
    BY <2>1, <2>2, <2>3
<1>3. \A i \in 1..n : /\ Len(backups[p][i]) = c - n + i - 1
                      /\ \A g \in 1..Len(backups[p][i]) : backups[p][i][g] = world[p][g]
  BY <1>1, <1>2 DEF Snapshots, SnapshotsOf
<1>4. Len(backups[p][k + 1]) = fi /\ \A g \in 1..fi : backups[p][k + 1][g] = world[p][g]
  <2>1. c - n + (k + 1) - 1 = fi
    <3> HIDE DEF c, n, k, fi
    <3> QED
      BY <1>2
  <2> HIDE DEF c, n, k, fi
  <2> QED
    BY <1>2, <1>3, <2>1
<1>5. ASSUME NEW g \in 1..c
      PROVE  Replayed(p)[g] = IF g <= fi THEN world[p][g] ELSE Inputs(p, g)
  <2>1. Replayed(p)[g] = IF g <= Len(backups[p][k + 1]) THEN backups[p][k + 1][g] ELSE Inputs(p, g)
    BY DEF Replayed
  <2> HIDE DEF k
  <2> QED
    BY <1>2, <1>4, <2>1
<1>6. ASSUME NEW i \in 1..(n + 1)
      PROVE  /\ Len(Retaken(p)[i]) = c - n + i - 1
             /\ \A g \in 1..Len(Retaken(p)[i]) : Retaken(p)[i][g] = Replayed(p)[g]
  <2>1. CASE i <= k
    <3>1. /\ i \in 1..n /\ c - n + i - 1 < fi
      <4> HIDE DEF c, n, k, fi
      <4> QED
        BY <1>2, <2>1
    <3>2. Retaken(p)[i] = backups[p][i]
      BY <2>1 DEF Retaken
    <3>3. Len(backups[p][i]) = c - n + i - 1 /\ \A g \in 1..(c - n + i - 1) : backups[p][i][g] = world[p][g]
      BY <1>3, <3>1
    <3>4. ASSUME NEW g \in 1..(c - n + i - 1) PROVE Replayed(p)[g] = world[p][g]
      <4>1. g \in 1..c /\ g <= fi
        <5> HIDE DEF c, n, k, fi
        <5> QED
          BY <1>2, <3>1
      <4> QED
        BY <1>5, <4>1
    <3> HIDE DEF c, n, k, fi
    <3> QED
      BY <3>2, <3>3, <3>4
  <2>2. CASE ~(i <= k)
    <3>1. c - n + i - 1 \in 0..c
      <4> HIDE DEF c, n, k, fi
      <4> QED
        BY <1>2, <2>2
    <3>2. Retaken(p)[i] = SubSeq(Replayed(p), 1, c - n + i - 1)
      BY <2>2 DEF Retaken
    <3>3. Replayed(p) \in Seq([Slots -> Frames]) /\ Len(Replayed(p)) = c
      BY <1>1, ReplayType
    <3> HIDE DEF c, n, k, fi
    <3> QED
      BY <3>1, <3>2, <3>3
  <2> QED
    BY <2>1, <2>2
<1> QED
  BY <1>5, <1>6

\* After a rollback nothing is invalid, every recorded cycle was computed from the
\* records, the erased ones are as they were, and the snapshots are those of it.
LEMMA RollbackFacts ==
    ASSUME SyncInv, NEW p \in Slots, pc[p] = "idle", Rollback(p)
    PROVE  /\ firstInvalid'[p] = -1
           /\ \A g \in 1..Cycle(p) :
                 /\ g - 1 - Delay >= start[p] => world'[p][g] = Inputs(p, g)
                 /\ g - 1 - Delay < start[p] =>
                       world'[p][g] = world[p][g] \/ (g - 1 - Delay < 0 /\ world'[p][g] = Inputs(p, g))
           /\ SnapshotsOf(backups'[p], world'[p], ending[p][p] + 1)
           /\ \A q \in Slots \ {p} : /\ world'[q] = world[q] /\ backups'[q] = backups[q]
                                     /\ firstInvalid'[q] = firstInvalid[q]
<1> DEFINE c == Cycle(p)
           n == Len(backups[p])
           fi == firstInvalid[p]
           Input == [Slots -> Frames]
<1>1. /\ IInv /\ Snapshots /\ WrongCyclesAreInvalid /\ InvalidRecent /\ HistoryLong
  BY DEF SyncInv
<1>2. /\ world \in [Slots -> Seq(Input)] /\ backups \in [Slots -> Seq(Seq(Input))]
      /\ firstInvalid \in [Slots -> Nat \cup {-1}]
  BY <1>1 DEF IInv, TypeOK
<1>3. /\ c \in Nat /\ n \in Nat /\ fi \in Nat \cup {-1} /\ c = ending[p][p] /\ start[p] \in Nat
      /\ Delay \in Nat /\ MaxLag \in Nat /\ MaxBackups \in Nat \ {0} /\ world[p] \in Seq(Input)
      /\ backups[p] \in Seq(Seq(Input))
  BY <1>1, Types
<1>4. n = IF c < MaxBackups THEN c ELSE MaxBackups
  BY <1>1, <1>3 DEF Snapshots, SnapshotsOf
<1>5. /\ firstInvalid'[p] = -1
      /\ \A q \in Slots \ {p} : /\ world'[q] = world[q] /\ backups'[q] = backups[q]
                                /\ firstInvalid'[q] = firstInvalid[q]
  BY <1>2 DEF Rollback
<1>6. CASE ~NeedsReplay(p)
  <2> DEFINE R == Append(backups[p], world[p])
  <2>1. world' = world /\ backups'[p] = Newest(R)
    BY <1>2, <1>6 DEF Rollback
  <2>2. R \in Seq(Seq(Input)) /\ Len(R) = n + 1
    BY <1>3
  <2>3. ASSUME NEW i \in 1..(n + 1)
        PROVE  Len(R[i]) = c - n + i - 1 /\ \A g \in 1..Len(R[i]) : R[i][g] = world'[p][g]
    <3>1. CASE i = n + 1
      <4>1. R[i] = world[p]
        BY <1>3, <3>1
      <4>2. Len(world[p]) = c /\ c = c - n + (n + 1) - 1
        BY <1>3 DEF Cycle
      <4> QED
        BY <2>1, <3>1, <4>1, <4>2
    <3>2. CASE i # n + 1
      <4>1. i \in 1..n /\ R[i] = backups[p][i]
        BY <1>3, <3>2
      <4> HIDE DEF R
      <4> QED
        BY <1>1, <1>3, <2>1, <4>1 DEF Snapshots, SnapshotsOf
    <3> QED
      BY <3>1, <3>2
  <2>4. ASSUME NEW g \in 1..c, g - 1 - Delay >= start[p] PROVE world'[p][g] = Inputs(p, g)
    <3>1. ~(fi >= 0 /\ g > fi)
      BY <1>3, <1>6 DEF NeedsReplay
    <3> QED
      BY <1>1, <2>1, <2>4, <3>1 DEF WrongCyclesAreInvalid
  <2> HIDE DEF R, c, n
  <2>5. SnapshotsOf(Newest(R), world'[p], c + 1)
    <3>1. world'[p] \in Seq(Input)
      BY <1>3, <2>1
    <3> QED
      BY <1>3, <1>4, <2>2, <2>3, <3>1, NewestFacts
  <2> QED
    BY <1>3, <1>5, <2>1, <2>4, <2>5 DEF c
<1>7. CASE NeedsReplay(p)
  <2>1. ReplayIndex(p) >= 0 /\ world'[p] = Replayed(p) /\ backups'[p] = Newest(Retaken(p))
    BY <1>2, <1>7 DEF Rollback, Retaken
  <2>2. /\ Retaken(p) \in Seq(Seq(Input)) /\ Len(Retaken(p)) = n + 1
        /\ Replayed(p) \in Seq(Input)
    BY <1>1, <1>7, <2>1, ReplayType
  <2>3. /\ \A g \in 1..c : Replayed(p)[g] = IF g <= fi THEN world[p][g] ELSE Inputs(p, g)
        /\ \A i \in 1..(n + 1) :
              /\ Len(Retaken(p)[i]) = c - n + i - 1
              /\ \A g \in 1..Len(Retaken(p)[i]) : Retaken(p)[i][g] = Replayed(p)[g]
    BY <1>7, <2>1, ReplayFacts
  <2>4. ASSUME NEW g \in 1..c, g - 1 - Delay >= start[p] PROVE world'[p][g] = Inputs(p, g)
    <3>1. g <= fi => world[p][g] = Inputs(p, g)
      BY <1>1, <1>3, <2>4 DEF WrongCyclesAreInvalid
    <3> QED
      BY <2>1, <2>3, <3>1
  <2>5. ASSUME NEW g \in 1..c, g - 1 - Delay < start[p]
        PROVE  world'[p][g] = world[p][g] \/ (g - 1 - Delay < 0 /\ world'[p][g] = Inputs(p, g))
    <3>1. CASE g <= fi
      BY <2>1, <2>3, <3>1
    <3>2. CASE g > fi
      <4>1. g - 1 - Delay < 0
        <5>1. fi >= c - MaxLag \/ (start[p] = 0 /\ fi >= c - 1 - MaxLag)
          BY <1>1, <1>3, <1>7 DEF InvalidRecent, NeedsReplay
        <5>2. start[p] = 0 \/ c - start[p] >= MaxLag + Delay
          BY <1>1, <1>3 DEF HistoryLong
        <5> HIDE DEF c, fi
        <5> QED
          BY <1>3, <2>5, <3>2, <5>1, <5>2, SMTT(30)
      <4> QED
        BY <1>3, <2>1, <2>3, <3>2, <4>1
    <3> QED
      BY <1>3, <3>1, <3>2
  <2> HIDE DEF c, n
  <2>6. SnapshotsOf(Newest(Retaken(p)), Replayed(p), c + 1)
    BY <1>3, <1>4, <2>2, <2>3, NewestFacts
  <2> QED
    BY <1>3, <1>5, <2>1, <2>4, <2>5, <2>6 DEF c
<1> QED
  BY <1>6, <1>7

-----------------------------------------------------------------------------
(* Recording and simulating.                                               *)

\* Recording a frame keeps the history long enough for a rollback, erases nothing
\* that is not confirmed, and predicts that nobody does anything new.
LEMMA RecordSyncFacts ==
    ASSUME SyncInv, NEW p \in Slots, NEW keys \in Pressable[p], 
           \A s \in Others(p) : Lag(p, s) <= MaxLag, ReadLocalControls(p, keys)
    PROVE  /\ \/ start'[p] = 0
              \/ /\ ending'[p][p] - start'[p] >= MaxLag + Delay
                 /\ ending'[p][p] - start'[p] > Delay
           /\ \A s \in Others(p) : /\ start'[p] <= confirmed[p][s]
                                   /\ ending'[p][p] - 1 - confirmed[p][s] <= MaxLag
           /\ \A s \in Others(p) : \A i \in start'[p]..(ending'[p][s] - 1) :
                 i >= ending[p][s] =>
                    controls'[p][s][i] = IF ending[p][s] = start[p] THEN NoKeys
                                         ELSE controls[p][s][ending[p][s] - 1]
<1> DEFINE end == ending[p][p] + 1
           half == MaxHistory \div 2
           first == start[p] + (IF end - start[p] >= MaxHistory THEN (end - start[p]) \div 2 ELSE 0)
           newEnd == [s \in Slots |-> Larger(ending[p][s], end)]
           record == [s \in Slots |-> [i \in first..(newEnd[s] - 1) |->
                         IF s = p /\ i = end - 1 THEN keys ELSE Predicted(p, s, i)]]
<1>1. /\ start' = [start EXCEPT ![p] = first]
      /\ ending' = [ending EXCEPT ![p] = newEnd]
      /\ controls' = [controls EXCEPT ![p] = record]
  BY DEF ReadLocalControls
<1>2. IInv /\ HistoryLong /\ ConfirmedRecent
  BY DEF SyncInv
<1>3. start'[p] = first /\ controls'[p] = record /\ ending'[p] = newEnd
  <2> HIDE DEF first, newEnd, record
  <2> QED
    BY <1>1, <1>2 DEF IInv, TypeOK
<1>4. /\ start[p] \in Nat /\ ending[p][p] \in Nat /\ ending[p][p] - start[p] < MaxHistory
      /\ MaxLag \in Nat /\ Delay \in Nat /\ MaxHistory \in Nat \ {0, 1}
      /\ ending'[p][p] = end
      /\ \A s \in Others(p) : confirmed[p][s] \in Nat
  <2>1. start[p] \in Nat /\ \A s \in Slots : ending[p][s] \in Nat /\ confirmed[p][s] \in Nat
    BY <1>2, Types
  <2>2. ending'[p][p] = end
    BY <1>2, RecordFacts
  <2>3. ending[p][p] - start[p] < MaxHistory
    BY <1>2 DEF IInv, LocalRecord
  <2> QED
    BY <2>1, <2>2, <2>3, NetplayAssumption DEF Others
<1>5. /\ end - start[p] < MaxHistory => first = start[p]
      /\ ~(end - start[p] < MaxHistory) => end - first = MaxHistory - half
  BY <1>4
<1>6. /\ half \in Nat /\ MaxHistory - half > MaxLag /\ MaxHistory - half > Delay
      /\ MaxHistory - half >= MaxLag + Delay
  BY HalfFacts, ReplayAssumption, <1>4
<1>7. first = 0 \/ (end - first >= MaxLag + Delay /\ end - first > Delay)
  <2>1. start[p] = 0 \/ (ending[p][p] - start[p] >= MaxLag + Delay /\ ending[p][p] - start[p] > Delay)
    BY <1>2 DEF HistoryLong
  <2> HIDE DEF first, half
  <2> QED
    BY <1>4, <1>5, <1>6, <2>1
<1>8. ASSUME NEW s \in Others(p)
      PROVE  first <= confirmed[p][s] /\ end - 1 - confirmed[p][s] <= MaxLag
  <2>1. ending[p][p] - confirmed[p][s] <= MaxLag
    <3>1. remoteConfirmed[p][s] \in Nat /\ confirmed[p][s] \in Nat /\ Lag(p, s) <= MaxLag
      BY <1>2, Types DEF Others
    <3> QED
      BY <1>4, <3>1, LargerFacts DEF Lag
  <2>2. start[p] <= confirmed[p][s]
    BY <1>2 DEF ConfirmedRecent
  <2>3. first \in Nat
    BY <1>4
  <2> HIDE DEF first, half
  <2> QED
    BY <1>4, <1>5, <1>6, <2>1, <2>2, <2>3
<1>9. ASSUME NEW s \in Others(p), NEW i \in first..(newEnd[s] - 1), i >= ending[p][s]
      PROVE  record[s][i] = IF ending[p][s] = start[p] THEN NoKeys
                            ELSE controls[p][s][ending[p][s] - 1]
  <2>1. s \in Slots /\ s # p /\ ending[p][s] \in Nat
    BY <1>2, Types DEF Others
  <2>2. first \in Nat
    BY <1>4, <1>6
  <2>3. i \in Int /\ ~(i < ending[p][s])
    <3> newEnd[s] \in Int
      BY <1>4, <2>1 DEF Larger
    <3> HIDE DEF first, newEnd
    <3> QED
      BY <1>9, <2>1, <2>2
  <2>4. record[s][i] = Predicted(p, s, i)
    <3> HIDE DEF first
    <3> QED
      BY <2>1
  <2> QED
    BY <2>3, <2>4 DEF Predicted
<1> HIDE DEF first, newEnd, record, end
<1> QED
  BY <1>3, <1>4, <1>7, <1>8, <1>9 DEF Others

\* A turn of the game loop changes nothing that was pressed before it.
LEMMA PlayCyclePressed ==
    ASSUME SyncInv, NEW p \in Slots, NEW keys \in Pressable[p], PlayCycle(p, keys),
           NEW s \in Slots, NEW i \in Int, i < ending[s][s]
    PROVE  Pressed(s, i)' = Pressed(s, i)
<1>1. /\ pc[p] = "idle" /\ Rollback(p) /\ ReadLocalControls(p, keys)
      /\ \A r \in Others(p) : Lag(p, r) <= MaxLag
      /\ IInv
  BY DEF PlayCycle, SyncInv
<1>2. Cycle(s)' = Cycle(s) /\ Cycle(s) \in Nat /\ Delay \in Nat /\ start[s] \in Nat
  BY <1>1, RollbackType, Types DEF Cycle
<1>3. CASE s # p
  <2>1. world'[s] = world[s]
    BY <1>1, <1>3, RollbackFacts
  <2>2. controls'[s] = controls[s]
    BY <1>1, <1>3, RecordFacts
  <2> QED
    BY <1>2, <2>1, <2>2 DEF Pressed
<1>4. CASE s = p
  <2>1. Cycle(p) = ending[p][p]
    BY <1>1, Types
  <2>2. CASE i < 0
    BY <2>2 DEF Pressed
  <2>3. CASE i >= 0 /\ i + 1 + Delay <= Cycle(p)
    <3> DEFINE g == i + 1 + Delay
    <3>1. g \in 1..Cycle(p) /\ g - 1 - Delay = i
      BY <1>2, <1>4, <2>3
    <3>2. Pressed(p, i) = world[p][g][p] /\ Pressed(p, i)' = world'[p][g][p]
      BY <1>2, <1>4, <2>3 DEF Pressed
    <3> HIDE DEF g
    <3>3. CASE i < start[p]
      <4>1. world'[p][g] = world[p][g]
        BY <1>1, <1>2, <2>3, <3>1, <3>3, RollbackFacts
      <4> QED
        BY <1>4, <3>2, <4>1
    <3>4. CASE i >= start[p]
      <4>1. world'[p][g] = Inputs(p, g)
        BY <1>1, <3>1, <3>4, RollbackFacts
      <4>2. Inputs(p, g)[p] = controls[p][p][i]
        BY <1>2, <1>4, <3>1, <3>4 DEF Inputs, GameInput
      <4>3. controls[p][p][i] = Pressed(p, i)
        <5>1. i \in start[p]..(ending[p][p] - 1)
          BY <1>1, <1>2, <1>4, <3>4, Types
        <5> QED
          BY <5>1 DEF SyncInv, RecordsPressed
      <4> QED
        BY <1>4, <3>2, <4>1, <4>2, <4>3
    <3> QED
      BY <1>2, <1>4, <3>3, <3>4
  <2>4. CASE i >= 0 /\ ~(i + 1 + Delay <= Cycle(p))
    <3>1. Pressed(p, i) = controls[p][p][i] /\ Pressed(p, i)' = controls'[p][p][i]
      BY <1>2, <1>4, <2>4 DEF Pressed
    <3>2. start'[p] \in Nat /\ ending'[p][p] = ending[p][p] + 1
      BY <1>1, RecordFacts
    <3>3. start'[p] = 0 \/ ending'[p][p] - start'[p] > Delay
      BY <1>1, RecordSyncFacts
    <3>4. i \in start'[p]..(ending[p][p] - 1)
      <4>1. ending[p][p] \in Nat
        BY <1>1, Types
      <4> QED
        BY <1>2, <1>4, <2>1, <2>4, <3>2, <3>3, <4>1
    <3>5. controls'[p][p][i] = controls[p][p][i]
      BY <1>1, <3>4, RecordFacts
    <3> QED
      BY <1>4, <3>1, <3>5
  <2> QED
    BY <1>2, <1>4, <2>2, <2>3, <2>4
<1> QED
  BY <1>3, <1>4

\* A turn of the game loop preserves the invariant.
LEMMA PlayCycleSync ==
    ASSUME SyncInv, NEW p \in Slots, NEW keys \in Pressable[p], PlayCycle(p, keys)
    PROVE  SyncInv'
<1> USE DEF Others
<1>1. /\ pc[p] = "idle" /\ Rollback(p) /\ ReadLocalControls(p, keys) /\ SendControlPacket(p)
      /\ pc' = [pc EXCEPT ![p] = "receiving"] /\ IInv
      /\ \A r \in Others(p) : Lag(p, r) <= MaxLag
  BY DEF PlayCycle, SyncInv
<1>2. IInv'
  BY <1>1, PlayCycleInv
<1>3. /\ \A q \in Slots : Cycle(q)' = Cycle(q)
      /\ Cycle(p) = ending[p][p]
  BY <1>1, RollbackType, Types DEF Cycle
<1>4. /\ firstInvalid'[p] = -1
      /\ SnapshotsOf(backups'[p], world'[p], ending[p][p] + 1)
      /\ \A q \in Slots \ {p} : /\ world'[q] = world[q] /\ backups'[q] = backups[q]
                                /\ firstInvalid'[q] = firstInvalid[q]
  BY <1>1, RollbackFacts
<1>5. /\ \A q \in Slots \ {p} : /\ start'[q] = start[q] /\ ending'[q] = ending[q]
                                /\ confirmed'[q] = confirmed[q] /\ controls'[q] = controls[q]
      /\ start'[p] >= start[p] /\ ending'[p][p] = ending[p][p] + 1
      /\ \A s \in Slots : ending'[p][s] >= ending[p][s]
      /\ \A s \in Slots \ {p} : confirmed'[p][s] = confirmed[p][s]
      /\ \A s \in Slots : \A i \in start'[p]..(ending[p][s] - 1) :
            controls'[p][s][i] = controls[p][s][i]
  BY <1>1, RecordFacts
<1>6. /\ \/ start'[p] = 0
         \/ /\ ending'[p][p] - start'[p] >= MaxLag + Delay
            /\ ending'[p][p] - start'[p] > Delay
      /\ \A s \in Slots \ {p} : /\ start'[p] <= confirmed[p][s]
                                /\ ending'[p][p] - 1 - confirmed[p][s] <= MaxLag
  BY <1>1, RecordSyncFacts
<1>7. ASSUME NEW q \in Slots, NEW s \in Slots
      PROVE  /\ start[q] \in Nat /\ start'[q] \in Nat /\ ending[q][s] \in Nat /\ ending'[q][s] \in Nat
             /\ confirmed[q][s] \in Nat /\ Cycle(q) \in Nat /\ Delay \in Nat
             /\ ending[q][q] <= ending[q][s]
             /\ pc'[q] = "receiving" => pc[q] = "receiving" \/ q = p
             /\ s # q => /\ confirmed[q][s] <= ending[s][s]
                         /\ confirmed[q][s] > 0 => confirmed[q][s] < ending[q][s]
                         /\ confirmed[q][s] > 0 => confirmed[q][s] < ending[s][s]
  <2>1. start'[q] \in Nat /\ ending'[q][s] \in Nat
    BY <1>2 DEF IInv, TypeOK
  <2>2. pc'[q] = "receiving" => pc[q] = "receiving" \/ q = p
    BY <1>1 DEF IInv, TypeOK
  <2>3. s # q /\ confirmed[q][s] > 0 => confirmed[q][s] < ending[s][s]
    BY <1>1 DEF IInv, KnownExists
  <2> QED
    BY <1>1, <2>1, <2>2, <2>3, Types
<1>8. HistoryLong'
  BY <1>5, <1>6 DEF HistoryLong, SyncInv
<1>9. Snapshots'
  BY <1>4, <1>5 DEF Snapshots, SyncInv
<1>10. ConfirmedRecent'
  <2> SUFFICES ASSUME NEW q \in Slots, NEW s \in Slots \ {q}
               PROVE  /\ start'[q] <= confirmed'[q][s]
                      /\ pc'[q] = "receiving" => ending'[q][q] - 1 - confirmed'[q][s] <= MaxLag
    BY DEF ConfirmedRecent
  <2>1. CASE q = p
    BY <1>5, <1>6, <2>1
  <2>2. CASE q # p
    BY <1>5, <1>7, <2>2 DEF ConfirmedRecent, SyncInv
  <2> QED
    BY <2>1, <2>2
<1>11. InvalidRecent'
  BY <1>4, <1>5 DEF InvalidRecent, SyncInv
<1>12. PredictionsConstant'
  <2> SUFFICES ASSUME NEW q \in Slots, NEW s \in Slots \ {q},
                      NEW i \in start'[q]..(ending'[q][s] - 1), NEW j \in start'[q]..(ending'[q][s] - 1),
                      i >= confirmed'[q][s], j >= confirmed'[q][s]
               PROVE  controls'[q][s][i] = controls'[q][s][j]
    BY DEF PredictionsConstant
  <2>1. CASE q # p
    BY <1>5, <2>1 DEF PredictionsConstant, SyncInv
  <2>2. CASE q = p
    <3> DEFINE e == ending[p][s]
               frame == IF e = start[p] THEN NoKeys ELSE controls[p][s][e - 1]
    <3> SUFFICES ASSUME NEW k \in start'[p]..(ending'[p][s] - 1), k >= confirmed[p][s]
                 PROVE  controls'[p][s][k] = frame
      BY <1>5, <2>2
    <3>1. CASE k >= e
      BY <1>1, <2>2, <3>1, RecordSyncFacts
    <3>2. CASE ~(k >= e)
      <4>1. /\ k \in start'[p]..(e - 1) /\ k \in start[p]..(e - 1)
            /\ e - 1 \in start[p]..(e - 1) /\ e # start[p]
            /\ e - 1 >= confirmed[p][s]
        BY <1>5, <1>7, <3>2
      <4>2. controls'[p][s][k] = controls[p][s][k]
        BY <1>5, <4>1
      <4>3. controls[p][s][k] = controls[p][s][e - 1]
        BY <2>2, <4>1 DEF PredictionsConstant, SyncInv
      <4> QED
        BY <4>1, <4>2, <4>3
    <3> QED
      BY <3>1, <3>2
  <2> QED
    BY <2>1, <2>2
<1>13. WrongCyclesAreInvalid'
  <2> SUFFICES ASSUME NEW q \in Slots, NEW g \in 1..Cycle(q), g - 1 - Delay >= start'[q],
                      world'[q][g] # Inputs(q, g)'
               PROVE  firstInvalid'[q] >= 0 /\ g > firstInvalid'[q]
    BY <1>3 DEF WrongCyclesAreInvalid
  <2>1. CASE q # p
    <3>1. Inputs(q, g)' = Inputs(q, g)
      BY <1>5, <2>1 DEF Inputs, GameInput
    <3> QED
      BY <1>4, <1>5, <2>1, <3>1 DEF WrongCyclesAreInvalid, SyncInv
  <2>2. CASE q = p
    <3>1. g - 1 - Delay >= start[p] /\ g - 1 - Delay \in Int
      BY <1>5, <1>7, <2>2
    <3>2. world'[p][g] = Inputs(p, g)
      BY <1>1, <2>2, <3>1, RollbackFacts
    <3>3. ASSUME NEW s \in Slots PROVE GameInput(p, s, g)' = GameInput(p, s, g)
      <4>1. g - 1 - Delay \in start'[p]..(ending[p][s] - 1)
        BY <1>3, <1>7, <2>2, <3>1
      <4>2. /\ ~(g - 1 - Delay < start'[p]) /\ ~(g - 1 - Delay < start[p])
        BY <1>7, <2>2, <3>1
      <4>3. controls'[p][s][g - 1 - Delay] = controls[p][s][g - 1 - Delay]
        BY <1>5, <4>1
      <4> QED
        BY <4>2, <4>3 DEF GameInput
    <3>4. Inputs(p, g)' = Inputs(p, g)
      BY <3>3 DEF Inputs
    <3> QED
      BY <2>2, <3>2, <3>4
  <2> QED
    BY <2>1, <2>2
<1>14. \A s \in Slots : \A i \in Int : i < ending[s][s] => Pressed(s, i)' = Pressed(s, i)
  BY PlayCyclePressed
<1>15. RecordsPressed'
  <2> SUFFICES ASSUME NEW q \in Slots, NEW s \in Slots, NEW i \in start'[q]..(ending'[q][s] - 1),
                      s = q \/ (confirmed'[q][s] > 0 /\ i <= confirmed'[q][s])
               PROVE  controls'[q][s][i] = Pressed(s, i)'
    BY DEF RecordsPressed
  <2>0. i \in Int /\ start[q] <= i
    BY <1>5, <1>7
  <2>1. CASE s = p /\ q = p /\ i = ending[p][p]
    BY <1>3, <1>7, <2>1 DEF Pressed
  <2>2. CASE ~(s = p /\ q = p /\ i = ending[p][p])
    <3>1. /\ i \in start[q]..(ending[q][s] - 1) /\ i < ending[s][s]
          /\ s = q \/ (confirmed[q][s] > 0 /\ i <= confirmed[q][s])
          /\ controls'[q][s][i] = controls[q][s][i]
      <4>1. CASE q = p /\ s = p
        <5>1. i \in start'[p]..(ending[p][p] - 1)
          BY <1>5, <1>7, <2>0, <2>2, <4>1
        <5> QED
          BY <1>5, <1>7, <2>0, <4>1, <5>1
      <4>2. CASE q = p /\ s # p
        <5>1. i \in start'[p]..(ending[p][s] - 1) /\ i < ending[s][s]
          BY <1>5, <1>7, <2>0, <4>2
        <5> QED
          BY <1>5, <1>7, <2>0, <4>2, <5>1
      <4>3. CASE q # p
        BY <1>5, <1>7, <2>0, <4>3
      <4> QED
        BY <4>1, <4>2, <4>3
    <3>2. controls[q][s][i] = Pressed(s, i)
      BY <3>1 DEF RecordsPressed, SyncInv
    <3> QED
      BY <1>14, <2>0, <3>1, <3>2
  <2> QED
    BY <2>1, <2>2
<1>16. PacketsPressed'
  <2> SUFFICES ASSUME NEW m \in net', NEW i \in m.first..m.current
               PROVE  m.frames[i] = Pressed(m.slot, i)'
    BY DEF PacketsPressed
  <2>1. CASE m \in net
    <3>1. m.slot \in Slots /\ m.current \in Nat /\ m.first \in Nat /\ m.current < ending[m.slot][m.slot]
      BY <1>1, <2>1 DEF IInv, TypeOK, PacketOK, PacketsTrue
    <3>2. m.frames[i] = Pressed(m.slot, i)
      BY <2>1 DEF PacketsPressed, SyncInv
    <3>3. i \in Int /\ i < ending[m.slot][m.slot]
      BY <1>7, <3>1
    <3> QED
      BY <1>14, <3>1, <3>2, <3>3
  <2>2. CASE m \notin net
    <3>1. /\ m.slot = p /\ m.current = ending'[p][p] - 1 /\ m.first >= start'[p]
          /\ m.frames[i] = controls'[p][p][i] /\ PacketOK(m)
      BY <1>1, <2>2, PacketFacts
    <3>2. i \in start'[p]..(ending'[p][p] - 1)
      <4>1. m.first \in Nat
        BY <3>1 DEF PacketOK
      <4> QED
        BY <1>7, <3>1, <4>1
    <3> QED
      BY <1>15, <3>1, <3>2 DEF RecordsPressed
  <2> QED
    BY <2>1, <2>2
<1>17. ErasedPressed'
  <2> SUFFICES ASSUME NEW q \in Slots, NEW s \in Slots, NEW g \in 1..Cycle(q),
                      g - 1 - Delay < start'[q]
               PROVE  world'[q][g][s] = Pressed(s, g - 1 - Delay)'
    BY <1>3 DEF ErasedPressed
  <2> DEFINE i == g - 1 - Delay
  <2>1. i \in Int /\ g \in 1..Cycle(q)
    BY <1>7
  <2>2. start[q] <= ending[s][s] /\ start'[q] <= ending[s][s] + (IF s = p /\ q = p THEN 1 ELSE 0)
    <3>1. start[q] <= ending[q][q] /\ start'[q] <= ending'[q][q]
      BY <1>1, <1>2 DEF IInv, LocalRecord
    <3>2. s # q => start[q] <= confirmed[q][s] /\ start'[q] <= confirmed[q][s]
      BY <1>5, <1>6 DEF ConfirmedRecent, SyncInv
    <3> QED
      BY <1>5, <1>7, <3>1, <3>2
  <2>3. i < ending[s][s]
    BY <1>3, <1>7, <2>1, <2>2
  <2>4. Pressed(s, i)' = Pressed(s, i)
    BY <1>14, <2>1, <2>3
  <2>5. CASE i < start[q]
    <3>1. world[q][g][s] = Pressed(s, i)
      BY <2>5 DEF ErasedPressed, SyncInv
    <3>2. CASE world'[q][g] = world[q][g]
      BY <2>4, <3>1, <3>2
    <3>3. CASE world'[q][g] # world[q][g]
      <4>1. q = p /\ i < 0 /\ world'[p][g] = Inputs(p, g)
        BY <1>1, <1>4, <2>5, <3>3, RollbackFacts
      <4>2. Inputs(p, g)[s] = NoKeys
        BY <2>5, <4>1 DEF Inputs, GameInput
      <4>3. Pressed(s, i) = NoKeys
        BY <4>1 DEF Pressed
      <4> QED
        BY <2>4, <4>1, <4>2, <4>3
    <3> QED
      BY <3>2, <3>3
  <2>6. CASE ~(i < start[q])
    <3>1. q = p
      BY <1>5, <2>6
    <3>2. world'[p][g] = Inputs(p, g)
      BY <1>1, <1>7, <2>1, <2>6, <3>1, RollbackFacts
    <3>3. Inputs(p, g)[s] = controls[p][s][i]
      BY <2>6, <3>1 DEF Inputs, GameInput
    <3>4. /\ i \in start[p]..(ending[p][s] - 1)
          /\ s = p \/ (confirmed[p][s] > 0 /\ i <= confirmed[p][s])
      BY <1>3, <1>6, <1>7, <2>1, <2>6, <3>1
    <3>5. controls[p][s][i] = Pressed(s, i)
      BY <3>4 DEF RecordsPressed, SyncInv
    <3> QED
      BY <2>4, <3>1, <3>2, <3>3, <3>5
  <2> QED
    BY <2>5, <2>6
<1> QED
  BY <1>2, <1>8, <1>9, <1>10, <1>11, <1>12, <1>13, <1>15, <1>16, <1>17 DEF SyncInv

-----------------------------------------------------------------------------
(* Reading packets.                                                        *)

\* A packet that is applied moves the first invalid cycle back to the first
\* prediction it contradicts, never forward.
LEMMA CorrectionsFacts ==
    ASSUME IInv, NEW p \in Slots, NEW m \in net, m.slot # p,
           m.current >= confirmed[p][m.slot], ReadRecentPacket(p, m)
    PROVE  /\ \A i \in Corrections(p, m) : firstInvalid'[p] # -1 /\ firstInvalid'[p] <= i
           /\ firstInvalid[p] # -1 => firstInvalid'[p] # -1 /\ firstInvalid'[p] <= firstInvalid[p]
           /\ firstInvalid'[p] = firstInvalid[p] \/ firstInvalid'[p] \in Corrections(p, m)
           /\ \A q \in Slots \ {p} : firstInvalid'[q] = firstInvalid[q]
<1>1. /\ firstInvalid \in [Slots -> Nat \cup {-1}] /\ m.slot \in Slots
      /\ m.current \in Nat /\ m.first \in Nat /\ confirmed[p][m.slot] \in Nat
  <2>1. m.slot \in Slots /\ m.current \in Nat /\ m.first \in Nat
    BY DEF IInv, TypeOK, PacketOK
  <2> QED
    BY <2>1, Types DEF IInv, TypeOK
<1>2. CASE Corrections(p, m) = {} /\ UNCHANGED firstInvalid
  BY <1>1, <1>2
<1>3. ASSUME NEW first \in Lowest(Corrections(p, m)),
             firstInvalid' = [firstInvalid EXCEPT
                 ![p] = IF @ = -1 \/ @ > first THEN first ELSE @]
      PROVE  /\ \A i \in Corrections(p, m) : firstInvalid'[p] # -1 /\ firstInvalid'[p] <= i
             /\ firstInvalid[p] # -1 => firstInvalid'[p] # -1 /\ firstInvalid'[p] <= firstInvalid[p]
             /\ firstInvalid'[p] = firstInvalid[p] \/ firstInvalid'[p] \in Corrections(p, m)
             /\ \A q \in Slots \ {p} : firstInvalid'[q] = firstInvalid[q]
  <2>1. first \in Corrections(p, m) /\ \A i \in Corrections(p, m) : first <= i
    BY DEF Lowest
  <2>2. \A i \in Corrections(p, m) : i \in Nat
    <3>1. FirstNew(p, m) \in Nat
      BY <1>1 DEF FirstNew, Larger
    <3> QED
      BY <1>1, <3>1 DEF Corrections
  <2>3. firstInvalid'[p] = IF firstInvalid[p] = -1 \/ firstInvalid[p] > first THEN first
                           ELSE firstInvalid[p]
    BY <1>1, <1>3
  <2>4. \A q \in Slots \ {p} : firstInvalid'[q] = firstInvalid[q]
    BY <1>1, <1>3
  <2>5. firstInvalid[p] \in Nat \cup {-1}
    BY <1>1
  <2> QED
    BY <2>1, <2>2, <2>3, <2>4, <2>5
<1> QED
  BY <1>2, <1>3 DEF ReadRecentPacket

\* A packet that is applied preserves the invariant.
LEMMA ReadRecentSync ==
    ASSUME SyncInv, NEW p \in Slots, NEW m \in net, pc[p] = "receiving", m.slot # p,
           m.current >= confirmed[p][m.slot], ReadRecentPacket(p, m),
           UNCHANGED <<world, backups, pc>>
    PROVE  SyncInv'
<1> USE DEF Others
<1> DEFINE t == m.slot
<1>1. IInv /\ m.slot # p /\ m.current >= confirmed[p][t] /\ UNCHANGED <<world, backups, pc>>
  BY DEF SyncInv
<1>2. IInv'
  BY <1>1, ReadRecentInv
<1>3. /\ start' = start /\ net' \subseteq net
      /\ \A q, s \in Slots :
            /\ ending'[q][s] >= ending[q][s] /\ confirmed'[q][s] >= confirmed[q][s]
            /\ q # p \/ s # t => /\ controls'[q][s] = controls[q][s]
                                 /\ ending'[q][s] = ending[q][s]
                                 /\ confirmed'[q][s] = confirmed[q][s]
      /\ confirmed'[p][t] = m.current /\ ending'[p][t] > m.current
      /\ controls'[p][t] = Corrected(p, m)
  BY <1>1, ReadRecentFacts
<1>4. /\ t \in Slots /\ m.current \in Nat /\ m.first \in Nat /\ m.first <= confirmed[p][t]
      /\ m.current < ending[t][t]
  <2>1. t \in Slots /\ m.current \in Nat /\ m.first \in Nat
    BY <1>1 DEF IInv, TypeOK, PacketOK
  <2> QED
    BY <1>1, <2>1 DEF IInv, PacketsConnect, PacketsTrue
<1>5. /\ FirstNew(p, m) = confirmed[p][t]
      /\ \A i \in start[p]..m.current :
            Corrected(p, m)[i] = IF i >= confirmed[p][t] THEN m.frames[i] ELSE controls[p][t][i]
      /\ \A i \in (m.current + 1)..(ending'[p][t] - 1) : Corrected(p, m)[i] = m.frames[m.current]
  <2>1. FirstNew(p, m) >= start[p] /\ ending' = [ending EXCEPT ![p][t] = Larger(@, m.current + 1)]
    BY DEF ReadRecentPacket
  <2>2. ending'[p][t] = Larger(ending[p][t], m.current + 1)
    BY <1>1, <1>4, <2>1 DEF IInv, TypeOK
  <2> QED
    BY <1>1, <2>1, <2>2, CorrectedFacts
<1>6. ASSUME NEW q \in Slots, NEW s \in Slots
      PROVE  /\ start[q] \in Nat /\ ending[q][s] \in Nat /\ ending'[q][s] \in Nat
             /\ confirmed[q][s] \in Nat /\ confirmed'[q][s] \in Nat
             /\ Cycle(q) \in Nat /\ Delay \in Nat /\ MaxLag \in Nat /\ Cycle(q) <= ending[q][q]
             /\ ending[q][q] <= ending[q][s]
             /\ s # q => start[q] <= confirmed[q][s]
             /\ s # q /\ confirmed[q][s] > 0 => confirmed[q][s] < ending[q][s]
  <2>1. ending'[q][s] \in Nat /\ confirmed'[q][s] \in Nat
    BY <1>2 DEF IInv, TypeOK
  <2>2. s # q => start[q] <= confirmed[q][s]
    BY DEF ConfirmedRecent, SyncInv
  <2> QED
    BY <1>1, <2>1, <2>2, Types, SMTT(30)
<1>7. \A s \in Slots : /\ controls'[s][s] = controls[s][s] /\ ending'[s][s] = ending[s][s]
                       /\ \A i \in Int : Pressed(s, i)' = Pressed(s, i)
  BY <1>1, <1>3 DEF Pressed, Cycle
<1>8. /\ \A i \in Corrections(p, m) : firstInvalid'[p] # -1 /\ firstInvalid'[p] <= i
      /\ firstInvalid[p] # -1 => firstInvalid'[p] # -1 /\ firstInvalid'[p] <= firstInvalid[p]
      /\ firstInvalid'[p] = firstInvalid[p] \/ firstInvalid'[p] \in Corrections(p, m)
      /\ \A q \in Slots \ {p} : firstInvalid'[q] = firstInvalid[q]
  BY <1>1, CorrectionsFacts
<1>9. \A i \in Corrections(p, m) :
         /\ i \in confirmed[p][t]..m.current /\ i < ending[p][t]
         /\ controls[p][t][i] # m.frames[i]
  BY <1>5 DEF Corrections
<1>10. firstInvalid[p] \in Nat \cup {-1} /\ firstInvalid'[p] \in Nat \cup {-1}
  BY <1>1, <1>2 DEF IInv, TypeOK
<1> HIDE DEF t
<1>11. HistoryLong' /\ Snapshots'
  BY <1>1, <1>3, <1>7 DEF HistoryLong, Snapshots, SyncInv
<1>12. ConfirmedRecent'
  <2> SUFFICES ASSUME NEW q \in Slots, NEW s \in Slots \ {q}
               PROVE  /\ start'[q] <= confirmed'[q][s]
                      /\ pc'[q] = "receiving" => ending'[q][q] - 1 - confirmed'[q][s] <= MaxLag
    BY DEF ConfirmedRecent
  <2>1. /\ start[q] <= confirmed[q][s]
        /\ pc[q] = "receiving" => ending[q][q] - 1 - confirmed[q][s] <= MaxLag
    BY DEF ConfirmedRecent, SyncInv
  <2> QED
    BY <1>1, <1>3, <1>6, <1>7, <2>1
<1>13. InvalidRecent'
  <2> SUFFICES ASSUME NEW q \in Slots, firstInvalid'[q] # -1, firstInvalid'[q] # firstInvalid[q]
               PROVE  \/ firstInvalid'[q] >= ending'[q][q] - MaxLag
                      \/ start'[q] = 0 /\ firstInvalid'[q] >= ending'[q][q] - 1 - MaxLag
    BY <1>3, <1>7 DEF InvalidRecent, SyncInv
  <2>1. q = p /\ firstInvalid'[p] \in Corrections(p, m)
    BY <1>8
  <2>2. /\ ending[p][p] - 1 - confirmed[p][t] <= MaxLag
        /\ start[p] <= confirmed[p][t]
    BY <1>1, <1>4 DEF ConfirmedRecent, SyncInv, t
  <2>3. CASE confirmed[p][t] = 0
    BY <1>3, <1>4, <1>6, <1>7, <1>9, <2>1, <2>2, <2>3
  <2>4. CASE confirmed[p][t] > 0
    <3>1. controls[p][t][confirmed[p][t]] = m.frames[confirmed[p][t]]
      <4>1. /\ confirmed[p][t] \in start[p]..(ending[p][t] - 1)
            /\ confirmed[p][t] \in m.first..m.current
        BY <1>1, <1>4, <1>6, <2>2, <2>4 DEF t
      <4>2. controls[p][t][confirmed[p][t]] = Pressed(t, confirmed[p][t])
        BY <1>4, <1>6, <2>4, <4>1 DEF RecordsPressed, SyncInv
      <4>3. m.frames[confirmed[p][t]] = Pressed(t, confirmed[p][t])
        BY <4>1 DEF PacketsPressed, SyncInv, t
      <4> QED
        BY <4>2, <4>3
    <3>2. firstInvalid'[p] # confirmed[p][t]
      BY <1>9, <2>1, <3>1
    <3> QED
      BY <1>4, <1>6, <1>7, <1>9, <2>1, <2>2, <3>2
  <2> QED
    BY <1>4, <1>6, <2>3, <2>4
<1>14. PredictionsConstant'
  <2> SUFFICES ASSUME NEW q \in Slots, NEW s \in Slots \ {q},
                      NEW i \in start'[q]..(ending'[q][s] - 1), NEW j \in start'[q]..(ending'[q][s] - 1),
                      i >= confirmed'[q][s], j >= confirmed'[q][s]
               PROVE  controls'[q][s][i] = controls'[q][s][j]
    BY DEF PredictionsConstant
  <2>1. CASE ~(q = p /\ s = t)
    BY <1>3, <2>1 DEF PredictionsConstant, SyncInv
  <2>2. CASE q = p /\ s = t
    <3> SUFFICES ASSUME NEW k \in start[p]..(ending'[p][t] - 1), k >= m.current
                 PROVE  Corrected(p, m)[k] = m.frames[m.current]
      BY <1>3, <2>2
    <3>1. CASE k > m.current
      BY <1>4, <1>5, <1>6, <3>1
    <3>2. CASE k = m.current
      <4>1. m.current \in start[p]..m.current /\ m.current >= confirmed[p][t]
        BY <1>1, <1>4, <1>6, <3>2 DEF t
      <4> QED
        BY <1>5, <3>2, <4>1
    <3> QED
      BY <1>4, <1>6, <3>1, <3>2
  <2> QED
    BY <2>1, <2>2
<1>15. WrongCyclesAreInvalid'
  <2> SUFFICES ASSUME NEW q \in Slots, NEW g \in 1..Cycle(q), g - 1 - Delay >= start[q],
                      world[q][g] # Inputs(q, g)'
               PROVE  firstInvalid'[q] >= 0 /\ g > firstInvalid'[q]
    BY <1>1, <1>3 DEF WrongCyclesAreInvalid, Cycle
  <2>1. CASE q # p
    <3>1. Inputs(q, g)' = Inputs(q, g)
      BY <1>3, <2>1 DEF Inputs, GameInput
    <3> QED
      BY <1>8, <2>1, <3>1 DEF WrongCyclesAreInvalid, SyncInv
  <2>2. CASE q = p /\ world[p][g] # Inputs(p, g)
    <3>1. firstInvalid[p] >= 0 /\ g > firstInvalid[p]
      BY <2>2 DEF WrongCyclesAreInvalid, SyncInv
    <3> QED
      BY <1>6, <1>8, <1>10, <2>2, <3>1
  <2>3. CASE q = p /\ world[p][g] = Inputs(p, g)
    <3> DEFINE i == g - 1 - Delay
    <3>1. i \in start[p]..(ending[p][t] - 1) /\ i < g
      BY <1>4, <1>6, <2>3
    <3>2. \E c \in Corrections(p, m) : c <= i
      <4>1. \E s \in Slots : GameInput(p, s, g)' # GameInput(p, s, g)
        BY <2>3 DEF Inputs
      <4>2. controls'[p][t][i] # controls[p][t][i]
        BY <1>3, <1>6, <4>1 DEF GameInput
      <4>3. CASE i <= m.current
        <5>1. i \in start[p]..m.current
          BY <1>4, <1>6, <3>1, <4>3
        <5>2. i >= confirmed[p][t] /\ controls[p][t][i] # m.frames[i]
          BY <1>3, <1>4, <1>5, <1>6, <4>2, <5>1
        <5>3. i \in confirmed[p][t]..m.current /\ i < ending[p][t]
          BY <1>4, <1>6, <3>1, <4>3, <5>2
        <5> QED
          BY <1>5, <3>1, <5>2, <5>3 DEF Corrections, t
      <4>4. CASE i > m.current
        <5>1. Corrected(p, m)[i] = m.frames[m.current]
          <6>1. i \in (m.current + 1)..(ending'[p][t] - 1)
            BY <1>3, <1>4, <1>6, <3>1, <4>4
          <6> QED
            BY <1>5, <6>1
        <5>2. controls[p][t][i] = controls[p][t][m.current]
          <6>1. /\ m.current \in start[p]..(ending[p][t] - 1) /\ m.current >= confirmed[p][t]
                /\ i >= confirmed[p][t] /\ t # p
            BY <1>1, <1>4, <1>6, <3>1, <4>4 DEF t
          <6> QED
            BY <1>4, <3>1, <6>1 DEF PredictionsConstant, SyncInv
        <5>3. controls[p][t][m.current] # m.frames[m.current]
          BY <1>3, <4>2, <5>1, <5>2
        <5>4. /\ m.current \in confirmed[p][t]..m.current /\ m.current < ending[p][t]
              /\ m.current <= i
          BY <1>1, <1>4, <1>6, <3>1, <4>4 DEF t
        <5> QED
          BY <1>5, <5>3, <5>4 DEF Corrections, t
      <4> QED
        BY <1>4, <1>6, <3>1, <4>3, <4>4
    <3> HIDE DEF i
    <3> QED
      BY <1>4, <1>6, <1>8, <1>9, <1>10, <2>3, <3>1, <3>2
  <2> QED
    BY <2>1, <2>2, <2>3
<1>16. RecordsPressed'
  <2> SUFFICES ASSUME NEW q \in Slots, NEW s \in Slots, NEW i \in start[q]..(ending'[q][s] - 1),
                      s = q \/ (confirmed'[q][s] > 0 /\ i <= confirmed'[q][s])
               PROVE  controls'[q][s][i] = Pressed(s, i)
    BY <1>3, <1>6, <1>7 DEF RecordsPressed
  <2>1. CASE ~(q = p /\ s = t)
    BY <1>3, <2>1 DEF RecordsPressed, SyncInv
  <2>2. CASE q = p /\ s = t
    <3>1. i \in start[p]..m.current /\ t # p
      BY <1>1, <1>3, <1>4, <1>6, <2>2 DEF t
    <3>2. controls'[p][t][i] = IF i >= confirmed[p][t] THEN m.frames[i] ELSE controls[p][t][i]
      BY <1>3, <1>5, <3>1
    <3>3. CASE i >= confirmed[p][t]
      <4>1. i \in m.first..m.current
        BY <1>4, <1>6, <3>1, <3>3
      <4> QED
        BY <2>2, <3>2, <3>3, <4>1 DEF PacketsPressed, SyncInv, t
    <3>4. CASE ~(i >= confirmed[p][t])
      <4>1. i \in start[p]..(ending[p][t] - 1) /\ confirmed[p][t] > 0 /\ i <= confirmed[p][t]
        BY <1>4, <1>6, <3>1, <3>4
      <4> QED
        BY <1>4, <2>2, <3>2, <3>4, <4>1 DEF RecordsPressed, SyncInv
    <3> QED
      BY <3>3, <3>4
  <2> QED
    BY <2>1, <2>2
<1>17. PacketsPressed'
  <2> SUFFICES ASSUME NEW n \in net, NEW i \in n.first..n.current
               PROVE  n.frames[i] = Pressed(n.slot, i)'
    BY <1>3 DEF PacketsPressed
  <2>1. n.slot \in Slots /\ i \in Int
    BY <1>1 DEF IInv, TypeOK, PacketOK
  <2> QED
    BY <1>7, <2>1 DEF PacketsPressed, SyncInv
<1>18. ErasedPressed'
  <2> SUFFICES ASSUME NEW q \in Slots, NEW s \in Slots, NEW g \in 1..Cycle(q),
                      g - 1 - Delay < start[q]
               PROVE  world[q][g][s] = Pressed(s, g - 1 - Delay)'
    BY <1>1, <1>3 DEF ErasedPressed, Cycle
  <2>1. g - 1 - Delay \in Int
    BY <1>6
  <2> QED
    BY <1>7, <2>1 DEF ErasedPressed, SyncInv
<1> QED
  BY <1>2, <1>11, <1>12, <1>13, <1>14, <1>15, <1>16, <1>17, <1>18 DEF SyncInv

\* A packet that goes back too far changes nothing that the invariant is about.
LEMMA ReadAncientSync ==
    ASSUME SyncInv, NEW p \in Slots, NEW m \in net, m.slot # p, ReadAncientPacket(p, m),
           UNCHANGED <<world, backups, pc>>
    PROVE  SyncInv'
<1>1. IInv'
  BY ReadAncientInv DEF SyncInv
<1>2. UNCHANGED <<controls, start, ending, confirmed, firstInvalid, net, world, backups, pc>>
  BY DEF ReadAncientPacket
<1>3. /\ HistoryLong' /\ Snapshots' /\ ConfirmedRecent' /\ InvalidRecent'
      /\ PredictionsConstant' /\ WrongCyclesAreInvalid'
  BY <1>2
     DEF SyncInv, HistoryLong, Snapshots, ConfirmedRecent, InvalidRecent, PredictionsConstant,
         WrongCyclesAreInvalid, Cycle, Inputs, GameInput
<1>4. RecordsPressed' /\ PacketsPressed' /\ ErasedPressed'
  BY <1>2 DEF SyncInv, RecordsPressed, PacketsPressed, ErasedPressed, Pressed, Cycle
<1> QED
  BY <1>1, <1>3, <1>4 DEF SyncInv

\* The simulation of a cycle preserves the invariant: what the player pressed goes
\* from its record into its game.
LEMMA DoProcessingSync ==
    ASSUME SyncInv, NEW p \in Slots, DoProcessing(p)
    PROVE  SyncInv'
<1> DEFINE c == Cycle(p)
<1>1. IInv /\ IInv'
  BY DoProcessingInv DEF SyncInv
<1>2. /\ pc[p] = "receiving" /\ pc' = [pc EXCEPT ![p] = "idle"]
      /\ world' = [world EXCEPT ![p] = Append(world[p], Inputs(p, c + 1))]
      /\ UNCHANGED <<controls, start, ending, confirmed, remoteConfirmed, firstInvalid, backups, net>>
  BY DEF DoProcessing, recordVars
<1>3. /\ c \in Nat /\ ending[p][p] = c + 1 /\ start[p] \in Nat /\ Delay \in Nat
      /\ world \in [Slots -> Seq([Slots -> Frames])] /\ world[p] \in Seq([Slots -> Frames])
      /\ \A q \in Slots : Cycle(q) \in Nat /\ start[q] \in Nat
      /\ pc \in [Slots -> {"idle", "receiving"}]
      /\ \A s \in Slots : ending[p][s] \in Nat
  <2>1. world \in [Slots -> Seq([Slots -> Frames])] /\ pc \in [Slots -> {"idle", "receiving"}]
    BY <1>1 DEF IInv, TypeOK
  <2> QED
    BY <1>1, <1>2, <2>1, Types
<1>4. /\ Cycle(p)' = c + 1 /\ \A g \in 1..c : world'[p][g] = world[p][g]
      /\ world'[p][c + 1] = Inputs(p, c + 1)
      /\ \A q \in Slots \ {p} : world'[q] = world[q] /\ Cycle(q)' = Cycle(q)
  BY <1>2, <1>3 DEF Cycle
<1>5. \A q \in Slots : \A g : Inputs(q, g)' = Inputs(q, g)
  BY <1>2 DEF Inputs, GameInput
<1>6. \A i \in Nat : i >= c - Delay => i >= start[p]
  <2>1. start[p] = 0 \/ ending[p][p] - start[p] > Delay
    BY DEF SyncInv, HistoryLong
  <2> HIDE DEF c
  <2> QED
    BY <1>3, <2>1
<1> HIDE DEF c
<1>7. ASSUME NEW s \in Slots, NEW i \in Int PROVE Pressed(s, i)' = Pressed(s, i)
  <2>1. CASE s # p
    BY <1>2, <1>4, <2>1 DEF Pressed
  <2>2. CASE s = p /\ i >= 0 /\ i + 1 + Delay <= c
    <3>1. i + 1 + Delay \in 1..c /\ i + 1 + Delay <= Cycle(p)' /\ i + 1 + Delay <= Cycle(p)
      BY <1>3, <1>4, <2>2 DEF c
    <3> QED
      BY <1>3, <1>4, <2>2, <3>1 DEF Pressed
  <2>3. CASE s = p /\ i >= 0 /\ i + 1 + Delay = c + 1
    <3>1. Pressed(p, i)' = Inputs(p, c + 1)[p] /\ Pressed(p, i) = controls[p][p][i]
      BY <1>3, <1>4, <2>3 DEF Pressed, c
    <3>2. c + 1 - 1 - Delay = i /\ i >= start[p]
      BY <1>3, <1>6, <2>3
    <3>3. ~(c + 1 - 1 - Delay < start[p])
      BY <1>3, <3>2
    <3>4. Inputs(p, c + 1)[p] = controls[p][p][i]
      <4>1. Inputs(p, c + 1)[p] = GameInput(p, p, c + 1)
        BY DEF Inputs
      <4>2. GameInput(p, p, c + 1) = controls[p][p][c + 1 - 1 - Delay]
        BY <1>3, <3>2, <3>3 DEF GameInput
      <4> QED
        BY <3>2, <4>1, <4>2
    <3> QED
      BY <2>3, <3>1, <3>4
  <2>4. CASE s = p /\ i >= 0 /\ i + 1 + Delay > c + 1
    BY <1>2, <1>3, <1>4, <2>4 DEF Pressed, c
  <2>5. CASE s = p /\ i < 0
    BY <2>5 DEF Pressed
  <2>6. \/ i < 0 \/ i + 1 + Delay <= c \/ i + 1 + Delay = c + 1 \/ i + 1 + Delay > c + 1
    BY <1>3
  <2>7. i < 0 \/ i >= 0
    OBVIOUS
  <2> QED
    BY <2>1, <2>2, <2>3, <2>4, <2>5, <2>6, <2>7, Zenon
<1>8. HistoryLong' /\ InvalidRecent' /\ PredictionsConstant'
  BY <1>2 DEF SyncInv, HistoryLong, InvalidRecent, PredictionsConstant
<1>9. ConfirmedRecent'
  <2>1. \A q \in Slots : pc'[q] = "receiving" => pc[q] = "receiving"
    BY <1>2, <1>3
  <2> QED
    BY <1>2, <2>1 DEF SyncInv, ConfirmedRecent
<1>10. Snapshots'
  <2> SUFFICES ASSUME NEW q \in Slots PROVE SnapshotsOf(backups[q], world'[q], ending[q][q])
    BY <1>2 DEF Snapshots
  <2>1. SnapshotsOf(backups[q], world[q], ending[q][q])
    BY DEF SyncInv, Snapshots
  <2>2. CASE q # p
    BY <1>4, <2>1, <2>2
  <2>3. CASE q = p
    <3> DEFINE n == Len(backups[p])
    <3>1. n \in Nat
      BY <1>1, Types
    <3>2. ASSUME NEW i \in 1..n, NEW g \in 1..Len(backups[p][i])
          PROVE  backups[p][i][g] = world'[p][g]
      <4>1. /\ Len(backups[p][i]) = (c + 1) - n + i - 1
            /\ backups[p][i][g] = world[p][g]
        BY <1>3, <2>1, <2>3 DEF SnapshotsOf
      <4>2. g \in 1..c
        <5> HIDE DEF n
        <5> QED
          BY <1>3, <3>1, <4>1
      <4> QED
        BY <1>4, <4>1, <4>2
    <3> QED
      BY <2>1, <2>3, <3>2 DEF SnapshotsOf
  <2> QED
    BY <2>2, <2>3
<1>11. WrongCyclesAreInvalid'
  <2> SUFFICES ASSUME NEW q \in Slots, NEW g \in 1..Cycle(q)', g - 1 - Delay >= start[q],
                      world'[q][g] # Inputs(q, g)
               PROVE  firstInvalid[q] >= 0 /\ g > firstInvalid[q]
    BY <1>2, <1>5 DEF WrongCyclesAreInvalid
  <2>1. g \in 1..Cycle(q) /\ world'[q][g] = world[q][g]
    <3>1. CASE q = p
      <4>1. g \in 1..(c + 1) /\ g # c + 1
        BY <1>4, <3>1
      <4>2. g \in 1..c
        BY <1>3, <4>1
      <4> QED
        BY <1>4, <3>1, <4>2 DEF c
    <3>2. CASE q # p
      BY <1>4, <3>2
    <3> QED
      BY <3>1, <3>2
  <2> QED
    BY <2>1 DEF SyncInv, WrongCyclesAreInvalid
<1>12. RecordsPressed'
  <2> SUFFICES ASSUME NEW q \in Slots, NEW s \in Slots, NEW i \in start[q]..(ending[q][s] - 1),
                      s = q \/ (confirmed[q][s] > 0 /\ i <= confirmed[q][s])
               PROVE  controls[q][s][i] = Pressed(s, i)'
    BY <1>2 DEF RecordsPressed
  <2>1. i \in Int
    OBVIOUS
  <2> QED
    BY <1>7, <2>1 DEF SyncInv, RecordsPressed
<1>13. PacketsPressed'
  <2> SUFFICES ASSUME NEW m \in net, NEW i \in m.first..m.current
               PROVE  m.frames[i] = Pressed(m.slot, i)'
    BY <1>2 DEF PacketsPressed
  <2>1. m.slot \in Slots /\ i \in Int
    BY <1>1 DEF IInv, TypeOK, PacketOK
  <2> QED
    BY <1>7, <2>1 DEF SyncInv, PacketsPressed
<1>14. ErasedPressed'
  <2> SUFFICES ASSUME NEW q \in Slots, NEW s \in Slots, NEW g \in 1..Cycle(q)',
                      g - 1 - Delay < start[q]
               PROVE  world'[q][g][s] = Pressed(s, g - 1 - Delay)'
    BY <1>2 DEF ErasedPressed
  <2>1. g - 1 - Delay \in Int
    BY <1>3
  <2>2. CASE g \in 1..Cycle(q)
    <3>1. world'[q][g] = world[q][g]
      BY <1>4, <2>2 DEF c
    <3> QED
      BY <1>7, <2>1, <2>2, <3>1 DEF SyncInv, ErasedPressed
  <2>3. CASE g \notin 1..Cycle(q)
    <3>1. q = p /\ g = c + 1
      BY <1>3, <1>4, <2>3 DEF c
    <3>2. g - 1 - Delay < 0
      BY <1>3, <1>6, <2>1, <3>1
    <3>3. Inputs(p, g)[s] = NoKeys
      BY <3>1 DEF Inputs, GameInput
    <3>4. Pressed(s, g - 1 - Delay)' = NoKeys
      BY <3>2 DEF Pressed
    <3> QED
      BY <1>4, <3>1, <3>3, <3>4
  <2> QED
    BY <2>2, <2>3
<1> QED
  BY <1>1, <1>8, <1>9, <1>10, <1>11, <1>12, <1>13, <1>14 DEF SyncInv

\* Every step, and a step that changes nothing, preserves the invariant.
LEMMA NextSync == SyncInv /\ [Next]_vars => SyncInv'
<1> SUFFICES ASSUME SyncInv, [Next]_vars PROVE SyncInv'
  OBVIOUS
<1>1. ASSUME NEW p \in Slots, NEW keys \in Pressable[p], PlayCycle(p, keys) PROVE SyncInv'
  BY <1>1, PlayCycleSync
<1>2. ASSUME NEW p \in Slots, NEW m \in net, Receive(p, m) PROVE SyncInv'
  <2>1. /\ pc[p] = "receiving" /\ m.slot # p /\ m.current >= confirmed[p][m.slot]
        /\ UNCHANGED <<world, backups, pc>>
    BY <1>2 DEF Receive
  <2>2. CASE ReadAncientPacket(p, m)
    BY <2>1, <2>2, ReadAncientSync
  <2>3. CASE ReadRecentPacket(p, m)
    BY <2>1, <2>3, ReadRecentSync
  <2> QED
    BY <1>2, <2>2, <2>3 DEF Receive
<1>3. ASSUME NEW p \in Slots, DoProcessing(p) PROVE SyncInv'
  BY <1>3, DoProcessingSync
<1>4. CASE UNCHANGED vars
  <2>1. IInv'
    BY <1>4, NextInv DEF SyncInv
  <2>2. UNCHANGED <<controls, start, ending, confirmed, firstInvalid, net, world, backups, pc>>
    BY <1>4 DEF vars, recordVars, gameVars
  <2>3. /\ HistoryLong' /\ Snapshots' /\ ConfirmedRecent' /\ InvalidRecent'
        /\ PredictionsConstant' /\ WrongCyclesAreInvalid'
    BY <2>2
       DEF SyncInv, HistoryLong, Snapshots, ConfirmedRecent, InvalidRecent, PredictionsConstant,
           WrongCyclesAreInvalid, Cycle, Inputs, GameInput
  <2>4. RecordsPressed' /\ PacketsPressed' /\ ErasedPressed'
    BY <2>2 DEF SyncInv, RecordsPressed, PacketsPressed, ErasedPressed, Pressed, Cycle
  <2> QED
    BY <2>1, <2>3, <2>4 DEF SyncInv
<1> QED
  BY <1>1, <1>2, <1>3, <1>4 DEF Next

-----------------------------------------------------------------------------
(* The players stay in sync: the theorems.                                 *)

\* The strengthening of the properties below is invariant.
THEOREM SyncInvariance == Spec => []SyncInv
<1>1. Init => SyncInv
  BY InitSync
<1>2. SyncInv /\ [Next]_vars => SyncInv'
  BY NextSync
<1> QED
  BY <1>1, <1>2, PTL DEF Spec

\* No packet contradicts a prediction without the cycles that used it being computed
\* again: read_control_packet always moves first_invalid_cycle_var back far enough.
THEOREM WrongCyclesInvalid == Spec => []WrongCyclesAreInvalid
<1>1. SyncInv => WrongCyclesAreInvalid
  BY DEF SyncInv
<1> QED
  BY <1>1, SyncInvariance, PTL

\* What a player takes for confirmed is what the other player's game was driven by,
\* its own rollbacks and its erased frames included.
THEOREM ConfirmedPlayed == Spec => []ConfirmedFramesPlayed
<1>1. SyncInv => ConfirmedFramesPlayed
  <2> SUFFICES ASSUME SyncInv, NEW p \in Slots, NEW s \in Others(p), confirmed[p][s] > 0,
                      NEW i \in start[p]..confirmed[p][s], i + 1 + Delay <= Cycle(s)
               PROVE  controls[p][s][i] = world[s][i + 1 + Delay][s]
    BY DEF ConfirmedFramesPlayed
  <2>1. /\ start[p] \in Nat /\ confirmed[p][s] \in Nat /\ ending[p][s] \in Nat
        /\ confirmed[p][s] < ending[p][s]
    BY Types DEF SyncInv, Others
  <2>2. i \in start[p]..(ending[p][s] - 1) /\ ~(i < 0) /\ i <= confirmed[p][s]
    BY <2>1
  <2>3. controls[p][s][i] = Pressed(s, i)
    BY <2>2 DEF SyncInv, RecordsPressed, Others
  <2> QED
    BY <2>2, <2>3 DEF Pressed
<1> QED
  BY <1>1, SyncInvariance, PTL

\* A rollback finds the snapshot it needs: neither assertion of replay_from_cycle
\* can fail while the lag is bounded.
THEOREM SnapshotFound == Spec => []ReplayFindsSnapshot
<1>1. SyncInv => ReplayFindsSnapshot
  <2> SUFFICES ASSUME SyncInv, NEW p \in Slots, pc[p] = "idle", NeedsReplay(p)
               PROVE  /\ ReplayIndex(p) >= 0
                      /\ Len(backups[p][ReplayIndex(p) + 1]) = firstInvalid[p]
    BY DEF ReplayFindsSnapshot
  <2> DEFINE c == Cycle(p)
             n == Len(backups[p])
             fi == firstInvalid[p]
             k == ReplayIndex(p)
  <2>1. /\ c \in Nat /\ n \in Nat /\ fi \in Nat /\ c > fi /\ c = ending[p][p] /\ MaxLag \in Nat
        /\ MaxBackups \in Nat
    BY Types DEF SyncInv, NeedsReplay
  <2>2. /\ n = IF c < MaxBackups THEN c ELSE MaxBackups
        /\ \A i \in 1..n : Len(backups[p][i]) = c - n + i - 1
    BY <2>1 DEF SyncInv, Snapshots, SnapshotsOf
  <2>3. fi >= c - MaxLag \/ fi >= c - 1 - MaxLag
    BY <2>1 DEF SyncInv, InvalidRecent
  <2>4. k = n - (c - fi)
    BY DEF ReplayIndex
  <2> HIDE DEF c, n, fi, k
  <2>5. n = c \/ (n = MaxBackups /\ MaxBackups <= c)
    BY <2>1, <2>2
  <2>6. MaxLag < MaxBackups
    BY ReplayAssumption
  <2>7. k >= 0 /\ k + 1 \in 1..n /\ c - n + (k + 1) - 1 = fi
    BY <2>1, <2>3, <2>4, <2>5, <2>6
  <2> QED
    BY <2>2, <2>7 DEF n, fi, k
<1> QED
  BY <1>1, SyncInvariance, PTL

\* The players never lose sync: two games agree on every cycle that is settled for
\* both, for any number of players and any delay, loss, duplication and reordering
\* that leaves the lag bounded.
THEOREM InSync == Spec => []NoDesync
<1>1. ASSUME SyncInv, NEW p \in Slots, NEW g \in 1..Cycle(p), Settled(p, g)
      PROVE  world[p][g] = [s \in Slots |-> Pressed(s, g - 1 - Delay)]
  <2> DEFINE i == g - 1 - Delay
  <2>0. /\ start[p] \in Nat /\ Cycle(p) \in Nat /\ Delay \in Nat /\ firstInvalid[p] \in Nat \cup {-1}
        /\ world[p] \in Seq([Slots -> Frames])
        /\ ending[p][p] = IF pc[p] = "idle" THEN Cycle(p) ELSE Cycle(p) + 1
        /\ \A s \in Slots : ending[p][s] \in Nat /\ ending[p][p] <= ending[p][s]
    BY <1>1, Types DEF SyncInv
  <2>1. /\ start[p] \in Nat /\ Cycle(p) \in Nat /\ Delay \in Nat /\ firstInvalid[p] \in Nat \cup {-1}
        /\ world[p] \in Seq([Slots -> Frames])
        /\ \A s \in Slots : ending[p][s] \in Nat /\ Cycle(p) <= ending[p][s]
        /\ i < Cycle(p) /\ i \in Int
    BY <2>0
  <2>2. world[p][g] \in [Slots -> Frames]
    BY <2>1 DEF Cycle
  <2>3. ASSUME NEW s \in Slots PROVE world[p][g][s] = Pressed(s, i)
    <3>1. CASE i < start[p]
      BY <1>1, <3>1 DEF SyncInv, ErasedPressed
    <3>2. CASE ~(i < start[p])
      <4>1. world[p][g] = Inputs(p, g)
        BY <1>1, <2>1, <3>2 DEF SyncInv, WrongCyclesAreInvalid, Settled
      <4>2. Inputs(p, g)[s] = controls[p][s][i]
        BY <3>2 DEF Inputs, GameInput
      <4>3. /\ i \in start[p]..(ending[p][s] - 1)
            /\ s = p \/ (confirmed[p][s] > 0 /\ i <= confirmed[p][s])
        BY <1>1, <2>1, <3>2, SMTT(30) DEF Settled, Others
      <4>4. controls[p][s][i] = Pressed(s, i)
        BY <1>1, <4>3 DEF SyncInv, RecordsPressed
      <4> QED
        BY <4>1, <4>2, <4>4
    <3> QED
      BY <3>1, <3>2
  <2> HIDE DEF i
  <2>4. world[p][g] = [s \in Slots |-> world[p][g][s]]
    BY <2>2
  <2> QED
    BY <2>3, <2>4 DEF i
<1>2. SyncInv => NoDesync
  <2> SUFFICES ASSUME SyncInv, NEW p \in Slots, NEW q \in Slots, NEW g \in 1..Cycle(p),
                      Settled(p, g), Settled(q, g)
               PROVE  world[p][g] = world[q][g]
    BY DEF NoDesync
  <2>1. g \in 1..Cycle(q)
    BY DEF Settled
  <2> QED
    BY <1>1, <2>1
<1> QED
  BY <1>2, SyncInvariance, PTL
=============================================================================
