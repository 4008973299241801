------------------------------ MODULE Netplay ------------------------------
(***************************************************************************)
(* Lockstep play with prediction and rollback: controls.cpp, the part of   *)
(* multiplayer.cpp that sends and receives control packets, the part of    *)
(* level.cpp that snapshots and replays cycles, and the game loop of       *)
(* level_runner.cpp that drives them.                                      *)
(*                                                                         *)
(* Every player runs the whole game.  Each cycle it records its own        *)
(* control frame, predicts that the others did what they last did, sends   *)
(* its unacknowledged frames over UDP, applies the packets that arrived,   *)
(* and simulates one cycle.  A packet that contradicts a prediction marks  *)
(* the first invalid cycle; the next turn of the loop restores the         *)
(* snapshot of that cycle and simulates forward again.                     *)
(*                                                                         *)
(* The vector controls[s] whose element 0 is cycle starting_cycles is a    *)
(* function on the cycles start[p] .. ending[p][s] - 1.  The game is       *)
(* deterministic in its inputs, so a game state is the sequence of inputs  *)
(* it was computed from.                                                   *)
(***************************************************************************)
EXTENDS Integers, Sequences

CONSTANTS
    NPlayers,    \* nplayers
    Frames,      \* what one control frame can hold (keys and user output)
    NoKeys,      \* ControlFrame(): nothing pressed
    Pressable,   \* the frames each player may press: a function on slots
    Delay,       \* set_delay: cycles between a key press and its effect
    MaxHistory,  \* g_max_control_history
    MaxBackups,  \* the number of snapshots Level::backup keeps
    MaxLag,      \* bound: how far a player runs ahead of the slowest link
    MaxCycle     \* bound: the cycles that are played

Slots == 0..(NPlayers - 1)
Others(p) == Slots \ {p}

ASSUME NetplayAssumption ==
    /\ NPlayers \in Nat \ {0, 1}
    /\ NoKeys \in Frames
    /\ Pressable \in [Slots -> SUBSET Frames]
    /\ Delay \in Nat
    /\ MaxHistory \in Nat \ {0, 1}
    /\ MaxBackups \in Nat \ {0}
    /\ MaxLag \in Nat
    /\ MaxCycle \in Nat

VARIABLES
    controls,   \* controls[p][s]: p's record of the frames of player s
    start,      \* starting_cycles
    ending,     \* ending[p][s]: starting_cycles + controls[s].size()
    confirmed,  \* highest_confirmed[s]
    remoteConfirmed,  \* remote_highest_confirmed[s]
    firstInvalid,     \* first_invalid_cycle_var, -1 when nothing is invalid
    world,      \* the game state: the inputs of every cycle simulated so far
    backups,    \* backups_: the snapshots, oldest first
    pc,         \* "idle" between two turns, "receiving" inside Level::process
    net         \* the control packets UDP may still deliver

recordVars == <<controls, start, ending, confirmed, remoteConfirmed>>
gameVars == <<firstInvalid, world, backups>>
vars == <<recordVars, gameVars, pc, net>>

Lowest(S) == {x \in S : \A y \in S : x =< y}
Larger(a, b) == IF a < b THEN b ELSE a

Cycle(p) == Len(world[p])

Init ==
    /\ controls = [p \in Slots |-> [s \in Slots |-> [i \in 0..-1 |-> NoKeys]]]
    /\ start = [p \in Slots |-> 0]
    /\ ending = [p \in Slots |-> [s \in Slots |-> 0]]
    /\ confirmed = [p \in Slots |-> [s \in Slots |-> 0]]
    /\ remoteConfirmed = [p \in Slots |-> [s \in Slots |-> 0]]
    /\ firstInvalid = [p \in Slots |-> -1]
    /\ world = [p \in Slots |-> << >>]
    /\ backups = [p \in Slots |-> << >>]
    /\ pc = [p \in Slots |-> "idle"]
    /\ net = {}

-----------------------------------------------------------------------------
(* Rollback: LevelRunner::play_cycle, Level::replay_from_cycle, backup.    *)

\* The frame that drives player s in game cycle g (get_controlStatus).
GameInput(p, s, g) ==
    IF g - 1 - Delay < start[p] THEN NoKeys ELSE controls[p][s][g - 1 - Delay]

Inputs(p, g) == [s \in Slots |-> GameInput(p, s, g)]

NeedsReplay(p) == firstInvalid[p] >= 0 /\ Cycle(p) > firstInvalid[p]

\* How many snapshots are older than the one to restore.
ReplayIndex(p) == Len(backups[p]) - (Cycle(p) - firstInvalid[p])

\* Mutant of Replayed: the first wrong cycle is kept.
ReplayedTooLate(p) ==
    LET snapshot == backups[p][ReplayIndex(p) + 1] IN
    [g \in 1..Cycle(p) |-> IF g <= Len(snapshot) + 1 + Delay THEN world[p][g] ELSE Inputs(p, g)]

\* The state restored from the snapshot, simulated forward to the present.
Replayed(p) ==
    LET snapshot == backups[p][ReplayIndex(p) + 1] IN
    [g \in 1..Cycle(p) |-> IF g <= Len(snapshot) THEN snapshot[g] ELSE Inputs(p, g)]

\* Mutant of Newest: one snapshot too few is kept.
NewestButOne(s) == IF Len(s) >= MaxBackups THEN Tail(s) ELSE s

\* Only the newest MaxBackups snapshots are kept.
Newest(s) == IF Len(s) > MaxBackups THEN Tail(s) ELSE s

Rollback(p) ==
    /\ IF NeedsReplay(p)
       THEN /\ ReplayIndex(p) >= 0
            /\ world' = [world EXCEPT ![p] = Replayed(p)]
            /\ LET retaken == [i \in 1..(Len(backups[p]) + 1) |->
                                 IF i <= ReplayIndex(p) THEN backups[p][i]
                                 ELSE SubSeq(Replayed(p), 1, Cycle(p) - Len(backups[p]) + i - 1)]
               IN backups' = [backups EXCEPT ![p] = Newest(retaken)]
       ELSE /\ UNCHANGED world
            /\ backups' = [backups EXCEPT ![p] = Newest(Append(@, world[p]))]
    /\ firstInvalid' = [firstInvalid EXCEPT ![p] = -1]

-----------------------------------------------------------------------------
(* Recording the local player and predicting the others.                   *)

\* Player s did nothing else since its last known frame.
Predicted(p, s, i) ==
    IF i < ending[p][s] THEN controls[p][s][i]
    ELSE IF ending[p][s] = start[p] THEN NoKeys
    ELSE controls[p][s][ending[p][s] - 1]

\* read_local_controls: half of the history goes when it is MaxHistory long.
ReadLocalControls(p, keys) ==
    LET end == ending[p][p] + 1
        nerase == IF end - start[p] >= MaxHistory THEN (end - start[p]) \div 2 ELSE 0
        first == start[p] + nerase
        newEnd == [s \in Slots |-> Larger(ending[p][s], end)]
    IN /\ start' = [start EXCEPT ![p] = first]
       /\ ending' = [ending EXCEPT ![p] = newEnd]
       /\ controls' = [controls EXCEPT ![p] =
             [s \in Slots |-> [i \in first..(newEnd[s] - 1) |->
                 IF s = p /\ i = end - 1 THEN keys ELSE Predicted(p, s, i)]]]
       /\ confirmed' = [confirmed EXCEPT ![p][p] = @ + 1]
       /\ UNCHANGED remoteConfirmed

-----------------------------------------------------------------------------
(* Control packets.                                                        *)

\* A packet that every other player has already moved past is discarded
\* wherever it arrives (read_control_packet), so it need not be remembered.
Useful(packets, known) ==
    {m \in packets : \E r \in Others(m.slot) : known[r][m.slot] <= m.current}

\* Mutant of SendControlPacket: the frame they acknowledged is not sent again.
SendAfterAcknowledged(p) ==
    \E theirs \in Lowest({remoteConfirmed[p][s] : s \in Others(p)}),
       ours \in Lowest({confirmed'[p][s] : s \in Slots}) :
       LET current == ending'[p][p] - 1
           first == IF theirs + 1 > current THEN current ELSE Larger(start'[p], theirs + 1)
           packet == [slot |-> p, current |-> current, highest |-> ours, first |-> first,
                      frames |-> [i \in first..current |-> controls'[p][p][i]]]
       IN net' = Useful(net \cup {packet}, confirmed')

\* write_control_packet and the sends of send_and_receive: the frames from the
\* oldest one some player has not acknowledged, if it is still recorded.
SendControlPacket(p) ==
    \E theirs \in Lowest({remoteConfirmed[p][s] : s \in Others(p)}),
       ours \in Lowest({confirmed'[p][s] : s \in Slots}) :
       LET current == ending'[p][p] - 1
           first == Larger(start'[p], theirs)
           packet == [slot |-> p, current |-> current, highest |-> ours, first |-> first,
                      frames |-> [i \in first..current |-> controls'[p][p][i]]]
       IN net' = Useful(net \cup {packet}, confirmed')

\* How far p runs ahead of what it knows of s and s has acknowledged.
Lag(p, s) == Larger(ending[p][p] - confirmed[p][s], ending[p][p] - remoteConfirmed[p][s])

\* One turn of the game loop up to the first packet that is read.
PlayCycle(p, keys) ==
    /\ pc[p] = "idle"
    /\ Cycle(p) < MaxCycle
    /\ \A s \in Others(p) : Lag(p, s) <= MaxLag
    /\ Rollback(p)
    /\ ReadLocalControls(p, keys)
    /\ SendControlPacket(p)
    /\ pc' = [pc EXCEPT ![p] = "receiving"]

-----------------------------------------------------------------------------
(* receive and read_control_packet.                                        *)

\* Mutant of FirstNew: the cycle after the confirmed one.
FirstUnconfirmed(p, m) ==
    LET next == Larger(m.first, confirmed[p][m.slot] + 1) IN
    IF next > m.current THEN m.current ELSE next

\* The first frame of packet m that p does not know to be confirmed.
FirstNew(p, m) == Larger(m.first, confirmed[p][m.slot])

\* The predictions of p that packet m contradicts.
Corrections(p, m) ==
    {i \in FirstNew(p, m)..m.current :
        i < ending[p][m.slot] /\ controls[p][m.slot][i] # m.frames[i]}

\* Mutant of Corrected: the record ends with the packet.
CorrectedTruncated(p, m) ==
    [i \in start[p]..m.current |->
        IF i >= FirstNew(p, m) THEN m.frames[i]
        ELSE IF i < ending[p][m.slot] THEN controls[p][m.slot][i]
        ELSE m.frames[FirstNew(p, m)]]

\* The record of the packet's player after the packet is applied: its frames
\* replace the predictions, frames nobody sent are filled from the first one
\* that was, and the last frame is the prediction for the cycles after it.
Corrected(p, m) ==
    [i \in start[p]..(Larger(ending[p][m.slot], m.current + 1) - 1) |->
        IF i > m.current THEN m.frames[m.current]
        ELSE IF i >= FirstNew(p, m) THEN m.frames[i]
        ELSE IF i < ending[p][m.slot] THEN controls[p][m.slot][i]
        ELSE m.frames[FirstNew(p, m)]]

\* Mutant of Acknowledge: the cycle of the packet is taken for the acknowledged one.
AcknowledgeCurrent(p, m) ==
    remoteConfirmed' = [remoteConfirmed EXCEPT ![p][m.slot] = Larger(@, m.current)]

Acknowledge(p, m) ==
    remoteConfirmed' = [remoteConfirmed EXCEPT ![p][m.slot] = Larger(@, m.highest)]

\* The packet goes back to a cycle p no longer records: nothing is applied.
ReadAncientPacket(p, m) ==
    /\ FirstNew(p, m) < start[p]
    /\ Acknowledge(p, m)
    /\ UNCHANGED <<controls, start, ending, confirmed, firstInvalid, net>>

\* Mutant of ReadRecentPacket: a later packet moves the first invalid cycle forward.
ReadRecentForgetsEarlier(p, m) ==
    /\ FirstNew(p, m) >= start[p]
    /\ Acknowledge(p, m)
    /\ controls' = [controls EXCEPT ![p][m.slot] = Corrected(p, m)]
    /\ ending' = [ending EXCEPT ![p][m.slot] = Larger(@, m.current + 1)]
    /\ confirmed' = [confirmed EXCEPT ![p][m.slot] = m.current]
    /\ \/ Corrections(p, m) = {} /\ UNCHANGED firstInvalid
       \/ \E first \in Lowest(Corrections(p, m)) :
             firstInvalid' = [firstInvalid EXCEPT ![p] = first]
    /\ net' = Useful(net, confirmed')
    /\ UNCHANGED start

ReadRecentPacket(p, m) ==
    /\ FirstNew(p, m) >= start[p]
    /\ Acknowledge(p, m)
    /\ controls' = [controls EXCEPT ![p][m.slot] = Corrected(p, m)]
    /\ ending' = [ending EXCEPT ![p][m.slot] = Larger(@, m.current + 1)]
    /\ confirmed' = [confirmed EXCEPT ![p][m.slot] = m.current]
    /\ \/ /\ Corrections(p, m) = {}
          /\ UNCHANGED firstInvalid
       \/ \E first \in Lowest(Corrections(p, m)) :
             firstInvalid' = [firstInvalid EXCEPT
                 ![p] = IF @ = -1 \/ @ > first THEN first ELSE @]
    /\ net' = Useful(net, confirmed')
    /\ UNCHANGED start

\* UDP delivers the packets still in flight in any order, any number of times
\* or never; one that is behind what p has confirmed is discarded.
Receive(p, m) ==
    /\ pc[p] = "receiving"
    /\ m.slot # p
    /\ m.current >= confirmed[p][m.slot]
    /\ ReadAncientPacket(p, m) \/ ReadRecentPacket(p, m)
    /\ UNCHANGED <<world, backups, pc>>

-----------------------------------------------------------------------------
(* Level::do_processing: simulate one cycle on the inputs known now.       *)

DoProcessing(p) ==
    /\ pc[p] = "receiving"
    /\ world' = [world EXCEPT ![p] = Append(@, Inputs(p, Cycle(p) + 1))]
    /\ pc' = [pc EXCEPT ![p] = "idle"]
    /\ UNCHANGED <<recordVars, firstInvalid, backups, net>>

Next ==
    \E p \in Slots :
       \/ \E keys \in Pressable[p] : PlayCycle(p, keys)
       \/ \E m \in net : Receive(p, m)
       \/ DoProcessing(p)

Spec == Init /\ [][Next]_vars

-----------------------------------------------------------------------------
(* Safety.                                                                 *)

\* A well-formed packet carries the frames of the cycles first .. current.
PacketOK(m) ==
    /\ m.slot \in Slots
    /\ m.current \in Nat /\ m.highest \in Nat /\ m.first \in 0..m.current
    /\ m.frames \in [m.first..m.current -> Frames]

\* Every variable stays in the set of values the code gives it.
TypeOK ==
    /\ start \in [Slots -> Nat]
    /\ ending \in [Slots -> [Slots -> Nat]]
    /\ controls = [p \in Slots |-> [s \in Slots |-> controls[p][s]]]
    /\ \A p, s \in Slots : controls[p][s] \in [start[p]..(ending[p][s] - 1) -> Frames]
    /\ confirmed \in [Slots -> [Slots -> Nat]]
    /\ remoteConfirmed \in [Slots -> [Slots -> Nat]]
    /\ firstInvalid \in [Slots -> Nat \cup {-1}]
    /\ world \in [Slots -> Seq([Slots -> Frames])]
    /\ backups \in [Slots -> Seq(Seq([Slots -> Frames]))]
    /\ pc \in [Slots -> {"idle", "receiving"}]
    /\ \A m \in net : PacketOK(m)

\* The frame p records for cycle i of s is the one s recorded itself.
AgreeOn(p, s, i) ==
    (i \in DOMAIN controls[p][s] /\ i \in DOMAIN controls[s][s])
        => controls[p][s][i] = controls[s][s][i]

\* "for each player, the highest confirmed cycle we have": up to that cycle, a
\* player's record of another player's keys holds what the other really did,
\* whatever UDP lost, duplicated or reordered.  (0 is also the initial value.)
ConfirmedFramesTrue ==
    \A p \in Slots : \A s \in Others(p) :
       confirmed[p][s] > 0 =>
          \A i \in start[p]..confirmed[p][s] : AgreeOn(p, s, i)

\* The same as the other player's game saw it: what p takes for confirmed is what
\* s played, even where s no longer records it.
ConfirmedFramesPlayed ==
    \A p \in Slots : \A s \in Others(p) :
       confirmed[p][s] > 0 =>
          \A i \in start[p]..confirmed[p][s] :
             i + 1 + Delay <= Cycle(s) => controls[p][s][i] = world[s][i + 1 + Delay][s]

\* "the highest confirmed cycle of ours that they have": a player never
\* believes that another has more of its frames than the other confirmed, so
\* the frames it stops sending have all arrived.
AcknowledgedFramesArrived ==
    \A p \in Slots : \A s \in Others(p) : remoteConfirmed[p][s] <= confirmed[s][p]

\* No packet in flight leaves a hole: it starts no later than the cycle after the
\* last one that any of its receivers has confirmed, since the sender never
\* erases a frame from its history that somebody has not acknowledged.
PacketsConnect ==
    /\ \A p \in Slots : \A s \in Others(p) : start[p] <= remoteConfirmed[p][s]
    /\ \A m \in net : \A r \in Others(m.slot) : m.first <= confirmed[r][m.slot]

\* A game cycle that was simulated with an input that is now known to be wrong
\* lies after the first invalid cycle, so the next rollback recomputes it: no
\* desynchronisation stays unnoticed.
WrongCyclesAreInvalid ==
    \A p \in Slots : \A g \in 1..Cycle(p) :
       g - 1 - Delay >= start[p] /\ world[p][g] # Inputs(p, g)
          => firstInvalid[p] >= 0 /\ g > firstInvalid[p]

\* Game cycle g of p is settled: every input it depends on is confirmed.
Settled(p, g) ==
    /\ g \in 1..Cycle(p)
    /\ \A s \in Others(p) : confirmed[p][s] > 0 /\ g - 1 - Delay <= confirmed[p][s]
    /\ firstInvalid[p] = -1 \/ g <= firstInvalid[p]

\* No two players are ever out of sync: a game cycle that is settled for both,
\* with no rollback pending, was computed from the same inputs by both.
NoDesync ==
    \A p, q \in Slots : \A g \in 1..Cycle(p) :
       Settled(p, g) /\ Settled(q, g) => world[p][g] = world[q][g]

\* replay_from_cycle finds its snapshot: ASSERT_GE(index, 0), and the snapshot
\* is that of the first invalid cycle: ASSERT_EQ(cycle_, ncycle).
ReplayFindsSnapshot ==
    \A p \in Slots : pc[p] = "idle" /\ NeedsReplay(p) =>
       /\ ReplayIndex(p) >= 0
       /\ Len(backups[p][ReplayIndex(p) + 1]) = firstInvalid[p]
=============================================================================
