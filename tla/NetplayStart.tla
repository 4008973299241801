---------------------------- MODULE NetplayStart ----------------------------
(***************************************************************************)
(* How a game of netplay is started (src/src/multiplayer.cpp) with the     *)
(* help of the server that brings its players together                     *)
(* (src/src/multiplayer_server.cpp).                                       *)
(*                                                                         *)
(* A client says READY over TCP and sends 'Z' over UDP until the server    *)
(* has enough players, knows the UDP address of each, and sends them all   *)
(* START with the list of players.  Then every player sends confirmations  *)
(* to the others by UDP until it has heard from everybody, and for some    *)
(* rounds more.  Then it goes on to the handshake: player 0 pings the      *)
(* others, tells them when to start and which delay to play with, and      *)
(* starts after a second; the others start when they were told.            *)
(*                                                                         *)
(* UDP packets stay in net: they are lost if nobody takes them, may be     *)
(* taken twice, and in any order.  Every client sends 'Z' while it waits,  *)
(* so a 'Z' of whoever has waited may arrive at any time.  Times, latency  *)
(* and the scan for other ports are left out: a player may start whenever  *)
(* it has been told a time, and any delay may come of the latencies.       *)
(*                                                                         *)
(* Clients are numbered by the ids the server gave them on connecting.     *)
(* Bounds: all want the same level; MaxLeaves of them leave; the rounds    *)
(* after Tries + Extra, which are alike, are not counted.                  *)
(***************************************************************************)
EXTENDS Integers, FiniteSetsExt, SequencesExt

CONSTANTS NClients,     \* clients that connect
          GameSize,     \* the players of the level
          Tries, Extra, \* 1000 rounds of confirmations, and 50 more
          Delays,       \* what slot 0 may compute as delay
          MaxLeaves

ASSUME NetplayStartAssumption ==
    /\ NClients \in Nat \ {0} /\ GameSize \in Nat \ {0, 1}
    /\ Tries \in Nat \ {0} /\ Extra \in Nat
    /\ Delays \subseteq Nat \ {0, 1} /\ MaxLeaves \in Nat

Clients == 0 .. NClients - 1
Games   == 1 .. NClients       \* games in the order they were opened
None    == 0                   \* no game; no delay yet

VARIABLES
    phase,      \* where each client is
    stream,     \* what it wrote to its TCP connection and the server did not read
    roster,     \* the players START lists for it; <<>> before it is sent
    confirmed,  \* confirmed_players
    rounds,     \* m, the rounds of confirmations it has made
    point,      \* confirmation_point
    pinged,     \* slot 0: has a ping come back; the others: start_time is not empty
    announced,  \* slot 0: the delay it tells the others
    delay,      \* controls::delay
    net,        \* UDP packets
    info,       \* sockets_info_
    ids,        \* id_to_socket_
    endpoint,   \* clients whose udp_endpoint is known
    game,       \* SocketInfo::game
    players,    \* GameInfo::players of each game
    open,       \* the game in games_
    errors,     \* failed callbacks that have yet to run for a client that left
    leaves

client == <<phase, stream, roster, confirmed, rounds, point, pinged, announced, delay>>
server == <<info, ids, endpoint, game, players, open, errors>>
vars   == <<client, server, net, leaves>>

Phases == {"connected", "pumping", "confirming", "handshaking", "started", "failed", "left"}
Packet == [type : {"A", "a"}, from : Clients, to : Clients]
          \cup [type : {"P"}, from : Clients, to : Clients, delay : Delays \cup {None}]

Opened == {g \in Games : \E c \in Clients : game[c] = g}

TypeOK ==
    /\ phase \in [Clients -> Phases]
    /\ \A c \in Clients : /\ Range(stream[c]) \subseteq {"greetings!", "READY"}
                          /\ Range(roster[c]) \subseteq Clients
    /\ pinged \subseteq Clients
    /\ confirmed \in [Clients -> SUBSET Clients]
    /\ rounds \in [Clients -> 0 .. Tries + Extra] /\ point \in [Clients -> 0 .. Tries]
    /\ announced \in [Clients -> Delays \cup {None}]
    /\ delay \in [Clients -> Delays \cup {None, 3}]
    /\ net \subseteq Packet
    /\ info \subseteq Clients /\ ids \subseteq Clients /\ endpoint \subseteq Clients
    /\ game \in [Clients -> Games \cup {None}] /\ open \in Games \cup {None}
    /\ \A g \in Games : Range(players[g]) \subseteq Clients
    /\ errors \in [Clients -> 0 .. 2]
    /\ leaves \in 0 .. MaxLeaves

\* Every client has connected, has its id and has sent its greetings
Init ==
    /\ phase = [c \in Clients |-> "connected"]
    /\ stream = [c \in Clients |-> <<"greetings!">>]
    /\ roster = [c \in Clients |-> <<>>]
    /\ pinged = {}
    /\ confirmed = [c \in Clients |-> {}]
    /\ rounds = [c \in Clients |-> 0] /\ point = [c \in Clients |-> Tries]
    /\ announced = [c \in Clients |-> None] /\ delay = [c \in Clients |-> None]
    /\ net = {}
    /\ info = Clients /\ ids = Clients /\ endpoint = {}
    /\ game = [c \in Clients |-> None]
    /\ players = [g \in Games |-> <<>>]
    /\ open = None
    /\ errors = [c \in Clients |-> 0]
    /\ leaves = 0

-----------------------------------------------------------------------------
(* Waiting for the others. *)

\* Client::Client
Ready(c) ==
    /\ phase[c] = "connected"
    /\ phase' = [phase EXCEPT ![c] = "pumping"]
    /\ stream' = [stream EXCEPT ![c] = Append(@, "READY")]
    /\ UNCHANGED <<roster, confirmed, rounds, point, pinged, announced, delay,
                   server, net, leaves>>

\* handle_receive reads what has arrived.  Only a READY by itself is understood: it opens a
\* game or joins the open one.  A client sends one READY on a connection, so the removal of a
\* player from an earlier game, which handle_receive begins with, has nothing to remove.
Receive(c) == \E n \in 1 .. Len(stream[c]) :
    LET g == IF open # None THEN open ELSE Min(Games \ Opened)
    IN  /\ c \in info
        /\ stream' = [stream EXCEPT ![c] = SubSeq(@, n + 1, Len(@))]
        /\ IF SubSeq(stream[c], 1, n) = <<"READY">>
           THEN /\ open' = g
                /\ game' = [game EXCEPT ![c] = g]
                /\ players' = [players EXCEPT ![g] = Append(@, c)]
           ELSE UNCHANGED <<open, game, players>>
        /\ UNCHANGED <<phase, roster, confirmed, rounds, point, pinged, announced,
                       delay, info, ids, endpoint, errors, net, leaves>>

\* PumpStartLevel sends a 'Z' whenever nothing has come from the server
Waited(c) == phase[c] # "connected" /\ (phase[c] = "left" => game[c] # None)

\* Mutant of HandleZ: the game stays open
HandleZStaysOpen(c) ==
    LET g     == game[c]
        start == g # None /\ open = g /\ Len(players[g]) >= GameSize
                 /\ Range(players[g]) \subseteq endpoint \cup {c}
        gone  == {p \in Range(players[g]) : phase[p] = "left"}
    IN  /\ c \in ids /\ Waited(c)
        /\ endpoint' = endpoint \cup {c}
        /\ IF start
           THEN /\ roster' = [p \in Clients |-> IF p \in Range(players[g]) THEN players[g]
                                                ELSE roster[p]]
                /\ UNCHANGED open
                /\ \E failing \in SUBSET gone :
                      errors' = [p \in Clients |-> IF p \in failing THEN 2 ELSE errors[p]]
           ELSE UNCHANGED <<roster, open, errors>>
        /\ UNCHANGED <<phase, stream, confirmed, rounds, point, pinged, announced,
                       delay, info, ids, game, players, net, leaves>>

\* Mutant of HandleZ: START does not wait for the addresses
HandleZAnyAddress(c) ==
    LET g     == game[c]
        start == g # None /\ open = g /\ Len(players[g]) >= GameSize
        gone  == {p \in Range(players[g]) : phase[p] = "left"}
    IN  /\ c \in ids /\ Waited(c)
        /\ endpoint' = endpoint \cup {c}
        /\ IF start
           THEN /\ roster' = [p \in Clients |-> IF p \in Range(players[g]) THEN players[g]
                                                ELSE roster[p]]
                /\ open' = None
                /\ \E failing \in SUBSET gone :
                      errors' = [p \in Clients |-> IF p \in failing THEN 2 ELSE errors[p]]
           ELSE UNCHANGED <<roster, open, errors>>
        /\ UNCHANGED <<phase, stream, confirmed, rounds, point, pinged, announced,
                       delay, info, ids, game, players, net, leaves>>

\* handle_udp_receive for a 'Z': START is sent when the game has its players and knows the
\* address of each.  Writing it to a client that is gone may fail, and reading does too.
HandleZ(c) ==
    LET g     == game[c]
        start == g # None /\ open = g /\ Len(players[g]) >= GameSize
                 /\ Range(players[g]) \subseteq endpoint \cup {c}
        gone  == {p \in Range(players[g]) : phase[p] = "left"}
    IN  /\ c \in ids /\ Waited(c)
        /\ endpoint' = endpoint \cup {c}
        /\ IF start
           THEN /\ roster' = [p \in Clients |-> IF p \in Range(players[g]) THEN players[g]
                                                ELSE roster[p]]
                /\ open' = None
                /\ \E failing \in SUBSET gone :
                      errors' = [p \in Clients |-> IF p \in failing THEN 2 ELSE errors[p]]
           ELSE UNCHANGED <<roster, open, errors>>
        /\ UNCHANGED <<phase, stream, confirmed, rounds, point, pinged, announced,
                       delay, info, ids, game, players, net, leaves>>

-----------------------------------------------------------------------------
(* Confirmations. *)

Others(c)  == Range(roster[c]) \ {c}
IsZero(c)  == roster[c] # <<>> /\ Head(roster[c]) = c
Zero(c)    == Head(roster[c])

\* Whether a packet can still have an effect: a confirmation on a player that confirms, or on
\* one in the handshake if the sender still needs an answer; a ping on a player that has not
\* started, and an answer to it on a slot 0 that had none.
Matters(m) ==
    \/ phase[m.to] = "pumping"
    \/ phase[m.to] = "confirming" /\ (m.type = "a" => m.from \notin confirmed[m.to])
    \/ phase[m.to] = "handshaking" /\
          CASE m.type = "a" -> FALSE
            [] m.type = "A" -> phase[m.from] = "confirming" /\ m.to \notin confirmed[m.from]
            [] m.type = "P" -> ~(IsZero(m.to) /\ m.to \in pinged)

\* The packets ms are sent; those that do not matter any more are forgotten
Sent(ms) == net' = {m \in net \cup ms : Matters(m)'}

\* send_confirm_packet: 'a' to who is confirmed
Confirmation(c, p, has_confirm) ==
    [type |-> IF has_confirm THEN "a" ELSE "A", from |-> c, to |-> p]

\* Players whose packets of the given types may arrive at c
Senders(c, types) == {m.from : m \in {n \in net : n.to = c /\ n.type \in types}}

\* PumpStartLevel reads START
ReadStart(c) ==
    /\ phase[c] = "pumping" /\ roster[c] # <<>>
    /\ phase' = [phase EXCEPT ![c] = "confirming"]
    /\ confirmed' = [confirmed EXCEPT ![c] = {c}]
    /\ UNCHANGED <<stream, roster, rounds, point, pinged, announced, delay,
                   server, net, leaves>>

\* The condition of the loop.  It is false only for a player that has heard from everybody:
\* round Tries itself is less than point + Extra, and the rounds after it are not Tries.
Confirming(c) ==
    /\ phase[c] = "confirming"
    /\ \/ rounds[c] # Tries /\ Cardinality(confirmed[c]) < Len(roster[c])
       \/ rounds[c] < point[c] + Extra

\* Mutant of Round: every further confirmation puts the end of the loop off
RoundPutsOff(c, heard) ==
    LET now == confirmed[c] \cup heard
    IN  /\ confirmed' = [confirmed EXCEPT ![c] = now]
        /\ point' = [point EXCEPT ![c] =
              IF heard # {} /\ Cardinality(now) >= Len(roster[c])
              THEN rounds[c] ELSE @]
        /\ rounds' = [rounds EXCEPT ![c] = Min({@ + 1, Tries + Extra})]
        /\ UNCHANGED <<phase, stream, roster, pinged, announced, delay, server, leaves>>
        /\ Sent({Confirmation(c, p, p \in confirmed[c]) : p \in Others(c)})

\* Mutant of Round: only who was heard from is sent a confirmation
RoundAnswers(c, heard) ==
    LET now == confirmed[c] \cup heard
    IN  /\ confirmed' = [confirmed EXCEPT ![c] = now]
        /\ point' = [point EXCEPT ![c] =
              IF heard # {} /\ Cardinality(now) >= Len(roster[c]) /\ rounds[c] < @
              THEN rounds[c] ELSE @]
        /\ rounds' = [rounds EXCEPT ![c] = Min({@ + 1, Tries + Extra})]
        /\ UNCHANGED <<phase, stream, roster, pinged, announced, delay, server, leaves>>
        /\ Sent({Confirmation(c, p, TRUE) : p \in Others(c) \cap confirmed[c]})

\* A round in which c hears heard: send to everybody, and take what has arrived
Round(c, heard) ==
    LET now == confirmed[c] \cup heard
    IN  /\ confirmed' = [confirmed EXCEPT ![c] = now]
        /\ point' = [point EXCEPT ![c] =
              IF heard # {} /\ Cardinality(now) >= Len(roster[c]) /\ rounds[c] < @
              THEN rounds[c] ELSE @]
        /\ rounds' = [rounds EXCEPT ![c] = Min({@ + 1, Tries + Extra})]
        /\ UNCHANGED <<phase, stream, roster, pinged, announced, delay, server, leaves>>
        /\ Sent({Confirmation(c, p, p \in confirmed[c]) : p \in Others(c)})

Heard(c) == Others(c) \cap Senders(c, {"A", "a"})

Confirm(c) == Confirming(c) /\ \E heard \in SUBSET Heard(c) : Round(c, heard)

\* After the last round
Decide(c) ==
    LET all == Cardinality(confirmed[c]) >= Len(roster[c])
    IN  /\ phase[c] = "confirming" /\ ~Confirming(c)
        /\ phase' = [phase EXCEPT ![c] = IF all THEN "handshaking" ELSE "failed"]
        /\ delay' = [delay EXCEPT ![c] = IF all THEN 3 ELSE @]
        /\ errors' = [errors EXCEPT ![c] = IF all THEN @ ELSE 1]
        /\ UNCHANGED <<stream, roster, confirmed, rounds, point, pinged, announced,
                       info, ids, endpoint, game, players, open, leaves>>
        /\ Sent({})

\* In the handshake an unconfirmed player is still answered
AnswerConfirm(c) == \E p \in Others(c) \cap Senders(c, {"A"}) :
    /\ phase[c] = "handshaking"
    /\ UNCHANGED <<client, server, leaves>>
    /\ Sent({Confirmation(c, p, TRUE)})

-----------------------------------------------------------------------------
(* The handshake. *)

\* A ping of slot 0, or the answer to one
PingPacket(c, p, d) == [type |-> "P", from |-> c, to |-> p, delay |-> d]

\* Slot 0 pings everybody.  In the last half second it chooses the delay, once it knows
\* somebody's latency.
Ping(c) == \E d \in IF announced[c] = None /\ c \in pinged THEN Delays \cup {None}
                    ELSE {announced[c]} :
    /\ phase[c] = "handshaking" /\ IsZero(c)
    /\ announced' = [announced EXCEPT ![c] = d]
    /\ delay' = [delay EXCEPT ![c] = IF d # None THEN d ELSE @]
    /\ UNCHANGED <<phase, stream, roster, confirmed, rounds, point, pinged,
                   server, leaves>>
    /\ Sent({PingPacket(c, p, d) : p \in Others(c)})

\* A ping comes back
PingReturns(c) ==
    /\ phase[c] = "handshaking" /\ IsZero(c)
    /\ Senders(c, {"P"}) # {}
    /\ pinged' = pinged \cup {c}
    /\ UNCHANGED <<phase, stream, roster, confirmed, rounds, point, announced,
                   delay, server, leaves>>
    /\ Sent({})

\* Another player is pinged: it learns a time to start, the delay if there is one, and answers
Pinged(c) == \E m \in {n \in net : n.to = c /\ n.type = "P"} :
    /\ phase[c] = "handshaking" /\ ~IsZero(c)
    /\ pinged' = pinged \cup {c}
    /\ delay' = [delay EXCEPT ![c] = IF m.delay # None THEN m.delay ELSE @]
    /\ UNCHANGED <<phase, stream, roster, confirmed, rounds, point, announced,
                   server, leaves>>
    /\ Sent({PingPacket(c, Zero(c), m.delay)})

\* The time has come: after a second for slot 0, and when it was told for the others
Start(c) ==
    /\ phase[c] = "handshaking"
    /\ IsZero(c) \/ c \in pinged
    /\ phase' = [phase EXCEPT ![c] = "started"]
    /\ UNCHANGED <<stream, roster, confirmed, rounds, point, pinged, announced,
                   delay, server, leaves>>
    /\ Sent({})

-----------------------------------------------------------------------------
(* The server's relay, and clients that leave. *)

\* handle_udp_receive for packets other than 'Z': whom the server would relay one of c's to
RelayTo(c) == IF c \in ids /\ game[c] # None THEN Range(players[game[c]]) \ {c} ELSE {}

\* The player gives up waiting, or leaves the game
Leave(c) ==
    /\ leaves < MaxLeaves /\ phase[c] \in {"connected", "pumping", "started"}
    /\ leaves' = leaves + 1
    /\ phase' = [phase EXCEPT ![c] = "left"]
    /\ errors' = [errors EXCEPT ![c] = 1]
    /\ UNCHANGED <<stream, roster, confirmed, rounds, point, pinged, announced,
                   delay, info, ids, endpoint, game, players, open>>
    /\ Sent({})

\* disconnect, by the failed read or the failed write.  The second of them finds no record of
\* the socket: it makes an empty one, whose id is 0.
Disconnect(c) ==
    /\ errors[c] > 0 /\ stream[c] = <<>>
    /\ errors' = [errors EXCEPT ![c] = @ - 1]
    /\ info' = info \ {c}
    /\ endpoint' = endpoint \ {c}
    /\ ids' = ids \ {IF c \in info THEN c ELSE 0}
    /\ game' = [game EXCEPT ![c] = None]
    /\ players' = [g \in Games |-> RemoveFirst(players[g], c)]   \* on a list once
    /\ UNCHANGED <<client, open, net, leaves>>

Next ==
    \E c \in Clients :
          \/ Ready(c) \/ Receive(c) \/ HandleZ(c) \/ ReadStart(c)
          \/ Confirm(c) \/ Decide(c) \/ AnswerConfirm(c)
          \/ Ping(c) \/ PingReturns(c) \/ Pinged(c) \/ Start(c)
          \/ Leave(c) \/ Disconnect(c)

Spec == Init /\ [][Next]_vars

\* A round in which c hears p, which is still sending to it
Hears(c, p) == /\ Confirming(c) /\ phase[p] \in {"confirming", "handshaking"} /\ p \in Heard(c)
               /\ \E heard \in SUBSET Heard(c) : p \in heard /\ Round(c, heard)

\* TCP and the server deliver, the clients go on, and so does a slot 0 whose second is over.
\* UDP delivers some of the packets that a player keeps sending.
Fairness == \A c \in Clients :
    /\ WF_vars(ReadStart(c) \/ Decide(c) \/ Start(c))
    /\ WF_vars(Confirm(c)) /\ \A p \in Clients \ {c} : WF_vars(Hears(c, p))

FairSpec == Spec /\ Fairness

-----------------------------------------------------------------------------
(* Properties. *)

\* Who starts, or is about to, has the same list of players as every other on it, all of whom
\* have got as far as sending confirmations; a player other than slot 0 starts only when slot 0
\* has heard from everybody too; and it plays with the delay of slot 0, or 3 if it was never
\* told of it.  Everybody's controls are read that many cycles late (get_controlStatus).
StartsTogether == \A c \in Clients :
    phase[c] \in {"handshaking", "started"} =>
        /\ \A p \in Range(roster[c]) : roster[p] = roster[c] /\ rounds[p] > 0
        /\ phase[c] = "started" => delay[Zero(c)] # None
        /\ delay[c] \in {3, delay[Zero(c)]}

\* The server's tables agree.  A client it finds by id has a record, as handle_udp_receive
\* asserts, and only client 0 can have a record that is not found by its id; whoever got
\* START may have its packets relayed, and the server knows the addresses they go to; and a
\* game's players are those that are in it.
TablesAgree ==
    /\ ids \subseteq info /\ info \ ids \subseteq {0}
    /\ \A c \in Clients : roster[c] # <<>> => RelayTo(c) \subseteq endpoint
    /\ \A g \in Games : Range(players[g]) = {c \in Clients : game[c] = g}

\* When START has been sent, somebody starts in the end, unless one of the players leaves.  It
\* need not be everybody: who has started does not answer confirmations and pings any more.
SomebodyStarts == \A c \in Clients :
    roster[c] # <<>> ~> \E p \in Range(roster[c]) : phase[p] \in {"started", "left"}
=============================================================================
