------------------------------ MODULE TbsServer ------------------------------
(***************************************************************************)
(* The server of turn-based games and its HTTP long polling                *)
(* (src/src/tbs_server_base.cpp, src/src/tbs_server.cpp).                  *)
(*                                                                         *)
(* Every request arrives on a socket of its own and gets one answer.  A    *)
(* request of a session takes what is queued for the session or waits, and *)
(* a message for a session goes to its waiting request or into its queue.  *)
(* The next request of a socket is read when the answer has been written   *)
(* (keepalive_socket), so a socket whose answer is not written is busy.    *)
(*                                                                         *)
(* One game is modelled, with the players it was created for; observers    *)
(* come and go.  Messages are numbered, modulo Stamps, by session in the   *)
(* order queue_msg takes them, and a handler's messages are any of a few   *)
(* scripts of recipients.  Sessions have different nicks, so the sockets   *)
(* of a nick are those of a session.  A session times out only when no     *)
(* request of it waits: the timeout is an hour, and a request waits two    *)
(* seconds.  The game gets a message often enough to stay in games_ (the   *)
(* heartbeat takes it off that list after 300 ticks without one).          *)
(*                                                                         *)
(* Bounds: the game has something to say only while no session has more    *)
(* than MaxQueue messages queued; one session times out, and one player is *)
(* found gone or back, in a tick; one answer at most is queued again for a *)
(* session at a time.                                                      *)
(***************************************************************************)
EXTENDS Integers, SequencesExt, FiniteSetsExt

CONSTANTS Players,    \* the sessions of the game's players, in order
          Observers,  \* sessions that may observe it
          Sockets, MaxQueue, Stamps

Sessions == Range(Players) \cup Observers
NPlayers == Len(Players)

ASSUME TbsServerAssumption ==
    /\ IsFiniteSet(Observers) /\ IsFiniteSet(Sockets)
    /\ Players \in Seq(Range(Players)) /\ IsInjective(Players)
    /\ Range(Players) \cap Observers = {} /\ "none" \notin Sessions \cup Sockets
    /\ MaxQueue \in Nat /\ Stamps \in Nat \ {0}

VARIABLES
    known,       \* sessions in clients_
    ingame,      \* ... whose client_info has the game
    clients,     \* game_info::clients of the game
    outgoing,    \* the game's outgoing_messages_: the recipient of each
    msg_queue,   \* client_info::msg_queue of each session
    connection,  \* connections_: the session of a socket, or None
    waiting,     \* waiting_connections_
    waiter,      \* sessions_to_waiting_connections_: a session's socket, or None
    lobby,       \* sockets in status_fns_
    writing,     \* answers being written to a socket: the session each was sent for
    sent,        \* the number of the last message queue_msg took for each session
    written      \* ... and of the last one that was written to a socket

members == <<known, ingame, clients, outgoing>>
network == <<msg_queue, connection, waiting, waiter, writing, sent, written>>
vars    == <<members, network, lobby>>

None    == "none"
Wrapped == -1     \* a whole HTTP answer queued again as if it were a message

\* game::message recipients: nobody named means all clients, -1 the observers
All == -2
AllObservers == -1

TypeOK ==
    /\ ingame \subseteq known /\ known \subseteq Sessions
    /\ Range(clients) \subseteq Sessions
    /\ Range(outgoing) \subseteq All .. Len(Players) + Cardinality(Observers)
    /\ \A s \in Sessions : Range(msg_queue[s]) \subseteq {Wrapped} \cup 0 .. Stamps - 1
    /\ connection \in [Sockets -> Sessions \cup {None}]
    /\ waiting \subseteq Sockets /\ lobby \subseteq Sockets
    /\ waiter \in [Sessions -> Sockets \cup {None}]
    /\ \A k \in Sockets : Range(writing[k]) \subseteq Sessions \cup {None}
    /\ sent \in [Sessions -> 0 .. Stamps - 1] /\ written \in [Sessions -> 0 .. Stamps - 1]

Init ==
    /\ known = Range(Players) /\ ingame = Range(Players) /\ clients = Players
    /\ outgoing = <<>>
    /\ msg_queue = [s \in Sessions |-> <<>>]
    /\ connection = [k \in Sockets |-> None]
    /\ waiting = {} /\ lobby = {}
    /\ waiter = [s \in Sessions |-> None]
    /\ writing = [k \in Sockets |-> <<>>]
    /\ sent = [s \in Sessions |-> 0]
    /\ written = [s \in Sessions |-> 0]

\* A socket with a request that has no answer yet
Busy(k) == k \in waiting \cup lobby \/ writing[k] # <<>>

-----------------------------------------------------------------------------
(* The game's messages and the sessions they are for. *)

\* flush_game_messages: the sessions among cs that a message is queued for
Recipients(m, cs) ==
    CASE m = All -> Range(cs)
      [] m = AllObservers -> {cs[i] : i \in NPlayers + 1 .. Len(cs)}
      [] m >= 0 /\ m < Len(cs) -> {cs[m + 1]}
      [] m >= Len(cs) -> {}

\* How many of the messages out are queued for s
Count(s, out, cs) == Cardinality({i \in DOMAIN out : s \in Recipients(out[i], cs)})

\* send_game_state(-1)
StateToAll == [i \in 1 .. NPlayers |-> i - 1] \o <<AllObservers>>

\* A message to each player but one
OtherPlayers(n) == [i \in 1 .. NPlayers - 1 |-> IF i <= n THEN i - 1 ELSE i]

\* The messages with which a game answers a message of a client with nplayer = n: none, a chat
\* message, its state once or twice, and for a player's poll the state or confirm_sync
Scripts(n) == {<<>>, <<All>>, StateToAll, StateToAll \o StateToAll}
              \cup IF n >= 0 THEN {<<n>>, OtherPlayers(n)} ELSE {}

Uncrowded == \A s \in Sessions : Len(msg_queue[s]) <= MaxQueue

\* cli_info.nplayer
NPlayer(s) == IF s \in Range(Players) THEN CHOOSE i \in 0 .. NPlayers - 1 : Players[i + 1] = s
              ELSE -1

-----------------------------------------------------------------------------
(* What a handler does to sockets and queues, step by step. *)

\* The state of the sessions' queues and sockets, and the step that makes it the next one
Net == [queue |-> msg_queue, conn |-> connection, wait |-> waiting, waiter |-> waiter,
        writing |-> writing, sent |-> sent, written |-> written]

Become(net) ==
    /\ msg_queue' = net.queue /\ connection' = net.conn /\ waiting' = net.wait
    /\ waiter' = net.waiter /\ writing' = net.writing
    /\ sent' = net.sent /\ written' = net.written

\* server::send_msg to each of a set of sockets, for the sessions they belong to
Send(net, ks) == [net EXCEPT !.writing = [k \in Sockets |->
                     IF k \in ks THEN Append(@[k], net.conn[k]) ELSE @[k]]]

\* The next n messages for a session
Fresh(net, s, n) == [i \in 1 .. n |-> (net.sent[s] + i) % Stamps]

\* Mutant of Queue: a message answers the waiting request, which goes on waiting
QueueAndWait(net, n) ==
    LET direct == {s \in Sessions : n[s] > 0 /\ net.waiter[s] # None}
    IN  [Send(net, {net.waiter[s] : s \in direct}) EXCEPT
           !.queue = [s \in Sessions |-> @[s] \o IF s \in direct THEN Tail(Fresh(net, s, n[s]))
                                                 ELSE Fresh(net, s, n[s])],
           !.written = [s \in Sessions |-> IF s \in direct THEN (net.sent[s] + 1) % Stamps ELSE @[s]],
           !.waiter = [s \in Sessions |-> IF s \in direct THEN None ELSE @[s]],
           !.sent = [s \in Sessions |-> (@[s] + n[s]) % Stamps]]

\* queue_msg for n[s] messages to each session s: the first answers the session's waiting
\* request, if there is one, and the others join its queue
Queue(net, n) ==
    LET direct == {s \in Sessions : n[s] > 0 /\ net.waiter[s] # None}
        ks     == {net.waiter[s] : s \in direct}
    IN  [Send(net, ks) EXCEPT
           !.queue = [s \in Sessions |-> @[s] \o IF s \in direct THEN Tail(Fresh(net, s, n[s]))
                                                 ELSE Fresh(net, s, n[s])],
           !.written = [s \in Sessions |-> IF s \in direct THEN (net.sent[s] + 1) % Stamps ELSE @[s]],
           !.wait = @ \ ks,
           !.waiter = [s \in Sessions |-> IF s \in direct THEN None ELSE @[s]],
           !.sent = [s \in Sessions |-> (@[s] + n[s]) % Stamps]]

\* The messages among msgs that queue_msg took for the session, without answers queued again
Own(msgs) ==
    LET f[i \in 0 .. Len(msgs)] == IF i = 0 THEN <<>>
                                  ELSE IF msgs[i] # Wrapped THEN Append(f[i - 1], msgs[i])
                                  ELSE f[i - 1]
    IN  f[Len(msgs)]

\* The last message among msgs, or else last
LastOf(msgs, last) == IF Own(msgs) = <<>> THEN last ELSE Last(Own(msgs))

\* Mutant of CloseAjax: the session's request waits although messages are queued for it
CloseAjaxWaits(net, k, s, n) ==
    [net EXCEPT !.wait = @ \cup {k}, !.waiter[s] = k]

\* Mutant of CloseAjax: a client that takes one message has the queue cleared for it
CloseAjaxClears(net, k, s, n) ==
    IF net.queue[s] = <<>> THEN [net EXCEPT !.wait = @ \cup {k}, !.waiter[s] = k]
    ELSE [Send(net, {k}) EXCEPT !.queue[s] = <<>>, !.written[s] = LastOf(SubSeq(net.queue[s], 1, n), @)]

\* close_ajax: the request on k takes the first n messages of its session's queue, and the
\* session's other waiting requests are dismissed; or there are none and it waits
CloseAjax(net, k, s, n) ==
    LET others == {j \in net.wait : net.conn[j] = s /\ j # k}
    IN  IF net.queue[s] = <<>>
        THEN [net EXCEPT !.wait = @ \cup {k}, !.waiter[s] = k]
        ELSE [Send(net, {k} \cup others) EXCEPT
                !.queue[s] = SubSeq(@, n + 1, Len(@)),
                !.written[s] = LastOf(SubSeq(net.queue[s], 1, n), @),
                !.wait = @ \ others,
                !.waiter[s] = IF others # {} THEN None ELSE @]

\* A request of session s on socket k was handled and n messages came of it.  The answer
\* takes the whole queue if the client can take a multimessage, else one.
Answer(k, s, n) ==
    LET net == Queue([Net EXCEPT !.conn[k] = s], n)
    IN  \E taken \in {1, Len(net.queue[s])} : Become(CloseAjax(net, k, s, taken))

\* An answer that is sent at once, to a socket that belongs to no session yet
Reply(k) == Become(Send(Net, {k}))

-----------------------------------------------------------------------------
(* Requests. *)

\* get_status: answered if the lobby has changed, else with its next change
GetStatus(k) ==
    /\ ~Busy(k)
    /\ \/ Reply(k) /\ UNCHANGED lobby
       \/ lobby' = lobby \cup {k} /\ UNCHANGED network
    /\ UNCHANGED members

\* Mutant of ObserveGame: the session is not recorded
ObserveGameUnrecorded(k, s) ==
    /\ ~Busy(k) /\ s \in Observers \ known /\ clients # <<>> /\ Uncrowded
    /\ ingame' = ingame \cup {s}
    /\ clients' = Append(clients, s)
    /\ outgoing' = outgoing \o <<All, Len(clients)>>
    /\ Reply(k)
    /\ UNCHANGED <<known, lobby>>

\* observe_game.  What observer_connect queues is not flushed yet.
ObserveGame(k, s) ==
    /\ ~Busy(k) /\ s \in Observers
    /\ \/ /\ s \in known \/ clients = <<>>      \* reuse_session_id, unknown_game
          /\ UNCHANGED members
       \/ /\ s \notin known /\ clients # <<>> /\ Uncrowded
          /\ known' = known \cup {s}
          /\ ingame' = ingame \cup {s}
          /\ clients' = Append(clients, s)
          /\ outgoing' = outgoing \o <<All, Len(clients)>>
    /\ Reply(k)
    /\ UNCHANGED lobby

\* A request of a session the server does not know
InvalidSession(k, s) ==
    /\ ~Busy(k) /\ s \notin known
    /\ Reply(k)
    /\ UNCHANGED <<members, lobby>>

\* A message for the game: it is handled, and everything the game has to send is flushed
GameMessage(k, s) ==
    /\ ~Busy(k) /\ s \in ingame
    /\ \E out \in Scripts(NPlayer(s)) :
          /\ out # <<>> => Uncrowded
          /\ Answer(k, s, [q \in Sessions |-> Count(q, outgoing \o out, clients)])
    /\ outgoing' = <<>>
    /\ UNCHANGED <<known, ingame, clients, lobby>>

\* A request of a session whose game is over for it
IdleMessage(k, s) ==
    /\ ~Busy(k) /\ s \in known \ ingame
    /\ Answer(k, s, [q \in Sessions |-> 0])
    /\ UNCHANGED <<members, lobby>>

\* quit_games: the other clients hear of a player's quitting at once, and of an observer's not
\* at all.  The game goes with its last client.
Quitting(s, pending) ==
    LET cs     == RemoveFirst(clients, s)      \* it is there once
        player == s \in Range(Players)
    IN  [clients |-> cs,
         outgoing |-> IF player \/ cs = <<>> THEN <<>> ELSE pending,
         counts |-> [q \in Sessions |->
                        IF player THEN Count(q, pending \o <<All, All>>, cs) ELSE 0]]

\* status_change: whoever waits for the lobby is answered
StatusChange(net) == Send(net, lobby)

\* quit: and "bye" is queued for the one that quits
Quit(k, s) ==
    LET q   == Quitting(s, outgoing)
        net == Queue([Net EXCEPT !.conn[k] = s], [q.counts EXCEPT ![s] = @ + 1])
    IN  /\ ~Busy(k) /\ s \in ingame
        /\ \E taken \in {1, Len(net.queue[s])} :
              LET closed == CloseAjax(net, k, s, taken)
              IN  Become(IF q.clients = <<>> THEN StatusChange(closed) ELSE closed)
        /\ lobby' = IF q.clients = <<>> THEN {} ELSE lobby
        /\ clients' = q.clients /\ outgoing' = q.outgoing
        /\ ingame' = ingame \ {s}
        /\ UNCHANGED known

Request(k) ==
    \/ GetStatus(k)
    \/ \E s \in Sessions : \/ ObserveGame(k, s) \/ InvalidSession(k, s)
                           \/ GameMessage(k, s) \/ IdleMessage(k, s) \/ Quit(k, s)

-----------------------------------------------------------------------------
(* Writes and ticks. *)

\* server::disconnect, after which the socket's next request is read
Disconnected(net, k) ==
    LET s == net.conn[k]
    IN  [net EXCEPT !.conn[k] = None, !.wait = @ \ {k}, !.writing[k] = Tail(@),
                    !.waiter = [q \in Sessions |-> IF q = s /\ @[q] = k THEN None ELSE @[q]]]

\* queue_msg with has_priority for an answer that could not be written
Requeued(net, s) ==
    IF s = None THEN net
    ELSE IF net.waiter[s] # None
    THEN [Send(net, {net.waiter[s]}) EXCEPT !.wait = @ \ {net.waiter[s]}, !.waiter[s] = None]
    ELSE [net EXCEPT !.queue[s] = <<Wrapped>> \o @]

\* handle_send
HandleSend(k) ==
    /\ writing[k] # <<>>
    /\ \/ Become(Disconnected(Net, k))
       \/ /\ Head(writing[k]) # None => Wrapped \notin Range(msg_queue[Head(writing[k])])
          /\ Become(Disconnected(Requeued(Net, Head(writing[k])), k))
    /\ UNCHANGED <<members, lobby>>

\* heartbeat_internal: waiting requests take a message each while their sessions have any,
\* and the others get a heartbeat every hundredth tick
Served(net) == {ks \in SUBSET net.wait : \A s \in Sessions :
    LET own == {k \in net.wait : net.conn[k] = s}
    IN  Cardinality(ks \cap own) = Min({Cardinality(own), Len(net.queue[s])})}

\* Mutant of Beaten: a heartbeat leaves the session's waiting socket in its map
BeatenStale(net, ks, beat) ==
    [Send(net, IF beat THEN net.wait ELSE ks) EXCEPT
       !.queue = [s \in Sessions |-> SubSeq(@[s], Cardinality({k \in ks : net.conn[k] = s}) + 1, Len(@[s]))],
       !.wait = @ \ IF beat THEN net.wait ELSE ks]

\* The sockets ks take a message, and on a beat the others their heartbeat
Beaten(net, ks, beat) ==
    LET replied == IF beat THEN net.wait ELSE ks
        n(s)    == Cardinality({k \in ks : net.conn[k] = s})
    IN  [Send(net, replied) EXCEPT
           !.queue = [s \in Sessions |-> SubSeq(@[s], n(s) + 1, Len(@[s]))],
           !.written = [s \in Sessions |-> LastOf(SubSeq(net.queue[s], 1, n(s)), @[s])],
           !.wait = @ \ replied,
           !.waiter = [s \in Sessions |-> IF \E k \in replied : net.conn[k] = s
                                          THEN None ELSE @[s]]]

\* A session whose last request was too long ago: it quits and is forgotten
TimedOut(s) == s \in known /\ \A k \in Sockets : connection[k] # s

Forgotten(net, s) == [net EXCEPT !.queue[s] = <<>>, !.sent[s] = 0, !.written[s] = 0]

\* player_disconnect and player_reconnect tell the other players, and when a player has been
\* away for a minute everybody is sent the state
Notices == {<<>>} \cup {OtherPlayers(n) \o out :
                           n \in 0 .. Min({NPlayers, Len(clients)}) - 1, out \in {<<>>, StateToAll}}

\* heartbeat, with every hundredth a beat: the game's clock, timeouts, waiting requests, and
\* the disconnected players, who are announced by the next flush
Heartbeat(beat) == \E s \in {q \in Sessions : TimedOut(q)} \cup {None} :
    LET quits == s # None /\ s \in ingame
        q == IF quits THEN Quitting(s, <<>>)
             ELSE [clients |-> clients, outgoing |-> <<>>, counts |-> [r \in Sessions |-> 0]]
        ends == quits /\ q.clients = <<>>
    IN  \E out \in IF clients # <<>> /\ Uncrowded THEN {<<>>, StateToAll} ELSE {<<>>} :
        LET flushed == Queue(Net, [r \in Sessions |-> Count(r, outgoing \o out, clients)])
            left    == Queue(flushed, q.counts)
            net     == IF s = None THEN flushed ELSE Forgotten(left, s)
        IN  /\ \E ks \in Served(net) :
                  Become(IF ends \/ beat THEN StatusChange(Beaten(net, ks, beat))
                         ELSE Beaten(net, ks, beat))
            /\ lobby' = IF ends \/ beat THEN {} ELSE lobby
            /\ clients' = q.clients
            /\ ingame' = ingame \ {s} /\ known' = known \ {s}
            /\ outgoing' \in IF q.clients # <<>> /\ Uncrowded THEN Notices ELSE {<<>>}

Next ==
    \/ \E k \in Sockets : Request(k) \/ HandleSend(k)
    \/ \E beat \in BOOLEAN : Heartbeat(beat)

Spec == Init /\ [][Next]_vars

-----------------------------------------------------------------------------
(* Properties. *)

\* A socket's request is waiting for its session, or for the lobby, or its one answer is being
\* written: it is never answered twice, nor read the next request before (the keepalive of
\* close_ajax, queue_msg, the heartbeat and status_change all answer sockets found in maps).
OneReplyPerRequest == \A k \in Sockets :
    /\ k \in waiting => k \notin lobby /\ writing[k] = <<>>
    /\ k \in lobby => writing[k] = <<>>
    /\ Len(writing[k]) <= 1

\* The server's maps agree: a waiting socket has a session ("UNKNOWN SOCKET", tbs_server.cpp),
\* which the server knows; the socket a session waits on waits, and is that session's; a
\* socket on which a request may come has none ("Invalid session", tbs_server_base.cpp); and a
\* session has the game exactly while the game has it among its clients, once.
MapsAgree ==
    /\ \A k \in waiting : connection[k] \in known
    /\ \A s \in Sessions : waiter[s] # None => waiter[s] \in waiting /\ connection[waiter[s]] = s
    /\ \A k \in Sockets : ~Busy(k) => connection[k] = None
    /\ Range(clients) = ingame /\ IsInjective(clients)

\* A session on which a request waits to be answered at once has nothing queued: no message
\* stays behind although its client is there to take it.
NothingStranded == \A s \in Sessions : waiter[s] # None => msg_queue[s] = <<>>

\* Every message for a session is first written in order, none left out or taken twice, over
\* whichever sockets and by whichever of queue_msg, close_ajax and the heartbeat: what is
\* queued continues what was written last, up to the message queued last.  An answer whose
\* write failed is queued again as a whole; Own passes over it, so that nothing is said of
\* the order among such answers or of how often one is written.
AnsweredInOrder == \A s \in Sessions :
    LET own == Own(msg_queue[s])
    IN  /\ \A i \in DOMAIN own : own[i] = (written[s] + i) % Stamps
        /\ sent[s] = (written[s] + Len(own)) % Stamps
=============================================================================
