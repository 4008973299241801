------------------------------ MODULE GameSync ------------------------------
(***************************************************************************)
(* How the clients of a turn-based game keep up with the game on the       *)
(* server (src/src/tbs_game.cpp, and the client's half in                  *)
(* src/modules/tbs/data/object_prototypes/game_controller_base.cfg).       *)
(*                                                                         *)
(* The server sends a player its game state as a whole document, or as a   *)
(* delta against the document it sent that player last, whether or not the *)
(* player ever received that one.  The client applies a delta only to the  *)
(* state whose id is the delta's basis, and asks for updates, naming the   *)
(* newest state it knows, whenever it has no request in flight.            *)
(*                                                                         *)
(* A document is represented by the id of the state it was first written   *)
(* for: restoring an old state gives a new id to an old document.  The     *)
(* transport is the server's HTTP long polling, reduced to what tells the  *)
(* clients apart: a session's queue, at most one waiting request, answers  *)
(* that travel on connections of their own and may overtake each other.  A *)
(* local game (g_tbs_server_local) has a lossless FIFO instead.            *)
(*                                                                         *)
(* Bounds: MaxState game states, MaxFaults losses and restarts, at most    *)
(* MaxBacklog answers and messages under way to each player when somebody  *)
(* acts, one action per player under way.  A client is restarted only      *)
(* while no request of the old one is in transit.  Observers, who always   *)
(* get whole states, are left out.                                         *)
(***************************************************************************)
EXTENDS Integers, SequencesExt, FiniteSetsExt

CONSTANTS Players, MaxState, MaxFaults, MaxBacklog

ASSUME GameSyncAssumption ==
    /\ IsFiniteSet(Players) /\ Players # {}
    /\ MaxState \in Nat \ {0} /\ MaxFaults \in Nat /\ MaxBacklog \in Nat

VARIABLES
    local,     \* g_tbs_server_local: a game served on this machine
    state_id,  \* the game's state_id_
    document,  \* the document of each state up to state_id
    replay,    \* the ids recorded in replay_
    player,    \* game::player: what the server believes each player has
    mail,      \* client_info::msg_queue of each player's session
    waiting,   \* is a request of the session waiting, and is its client alive
    requests,  \* requests on their way to the server
    answers,   \* answers on their way to the client, oldest first
    client,    \* the game_controller_base of each player
    faults,    \* losses and restarts so far
    missed     \* has a game message been lost since the last whole state?

game    == <<state_id, document, replay, player>>
network == <<mail, waiting, requests, answers>>
vars    == <<local, game, network, client, faults, missed>>

Ids     == 0 .. MaxState
None    == -1          \* no state yet; also the basis of a whole state
Garbled == MaxState + 1 \* a delta applied to a document it was not made from

PlayerRecord == [state_id_sent : Ids \cup {None}, state_sent : Ids \cup {None},
                 allow_deltas : BOOLEAN, confirmed_state_id : Ids \cup {None}]
Message == [id : Ids, document : Ids, basis : Ids \cup {None}, from : Ids \cup {None}]
           \cup {[id |-> None]}
SyncNotice == [id |-> None]   \* "confirm_sync": no state in it
Request == [type : {"request_updates"}, state_id : Ids \cup {None}, allow_deltas : BOOLEAN]
           \cup [type : {"start_game", "move"}] \cup [type : {"restore_state"}, state_id : Ids]

TypeOK ==
    /\ local \in BOOLEAN
    /\ state_id \in Ids
    /\ document \in [0 .. state_id -> Ids]
    /\ replay \subseteq 0 .. state_id
    /\ player \in [Players -> PlayerRecord]
    /\ \A p \in Players :
          /\ Range(mail[p]) \subseteq Message
          /\ \A i \in DOMAIN answers[p] : Range(answers[p][i]) \subseteq Message
          /\ requests[p] \subseteq Request
          /\ client[p].state_id \in Ids \cup {None}
          /\ client[p].state \in Ids \cup {None, Garbled}
          /\ Range(client[p].queue) \subseteq Message
    /\ waiting \in [Players -> {"no", "live", "dead"}]
    /\ faults \in 0 .. MaxFaults
    /\ missed \in [Players -> BOOLEAN]

NewClient == [state_id |-> None, state |-> None, queue |-> <<>>]

Init ==
    /\ local \in BOOLEAN
    /\ state_id = 0
    /\ document = [i \in {0} |-> 0]
    /\ replay = {}
    /\ player = [p \in Players |-> [state_id_sent |-> None, state_sent |-> None,
                                    allow_deltas |-> FALSE, confirmed_state_id |-> None]]
    /\ mail = [p \in Players |-> <<>>]
    /\ waiting = [p \in Players |-> "no"]
    /\ requests = [p \in Players |-> {}]
    /\ answers = [p \in Players |-> <<>>]
    /\ client = [p \in Players |-> NewClient]
    /\ faults = 0
    /\ missed = [p \in Players |-> FALSE]

-----------------------------------------------------------------------------
(* The server's writing of a state. *)

\* game::write for a player pl: the message for state n with document d
Write(pl, n, d) ==
    IF pl.state_id_sent # None /\ pl.allow_deltas
    THEN [id |-> n, document |-> d, basis |-> pl.state_id_sent, from |-> pl.state_sent]
    ELSE [id |-> n, document |-> d, basis |-> None, from |-> None]

\* Mutant of Written: the state's id is taken after it moves on
WrittenLate(pl, n, d) == [pl EXCEPT !.state_id_sent = n + 1, !.state_sent = d]

\* Mutant of Written: only whole states are recorded
WrittenWhole(pl, n, d) ==
    IF pl.state_id_sent # None /\ pl.allow_deltas THEN pl
    ELSE [pl EXCEPT !.state_id_sent = n, !.state_sent = d]

\* ... and what it records of the player
Written(pl, n, d) == [pl EXCEPT !.state_id_sent = n, !.state_sent = d]

\* game::send_game_state(nplayer): the player record afterwards and the messages queued
SendGameState(pl, n, d) ==
    IF local /\ pl.confirmed_state_id = n
    THEN [player |-> pl, out |-> <<>>]
    ELSE [player |-> [Written(pl, n, d) EXCEPT !.confirmed_state_id =
                         IF local /\ @ # None THEN n ELSE @],
          out |-> <<Write(pl, n, d)>>]

\* Two send_game_state calls of one handler, as restore_state makes them
SendTwice(pl, n1, d1, n2, d2) ==
    LET one == SendGameState(pl, n1, d1)
        two == SendGameState(one.player, n2, d2)
    IN  [player |-> two.player, out |-> one.out \o two.out]

\* game::restore_replay: the first recorded state not before k, or else the last.  When that
\* is the first of the whole replay, its restore_state is called but the commands it returns
\* are dropped, so the game stays as it is.
Restored(k) ==
    LET late == {i \in replay : i >= k}
    IN  IF replay = {} \/ Min(replay) \in late THEN document[state_id]
        ELSE document[IF late # {} THEN Min(late) ELSE Max(replay)]

-----------------------------------------------------------------------------
(* Transport: what a handler's messages do to each session. *)

\* server::queue_msg answers a waiting request with the first message
Answers(p, out) == ~local /\ waiting[p] # "no" /\ out # <<>>
Left(p, out)    == mail[p] \o IF Answers(p, out) THEN Tail(out) ELSE out
Arriving(p, out) == IF Answers(p, out) /\ waiting[p] = "live"
                    THEN Append(answers[p], <<Head(out)>>) ELSE answers[p]

\* flush_game_messages, then close_ajax for the player whose request was handled (none, for
\* the game's own clock): its connection takes the whole queue, or waits.  A local session's
\* pipe takes every message.
Transmit(asking, out) ==
    LET emptied(q) == q \in asking /\ Left(q, out[q]) = <<>>
    IN  /\ mail' = [q \in Players |-> IF local \/ q \in asking THEN <<>> ELSE Left(q, out[q])]
        /\ answers' = [q \in Players |->
              IF local THEN answers[q] \o [i \in DOMAIN out[q] |-> <<out[q][i]>>]
              ELSE IF q \in asking /\ ~emptied(q)
                   THEN Append(Arriving(q, out[q]), Left(q, out[q]))
                   ELSE Arriving(q, out[q])]
        /\ waiting' = [q \in Players |->
              IF local THEN "no" ELSE IF emptied(q) THEN "live"
              ELSE IF Answers(q, out[q]) THEN "no" ELSE waiting[q]]

\* A message written to the connection of a client that is gone
LostOn(q, out) == Answers(q, out) /\ waiting[q] = "dead" /\ Head(out).id # None

HasState(msgs) == \E m \in Range(msgs) : m.id # None
InFlight(p) == Cardinality(requests[p]) + Len(answers[p]) + IF waiting[p] = "live" THEN 1 ELSE 0

Uncrowded == \A p \in Players :
    Len(mail[p]) + Len(answers[p]) + Len(client[p].queue) <= MaxBacklog

\* Room for another state once every restore under way has made its own
Room == MaxState > state_id + Cardinality({q \in Players :
                                 \E r \in requests[q] : r.type = "restore_state"})

-----------------------------------------------------------------------------
(* The client: game_controller_base. *)

\* The messages of s that have a state in them, of type "game", in their order
GameMessages(s) ==
    LET f[i \in 0 .. Len(s)] == IF i = 0 THEN <<>>
                               ELSE IF s[i].id # None THEN Append(f[i - 1], s[i]) ELSE f[i - 1]
    IN  f[Len(s)]

MostRecentKnown(c) == Max({c.state_id} \cup {c.queue[i].id : i \in DOMAIN c.queue})

\* pump_client: ask for updates when nothing is in flight (a local client never counts any)
Poll(p) ==
    /\ IF local THEN requests[p] = {} /\ Uncrowded ELSE InFlight(p) = 0
    /\ requests' = [requests EXCEPT ![p] = @ \cup
          {[type |-> "request_updates", state_id |-> MostRecentKnown(client[p]),
            allow_deltas |-> client[p].state # None]}]
    /\ UNCHANGED <<local, game, mail, waiting, answers, client, faults, missed>>

\* send: the player acts, whatever is in flight; it may start the game before it is sent any
\* state, and moves once it has one
Act(p) ==
    /\ \A r \in requests[p] : r.type = "request_updates"
    /\ local \/ InFlight(p) < 2
    /\ Uncrowded
    /\ \E r \in Request :
          /\ r.type # "request_updates"
          /\ r.type = "start_game" => player[p].state_id_sent = None
          /\ r.type = "move" => client[p].state # None
          /\ r.type = "restore_state" => client[p].state # None /\ Room /\ r.state_id <= state_id
          /\ requests' = [requests EXCEPT ![p] = @ \cup {r}]
    /\ UNCHANGED <<local, game, mail, waiting, answers, client, faults, missed>>

\* recv_handler and message_received: the game messages of an answer join the queue.  An
\* answer that comes before an older one makes the older one useless.
ReceiveAt(p, i) ==
    /\ i \in DOMAIN answers[p]
    /\ client' = [client EXCEPT ![p].queue = @ \o GameMessages(answers[p][i])]
    /\ answers' = [answers EXCEPT ![p] = RemoveAt(@, i)]
    /\ missed' = [missed EXCEPT ![p] = @ \/ (HasState(answers[p][i])
                                             /\ \E j \in 1 .. i - 1 : HasState(answers[p][j]))]
    /\ UNCHANGED <<local, game, mail, waiting, requests, faults>>

Receive(p) == \E i \in DOMAIN answers[p] : (local => i = 1) /\ ReceiveAt(p, i)

\* Mutant of NewState: a delta is applied to whatever state there is
NewStateUnchecked(c, m) ==
    IF m.basis = None THEN m.document
    ELSE IF c.state = None THEN None
    ELSE IF c.state = m.from THEN m.document ELSE Garbled

\* get_game_state_from_delta, or the whole state: None when there is no such base
NewState(c, m) ==
    IF m.basis = None THEN m.document
    ELSE IF c.state = None \/ c.state_id # m.basis THEN None
    ELSE IF c.state = m.from THEN m.document ELSE Garbled

\* process: take the oldest game message, _process_game_state
Apply(p) ==
    LET c == client[p]
        m == Head(c.queue)
    IN  /\ c.queue # <<>>
        /\ client' = [client EXCEPT ![p] =
              IF m.id > c.state_id /\ NewState(c, m) # None
              THEN [state_id |-> m.id, state |-> NewState(c, m), queue |-> Tail(c.queue)]
              ELSE [c EXCEPT !.queue = Tail(@)]]
        /\ UNCHANGED <<local, game, network, faults, missed>>

-----------------------------------------------------------------------------
(* The server: game::handle_message and what sends its messages. *)

\* A handled request that does not change the game's own state
KeepGame == UNCHANGED <<state_id, document, replay>>

\* Mutant of Asked: once allowed, deltas stay allowed
AskedOnce(pl, r) == [pl EXCEPT !.allow_deltas = @ \/ r.allow_deltas]

\* request_updates: whether the player takes deltas
Asked(pl, r) == [pl EXCEPT !.allow_deltas = r.allow_deltas]

\* Mutant of Noted: the player is taken to have what it is about to be sent
NotedCurrent(pl, r) ==
    IF ~local \/ pl.confirmed_state_id = None
    THEN [pl EXCEPT !.confirmed_state_id = state_id] ELSE pl

\* ... and which state it has, if it is behind
Noted(pl, r) ==
    IF ~local \/ pl.confirmed_state_id = None
    THEN [pl EXCEPT !.confirmed_state_id = r.state_id] ELSE pl

\* request_updates: a player that is behind is sent the state, one newly in step is announced
HandleUpdates(p) == \E r \in requests[p] :
    LET asked == Asked(player[p], r)
        sent  == SendGameState(Noted(asked, r), state_id, document[state_id])
        behind  == r.state_id # state_id
        confirm == ~behind /\ asked.confirmed_state_id # state_id
        out == [q \in Players |->
                   IF q = p THEN IF behind THEN sent.out ELSE <<>>
                   ELSE IF confirm THEN <<SyncNotice>> ELSE <<>>]
    IN  /\ r.type = "request_updates"
        /\ requests' = [requests EXCEPT ![p] = @ \ {r}]
        /\ player' = [player EXCEPT ![p] =
              CASE behind  -> sent.player
                [] confirm -> [asked EXCEPT !.confirmed_state_id = state_id]
                [] ~behind /\ ~confirm -> asked]
        /\ Transmit({p}, out)
        /\ missed' = [q \in Players |->
              \/ LostOn(q, out[q])
              \/ missed[q] /\ ~(q = p /\ behind /\ ~r.allow_deltas)]
        /\ KeepGame
        /\ UNCHANGED <<local, client, faults>>

\* send_game_state(-1), after which every player's record and messages are sent[p]
SendToAll(asking, sent) ==
    LET out == [q \in Players |-> sent[q].out]
    IN  /\ player' = [q \in Players |-> sent[q].player]
        /\ Transmit(asking, out)
        /\ missed' = [q \in Players |-> missed[q] \/ LostOn(q, out[q])]
        /\ UNCHANGED <<local, client, faults>>

\* The game moves on to state n with document d, and the replay records it
Advance(n, d) ==
    /\ state_id' = n
    /\ document' = [i \in 0 .. n |-> IF i <= state_id THEN document[i] ELSE d[i]]
    /\ replay' = replay \cup {state_id + 1, n}

\* start_game: everybody is sent the state as it is.  The game's own restart, called before
\* that, is tbs_game_base's, which does nothing; a module may define another.
HandleStart(p) ==
    /\ [type |-> "start_game"] \in requests[p]
    /\ requests' = [requests EXCEPT ![p] = @ \ {[type |-> "start_game"]}]
    /\ SendToAll({p}, [q \in Players |-> SendGameState(player[q], state_id, document[state_id])])
    /\ KeepGame

\* Any other message goes to the game, which moves on if it is that player's turn; the
\* state is sent to everybody and recorded in either case
HandleMove(p) ==
    /\ [type |-> "move"] \in requests[p]
    /\ requests' = [requests EXCEPT ![p] = @ \ {[type |-> "move"]}]
    /\ \/ /\ Room
          /\ Advance(state_id + 1, [i \in Ids |-> i])
       \/ /\ replay' = replay \cup {state_id}
          /\ UNCHANGED <<state_id, document>>
    /\ SendToAll({p}, [q \in Players |-> SendGameState(player[q], state_id', document'[state_id'])])

\* restore_state: an old document under a new id is sent, and then the message goes to the
\* game like any other, which sends the state again
HandleRestore(p) == \E r \in requests[p] :
    LET n == state_id + 1
        d == Restored(r.state_id)
    IN  /\ r.type = "restore_state"
        /\ requests' = [requests EXCEPT ![p] = @ \ {r}]
        /\ \/ Advance(n, [i \in Ids |-> d])
           \/ /\ Room
              /\ Advance(n + 1, [i \in Ids |-> IF i = n THEN d ELSE i])
        /\ SendToAll({p}, [q \in Players |->
              SendTwice(player[q], n, d, state_id', document'[state_id'])])

HandleAction(p) == HandleStart(p) \/ HandleMove(p) \/ HandleRestore(p)

\* game::process: the game's own clock moves it on
Process ==
    /\ Room
    /\ Uncrowded
    /\ Advance(state_id + 1, [i \in Ids |-> i])
    /\ SendToAll({}, [q \in Players |-> SendGameState(player[q], state_id', document'[state_id'])])
    /\ UNCHANGED requests

\* A request of somebody outside Players, an observer or another player: a message that does
\* not move the game has its state sent again, and a player in step is announced
Elsewhere ==
    /\ Uncrowded
    /\ \/ /\ replay' = replay \cup {state_id}
          /\ SendToAll({}, [q \in Players |->
                               SendGameState(player[q], state_id, document[state_id])])
       \/ /\ SendToAll({}, [q \in Players |-> [player |-> player[q], out |-> <<SyncNotice>>]])
          /\ UNCHANGED replay
    /\ UNCHANGED <<state_id, document, requests>>

\* The hundredth tick answers a request that has waited (heartbeat_internal)
Heartbeat(p) ==
    /\ waiting[p] # "no"
    /\ answers' = [answers EXCEPT ![p] = IF waiting[p] = "live" THEN Append(@, <<>>) ELSE @]
    /\ waiting' = [waiting EXCEPT ![p] = "no"]
    /\ UNCHANGED <<local, game, mail, requests, client, faults, missed>>

-----------------------------------------------------------------------------
(* Faults of the network and the client. *)

\* A connection breaks: a request, an answer, or the wait for one is lost
Lose(p) ==
    /\ ~local /\ faults < MaxFaults
    /\ faults' = faults + 1
    /\ \/ /\ \E r \in requests[p] : requests' = [requests EXCEPT ![p] = @ \ {r}]
          /\ UNCHANGED <<answers, waiting, missed>>
       \/ /\ \E i \in DOMAIN answers[p] :
                /\ answers' = [answers EXCEPT ![p] = RemoveAt(@, i)]
                /\ missed' = [missed EXCEPT ![p] = @ \/ HasState(answers[p][i])]
          /\ UNCHANGED <<requests, waiting>>
       \/ /\ waiting[p] = "live"
          /\ waiting' = [waiting EXCEPT ![p] = "dead"]
          /\ UNCHANGED <<requests, answers, missed>>
    /\ UNCHANGED <<local, game, mail, client>>

\* The player comes back with a new client and the old session
Restart(p) ==
    /\ ~local /\ faults < MaxFaults /\ requests[p] = {}
    /\ faults' = faults + 1
    /\ client' = [client EXCEPT ![p] = NewClient]
    /\ answers' = [answers EXCEPT ![p] = <<>>]
    /\ waiting' = [waiting EXCEPT ![p] = IF @ = "live" THEN "dead" ELSE @]
    /\ missed' = [missed EXCEPT ![p] = TRUE]
    /\ UNCHANGED <<local, game, mail, requests>>

Next ==
    \/ Process \/ Elsewhere
    \/ \E p \in Players :
          \/ Poll(p) \/ Act(p) \/ Receive(p) \/ Apply(p)
          \/ HandleUpdates(p) \/ HandleAction(p) \/ Heartbeat(p)
          \/ Lose(p) \/ Restart(p)

Spec == Init /\ [][Next]_vars

\* The client polls and processes every frame, TCP delivers what it does not lose, and the
\* server handles what arrives and answers waiting requests on its clock.  A local client polls
\* even when MaxBacklog keeps this one from it: hence the strong fairness.
Fairness == \A p \in Players :
    /\ WF_vars(Poll(p)) /\ SF_vars(local /\ Poll(p))
    /\ WF_vars(Apply(p)) /\ WF_vars(ReceiveAt(p, 1))
    /\ WF_vars(HandleUpdates(p)) /\ WF_vars(HandleAction(p)) /\ WF_vars(Heartbeat(p))

FairSpec == Spec /\ Fairness

-----------------------------------------------------------------------------
(* Properties. *)

\* A client that has a state has the server's document of the state with that id: no loss,
\* reordering, restart or restoring of old states makes it apply a delta to anything but the
\* document the delta was made from (game::write and get_game_state_from_delta).
ClientStateTrue == \A p \in Players :
    client[p].state # None => client[p].state = document[client[p].state_id]

\* The game messages a player has yet to process, in the order they were sent
Pending(p) == client[p].queue \o GameMessages(FlattenSeq(answers[p]) \o mail[p])

\* As long as no message was lost since the last whole state, what is on its way to a client
\* is a chain: every delta is against the message before it, the first against the state the
\* client has, and the last message carries the state that the server believes the player
\* has (state_id_sent), the basis of the next delta.
ChainUnbroken == \A p \in Players :
    LET todo == Pending(p)
    IN  ~missed[p] =>
          /\ \A i \in 2 .. Len(todo) : todo[i].basis \in {None, todo[i - 1].id}
          /\ todo # <<>> =>
                /\ player[p].state_id_sent = Last(todo).id
                /\ IF client[p].state # None
                   THEN todo[1].basis \in {None, client[p].state_id}
                   ELSE \E m \in Range(todo) : m.basis = None
          /\ todo = <<>> => player[p].state_id_sent = client[p].state_id

\* What send_game_state does not send again to a player of a local game, because it is
\* confirmed, the player has or is about to receive.
NothingWithheld == \A p \in Players :
    local /\ player[p].confirmed_state_id = state_id =>
        \/ client[p].state_id = state_id
        \/ \E m \in Range(Pending(p)) : m.id = state_id

\* A client whose state is the basis of nothing the server will send any more
Stranded(p) == missed[p] /\ client[p].state # None

\* Whatever else is going on, every client is again and again where the game is, except a
\* client with a state that missed a message.  As state_id only grows, the client thus gets
\* every state the game reaches, or a later one.
CatchesUp == \A p \in Players : []<>(client[p].state_id = state_id \/ Stranded(p))

\* "When we request updates we send the last known state ID we received, and the server will
\* update us if something newer is avilaable" (bot_base.cfg:5-7), without the exception: a
\* client that asks for ever gets every state or a later one.
ServerUpdatesClient == \A p \in Players : \A k \in Ids :
    state_id >= k ~> client[p].state_id >= k
=============================================================================
