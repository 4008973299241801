----------------------------- MODULE HttpClient -----------------------------
(***************************************************************************)
(* The HTTP client that turn-based games, matchmaking and statistics talk  *)
(* to their servers with (src/src/http_client.cpp).                        *)
(*                                                                         *)
(* Each request goes through the callbacks of boost::asio: look the host   *)
(* up, connect, send, receive.  The connections share what is left to try  *)
(* of the list of endpoints, the state of the lookup, the sockets that     *)
(* answered requests leave behind, and the count in_flight_.  A request    *)
(* fails or is sent again on an error, and, for a client that times out,   *)
(* when nothing comes for too long.                                        *)
(*                                                                         *)
(* Every callback runs in process() on one thread; a handler may send the  *)
(* next request before the callback that called it goes on (handling).     *)
(* Requests are sent with num_retries 0, as every caller does.  Writing    *)
(* and reading in pieces, the fake lag and exceptions of asio are left     *)
(* out, as is allow_keepalive_, which nothing sets; an attempt_num past 7  *)
(* and a num_retries below -2 act as these.                                *)
(***************************************************************************)
EXTENDS Integers, FiniteSets

CONSTANTS Requests,    \* the requests a client may have under way
          Endpoints    \* how many endpoints the lookup finds

ASSUME HttpClientAssumption == IsFiniteSet(Requests) /\ Endpoints \in Nat \ {0}

VARIABLES
    timeout_and_retry,  \* set_timeout_and_retry
    serial,             \* does the caller wait for an answer before it sends again
    resolution_state,
    endpoint,           \* endpoint_iterator_: Endpoints is the end of the list
    in_flight,
    usable,             \* how many sockets are in usable_connections_
    conn,               \* the Connection of each request
    answers,            \* how often a request's handlers were called
    handling            \* a handler runs, whose socket is to be kept after it

options == <<timeout_and_retry, serial>>
state   == <<resolution_state, endpoint, in_flight, usable, conn, answers>>
vars    == <<options, state, handling>>

Phases == {"idle", "resolving", "waiting_on_dns", "connecting", "sending", "receiving"}
Idle == [phase |-> "idle"]

\* A Connection: resolve_itor of its handle_connect while it connects, retry_on_error, whether it has a
\* retry_fn, and that function's num_retries and attempt_num
Connection == [phase : Phases \ {"idle"}, from : 0 .. Endpoints + 1, retry_on_error : -2 .. 1,
               retry_fn : BOOLEAN, num_retries : -2 .. 0, attempt : 2 .. 7]

Active(r) == conn[r].phase # "idle"

TypeOK ==
    /\ timeout_and_retry \in BOOLEAN /\ serial \in BOOLEAN
    /\ resolution_state \in {"NOT_STARTED", "IN_PROGRESS", "DONE"}
    /\ endpoint \in 0 .. Endpoints + 1
    /\ in_flight \in 0 .. Cardinality(Requests)
    /\ usable \in 0 .. Cardinality(Requests) + 1
    /\ conn \in [Requests -> Connection \cup {Idle}]
    /\ handling \in BOOLEAN

Init ==
    /\ timeout_and_retry \in BOOLEAN /\ serial \in BOOLEAN
    /\ resolution_state = "NOT_STARTED" /\ endpoint = Endpoints
    /\ in_flight = 0 /\ usable = 0
    /\ conn = [r \in Requests |-> Idle]
    /\ answers = [r \in Requests |-> 1]
    /\ handling = FALSE

-----------------------------------------------------------------------------
(* Steps of the callbacks, on records of the state they change. *)

S == [resolution |-> resolution_state, endpoint |-> endpoint, in_flight |-> in_flight,
      usable |-> usable, conn |-> conn, answers |-> answers]

\* Incrementing the end of the list of endpoints ends the program
Become(s) ==
    /\ endpoint <= Endpoints
    /\ resolution_state' = s.resolution /\ endpoint' = s.endpoint
    /\ in_flight' = s.in_flight /\ usable' = s.usable
    /\ conn' = s.conn /\ answers' = s.answers

\* A request's handler or error_handler is called
Answered(s, r) == [s EXCEPT !.conn[r] = Idle, !.answers[r] = @ + 1]

\* ... after it has ceased to be in flight
Landed(s) == [s EXCEPT !.in_flight = @ - 1]

AtLeast(least, n) == IF n < least THEN least ELSE n
AtMost(most, n)   == IF n > most THEN most ELSE n

\* The Connection of a request sent for the a-th time with n retries
Fresh(s, n, a) ==
    LET reused == s.usable > 0
    IN  [phase |-> CASE reused -> "sending"
                     [] ~reused /\ s.resolution = "NOT_STARTED" -> "resolving"
                     [] ~reused /\ s.resolution = "IN_PROGRESS" -> "waiting_on_dns"
                     [] ~reused /\ s.resolution = "DONE" -> "connecting",
         from |-> IF ~reused /\ s.resolution = "DONE" THEN s.endpoint ELSE 0,
         retry_on_error |-> IF reused THEN n + 1 ELSE n,
         retry_fn |-> reused \/ n # 0 \/ timeout_and_retry,
         num_retries |-> IF reused THEN n ELSE AtLeast(-2, n - 1),
         attempt |-> AtMost(7, a + 1)]

\* Mutant of SendRequest: no attempt is the last.
SendRequestForever(s, r, n, a) ==
    [s EXCEPT !.in_flight = @ + 1,
              !.conn[r] = Fresh(s, n, a),
              !.usable = AtLeast(0, @ - 1),
              !.resolution = IF s.usable = 0 /\ @ = "NOT_STARTED" THEN "IN_PROGRESS" ELSE @]

\* send_request
SendRequest(s, r, n, a) ==
    IF s.in_flight = 0 /\ a > 6 THEN Answered(s, r)
    ELSE [s EXCEPT !.in_flight = @ + 1,
                   !.conn[r] = Fresh(s, n, a),
                   !.usable = AtLeast(0, @ - 1),
                   !.resolution = IF s.usable = 0 /\ @ = "NOT_STARTED" THEN "IN_PROGRESS" ELSE @]

\* retry_fn
Retry(s, r) == SendRequest(s, r, conn[r].num_retries, conn[r].attempt)

\* async_connect
Connecting(s, rs) == [s EXCEPT !.conn = [r \in Requests |->
    IF r \in rs THEN [@[r] EXCEPT !.phase = "connecting", !.from = s.endpoint] ELSE @[r]]]

InPhase(r, phase) == ~handling /\ conn[r].phase = phase
Step(s) == Become(s) /\ UNCHANGED <<options, handling>>

-----------------------------------------------------------------------------
(* The caller, and the callbacks. *)

\* A new request, perhaps from a handler
Request(r) ==
    /\ ~Active(r) /\ (serial => \A q \in Requests : ~Active(q))
    /\ Step(SendRequest([S EXCEPT !.answers[r] = 0], r, 0, 1))

\* handle_resolve.  A failed lookup leaves the state as it is.
HandleResolve(r) ==
    /\ InPhase(r, "resolving")
    /\ \/ Step(Connecting([S EXCEPT !.endpoint = 0], {r}))
       \/ Step(Answered(Landed(S), r))

\* Mutant of ConnectFails: after the last endpoint the lookup still counts as good.
ConnectFailsDone(r) ==
    LET next == IF endpoint = conn[r].from THEN AtMost(Endpoints + 1, endpoint + 1) ELSE endpoint
        s    == [S EXCEPT !.endpoint = next]
    IN  /\ InPhase(r, "connecting")
        /\ Step(IF next = Endpoints THEN Answered(Landed(s), r) ELSE Connecting(s, {r}))

\* Mutant of ConnectFails: the request stays in flight.
ConnectFailsInFlight(r) ==
    LET next == IF endpoint = conn[r].from THEN AtMost(Endpoints + 1, endpoint + 1) ELSE endpoint
        s    == [S EXCEPT !.endpoint = next]
    IN  /\ InPhase(r, "connecting")
        /\ Step(IF next = Endpoints
                THEN Answered([s EXCEPT !.resolution = "NOT_STARTED"], r)
                ELSE Connecting(s, {r}))

\* handle_connect with an error: the next endpoint, if this one is still the next to try
ConnectFails(r) ==
    LET next == IF endpoint = conn[r].from THEN AtMost(Endpoints + 1, endpoint + 1) ELSE endpoint
        s    == [S EXCEPT !.endpoint = next]
    IN  /\ InPhase(r, "connecting")
        /\ Step(IF next = Endpoints
                THEN Answered(Landed([s EXCEPT !.resolution = "NOT_STARTED"]), r)
                ELSE Connecting(s, {r}))

\* handle_connect: whoever waits for the lookup may connect
Connects(r) ==
    LET waiting == IF resolution_state = "DONE" THEN {}
                   ELSE {q \in Requests : conn[q].phase = "waiting_on_dns"}
        s       == Connecting([S EXCEPT !.resolution = "DONE"], waiting)
    IN  /\ InPhase(r, "connecting") /\ conn[r].from < Endpoints
        /\ Step([s EXCEPT !.conn[r].phase = "sending", !.conn[r].from = 0])

\* Mutant of HandleSend: the error is reported, and the request sent again all the same.
HandleSendBoth(r) ==
    LET error == [Landed(S) EXCEPT !.answers[r] = @ + 1]
    IN  /\ InPhase(r, "sending")
        /\ \/ Step([S EXCEPT !.conn[r].phase = "receiving"])
           \/ Step(IF conn[r].retry_fn /\ conn[r].retry_on_error > 0
                   THEN Retry(error, r) ELSE Answered(Landed(S), r))

\* handle_send
HandleSend(r) ==
    /\ InPhase(r, "sending")
    /\ \/ Step([S EXCEPT !.conn[r].phase = "receiving"])
       \/ Step(IF conn[r].retry_fn /\ conn[r].retry_on_error > 0
               THEN Retry(Landed(S), r) ELSE Answered(Landed(S), r))

\* handle_receive with the whole answer: the socket is kept once the handler returns
Receives(r) ==
    /\ InPhase(r, "receiving")
    /\ Become(Answered(Landed(S), r))
    /\ handling' = TRUE
    /\ UNCHANGED options

\* handle_receive with an error, which also ends an answer that names no length
ReceiveFails(r) ==
    /\ InPhase(r, "receiving")
    /\ IF conn[r].retry_fn /\ conn[r].retry_on_error # 0
       THEN Step(Retry(Landed(S), r))
       ELSE Step(Answered(Landed(S), r))

\* The handler returns: usable_connections_ gets the socket
Return ==
    /\ handling /\ handling' = FALSE
    /\ usable' = usable + 1
    /\ UNCHANGED <<options, resolution_state, endpoint, in_flight, conn, answers>>

\* process: nothing came of the request for too long
TimesOut(r) ==
    LET s == Landed(S)
    IN  /\ timeout_and_retry /\ ~handling /\ Active(r) /\ conn[r].retry_fn
        /\ Step(Retry([s EXCEPT !.resolution = IF @ = "IN_PROGRESS" THEN "NOT_STARTED" ELSE @], r))

Callback(r) == \/ HandleResolve(r) \/ ConnectFails(r) \/ Connects(r)
               \/ HandleSend(r) \/ Receives(r) \/ ReceiveFails(r)

Next == Return \/ \E r \in Requests : Request(r) \/ Callback(r) \/ TimesOut(r)

Spec == Init /\ [][Next]_vars

\* A handler returns, and a client that times out does so.  Only for one that does not is
\* every lookup, connection, write and read assumed to end, well or not.
Fairness == /\ WF_vars(Return)
            /\ \A r \in Requests : /\ WF_vars(TimesOut(r))
                                   /\ WF_vars(~timeout_and_retry /\ Callback(r))

FairSpec == Spec /\ Fairness

-----------------------------------------------------------------------------
(* Properties. *)

\* Exactly one of a request's handlers is called, once, and no callback is left of it then:
\* errors, retries and timeouts do not answer it twice or never.  in_flight_ counts the
\* requests that were sent and not answered: the game polls only when it is 0, and a request
\* gives up after its sixth attempt only then.
AnsweredOnce ==
    /\ \A r \in Requests : answers[r] = IF Active(r) THEN 0 ELSE 1
    /\ in_flight = Cardinality({r \in Requests : Active(r)})

\* resolution_state_ tells "whether the endpoint_iterator_ points to a valid endpoint that we
\* can connect to" (http_client.hpp), and no connection is begun past the end of the list,
\* for a caller that sends one request at a time.
EndpointValid ==
    serial => /\ resolution_state = "DONE" => endpoint < Endpoints
              /\ \A r \in Requests : conn[r].phase = "connecting" => conn[r].from < Endpoints

\* A lookup nobody waits for the end of: requests that join it wait for ever
LookupAbandoned == resolution_state = "IN_PROGRESS"
                   /\ \A r \in Requests : conn[r].phase \notin {"resolving", "connecting"}

\* Every request of a caller that sends one at a time is answered: by its sixth attempt if
\* the client times out, whatever the network does, and else by the network unless a lookup
\* failed before.
EveryRequestEnds == \A r \in Requests :
    serial /\ Active(r) ~> ~Active(r) \/ (~timeout_and_retry /\ LookupAbandoned)
=============================================================================
