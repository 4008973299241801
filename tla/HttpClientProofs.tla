-------------------------- MODULE HttpClientProofs ---------------------------
(***************************************************************************)
(* Proofs about HttpClient, for any number of requests and endpoints.      *)
(*                                                                         *)
(* A callback computes a new record of the state in steps.  Sound says     *)
(* what holds of the record between two callbacks, Between what holds of   *)
(* it inside one, while a request has ceased to be in flight and is        *)
(* neither answered nor sent again; each proof follows a callback from the *)
(* one to the other and back.                                              *)
(***************************************************************************)
EXTENDS HttpClient, FiniteSetTheorems, TLAPS

Records == [resolution : {"NOT_STARTED", "IN_PROGRESS", "DONE"}, endpoint : 0 .. Endpoints + 1,
            in_flight : Nat, usable : Nat, conn : [Requests -> Connection \cup {Idle}],
            answers : [Requests -> Nat]]

\* The requests that were sent and not answered
Busy(s) == {r \in Requests : s.conn[r].phase # "idle"}

\* The next endpoint to try exists, for a caller that sends one request at a time
EndpointLeft(s) == s.resolution = "DONE" => s.endpoint < Endpoints

\* Between two callbacks, h of which wait for a handler to return: each request is sent or
\* answered, once, and no more sockets are open than requests may need at once.
Sound(s, h) ==
    /\ s \in Records
    /\ \A r \in Requests : s.answers[r] = IF r \in Busy(s) THEN 0 ELSE 1
    /\ s.in_flight = Cardinality(Busy(s))
    /\ s.usable + s.in_flight + h <= Cardinality(Requests) + 1
    /\ serial => /\ \A q, r \in Busy(s) : q = r
                 /\ EndpointLeft(s)
                 /\ \A r \in Requests : s.conn[r].phase = "connecting" =>
                       s.conn[r].from = s.endpoint /\ s.endpoint < Endpoints

\* Inside a callback, request r is not counted
Between(s, r, h) ==
    /\ s \in Records
    /\ s.answers[r] = 0
    /\ \A q \in Requests \ {r} : s.answers[q] = IF q \in Busy(s) THEN 0 ELSE 1
    /\ s.in_flight = Cardinality(Busy(s) \ {r})
    /\ s.usable + s.in_flight + h <= Cardinality(Requests) + 1
    /\ serial => Busy(s) \ {r} = {} /\ EndpointLeft(s)

Running == IF handling THEN 1 ELSE 0

IInv == /\ timeout_and_retry \in BOOLEAN /\ serial \in BOOLEAN /\ handling \in BOOLEAN
        /\ Sound(S, Running)

-----------------------------------------------------------------------------
(* Helpers. *)

\* Counting the requests that are under way.
LEMMA BusyFacts ==
    ASSUME NEW B \in SUBSET Requests, NEW r \in Requests
    PROVE  /\ Cardinality(B) \in Nat /\ Cardinality(Requests) \in Nat
           /\ Cardinality(B) <= Cardinality(Requests)
           /\ r \in B => Cardinality(B \ {r}) = Cardinality(B) - 1
           /\ r \notin B => Cardinality(B \cup {r}) = Cardinality(B) + 1
<1>1. IsFiniteSet(Requests)
  BY HttpClientAssumption
<1>2. IsFiniteSet(B) /\ Cardinality(B) <= Cardinality(Requests)
  BY <1>1, FS_Subset
<1>3. Cardinality(B) \in Nat /\ Cardinality(Requests) \in Nat
  BY <1>1, <1>2, FS_CardinalityType
<1>4. r \in B => Cardinality(B \ {r}) = Cardinality(B) - 1
  BY <1>2, FS_RemoveElement
<1>5. r \notin B => Cardinality(B \cup {r}) = Cardinality(B) + 1
  BY <1>2, FS_AddElement
<1> QED
  BY <1>2, <1>3, <1>4, <1>5

\* What is in a record of the state.
LEMMA RecordFacts ==
    ASSUME NEW s \in Records
    PROVE  /\ s.resolution \in {"NOT_STARTED", "IN_PROGRESS", "DONE"}
           /\ s.endpoint \in 0 .. Endpoints + 1 /\ Endpoints \in Nat \ {0}
           /\ s.in_flight \in Nat /\ s.usable \in Nat
           /\ s.conn \in [Requests -> Connection \cup {Idle}]
           /\ s.answers \in [Requests -> Nat]
  BY HttpClientAssumption DEF Records

\* A record of the state stays one when its parts are replaced.
LEMMA UpdateFacts ==
    ASSUME NEW s \in Records, NEW new \in [Requests -> Connection \cup {Idle}]
    PROVE  /\ \A sum \in [Requests -> Nat] : [s EXCEPT !.conn = new, !.answers = sum] \in Records
           /\ \A i, u \in Nat, d \in {"NOT_STARTED", "IN_PROGRESS", "DONE"} :
                 [s EXCEPT !.in_flight = i, !.conn = new, !.usable = u, !.resolution = d] \in Records
  BY DEF Records

\* A connection is in one of its phases; an idle request has none.
LEMMA ConnectionFacts ==
    /\ Idle.phase = "idle"
    /\ \A c \in Connection : /\ c.phase \in Phases \ {"idle"} /\ c.from \in 0 .. Endpoints + 1
                             /\ c.num_retries \in -2 .. 0 /\ c.attempt \in 2 .. 7
                             /\ c.phase # "idle"
  BY DEF Idle, Connection

\* A connection that goes to its next phase.
LEMMA PhaseFacts ==
    ASSUME NEW k \in Connection
    PROVE  /\ [k EXCEPT !.phase = "sending", !.from = 0] \in Connection
           /\ [k EXCEPT !.phase = "sending", !.from = 0].phase = "sending"
           /\ [k EXCEPT !.phase = "receiving"] \in Connection
           /\ [k EXCEPT !.phase = "receiving"].phase = "receiving"
<1>1. 0 \in 0 .. Endpoints + 1
  BY HttpClientAssumption
<1> QED
  BY <1>1 DEF Connection, Phases

\* The callback's record is the state after it.
LEMMA BecomeFacts ==
    ASSUME IInv, NEW s, NEW h, Sound(s, h), Become(s), UNCHANGED options,
           handling' \in BOOLEAN, h = IF handling' THEN 1 ELSE 0
    PROVE  IInv'
<1>1. S' = s
  BY DEF Become, Sound, Records, S
<1>2. serial' = serial /\ timeout_and_retry' = timeout_and_retry
  BY DEF options
<1>3. Running' = h
  BY DEF Running
<1>4. Sound(S, Running)'
  BY <1>1, <1>2, <1>3 DEF Sound, Busy, EndpointLeft
<1> QED
  BY <1>2, <1>4 DEF IInv

\* The state is one of the records.
LEMMA StateFacts ==
    ASSUME IInv
    PROVE  /\ S \in Records
           /\ S.resolution = resolution_state /\ S.endpoint = endpoint /\ S.in_flight = in_flight
           /\ S.usable = usable /\ S.conn = conn /\ S.answers = answers
  BY DEF IInv, Sound, S

-----------------------------------------------------------------------------
(* The steps of the callbacks. *)

\* Once its handler was called, a request is over.
LEMMA AnsweredSound ==
    ASSUME NEW s, NEW r \in Requests, NEW h, Between(s, r, h)
    PROVE  Sound(Answered(s, r), h)
<1> DEFINE t == Answered(s, r)
<1>1. s \in Records
  BY DEF Between
<1>2. /\ t.resolution = s.resolution /\ t.endpoint = s.endpoint /\ t.in_flight = s.in_flight
      /\ t.usable = s.usable /\ t.conn = [s.conn EXCEPT ![r] = Idle]
      /\ t.answers = [s.answers EXCEPT ![r] = @ + 1]
      /\ t \in Records
  <2>1. /\ t.resolution = s.resolution /\ t.endpoint = s.endpoint /\ t.in_flight = s.in_flight
        /\ t.usable = s.usable
    BY <1>1 DEF Answered, Records
  <2>2. t.conn = [s.conn EXCEPT ![r] = Idle]
    BY <1>1 DEF Answered, Records
  <2>3. t.answers = [s.answers EXCEPT ![r] = @ + 1]
    BY <1>1 DEF Answered, Records
  <2>4. t \in Records
    <3>1. /\ [s.conn EXCEPT ![r] = Idle] \in [Requests -> Connection \cup {Idle}]
          /\ [s.answers EXCEPT ![r] = @ + 1] \in [Requests -> Nat]
      BY <1>1, RecordFacts
    <3>2. t = [s EXCEPT !.conn = [s.conn EXCEPT ![r] = Idle],
                        !.answers = [s.answers EXCEPT ![r] = @ + 1]]
      BY <1>1 DEF Answered, Records
    <3> HIDE DEF t
    <3> QED
      BY <1>1, <3>1, <3>2, UpdateFacts
  <2> QED
    BY <2>1, <2>2, <2>3, <2>4
<1> HIDE DEF t
<1>3. Busy(t) = Busy(s) \ {r}
  BY <1>1, <1>2, RecordFacts, ConnectionFacts DEF Busy
<1>4. \A q \in Requests : t.answers[q] = IF q \in Busy(t) THEN 0 ELSE 1
  BY <1>1, <1>2, <1>3, RecordFacts DEF Between
<1>5. ASSUME serial
      PROVE  /\ Busy(t) = {} /\ EndpointLeft(t)
             /\ \A q \in Requests : t.conn[q].phase # "connecting"
  <2>1. Busy(t) = {} /\ EndpointLeft(t)
    BY <1>2, <1>3, <1>5 DEF Between, EndpointLeft
  <2> QED
    BY <2>1 DEF Busy
<1> QED
  BY <1>2, <1>3, <1>4, <1>5 DEF Sound, Between, t

\* Sent, once more or for the first time, a request is under way.
LEMMA SendRequestSound ==
    ASSUME NEW s, NEW r \in Requests, NEW h \in {0, 1}, Between(s, r, h),
           NEW n \in -2 .. 0, NEW a \in 1 .. 7
    PROVE  Sound(SendRequest(s, r, n, a), h)
<1> DEFINE t == SendRequest(s, r, n, a)
           c == Fresh(s, n, a)
<1>1. s \in Records
  BY DEF Between
<1>2. CASE s.in_flight = 0 /\ a > 6
  BY <1>2, AnsweredSound DEF SendRequest
<1>3. CASE ~(s.in_flight = 0 /\ a > 6)
  <2>1. /\ c \in Connection
        /\ c.phase = "connecting" => s.resolution = "DONE" /\ c.from = s.endpoint
    <3>1. /\ n + 1 \in -2 .. 1 /\ n \in -2 .. 1 /\ AtLeast(-2, n - 1) \in -2 .. 0
          /\ AtMost(7, a + 1) \in 2 .. 7
      BY DEF AtLeast, AtMost
    <3>2. /\ c.from \in 0 .. Endpoints + 1
          /\ c.phase \in Phases \ {"idle"}
          /\ c.phase = "connecting" => s.resolution = "DONE" /\ c.from = s.endpoint
      BY <1>1, RecordFacts DEF Fresh, Phases
    <3>3. c.retry_fn \in BOOLEAN
      BY DEF Fresh
    <3> QED
      BY <3>1, <3>2, <3>3 DEF Fresh, Connection
  <2> HIDE DEF c
  <2>2. /\ t.endpoint = s.endpoint /\ t.in_flight = s.in_flight + 1
        /\ t.usable = AtLeast(0, s.usable - 1) /\ t.conn = [s.conn EXCEPT ![r] = c]
        /\ t.answers = s.answers
        /\ t.resolution \in {s.resolution, "IN_PROGRESS"}
        /\ t \in Records
    <3>1. t = [s EXCEPT !.in_flight = @ + 1, !.conn[r] = c, !.usable = AtLeast(0, @ - 1),
                  !.resolution = IF s.usable = 0 /\ @ = "NOT_STARTED" THEN "IN_PROGRESS" ELSE @]
      BY <1>3 DEF SendRequest, c
    <3>2. AtLeast(0, s.usable - 1) \in Nat
      BY <1>1, RecordFacts DEF AtLeast
    <3>3. /\ t.endpoint = s.endpoint /\ t.in_flight = s.in_flight + 1
          /\ t.usable = AtLeast(0, s.usable - 1) /\ t.conn = [s.conn EXCEPT ![r] = c]
          /\ t.answers = s.answers
          /\ t.resolution \in {s.resolution, "IN_PROGRESS"}
      <4> HIDE DEF t
      <4> QED
        BY <1>1, <3>1 DEF Records
    <3>4. t \in Records
      <4>1. /\ [s.conn EXCEPT ![r] = c] \in [Requests -> Connection \cup {Idle}]
            /\ s.in_flight + 1 \in Nat
            /\ (IF s.usable = 0 /\ s.resolution = "NOT_STARTED" THEN "IN_PROGRESS" ELSE s.resolution)
                  \in {"NOT_STARTED", "IN_PROGRESS", "DONE"}
        BY <1>1, <2>1, RecordFacts
      <4>2. t = [s EXCEPT !.in_flight = s.in_flight + 1, !.conn = [s.conn EXCEPT ![r] = c],
                          !.usable = AtLeast(0, s.usable - 1),
                          !.resolution = IF s.usable = 0 /\ s.resolution = "NOT_STARTED"
                                         THEN "IN_PROGRESS" ELSE s.resolution]
        <5> HIDE DEF t
        <5> QED
          BY <1>1, <3>1 DEF Records
      <4> HIDE DEF t
      <4> QED
        BY <1>1, <3>2, <4>1, <4>2, UpdateFacts
    <3> QED
      BY <3>3, <3>4
  <2> HIDE DEF t
  <2>3. Busy(t) = (Busy(s) \ {r}) \cup {r}
    BY <1>1, <2>1, <2>2, RecordFacts, ConnectionFacts DEF Busy
  <2>4. \A q \in Requests : t.answers[q] = IF q \in Busy(t) THEN 0 ELSE 1
    BY <2>2, <2>3 DEF Between
  <2>5. t.in_flight = Cardinality(Busy(t)) /\ t.in_flight <= Cardinality(Requests)
    <3> DEFINE B == Busy(s) \ {r}
    <3>1. B \in SUBSET Requests /\ Busy(t) \in SUBSET Requests /\ r \notin B
      BY DEF Busy
    <3>2. Cardinality(Busy(t)) = Cardinality(B) + 1
      BY <2>3, <3>1, BusyFacts
    <3>3. s.in_flight = Cardinality(B)
      BY DEF Between
    <3>4. Cardinality(Busy(t)) <= Cardinality(Requests)
      BY <3>1, BusyFacts
    <3> QED
      BY <2>2, <3>2, <3>3, <3>4
  <2>6. t.usable + t.in_flight + h <= Cardinality(Requests) + 1
    <3>1. /\ s.usable + s.in_flight + h <= Cardinality(Requests) + 1
          /\ s.usable \in Nat /\ s.in_flight \in Nat /\ Cardinality(Requests) \in Nat
      BY <1>1, RecordFacts, BusyFacts DEF Between
    <3> QED
      BY <2>2, <2>5, <3>1 DEF AtLeast
  <2>7. ASSUME serial
        PROVE  /\ \A p, q \in Busy(t) : p = q
               /\ EndpointLeft(t)
               /\ \A q \in Requests : t.conn[q].phase = "connecting" =>
                     t.conn[q].from = t.endpoint /\ t.endpoint < Endpoints
    <3>1. Busy(s) \ {r} = {} /\ EndpointLeft(s)
      BY <2>7 DEF Between
    <3>2. EndpointLeft(t)
      BY <2>2, <3>1 DEF EndpointLeft
    <3>3. ASSUME NEW q \in Requests, t.conn[q].phase = "connecting"
          PROVE  t.conn[q].from = t.endpoint /\ t.endpoint < Endpoints
      <4>1. q = r
        BY <2>3, <3>1, <3>3 DEF Busy
      <4>2. t.conn[q] = c
        BY <1>1, <2>2, <4>1, RecordFacts
      <4> QED
        BY <2>1, <2>2, <3>1, <3>3, <4>2 DEF EndpointLeft
    <3> QED
      BY <2>3, <3>1, <3>2, <3>3
  <2> QED
    BY <2>2, <2>4, <2>5, <2>6, <2>7 DEF Sound, t
<1> QED
  BY <1>2, <1>3

\* A request that ceases to be in flight may be answered or sent again.
LEMMA LandedBetween ==
    ASSUME IInv, ~handling, NEW r \in Requests, Active(r), NEW h \in {0, 1}, NEW t \in Records,
           t.conn = conn, t.answers = answers, t.in_flight = in_flight - 1, t.usable = usable,
           serial => EndpointLeft(t)
    PROVE  Between(t, r, h)
<1>1. Sound(S, 0)
  BY DEF IInv, Running
<1>2. Busy(t) = Busy(S) /\ r \in Busy(S) /\ Busy(S) \in SUBSET Requests
  BY StateFacts DEF Busy, Active
<1>3. /\ answers[r] = 0
      /\ \A q \in Requests \ {r} : answers[q] = IF q \in Busy(S) THEN 0 ELSE 1
  BY <1>1, <1>2, StateFacts DEF Sound
<1>4. in_flight - 1 = Cardinality(Busy(S) \ {r})
  BY <1>1, <1>2, BusyFacts, StateFacts DEF Sound
<1>5. usable + (in_flight - 1) + h <= Cardinality(Requests) + 1
  <2>1. usable + in_flight + 0 <= Cardinality(Requests) + 1
    BY <1>1, StateFacts DEF Sound
  <2>2. usable \in Nat /\ in_flight \in Nat /\ Cardinality(Requests) \in Nat
    BY <1>2, StateFacts, RecordFacts, BusyFacts
  <2> QED
    BY <2>1, <2>2
<1>6. serial => Busy(S) \ {r} = {}
  BY <1>1, <1>2 DEF Sound
<1> QED
  BY <1>2, <1>3, <1>4, <1>5, <1>6 DEF Between

\* The record of a request that has landed.
LEMMA LandedFacts ==
    ASSUME IInv, NEW r \in Requests, Active(r), NEW s \in Records, s.conn = conn,
           s.in_flight = in_flight
    PROVE  /\ Landed(s) \in Records /\ Landed(s).conn = conn /\ Landed(s).answers = s.answers
           /\ Landed(s).in_flight = in_flight - 1 /\ Landed(s).usable = s.usable
           /\ Landed(s).resolution = s.resolution /\ Landed(s).endpoint = s.endpoint
<1>1. in_flight - 1 \in Nat
  <2>1. r \in Busy(S) /\ Busy(S) \in SUBSET Requests /\ in_flight = Cardinality(Busy(S))
    BY StateFacts DEF Busy, Active, IInv, Sound
  <2>2. Busy(S) \ {r} \in SUBSET Requests
    BY <2>1
  <2>3. Cardinality(Busy(S) \ {r}) \in Nat /\ Cardinality(Busy(S) \ {r}) = Cardinality(Busy(S)) - 1
    BY <2>1, <2>2, BusyFacts
  <2> QED
    BY <2>1, <2>3
<1>2. Landed(s) \in Records
  BY <1>1 DEF Landed, Records
<1> QED
  BY <1>2 DEF Landed, Records

\* A request that goes on counts as it did.
LEMMA GoesOn ==
    ASSUME IInv, NEW t \in Records, Busy(t) = Busy(S),
           t.answers = answers, t.in_flight = in_flight, t.usable = usable,
           serial => EndpointLeft(t),
           serial => \A q \in Requests : t.conn[q].phase = "connecting" =>
                        t.conn[q].from = t.endpoint /\ t.endpoint < Endpoints
    PROVE  Sound(t, Running)
  BY StateFacts DEF IInv, Sound

\* Some connections begin to connect to the next endpoint.
LEMMA ConnectingFacts ==
    ASSUME NEW s \in Records, NEW Q \in SUBSET Requests, \A q \in Q : s.conn[q].phase # "idle"
    PROVE  /\ Connecting(s, Q) \in Records
           /\ Connecting(s, Q).answers = s.answers /\ Connecting(s, Q).in_flight = s.in_flight
           /\ Connecting(s, Q).usable = s.usable /\ Connecting(s, Q).endpoint = s.endpoint
           /\ Connecting(s, Q).resolution = s.resolution
           /\ \A q \in Requests :
                 /\ q \in Q => /\ Connecting(s, Q).conn[q].phase = "connecting"
                               /\ Connecting(s, Q).conn[q].from = s.endpoint
                 /\ q \notin Q => Connecting(s, Q).conn[q] = s.conn[q]
           /\ Busy(Connecting(s, Q)) = Busy(s)
<1> DEFINE new == [q \in Requests |->
                      IF q \in Q THEN [s.conn[q] EXCEPT !.phase = "connecting", !.from = s.endpoint]
                      ELSE s.conn[q]]
           t == Connecting(s, Q)
<1>1. t = [s EXCEPT !.conn = new]
  BY DEF Connecting, Records
<1>2. ASSUME NEW q \in Q
      PROVE  /\ [s.conn[q] EXCEPT !.phase = "connecting", !.from = s.endpoint] \in Connection
             /\ [s.conn[q] EXCEPT !.phase = "connecting", !.from = s.endpoint].phase = "connecting"
             /\ [s.conn[q] EXCEPT !.phase = "connecting", !.from = s.endpoint].from = s.endpoint
  <2>1. s.conn[q] \in Connection /\ s.endpoint \in 0 .. Endpoints + 1
    BY RecordFacts, ConnectionFacts
  <2> QED
    BY <2>1 DEF Connection, Phases
<1>3. new \in [Requests -> Connection \cup {Idle}]
  <2>1. \A q \in Requests : s.conn[q] \in Connection \cup {Idle}
    BY RecordFacts
  <2> QED
    BY <1>2, <2>1
<1>4. /\ \A q \in Requests : /\ q \in Q => new[q].phase = "connecting" /\ new[q].from = s.endpoint
                             /\ q \notin Q => new[q] = s.conn[q]
  BY <1>2
<1> HIDE DEF t, new
<1>5. /\ t.answers = s.answers /\ t.in_flight = s.in_flight /\ t.usable = s.usable
      /\ t.endpoint = s.endpoint /\ t.resolution = s.resolution /\ t.conn = new
  BY <1>1 DEF Records
<1>6. t \in Records
  BY <1>1, <1>3 DEF Records
<1>7. Busy(t) = Busy(s)
  BY <1>4, <1>5 DEF Busy
<1> QED
  BY <1>4, <1>5, <1>6, <1>7 DEF t

-----------------------------------------------------------------------------
(* One step of each kind preserves the invariant. *)

\* A new request.
LEMMA RequestInv == ASSUME IInv, NEW r \in Requests, Request(r) PROVE IInv'
<1> DEFINE t == [S EXCEPT !.answers[r] = 0]
<1>1. /\ ~Active(r)
      /\ serial => \A q \in Requests : ~Active(q)
      /\ Become(SendRequest(t, r, 0, 1)) /\ UNCHANGED options /\ handling' = handling
  BY DEF Request, Step
<1>2. /\ t \in Records /\ t.conn = conn /\ t.in_flight = in_flight /\ t.usable = usable
      /\ t.answers = [answers EXCEPT ![r] = 0] /\ t.resolution = resolution_state
      /\ t.endpoint = endpoint
  <2>1. S \in Records
    BY StateFacts
  <2>2. /\ t.conn = S.conn /\ t.in_flight = S.in_flight /\ t.usable = S.usable
        /\ t.answers = [S.answers EXCEPT ![r] = 0] /\ t.resolution = S.resolution
        /\ t.endpoint = S.endpoint
    BY <2>1 DEF Records
  <2>3. t \in Records
    BY <2>1 DEF Records
  <2> QED
    BY <2>2, <2>3, StateFacts
<1> HIDE DEF t
<1>3. /\ Busy(t) = Busy(S) /\ r \notin Busy(S)
      /\ serial => Busy(S) = {}
  <2>1. ~Active(r) /\ (serial => \A q \in Requests : ~Active(q))
    BY <1>1
  <2>2. t.conn = conn /\ S.conn = conn
    BY <1>2, StateFacts
  <2> QED
    BY <2>1, <2>2 DEF Busy, Active
<1>4. Between(t, r, Running)
  <2>1. /\ \A q \in Requests : answers[q] = IF q \in Busy(S) THEN 0 ELSE 1
        /\ in_flight = Cardinality(Busy(S))
        /\ usable + in_flight + Running <= Cardinality(Requests) + 1
        /\ serial => EndpointLeft(S)
        /\ answers \in [Requests -> Nat]
    BY StateFacts, RecordFacts DEF IInv, Sound
  <2>2. Busy(S) \ {r} = Busy(S)
    BY <1>3
  <2>3. serial => EndpointLeft(t)
    BY <1>2, <2>1, StateFacts DEF EndpointLeft
  <2> QED
    BY <1>2, <1>3, <2>1, <2>2, <2>3 DEF Between
<1>5. Running \in {0, 1} /\ handling \in BOOLEAN
  BY DEF Running, IInv
<1>6. Sound(SendRequest(t, r, 0, 1), Running)
  BY <1>4, <1>5, SendRequestSound
<1> QED
  BY <1>1, <1>5, <1>6, BecomeFacts DEF Running

\* A request that lands is answered.
LEMMA AnsweredInv ==
    ASSUME IInv, ~handling, NEW r \in Requests, Active(r), NEW s \in Records,
           s.conn = conn, s.answers = answers, s.in_flight = in_flight, s.usable = usable,
           serial => EndpointLeft(s), Become(Answered(Landed(s), r)), UNCHANGED options,
           handling' \in BOOLEAN
    PROVE  IInv'
<1> DEFINE h == IF handling' THEN 1 ELSE 0
<1>1. Between(Landed(s), r, h)
  <2>1. /\ Landed(s) \in Records /\ Landed(s).conn = conn /\ Landed(s).answers = answers
        /\ Landed(s).in_flight = in_flight - 1 /\ Landed(s).usable = usable
        /\ serial => EndpointLeft(Landed(s))
    BY LandedFacts DEF EndpointLeft
  <2>2. h \in {0, 1}
    OBVIOUS
  <2> HIDE DEF h
  <2> QED
    BY <2>1, <2>2, LandedBetween
<1>2. Sound(Answered(Landed(s), r), h)
  BY <1>1, AnsweredSound
<1> QED
  BY <1>2, BecomeFacts

\* A request that lands is sent again.
LEMMA RetryInv ==
    ASSUME IInv, ~handling, NEW r \in Requests, Active(r), NEW t \in Records,
           t.conn = conn, t.answers = answers, t.in_flight = in_flight - 1, t.usable = usable,
           serial => EndpointLeft(t), Step(Retry(t, r))
    PROVE  IInv'
<1>1. Between(t, r, 0)
  BY LandedBetween
<1>2. conn[r].num_retries \in -2 .. 0 /\ conn[r].attempt \in 1 .. 7
  <2>1. conn[r] \in Connection
    BY StateFacts, RecordFacts, ConnectionFacts DEF Active
  <2> QED
    BY <2>1, ConnectionFacts
<1>3. Sound(Retry(t, r), 0)
  BY <1>1, <1>2, SendRequestSound DEF Retry
<1>4. Become(Retry(t, r)) /\ UNCHANGED options /\ handling' = handling /\ handling \in BOOLEAN
  BY DEF Step, IInv
<1> QED
  BY <1>3, <1>4, BecomeFacts

\* The host is looked up.
LEMMA HandleResolveInv == ASSUME IInv, NEW r \in Requests, HandleResolve(r) PROVE IInv'
<1> DEFINE s == [S EXCEPT !.endpoint = 0]
           t == Connecting(s, {r})
<1>1. ~handling /\ conn[r].phase = "resolving" /\ Active(r)
  BY DEF HandleResolve, InPhase, Active
<1>2. S \in Records /\ handling \in BOOLEAN /\ (serial => EndpointLeft(S))
  BY DEF IInv, Sound
<1>3. CASE Step(t)
  <2>1. /\ s \in Records /\ s.conn = conn /\ s.answers = answers /\ s.in_flight = in_flight
        /\ s.usable = usable /\ s.endpoint = 0
    <3>1. /\ s \in Records /\ s.conn = S.conn /\ s.answers = S.answers
          /\ s.in_flight = S.in_flight /\ s.usable = S.usable /\ s.endpoint = 0
      BY <1>2, HttpClientAssumption DEF Records
    <3> QED
      BY <3>1, StateFacts
  <2> HIDE DEF s
  <2>2. /\ t \in Records /\ t.answers = answers /\ t.in_flight = in_flight /\ t.usable = usable
        /\ t.endpoint = 0 /\ Busy(t) = Busy(s)
        /\ t.conn[r].from = 0 /\ \A q \in Requests \ {r} : t.conn[q] = conn[q]
    BY <1>1, <2>1, ConnectingFacts
  <2> HIDE DEF t
  <2>3. Busy(t) = Busy(S) /\ r \in Busy(S)
    BY <1>1, <2>1, <2>2, StateFacts DEF Busy
  <2>4. serial => \A q \in Requests : t.conn[q].phase = "connecting" =>
                     t.conn[q].from = t.endpoint /\ t.endpoint < Endpoints
    <3> SUFFICES ASSUME serial, NEW q \in Requests, t.conn[q].phase = "connecting"
                 PROVE  q = r
      BY <2>2, HttpClientAssumption
    <3>1. q \in Busy(S)
      BY <2>3 DEF Busy
    <3> QED
      BY <2>3, <3>1 DEF IInv, Sound
  <2>5. EndpointLeft(t)
    BY <2>2, HttpClientAssumption DEF EndpointLeft
  <2>6. Sound(t, Running)
    BY <2>2, <2>3, <2>4, <2>5, GoesOn
  <2> QED
    BY <1>2, <1>3, <2>6, BecomeFacts DEF Step, Running
<1>4. CASE Step(Answered(Landed(S), r))
  BY <1>1, <1>2, <1>4, AnsweredInv, StateFacts DEF Step
<1> QED
  BY <1>3, <1>4 DEF HandleResolve

\* An endpoint that does not answer.
LEMMA ConnectFailsInv == ASSUME IInv, NEW r \in Requests, ConnectFails(r) PROVE IInv'
<1> DEFINE next == IF endpoint = conn[r].from THEN AtMost(Endpoints + 1, endpoint + 1) ELSE endpoint
           s == [S EXCEPT !.endpoint = next]
           d == [s EXCEPT !.resolution = "NOT_STARTED"]
           t == Connecting(s, {r})
<1>1. /\ ~handling /\ conn[r].phase = "connecting" /\ Active(r)
      /\ Step(IF next = Endpoints THEN Answered(Landed(d), r) ELSE t)
  BY DEF ConnectFails, InPhase, Active
<1>2. /\ S \in Records /\ handling \in BOOLEAN /\ (serial => EndpointLeft(S))
      /\ serial => conn[r].from = endpoint /\ endpoint < Endpoints
      /\ endpoint \in 0 .. Endpoints + 1 /\ Endpoints \in Nat \ {0}
  BY <1>1, StateFacts, RecordFacts DEF IInv, Sound
<1>3. next \in 0 .. Endpoints + 1 /\ (serial => next = endpoint + 1)
  BY <1>2 DEF AtMost
<1> HIDE DEF next
<1>4. /\ s \in Records /\ s.conn = conn /\ s.answers = answers /\ s.in_flight = in_flight
      /\ s.usable = usable /\ s.endpoint = next
  <2>1. /\ s \in Records /\ s.conn = S.conn /\ s.answers = S.answers
        /\ s.in_flight = S.in_flight /\ s.usable = S.usable /\ s.endpoint = next
    BY <1>2, <1>3 DEF Records
  <2> QED
    BY <2>1, StateFacts
<1> HIDE DEF s
<1>5. /\ d \in Records /\ d.conn = conn /\ d.answers = answers /\ d.in_flight = in_flight
      /\ d.usable = usable /\ EndpointLeft(d)
  <2>1. /\ d \in Records /\ d.conn = s.conn /\ d.answers = s.answers
        /\ d.in_flight = s.in_flight /\ d.usable = s.usable /\ d.resolution = "NOT_STARTED"
    BY <1>4 DEF Records
  <2> QED
    BY <1>4, <2>1 DEF EndpointLeft
<1> HIDE DEF d
<1>6. /\ t \in Records /\ t.answers = answers /\ t.in_flight = in_flight /\ t.usable = usable
      /\ t.endpoint = next /\ Busy(t) = Busy(s)
      /\ t.conn[r].from = next
  BY <1>1, <1>4, ConnectingFacts
<1> HIDE DEF t
<1>7. CASE next = Endpoints
  <2>1. Become(Answered(Landed(d), r)) /\ UNCHANGED options /\ handling' = handling
    BY <1>1, <1>7 DEF Step
  <2> QED
    BY <1>1, <1>2, <1>5, <2>1, AnsweredInv
<1>8. CASE next # Endpoints
  <2>1. Become(t) /\ UNCHANGED options /\ handling' = handling
    BY <1>1, <1>8 DEF Step
  <2>2. Busy(t) = Busy(S) /\ r \in Busy(S)
    BY <1>1, <1>4, <1>6, StateFacts DEF Busy
  <2>3. serial => next < Endpoints
    BY <1>2, <1>3, <1>8
  <2>4. serial => \A q \in Requests : t.conn[q].phase = "connecting" =>
                     t.conn[q].from = t.endpoint /\ t.endpoint < Endpoints
    <3> SUFFICES ASSUME serial, NEW q \in Requests, t.conn[q].phase = "connecting"
                 PROVE  q = r
      BY <1>6, <2>3
    <3>1. q \in Busy(S)
      BY <2>2 DEF Busy
    <3> QED
      BY <2>2, <3>1 DEF IInv, Sound
  <2>5. serial => EndpointLeft(t)
    BY <1>6, <2>3 DEF EndpointLeft
  <2>6. Sound(t, Running)
    BY <1>6, <2>2, <2>4, <2>5, GoesOn
  <2> QED
    BY <1>2, <2>1, <2>6, BecomeFacts DEF Running
<1> QED
  BY <1>7, <1>8

\* A connection that is made: whoever waits for the lookup goes on.
LEMMA ConnectsInv == ASSUME IInv, NEW r \in Requests, Connects(r) PROVE IInv'
<1> DEFINE waiting == IF resolution_state = "DONE" THEN {}
                      ELSE {q \in Requests : conn[q].phase = "waiting_on_dns"}
           d == [S EXCEPT !.resolution = "DONE"]
           s == Connecting(d, waiting)
           t == [s EXCEPT !.conn[r].phase = "sending", !.conn[r].from = 0]
<1>1. /\ ~handling /\ conn[r].phase = "connecting" /\ conn[r].from < Endpoints
      /\ Become(t) /\ UNCHANGED options /\ handling' = handling
  BY DEF Connects, InPhase, Step
<1>2. /\ S \in Records /\ handling \in BOOLEAN
      /\ serial => endpoint < Endpoints
  BY <1>1, StateFacts DEF IInv, Sound
<1>3. /\ d \in Records /\ d.conn = conn /\ d.answers = answers /\ d.in_flight = in_flight
      /\ d.usable = usable /\ d.endpoint = endpoint
  <2>1. /\ d \in Records /\ d.conn = S.conn /\ d.answers = S.answers
        /\ d.in_flight = S.in_flight /\ d.usable = S.usable /\ d.endpoint = S.endpoint
    BY <1>2 DEF Records
  <2> QED
    BY <2>1, StateFacts
<1> HIDE DEF d
<1>4. /\ waiting \in SUBSET Requests /\ r \notin waiting
      /\ \A q \in waiting : conn[q].phase = "waiting_on_dns"
  BY <1>1
<1> HIDE DEF waiting
<1>5. /\ s \in Records /\ s.answers = answers /\ s.in_flight = in_flight /\ s.usable = usable
      /\ s.endpoint = endpoint /\ Busy(s) = Busy(d)
      /\ \A q \in Requests : q \notin waiting => s.conn[q] = conn[q]
  BY <1>3, <1>4, ConnectingFacts
<1> HIDE DEF s
<1>6. Busy(s) = Busy(S) /\ r \in Busy(S)
  BY <1>1, <1>3, <1>5, StateFacts DEF Busy
<1>7. s.conn[r] \in Connection
  BY <1>5, <1>6, RecordFacts, ConnectionFacts DEF Busy
<1> DEFINE c == [s.conn[r] EXCEPT !.phase = "sending", !.from = 0]
<1>8. c \in Connection /\ c.phase = "sending"
  BY <1>7, PhaseFacts
<1>9. t = [s EXCEPT !.conn = [s.conn EXCEPT ![r] = c]]
  BY <1>5, RecordFacts DEF Records
<1> HIDE DEF t, c
<1>10. /\ t \in Records /\ t.answers = answers /\ t.in_flight = in_flight /\ t.usable = usable
       /\ t.endpoint = endpoint
       /\ \A q \in Requests : t.conn[q] = IF q = r THEN c ELSE s.conn[q]
  <2>1. s.conn \in [Requests -> Connection \cup {Idle}]
    BY <1>5, RecordFacts
  <2>2. [s.conn EXCEPT ![r] = c] \in [Requests -> Connection \cup {Idle}]
    BY <1>8, <2>1
  <2>3. /\ t.conn = [s.conn EXCEPT ![r] = c] /\ t.answers = s.answers
        /\ t.in_flight = s.in_flight /\ t.usable = s.usable /\ t.endpoint = s.endpoint
    BY <1>5, <1>9 DEF Records
  <2>4. t \in Records
    BY <1>5, <1>9, <2>2 DEF Records
  <2> QED
    BY <1>5, <2>1, <2>3, <2>4
<1>11. Busy(t) = Busy(S)
  <2>1. Busy(t) = Busy(s)
    BY <1>6, <1>8, <1>10 DEF Busy
  <2> QED
    BY <1>6, <2>1
<1>12. serial => \A q \in Requests : t.conn[q].phase # "connecting"
  <2> SUFFICES ASSUME serial, NEW q \in Requests, t.conn[q].phase = "connecting" PROVE FALSE
    OBVIOUS
  <2>1. q \in Busy(S)
    BY <1>11 DEF Busy
  <2>2. q = r
    BY <1>6, <2>1 DEF IInv, Sound
  <2> QED
    BY <1>8, <1>10, <2>2
<1>13. serial => EndpointLeft(t)
  BY <1>2, <1>10 DEF EndpointLeft
<1>14. Sound(t, Running)
  BY <1>10, <1>11, <1>12, <1>13, GoesOn
<1> QED
  BY <1>1, <1>2, <1>14, BecomeFacts DEF Running

\* A request that is written.
LEMMA HandleSendInv == ASSUME IInv, NEW r \in Requests, HandleSend(r) PROVE IInv'
<1> DEFINE c == [conn[r] EXCEPT !.phase = "receiving"]
           t == [S EXCEPT !.conn[r].phase = "receiving"]
<1>1. ~handling /\ conn[r].phase = "sending" /\ Active(r)
  BY DEF HandleSend, InPhase, Active
<1>2. /\ S \in Records /\ handling \in BOOLEAN /\ (serial => EndpointLeft(S))
      /\ conn \in [Requests -> Connection \cup {Idle}]
  BY StateFacts, RecordFacts DEF IInv, Sound
<1>3. CASE Step(t)
  <2>1. conn[r] \in Connection
    BY <1>1, <1>2, ConnectionFacts
  <2>2. c \in Connection /\ c.phase = "receiving"
    BY <2>1, PhaseFacts
  <2>3. t = [S EXCEPT !.conn = [conn EXCEPT ![r] = c]]
    BY <1>2, StateFacts DEF Records
  <2> HIDE DEF t, c
  <2>4. /\ t \in Records /\ t.answers = answers /\ t.in_flight = in_flight /\ t.usable = usable
        /\ t.endpoint = endpoint /\ t.resolution = resolution_state
        /\ \A q \in Requests : t.conn[q] = IF q = r THEN c ELSE conn[q]
    <3>1. [conn EXCEPT ![r] = c] \in [Requests -> Connection \cup {Idle}]
      BY <1>2, <2>2
    <3>2. /\ t.conn = [conn EXCEPT ![r] = c] /\ t.answers = S.answers
          /\ t.in_flight = S.in_flight /\ t.usable = S.usable /\ t.endpoint = S.endpoint
          /\ t.resolution = S.resolution
      BY <1>2, <2>3 DEF Records
    <3>3. t \in Records
      BY <1>2, <2>3, <3>1 DEF Records
    <3> QED
      BY <1>2, <3>2, <3>3, StateFacts
  <2>5. Busy(t) = Busy(S)
    <3>1. S.conn = conn
      BY StateFacts
    <3> QED
      BY <1>1, <2>2, <2>4, <3>1 DEF Busy
  <2>6. serial => EndpointLeft(t)
    BY <1>2, <2>4, StateFacts DEF EndpointLeft
  <2>7. serial => \A q \in Requests : t.conn[q].phase = "connecting" =>
                     t.conn[q].from = t.endpoint /\ t.endpoint < Endpoints
    <3>1. serial => \A q \in Requests : conn[q].phase = "connecting" =>
                       conn[q].from = endpoint /\ endpoint < Endpoints
      BY StateFacts DEF IInv, Sound
    <3> QED
      BY <2>2, <2>4, <3>1
  <2>8. Sound(t, Running)
    BY <2>4, <2>5, <2>6, <2>7, GoesOn
  <2> QED
    BY <1>2, <1>3, <2>8, BecomeFacts DEF Step, Running
<1>4. CASE Step(Retry(Landed(S), r))
  <2>1. /\ Landed(S) \in Records /\ Landed(S).conn = conn /\ Landed(S).answers = answers
        /\ Landed(S).in_flight = in_flight - 1 /\ Landed(S).usable = usable
        /\ serial => EndpointLeft(Landed(S))
    BY <1>1, <1>2, LandedFacts, StateFacts DEF EndpointLeft
  <2> QED
    BY <1>1, <1>4, <2>1, RetryInv
<1>5. CASE Step(Answered(Landed(S), r))
  BY <1>1, <1>2, <1>5, AnsweredInv, StateFacts DEF Step
<1> QED
  BY <1>3, <1>4, <1>5 DEF HandleSend

\* An answer.
LEMMA ReceivesInv == ASSUME IInv, NEW r \in Requests, Receives(r) PROVE IInv'
<1>1. ~handling /\ Active(r) /\ Become(Answered(Landed(S), r)) /\ UNCHANGED options
      /\ handling' \in BOOLEAN
  BY DEF Receives, InPhase, Active
<1>2. serial => EndpointLeft(S)
  BY DEF IInv, Sound
<1> QED
  BY <1>1, <1>2, AnsweredInv, StateFacts

\* An answer that does not come.
LEMMA ReceiveFailsInv == ASSUME IInv, NEW r \in Requests, ReceiveFails(r) PROVE IInv'
<1>1. ~handling /\ Active(r)
  BY DEF ReceiveFails, InPhase, Active
<1>2. S \in Records /\ handling \in BOOLEAN /\ (serial => EndpointLeft(S))
  BY DEF IInv, Sound
<1>3. CASE Step(Retry(Landed(S), r))
  <2>1. /\ Landed(S) \in Records /\ Landed(S).conn = conn /\ Landed(S).answers = answers
        /\ Landed(S).in_flight = in_flight - 1 /\ Landed(S).usable = usable
        /\ serial => EndpointLeft(Landed(S))
    BY <1>1, <1>2, LandedFacts, StateFacts DEF EndpointLeft
  <2> QED
    BY <1>1, <1>3, <2>1, RetryInv
<1>4. CASE Step(Answered(Landed(S), r))
  BY <1>1, <1>2, <1>4, AnsweredInv, StateFacts DEF Step
<1> QED
  BY <1>3, <1>4 DEF ReceiveFails

\* A request that takes too long.
LEMMA TimesOutInv == ASSUME IInv, NEW r \in Requests, TimesOut(r) PROVE IInv'
<1> DEFINE s == Landed(S)
           t == [s EXCEPT !.resolution = IF @ = "IN_PROGRESS" THEN "NOT_STARTED" ELSE @]
<1>1. ~handling /\ Active(r) /\ Step(Retry(t, r))
  BY DEF TimesOut
<1>2. S \in Records /\ (serial => EndpointLeft(S))
  BY DEF IInv, Sound
<1>3. /\ s \in Records /\ s.conn = conn /\ s.answers = answers /\ s.in_flight = in_flight - 1
      /\ s.usable = usable /\ s.resolution = S.resolution /\ s.endpoint = S.endpoint
  BY <1>1, <1>2, LandedFacts, StateFacts
<1> HIDE DEF s
<1>4. /\ t \in Records /\ t.conn = s.conn /\ t.answers = s.answers
      /\ t.in_flight = s.in_flight /\ t.usable = s.usable
      /\ t.endpoint = s.endpoint /\ t.resolution \in {s.resolution, "NOT_STARTED"}
  BY <1>3 DEF Records
<1> HIDE DEF t
<1>5. serial => EndpointLeft(t)
  BY <1>2, <1>3, <1>4 DEF EndpointLeft
<1> QED
  BY <1>1, <1>3, <1>4, <1>5, RetryInv

\* A handler that returns.
LEMMA ReturnInv == ASSUME IInv, Return PROVE IInv'
<1>1. Sound(S, 1) /\ S \in Records
  BY DEF IInv, Running, Return, Sound
<1> DEFINE t == [S EXCEPT !.usable = @ + 1]
<1>2. /\ t \in Records /\ t.conn = S.conn /\ t.answers = S.answers /\ t.in_flight = S.in_flight
      /\ t.usable = S.usable + 1 /\ t.endpoint = S.endpoint /\ t.resolution = S.resolution
  BY <1>1 DEF Records
<1>3. S' = t
  BY <1>1, StateFacts DEF Records, Return, S
<1> HIDE DEF t
<1>4. Sound(t, 0)
  <2>1. Busy(t) = Busy(S)
    BY <1>2 DEF Busy
  <2>2. t.usable + t.in_flight + 0 <= Cardinality(Requests) + 1
    BY <1>1, <1>2, RecordFacts DEF Sound
  <2>3. EndpointLeft(S) => EndpointLeft(t)
    BY <1>2 DEF EndpointLeft
  <2> QED
    BY <1>1, <1>2, <2>1, <2>2, <2>3 DEF Sound
<1>5. Sound(S, Running)'
  <2>1. serial' = serial /\ Running' = 0
    BY DEF Return, options, Running
  <2> QED
    BY <1>3, <1>4, <2>1 DEF Sound, Busy, EndpointLeft
<1> QED
  BY <1>5 DEF Return, options, IInv

\* At first nothing is under way.
LEMMA InitInv == Init => IInv
<1> SUFFICES ASSUME Init PROVE IInv
  OBVIOUS
<1>1. S \in Records /\ S.usable = 0 /\ S.in_flight = 0 /\ S.resolution = "NOT_STARTED"
  BY HttpClientAssumption DEF Init, S, Records
<1>2. /\ \A r \in Requests : S.conn[r].phase = "idle" /\ S.answers[r] = 1
      /\ Running = 0
  BY ConnectionFacts DEF Init, S, Running
<1>3. Busy(S) = {}
  BY <1>2 DEF Busy
<1>4. Cardinality({}) = 0 /\ Cardinality(Requests) \in Nat
  BY FS_EmptySet, FS_CardinalityType, HttpClientAssumption
<1>5. EndpointLeft(S)
  BY <1>1 DEF EndpointLeft
<1>6. Sound(S, Running)
  BY <1>1, <1>2, <1>3, <1>4, <1>5 DEF Sound
<1> QED
  BY <1>6 DEF Init, IInv

\* Every step.
LEMMA NextInv == IInv /\ [Next]_vars => IInv'
<1> SUFFICES ASSUME IInv, [Next]_vars PROVE IInv'
  OBVIOUS
<1>1. CASE UNCHANGED vars
  <2>1. S' = S /\ Running' = Running /\ serial' = serial
        /\ timeout_and_retry' = timeout_and_retry /\ handling' = handling
    BY <1>1 DEF vars, state, options, S, Running
  <2>2. Sound(S, Running)'
    BY <2>1 DEF IInv, Sound, Busy, EndpointLeft
  <2> QED
    BY <2>1, <2>2 DEF IInv
<1>2. CASE Return
  BY <1>2, ReturnInv
<1>3. ASSUME NEW r \in Requests, Request(r) \/ Callback(r) \/ TimesOut(r)
      PROVE  IInv'
  <2>1. CASE Request(r)
    BY <2>1, RequestInv
  <2>2. CASE HandleResolve(r)
    BY <2>2, HandleResolveInv
  <2>3. CASE ConnectFails(r)
    BY <2>3, ConnectFailsInv
  <2>4. CASE Connects(r)
    BY <2>4, ConnectsInv
  <2>5. CASE HandleSend(r)
    BY <2>5, HandleSendInv
  <2>6. CASE Receives(r)
    BY <2>6, ReceivesInv
  <2>7. CASE ReceiveFails(r)
    BY <2>7, ReceiveFailsInv
  <2>8. CASE TimesOut(r)
    BY <2>8, TimesOutInv
  <2> QED
    BY <1>3, <2>1, <2>2, <2>3, <2>4, <2>5, <2>6, <2>7, <2>8 DEF Callback
<1> QED
  BY <1>1, <1>2, <1>3 DEF Next

-----------------------------------------------------------------------------
(* Theorems. *)

\* What is under way is counted, and each callback takes up the list of endpoints where the
\* one before it left it.
THEOREM Invariance == Spec => []IInv
  BY InitInv, NextInv, PTL DEF Spec

\* Types, and the bounds of the counters: no more sockets are kept than requests were under
\* way at once, and one more.
THEOREM TypeCorrect == Spec => []TypeOK
<1>1. IInv => TypeOK
  <2> SUFFICES ASSUME IInv PROVE TypeOK
    OBVIOUS
  <2>1. /\ S \in Records /\ in_flight = Cardinality(Busy(S))
        /\ usable + in_flight + Running <= Cardinality(Requests) + 1
    BY StateFacts DEF IInv, Sound
  <2>2. /\ resolution_state \in {"NOT_STARTED", "IN_PROGRESS", "DONE"}
        /\ endpoint \in 0 .. Endpoints + 1
        /\ in_flight \in Nat /\ usable \in Nat
        /\ conn \in [Requests -> Connection \cup {Idle}]
    BY <2>1, StateFacts, RecordFacts
  <2>3. Busy(S) \in SUBSET Requests
    BY DEF Busy
  <2>4. in_flight <= Cardinality(Requests) /\ Cardinality(Requests) \in Nat
    <3>1. IsFiniteSet(Requests) /\ IsFiniteSet(Busy(S))
      BY <2>3, FS_Subset, HttpClientAssumption
    <3> QED
      BY <2>1, <2>3, <3>1, FS_Subset, FS_CardinalityType
  <2>5. Running \in {0, 1}
    BY DEF Running
  <2> QED
    BY <2>1, <2>2, <2>4, <2>5 DEF TypeOK, IInv
<1> QED
  BY <1>1, Invariance, PTL

\* Each request is answered exactly once, and in_flight_ counts the ones under way, whatever
\* fails, is sent again or times out, and in which order.
THEOREM Answers == Spec => []AnsweredOnce
<1>1. IInv => AnsweredOnce
  <2> SUFFICES ASSUME IInv PROVE AnsweredOnce
    OBVIOUS
  <2>1. Busy(S) = {r \in Requests : Active(r)}
    BY StateFacts DEF Busy, Active
  <2> QED
    BY <2>1, StateFacts DEF IInv, Sound, AnsweredOnce
<1> QED
  BY <1>1, Invariance, PTL

\* A lookup that counts as done has an endpoint left, for one request at a time.
THEOREM Endpoint == Spec => []EndpointValid
<1>1. IInv => EndpointValid
  <2> SUFFICES ASSUME IInv, serial PROVE /\ resolution_state = "DONE" => endpoint < Endpoints
                                         /\ \A r \in Requests : conn[r].phase = "connecting" =>
                                               conn[r].from < Endpoints
    BY DEF EndpointValid
  <2> QED
    BY StateFacts DEF IInv, Sound, EndpointLeft
<1> QED
  BY <1>1, Invariance, PTL
=============================================================================
