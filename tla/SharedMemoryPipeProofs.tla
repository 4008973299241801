----------------------- MODULE SharedMemoryPipeProofs -----------------------
(***************************************************************************)
(* Proofs about SharedMemoryPipe: its type invariant, the exclusive use of *)
(* the regions, and that it implements PipeFifo, for any set of messages.  *)
(***************************************************************************)
EXTENDS SharedMemoryPipe, TLAPS

-----------------------------------------------------------------------------
(* Sequences.                                                              *)

\* Concatenation is associative.
LEMMA Associative ==
    \A a, b, c \in Seq(Messages) : (a \o b) \o c = a \o (b \o c)
  BY SMT

\* The concatenation of two sequences of messages is one.
LEMMA Closed == \A a, b \in Seq(Messages) : a \o b \in Seq(Messages)
  BY SMT

\* The first of four parts can be split off a concatenation.
LEMMA Regroup ==
    \A a, b, c, d \in Seq(Messages) :
        /\ b \o c \o d \in Seq(Messages)
        /\ ((a \o b) \o c) \o d = a \o ((b \o c) \o d)
<1> TAKE a, b, c, d \in Seq(Messages)
<1>1. a \o b \in Seq(Messages) /\ b \o c \in Seq(Messages) /\ b \o c \o d \in Seq(Messages)
  BY Closed, Zenon
<1>2. (a \o b) \o c = a \o (b \o c)
  BY Associative, Zenon
<1>3. (a \o (b \o c)) \o d = a \o ((b \o c) \o d)
  <2> DEFINE x == b \o c
  <2>1. x \in Seq(Messages)
    BY <1>1
  <2> HIDE DEF x
  <2>2. \A u, v, w \in Seq(Messages) : (u \o v) \o w = u \o (v \o w)
    BY Associative, Zenon
  <2>3. \A v, w \in Seq(Messages) : (a \o v) \o w = a \o (v \o w)
    BY <2>2, Zenon
  <2>4. (a \o x) \o d = a \o (x \o d)
    BY <2>1, <2>3, Zenon
  <2> QED
    BY <2>4, Zenon DEF x
<1>4. ((a \o b) \o c) \o d = (a \o (b \o c)) \o d
  BY <1>2
<1> QED
  BY <1>1, <1>3, <1>4, Zenon

\* Appending to the second part is appending to the whole.
LEMMA AppendLast ==
    \A a, b \in Seq(Messages), m \in Messages : a \o Append(b, m) = Append(a \o b, m)
  BY SMT

\* A non-empty sequence is its head followed by its tail.
LEMMA HeadTail ==
    ASSUME NEW s \in Seq(Messages), s # << >>
    PROVE  /\ Head(s) \in Messages
           /\ Tail(s) \in Seq(Messages)
           /\ <<Head(s)>> \o Tail(s) = s
  BY SMT

\* The first and the second part of a concatenation are where one expects them.
LEMMA Split ==
    ASSUME NEW a \in Seq(Messages), NEW b \in Seq(Messages)
    PROVE  /\ Len(a) \in 0..Len(a \o b)
           /\ SubSeq(a \o b, 1, Len(a)) = a
           /\ SubSeq(a \o b, Len(a) + 1, Len(a \o b)) = b
  BY SMT

\* The element between two parts of a concatenation can be taken out.
LEMMA Middle ==
    \A a, b \in Seq(Messages), m \in Messages :
       \E i \in 1..Len(a \o (<<m>> \o b)) :
          /\ (a \o (<<m>> \o b))[i] = m
          /\ Fifo!RemoveAt(a \o (<<m>> \o b), i) = a \o b
<1> TAKE a, b \in Seq(Messages), m \in Messages
<1> DEFINE s == a \o (<<m>> \o b)
           i == Len(a) + 1
<1>1. /\ Len(s) = Len(a) + 1 + Len(b)
      /\ s \in Seq(Messages)
      /\ Len(a) \in Nat /\ Len(b) \in Nat
  BY SMT
<1>2. i \in 1..Len(s)
  BY <1>1, SMT
<1>3. s[i] = m
  BY SMT
<1>4. SubSeq(s, 1, i - 1) = a
  BY <1>1, SMT
<1>5. SubSeq(s, i + 1, Len(s)) = b
  BY <1>1, SMT
<1>6. Fifo!RemoveAt(s, i) = a \o b
  BY <1>4, <1>5, Zenon DEF Fifo!RemoveAt
<1> QED
  BY <1>2, <1>3, <1>6, Zenon

-----------------------------------------------------------------------------
(* The inductive invariant.                                                *)

\* What the properties need beyond themselves: an end that is about to copy has
\* a message to copy, one that is about to deliver has a message in buf, and a
\* region that is occupied holds a message that is not empty.
Progress ==
    \A e \in Ends :
       /\ pc[e] = "copy" => outQueue[e] # << >>
       /\ pc[e] \notin {"clear", "deliver"} => buf[e] = << >>
       /\ occupied[e] => data[e] \in Deliverable

IInv == TypeOK /\ RegionExclusion /\ RegionIntegrity /\ Progress

\* The invariant holds of a new pair of pipes.
LEMMA InitInv == Init => IInv
  BY SMT DEF Init, IInv, TypeOK, RegionExclusion, RegionIntegrity, Progress, Ends, NoOne, Peer,
             Deliverable

\* An end's peer is the other end.
LEMMA PeerFacts ==
    \A e \in Ends : Peer(e) \in Ends /\ Peer(e) # e /\ Peer(Peer(e)) = e /\ e # NoOne
  BY DEF Ends, Peer, NoOne

\* process()'s local buffer is a sequence of at most one message.
Buffers == {<< >>} \cup {<<m>> : m \in Deliverable}

\* What buf holds is a sequence of messages that are not empty.
LEMMA BufIsSeq == Buffers \subseteq Seq(Deliverable)
<1>1. << >> \in Seq(Deliverable)
  BY SMT
<1>2. \A m \in Deliverable : <<m>> \in Seq(Deliverable)
  BY SMT
<1> QED
  BY <1>1, <1>2, Zenon DEF Buffers

\* A sequence of messages that are not empty is a sequence of messages.
LEMMA DeliverableSeq == Seq(Deliverable) \subseteq Seq(Messages)
  BY SMT DEF Deliverable

\* Every step of either end preserves the invariant.
LEMMA NextInv == IInv /\ [Next]_pipeVars => IInv'
<1> SUFFICES ASSUME IInv, [Next]_pipeVars PROVE IInv'
  OBVIOUS
<1> USE DEF IInv, TypeOK, RegionExclusion, RegionIntegrity, Progress, Ends, NoOne, Peer
<1>1. ASSUME NEW e \in Ends, NEW m \in Messages, Write(e, m) PROVE IInv'
  BY <1>1, HeadTail DEF Write
<1>2. ASSUME NEW e \in Ends, Read(e) PROVE IInv'
  BY <1>2 DEF Read
<1>3. ASSUME NEW e \in Ends, TryLockOut(e) PROVE IInv'
  BY <1>3 DEF TryLockOut
<1>4. ASSUME NEW e \in Ends, CopyOut(e) PROVE IInv'
  BY <1>4, HeadTail DEF CopyOut
<1>5. ASSUME NEW e \in Ends, PublishOut(e) PROVE IInv'
  BY <1>5, HeadTail DEF PublishOut, Deliverable
<1>6. ASSUME NEW e \in Ends, TryLockIn(e) PROVE IInv'
  BY <1>6 DEF TryLockIn
<1>7. ASSUME NEW e \in Ends, CopyIn(e) PROVE IInv'
  BY <1>7 DEF CopyIn
<1>8. ASSUME NEW e \in Ends, ClearIn(e) PROVE IInv'
  BY <1>8 DEF ClearIn
<1>9. ASSUME NEW e \in Ends, Deliver(e) PROVE IInv'
  <2>1. buf[e] \in Seq(Deliverable)
    BY BufIsSeq DEF Buffers
  <2>2. inQueue[e] \o buf[e] \in Seq(Deliverable)
    BY <2>1, SMT
  <2> QED
    BY <1>9, <2>2 DEF Deliver
<1>10. CASE UNCHANGED pipeVars
  BY <1>10 DEF pipeVars
<1> QED
  BY <1>1, <1>2, <1>3, <1>4, <1>5, <1>6, <1>7, <1>8, <1>9, <1>10, Zenon DEF Next, Process

\* The inductive invariant holds in every reachable state.
THEOREM Invariance == Spec => []IInv
  BY InitInv, NextInv, PTL DEF Spec

\* Every variable of both ends of the pipe keeps its type, and whatever the two
\* programs do between each other's steps, neither receives an empty message.
THEOREM TypeCorrect == Spec => []TypeOK
<1>1. IInv => TypeOK
  BY DEF IInv
<1> QED
  BY <1>1, Invariance, PTL

\* The two programs never work on a shared region at the same time, and each
\* region's mutex is held exactly by the end that is inside its critical section.
THEOREM Exclusion == Spec => []RegionExclusion
<1>1. IInv => RegionExclusion
  BY DEF IInv
<1> QED
  BY <1>1, Invariance, PTL

\* What an end publishes is its oldest queued message, into a free region, and
\* what it clears is the message it has copied.
THEOREM Integrity == Spec => []RegionIntegrity
<1>1. IInv => RegionIntegrity
  BY DEF IInv
<1> QED
  BY <1>1, Invariance, PTL

-----------------------------------------------------------------------------
(* Refinement: every step of the pipe is a step of PipeFifo or a stutter.  *)

\* A message on its way sits in exactly one of four places.
LEMMA TransitType ==
    ASSUME IInv, NEW e \in Ends
    PROVE  /\ inQueue[Peer(e)] \in Seq(Messages)
           /\ buf[Peer(e)] \in Seq(Messages)
           /\ Published(e) \in Seq(Messages)
           /\ outQueue[e] \in Seq(Messages)
           /\ Transit(e) \in Seq(Messages)
<1>1. inQueue[Peer(e)] \in Seq(Messages) /\ outQueue[e] \in Seq(Messages)
  BY PeerFacts, DeliverableSeq DEF IInv, TypeOK
<1>2. buf[Peer(e)] \in Seq(Messages)
  BY PeerFacts, BufIsSeq, DeliverableSeq DEF IInv, TypeOK, Buffers
<1>3. Published(e) \in Seq(Messages)
  <2>1. CASE occupied[e] /\ pc[Peer(e)] # "clear"
    <3>1. data[e] \in Messages
      BY <2>1 DEF IInv, Progress, Deliverable
    <3> QED
      BY <2>1, <3>1, SMT DEF Published
  <2>2. CASE ~(occupied[e] /\ pc[Peer(e)] # "clear")
    BY <2>2, SMT DEF Published
  <2> QED
    BY <2>1, <2>2
<1> QED
  BY <1>1, <1>2, <1>3, SMT DEF Transit

\* Steps that only move a message from one place to the next leave transit alone.
LEMMA TransitUnchanged ==
    ASSUME NEW e \in Ends,
           inQueue'[Peer(e)] = inQueue[Peer(e)], buf'[Peer(e)] = buf[Peer(e)],
           Published(e)' = Published(e), outQueue'[e] = outQueue[e]
    PROVE  Transit(e)' = Transit(e)
  BY DEF Transit

\* A new pair of pipes is a pair of empty queues.
LEMMA InitRefines == Init => Fifo!Init
<1> SUFFICES ASSUME Init PROVE Fifo!Init
  OBVIOUS
<1>1. \A e \in Ends : Transit(e) = << >>
  <2> TAKE e \in Ends
  <2>1. inQueue[Peer(e)] = << >> /\ buf[Peer(e)] = << >> /\ Published(e) = << >> /\ outQueue[e] = << >>
    BY PeerFacts DEF Init, Published
  <2> QED
    BY <2>1, SMT DEF Transit
<1> QED
  BY <1>1 DEF Init, Fifo!Init

\* The abstract channel pair, as the pipe's state represents it.
Channel == [e \in Ends |-> Transit(e)]

\* write() sends a message.
LEMMA WriteRefines ==
    ASSUME IInv, NEW e \in Ends, NEW m \in Messages, Write(e, m)
    PROVE  Fifo!Send(e, m)
<1>1. Transit(e)' = Append(Transit(e), m)
  <2>1. /\ inQueue'[Peer(e)] = inQueue[Peer(e)] /\ buf'[Peer(e)] = buf[Peer(e)]
        /\ Published(e)' = Published(e) /\ outQueue'[e] = Append(outQueue[e], m)
    BY DEF Write, Published, IInv, TypeOK
  <2>2. inQueue[Peer(e)] \o buf[Peer(e)] \o Published(e) \o Append(outQueue[e], m)
           = Append(inQueue[Peer(e)] \o buf[Peer(e)] \o Published(e) \o outQueue[e], m)
    <3> DEFINE front == inQueue[Peer(e)] \o buf[Peer(e)] \o Published(e)
    <3>1. front \in Seq(Messages) /\ outQueue[e] \in Seq(Messages)
      BY TransitType, Closed
    <3>2. front \o Append(outQueue[e], m) = Append(front \o outQueue[e], m)
      <4> HIDE DEF front
      <4> QED
        BY <3>1, AppendLast
    <3> QED
      BY <3>2
  <2> QED
    BY <2>1, <2>2, Zenon DEF Transit
<1>2. \A f \in Ends : f # e => Transit(f)' = Transit(f)
  BY TransitUnchanged DEF Write, Published, IInv, TypeOK
<1> QED
  BY <1>1, <1>2 DEF Write, Fifo!Send

\* read() receives what was delivered.
LEMMA ReadRefines ==
    ASSUME IInv, NEW e \in Ends, Read(e)
    PROVE  \E n \in 0..Len(Transit(Peer(e))) : Fifo!Receive(Peer(e), e, n)
<1> DEFINE p == Peer(e)
           rest == buf[e] \o Published(p) \o outQueue[p]
<1>1. p \in Ends /\ Peer(p) = e /\ p # e
  BY PeerFacts
<1>2. /\ inQueue[e] \in Seq(Messages) /\ rest \in Seq(Messages)
      /\ Transit(p) = inQueue[e] \o rest
  <2>1. /\ inQueue[e] \in Seq(Messages) /\ buf[e] \in Seq(Messages)
        /\ Published(p) \in Seq(Messages) /\ outQueue[p] \in Seq(Messages)
    BY <1>1, TransitType
  <2>2. rest \in Seq(Messages) /\ inQueue[e] \o buf[e] \o Published(p) \o outQueue[p] = inQueue[e] \o rest
    <3> DEFINE published == Published(p)
               queued == outQueue[p]
               raw == buf[e]
               ready == inQueue[e]
    <3>1. ready \in Seq(Messages) /\ raw \in Seq(Messages) /\ published \in Seq(Messages) /\ queued \in Seq(Messages)
      BY <2>1
    <3>2. raw \o published \o queued \in Seq(Messages)
          /\ ready \o raw \o published \o queued = ready \o (raw \o published \o queued)
      <4> HIDE DEF published, queued, raw, ready, rest
      <4> QED
        <5>1. \A a, b, c, d \in Seq(Messages) :
                 /\ b \o c \o d \in Seq(Messages)
                 /\ a \o b \o c \o d = a \o (b \o c \o d)
          BY Regroup
        <5>2. \A c, d \in Seq(Messages) :
                 /\ raw \o c \o d \in Seq(Messages)
                 /\ ready \o raw \o c \o d = ready \o (raw \o c \o d)
          BY <3>1, <5>1, Zenon
        <5> QED
          BY <3>1, <5>2, Zenon
    <3> QED
      BY <3>2
  <2> QED
    BY <1>1, <2>1, <2>2, Zenon DEF Transit
<1>3. Transit(p)' = rest
  <2>1. /\ inQueue'[e] = << >> /\ buf'[e] = buf[e]
        /\ Published(p)' = Published(p) /\ outQueue'[p] = outQueue[p]
    BY <1>1 DEF Read, Published, IInv, TypeOK
  <2>2. << >> \o buf[e] = buf[e]
    BY <1>1, TransitType, SMT
  <2> QED
    BY <1>1, <2>1, <2>2 DEF Transit
<1>4. Transit(e)' = Transit(e)
  BY <1>1, TransitUnchanged DEF Read, Published, IInv, TypeOK
<1>5. /\ Len(inQueue[e]) \in 0..Len(Transit(p))
      /\ SubSeq(Transit(p), 1, Len(inQueue[e])) = inQueue[e]
      /\ SubSeq(Transit(p), Len(inQueue[e]) + 1, Len(Transit(p))) = rest
  <2> HIDE DEF p, rest
  <2>1. /\ Len(inQueue[e]) \in 0..Len(inQueue[e] \o rest)
        /\ SubSeq(inQueue[e] \o rest, 1, Len(inQueue[e])) = inQueue[e]
        /\ SubSeq(inQueue[e] \o rest, Len(inQueue[e]) + 1, Len(inQueue[e] \o rest)) = rest
    BY <1>2, Split, Zenon
  <2> QED
    BY <1>2, <2>1, Zenon
<1>6. Fifo!Receive(p, e, Len(inQueue[e]))
  <2>1. Channel' = [Channel EXCEPT ![p] = SubSeq(@, Len(inQueue[e]) + 1, Len(@))]
    BY <1>1, <1>3, <1>4, <1>5 DEF Channel, Ends
  <2>2. delivered' = [delivered EXCEPT ![e] = SubSeq(Channel[p], 1, Len(inQueue[e]))]
    BY <1>1, <1>5 DEF Channel, Read
  <2> QED
    BY <2>1, <2>2 DEF Fifo!Receive, Channel
<1> QED
  BY <1>5, <1>6

\* Nothing on its way moves when an end only takes or releases a mutex.
LEMMA LockRefines ==
    ASSUME IInv, NEW e \in Ends, TryLockOut(e) \/ CopyOut(e) \/ TryLockIn(e)
    PROVE  UNCHANGED <<Channel, delivered>>
<1>1. ASSUME NEW f \in Ends PROVE Transit(f)' = Transit(f)
  <2>1. Published(f)' = Published(f)
    BY PeerFacts, SMTT(90) DEF Published, TryLockOut, CopyOut, TryLockIn, IInv, TypeOK,
       RegionExclusion, RegionIntegrity
  <2> QED
    BY <2>1, TransitUnchanged, PeerFacts DEF TryLockOut, CopyOut, TryLockIn
<1> QED
  BY <1>1 DEF Channel, TryLockOut, CopyOut, TryLockIn

\* A message that is copied out of the region is in buf instead.
LEMMA CopyInRefines ==
    ASSUME IInv, NEW e \in Ends, CopyIn(e)
    PROVE  UNCHANGED <<Channel, delivered>>
<1> DEFINE p == Peer(e)
<1>1. p \in Ends /\ Peer(p) = e /\ p # e /\ Ends = {e, p}
  BY DEF Ends, Peer
<1>2. Transit(e)' = Transit(e)
  <2>1. Published(e)' = Published(e)
    BY <1>1 DEF Published, CopyIn, IInv, TypeOK, RegionExclusion
  <2> QED
    BY <1>1, <2>1, TransitUnchanged DEF CopyIn, IInv, TypeOK
<1>3. Transit(p)' = Transit(p)
  <2>1. CASE occupied[p]
    <3>1. buf[e] = << >> /\ Published(p) = <<data[p]>>
      BY <1>1, <2>1 DEF Published, CopyIn, IInv, Progress
    <3>2. buf'[e] = <<data[p]>> /\ Published(p)' = << >>
      BY <1>1, <2>1 DEF Published, CopyIn, IInv, TypeOK
    <3>3. inQueue'[e] = inQueue[e] /\ outQueue'[p] = outQueue[p]
      BY DEF CopyIn
    <3>4. inQueue[e] \in Seq(Messages) /\ data[p] \in Messages
      BY <1>1, <2>1, DeliverableSeq DEF IInv, TypeOK, Progress, Deliverable
    <3>5. inQueue[e] \o << >> \o <<data[p]>> = inQueue[e] \o <<data[p]>> \o << >>
      BY <3>4, SMT
    <3> QED
      BY <1>1, <3>1, <3>2, <3>3, <3>5, Zenon DEF Transit
  <2>2. CASE ~occupied[p]
    <3>1. Published(p)' = Published(p)
      BY <1>1, <2>2 DEF Published, CopyIn
    <3> QED
      BY <1>1, <2>2, <3>1, TransitUnchanged DEF CopyIn
  <2> QED
    BY <2>1, <2>2
<1> QED
  BY <1>1, <1>2, <1>3 DEF Channel, CopyIn

\* Clearing a region whose message was copied moves nothing.
LEMMA ClearInRefines ==
    ASSUME IInv, NEW e \in Ends, ClearIn(e)
    PROVE  UNCHANGED <<Channel, delivered>>
<1>1. ASSUME NEW f \in Ends PROVE Transit(f)' = Transit(f)
  <2>1. Published(f)' = Published(f)
    BY PeerFacts
       DEF Published, ClearIn, IInv, TypeOK, RegionExclusion, RegionIntegrity, Ends, Peer
  <2> QED
    BY <2>1, TransitUnchanged, PeerFacts DEF ClearIn
<1> QED
  BY <1>1 DEF Channel, ClearIn

\* Delivering moves the message from buf to the end of in_queue_.
LEMMA DeliverRefines ==
    ASSUME IInv, NEW e \in Ends, Deliver(e)
    PROVE  UNCHANGED <<Channel, delivered>>
<1> DEFINE p == Peer(e)
<1>1. p \in Ends /\ Peer(p) = e /\ p # e /\ Ends = {e, p}
  BY DEF Ends, Peer
<1>2. Published(e)' = Published(e) /\ Published(p)' = Published(p)
  BY <1>1 DEF Published, Deliver, IInv, TypeOK
<1>3. Transit(e)' = Transit(e)
  BY <1>1, <1>2, TransitUnchanged DEF Deliver, IInv, TypeOK
<1>4. Transit(p)' = Transit(p)
  <2>1. /\ inQueue'[e] = inQueue[e] \o buf[e] /\ buf'[e] = << >>
        /\ outQueue'[p] = outQueue[p]
    BY DEF Deliver, IInv, TypeOK
  <2>2. inQueue[e] \o buf[e] \in Seq(Messages)
    BY <1>1, TransitType, Closed
  <2>3. (inQueue[e] \o buf[e]) \o << >> = inQueue[e] \o buf[e]
    <3> DEFINE front == inQueue[e] \o buf[e]
    <3>1. front \in Seq(Messages)
      BY <2>2
    <3> HIDE DEF front
    <3>2. front \o << >> = front
      BY <3>1, SMT
    <3> QED
      BY <3>2 DEF front
  <2> QED
    BY <1>1, <1>2, <2>1, <2>3, Zenon DEF Transit
<1> QED
  BY <1>1, <1>3, <1>4 DEF Channel, Deliver

\* Publishing moves the oldest queued message into the region, unless its length
\* is zero: then the region still reads as free and the message is gone.
LEMMA PublishRefines ==
    ASSUME IInv, NEW e \in Ends, PublishOut(e)
    PROVE  \/ UNCHANGED <<Channel, delivered>>
           \/ \E i \in 1..Len(Transit(e)) : Fifo!LoseEmpty(e, i)
<1> DEFINE p == Peer(e)
           front == inQueue[p] \o buf[p]
           m == Head(outQueue[e])
<1>1. p \in Ends /\ Peer(p) = e /\ p # e /\ Ends = {e, p}
  BY DEF Ends, Peer
<1>2. Transit(p)' = Transit(p)
  <2>1. Published(p)' = Published(p)
    BY <1>1 DEF Published, PublishOut, IInv, TypeOK, RegionExclusion
  <2> QED
    BY <1>1, <2>1, TransitUnchanged DEF PublishOut, IInv, TypeOK
<1>3. /\ outQueue[e] \in Seq(Messages) /\ outQueue[e] # << >> /\ data[e] = m /\ ~occupied[e]
      /\ front \in Seq(Messages)
  BY <1>1, TransitType, Closed DEF PublishOut, IInv, TypeOK, RegionIntegrity
<1>4. m \in Messages /\ Tail(outQueue[e]) \in Seq(Messages) /\ <<m>> \o Tail(outQueue[e]) = outQueue[e]
  BY <1>3, HeadTail
<1>5. pc[p] # "clear" /\ pc'[p] # "clear"
  BY <1>1 DEF PublishOut, IInv, TypeOK, RegionExclusion
<1>6. Transit(e) = front \o outQueue[e]
  <2>1. Published(e) = << >>
    BY <1>3 DEF Published
  <2>2. front \o << >> = front
    <3> HIDE DEF front
    <3> QED
      BY <1>3, SMT
  <2> QED
    BY <2>1, <2>2, Zenon DEF Transit
<1>7. inQueue'[p] = inQueue[p] /\ buf'[p] = buf[p] /\ outQueue'[e] = Tail(outQueue[e])
  BY DEF PublishOut, IInv, TypeOK
<1>8. CASE m # Empty
  <2>1. Published(e)' = <<m>>
    BY <1>1, <1>3, <1>5, <1>8 DEF Published, PublishOut, IInv, TypeOK
  <2>2. front \o <<m>> \o Tail(outQueue[e]) = front \o (<<m>> \o Tail(outQueue[e]))
    <3> HIDE DEF front, m
    <3>1. <<m>> \in Seq(Messages)
      BY <1>4, SMT
    <3> QED
      BY <1>3, <1>4, <3>1, Associative
  <2>3. Transit(e)' = front \o <<m>> \o Tail(outQueue[e])
    BY <1>7, <2>1, Zenon DEF Transit
  <2>4. Transit(e)' = Transit(e)
    BY <1>4, <1>6, <2>2, <2>3, Zenon
  <2> QED
    BY <1>1, <1>2, <2>4 DEF Channel, PublishOut
<1>9. CASE m = Empty
  <2>1. Published(e)' = << >>
    BY <1>1, <1>3, <1>9 DEF Published, PublishOut, IInv, TypeOK
  <2>2. front \o << >> = front
    <3> HIDE DEF front
    <3> QED
      BY <1>3, SMT
  <2>3. Transit(e)' = front \o Tail(outQueue[e])
    BY <1>7, <2>1, <2>2, Zenon DEF Transit
  <2>4. Transit(e) = front \o (<<m>> \o Tail(outQueue[e]))
    BY <1>4, <1>6
  <2>5. PICK i \in 1..Len(Transit(e)) :
            /\ Transit(e)[i] = m
            /\ Fifo!RemoveAt(Transit(e), i) = front \o Tail(outQueue[e])
    <3> DEFINE tail == Tail(outQueue[e])
               whole == Transit(e)
    <3>1. front \in Seq(Messages) /\ tail \in Seq(Messages) /\ m \in Messages
      BY <1>3, <1>4
    <3>2. whole = front \o (<<m>> \o tail)
      BY <2>4
    <3>3. \E i \in 1..Len(whole) : whole[i] = m /\ Fifo!RemoveAt(whole, i) = front \o tail
      <4> HIDE DEF front, m, tail, whole
      <4> QED
        BY <3>1, <3>2, Middle
    <3> QED
      BY <3>3
  <2>6. Channel' = [Channel EXCEPT ![e] = Fifo!RemoveAt(@, i)]
    BY <1>1, <1>2, <2>3, <2>5 DEF Channel
  <2>7. Fifo!LoseEmpty(e, i)
    BY <1>9, <2>5, <2>6 DEF Fifo!LoseEmpty, Channel, PublishOut
  <2> QED
    BY <2>5, <2>7
<1> QED
  BY <1>8, <1>9

\* Every step is a step of the queues or leaves them as they are.
LEMMA NextRefines ==
    IInv /\ [Next]_pipeVars => [Fifo!Next]_<<Channel, delivered>>
<1> SUFFICES ASSUME IInv, [Next]_pipeVars
             PROVE  Fifo!Next \/ UNCHANGED <<Channel, delivered>>
  OBVIOUS
<1>1. ASSUME NEW e \in Ends, NEW m \in Messages, Write(e, m) PROVE Fifo!Next
  BY <1>1, WriteRefines DEF Fifo!Next
<1>2. ASSUME NEW e \in Ends, Read(e) PROVE Fifo!Next
  <2>1. Peer(e) \in Ends /\ e \in Ends \ {Peer(e)}
    BY PeerFacts
  <2> QED
    BY <1>2, <2>1, ReadRefines DEF Fifo!Next, Channel
<1>3. ASSUME NEW e \in Ends, PublishOut(e)
      PROVE  Fifo!Next \/ UNCHANGED <<Channel, delivered>>
  BY <1>3, PublishRefines DEF Fifo!Next, Channel
<1>4. ASSUME NEW e \in Ends,
             TryLockOut(e) \/ CopyOut(e) \/ TryLockIn(e) \/ CopyIn(e) \/ ClearIn(e) \/ Deliver(e)
      PROVE  UNCHANGED <<Channel, delivered>>
  BY <1>4, LockRefines, CopyInRefines, ClearInRefines, DeliverRefines
<1>5. CASE UNCHANGED pipeVars
  <2>1. \A e \in Ends : Transit(e)' = Transit(e)
    BY <1>5 DEF pipeVars, Transit, Published
  <2> QED
    BY <1>5, <2>1 DEF pipeVars, Channel
<1> QED
  BY <1>1, <1>2, <1>3, <1>4, <1>5, Zenon DEF Next, Process

\* The pipe implements a pair of FIFO channels: for any messages, whatever the
\* two programs do between each other's steps, nothing is lost, duplicated or
\* reordered, except that a zero-length message may vanish.
THEOREM Refinement == Spec => FifoSpec
  BY InitRefines, NextRefines, Invariance, PTL
     DEF Spec, FifoSpec, Fifo!Spec, Fifo!fifoVars, Channel
=============================================================================
