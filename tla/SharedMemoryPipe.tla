-------------------------- MODULE SharedMemoryPipe --------------------------
(***************************************************************************)
(* shared_memory_pipe.cpp: two programs, each holding one end of a pipe,   *)
(* exchange messages through two shared regions.  A region has a mutex, a  *)
(* length word and room for one message; length 0 means "no message".      *)
(* Region e is the one end e writes (its out_addr_) and Peer(e) reads (its *)
(* in_addr_).  process() never blocks: it tries the mutex of each region   *)
(* and skips the region when the other program holds it.  The critical     *)
(* sections are split where another program's step could come in between:  *)
(* after the lock, after the payload is copied, after the length is set.   *)
(***************************************************************************)
EXTENDS Naturals, Sequences

CONSTANTS Messages,     \* the messages a program may write
          Empty,        \* the zero-length message
          MaxInTransit  \* bound: messages written and not yet read, both ways

ASSUME PipeAssumption ==
    /\ MaxInTransit \in Nat \ {0}
    /\ Messages # {}

Ends == {"a", "b"}
Peer(e) == IF e = "a" THEN "b" ELSE "a"
NoOne == "none"

VARIABLES
    outQueue,   \* out_queue_ of each end
    inQueue,    \* in_queue_ of each end
    lock,       \* the end that holds the mutex of each region, or NoOne
    data,       \* the payload in each region
    occupied,   \* whether the length word of each region is not zero
    buf,        \* process()'s local buf: << >> or <<message>>
    pc,         \* where each end stands in process()
    delivered   \* the batch the last read() at each end returned

pipeVars == <<outQueue, inQueue, lock, data, occupied, buf, pc, delivered>>

\* The messages e has written and its peer has not read, oldest first.
Published(e) == IF occupied[e] /\ pc[Peer(e)] # "clear" THEN <<data[e]>> ELSE << >>
Transit(e) == inQueue[Peer(e)] \o buf[Peer(e)] \o Published(e) \o outQueue[e]

Init ==
    /\ outQueue = [e \in Ends |-> << >>]
    /\ inQueue = [e \in Ends |-> << >>]
    /\ lock = [e \in Ends |-> NoOne]
    /\ data = [e \in Ends |-> Empty]
    /\ occupied = [e \in Ends |-> FALSE]
    /\ buf = [e \in Ends |-> << >>]
    /\ pc = [e \in Ends |-> "idle"]
    /\ delivered = [e \in Ends |-> << >>]

-----------------------------------------------------------------------------
(* The program that owns an end: write() and read() between two process(). *)

Write(e, m) ==
    /\ pc[e] = "idle"
    /\ Len(Transit("a")) + Len(Transit("b")) < MaxInTransit
    /\ outQueue' = [outQueue EXCEPT ![e] = Append(@, m)]
    /\ UNCHANGED <<inQueue, lock, data, occupied, buf, pc, delivered>>

Read(e) ==
    /\ pc[e] = "idle"
    /\ delivered' = [delivered EXCEPT ![e] = inQueue[e]]
    /\ inQueue' = [inQueue EXCEPT ![e] = << >>]
    /\ UNCHANGED <<outQueue, lock, data, occupied, buf, pc>>

-----------------------------------------------------------------------------
(* process(), first half: move the oldest queued message to region e.      *)

TryLockOut(e) ==
    /\ pc[e] = "idle"
    /\ IF outQueue[e] # << >> /\ lock[e] = NoOne
       THEN /\ lock' = [lock EXCEPT ![e] = e]
            /\ pc' = [pc EXCEPT ![e] = "copy"]
       ELSE /\ pc' = [pc EXCEPT ![e] = "in"]
            /\ UNCHANGED lock
    /\ UNCHANGED <<outQueue, inQueue, data, occupied, buf, delivered>>

\* Mutant: the message in the region is overwritten, len == 0 is not checked.
CopyOutUnchecked(e) ==
    /\ pc[e] = "copy"
    /\ data' = [data EXCEPT ![e] = Head(outQueue[e])]
    /\ pc' = [pc EXCEPT ![e] = "publish"]
    /\ UNCHANGED <<outQueue, inQueue, lock, occupied, buf, delivered>>

CopyOut(e) ==
    /\ pc[e] = "copy"
    /\ IF occupied[e]
       THEN /\ lock' = [lock EXCEPT ![e] = NoOne]
            /\ pc' = [pc EXCEPT ![e] = "in"]
            /\ UNCHANGED data
       ELSE /\ data' = [data EXCEPT ![e] = Head(outQueue[e])]
            /\ pc' = [pc EXCEPT ![e] = "publish"]
            /\ UNCHANGED lock
    /\ UNCHANGED <<outQueue, inQueue, occupied, buf, delivered>>

PublishOut(e) ==
    /\ pc[e] = "publish"
    /\ occupied' = [occupied EXCEPT ![e] = (data[e] # Empty)]
    /\ outQueue' = [outQueue EXCEPT ![e] = Tail(@)]
    /\ lock' = [lock EXCEPT ![e] = NoOne]
    /\ pc' = [pc EXCEPT ![e] = "in"]
    /\ UNCHANGED <<inQueue, data, buf, delivered>>

-----------------------------------------------------------------------------
(* process(), second half: take the message out of the peer's region.      *)

\* Mutant: hasLock() is not asked.
TryLockInForced(e) ==
    /\ pc[e] = "in"
    /\ lock' = [lock EXCEPT ![Peer(e)] = e]
    /\ pc' = [pc EXCEPT ![e] = "take"]
    /\ UNCHANGED <<outQueue, inQueue, data, occupied, buf, delivered>>

TryLockIn(e) ==
    /\ pc[e] = "in"
    /\ IF lock[Peer(e)] = NoOne
       THEN /\ lock' = [lock EXCEPT ![Peer(e)] = e]
            /\ pc' = [pc EXCEPT ![e] = "take"]
       ELSE /\ pc' = [pc EXCEPT ![e] = "idle"]
            /\ UNCHANGED lock
    /\ UNCHANGED <<outQueue, inQueue, data, occupied, buf, delivered>>

\* Mutant: buf.empty() is not checked, so a free region gives an empty message.
CopyInUnchecked(e) ==
    /\ pc[e] = "take"
    /\ IF occupied[Peer(e)]
       THEN /\ buf' = [buf EXCEPT ![e] = <<data[Peer(e)]>>]
            /\ pc' = [pc EXCEPT ![e] = "clear"]
            /\ UNCHANGED <<inQueue, lock>>
       ELSE /\ inQueue' = [inQueue EXCEPT ![e] = Append(@, Empty)]
            /\ lock' = [lock EXCEPT ![Peer(e)] = NoOne]
            /\ pc' = [pc EXCEPT ![e] = "idle"]
            /\ UNCHANGED buf
    /\ UNCHANGED <<outQueue, data, occupied, delivered>>

CopyIn(e) ==
    /\ pc[e] = "take"
    /\ IF occupied[Peer(e)]
       THEN /\ buf' = [buf EXCEPT ![e] = <<data[Peer(e)]>>]
            /\ pc' = [pc EXCEPT ![e] = "clear"]
            /\ UNCHANGED lock
       ELSE /\ lock' = [lock EXCEPT ![Peer(e)] = NoOne]
            /\ pc' = [pc EXCEPT ![e] = "idle"]
            /\ UNCHANGED buf
    /\ UNCHANGED <<outQueue, inQueue, data, occupied, delivered>>

\* Mutant: the length is not reset, the message stays in the region.
ClearInForgotten(e) ==
    /\ pc[e] = "clear"
    /\ lock' = [lock EXCEPT ![Peer(e)] = NoOne]
    /\ pc' = [pc EXCEPT ![e] = "deliver"]
    /\ UNCHANGED <<outQueue, inQueue, data, occupied, buf, delivered>>

ClearIn(e) ==
    /\ pc[e] = "clear"
    /\ occupied' = [occupied EXCEPT ![Peer(e)] = FALSE]
    /\ lock' = [lock EXCEPT ![Peer(e)] = NoOne]
    /\ pc' = [pc EXCEPT ![e] = "deliver"]
    /\ UNCHANGED <<outQueue, inQueue, data, buf, delivered>>

Deliver(e) ==
    /\ pc[e] = "deliver"
    /\ inQueue' = [inQueue EXCEPT ![e] = @ \o buf[e]]
    /\ buf' = [buf EXCEPT ![e] = << >>]
    /\ pc' = [pc EXCEPT ![e] = "idle"]
    /\ UNCHANGED <<outQueue, lock, data, occupied, delivered>>

-----------------------------------------------------------------------------

Process(e) ==
    \/ TryLockOut(e) \/ CopyOut(e) \/ PublishOut(e)
    \/ TryLockIn(e) \/ CopyIn(e) \/ ClearIn(e) \/ Deliver(e)

Next ==
    \E e \in Ends :
       \/ \E m \in Messages : Write(e, m)
       \/ Read(e)
       \/ Process(e)

Spec == Init /\ [][Next]_pipeVars

-----------------------------------------------------------------------------
(* Properties.                                                             *)

\* What an end may receive: length 0 stands for "no message" (len != 0 and
\* !buf.empty() in process()), so the empty message never arrives.
Deliverable == Messages \ {Empty}

\* Every variable stays in the set of values the code gives it.  A program may
\* write the empty message, but however the two ends interleave none comes out of
\* buf, in_queue_ or read(): a region that is free, or whose message was taken
\* already, is never delivered as a message of length 0.
TypeOK ==
    /\ outQueue \in [Ends -> Seq(Messages)]
    /\ inQueue \in [Ends -> Seq(Deliverable)]
    /\ lock \in [Ends -> Ends \cup {NoOne}]
    /\ data \in [Ends -> Messages \cup {Empty}]
    /\ occupied \in [Ends -> BOOLEAN]
    /\ buf \in [Ends -> {<< >>} \cup {<<m>> : m \in Deliverable}]
    /\ pc \in [Ends -> {"idle", "copy", "publish", "in", "take", "clear", "deliver"}]
    /\ delivered \in [Ends -> Seq(Deliverable)]

\* The two programs never work on a region at the same time: an end is between
\* try_lock and unlock exactly while it holds the region's mutex (RegionTryLock),
\* so a half-copied message is never read and every mutex is given back.
RegionExclusion ==
    \A e \in Ends :
       /\ pc[e] \in {"copy", "publish"} <=> lock[e] = e
       /\ pc[e] \in {"take", "clear"} <=> lock[Peer(e)] = e

\* What process() is about to publish is still its oldest queued message and
\* goes into a free region; what it is about to clear is the message it copied.
RegionIntegrity ==
    \A e \in Ends :
       /\ pc[e] = "publish" =>
             outQueue[e] # << >> /\ ~occupied[e] /\ data[e] = Head(outQueue[e])
       /\ pc[e] = "clear" => occupied[Peer(e)] /\ buf[e] = <<data[Peer(e)]>>

Fifo == INSTANCE PipeFifo WITH
            transit <- [e \in Ends |-> Transit(e)]

\* The pipe implements a pair of FIFO channels: nothing is lost, duplicated or
\* reordered on the way, except that a zero-length message may vanish.
FifoSpec == Fifo!Spec
=============================================================================
