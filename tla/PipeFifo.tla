------------------------------ MODULE PipeFifo ------------------------------
(***************************************************************************)
(* What SharedMemoryPipe promises to the two programs that hold its ends:  *)
(* a pair of FIFO channels.  transit[e] holds the messages that end e has  *)
(* written and the other end has not read yet, oldest first; delivered[e]  *)
(* is the batch the last read at end e returned.                           *)
(*                                                                         *)
(* The one weakness of the implementation that the contract has to admit:  *)
(* a zero-length message may vanish in transit, because a length of zero   *)
(* is how the shared region says "no message".                             *)
(***************************************************************************)
EXTENDS Naturals, Sequences

CONSTANTS Ends,       \* the two ends of the pipe
          Messages,   \* the messages a program may write
          Empty       \* the zero-length message

VARIABLES transit, delivered

fifoVars == <<transit, delivered>>

RemoveAt(s, i) == SubSeq(s, 1, i - 1) \o SubSeq(s, i + 1, Len(s))

Init ==
    /\ transit = [e \in Ends |-> << >>]
    /\ delivered = [e \in Ends |-> << >>]

Send(e, m) ==
    /\ transit' = [transit EXCEPT ![e] = Append(@, m)]
    /\ UNCHANGED delivered

\* The other end f takes the n oldest messages e has written.
Receive(e, f, n) ==
    /\ delivered' = [delivered EXCEPT ![f] = SubSeq(transit[e], 1, n)]
    /\ transit' = [transit EXCEPT ![e] = SubSeq(@, n + 1, Len(@))]

LoseEmpty(e, i) ==
    /\ transit[e][i] = Empty
    /\ transit' = [transit EXCEPT ![e] = RemoveAt(@, i)]
    /\ UNCHANGED delivered

Next ==
    \E e \in Ends :
       \/ \E m \in Messages : Send(e, m)
       \/ \E f \in Ends \ {e}, n \in 0..Len(transit[e]) : Receive(e, f, n)
       \/ \E i \in 1..Len(transit[e]) : LoseEmpty(e, i)

Spec == Init /\ [][Next]_fifoVars
=============================================================================
