--------------------------- MODULE NetplayBounded ---------------------------
(***************************************************************************)
(* The condition on the network under which Netplay keeps the players in   *)
(* sync.  Nothing in the code makes a player wait for the others: it keeps *)
(* playing however far ahead of their packets and acknowledgements it is.  *)
(* With the code's 1024 frames of history, 250 snapshots and 50 cycles a   *)
(* second, this says that nobody is ever five seconds behind.              *)
(***************************************************************************)
EXTENDS Netplay

\* A player that runs MaxLag cycles ahead still has, after it has erased half of
\* its history, every frame that the slowest player has not acknowledged.
ASSUME BoundedLagAssumption == MaxLag < MaxHistory - (MaxHistory \div 2)

\* ... and a snapshot of the cycle a late packet may reach back to, with every
\* frame that the cycles after it depend on.
ASSUME ReplayAssumption ==
    /\ MaxLag < MaxBackups
    /\ Delay < MaxHistory - (MaxHistory \div 2)
    /\ MaxLag + Delay <= MaxHistory - (MaxHistory \div 2)
=============================================================================
