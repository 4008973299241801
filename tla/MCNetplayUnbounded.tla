------------------------- MODULE MCNetplayUnbounded -------------------------
EXTENDS Netplay

\* Player 0 presses keys, the others only watch.
OnlyZeroPlays == [p \in Slots |-> IF p = 0 THEN Frames ELSE {NoKeys}]
=============================================================================
