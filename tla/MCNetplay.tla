----------------------------- MODULE MCNetplay ------------------------------
EXTENDS NetplayBounded

\* Player 0 presses keys, the others only watch: predictions about player 0 go
\* wrong, those about the others never do.
OnlyZeroPlays == [p \in Slots |-> IF p = 0 THEN Frames ELSE {NoKeys}]

\* Two players that both press keys: player 1 always holds one, so that its first
\* frame contradicts what the other predicts.
OneHolds == [p \in Slots |-> IF p = 0 THEN Frames ELSE Frames \ {NoKeys}]
=============================================================================
