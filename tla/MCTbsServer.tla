---------------------------- MODULE MCTbsServer ----------------------------
(* TbsServer for TLC: a game of one player, with observers on a few sockets. *)
EXTENDS TbsServer

CONSTANT p1

MCPlayers == <<p1>>

\* Sockets are alike
Alike == Permutations(Sockets)
=============================================================================
