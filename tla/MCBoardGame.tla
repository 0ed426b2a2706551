----------------------------- MODULE MCBoardGame -----------------------------
(* The smallest board (four fields in reach) and two clients: one can join *)
(* while the server or the other client is inside.                         *)
EXTENDS BoardGame, TLC

CONSTANTS c1, c2

MCClients == {c1, c2}
Swappable == Permutations(MCClients)
=============================================================================
