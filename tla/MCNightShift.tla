----------------------------- MODULE MCNightShift -----------------------------
(* Two workers and three shelves: enough for two workers to meet on one    *)
(* shelf, for a chain of two waits, and for the manager's scan of two      *)
(* adjacent pairs to straddle an exchange.                                 *)
EXTENDS NightShift, TLC

CONSTANTS w1, w2

MCWorkers == {w1, w2}
Swappable == Permutations(MCWorkers)
=============================================================================
