-------------------------- MODULE MCStockLauncher --------------------------
(* Two attempts are enough to interleave a launcher with the worker another *)
(* attempt left behind; every attempt can be started again without limit.   *)
EXTENDS StockLauncher, TLC

Symmetry == Permutations(Attempts)
=============================================================================
