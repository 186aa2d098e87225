---------------------------- MODULE MCBenchLakes ----------------------------
(* An instance of BenchLakes for TLC.                                      *)
EXTENDS BenchLakes

TwoShapes == {[chunks |-> 2, mid |-> 1], [chunks |-> 3, mid |-> 2]}
=============================================================================
