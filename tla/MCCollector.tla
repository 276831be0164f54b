---------------------------- MODULE MCCollector ----------------------------
(* Small values for the constants of Collector.                            *)
EXTENDS Collector, TLC

CONSTANTS a1, a2, a3

(* Two object fields, after a scalar one: enough for a diamond, a shared   *)
(* child and a cycle.                                                      *)
MCKlasses == <<<<FALSE, TRUE, TRUE>>>>

AddrSymmetry == Permutations(Addr)
=============================================================================
