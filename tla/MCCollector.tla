------------------------------ MODULE MCCollector ------------------------------
(***************************************************************************)
(* Instances of Collector for TLC.                                         *)
(***************************************************************************)
EXTENDS Collector, TLC

Symmetry == Permutations(Runtime)
================================================================================
