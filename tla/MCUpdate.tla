------------------------------ MODULE MCUpdate ------------------------------
(* UpdateSystem for TLC: which threads there are is chosen by the cfg. *)
EXTENDS UpdateSystem, TLC
============================================================================
