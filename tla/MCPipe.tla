------------------------------- MODULE MCPipe -------------------------------
(* TwoWayPipe for TLC: the runner sends one set of messages and the        *)
(* Settings window another, each chosen by the cfg.                        *)
EXTENDS TwoWayPipe

CONSTANTS ToRunner, ToSettings

MCInit == Init /\ unsent = [e \in End |-> IF e = Runner THEN ToRunner ELSE ToSettings]
MCSpec == MCInit /\ [][Next]_vars
MCFairSpec == MCSpec /\ Fairness
=============================================================================
