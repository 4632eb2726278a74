------------------------------- MODULE MCTray -------------------------------
(* TrayIcon for TLC: the threads there are, how many messages wait and what *)
(* the general settings may be are chosen by the cfg.                       *)
EXTENDS TrayIcon, TLC
=============================================================================
