---------------------------- MODULE MCProcessHost ----------------------------
(* ProcessHost for TLC: the constants are given in the configurations.     *)
EXTENDS ProcessHost
==============================================================================
