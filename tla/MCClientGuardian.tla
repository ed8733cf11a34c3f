-------------------------- MODULE MCClientGuardian --------------------------
(* ClientGuardian for TLC: the constants are given in the configuration.   *)
EXTENDS ClientGuardian
=============================================================================
