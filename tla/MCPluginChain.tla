---------------------------- MODULE MCPluginChain ----------------------------
(* PluginChain for TLC: one thread runs a hook that may replace the payload, *)
(* another one asks for findings.                                            *)
EXTENDS PluginChain

CONSTANTS c1, c2

MCHookOf == [c \in Callers |-> IF c = c1 THEN "run" ELSE "inspect"]
==============================================================================
