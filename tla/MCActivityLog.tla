---------------------------- MODULE MCActivityLog ----------------------------
(* ActivityLog for TLC: e1 and e2 repeat one diagnostic, e4 is not one.      *)
EXTENDS ActivityLog

\* One key: the two diagnostics are repeats of each other.
MCKeyOf == [e \in Events |-> "k"]
==============================================================================
