--------------------------- MODULE HandleDirectory ---------------------------
(***************************************************************************)
(* What the memory store and its clients promise together, seen from       *)
(* outside: a directory of handles.  A handle that was bound stays bound   *)
(* for as long as the directory is up, always to a value whose hash it     *)
(* prints: one value, unless several share their compact hash, and then    *)
(* the last of them that was published.  Text that was handed out as       *)
(* recoverable names only bound handles.  Requests, retries, sessions,     *)
(* maskers and crashes are not visible here.                               *)
(***************************************************************************)
CONSTANTS
    Handles, Values, NoValue,
    MayStandFor  \* the values whose hash a handle prints

VARIABLES
    up,      \* the directory can be asked
    bound,   \* the value of each handle, or NoValue
    told     \* <<handle, value>> of the text handed out as recoverable

dirVars == <<up, bound, told>>

Init ==
    /\ up = TRUE
    /\ bound = [h \in Handles |-> NoValue]
    /\ told = {}

\* Handles are bound; a bound one stays bound, and to its value if it prints the
\* hash of only one.
Publish ==
    /\ up
    /\ bound' \in [Handles -> Values \cup {NoValue}]
    /\ \A h \in Handles : bound'[h] # bound[h] => bound'[h] \in MayStandFor[h]
    /\ UNCHANGED <<up, told>>

\* Text is handed out, recoverable at once if the directory is still up.
HandOut ==
    /\ told \subseteq told'
    /\ \A p \in told' \ told : p[2] \in MayStandFor[p[1]]
    /\ up => \A p \in told' \ told : bound[p[1]] \in MayStandFor[p[1]]
    /\ UNCHANGED <<up, bound>>

\* The directory goes down with everything it knew.
Stop ==
    /\ up
    /\ up' = FALSE
    /\ bound' = [h \in Handles |-> NoValue]
    /\ UNCHANGED told

Next == Publish \/ HandOut \/ Stop

Spec == Init /\ [][Next]_dirVars
==============================================================================
