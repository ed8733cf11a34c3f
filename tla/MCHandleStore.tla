---------------------------- MODULE MCHandleStore ----------------------------
(* A small instance of HandleStore.  Handles are records that carry the hash *)
(* they print: that of a full one is whole, that of a compact one is short,  *)
(* so short that the values all share it.                                    *)
EXTENDS HandleStore

Compact == [v \in Values |-> [form |-> "compact", hash |-> "short"]]
Full    == [v \in Values |-> [form |-> "full", hash |-> v]]

AllHandles == {Compact[v] : v \in Values} \cup {Full[v] : v \in Values}

\* One value is also in a registered, unchanged file.
OneFile == [h \in AllHandles |-> IF h = Compact["v1"] THEN "v1" ELSE NoValue]

\* Two threads in the first process (exec --live), one in the second.
TwoStreams == [c \in Clients |-> IF c \in {"out", "err"} THEN "p1" ELSE "p2"]
Commands   == [c \in Clients |-> IF c \in {"out", "err"} THEN {"live"}
                                 ELSE {"shared", "hook", "read"}]

\* One value alone, and the two in one document, the other one first: the two
\* collide inside the second document and between the first and the second.
Documents == {<<"v1">>, <<"v2", "v1">>}
==============================================================================
