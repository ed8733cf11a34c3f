----------------------------- MODULE PluginChain -----------------------------
(***************************************************************************)
(* The plugin middleware of one process.  Threads (callers) take payloads  *)
(* through the chain of plugins: a Wasm plugin runs in the caller, a       *)
(* Command plugin is a child process behind a lock that answers one line   *)
(* per request on its standard output.  A failing plugin stops the chain   *)
(* if it is required and is skipped if it is optional.  A budget limits    *)
(* the whole chain.                                                        *)
(*                                                                         *)
(* A payload is the sequence of replacements made to it.  The number of a  *)
(* request (REQUEST_ID, fresh for each) is what tells requests apart: the  *)
(* caller, the plugin and whether it is the prewarm.  A plugin may print   *)
(* more lines than it should, answer late, hang or die.                    *)
(***************************************************************************)
EXTENDS Naturals, Sequences, FiniteSets

CONSTANTS
    Callers,      \* threads, each with one call of the chain
    Main,         \* the thread that loads and prepares the plugins
    HookOf,       \* what each thread's call is: "run" or "inspect"
    Chain,        \* number of plugins in the chain, in their order
    Required,     \* the plugins with required = true
    Command,      \* the Command plugins; the others are Wasm
    Prewarmed,    \* the Command plugins started before the first request
    MaxExtra,     \* bound on the unsolicited lines a plugin process prints
    Asks,         \* what a Wasm guest may request of the host, as bytes
    HostRequests, \* HOST_MAX_REQUESTS
    None

Plugins == 1 .. Chain
ASSUME ChainAssumption ==
    /\ Chain \in Nat \ {0}
    /\ Required \subseteq Plugins
    /\ Command \subseteq Plugins
    /\ Prewarmed \subseteq Command
    /\ MaxExtra \in Nat /\ HostRequests \in Nat
    /\ Main \in Callers /\ HookOf \in [Callers -> {"run", "inspect"}]
    /\ None \notin Callers \cup Asks

VARIABLES
    enabled,   \* plugins that are still in the chain after the prewarm
    started,   \* "no", "yes", "failed": PluginMiddleware::from_env
    call,      \* the calls under way
    lock,      \* holder of each Command plugin's state
    session,   \* each Command plugin's child process, or NoSession
    host       \* a Wasm call's host requests

vars == <<enabled, started, call, lock, session, host>>

Kinds == {"prewarm", "run", "inspect"}
Replacements == [caller : Callers, plugin : Plugins]
Ids == [caller : Callers, plugin : Plugins, prewarm : BOOLEAN]
Requests == [id : Ids, payload : Seq(Replacements)]
Lines == [id : Ids \cup {None}, payload : Seq(Replacements),
          action : {"next", "stop", "error", "junk", "closed"}]
NoSession == [live |-> FALSE, inbox |-> <<>>, outbox |-> <<>>, extra |-> 0, rejected |-> FALSE]
NoAnswer == [ask |-> None, n |-> 0]
NoHost == [count |-> 0, pending |-> None, answer |-> NoAnswer, ask |-> None, told |-> "none"]
NoLine == [id |-> None, payload |-> <<>>, action |-> "junk"]
NewCall(kind) ==
    [pc |-> "plugin", at |-> 1, kind |-> kind, payload |-> <<>>, ran |-> {},
     partial |-> FALSE, expired |-> FALSE, outcome |-> "none", got |-> NoLine]

Calls == [pc : {"idle", "plugin", "wasm", "lock", "write", "await", "parse", "done"},
          at : 1 .. Chain + 1, kind : Kinds, payload : Seq(Replacements),
          ran : SUBSET Plugins, partial : BOOLEAN, expired : BOOLEAN,
          outcome : {"none", "ok", "blocked", "error"}, got : Lines]
Sessions == [live : BOOLEAN, inbox : Seq(Requests), outbox : Seq(Lines),
             extra : Nat, rejected : BOOLEAN]
\* An answer is what was performed and as the how-manieth host request.
Answers == [ask : Asks \cup {None}, n : Nat]
\* pending is the request whose answer is kept, answer the last one that was
\* used; ask and told are ghosts: the guest's last request and its outcome.
Hosts == [count : Nat, pending : Asks \cup {None}, answer : Answers,
          ask : Asks \cup {None}, told : {"none", "small", "gone", "refused"}]

TypeOK ==
    /\ enabled \subseteq Plugins
    /\ started \in {"no", "yes", "failed"}
    /\ call \in [Callers -> Calls]
    /\ lock \in [Plugins -> Callers \cup {None}]
    /\ session \in [Plugins -> Sessions]
    /\ host \in [Callers -> Hosts]

Init ==
    /\ enabled = Plugins
    /\ started = "no"
    /\ call = [c \in Callers |-> [NewCall("run") EXCEPT !.pc = "idle"]]
    /\ lock = [p \in Plugins |-> None]
    /\ session = [p \in Plugins |-> NoSession]
    /\ host = [c \in Callers |-> NoHost]

At(c, pc) == call[c].pc = pc
Goto(c, pc) == call' = [call EXCEPT ![c].pc = pc]
Plugin(c) == call[c].at
Id(c) == [caller |-> c, plugin |-> Plugin(c), prewarm |-> call[c].kind = "prewarm"]
Finish(c, outcome) ==
    [call EXCEPT ![c] = [@ EXCEPT !.pc = "done", !.at = Chain + 1, !.outcome = outcome,
                                  !.got = NoLine, !.expired = FALSE]]
Unlock(p) == lock' = [lock EXCEPT ![p] = None]
StopSession(p) == session' = [session EXCEPT ![p] = NoSession]

-----------------------------------------------------------------------------
(* The chain: run, detect_spans and prewarm_enabled_plugins                *)

\* The main thread prepares the plugins that need it; the others wait for it.
Prepare ==
    /\ started = "no" /\ At(Main, "idle")
    /\ call' = [call EXCEPT ![Main] = NewCall("prewarm")]
    /\ UNCHANGED <<enabled, started, lock, session, host>>

Begin(c) ==
    /\ started = "yes" /\ At(c, "idle")
    /\ call' = [call EXCEPT ![c] = NewCall(HookOf[c])]
    /\ UNCHANGED <<enabled, started, lock, session, host>>

\* The budget's deadline passes.
Expire(c) ==
    /\ call[c].pc \notin {"idle", "done"} /\ ~call[c].expired
    /\ call' = [call EXCEPT ![c].expired = TRUE]
    /\ UNCHANGED <<enabled, started, lock, session, host>>

\* A plugin that is not in this chain, or needs no preparation.
Skipped(c) == IF call[c].kind = "prewarm" THEN Plugin(c) \notin Prewarmed
              ELSE Plugin(c) \notin enabled

\* Mutant: the end of the chain is passed over too.
SkipPastEnd(c) ==
    /\ At(c, "plugin") /\ Skipped(c)
    /\ call' = [call EXCEPT ![c].at = @ + 1]
    /\ UNCHANGED <<enabled, started, lock, session, host>>

Skip(c) ==
    /\ At(c, "plugin") /\ Plugin(c) \in Plugins /\ Skipped(c)
    /\ call' = [call EXCEPT ![c].at = @ + 1]
    /\ UNCHANGED <<enabled, started, lock, session, host>>

\* All plugins are through.  After the prewarm the caller goes on to its call.
Complete(c) ==
    /\ At(c, "plugin") /\ Plugin(c) = Chain + 1
    /\ IF call[c].kind = "prewarm"
       THEN /\ started' = "yes"
            /\ call' = [call EXCEPT ![c] = [NewCall("run") EXCEPT !.pc = "idle"]]
       ELSE /\ call' = Finish(c, "ok")
            /\ UNCHANGED started
    /\ UNCHANGED <<enabled, lock, session, host>>

\* Mutant: a failed optional plugin is passed over silently.
FailSilently(c) ==
    LET p == Plugin(c)
    IN IF p \in Required
       THEN /\ call' = Finish(c, "error")
            /\ started' = IF call[c].kind = "prewarm" THEN "failed" ELSE started
            /\ UNCHANGED enabled
       ELSE /\ call' = [call EXCEPT ![c].pc = "plugin", ![c].at = p + 1,
                                    ![c].expired = @ /\ call[c].kind # "prewarm"]
            /\ enabled' = IF call[c].kind = "prewarm" THEN enabled \ {p} ELSE enabled
            /\ UNCHANGED started

\* The plugin failed: a required one ends the chain, an optional one leaves
\* partial coverage, or the chain itself if it could not be prepared.
Fail(c) ==
    LET p == Plugin(c)
    IN IF p \in Required
       THEN /\ call' = Finish(c, "error")
            /\ started' = IF call[c].kind = "prewarm" THEN "failed" ELSE started
            /\ UNCHANGED enabled
       ELSE /\ call' = [call EXCEPT ![c].pc = "plugin", ![c].at = p + 1,
                                    ![c].partial = call[c].kind # "prewarm", ![c].got = NoLine,
                                    ![c].expired = @ /\ call[c].kind # "prewarm"]
            /\ enabled' = IF call[c].kind = "prewarm" THEN enabled \ {p} ELSE enabled
            /\ UNCHANGED started

\* invoke_bounded_inner up to the program: the request gets its number; it
\* may be too large for the plugin or for the chain's budget.
Invoke(c) ==
    /\ At(c, "plugin") /\ Plugin(c) \in Plugins /\ ~Skipped(c)
    /\ UNCHANGED <<lock, session, host>>
    /\ \/ /\ ~call[c].expired
          /\ Goto(c, IF Plugin(c) \in Command THEN "lock" ELSE "wasm")
          /\ UNCHANGED <<enabled, started>>
       \/ Fail(c)

-----------------------------------------------------------------------------
(* Command plugins: CommandProgram and CommandSession                      *)

\* The lock is free: a process is started if there is none; starting may fail.
\* A chain that is out of time leaves the process as it is.
Lock(c) ==
    LET p == Plugin(c) IN
    /\ At(c, "lock") /\ lock[p] = None
    /\ UNCHANGED host
    /\ \/ /\ ~session[p].live
          /\ Fail(c) /\ UNCHANGED <<lock, session>>
       \/ /\ session' = [session EXCEPT ![p].live = TRUE]
          /\ IF call[c].expired
             THEN Fail(c) /\ UNCHANGED lock
             ELSE /\ lock' = [lock EXCEPT ![p] = c]
                  /\ Goto(c, "write")
                  /\ UNCHANGED <<enabled, started>>

LockTimesOut(c) ==
    /\ At(c, "lock") /\ lock[Plugin(c)] # None /\ call[c].expired
    /\ Fail(c)
    /\ UNCHANGED <<lock, session, host>>

\* exchange: the request is written, or the process does not take it in time.
Write(c) ==
    LET p == Plugin(c) IN
    /\ At(c, "write")
    /\ UNCHANGED host
    /\ \/ /\ session' = [session EXCEPT ![p].inbox = Append(@,
                           [id |-> Id(c), payload |-> call[c].payload])]
          /\ Goto(c, "await")
          /\ UNCHANGED <<enabled, started, lock>>
       \/ StopSession(p) /\ Unlock(p) /\ Fail(c)

\* The next line of the process, or its end.
Receive(c) ==
    LET p == Plugin(c)
        out == session[p].outbox IN
    /\ At(c, "await") /\ out # <<>>
    /\ Unlock(p)
    /\ UNCHANGED host
    /\ IF Head(out).action = "closed"
       THEN StopSession(p) /\ Fail(c)
       ELSE /\ session' = [session EXCEPT ![p].outbox = Tail(out)]
            /\ call' = [call EXCEPT ![c].pc = "parse", ![c].got = Head(out)]
            /\ UNCHANGED <<enabled, started>>

\* Mutant: a process that timed out is kept for the next request.
ReceiveTimesOutKeeps(c) ==
    /\ At(c, "await")
    /\ Unlock(Plugin(c)) /\ Fail(c)
    /\ UNCHANGED <<session, host>>

\* Mutant: the answer is awaited without a limit.
ReceiveWaits(c) ==
    /\ At(c, "await") /\ call[c].expired /\ session[Plugin(c)].inbox = <<>>
    /\ StopSession(Plugin(c)) /\ Unlock(Plugin(c)) /\ Fail(c)
    /\ UNCHANGED host

\* No line in time: the process is stopped with everything it spawned.
ReceiveTimesOut(c) ==
    /\ At(c, "await")
    /\ StopSession(Plugin(c)) /\ Unlock(Plugin(c)) /\ Fail(c)
    /\ UNCHANGED host

-----------------------------------------------------------------------------
(* The plugin process (external)                                           *)

Say(p, s, l) == session' = [session EXCEPT ![p] = [s EXCEPT !.outbox = Append(@, l)]]

\* It answers the next request: pass on, replace the payload, stop, or fail.
ProcessAnswers(p) ==
    /\ session[p].live /\ session[p].inbox # <<>>
    /\ LET r == Head(session[p].inbox)
           s == [session[p] EXCEPT !.inbox = Tail(@)]
           l == [id |-> r.id, payload |-> r.payload, action |-> "next"]
       IN \/ Say(p, s, l)
          \/ Say(p, s, [l EXCEPT !.payload = Append(@, [caller |-> r.id.caller, plugin |-> p])])
          \/ \E a \in {"stop", "error"} : Say(p, s, [l EXCEPT !.action = a])
    /\ UNCHANGED <<enabled, started, call, lock, host>>

\* A line nobody asked for.
ProcessPrints(p) ==
    /\ session[p].live /\ session[p].extra < MaxExtra
    /\ Say(p, [session[p] EXCEPT !.extra = @ + 1], NoLine)
    /\ UNCHANGED <<enabled, started, call, lock, host>>

ProcessDies(p) ==
    /\ session[p].live
    /\ \A i \in 1 .. Len(session[p].outbox) : session[p].outbox[i].action # "closed"
    /\ Say(p, [session[p] EXCEPT !.inbox = <<>>], [NoLine EXCEPT !.action = "closed"])
    /\ UNCHANGED <<enabled, started, call, lock, host>>

-----------------------------------------------------------------------------
(* Wasm plugins: WasmProgram::invoke_bounded and wasm_host_request         *)

\* Mutant: whatever answer is kept is taken for the request.
KeptForAny(c, r) == host[c].pending # None

\* The answer to this very request was kept.
Kept(c, r) == host[c].pending = r

\* The guest requests r.  A kept answer is taken out, another one is discarded
\* and r is performed; then the answer does not fit the guest's buffer and is
\* kept, also when it was kept before ("small"), or it is written to the buffer
\* or lost because the write fails, and kept in neither case ("gone").
HostRequest(c, r) ==
    /\ At(c, "wasm") /\ (Kept(c, r) \/ host[c].count < HostRequests)
    /\ \E told \in {"small", "gone"} :
          LET n == host[c].count + (IF Kept(c, r) THEN 0 ELSE 1)
          IN  host' = [host EXCEPT ![c] =
                 [count |-> n, pending |-> IF told = "small" THEN r ELSE None,
                  answer |-> IF Kept(c, r) THEN @.answer ELSE [ask |-> r, n |-> n],
                  ask |-> r, told |-> told]]
    /\ UNCHANGED <<enabled, started, call, lock, session>>

\* No more requests: the answer that was kept for another one is discarded.
HostRefuses(c, r) ==
    /\ At(c, "wasm") /\ ~Kept(c, r) /\ host[c].count >= HostRequests
    /\ host' = [host EXCEPT ![c] = [@ EXCEPT !.pending = None, !.answer = NoAnswer,
                                              !.ask = r, !.told = "refused"]]
    /\ UNCHANGED <<enabled, started, call, lock, session>>

\* The guest returns within its fuel and limits, or the call fails.
WasmReturns(c) ==
    /\ At(c, "wasm")
    /\ host' = [host EXCEPT ![c] = NoHost]
    /\ UNCHANGED <<lock, session>>
    /\ \/ Fail(c)
       \/ /\ UNCHANGED <<enabled, started>>
          /\ \E a \in {"next", "stop"} :
             \E r \in {<<>>, <<[caller |-> c, plugin |-> Plugin(c)]>>} :
                call' = [call EXCEPT ![c].pc = "parse",
                            ![c].got = [id |-> Id(c), action |-> a,
                                        payload |-> call[c].payload \o r]]

-----------------------------------------------------------------------------
(* The response                                                            *)

\* Mutant: the number of the answer is not compared.
AcceptedAny(c) == call[c].got.action \in {"next", "stop"}

\* A protocol response to this very request that reports no error.
Accepted(c) == call[c].got.action \in {"next", "stop"} /\ call[c].got.id = Id(c)

\* A rejected answer fails the plugin; its process is kept.
Reject(c) ==
    /\ At(c, "parse") /\ ~Accepted(c)
    /\ Fail(c)
    /\ session' = [session EXCEPT ![Plugin(c)].rejected = @ \/ call[c].got.action # "error"]
    /\ UNCHANGED <<lock, host>>

\* An answer the hook does not allow (too many findings, a replacement from
\* inspect, a respond outside request) fails the plugin as well; run takes
\* an optional plugin's respond as a block.
Disallowed(c) ==
    /\ At(c, "parse") /\ Accepted(c)
    /\ IF call[c].kind = "run"
       THEN call[c].got.action = "stop" /\ Plugin(c) \in Required
       ELSE TRUE
    /\ Fail(c)
    /\ UNCHANGED <<lock, session, host>>

Stops(c) ==
    /\ At(c, "parse") /\ Accepted(c) /\ call[c].got.action = "stop"
    /\ call[c].kind # "prewarm"
    /\ call' = [Finish(c, "blocked") EXCEPT
                   ![c].payload = IF call[c].kind = "run" THEN call[c].got.payload ELSE @]
    /\ UNCHANGED <<enabled, started, lock, session, host>>

Continue(c) ==
    /\ At(c, "parse") /\ Accepted(c) /\ call[c].got.action = "next"
    /\ call[c].kind = "run" \/ call[c].got.payload = call[c].payload
    /\ call' = [call EXCEPT ![c].pc = "plugin", ![c].at = @ + 1,
                            ![c].payload = call[c].got.payload, ![c].got = NoLine,
                            ![c].ran = @ \cup {Plugin(c)},
                            ![c].expired = @ /\ call[c].kind # "prewarm"]
    /\ UNCHANGED <<enabled, started, lock, session, host>>

-----------------------------------------------------------------------------
CallStep(c) ==
    \/ Skip(c) \/ Complete(c) \/ Invoke(c) \/ Lock(c) \/ LockTimesOut(c) \/ Write(c)
    \/ Receive(c) \/ ReceiveTimesOut(c) \/ WasmReturns(c)
    \/ Reject(c) \/ Disallowed(c) \/ Stops(c) \/ Continue(c)

Served == started # "no" /\ \A c \in Callers : At(c, "done") \/ started = "failed"
Idle == Served /\ UNCHANGED vars

Next ==
    \/ Prepare
    \/ \E c \in Callers : \/ Begin(c) \/ Expire(c) \/ CallStep(c)
                          \/ \E r \in Asks : HostRequest(c, r) \/ HostRefuses(c, r)
    \/ \E p \in Command : ProcessAnswers(p) \/ ProcessPrints(p) \/ ProcessDies(p)
    \/ Idle

\* A caller runs; time passes; a wait has a limit.  Plugins promise nothing.
Spec ==
    /\ Init /\ [][Next]_vars
    /\ \A c \in Callers : WF_vars(CallStep(c)) /\ WF_vars(Expire(c))

-----------------------------------------------------------------------------
(* What a caller's payload became is the work of plugins of its own chain, *)
(* in the chain's order and on its own request: a late, repeated or        *)
(* unsolicited answer of a shared process never reaches another payload.   *)
OwnAnswers ==
    \A c \in Callers : LET s == call[c].payload IN
        /\ \A i \in 1 .. Len(s) : s[i].caller = c
        /\ \A i, j \in 1 .. Len(s) : i < j => s[i].plugin < s[j].plugin

(* A chain that ends well has run every required plugin, and "Optional     *)
(* does not mean that Pentect silently claims the plugin ran": with full   *)
(* coverage every plugin that was prepared has run.                        *)
CoverageTold ==
    \A c \in Callers : call[c].outcome = "ok" =>
        /\ Required \subseteq call[c].ran
        /\ ~call[c].partial => enabled \subseteq call[c].ran

(* A process that prints one line per request answers the request that is  *)
(* waiting: no timeout, failure or restart leaves an old answer behind for *)
(* the caller that reads its output next.                                  *)
Aligned ==
    \A c \in Callers : LET s == session[Plugin(c)] IN
        At(c, "await") /\ s.extra = 0 /\ s.outbox # <<>> /\ Head(s.outbox).action # "closed"
            => Head(s.outbox).id = Id(c)

(* A guest that was told its buffer is too small and repeats the request,  *)
(* however often, gets the answer of the one time it was performed (a      *)
(* command run, a file written), also with no request left; any other      *)
(* request is performed, and never answered with what was kept for another *)
(* one or was handed over or lost before.                                  *)
HostOnce ==
    [][\A c \in Callers : LET h == host[c]
                              g == host'[c]
       IN  g # h /\ g.told \in {"small", "gone"} =>
             /\ g.answer.ask = g.ask
             /\ g.answer = h.answer <=> h.told = "small" /\ h.ask = g.ask]_vars

(* Every call of the chain ends, even if a plugin hangs with its lock held.*)
CallEnds == \A c \in Callers : []<>(call[c].pc \in {"idle", "done"})

(* "Pentect stops and restarts a process after invalid JSON, a wrong id":  *)
(* a process whose answer was rejected gets no further request.            *)
RestartedAfterWrongAnswer ==
    \A c \in Callers : At(c, "await") => ~session[Plugin(c)].rejected
-----------------------------------------------------------------------------
(* The inductive invariant behind OwnAnswers, CoverageTold, Aligned and      *)
(* HostOnce.                                                               *)

\* A payload of c as the plugin p gets it: c's own, from plugins before p.
PayloadFor(s, c, p) ==
    /\ \A i \in 1 .. Len(s) : s[i].caller = c /\ s[i].plugin < p
    /\ \A i, j \in 1 .. Len(s) : i < j => s[i].plugin < s[j].plugin

\* A line that names a request carries what its plugin made of its payload.
LineOK(l) == l.id \in Ids => PayloadFor(l.payload, l.id.caller, l.id.plugin + 1)

\* Which plugin a call is at, and that its payload comes from earlier ones.
CallOK(c) ==
    /\ call[c].pc \in {"wasm", "lock", "write", "await", "parse"} => Plugin(c) \in Plugins
    /\ call[c].pc \in {"lock", "write", "await"} => Plugin(c) \in Command
    /\ PayloadFor(call[c].payload, c, Plugin(c))
    /\ LineOK(call[c].got)

\* The part of the chain that a call has gone through, as its result tells it.
CoverOK(c) ==
    /\ call[c].kind # "prewarm" /\ call[c].outcome \in {"none", "ok"} =>
          \A p \in Plugins : p < Plugin(c) /\ p \notin call[c].ran =>
             p \notin Required /\ (p \in enabled => call[c].partial)
    /\ call[c].outcome = "ok" => call[c].kind # "prewarm" /\ Plugin(c) = Chain + 1
    /\ call[c].pc # "done" => call[c].outcome = "none"

\* The lock of a process is held from before the write until the answer, a
\* process that is not there has no messages, and those there are are whole.
LockOK ==
    /\ \A c \in Callers : call[c].pc \in {"write", "await"} => lock[Plugin(c)] = c
    /\ \A p \in Plugins : lock[p] # None =>
          /\ call[lock[p]].pc \in {"write", "await"} /\ Plugin(lock[p]) = p
          /\ session[p].live
    /\ \A p \in Plugins : LET s == session[p] IN
          /\ ~s.live => s.inbox = <<>> /\ s.outbox = <<>> /\ s.extra = 0
          /\ \A i \in 1 .. Len(s.inbox) : s.inbox[i].id.plugin = p
                /\ PayloadFor(s.inbox[i].payload, s.inbox[i].id.caller, p)
          /\ \A i \in 1 .. Len(s.outbox) : LineOK(s.outbox[i])

ClosedFirst(out) == out = <<>> \/ Head(out).action = "closed"

\* With one line per request: before a request is written none is under way;
\* then it is in the inbox or its answer is the next line, and the last one.
Exchange(p) ==
    LET s == session[p]
        waiting == lock[p] # None /\ call[lock[p]].pc = "await"
    IN s.extra = 0 =>
         /\ ~waiting => s.inbox = <<>> /\ ClosedFirst(s.outbox)
         /\ waiting =>
              /\ Len(s.inbox) <= 1
              /\ s.inbox # <<>> => s.inbox[1].id = Id(lock[p]) /\ ClosedFirst(s.outbox)
              /\ ~ClosedFirst(s.outbox) =>
                    Head(s.outbox).id = Id(lock[p]) /\ ClosedFirst(Tail(s.outbox))

\* What is kept is the last answer, and it is the one to the request that was
\* told its buffer is too small.
HostOK(c) ==
    LET h == host[c] IN
    /\ h.pending = IF h.told = "small" THEN h.ask ELSE None
    /\ h.told \in {"small", "gone"} => h.ask # None /\ h.answer.ask = h.ask
    /\ h.answer.n <= h.count

IInv ==
    /\ TypeOK
    /\ Required \subseteq enabled
    /\ \A c \in Callers : CallOK(c) /\ CoverOK(c)
    /\ LockOK
    /\ \A p \in Plugins : Exchange(p)
    /\ \A c \in Callers : HostOK(c)
=============================================================================
