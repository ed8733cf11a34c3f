-------------------------- MODULE PluginChainProofs --------------------------
(***************************************************************************)
(* Proofs about PluginChain for every number of callers and plugins: a     *)
(* payload only holds the work of plugins on its own request, a result     *)
(* tells what was covered, a process that prints one line per request is   *)
(* never read out of step, and a repeated host request is performed once.  *)
(***************************************************************************)
EXTENDS PluginChain, SequenceTheorems, TLAPS

(***************************************************************************)
(* Payloads                                                                *)
(***************************************************************************)

LEMMA PayloadGrows ==
  ASSUME NEW s \in Seq(Replacements), NEW c, NEW p \in Int, NEW q \in Int, p <= q,
         PayloadFor(s, c, p)
  PROVE  PayloadFor(s, c, q)
  <1>1. \A i \in 1 .. Len(s) : s[i].plugin \in Int
    <2>1. \A r \in Replacements : r.plugin \in Int
      BY ChainAssumption DEF Replacements, Plugins
    <2> QED BY <2>1, ElementOfSeq
  <1> QED BY <1>1 DEF PayloadFor

LEMMA PayloadEmpty ==
  ASSUME NEW c, NEW p
  PROVE  PayloadFor(<<>>, c, p) /\ <<>> \in Seq(Replacements)
  BY DEF PayloadFor

\* A plugin adds its own replacement after those of the plugins before it.
LEMMA PayloadAppend ==
  ASSUME NEW s \in Seq(Replacements), NEW c \in Callers, NEW p \in Plugins,
         PayloadFor(s, c, p)
  PROVE  /\ Append(s, [caller |-> c, plugin |-> p]) \in Seq(Replacements)
         /\ PayloadFor(Append(s, [caller |-> c, plugin |-> p]), c, p + 1)
  <1> DEFINE r == [caller |-> c, plugin |-> p]
             t == Append(s, r)
  <1>1. r \in Replacements /\ r.caller = c /\ r.plugin = p
    BY DEF Replacements
  <1> HIDE DEF r
  <1>2. /\ t \in Seq(Replacements) /\ Len(s) \in Nat /\ Len(t) = Len(s) + 1
        /\ \A i \in 1 .. Len(s) : t[i] = s[i]
        /\ t[Len(s) + 1] = r
    BY <1>1
  <1> HIDE DEF t
  <1>3. \A i \in 1 .. Len(s) : s[i].plugin \in Int
    <2>1. \A x \in Replacements : x.plugin \in Int
      BY ChainAssumption DEF Replacements, Plugins
    <2> QED BY <2>1, ElementOfSeq
  <1>4. p \in Int
    BY ChainAssumption DEF Plugins
  <1>5. \A i \in 1 .. Len(t) : t[i].caller = c /\ t[i].plugin < p + 1
    BY <1>1, <1>2, <1>3, <1>4 DEF PayloadFor
  <1>6. \A i, j \in 1 .. Len(t) : i < j => t[i].plugin < t[j].plugin
    BY <1>1, <1>2, <1>3, <1>4 DEF PayloadFor
  <1> QED BY <1>2, <1>5, <1>6 DEF PayloadFor, r, t

(***************************************************************************)
(* Calls                                                                   *)
(***************************************************************************)

LEMMA IdIs ==
  ASSUME NEW c \in Callers, call[c] \in Calls, Plugin(c) \in Plugins
  PROVE  /\ Id(c) \in Ids /\ Id(c).caller = c /\ Id(c).plugin = Plugin(c)
  BY DEF Id, Ids, Plugin

LEMMA ChainBounds ==
  /\ Chain \in Nat \ {0} /\ 1 \in 1 .. Chain + 1 /\ Chain + 1 \in 1 .. Chain + 1
  /\ \A p \in Plugins : p \in Int /\ p + 1 \in 1 .. Chain + 1 /\ p <= Chain
  BY ChainAssumption DEF Plugins

LEMMA NoLineOK == NoLine \in Lines /\ LineOK(NoLine) /\ NoLine.id = None
  BY PayloadEmpty DEF NoLine, Lines, LineOK

LEMMA CallFields ==
  ASSUME NEW r \in Calls
  PROVE  /\ r.pc \in {"idle", "plugin", "wasm", "lock", "write", "await", "parse", "done"}
         /\ r.at \in 1 .. Chain + 1 /\ r.kind \in Kinds /\ r.payload \in Seq(Replacements)
         /\ r.ran \in SUBSET Plugins /\ r.partial \in BOOLEAN /\ r.expired \in BOOLEAN
         /\ r.outcome \in {"none", "ok", "blocked", "error"} /\ r.got \in Lines
  BY DEF Calls

\* A call that starts, or waits to start, has gone through nothing.
LEMMA NewCallOK ==
  ASSUME NEW k \in Kinds
  PROVE  /\ NewCall(k) \in Calls
         /\ [NewCall(k) EXCEPT !.pc = "idle"] \in Calls
  <1>1. <<>> \in Seq(Replacements) /\ NoLine \in Lines /\ 1 \in 1 .. Chain + 1
    BY PayloadEmpty, NoLineOK, ChainBounds
  <1> QED BY <1>1 DEF NewCall, Calls

\* The plugin failed: the call ends or goes on after it, and says so.
LEMMA FailFacts ==
  ASSUME IInv, NEW c \in Callers, Plugin(c) \in Plugins, call[c].pc # "done", Fail(c)
  PROVE  /\ call' \in [Callers -> Calls]
         /\ \A d \in Callers : d # c => call'[d] = call[d]
         /\ call'[c].pc \in {"done", "plugin"}
         /\ enabled' \subseteq enabled /\ Required \subseteq enabled'
         /\ started' \in {"no", "yes", "failed"}
         /\ CallOK(c)' /\ CoverOK(c)'
  <1>0. /\ call \in [Callers -> Calls] /\ call[c] \in Calls
        /\ CallOK(c) /\ CoverOK(c) /\ Required \subseteq enabled
        /\ started \in {"no", "yes", "failed"} /\ enabled \subseteq Plugins
    BY DEF IInv, TypeOK
  <1>1. CASE Plugin(c) \in Required
    <2> DEFINE r == [call[c] EXCEPT !.pc = "done", !.at = Chain + 1, !.outcome = "error",
                                    !.got = NoLine, !.expired = FALSE]
    <2>1. /\ call' = [call EXCEPT ![c] = r]
          /\ started' = IF call[c].kind = "prewarm" THEN "failed" ELSE started
          /\ enabled' = enabled
      BY <1>1 DEF Fail, Finish
    <2>2. /\ r \in Calls /\ r.pc = "done" /\ r.at = Chain + 1 /\ r.outcome = "error"
          /\ r.got = NoLine /\ r.payload = call[c].payload
      <3>1. NoLine \in Lines /\ Chain + 1 \in 1 .. Chain + 1
        BY NoLineOK, ChainBounds
      <3> QED BY <1>0, <3>1 DEF Calls
    <2> HIDE DEF r
    <2>3. call' \in [Callers -> Calls] /\ call'[c] = r /\ \A d \in Callers : d # c => call'[d] = call[d]
      BY <1>0, <2>1, <2>2
    <2>4. PayloadFor(r.payload, c, r.at)
      BY <1>0, <2>2, PayloadGrows, CallFields, ChainAssumption DEF CallOK, Plugin
    <2>5. CallOK(c)'
      BY <2>2, <2>3, <2>4, NoLineOK DEF CallOK, Plugin
    <2>6. CoverOK(c)'
      BY <2>2, <2>3 DEF CoverOK, Plugin
    <2> QED BY <1>0, <2>1, <2>2, <2>3, <2>5, <2>6
  <1>2. CASE Plugin(c) \notin Required
    <2> DEFINE r == [call[c] EXCEPT !.pc = "plugin", !.at = Plugin(c) + 1,
                                    !.partial = call[c].kind # "prewarm", !.got = NoLine,
                                    !.expired = @ /\ call[c].kind # "prewarm"]
    <2>1. /\ call' = [call EXCEPT ![c] = r]
          /\ started' = started
          /\ enabled' = IF call[c].kind = "prewarm" THEN enabled \ {Plugin(c)} ELSE enabled
      BY <1>0, <1>2 DEF Fail
    <2>2. /\ r \in Calls /\ r.pc = "plugin" /\ r.at = Plugin(c) + 1 /\ r.outcome = call[c].outcome
          /\ r.got = NoLine /\ r.payload = call[c].payload /\ r.kind = call[c].kind
          /\ r.ran = call[c].ran /\ (r.kind # "prewarm" => r.partial)
      <3>1. NoLine \in Lines /\ Plugin(c) + 1 \in 1 .. Chain + 1
        BY NoLineOK, ChainBounds
      <3> QED BY <1>0, <3>1 DEF Calls
    <2> HIDE DEF r
    <2>3. call' \in [Callers -> Calls] /\ call'[c] = r /\ \A d \in Callers : d # c => call'[d] = call[d]
      BY <1>0, <2>1, <2>2
    <2>4. PayloadFor(r.payload, c, r.at)
      BY <1>0, <2>2, PayloadGrows, CallFields, ChainAssumption DEF CallOK, Plugin
    <2>5. CallOK(c)'
      BY <2>2, <2>3, <2>4, NoLineOK DEF CallOK, Plugin
    <2>6. enabled' \subseteq enabled /\ Required \subseteq enabled'
      BY <1>0, <1>2, <2>1
    <2>7. CoverOK(c)'
      <3>1. \A p \in Plugins : p < Plugin(c) + 1 => p = Plugin(c) \/ p < Plugin(c)
        BY ChainBounds
      <3>2. call[c].outcome # "ok"
        BY <1>0, ChainBounds DEF CoverOK
      <3>3. call'[c].at = call[c].at + 1 /\ Plugin(c) = call[c].at
        BY <2>2, <2>3 DEF Plugin
      <3> QED BY <1>0, <1>2, <2>2, <2>3, <2>6, <3>1, <3>2, <3>3 DEF CoverOK, Plugin
    <2> QED BY <1>0, <2>1, <2>2, <2>3, <2>5, <2>6, <2>7
  <1> QED BY <1>1, <1>2

\* What a step of one call leaves to show of the others: they see no difference,
\* or only that the chain became shorter while the plugins were prepared.
LEMMA OthersKeep ==
  ASSUME NEW d, call'[d] = call[d], enabled' \subseteq enabled, CallOK(d), CoverOK(d)
  PROVE  CallOK(d)' /\ CoverOK(d)'
  <1>1. CallOK(d)'
    BY DEF CallOK, Plugin
  <1>2. CoverOK(d)'
    BY DEF CoverOK, Plugin
  <1> QED BY <1>1, <1>2

HostsOK == \A c \in Callers : HostOK(c)

\* The parts of the invariant that a step of the call c has to establish.
LEMMA CallStepKeeps ==
  ASSUME IInv, NEW c \in Callers,
         call' \in [Callers -> Calls], \A d \in Callers : d # c => call'[d] = call[d],
         enabled' \subseteq enabled, Required \subseteq enabled',
         started' \in {"no", "yes", "failed"},
         CallOK(c)', CoverOK(c)',
         lock' \in [Plugins -> Callers \cup {None}], session' \in [Plugins -> Sessions],
         host' \in [Callers -> Hosts], HostsOK',
         LockOK', \A p \in Plugins : Exchange(p)'
  PROVE  IInv'
  <1>1. ASSUME NEW d \in Callers PROVE CallOK(d)' /\ CoverOK(d)'
    <2>1. CASE d = c
      BY <2>1
    <2>2. CASE d # c
      BY <2>2, OthersKeep DEF IInv
    <2> QED BY <2>1, <2>2
  <1>2. TypeOK'
    BY DEF IInv, TypeOK
  <1> QED BY <1>1, <1>2 DEF IInv, HostsOK

(***************************************************************************)
(* Locks and processes                                                     *)
(***************************************************************************)

\* The messages of the process are what they were.
SameMessages(p) ==
  /\ session'[p].inbox = session[p].inbox /\ session'[p].outbox = session[p].outbox
  /\ session'[p].extra = session[p].extra
  /\ session[p].live => session'[p].live

\* A lock is held by a caller at its plugin.
LEMMA Holder ==
  ASSUME IInv, NEW p \in Plugins, lock[p] # None
  PROVE  /\ lock[p] \in Callers /\ Plugin(lock[p]) = p /\ session[p].live
         /\ call[lock[p]].pc \in {"write", "await"}
         /\ \A d \in Callers : call[d].pc \in {"write", "await"} /\ Plugin(d) = p => d = lock[p]
  BY DEF IInv, TypeOK, LockOK

\* Steps that do not touch a lock or the messages of a process.
LEMMA SessionsKeep ==
  ASSUME IInv, NEW c \in Callers,
         \A d \in Callers : d # c => call'[d] = call[d],
         lock' = lock, \A p \in Plugins : SameMessages(p),
         \/ call[c].pc \notin {"write", "await"} /\ call'[c].pc \notin {"write", "await"}
         \/ /\ call'[c].pc = call[c].pc /\ call'[c].at = call[c].at
            /\ call'[c].kind = call[c].kind
  PROVE  LockOK' /\ \A p \in Plugins : Exchange(p)'
  <1>0. LockOK /\ \A p \in Plugins : Exchange(p)
    BY DEF IInv
  <1>1. ASSUME NEW p \in Plugins, lock[p] # None
        PROVE  /\ call'[lock[p]].pc = call[lock[p]].pc
               /\ Plugin(lock[p])' = Plugin(lock[p]) /\ Id(lock[p])' = Id(lock[p])
    <2>1. lock[p] \in Callers /\ call[lock[p]].pc \in {"write", "await"}
      BY <1>1, Holder
    <2>2. CASE lock[p] = c
      BY <2>1, <2>2 DEF Plugin, Id
    <2>3. CASE lock[p] # c
      BY <2>1, <2>3 DEF Plugin, Id
    <2> QED BY <2>2, <2>3
  <1>2. LockOK'
    <2>1. \A d \in Callers : call'[d].pc \in {"write", "await"} => lock'[Plugin(d)'] = d
      <3> SUFFICES ASSUME NEW d \in Callers, call'[d].pc \in {"write", "await"}
                   PROVE  lock[Plugin(d)'] = d
        OBVIOUS
      <3>1. call[d].pc \in {"write", "await"} /\ Plugin(d)' = Plugin(d)
        BY DEF Plugin
      <3> QED BY <1>0, <3>1 DEF LockOK
    <2>2. \A p \in Plugins : lock'[p] # None =>
             /\ call'[lock'[p]].pc \in {"write", "await"} /\ Plugin(lock[p])' = p
             /\ session'[p].live
      BY <1>0, <1>1 DEF LockOK, SameMessages
    <2>3. ASSUME NEW p \in Plugins
          PROVE  LET s == session'[p] IN
                 /\ ~s.live => s.inbox = <<>> /\ s.outbox = <<>> /\ s.extra = 0
                 /\ \A i \in 1 .. Len(s.inbox) : s.inbox[i].id.plugin = p
                       /\ PayloadFor(s.inbox[i].payload, s.inbox[i].id.caller, p)
                 /\ \A i \in 1 .. Len(s.outbox) : LineOK(s.outbox[i])
      <3>1. SameMessages(p)
        OBVIOUS
      <3> QED BY <1>0, <3>1 DEF LockOK, SameMessages
    <2> QED BY <2>1, <2>2, <2>3 DEF LockOK, Plugin
  <1>3. ASSUME NEW p \in Plugins PROVE Exchange(p)'
    <2>1. Exchange(p) /\ SameMessages(p)
      BY <1>0
    <2>2. CASE lock[p] = None
      BY <2>1, <2>2 DEF Exchange, SameMessages
    <2>3. CASE lock[p] # None
      <3>1. call'[lock'[p]].pc = call[lock[p]].pc /\ Id(lock[p])' = Id(lock[p])
        BY <1>1, <2>3
      <3>2. [caller |-> lock[p], plugin |-> call'[lock[p]].at,
             prewarm |-> call'[lock[p]].kind = "prewarm"] = Id(lock[p])
        BY <3>1 DEF Id, Plugin
      <3> QED BY <2>1, <2>3, <3>1, <3>2 DEF Exchange, SameMessages, Id, Plugin
    <2> QED BY <2>2, <2>3
  <1> QED BY <1>2, <1>3

LEMMA NoSessionOK ==
  /\ NoSession \in Sessions /\ ~NoSession.live
  /\ NoSession.inbox = <<>> /\ NoSession.outbox = <<>> /\ NoSession.extra = 0
  BY DEF NoSession, Sessions

\* What LockOK says of one process.
MessagesOK(s, p) ==
  /\ ~s.live => s.inbox = <<>> /\ s.outbox = <<>> /\ s.extra = 0
  /\ \A i \in 1 .. Len(s.inbox) : s.inbox[i].id.plugin = p
        /\ PayloadFor(s.inbox[i].payload, s.inbox[i].id.caller, p)
  /\ \A i \in 1 .. Len(s.outbox) : LineOK(s.outbox[i])

\* A step of a call c at the plugin p that holds, takes or releases the lock:
\* the other processes and calls are not concerned.
LEMMA HolderStepKeeps ==
  ASSUME IInv, NEW c \in Callers, NEW p \in Plugins, Plugin(c) = p,
         lock[p] \in {None, c},
         \A d \in Callers : d # c => call'[d] = call[d],
         \A q \in Plugins : q # p => session'[q] = session[q] /\ lock'[q] = lock[q],
         \/ lock'[p] = None /\ call'[c].pc \notin {"write", "await"}
         \/ /\ lock'[p] = c /\ call'[c].pc \in {"write", "await"} /\ call'[c].at = p
            /\ session'[p].live,
         MessagesOK(session'[p], p), Exchange(p)'
  PROVE  LockOK' /\ \A q \in Plugins : Exchange(q)'
  <1>0. LockOK /\ \A q \in Plugins : Exchange(q)
    BY DEF IInv
  <1>1. c # None /\ None \notin Callers
    BY ChainAssumption
  <1>2. ASSUME NEW d \in Callers, d # c, call[d].pc \in {"write", "await"} PROVE Plugin(d) # p
    BY <1>0, <1>1, <1>2 DEF LockOK
  <1>3. ASSUME NEW q \in Plugins, q # p, lock[q] # None
        PROVE  lock[q] \in Callers /\ lock[q] # c
    BY <1>3, Holder
  <1>4. LockOK'
    <2>1. ASSUME NEW d \in Callers, call'[d].pc \in {"write", "await"}
          PROVE  lock'[call'[d].at] = d
      <3>1. CASE d = c
        BY <2>1, <3>1
      <3>2. CASE d # c
        <4>1. lock[Plugin(d)] = d /\ Plugin(d) # p /\ call'[d] = call[d] /\ Plugin(d) \in Plugins
          BY <1>0, <1>2, <2>1, <3>2 DEF LockOK, IInv, CallOK
        <4> QED BY <4>1 DEF Plugin
      <3> QED BY <3>1, <3>2
    <2>2. ASSUME NEW q \in Plugins, lock'[q] # None
          PROVE  /\ call'[lock'[q]].pc \in {"write", "await"} /\ call'[lock'[q]].at = q
                 /\ session'[q].live
      <3>1. CASE q = p
        BY <2>2, <3>1
      <3>2. CASE q # p
        <4>1. lock'[q] = lock[q] /\ lock[q] \in Callers /\ lock[q] # c
          BY <1>3, <2>2, <3>2
        <4>2. /\ call[lock[q]].pc \in {"write", "await"} /\ Plugin(lock[q]) = q
              /\ session[q].live
          BY <1>0, <2>2, <4>1 DEF LockOK
        <4> QED BY <3>2, <4>1, <4>2 DEF Plugin
      <3> QED BY <3>1, <3>2
    <2>3. ASSUME NEW q \in Plugins PROVE MessagesOK(session'[q], q)
      <3>1. MessagesOK(session[q], q)
        BY <1>0 DEF LockOK, MessagesOK
      <3> QED BY <3>1
    <2> QED BY <2>1, <2>2, <2>3 DEF LockOK, MessagesOK, Plugin
  <1>5. ASSUME NEW q \in Plugins, q # p PROVE Exchange(q)'
    <2>1. Exchange(q) /\ session'[q] = session[q] /\ lock'[q] = lock[q]
      BY <1>0, <1>5
    <2>2. CASE lock[q] = None
      BY <2>1, <2>2 DEF Exchange
    <2>3. CASE lock[q] # None
      <3>1. call'[lock[q]] = call[lock[q]]
        BY <1>3, <1>5, <2>3
      <3> QED BY <2>1, <3>1 DEF Exchange, Id, Plugin
    <2> QED BY <2>2, <2>3
  <1> QED BY <1>4, <1>5

\* The process is stopped with the lock held: nothing of it is left.
LEMMA StopKeeps ==
  ASSUME IInv, NEW c \in Callers, call[c].pc \in {"write", "await"},
         StopSession(Plugin(c)), Unlock(Plugin(c)), Fail(c), host' = host
  PROVE  IInv'
  <1>0. Plugin(c) \in Plugins /\ lock \in [Plugins -> Callers \cup {None}]
        /\ session \in [Plugins -> Sessions] /\ host \in [Callers -> Hosts] /\ HostsOK
    BY DEF IInv, CallOK, TypeOK, HostsOK
  <1>1. /\ call' \in [Callers -> Calls]
        /\ \A d \in Callers : d # c => call'[d] = call[d]
        /\ call'[c].pc \in {"done", "plugin"}
        /\ enabled' \subseteq enabled /\ Required \subseteq enabled'
        /\ started' \in {"no", "yes", "failed"}
        /\ CallOK(c)' /\ CoverOK(c)'
    BY <1>0, FailFacts
  <1> PICK p \in Plugins : p = Plugin(c)
    BY <1>0
  <1>2. /\ session' = [session EXCEPT ![p] = NoSession] /\ lock' = [lock EXCEPT ![p] = None]
    BY DEF StopSession, Unlock
  <1>3. /\ session' \in [Plugins -> Sessions] /\ lock' \in [Plugins -> Callers \cup {None}]
        /\ session'[p] = NoSession /\ lock'[p] = None
        /\ \A q \in Plugins : q # p => session'[q] = session[q] /\ lock'[q] = lock[q]
    BY <1>0, <1>2, NoSessionOK
  <1>4. MessagesOK(session'[p], p)
    BY <1>3, NoSessionOK DEF MessagesOK
  <1>5. Exchange(p)'
    BY <1>3, NoSessionOK DEF Exchange, ClosedFirst
  <1>6. LockOK' /\ \A q \in Plugins : Exchange(q)'
    <2>1. lock[p] = c
      BY DEF IInv, LockOK
    <2> QED BY <1>0, <1>1, <1>3, <1>4, <1>5, <2>1, HolderStepKeeps
  <1>7. HostsOK' /\ host' \in [Callers -> Hosts]
    BY <1>0 DEF HostsOK, HostOK
  <1> QED BY <1>1, <1>3, <1>6, <1>7, CallStepKeeps

\* A failure of a call that holds no lock.
LEMMA FreeFailKeeps ==
  ASSUME IInv, NEW c \in Callers, Plugin(c) \in Plugins,
         call[c].pc \notin {"write", "await", "done"}, Fail(c), lock' = lock,
         session' \in [Plugins -> Sessions], \A p \in Plugins : SameMessages(p),
         host' \in [Callers -> Hosts], HostsOK'
  PROVE  IInv'
  <1>0. lock \in [Plugins -> Callers \cup {None}]
    BY DEF IInv, TypeOK
  <1>1. /\ call' \in [Callers -> Calls]
        /\ \A d \in Callers : d # c => call'[d] = call[d]
        /\ call'[c].pc \in {"done", "plugin"}
        /\ enabled' \subseteq enabled /\ Required \subseteq enabled'
        /\ started' \in {"no", "yes", "failed"}
        /\ CallOK(c)' /\ CoverOK(c)'
    BY FailFacts
  <1>2. LockOK' /\ \A p \in Plugins : Exchange(p)'
    BY <1>1, SessionsKeep
  <1> QED BY <1>0, <1>1, <1>2, CallStepKeeps

\* A step that changes only the call c, which holds no lock or keeps its place.
LEMMA OwnStepKeeps ==
  ASSUME IInv, NEW c \in Callers, NEW r \in Calls, call' = [call EXCEPT ![c] = r],
         \/ call[c].pc \notin {"write", "await"} /\ r.pc \notin {"write", "await"}
         \/ r.pc = call[c].pc /\ r.at = call[c].at /\ r.kind = call[c].kind,
         r.pc \in {"wasm", "lock", "write", "await", "parse"} => r.at \in Plugins,
         r.pc \in {"lock", "write", "await"} => r.at \in Command,
         PayloadFor(r.payload, c, r.at), LineOK(r.got),
         r.kind # "prewarm" /\ r.outcome \in {"none", "ok"} =>
            \A p \in Plugins : p < r.at /\ p \notin r.ran =>
               p \notin Required /\ (p \in enabled => r.partial),
         r.outcome = "ok" => r.kind # "prewarm" /\ r.at = Chain + 1,
         r.pc # "done" => r.outcome = "none",
         started' \in {"no", "yes", "failed"}, host' \in [Callers -> Hosts], HostsOK',
         UNCHANGED <<enabled, lock, session>>
  PROVE  IInv'
  <1>0. /\ call \in [Callers -> Calls] /\ lock \in [Plugins -> Callers \cup {None}]
        /\ session \in [Plugins -> Sessions] /\ Required \subseteq enabled
    BY DEF IInv, TypeOK
  <1>1. /\ call' \in [Callers -> Calls] /\ call'[c] = r
        /\ \A d \in Callers : d # c => call'[d] = call[d]
    BY <1>0
  <1>2. CallOK(c)' /\ CoverOK(c)'
    BY <1>1 DEF CallOK, CoverOK, Plugin
  <1>3. \A p \in Plugins : SameMessages(p)
    BY DEF SameMessages
  <1>4. LockOK' /\ \A p \in Plugins : Exchange(p)'
    BY <1>1, <1>3, SessionsKeep
  <1> QED BY <1>0, <1>1, <1>2, <1>4, CallStepKeeps

\* What OwnStepKeeps asks of the call as it is.
LEMMA CallNow ==
  ASSUME IInv, NEW c \in Callers
  PROVE  /\ call[c] \in Calls /\ call \in [Callers -> Calls]
         /\ call[c].pc \in {"wasm", "lock", "write", "await", "parse"} => call[c].at \in Plugins
         /\ call[c].pc \in {"lock", "write", "await"} => call[c].at \in Command
         /\ PayloadFor(call[c].payload, c, call[c].at) /\ LineOK(call[c].got)
         /\ call[c].kind # "prewarm" /\ call[c].outcome \in {"none", "ok"} =>
               \A p \in Plugins : p < call[c].at /\ p \notin call[c].ran =>
                  p \notin Required /\ (p \in enabled => call[c].partial)
         /\ call[c].outcome = "ok" => call[c].kind # "prewarm" /\ call[c].at = Chain + 1
         /\ call[c].pc # "done" => call[c].outcome = "none"
         /\ started \in {"no", "yes", "failed"} /\ host \in [Callers -> Hosts] /\ HostsOK
         /\ lock \in [Plugins -> Callers \cup {None}] /\ session \in [Plugins -> Sessions]
         /\ Required \subseteq enabled /\ enabled \subseteq Plugins
  BY DEF IInv, TypeOK, CallOK, CoverOK, Plugin, HostsOK

(***************************************************************************)
(* The chain                                                               *)
(***************************************************************************)

LEMMA NewCallFacts ==
  ASSUME NEW k \in Kinds, NEW r, r \in {NewCall(k), [NewCall(k) EXCEPT !.pc = "idle"]}
  PROVE  /\ r \in Calls /\ r.pc \in {"idle", "plugin"} /\ r.at = 1 /\ r.outcome = "none"
         /\ r.kind = k /\ r.payload = <<>> /\ r.got = NoLine
         /\ \A c : PayloadFor(r.payload, c, r.at)
         /\ LineOK(r.got)
         /\ \A p \in Plugins : ~(p < r.at)
  <1>1. /\ r \in Calls /\ r.pc \in {"idle", "plugin"} /\ r.at = 1 /\ r.outcome = "none"
        /\ r.kind = k /\ r.payload = <<>> /\ r.got = NoLine
    <2>1. CASE r = NewCall(k)
      BY <2>1, NewCallOK DEF NewCall
    <2>2. CASE r = [NewCall(k) EXCEPT !.pc = "idle"]
      BY <2>2, NewCallOK DEF NewCall
    <2> QED BY <2>1, <2>2
  <1>2. \A p \in Plugins : ~(p < 1)
    BY ChainAssumption DEF Plugins
  <1> QED BY <1>1, <1>2, PayloadEmpty, NoLineOK

LEMMA PrepareKeeps == ASSUME IInv, Prepare PROVE IInv'
  <1>0. Main \in Callers /\ "prewarm" \in Kinds
    BY ChainAssumption DEF Kinds
  <1>1. /\ call[Main].pc = "idle" /\ call' = [call EXCEPT ![Main] = NewCall("prewarm")]
        /\ UNCHANGED <<enabled, started, lock, session, host>>
    BY DEF Prepare, At
  <1>2. HostsOK' /\ host' \in [Callers -> Hosts]
    BY <1>0, <1>1, CallNow DEF HostsOK, HostOK
  <1> QED BY <1>0, <1>1, <1>2, CallNow, NewCallFacts, OwnStepKeeps

LEMMA BeginKeeps == ASSUME IInv, NEW c \in Callers, Begin(c) PROVE IInv'
  <1>0. HookOf[c] \in Kinds
    BY ChainAssumption DEF Kinds
  <1>1. /\ call[c].pc = "idle" /\ call' = [call EXCEPT ![c] = NewCall(HookOf[c])]
        /\ UNCHANGED <<enabled, started, lock, session, host>>
    BY DEF Begin, At
  <1>2. HostsOK' /\ host' \in [Callers -> Hosts]
    BY <1>1, CallNow DEF HostsOK, HostOK
  <1> QED BY <1>0, <1>1, <1>2, CallNow, NewCallFacts, OwnStepKeeps

LEMMA ExpireKeeps == ASSUME IInv, NEW c \in Callers, Expire(c) PROVE IInv'
  <1> DEFINE r == [call[c] EXCEPT !.expired = TRUE]
  <1>0. call[c] \in Calls
    BY CallNow
  <1>1. /\ call' = [call EXCEPT ![c] = r]
        /\ UNCHANGED <<enabled, started, lock, session, host>>
    BY DEF Expire
  <1>2. /\ r \in Calls /\ r.pc = call[c].pc /\ r.at = call[c].at /\ r.kind = call[c].kind
        /\ r.payload = call[c].payload /\ r.got = call[c].got /\ r.outcome = call[c].outcome
        /\ r.ran = call[c].ran /\ r.partial = call[c].partial
    BY <1>0 DEF Calls
  <1> HIDE DEF r
  <1>3. HostsOK' /\ host' \in [Callers -> Hosts]
    BY <1>1, CallNow DEF HostsOK, HostOK
  <1>4. /\ r.pc \in {"wasm", "lock", "write", "await", "parse"} => r.at \in Plugins
        /\ r.pc \in {"lock", "write", "await"} => r.at \in Command
        /\ PayloadFor(r.payload, c, r.at) /\ LineOK(r.got)
        /\ r.kind # "prewarm" /\ r.outcome \in {"none", "ok"} =>
             \A p \in Plugins : p < r.at /\ p \notin r.ran =>
                p \notin Required /\ (p \in enabled => r.partial)
        /\ r.outcome = "ok" => r.kind # "prewarm" /\ r.at = Chain + 1
        /\ r.pc # "done" => r.outcome = "none"
        /\ started' \in {"no", "yes", "failed"}
    BY <1>1, <1>2, CallNow
  <1> QED BY <1>1, <1>2, <1>3, <1>4, OwnStepKeeps

\* A plugin that is not in the chain is not required.
LEMMA SkipKeeps == ASSUME IInv, NEW c \in Callers, Skip(c) PROVE IInv'
  <1> DEFINE r == [call[c] EXCEPT !.at = @ + 1]
  <1>0. call[c] \in Calls /\ call[c].at \in Plugins /\ call[c].at + 1 \in 1 .. Chain + 1
        /\ call[c].at \in Int /\ call[c].at <= Chain
    BY CallNow, ChainBounds DEF Skip, Plugin
  <1>1. /\ call' = [call EXCEPT ![c] = r] /\ call[c].pc = "plugin"
        /\ call[c].kind # "prewarm" => call[c].at \notin enabled
        /\ UNCHANGED <<enabled, started, lock, session, host>>
    BY DEF Skip, At, Skipped, Plugin
  <1>2. /\ r \in Calls /\ r.pc = call[c].pc /\ r.at = call[c].at + 1 /\ r.kind = call[c].kind
        /\ r.payload = call[c].payload /\ r.got = call[c].got /\ r.outcome = call[c].outcome
        /\ r.ran = call[c].ran /\ r.partial = call[c].partial
    BY <1>0 DEF Calls
  <1> HIDE DEF r
  <1>3. HostsOK' /\ host' \in [Callers -> Hosts]
    BY <1>1, CallNow DEF HostsOK, HostOK
  <1>4. PayloadFor(r.payload, c, r.at)
    BY <1>0, <1>2, CallNow, CallFields, PayloadGrows
  <1>5. r.kind # "prewarm" /\ r.outcome \in {"none", "ok"} =>
          \A p \in Plugins : p < r.at /\ p \notin r.ran =>
             p \notin Required /\ (p \in enabled => r.partial)
    <2>1. \A p \in Plugins : p < call[c].at + 1 => p = call[c].at \/ p < call[c].at
      BY <1>0, ChainBounds
    <2> QED BY <1>1, <1>2, <2>1, CallNow
  <1>6. r.outcome = "none"
    BY <1>1, <1>2, CallNow
  <1>7. started' \in {"no", "yes", "failed"} /\ LineOK(r.got) /\ r.pc = "plugin"
    BY <1>1, <1>2, CallNow
  <1> QED BY <1>1, <1>2, <1>3, <1>4, <1>5, <1>6, <1>7, OwnStepKeeps

\* The end of the chain: what was to run has run, or the result says otherwise.
LEMMA CompleteKeeps == ASSUME IInv, NEW c \in Callers, Complete(c) PROVE IInv'
  <1>0. call[c] \in Calls /\ call[c].pc = "plugin" /\ call[c].at = Chain + 1
        /\ UNCHANGED <<enabled, lock, session, host>>
    BY CallNow DEF Complete, At, Plugin
  <1>1. HostsOK' /\ host' \in [Callers -> Hosts]
    BY <1>0, CallNow DEF HostsOK, HostOK
  <1>2. CASE call[c].kind = "prewarm"
    <2>1. started' = "yes" /\ call' = [call EXCEPT ![c] = [NewCall("run") EXCEPT !.pc = "idle"]]
          /\ "run" \in Kinds
      BY <1>2 DEF Complete, Kinds
    <2> QED BY <1>0, <1>1, <2>1, NewCallFacts, OwnStepKeeps
  <1>3. CASE call[c].kind # "prewarm"
    <2> DEFINE r == [call[c] EXCEPT !.pc = "done", !.at = Chain + 1, !.outcome = "ok",
                                    !.got = NoLine, !.expired = FALSE]
    <2>1. call' = [call EXCEPT ![c] = r] /\ started' = started
      BY <1>3 DEF Complete, Finish
    <2>2. /\ r \in Calls /\ r.pc = "done" /\ r.at = call[c].at /\ r.kind = call[c].kind
          /\ r.payload = call[c].payload /\ r.got = NoLine /\ r.outcome = "ok"
          /\ r.ran = call[c].ran /\ r.partial = call[c].partial
      <3>1. NoLine \in Lines /\ Chain + 1 \in 1 .. Chain + 1
        BY NoLineOK, ChainBounds
      <3> QED BY <1>0, <3>1 DEF Calls
    <2> HIDE DEF r
    <2>3. call[c].outcome \in {"none", "ok"} =>
            \A p \in Plugins : p < r.at /\ p \notin r.ran =>
               p \notin Required /\ (p \in enabled => r.partial)
      BY <1>3, <2>2, CallNow
    <2>4. call[c].outcome \in {"none", "ok"}
      BY <1>0, CallNow
    <2> QED BY <1>0, <1>1, <1>3, <2>1, <2>2, <2>3, <2>4, CallNow, NoLineOK, OwnStepKeeps
  <1> QED BY <1>2, <1>3

LEMMA InvokeKeeps == ASSUME IInv, NEW c \in Callers, Invoke(c) PROVE IInv'
  <1>0. /\ call[c] \in Calls /\ call[c].pc = "plugin" /\ call[c].at \in Plugins
        /\ UNCHANGED <<lock, session, host>>
    BY CallNow DEF Invoke, At, Plugin
  <1>1. HostsOK' /\ host' \in [Callers -> Hosts] /\ session' \in [Plugins -> Sessions]
        /\ \A p \in Plugins : SameMessages(p)
    BY <1>0, CallNow DEF HostsOK, HostOK, SameMessages
  <1>2. CASE Fail(c)
    BY <1>0, <1>1, <1>2, FreeFailKeeps DEF Plugin
  <1>3. CASE /\ Goto(c, IF Plugin(c) \in Command THEN "lock" ELSE "wasm")
             /\ UNCHANGED <<enabled, started>>
    <2> DEFINE r == [call[c] EXCEPT !.pc = IF call[c].at \in Command THEN "lock" ELSE "wasm"]
    <2>1. call' = [call EXCEPT ![c] = r]
      BY <1>3 DEF Goto, Plugin
    <2>2. /\ r \in Calls /\ r.at = call[c].at /\ r.kind = call[c].kind
          /\ r.payload = call[c].payload /\ r.got = call[c].got /\ r.outcome = call[c].outcome
          /\ r.ran = call[c].ran /\ r.partial = call[c].partial
          /\ r.pc \in {"lock", "wasm"} /\ (r.pc = "lock" => r.at \in Command)
      BY <1>0 DEF Calls
    <2> HIDE DEF r
    <2>3. /\ PayloadFor(r.payload, c, r.at) /\ LineOK(r.got)
          /\ r.kind # "prewarm" /\ r.outcome \in {"none", "ok"} =>
               \A p \in Plugins : p < r.at /\ p \notin r.ran =>
                  p \notin Required /\ (p \in enabled => r.partial)
          /\ r.outcome = "none" /\ started' \in {"no", "yes", "failed"}
      BY <1>0, <1>3, <2>2, CallNow
    <2> QED BY <1>0, <1>1, <1>3, <2>1, <2>2, <2>3, OwnStepKeeps
  <1> QED BY <1>2, <1>3 DEF Invoke

LEMMA LockTimesOutKeeps == ASSUME IInv, NEW c \in Callers, LockTimesOut(c) PROVE IInv'
  <1>0. /\ call[c].pc = "lock" /\ Plugin(c) \in Plugins
        /\ Fail(c) /\ UNCHANGED <<lock, session, host>>
    BY CallNow DEF LockTimesOut, At, Plugin
  <1>1. HostsOK' /\ host' \in [Callers -> Hosts] /\ session' \in [Plugins -> Sessions]
        /\ \A p \in Plugins : SameMessages(p)
    BY <1>0, CallNow DEF HostsOK, HostOK, SameMessages
  <1> QED BY <1>0, <1>1, FreeFailKeeps

(***************************************************************************)
(* Responses and wasm plugins                                              *)
(***************************************************************************)

LEMMA RejectKeeps == ASSUME IInv, NEW c \in Callers, Reject(c) PROVE IInv'
  <1>0. /\ call[c].pc = "parse" /\ Plugin(c) \in Plugins /\ Fail(c)
        /\ UNCHANGED <<lock, host>> /\ session \in [Plugins -> Sessions]
    BY CallNow DEF Reject, At, Plugin
  <1>1. PICK p \in Plugins : p = Plugin(c)
    BY <1>0
  <1>2. PICK b \in BOOLEAN : session' = [session EXCEPT ![p] = [session[p] EXCEPT !.rejected = b]]
    <2>1. (session[p].rejected \/ call[c].got.action # "error") \in BOOLEAN
      OBVIOUS
    <2>2. session' = [session EXCEPT ![p] = [session[p] EXCEPT
                        !.rejected = (session[p].rejected \/ call[c].got.action # "error")]]
      BY <1>1 DEF Reject
    <2> QED BY <2>1, <2>2
  <1>3. /\ [session[p] EXCEPT !.rejected = b] \in Sessions
        /\ session' \in [Plugins -> Sessions]
        /\ \A q \in Plugins : SameMessages(q)
    <2>1. /\ [session[p] EXCEPT !.rejected = b] \in Sessions
          /\ [session[p] EXCEPT !.rejected = b].inbox = session[p].inbox
          /\ [session[p] EXCEPT !.rejected = b].outbox = session[p].outbox
          /\ [session[p] EXCEPT !.rejected = b].extra = session[p].extra
          /\ [session[p] EXCEPT !.rejected = b].live = session[p].live
      BY <1>0 DEF Sessions
    <2> QED BY <1>0, <1>2, <2>1 DEF SameMessages
  <1>4. HostsOK' /\ host' \in [Callers -> Hosts]
    BY <1>0, CallNow DEF HostsOK, HostOK
  <1> QED BY <1>0, <1>3, <1>4, FreeFailKeeps

LEMMA DisallowedKeeps == ASSUME IInv, NEW c \in Callers, Disallowed(c) PROVE IInv'
  <1>0. /\ call[c].pc = "parse" /\ Plugin(c) \in Plugins
        /\ Fail(c) /\ UNCHANGED <<lock, session, host>>
    BY CallNow DEF Disallowed, At, Plugin
  <1>1. HostsOK' /\ host' \in [Callers -> Hosts] /\ session' \in [Plugins -> Sessions]
        /\ \A p \in Plugins : SameMessages(p)
    BY <1>0, CallNow DEF HostsOK, HostOK, SameMessages
  <1> QED BY <1>0, <1>1, FreeFailKeeps

\* An accepted answer to c's request is c's payload and what the plugin added.
LEMMA AcceptedPayload ==
  ASSUME IInv, NEW c \in Callers, call[c].pc = "parse", Accepted(c)
  PROVE  /\ call[c].at \in Plugins /\ call[c].got \in Lines
         /\ call[c].got.payload \in Seq(Replacements)
         /\ PayloadFor(call[c].got.payload, c, call[c].at + 1)
  <1>1. call[c] \in Calls /\ call[c].at \in Plugins /\ call[c].got \in Lines /\ LineOK(call[c].got)
    BY CallNow, CallFields
  <1>2. Id(c) \in Ids /\ Id(c).caller = c /\ Id(c).plugin = call[c].at
    BY <1>1, IdIs DEF Plugin
  <1>3. call[c].got.payload \in Seq(Replacements)
    BY <1>1 DEF Lines
  <1>4. call[c].got.id = Id(c)
    BY DEF Accepted
  <1>5. PayloadFor(call[c].got.payload, c, call[c].at + 1)
    BY <1>1, <1>2, <1>4 DEF LineOK
  <1> QED BY <1>1, <1>3, <1>5

LEMMA StopsKeeps == ASSUME IInv, NEW c \in Callers, Stops(c) PROVE IInv'
  <1>0. /\ call[c] \in Calls /\ call \in [Callers -> Calls] /\ call[c].pc = "parse"
        /\ Accepted(c) /\ call[c].kind # "prewarm"
        /\ UNCHANGED <<enabled, started, lock, session, host>>
    BY CallNow DEF Stops, At
  <1> DEFINE t == IF call[c].kind = "run" THEN call[c].got.payload ELSE call[c].payload
             r == [call[c] EXCEPT !.pc = "done", !.at = Chain + 1, !.outcome = "blocked",
                                  !.got = NoLine, !.expired = FALSE, !.payload = t]
  <1>1. call' = [call EXCEPT ![c] = r]
    <2> DEFINE f == [call EXCEPT ![c] = [call[c] EXCEPT !.pc = "done", !.at = Chain + 1,
                       !.outcome = "blocked", !.got = NoLine, !.expired = FALSE]]
    <2>1. f[c].payload = call[c].payload
      BY <1>0 DEF Calls
    <2>2. call' = [f EXCEPT ![c] = [f[c] EXCEPT !.payload = t]]
      BY <2>1 DEF Stops, Finish
    <2>3. f[c] = [call[c] EXCEPT !.pc = "done", !.at = Chain + 1,
                       !.outcome = "blocked", !.got = NoLine, !.expired = FALSE]
      BY <1>0
    <2> QED BY <1>0, <2>2, <2>3
  <1>2. t \in Seq(Replacements) /\ PayloadFor(t, c, Chain + 1)
    <2>1. /\ call[c].at \in Plugins /\ call[c].got.payload \in Seq(Replacements)
          /\ PayloadFor(call[c].got.payload, c, call[c].at + 1)
      BY <1>0, AcceptedPayload
    <2>2. call[c].payload \in Seq(Replacements) /\ PayloadFor(call[c].payload, c, call[c].at)
      BY <1>0, CallNow, CallFields
    <2>3. call[c].at \in Int /\ call[c].at + 1 <= Chain + 1 /\ call[c].at <= Chain + 1
          /\ Chain + 1 \in Int /\ call[c].at + 1 \in Int
      BY <2>1, ChainBounds
    <2>4. PayloadFor(call[c].got.payload, c, Chain + 1)
      BY <2>1, <2>3, PayloadGrows
    <2>5. PayloadFor(call[c].payload, c, Chain + 1)
      BY <2>2, <2>3, PayloadGrows
    <2> QED BY <2>1, <2>2, <2>4, <2>5
  <1> HIDE DEF t
  <1>3. /\ r \in Calls /\ r.pc = "done" /\ r.at = Chain + 1 /\ r.outcome = "blocked"
        /\ r.got = NoLine /\ r.payload = t
    <2>1. NoLine \in Lines /\ Chain + 1 \in 1 .. Chain + 1
      BY NoLineOK, ChainBounds
    <2> QED BY <1>0, <1>2, <2>1 DEF Calls
  <1> HIDE DEF r
  <1>4. HostsOK' /\ host' \in [Callers -> Hosts] /\ started' \in {"no", "yes", "failed"}
    BY <1>0, CallNow DEF HostsOK, HostOK
  <1> QED BY <1>0, <1>1, <1>2, <1>3, <1>4, NoLineOK, OwnStepKeeps

LEMMA ContinueKeeps == ASSUME IInv, NEW c \in Callers, Continue(c) PROVE IInv'
  <1>0. /\ call[c] \in Calls /\ call \in [Callers -> Calls] /\ call[c].pc = "parse"
        /\ Accepted(c)
        /\ UNCHANGED <<enabled, started, lock, session, host>>
    BY CallNow DEF Continue, At
  <1>1. /\ call[c].at \in Plugins /\ call[c].got.payload \in Seq(Replacements)
        /\ PayloadFor(call[c].got.payload, c, call[c].at + 1)
    BY <1>0, AcceptedPayload
  <1> DEFINE r == [call[c] EXCEPT !.pc = "plugin", !.at = @ + 1,
                      !.payload = call[c].got.payload, !.got = NoLine,
                      !.ran = @ \cup {call[c].at},
                      !.expired = @ /\ call[c].kind # "prewarm"]
  <1>2. call' = [call EXCEPT ![c] = r]
    BY <1>0 DEF Continue, Plugin
  <1>3. /\ r \in Calls /\ r.pc = "plugin" /\ r.at = call[c].at + 1 /\ r.kind = call[c].kind
        /\ r.payload = call[c].got.payload /\ r.got = NoLine /\ r.outcome = call[c].outcome
        /\ r.ran = call[c].ran \cup {call[c].at} /\ r.partial = call[c].partial
    <2>1. NoLine \in Lines /\ call[c].at + 1 \in 1 .. Chain + 1
      BY <1>1, NoLineOK, ChainBounds
    <2> QED BY <1>0, <1>1, <2>1 DEF Calls
  <1> HIDE DEF r
  <1>4. HostsOK' /\ host' \in [Callers -> Hosts] /\ started' \in {"no", "yes", "failed"}
        /\ r.outcome = "none"
    BY <1>0, <1>3, CallNow DEF HostsOK, HostOK
  <1>5. r.kind # "prewarm" =>
          \A p \in Plugins : p < r.at /\ p \notin r.ran =>
             p \notin Required /\ (p \in enabled => r.partial)
    <2>1. \A p \in Plugins : p < call[c].at + 1 => p = call[c].at \/ p < call[c].at
      BY <1>1, ChainBounds
    <2> QED BY <1>0, <1>3, <1>4, <2>1, CallNow
  <1> QED BY <1>0, <1>1, <1>2, <1>3, <1>4, <1>5, NoLineOK, OwnStepKeeps

(***************************************************************************)
(* Command plugins                                                         *)
(***************************************************************************)

\* A call at a Command plugin takes, holds or releases its lock and goes on,
\* and its process becomes s.
LEMMA CommandStepKeeps ==
  ASSUME IInv, NEW c \in Callers, NEW p \in Plugins, Plugin(c) = p, p \in Command,
         lock[p] \in {None, c}, call[c].pc # "done",
         NEW r \in Calls, call' = [call EXCEPT ![c] = r],
         r.pc \in {"write", "await", "parse"}, r.at = call[c].at, r.kind = call[c].kind,
         r.payload = call[c].payload, r.ran = call[c].ran, r.partial = call[c].partial,
         r.outcome = call[c].outcome, LineOK(r.got),
         lock' = [lock EXCEPT ![p] = IF r.pc = "parse" THEN None ELSE c],
         NEW s \in Sessions, session' = [session EXCEPT ![p] = s], MessagesOK(s, p), s.live,
         Exchange(p)', UNCHANGED <<enabled, started, host>>
  PROVE  IInv'
  <1>0. /\ call \in [Callers -> Calls] /\ lock \in [Plugins -> Callers \cup {None}]
        /\ session \in [Plugins -> Sessions] /\ host \in [Callers -> Hosts] /\ HostsOK
        /\ started \in {"no", "yes", "failed"} /\ Required \subseteq enabled
    BY CallNow
  <1>1. /\ call' \in [Callers -> Calls] /\ call'[c] = r
        /\ \A d \in Callers : d # c => call'[d] = call[d]
    BY <1>0
  <1>2. /\ lock' \in [Plugins -> Callers \cup {None}] /\ session' \in [Plugins -> Sessions]
        /\ session'[p] = s /\ lock'[p] = IF r.pc = "parse" THEN None ELSE c
        /\ \A q \in Plugins : q # p => session'[q] = session[q] /\ lock'[q] = lock[q]
    BY <1>0
  <1>3. CallOK(c)' /\ CoverOK(c)'
    <2>1. PayloadFor(r.payload, c, r.at) /\ r.at \in Plugins /\ r.at \in Command
      BY CallNow DEF Plugin
    <2>2. CallOK(c)'
      BY <1>1, <2>1 DEF CallOK, Plugin
    <2>3. CoverOK(c)'
      BY <1>1, CallNow DEF CoverOK, Plugin
    <2> QED BY <2>2, <2>3
  <1>4. r.at = p
    BY DEF Plugin
  <1>5. LockOK' /\ \A q \in Plugins : Exchange(q)'
    BY <1>1, <1>2, <1>4, HolderStepKeeps
  <1>6. HostsOK' /\ host' \in [Callers -> Hosts]
    BY <1>0 DEF HostsOK, HostOK
  <1> QED BY <1>0, <1>1, <1>2, <1>3, <1>5, <1>6, CallStepKeeps

LEMMA SessionNow ==
  ASSUME IInv, NEW p \in Plugins
  PROVE  /\ session \in [Plugins -> Sessions] /\ session[p] \in Sessions
         /\ session[p].inbox \in Seq(Requests) /\ session[p].outbox \in Seq(Lines)
         /\ session[p].extra \in Nat /\ MessagesOK(session[p], p) /\ Exchange(p)
  <1>1. session \in [Plugins -> Sessions] /\ session[p] \in Sessions
    BY DEF IInv, TypeOK
  <1>2. /\ session[p].inbox \in Seq(Requests) /\ session[p].outbox \in Seq(Lines)
        /\ session[p].extra \in Nat
    BY <1>1 DEF Sessions
  <1>3. MessagesOK(session[p], p) /\ Exchange(p)
    BY DEF IInv, LockOK, MessagesOK
  <1> QED BY <1>1, <1>2, <1>3

\* A process that is started, or was there, with the messages it had.
LEMMA LiveSession ==
  ASSUME IInv, NEW p \in Plugins
  PROVE  LET s == [session[p] EXCEPT !.live = TRUE] IN
         /\ s \in Sessions /\ s.live /\ s.inbox = session[p].inbox
         /\ s.outbox = session[p].outbox /\ s.extra = session[p].extra
  BY SessionNow DEF Sessions

LEMMA LockKeeps == ASSUME IInv, NEW c \in Callers, Lock(c) PROVE IInv'
  <1>0. /\ call[c] \in Calls /\ call[c].pc = "lock" /\ call[c].at \in Plugins
        /\ call[c].at \in Command /\ host' = host /\ lock[Plugin(c)] = None
    BY CallNow DEF Lock, At
  <1>1. PICK p \in Plugins : p = Plugin(c)
    BY <1>0 DEF Plugin
  <1>2. HostsOK' /\ host' \in [Callers -> Hosts]
    BY <1>0, CallNow DEF HostsOK, HostOK
  <1> DEFINE s == [session[p] EXCEPT !.live = TRUE]
  <1>3. /\ s \in Sessions /\ s.live /\ s.inbox = session[p].inbox
        /\ s.outbox = session[p].outbox /\ s.extra = session[p].extra
    BY LiveSession
  <1>4. CASE Fail(c) /\ UNCHANGED <<lock, session>>
    <2>1. session' \in [Plugins -> Sessions] /\ \A q \in Plugins : SameMessages(q)
      BY <1>4, SessionNow DEF SameMessages
    <2> QED BY <1>0, <1>1, <1>2, <1>4, <2>1, FreeFailKeeps
  <1>5. CASE session' = [session EXCEPT ![p].live = TRUE] /\ Fail(c) /\ UNCHANGED lock
    <2>1. session' = [session EXCEPT ![p] = s]
      BY <1>5
    <2> HIDE DEF s
    <2>2. session' \in [Plugins -> Sessions] /\ \A q \in Plugins : SameMessages(q)
      BY <1>3, <2>1, SessionNow DEF SameMessages
    <2> QED BY <1>0, <1>1, <1>2, <1>5, <2>2, FreeFailKeeps
  <1>6. CASE /\ session' = [session EXCEPT ![p].live = TRUE]
             /\ lock' = [lock EXCEPT ![p] = c] /\ Goto(c, "write")
             /\ UNCHANGED <<enabled, started>>
    <2> DEFINE r == [call[c] EXCEPT !.pc = "write"]
    <2>1. session' = [session EXCEPT ![p] = s] /\ call' = [call EXCEPT ![c] = r]
      BY <1>6 DEF Goto
    <2>2. /\ r \in Calls /\ r.pc = "write" /\ r.at = call[c].at /\ r.kind = call[c].kind
          /\ r.payload = call[c].payload /\ r.got = call[c].got /\ r.outcome = call[c].outcome
          /\ r.ran = call[c].ran /\ r.partial = call[c].partial
      BY <1>0 DEF Calls
    <2> HIDE DEF r, s
    <2>3. MessagesOK(s, p)
      BY <1>3, SessionNow DEF MessagesOK
    <2>4. Exchange(p)'
      <3>1. session'[p] = s /\ lock'[p] = c /\ call'[c].pc = "write"
        BY <1>6, <2>1, <2>2, CallNow
      <3>2. Exchange(p) /\ lock[p] = None
        BY <1>0, <1>1, SessionNow
      <3> QED BY <1>3, <3>1, <3>2 DEF Exchange
    <2>5. LineOK(r.got) /\ p \in Command
      BY <1>0, <1>1, <2>2, CallNow DEF Plugin
    <2> QED BY <1>0, <1>1, <1>3, <1>6, <2>1, <2>2, <2>3, <2>4, <2>5, CommandStepKeeps
  <1> QED BY <1>1, <1>4, <1>5, <1>6 DEF Lock

\* The request joins an empty inbox, if the process kept to one line each.
LEMMA WriteKeeps == ASSUME IInv, NEW c \in Callers, Write(c) PROVE IInv'
  <1>0. /\ call[c] \in Calls /\ call[c].pc = "write" /\ call[c].at \in Plugins
        /\ call[c].at \in Command /\ host' = host /\ lock[Plugin(c)] = c
    <2>1. lock[Plugin(c)] = c
      BY DEF Write, At, IInv, LockOK
    <2> QED BY <2>1, CallNow DEF Write, At
  <1>1. PICK p \in Plugins : p = Plugin(c)
    BY <1>0 DEF Plugin
  <1>2. CASE StopSession(p) /\ Unlock(p) /\ Fail(c)
    BY <1>0, <1>1, <1>2, StopKeeps
  <1>3. CASE /\ session' = [session EXCEPT ![p].inbox = Append(@,
                              [id |-> Id(c), payload |-> call[c].payload])]
             /\ Goto(c, "await") /\ UNCHANGED <<enabled, started, lock>>
    <2>1. PICK q \in Requests : q = [id |-> Id(c), payload |-> call[c].payload]
      BY <1>0, IdIs, CallFields DEF Requests, Plugin
    <2>2. q.id = Id(c) /\ q.payload = call[c].payload
      BY <2>1
    <2> DEFINE s == [session[p] EXCEPT !.inbox = Append(@, q)]
               r == [call[c] EXCEPT !.pc = "await"]
    <2>3. session' = [session EXCEPT ![p] = s] /\ call' = [call EXCEPT ![c] = r]
      BY <1>3, <2>1 DEF Goto
    <2>4. /\ r \in Calls /\ r.pc = "await" /\ r.at = call[c].at /\ r.kind = call[c].kind
          /\ r.payload = call[c].payload /\ r.got = call[c].got /\ r.outcome = call[c].outcome
          /\ r.ran = call[c].ran /\ r.partial = call[c].partial
      BY <1>0 DEF Calls
    <2>5. /\ s \in Sessions /\ s.inbox = Append(session[p].inbox, q)
          /\ s.outbox = session[p].outbox /\ s.extra = session[p].extra
          /\ s.live = session[p].live
      <3>1. session[p] \in Sessions /\ Append(session[p].inbox, q) \in Seq(Requests)
        BY SessionNow
      <3> QED BY <3>1 DEF Sessions
    <2> HIDE DEF r, s
    <2>6. lock' = [lock EXCEPT ![p] = c]
      BY <1>0, <1>1, <1>3, CallNow
    <2>7. s.live /\ MessagesOK(session[p], p) /\ session[p].inbox \in Seq(Requests) /\ Exchange(p)
          /\ session[p].outbox \in Seq(Lines)
      <3>1. session[p].live
        BY <1>0, <1>1, ChainAssumption, Holder
      <3> QED BY <2>5, <3>1, SessionNow
    <2>8. MessagesOK(s, p)
      <3>1. Id(c).plugin = p /\ Id(c).caller = c
        BY <1>0, <1>1, IdIs
      <3>2. q.id.plugin = p /\ PayloadFor(q.payload, q.id.caller, p)
        <4>1. PayloadFor(call[c].payload, c, p)
          BY <1>1, CallNow DEF Plugin
        <4> QED BY <2>2, <3>1, <4>1
      <3>3. \A i \in 1 .. Len(s.inbox) : s.inbox[i] = q \/
              (i \in 1 .. Len(session[p].inbox) /\ s.inbox[i] = session[p].inbox[i])
        BY <2>5, <2>7
      <3>4. \A i \in 1 .. Len(s.inbox) : s.inbox[i].id.plugin = p
              /\ PayloadFor(s.inbox[i].payload, s.inbox[i].id.caller, p)
        <4>1. \A i \in 1 .. Len(session[p].inbox) : session[p].inbox[i].id.plugin = p
              /\ PayloadFor(session[p].inbox[i].payload, session[p].inbox[i].id.caller, p)
          BY <2>7 DEF MessagesOK
        <4> QED BY <3>2, <3>3, <4>1
      <3> QED BY <2>5, <2>7, <3>4 DEF MessagesOK
    <2>9. Exchange(p)'
      <3>1. session'[p] = s /\ lock'[p] = c /\ call'[c].pc = "await" /\ Id(c)' = Id(c)
        BY <1>0, <1>1, <1>3, <2>3, <2>4, CallNow, SessionNow DEF Id, Plugin
      <3>2. lock[p] = c /\ call[c].pc # "await" /\ c # None
        BY <1>0, <1>1, ChainAssumption
      <3>3. CASE s.extra = 0
        <4>1. session[p].inbox = <<>> /\ ClosedFirst(session[p].outbox)
          BY <2>5, <2>7, <3>2, <3>3 DEF Exchange
        <4>2. Len(s.inbox) = 1 /\ s.inbox[1].id = Id(c) /\ ClosedFirst(s.outbox)
          BY <2>2, <2>5, <4>1
        <4>3. [caller |-> c, plugin |-> call'[c].at, prewarm |-> call'[c].kind = "prewarm"] = Id(c)
          BY <3>1 DEF Id, Plugin
        <4> QED BY <3>1, <3>2, <4>2, <4>3 DEF Exchange, Id, Plugin
      <3> QED BY <3>1, <3>3 DEF Exchange
    <2>10. LineOK(r.got) /\ p \in Command
      BY <1>0, <1>1, <2>4, CallNow DEF Plugin
    <2> QED BY <1>0, <1>1, <1>3, <2>3, <2>4, <2>5, <2>6, <2>7, <2>8, <2>9, <2>10, CommandStepKeeps
  <1> QED BY <1>1, <1>2, <1>3 DEF Write

LEMMA TimesOutKeeps == ASSUME IInv, NEW c \in Callers, ReceiveTimesOut(c) PROVE IInv'
  BY StopKeeps DEF ReceiveTimesOut, At

LEMMA HeadTail ==
  ASSUME NEW S, NEW q \in Seq(S), q # <<>>
  PROVE  /\ Head(q) = q[1] /\ Head(q) \in S /\ Tail(q) \in Seq(S) /\ Len(q) \in Nat \ {0}
         /\ 1 \in 1 .. Len(q) /\ Len(Tail(q)) = Len(q) - 1
         /\ \A i \in 1 .. Len(Tail(q)) : Tail(q)[i] = q[i + 1] /\ i + 1 \in 1 .. Len(q)
  OBVIOUS

\* The line the caller takes is the last of its exchange, if the process
\* kept to one line each.
LEMMA ReceiveKeeps == ASSUME IInv, NEW c \in Callers, Receive(c) PROVE IInv'
  <1>0. /\ call[c] \in Calls /\ call[c].pc = "await" /\ call[c].at \in Plugins
        /\ call[c].at \in Command /\ host' = host /\ lock[Plugin(c)] = c
        /\ session[Plugin(c)].outbox # <<>> /\ Unlock(Plugin(c))
    <2>1. lock[Plugin(c)] = c
      BY DEF Receive, At, IInv, LockOK
    <2> QED BY <2>1, CallNow DEF Receive, At
  <1>1. PICK p \in Plugins : p = Plugin(c)
    BY <1>0 DEF Plugin
  <1>2. CASE StopSession(p) /\ Fail(c)
    BY <1>0, <1>1, <1>2, StopKeeps
  <1>3. CASE /\ session' = [session EXCEPT ![p].outbox = Tail(session[p].outbox)]
             /\ call' = [call EXCEPT ![c].pc = "parse", ![c].got = Head(session[p].outbox)]
             /\ UNCHANGED <<enabled, started>>
             /\ Head(session[p].outbox).action # "closed"
    <2>0. /\ session[p].outbox \in Seq(Lines) /\ session[p].outbox # <<>>
          /\ session[p] \in Sessions /\ MessagesOK(session[p], p) /\ Exchange(p)
      BY <1>0, <1>1, SessionNow
    <2>1. PICK l \in Lines, rest \in Seq(Lines) :
            l = Head(session[p].outbox) /\ rest = Tail(session[p].outbox)
      BY <2>0, HeadTail
    <2>2. LineOK(l) /\ \A i \in 1 .. Len(rest) : LineOK(rest[i])
      <3>1. l = session[p].outbox[1] /\ 1 \in 1 .. Len(session[p].outbox)
            /\ \A i \in 1 .. Len(rest) : rest[i] = session[p].outbox[i + 1]
                  /\ i + 1 \in 1 .. Len(session[p].outbox)
        BY <2>0, <2>1, HeadTail
      <3> QED BY <2>0, <3>1 DEF MessagesOK
    <2> DEFINE s == [session[p] EXCEPT !.outbox = rest]
               r == [call[c] EXCEPT !.pc = "parse", !.got = l]
    <2>3. session' = [session EXCEPT ![p] = s] /\ call' = [call EXCEPT ![c] = r]
      BY <1>3, <2>1
    <2>4. /\ r \in Calls /\ r.pc = "parse" /\ r.at = call[c].at /\ r.kind = call[c].kind
          /\ r.payload = call[c].payload /\ r.got = l /\ r.outcome = call[c].outcome
          /\ r.ran = call[c].ran /\ r.partial = call[c].partial
      BY <1>0 DEF Calls
    <2>5. /\ s \in Sessions /\ s.inbox = session[p].inbox /\ s.outbox = rest
          /\ s.extra = session[p].extra /\ s.live = session[p].live
      BY <2>0 DEF Sessions
    <2> HIDE DEF r, s
    <2>6. lock' = [lock EXCEPT ![p] = None]
      BY <1>0, <1>1 DEF Unlock
    <2>7. s.live
      BY <1>0, <1>1, <2>5, ChainAssumption, Holder
    <2>8. MessagesOK(s, p)
      BY <2>0, <2>2, <2>5, <2>7 DEF MessagesOK
    <2>9. Exchange(p)'
      <3>1. session'[p] = s /\ lock'[p] = None
        BY <2>3, <2>6, CallNow, SessionNow
      <3>2. lock[p] = c /\ call[c].pc = "await" /\ c # None
        BY <1>0, <1>1, ChainAssumption
      <3>3. CASE s.extra = 0
        <4>1. ~ClosedFirst(session[p].outbox)
          BY <1>3, <2>0 DEF ClosedFirst
        <4>2. session[p].inbox = <<>> /\ ClosedFirst(rest)
          BY <2>0, <2>1, <2>5, <3>2, <3>3, <4>1 DEF Exchange
        <4> QED BY <2>5, <3>1, <4>2 DEF Exchange
      <3> QED BY <3>1, <3>3 DEF Exchange
    <2>10. LineOK(r.got) /\ p \in Command
      BY <1>0, <1>1, <2>2, <2>4 DEF Plugin
    <2> QED BY <1>0, <1>1, <1>3, <2>3, <2>4, <2>5, <2>6, <2>7, <2>8, <2>9, <2>10, CommandStepKeeps
  <1> QED BY <1>1, <1>2, <1>3 DEF Receive

(***************************************************************************)
(* The plugin process                                                      *)
(***************************************************************************)

\* A step of the process p alone.
LEMMA ProcessStepKeeps ==
  ASSUME IInv, NEW p \in Plugins, NEW s \in Sessions, session' = [session EXCEPT ![p] = s],
         s.live, MessagesOK(s, p), Exchange(p)', UNCHANGED <<enabled, started, call, lock, host>>
  PROVE  IInv'
  <1>0. session \in [Plugins -> Sessions] /\ LockOK
    BY DEF IInv, TypeOK
  <1>1. session' \in [Plugins -> Sessions] /\ session'[p] = s
        /\ \A q \in Plugins : q # p => session'[q] = session[q]
    BY <1>0
  <1>2. TypeOK'
    BY <1>1 DEF IInv, TypeOK
  <1>3. LockOK'
    <2>1. \A q \in Plugins : MessagesOK(session'[q], q)
      BY <1>0, <1>1 DEF LockOK, MessagesOK
    <2>2. \A d \in Callers : call'[d].pc \in {"write", "await"} => lock'[call'[d].at] = d
      BY <1>0 DEF LockOK, Plugin
    <2>3. \A q \in Plugins : lock'[q] # None =>
             call'[lock'[q]].pc \in {"write", "await"} /\ call'[lock'[q]].at = q
             /\ session'[q].live
      BY <1>0, <1>1 DEF LockOK, Plugin
    <2> QED BY <2>1, <2>2, <2>3 DEF LockOK, MessagesOK, Plugin
  <1>4. ASSUME NEW q \in Plugins, q # p PROVE Exchange(q)'
    <2>1. Exchange(q) /\ session'[q] = session[q]
      BY <1>1, <1>4 DEF IInv
    <2> QED BY <2>1 DEF Exchange, Id, Plugin
  <1>5. \A d \in Callers : CallOK(d)' /\ CoverOK(d)'
    BY DEF IInv, CallOK, CoverOK, Plugin
  <1>6. \A d \in Callers : HostOK(d)'
    BY DEF IInv, HostOK
  <1> QED BY <1>2, <1>3, <1>4, <1>5, <1>6 DEF IInv

\* What a process that adds the line l to its output leaves there.
LEMMA LinesGrow ==
  ASSUME NEW out \in Seq(Lines), NEW l \in Lines, LineOK(l),
         \A i \in 1 .. Len(out) : LineOK(out[i])
  PROVE  /\ Append(out, l) \in Seq(Lines) /\ Append(out, l) # <<>>
         /\ \A i \in 1 .. Len(Append(out, l)) : LineOK(Append(out, l)[i])
         /\ out # <<>> => Head(Append(out, l)) = Head(out)
         /\ out = <<>> => Head(Append(out, l)) = l /\ Tail(Append(out, l)) = <<>>
  <1>1. \A i \in 1 .. Len(Append(out, l)) :
          Append(out, l)[i] = l \/ (i \in 1 .. Len(out) /\ Append(out, l)[i] = out[i])
    OBVIOUS
  <1>2. \A i \in 1 .. Len(Append(out, l)) : LineOK(Append(out, l)[i])
    BY <1>1
  <1> QED BY <1>2

\* Exchange of the process s with the calls and locks as they are.
ExchangeOK(s, p) ==
  LET waiting == lock[p] # None /\ call[lock[p]].pc = "await" IN
  s.extra = 0 =>
    /\ ~waiting => s.inbox = <<>> /\ ClosedFirst(s.outbox)
    /\ waiting =>
         /\ Len(s.inbox) <= 1
         /\ s.inbox # <<>> => s.inbox[1].id = Id(lock[p]) /\ ClosedFirst(s.outbox)
         /\ ~ClosedFirst(s.outbox) =>
               Head(s.outbox).id = Id(lock[p]) /\ ClosedFirst(Tail(s.outbox))

LEMMA SpeaksKeeps ==
  ASSUME IInv, NEW p \in Plugins, NEW s \in Sessions, NEW l \in Lines, LineOK(l),
         NEW t, t = [s EXCEPT !.outbox = Append(@, l)], session' = [session EXCEPT ![p] = t],
         s.live, MessagesOK(s, p), ExchangeOK(t, p),
         UNCHANGED <<enabled, started, call, lock, host>>
  PROVE  IInv'
  <1>0. s.outbox \in Seq(Lines) /\ s.inbox \in Seq(Requests)
    BY DEF Sessions
  <1>1. /\ Append(s.outbox, l) \in Seq(Lines)
        /\ \A i \in 1 .. Len(Append(s.outbox, l)) : LineOK(Append(s.outbox, l)[i])
    BY <1>0, LinesGrow DEF MessagesOK
  <1>2. /\ t \in Sessions /\ t.live = s.live /\ t.inbox = s.inbox /\ t.extra = s.extra
        /\ t.outbox = Append(s.outbox, l)
    BY <1>1 DEF Sessions
  <1>3. MessagesOK(t, p)
    BY <1>1, <1>2 DEF MessagesOK
  <1>4. session'[p] = t
    BY SessionNow
  <1>5. Exchange(p)'
    BY <1>4 DEF Exchange, ExchangeOK, Id, Plugin
  <1> QED BY <1>2, <1>3, <1>5, ProcessStepKeeps

LEMMA AnswersKeeps ==
  ASSUME IInv, NEW p \in Plugins, ProcessAnswers(p)
  PROVE  IInv'
  <1>0. /\ session[p] \in Sessions /\ session[p].live /\ session[p].inbox # <<>>
        /\ session[p].inbox \in Seq(Requests) /\ session[p].outbox \in Seq(Lines)
        /\ MessagesOK(session[p], p) /\ Exchange(p)
        /\ UNCHANGED <<enabled, started, call, lock, host>>
    BY SessionNow DEF ProcessAnswers
  <1>1. PICK r \in Requests, in \in Seq(Requests) :
          r = Head(session[p].inbox) /\ in = Tail(session[p].inbox)
    BY <1>0, HeadTail
  <1>2. /\ r = session[p].inbox[1] /\ Len(session[p].inbox) \in Nat \ {0}
        /\ Len(in) = Len(session[p].inbox) - 1
        /\ r.id.plugin = p /\ PayloadFor(r.payload, r.id.caller, p)
        /\ \A i \in 1 .. Len(in) : in[i].id.plugin = p
              /\ PayloadFor(in[i].payload, in[i].id.caller, p)
    <2>1. /\ r = session[p].inbox[1] /\ 1 \in 1 .. Len(session[p].inbox)
          /\ Len(session[p].inbox) \in Nat \ {0} /\ Len(in) = Len(session[p].inbox) - 1
          /\ \A i \in 1 .. Len(in) : in[i] = session[p].inbox[i + 1]
                /\ i + 1 \in 1 .. Len(session[p].inbox)
      BY <1>0, <1>1, HeadTail
    <2> QED BY <1>0, <2>1 DEF MessagesOK
  <1>3. /\ r.id \in Ids /\ r.id.caller \in Callers /\ r.payload \in Seq(Replacements)
    BY DEF Requests, Ids
  <1> DEFINE s == [session[p] EXCEPT !.inbox = in]
  <1>4. /\ s \in Sessions /\ s.live = session[p].live /\ s.inbox = in
        /\ s.outbox = session[p].outbox /\ s.extra = session[p].extra
    BY <1>0 DEF Sessions
  <1>5. PICK l \in Lines :
          /\ session' = [session EXCEPT ![p] = [s EXCEPT !.outbox = Append(@, l)]]
          /\ l.id = r.id /\ LineOK(l)
    <2> DEFINE x == [id |-> r.id, payload |-> r.payload, action |-> "next"]
               y == [x EXCEPT !.payload = Append(@, [caller |-> r.id.caller, plugin |-> p])]
               z(a) == [x EXCEPT !.action = a]
    <2>1. \/ Say(p, s, x) \/ Say(p, s, y) \/ \E a \in {"stop", "error"} : Say(p, s, z(a))
      BY <1>1 DEF ProcessAnswers
    <2>2. PayloadFor(r.payload, r.id.caller, p + 1)
      BY <1>2, <1>3, ChainBounds, PayloadGrows
    <2>3. x \in Lines /\ x.id = r.id /\ LineOK(x)
      BY <1>2, <1>3, <2>2 DEF Lines, LineOK
    <2>4. y \in Lines /\ y.id = r.id /\ LineOK(y)
      <3>1. PICK q \in Seq(Replacements) :
              /\ q = Append(r.payload, [caller |-> r.id.caller, plugin |-> p])
              /\ PayloadFor(q, r.id.caller, p + 1)
        BY <1>2, <1>3, PayloadAppend
      <3>2. y = [id |-> r.id, payload |-> q, action |-> "next"]
        <4>1. x.payload = r.payload
          OBVIOUS
        <4>2. y = [x EXCEPT !.payload = q]
          BY <3>1, <4>1
        <4> HIDE DEF y
        <4> QED BY <4>2
      <3> QED BY <1>2, <1>3, <3>1, <3>2 DEF Lines, LineOK
    <2>5. ASSUME NEW a \in {"stop", "error"} PROVE z(a) \in Lines /\ z(a).id = r.id /\ LineOK(z(a))
      BY <1>2, <1>3, <2>2 DEF Lines, LineOK
    <2> HIDE DEF s, x, y, z
    <2> QED BY <2>1, <2>3, <2>4, <2>5 DEF Say
  <1> DEFINE t == [s EXCEPT !.outbox = Append(@, l)]
  <1>6. /\ t.inbox = in /\ t.extra = session[p].extra /\ t.outbox = Append(session[p].outbox, l)
    BY <1>4 DEF Sessions
  <1>7. MessagesOK(s, p)
    BY <1>0, <1>2, <1>4 DEF MessagesOK
  <1> HIDE DEF s, t
  <1>8. ExchangeOK(t, p)
    <2> SUFFICES ASSUME t.extra = 0 PROVE ExchangeOK(t, p)
      BY DEF ExchangeOK
    <2>1. /\ lock[p] # None /\ call[lock[p]].pc = "await" /\ Len(session[p].inbox) <= 1
          /\ session[p].inbox[1].id = Id(lock[p]) /\ ClosedFirst(session[p].outbox)
      BY <1>0, <1>6 DEF Exchange
    <2>2. in = <<>>
      <3>1. PICK n \in Nat \ {0} : n = Len(session[p].inbox)
        BY <1>2
      <3>2. n <= 1 /\ Len(in) = n - 1
        BY <1>2, <2>1, <3>1
      <3>3. Len(in) = 0
        BY <3>2
      <3> QED BY <3>3, EmptySeq
    <2>3. l.id = Id(lock[p])
      BY <1>2, <1>5, <2>1
    <2>4. /\ session[p].outbox # <<>> => Head(t.outbox) = Head(session[p].outbox)
          /\ session[p].outbox = <<>> => Head(t.outbox) = l /\ Tail(t.outbox) = <<>>
      BY <1>0, <1>5, <1>6, LinesGrow DEF MessagesOK
    <2> QED BY <1>6, <2>1, <2>2, <2>3, <2>4 DEF ExchangeOK, ClosedFirst
  <1> QED BY <1>0, <1>4, <1>5, <1>7, <1>8, SpeaksKeeps DEF t

LEMMA PrintsKeeps ==
  ASSUME IInv, NEW p \in Plugins, ProcessPrints(p)
  PROVE  IInv'
  <1>0. /\ session[p] \in Sessions /\ session[p].live /\ session[p].extra \in Nat
        /\ MessagesOK(session[p], p)
        /\ UNCHANGED <<enabled, started, call, lock, host>>
    BY SessionNow DEF ProcessPrints
  <1> DEFINE s == [session[p] EXCEPT !.extra = @ + 1]
             t == [s EXCEPT !.outbox = Append(@, NoLine)]
  <1>1. session' = [session EXCEPT ![p] = t]
    BY DEF ProcessPrints, Say
  <1>2. /\ s \in Sessions /\ s.live /\ s.inbox = session[p].inbox
        /\ s.outbox = session[p].outbox /\ s.extra = session[p].extra + 1
        /\ t.extra = s.extra
    <2>1. session[p].extra + 1 \in Nat
      BY <1>0
    <2> QED BY <1>0, <2>1 DEF Sessions
  <1>3. MessagesOK(s, p)
    BY <1>0, <1>2 DEF MessagesOK
  <1>4. t.extra # 0
    BY <1>0, <1>2
  <1> HIDE DEF s
  <1>5. ExchangeOK(t, p)
    BY <1>4 DEF ExchangeOK
  <1> QED BY <1>0, <1>1, <1>2, <1>3, <1>5, NoLineOK, SpeaksKeeps

LEMMA OneLeft ==
  ASSUME NEW S, NEW out \in Seq(S), out # <<>>, Len(out) # 1
  PROVE  Tail(out) # <<>>
  <1>1. PICK n \in Nat : n = Len(Tail(out)) /\ n # 0
    <2>1. PICK m \in Nat \ {0} : m = Len(out) /\ Len(Tail(out)) = m - 1
      BY HeadTail
    <2>2. m - 1 \in Nat /\ m - 1 # 0
      BY <2>1
    <2> QED BY <2>1, <2>2
  <1>2. Len(<<>>) = 0
    OBVIOUS
  <1> QED BY <1>1, <1>2, Zenon

\* After its only element a sequence goes on with what is appended.
LEMMA TailAppend ==
  ASSUME NEW S, NEW out \in Seq(S), Len(out) = 1, NEW l \in S
  PROVE  Head(Tail(Append(out, l))) = l
  <1>1. /\ Append(out, l) \in Seq(S) /\ Len(Append(out, l)) = Len(out) + 1
        /\ Append(out, l)[Len(out) + 1] = l
    BY AppendProperties, ZenonT(60)
  <1>2. PICK q \in Seq(S) : q = Append(out, l) /\ Len(q) = 1 + 1 /\ q[1 + 1] = l
    BY <1>1, Zenon
  <1>3. q # <<>>
    BY <1>2
  <1>4. Tail(q) \in Seq(S) /\ Len(Tail(q)) = 1
    BY <1>2, <1>3, HeadTail
  <1>5. 1 \in 1 .. Len(Tail(q)) /\ Tail(q) # <<>>
    <2>1. 1 \in 1 .. 1 /\ Len(<<>>) # 1
      OBVIOUS
    <2> QED BY <1>4, <2>1, Zenon
  <1>6. Tail(q)[1] = q[1 + 1]
    BY <1>3, <1>5, HeadTail, Zenon
  <1>7. Head(Tail(q)) = Tail(q)[1]
    BY <1>4, <1>5, HeadTail, Zenon
  <1> QED BY <1>2, <1>6, <1>7, Zenon

\* The end of the output comes after every line, so that it is read first
\* only when no answer is left.
LEMMA DiesKeeps ==
  ASSUME IInv, NEW p \in Plugins, ProcessDies(p)
  PROVE  IInv'
  <1>0. /\ session[p] \in Sessions /\ session[p].live /\ session[p].outbox \in Seq(Lines)
        /\ MessagesOK(session[p], p) /\ Exchange(p)
        /\ UNCHANGED <<enabled, started, call, lock, host>>
        /\ \A i \in 1 .. Len(session[p].outbox) : session[p].outbox[i].action # "closed"
    BY SessionNow DEF ProcessDies
  <1> DEFINE l == [NoLine EXCEPT !.action = "closed"]
             s == [session[p] EXCEPT !.inbox = <<>>]
             t == [s EXCEPT !.outbox = Append(@, l)]
  <1>1. session' = [session EXCEPT ![p] = t]
    BY DEF ProcessDies, Say
  <1>2. l \in Lines /\ l.action = "closed" /\ LineOK(l)
    <2>1. l = [id |-> None, payload |-> <<>>, action |-> "closed"]
      BY DEF NoLine
    <2> HIDE DEF l
    <2> QED BY <2>1, PayloadEmpty DEF Lines, LineOK
  <1>3. /\ s \in Sessions /\ s.live /\ s.inbox = <<>> /\ s.outbox = session[p].outbox
        /\ s.extra = session[p].extra
    <2>1. <<>> \in Seq(Requests)
      OBVIOUS
    <2> QED BY <1>0, <2>1 DEF Sessions
  <1>4. MessagesOK(s, p)
    BY <1>0, <1>3 DEF MessagesOK
  <1> HIDE DEF l
  <1>5. t.inbox = <<>> /\ t.extra = session[p].extra /\ t.outbox = Append(session[p].outbox, l)
    BY <1>3 DEF Sessions
  <1> HIDE DEF s, t
  <1>6. PICK out \in Seq(Lines) : out = session[p].outbox
    BY <1>0
  <1>7. /\ out # <<>> => Head(t.outbox) = Head(out) /\ Head(out).action # "closed"
        /\ out = <<>> => Head(t.outbox) = l
    BY <1>0, <1>2, <1>5, <1>6, HeadTail, LinesGrow DEF MessagesOK
  <1>8. out # <<>> /\ ClosedFirst(Tail(out)) => Head(Tail(t.outbox)) = l
    <2> SUFFICES ASSUME out # <<>>, ClosedFirst(Tail(out))
                 PROVE  Head(Tail(Append(out, l))) = l
      BY <1>5, <1>6
    <2>1. Tail(out) = <<>>
      <3> SUFFICES ASSUME Tail(out) # <<>> PROVE FALSE
        OBVIOUS
      <3>1. Tail(out) \in Seq(Lines) /\ Head(Tail(out)).action = "closed"
        BY HeadTail DEF ClosedFirst
      <3>2. 1 \in 1 .. Len(Tail(out)) /\ Head(Tail(out)) = Tail(out)[1]
        BY <3>1, HeadTail
      <3>3. Tail(out)[1] = out[1 + 1] /\ 1 + 1 \in 1 .. Len(out)
        BY <3>2, HeadTail
      <3> QED BY <1>0, <1>6, <3>1, <3>2, <3>3
    <2>2. Len(out) = 1
      BY <2>1, OneLeft, Zenon
    <2> QED BY <1>2, <2>2, TailAppend, Zenon
  <1>9. ExchangeOK(t, p)
    <2>1. out # <<>> /\ ClosedFirst(Tail(out)) => ClosedFirst(Tail(t.outbox))
      BY <1>2, <1>8 DEF ClosedFirst
    <2>2. t.outbox # <<>>
      BY <1>2, <1>5, <1>0
    <2> QED BY <1>0, <1>2, <1>5, <1>6, <1>7, <2>1, <2>2 DEF Exchange, ExchangeOK, ClosedFirst
  <1> QED BY <1>0, <1>1, <1>2, <1>3, <1>4, <1>9, SpeaksKeeps DEF t

(***************************************************************************)
(* Wasm plugins                                                            *)
(***************************************************************************)

\* HostOK of a host state h.
HostStateOK(h) ==
  /\ h.pending = IF h.told = "small" THEN h.ask ELSE None
  /\ h.told \in {"small", "gone"} => h.ask # None /\ h.answer.ask = h.ask
  /\ h.answer.n <= h.count

LEMMA NoHostOK == NoHost \in Hosts /\ HostStateOK(NoHost)
  BY DEF NoHost, NoAnswer, Hosts, Answers, HostStateOK

LEMMA HostsChange ==
  ASSUME host \in [Callers -> Hosts], HostsOK, NEW c \in Callers, NEW h \in Hosts,
         HostStateOK(h), host' = [host EXCEPT ![c] = h]
  PROVE  host' \in [Callers -> Hosts] /\ HostsOK'
  <1>1. ASSUME NEW d \in Callers PROVE HostOK(d)'
    <2>1. CASE d = c
      <3>1. host'[d] = h
        BY <2>1
      <3> QED BY <3>1 DEF HostOK, HostStateOK
    <2>2. CASE d # c
      <3>1. host'[d] = host[d] /\ HostOK(d)
        BY <2>2 DEF HostsOK, HostOK
      <3> QED BY <3>1 DEF HostOK
    <2> QED BY <2>1, <2>2
  <1> QED BY <1>1 DEF HostsOK, HostOK

LEMMA WasmKeeps == ASSUME IInv, NEW c \in Callers, WasmReturns(c) PROVE IInv'
  <1>0. /\ call[c] \in Calls /\ call[c].pc = "wasm" /\ call[c].at \in Plugins
        /\ UNCHANGED <<lock, session>> /\ host' = [host EXCEPT ![c] = NoHost]
    BY CallNow DEF WasmReturns, At
  <1>1. HostsOK' /\ host' \in [Callers -> Hosts] /\ session' \in [Plugins -> Sessions]
        /\ \A p \in Plugins : SameMessages(p)
    <2>1. host \in [Callers -> Hosts] /\ HostsOK /\ session \in [Plugins -> Sessions]
      BY CallNow
    <2>2. HostsOK' /\ host' \in [Callers -> Hosts]
      BY <1>0, <2>1, NoHostOK, HostsChange
    <2> QED BY <1>0, <2>1, <2>2 DEF SameMessages
  <1>2. CASE Fail(c)
    BY <1>0, <1>1, <1>2, FreeFailKeeps DEF Plugin
  <1>3. ASSUME NEW a \in {"next", "stop"},
               NEW x \in {<<>>, <<[caller |-> c, plugin |-> Plugin(c)]>>},
               call' = [call EXCEPT ![c].pc = "parse",
                           ![c].got = [id |-> Id(c), action |-> a, payload |-> call[c].payload \o x]],
               UNCHANGED <<enabled, started>>
        PROVE  IInv'
    <2>1. call[c].payload \in Seq(Replacements) /\ PayloadFor(call[c].payload, c, call[c].at)
      BY <1>0, CallNow, CallFields
    <2>2. PICK q \in Seq(Replacements) :
             q = call[c].payload \o x /\ PayloadFor(q, c, call[c].at + 1)
      <3>1. CASE x = <<>>
        <4>1. call[c].payload \o x = call[c].payload
          BY <2>1, <3>1, ConcatEmptySeq
        <4>2. PayloadFor(call[c].payload, c, call[c].at + 1)
          BY <1>0, <2>1, ChainBounds, PayloadGrows
        <4> QED BY <2>1, <4>1, <4>2
      <3>2. CASE x = <<[caller |-> c, plugin |-> Plugin(c)]>>
        <4> DEFINE e == [caller |-> c, plugin |-> call[c].at]
        <4>1. e \in Replacements
          BY <1>0 DEF Replacements
        <4>2. Append(call[c].payload, e) \in Seq(Replacements)
              /\ PayloadFor(Append(call[c].payload, e), c, call[c].at + 1)
          BY <1>0, <2>1, PayloadAppend
        <4>3. x = <<e>>
          BY <3>2 DEF Plugin
        <4> HIDE DEF e
        <4>4. call[c].payload \o <<e>> = Append(call[c].payload, e)
          BY <2>1, <4>1
        <4> QED BY <4>2, <4>3, <4>4
      <3> QED BY <3>1, <3>2
    <2>3. PICK l \in Lines : l = [id |-> Id(c), action |-> a, payload |-> q] /\ LineOK(l)
      <3>1. Id(c) \in Ids /\ Id(c).caller = c /\ Id(c).plugin = call[c].at
        BY <1>0, IdIs DEF Plugin
      <3>2. PICK l : l = [id |-> Id(c), action |-> a, payload |-> q]
        OBVIOUS
      <3>3. l.id = Id(c) /\ l.payload = q
        BY <3>2
      <3>4. l \in Lines
        BY <3>1, <3>2 DEF Lines
      <3>5. LineOK(l)
        BY <2>2, <3>1, <3>3 DEF LineOK
      <3> QED BY <3>2, <3>4, <3>5
    <2> DEFINE r == [call[c] EXCEPT !.pc = "parse", !.got = l]
    <2>4. call' = [call EXCEPT ![c] = r]
      BY <1>3, <2>2, <2>3
    <2>5. /\ r \in Calls /\ r.pc = "parse" /\ r.at = call[c].at /\ r.kind = call[c].kind
          /\ r.payload = call[c].payload /\ r.got = l /\ r.outcome = call[c].outcome
          /\ r.ran = call[c].ran /\ r.partial = call[c].partial
      BY <1>0 DEF Calls
    <2> HIDE DEF r
    <2>6. /\ r.kind # "prewarm" /\ r.outcome \in {"none", "ok"} =>
               \A p \in Plugins : p < r.at /\ p \notin r.ran =>
                  p \notin Required /\ (p \in enabled => r.partial)
          /\ r.outcome = "none" /\ started' \in {"no", "yes", "failed"}
      BY <1>0, <1>3, <2>5, CallNow
    <2>7. PayloadFor(r.payload, c, r.at) /\ LineOK(r.got) /\ r.at \in Plugins
      BY <1>0, <2>1, <2>3, <2>5
    <2>8. UNCHANGED <<enabled, lock, session>>
      BY <1>0, <1>3
    <2> QED BY <1>0, <1>1, <2>4, <2>5, <2>6, <2>7, <2>8, OwnStepKeeps
  <1> QED BY <1>2, <1>3 DEF WasmReturns

\* What a host request makes of its caller's state, and that the rest stays.
LEMMA HostStepKeeps ==
  ASSUME IInv, NEW c \in Callers, NEW h \in Hosts, HostStateOK(h),
         host' = [host EXCEPT ![c] = h], UNCHANGED <<enabled, started, call, lock, session>>
  PROVE  IInv'
  <1>0. /\ host \in [Callers -> Hosts] /\ HostsOK
        /\ call[c] \in Calls /\ call \in [Callers -> Calls] /\ session \in [Plugins -> Sessions]
    BY CallNow
  <1>1. host' \in [Callers -> Hosts] /\ HostsOK'
    BY <1>0, HostsChange
  <1>2. call' = [call EXCEPT ![c] = call[c]]
    BY <1>0
  <1>3. started' \in {"no", "yes", "failed"}
    BY CallNow
  <1> QED BY <1>0, <1>1, <1>2, <1>3, CallNow, OwnStepKeeps

\* The answer that a request gets: a kept one is the last, which was the answer
\* to this request, another one is new.
LEMMA HostRequestGives ==
  ASSUME IInv, NEW c \in Callers, NEW r \in Asks, HostRequest(c, r)
  PROVE  \E h \in Hosts :
           /\ host' = [host EXCEPT ![c] = h] /\ HostStateOK(h)
           /\ h.ask = r /\ h.answer.ask = r
           /\ h.answer = host[c].answer <=> host[c].told = "small" /\ host[c].ask = r
  <1>0. host[c] \in Hosts /\ HostStateOK(host[c]) /\ r # None
    <2>1. host \in [Callers -> Hosts] /\ HostsOK
      BY CallNow
    <2> QED BY <2>1, ChainAssumption DEF HostsOK, HostOK, HostStateOK
  <1>1. PICK told \in {"small", "gone"} :
           host' = [host EXCEPT ![c] =
                 [count |-> host[c].count + (IF Kept(c, r) THEN 0 ELSE 1),
                  pending |-> IF told = "small" THEN r ELSE None,
                  answer |-> IF Kept(c, r) THEN host[c].answer
                             ELSE [ask |-> r, n |-> host[c].count + (IF Kept(c, r) THEN 0 ELSE 1)],
                  ask |-> r, told |-> told]]
    BY DEF HostRequest
  <1>2. /\ host[c].count \in Nat /\ host[c].answer \in Answers /\ host[c].answer.n \in Nat
        /\ host[c].answer.n <= host[c].count
    BY <1>0 DEF Hosts, Answers, HostStateOK
  <1>3. CASE Kept(c, r)
    <2>1. host[c].told = "small" /\ host[c].ask = r /\ host[c].answer.ask = r
      BY <1>0, <1>3 DEF Kept, HostStateOK
    <2> DEFINE h == [count |-> host[c].count, pending |-> IF told = "small" THEN r ELSE None,
                     answer |-> host[c].answer, ask |-> r, told |-> told]
    <2>2. host' = [host EXCEPT ![c] = h]
      <3>1. host[c].count + (IF Kept(c, r) THEN 0 ELSE 1) = host[c].count
        BY <1>2, <1>3
      <3> QED BY <1>1, <1>3, <3>1
    <2>3. h \in Hosts
      BY <1>2 DEF Hosts
    <2>4. HostStateOK(h)
      BY <1>0, <1>2, <2>1 DEF HostStateOK
    <2> QED BY <2>1, <2>2, <2>3, <2>4
  <1>4. CASE ~Kept(c, r)
    <2>1. ~(host[c].told = "small" /\ host[c].ask = r)
      BY <1>0, <1>4 DEF Kept, HostStateOK
    <2> DEFINE a == [ask |-> r, n |-> host[c].count + 1]
               h == [count |-> host[c].count + 1, pending |-> IF told = "small" THEN r ELSE None,
                     answer |-> a, ask |-> r, told |-> told]
    <2>2. host' = [host EXCEPT ![c] = h]
      BY <1>1, <1>2, <1>4
    <2>3. a \in Answers /\ a.ask = r /\ a.n = host[c].count + 1 /\ a # host[c].answer
      BY <1>2 DEF Answers
    <2> HIDE DEF a
    <2>4. h \in Hosts
      BY <1>2, <2>3 DEF Hosts
    <2>5. HostStateOK(h)
      BY <1>0, <1>2, <2>3 DEF HostStateOK
    <2> QED BY <2>1, <2>2, <2>3, <2>4, <2>5
  <1> QED BY <1>3, <1>4

LEMMA HostRequestKeeps ==
  ASSUME IInv, NEW c \in Callers, NEW r \in Asks, HostRequest(c, r)
  PROVE  IInv'
  <1>1. PICK h \in Hosts : host' = [host EXCEPT ![c] = h] /\ HostStateOK(h)
    BY HostRequestGives
  <1>2. UNCHANGED <<enabled, started, call, lock, session>>
    BY DEF HostRequest
  <1> QED BY <1>1, <1>2, HostStepKeeps

LEMMA HostRefusesKeeps ==
  ASSUME IInv, NEW c \in Callers, NEW r \in Asks, HostRefuses(c, r)
  PROVE  IInv' /\ host'[c].told = "refused"
  <1>0. host \in [Callers -> Hosts] /\ host[c] \in Hosts
    BY CallNow
  <1> DEFINE h == [host[c] EXCEPT !.pending = None, !.answer = NoAnswer, !.ask = r, !.told = "refused"]
  <1>1. host' = [host EXCEPT ![c] = h] /\ UNCHANGED <<enabled, started, call, lock, session>>
    BY DEF HostRefuses
  <1>2. h \in Hosts /\ h.told = "refused" /\ HostStateOK(h)
    <2>1. NoAnswer \in Answers /\ NoAnswer.n = 0
      BY DEF NoAnswer, Answers
    <2>2. host[c].count \in Nat
      BY <1>0 DEF Hosts
    <2>3. h \in Hosts /\ h.told = "refused" /\ h.pending = None /\ h.answer = NoAnswer
          /\ h.count = host[c].count
      BY <1>0, <2>1 DEF Hosts
    <2> HIDE DEF h
    <2> QED BY <2>1, <2>2, <2>3 DEF HostStateOK
  <1> HIDE DEF h
  <1> QED BY <1>0, <1>1, <1>2, HostStepKeeps

(***************************************************************************)
(* The specification                                                       *)
(***************************************************************************)

LEMMA InitHolds == ASSUME Init PROVE IInv
  <1>0. /\ enabled = Plugins /\ started = "no" /\ lock = [p \in Plugins |-> None]
        /\ call = [c \in Callers |-> [NewCall("run") EXCEPT !.pc = "idle"]]
        /\ session = [p \in Plugins |-> NoSession] /\ host = [c \in Callers |-> NoHost]
    BY DEF Init
  <1>1. ASSUME NEW c \in Callers
        PROVE  /\ call[c] \in Calls /\ call[c].pc = "idle" /\ call[c].at = 1
               /\ call[c].outcome = "none"
               /\ PayloadFor(call[c].payload, c, call[c].at) /\ LineOK(call[c].got)
               /\ \A p \in Plugins : ~(p < call[c].at)
    <2>1. PICK r : r = [NewCall("run") EXCEPT !.pc = "idle"]
      OBVIOUS
    <2>2. "run" \in Kinds /\ call[c] = r
      BY <1>0, <2>1 DEF Kinds
    <2>3. r.pc = "idle"
      BY <2>1 DEF NewCall
    <2> QED BY <2>1, <2>2, <2>3, NewCallFacts
  <1>2. TypeOK
    <2>1. call \in [Callers -> Calls]
      BY <1>0, <1>1
    <2> QED BY <1>0, <2>1, NoSessionOK, NoHostOK DEF TypeOK
  <1>3. ASSUME NEW c \in Callers PROVE CallOK(c) /\ CoverOK(c)
    BY <1>1 DEF CallOK, CoverOK, Plugin
  <1>4. LockOK
    BY <1>0, <1>1, NoSessionOK DEF LockOK
  <1>5. ASSUME NEW p \in Plugins PROVE Exchange(p)
    BY <1>0, NoSessionOK DEF Exchange, ClosedFirst
  <1>6. Required \subseteq enabled
    BY <1>0, ChainAssumption
  <1>7. \A c \in Callers : HostOK(c)
    BY <1>0, NoHostOK DEF HostOK, HostStateOK
  <1> QED BY <1>2, <1>3, <1>4, <1>5, <1>6, <1>7 DEF IInv

LEMMA NextKeeps == ASSUME IInv, [Next]_vars PROVE IInv'
  <1>1. CASE UNCHANGED vars
    BY <1>1 DEF vars, IInv, TypeOK, CallOK, CoverOK, LockOK, Exchange, Plugin, Id, HostOK
  <1>2. CASE Prepare
    BY <1>2, PrepareKeeps
  <1>3. ASSUME NEW c \in Callers, Begin(c) \/ Expire(c) PROVE IInv'
    BY <1>3, BeginKeeps, ExpireKeeps
  <1>4. ASSUME NEW c \in Callers, CallStep(c) PROVE IInv'
    BY <1>4, SkipKeeps, CompleteKeeps, InvokeKeeps, LockKeeps, LockTimesOutKeeps, WriteKeeps,
       ReceiveKeeps, TimesOutKeeps, WasmKeeps, RejectKeeps, DisallowedKeeps, StopsKeeps,
       ContinueKeeps DEF CallStep
  <1>5. ASSUME NEW c \in Callers, NEW r \in Asks, HostRequest(c, r) \/ HostRefuses(c, r)
        PROVE  IInv'
    BY <1>5, HostRequestKeeps, HostRefusesKeeps
  <1>6. ASSUME NEW p \in Command, ProcessAnswers(p) \/ ProcessPrints(p) \/ ProcessDies(p)
        PROVE  IInv'
    <2>1. p \in Plugins
      BY ChainAssumption
    <2> QED BY <1>6, <2>1, AnswersKeeps, PrintsKeeps, DiesKeeps
  <1>7. CASE Idle
    BY <1>1, <1>7 DEF Idle
  <1> QED BY <1>1, <1>2, <1>3, <1>4, <1>5, <1>6, <1>7 DEF Next

(* The inductive invariant holds for every chain of plugins and any set of *)
(* threads that share its processes.                                       *)
THEOREM Invariance == Spec => []IInv
  <1>1. Init => IInv
    BY InitHolds
  <1>2. IInv /\ [Next]_vars => IInv'
    BY NextKeeps
  <1> QED BY <1>1, <1>2, PTL DEF Spec

(* The state of the chain keeps its types.                                 *)
THEOREM TypeCorrect == Spec => []TypeOK
  <1>1. IInv => TypeOK
    BY DEF IInv
  <1> QED BY <1>1, Invariance, PTL

(* What became of a payload is the work of plugins on this very payload,   *)
(* in the order of the chain, whatever lines the shared processes print,   *)
(* repeat, delay or leave unsaid.                                          *)
THEOREM AnswersAreOwn == Spec => []OwnAnswers
  <1>1. IInv => OwnAnswers
    BY DEF IInv, CallOK, PayloadFor, OwnAnswers
  <1> QED BY <1>1, Invariance, PTL

LEMMA CoverageFromInv == ASSUME IInv PROVE CoverageTold
  <1> SUFFICES ASSUME NEW c \in Callers, call[c].outcome = "ok"
               PROVE  /\ Required \subseteq call[c].ran
                      /\ ~call[c].partial => enabled \subseteq call[c].ran
    BY DEF CoverageTold
  <1>1. call[c].kind # "prewarm" /\ call[c].at = Chain + 1
    BY CallNow
  <1>2. \A p \in Plugins : p < call[c].at
    BY <1>1, ChainBounds
  <1>3. \A p \in Plugins : p \notin call[c].ran => p \notin Required /\ (p \in enabled => call[c].partial)
    BY <1>1, <1>2, CallNow
  <1> QED BY <1>3, CallNow, ChainAssumption

(* A chain that ends well ran its required plugins, and if it does not     *)
(* report partial coverage all the plugins that were prepared.             *)
THEOREM CoverageIsTold == Spec => []CoverageTold
  <1>1. IInv => CoverageTold
    BY CoverageFromInv
  <1> QED BY <1>1, Invariance, PTL

LEMMA AlignedFromInv == ASSUME IInv PROVE Aligned
  <1> SUFFICES ASSUME NEW c \in Callers, call[c].pc = "await", session[Plugin(c)].extra = 0,
                      session[Plugin(c)].outbox # <<>>,
                      Head(session[Plugin(c)].outbox).action # "closed"
               PROVE  Head(session[Plugin(c)].outbox).id = Id(c)
    BY DEF Aligned, At
  <1>1. lock[Plugin(c)] = c /\ c # None /\ Plugin(c) \in Plugins
    BY ChainAssumption DEF IInv, LockOK, CallOK
  <1>2. Exchange(Plugin(c))
    BY <1>1 DEF IInv
  <1> QED BY <1>1, <1>2 DEF Exchange, ClosedFirst

(* A process that prints one line per request is never read out of step:   *)
(* the next line for the caller that waits answers its own request.        *)
THEOREM ProcessesStayAligned == Spec => []Aligned
  <1>1. IInv => Aligned
    BY AlignedFromInv
  <1> QED BY <1>1, Invariance, PTL

\* A caller's host state changes in its own host requests and when it returns.
LEMMA HostSteps ==
  ASSUME IInv, [Next]_vars, NEW c \in Callers, host'[c] # host[c]
  PROVE  \/ host'[c] = NoHost
         \/ \E r \in Asks : HostRequest(c, r) \/ HostRefuses(c, r)
  <1>0. host \in [Callers -> Hosts]
    BY CallNow
  <1>1. CASE \E d \in Callers : CallStep(d) \/ Begin(d) \/ Expire(d)
    <2>1. PICK d \in Callers : CallStep(d) \/ Begin(d) \/ Expire(d)
      BY <1>1
    <2>2. host' = host \/ host' = [host EXCEPT ![d] = NoHost]
      BY <2>1 DEF CallStep, Begin, Expire, Skip, Complete, Invoke, Lock, LockTimesOut, Write,
                  Receive, ReceiveTimesOut, WasmReturns, Reject, Disallowed, Stops, Continue
    <2> QED BY <1>0, <2>2
  <1>2. CASE \E d \in Callers : \E r \in Asks : HostRequest(d, r) \/ HostRefuses(d, r)
    <2>1. PICK d \in Callers, r \in Asks : HostRequest(d, r) \/ HostRefuses(d, r)
      BY <1>2
    <2>2. \E h : host' = [host EXCEPT ![d] = h]
      BY <2>1 DEF HostRequest, HostRefuses
    <2>3. d = c
      BY <1>0, <2>2
    <2> QED BY <2>1, <2>3
  <1>3. CASE UNCHANGED vars \/ Prepare \/ Idle
            \/ \E p \in Command : ProcessAnswers(p) \/ ProcessPrints(p) \/ ProcessDies(p)
    BY <1>3 DEF vars, Prepare, Idle, ProcessAnswers, ProcessPrints, ProcessDies
  <1> QED BY <1>1, <1>2, <1>3 DEF Next

(* A guest that repeats a request whose answer did not fit gets the one    *)
(* answer that was kept, and any other request a new one, for any number   *)
(* of requests, retries and threads.                                       *)
THEOREM HostRequestsOnce == Spec => HostOnce
  <1>1. ASSUME IInv, [Next]_vars, NEW c \in Callers,
               host'[c] # host[c], host'[c].told \in {"small", "gone"}
        PROVE  /\ host'[c].answer.ask = host'[c].ask
               /\ host'[c].answer = host[c].answer
                     <=> host[c].told = "small" /\ host[c].ask = host'[c].ask
    <2>1. NoHost.told = "none"
      BY DEF NoHost
    <2>2. PICK r \in Asks : HostRequest(c, r)
      BY <1>1, <2>1, HostSteps, HostRefusesKeeps
    <2>3. host \in [Callers -> Hosts]
      BY <1>1, CallNow
    <2> QED BY <1>1, <2>2, <2>3, HostRequestGives
  <1>2. IInv /\ [Next]_vars =>
          [\A c \in Callers : LET h == host[c]
                                 g == host'[c]
           IN  g # h /\ g.told \in {"small", "gone"} =>
                 /\ g.answer.ask = g.ask
                 /\ g.answer = h.answer <=> h.told = "small" /\ h.ask = g.ask]_vars
    BY <1>1
  <1> QED BY <1>2, Invariance, PTL DEF Spec, HostOnce
=============================================================================
