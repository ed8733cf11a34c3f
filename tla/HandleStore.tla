----------------------------- MODULE HandleStore -----------------------------
(***************************************************************************)
(* The recovery path of Pentect: how a masked value becomes a handle, how  *)
(* the handle's mapping reaches the loopback memory store, and when the    *)
(* masked text leaves the process.                                         *)
(*                                                                         *)
(* A process opens a Session (a one-time SNAPSHOT of the store, or a       *)
(* private in-memory one), masks documents with an OutputMasker, and       *)
(* publishes every new mapping with an ADD request before, or, for a live  *)
(* stream, after the masked text is emitted.  The request is retried once  *)
(* on any error; an attempt the client gave up on may still be applied     *)
(* later.  Processes crash, and the store exits with its lease holder.     *)
(*                                                                         *)
(* `exec --live` masks stdout and stderr in a thread each: the two share   *)
(* the session and its one connection to the store, whose lock is let go   *)
(* between a failed attempt and the dropping of the connection.            *)
(*                                                                         *)
(* A recovery map is a total function from handles to values or NoValue.   *)
(***************************************************************************)
EXTENDS Naturals, Sequences

CONSTANTS
    Processes,   \* processes that hold a Session
    Detached,    \* processes whose environment may name no trusted store
    Clients,     \* their threads that mask text
    ProcessOf,   \* the process of each thread
    ModesOf,     \* what a thread is used for: the command its process runs
    Values,      \* secret values the detectors find
    Docs,        \* documents: sequences of the distinct values found in them
    Handles,     \* rendered placeholders
    NoValue,     \* "this handle is not in the map"
    CompactOf,   \* the 16-hex-digit handle of a value (may collide)
    FullOf,      \* the 64-hex-digit handle of a value (taken as collision free)
    Remaskable,  \* values is_remaskable_echo accepts
    FileIndex,   \* what recover_text rebuilds from unchanged registered files
    MaxOps       \* bound: mask and resolve operations in a behaviour

\* A process masks with one thread, or with two (run_live_command).
ASSUME ThreadsAssumption ==
    /\ ProcessOf \in [Clients -> Processes]
    /\ \A b, c, d \in Clients :
          ProcessOf[b] = ProcessOf[c] /\ ProcessOf[c] = ProcessOf[d] => b = c \/ c = d \/ b = d
ASSUME ValuesAssumption == NoValue \notin Values /\ Remaskable \subseteq Values
ASSUME DocsAssumption ==
    \A d \in Docs : /\ d \in Seq(Values)
                    /\ \A i, j \in DOMAIN d : d[i] = d[j] => i = j
ASSUME CompactAssumption == CompactOf \in [Values -> Handles]
ASSUME FullAssumption ==
    /\ FullOf \in [Values -> Handles]
    /\ \A v, w \in Values : FullOf[v] = FullOf[w] => v = w
    /\ \A v, w \in Values : FullOf[v] # CompactOf[w]
ASSUME FileIndexAssumption ==
    /\ FileIndex \in [Handles -> Values \cup {NoValue}]
    /\ \A h \in Handles : FileIndex[h] # NoValue => h = CompactOf[FileIndex[h]]
ASSUME MaxOpsAssumption == MaxOps \in Nat

VARIABLES
    storeUp,     \* the memory store process is running
    store,       \* MemoryStoreState.recovery
    stale,       \* ADD payloads the client gave up on, still on their way
    session,     \* of each process: none yet, store-backed, private, or the process has ended
    recoveries,  \* Session.recoveries of each process: a sequence of recovery maps
    masker,      \* OutputMasker of each thread, or "none"
    snapshot,    \* remask_recoveries of a deferred masker
    pending,     \* OutputMasker.pending
    held,        \* a hook's masked output, not yet returned to the client
    stream,      \* the thread's live stream: not begun, running, or what its join returns
    phase,       \* the ADD request in progress
    attempt,     \* its attempt number, from 0
    delta,       \* the recovery map being added
    after,       \* pairs emitted when the request succeeds
    ops,
    released,    \* ghost: <<handle, value it stands for>> of all emitted text
    promised,    \* ghost: handles of store-backed text whose operation reported success
    printed,     \* ghost: handles the thread's store-backed live stream has printed
    mixed        \* ghost: streams that took the answer to the other stream's request

mapVars    == <<store, stale, recoveries>>
maskerVars == <<masker, snapshot, pending, held, stream>>
jobVars    == <<phase, attempt, delta, after>>
ghostVars  == <<released, promised, printed, mixed>>
vars == <<storeUp, session, mapVars, maskerVars, jobVars, ops, ghostVars>>

Recovery == [Handles -> Values \cup {NoValue}]
Pairs    == Handles \X Values
Modes    == {"shared", "hook", "live", "read"}

ASSUME ModesAssumption == ModesOf \in [Clients -> SUBSET Modes]

----------------------------------------------------------------------------
(* Recovery maps                                                           *)

\* Recovery::empty_for_key
Empty == [h \in Handles |-> NoValue]

\* Recovery::extend_same_key: later entries overwrite earlier ones.
Extend(old, new) == [h \in Handles |-> IF new[h] # NoValue THEN new[h] ELSE old[h]]

\* MemoryStore::resolve_all over the session's maps: the first map that knows
\* the handle replaces it, and a raw value is no longer a handle.
Resolves(recs, h, v) ==
    \E i \in DOMAIN recs : /\ recs[i][h] = v
                           /\ \A j \in DOMAIN recs : j < i => recs[j][h] = NoValue
Unresolved(recs, h) == \A i \in DOMAIN recs : recs[i][h] = NoValue

----------------------------------------------------------------------------
(* Rendering one document                                                  *)

\* Values the remask pass replaces before the engine runs.
RemaskHandles(recs, v) == {h \in Handles : \E i \in DOMAIN recs : recs[i][h] = v}
Known(recs, v) == v \in Remaskable /\ RemaskHandles(recs, v) # {}

\* masked_seg: the compact handle, unless another value of THIS render took it.
EngineHandle(recs, d, i) ==
    IF \E j \in DOMAIN d : /\ j < i /\ ~Known(recs, d[j])
                           /\ CompactOf[d[j]] = CompactOf[d[i]]
    THEN FullOf[d[i]] ELSE CompactOf[d[i]]

Renderings(recs, d) ==
    {out \in [DOMAIN d -> Handles] :
        \A i \in DOMAIN d : IF Known(recs, d[i])
                            THEN out[i] \in RemaskHandles(recs, d[i])
                            ELSE out[i] = EngineHandle(recs, d, i)}

\* Mutant: every handle of a render is recorded with the render's first value.
NewMappingsFirstValue(recs, d, out) ==
    [h \in Handles |->
        IF \E i \in DOMAIN d : ~Known(recs, d[i]) /\ out[i] = h THEN d[1] ELSE NoValue]

\* The mappings the render recorded (at most one value per handle, which
\* masked_seg asserts); remasked handles are protected text and add none.
NewMappings(recs, d, out) ==
    [h \in Handles |->
        LET at == {i \in DOMAIN d : ~Known(recs, d[i]) /\ out[i] = h}
        IN  IF at = {} THEN NoValue ELSE d[CHOOSE i \in at : TRUE]]

EmittedPairs(d, out)  == {<<out[i], d[i]>> : i \in DOMAIN d}
EmittedHandles(pairs) == {p[1] : p \in pairs}

----------------------------------------------------------------------------
(* Processes and their threads                                             *)

Threads(p)  == {c \in Clients : ProcessOf[c] = p}
Siblings(c) == Threads(ProcessOf[c]) \ {c}

Session(c)    == session[ProcessOf[c]]
Recoveries(c) == recoveries[ProcessOf[c]]

Init ==
    /\ storeUp = TRUE
    /\ store = Empty
    /\ stale = {}
    /\ session = [p \in Processes |-> "none"]
    /\ recoveries = [p \in Processes |-> <<>>]
    /\ masker = [c \in Clients |-> "none"]
    /\ snapshot = [c \in Clients |-> <<>>]
    /\ pending = [c \in Clients |-> Empty]
    /\ held = [c \in Clients |-> {}]
    /\ stream = [c \in Clients |-> "none"]
    /\ phase = [c \in Clients |-> "idle"]
    /\ attempt = [c \in Clients |-> 0]
    /\ delta = [c \in Clients |-> Empty]
    /\ after = [c \in Clients |-> {}]
    /\ ops = 0
    /\ released = {}
    /\ promised = {}
    /\ printed = [c \in Clients |-> {}]
    /\ mixed = {}

\* Session::open_active with a live store: one snapshot, never refreshed.
OpenStore(p) ==
    /\ session[p] = "none"
    /\ storeUp
    /\ session' = [session EXCEPT ![p] = "store"]
    /\ recoveries' = [recoveries EXCEPT ![p] = IF store = Empty THEN <<>> ELSE <<store>>]
    /\ UNCHANGED <<storeUp, store, stale, maskerVars, jobVars, ops, ghostVars>>

\* Session::in_memory, when the environment names no trusted store.
OpenLocal(p) ==
    /\ p \in Detached
    /\ session[p] = "none"
    /\ session' = [session EXCEPT ![p] = "local"]
    /\ UNCHANGED <<storeUp, mapVars, maskerVars, jobVars, ops, ghostVars>>

\* A thread that does nothing yet; a process that has begun to stream does
\* nothing else before it exits.
Resting(d) == masker[d] = "none" /\ phase[d] = "idle" /\ stream[d] = "none"

\* OutputMasker::new_shared, new_deferred (for a hook or a stream of exec --live)
\* and the `pentect read` path, which goes to the store with no session of its own.
NewMasker(c, mode) ==
    /\ Session(c) \in {"store", "local"}
    /\ Resting(c)
    /\ \A d \in Siblings(c) : Resting(d) \/ (mode = "live" /\ stream[d] # "none")
    /\ mode = "read" => Session(c) = "store"
    /\ masker' = [masker EXCEPT ![c] = mode]
    /\ snapshot' = [snapshot EXCEPT ![c] = IF mode \in {"hook", "live"}
                                           THEN Recoveries(c) ELSE <<>>]
    /\ stream' = [stream EXCEPT ![c] = IF mode = "live" THEN "running" ELSE "none"]
    /\ UNCHANGED <<storeUp, session, mapVars, pending, held, jobVars, ops, ghostVars>>

\* Text leaves the process: a store-backed, non-streaming emission promises
\* that the handles can be resolved by the other processes.
Emit(c, pairs) ==
    /\ released' = released \cup pairs
    /\ promised' = IF Session(c) = "store" /\ masker[c] # "live"
                   THEN promised \cup EmittedHandles(pairs) ELSE promised
    /\ printed' = IF Session(c) = "store" /\ masker[c] = "live"
                  THEN [printed EXCEPT ![c] = @ \cup EmittedHandles(pairs)] ELSE printed
    /\ UNCHANGED mixed

\* The operation of a store-backed thread reports success: the text held back for
\* it leaves, and its handles and those a live stream has printed are promised.
Report(c, pairs) ==
    /\ released' = released \cup pairs
    /\ promised' = IF Session(c) = "store"
                   THEN promised \cup EmittedHandles(pairs)
                          \cup (IF masker[c] = "live" THEN printed[c] ELSE {})
                   ELSE promised

\* MemoryStore::add_recovery entered with a non-empty map by a store-backed
\* session: the remote ADD comes first.
StartAdd(c, map, pairs) ==
    /\ phase' = [phase EXCEPT ![c] = "ready"]
    /\ attempt' = [attempt EXCEPT ![c] = 0]
    /\ delta' = [delta EXCEPT ![c] = map]
    /\ after' = [after EXCEPT ![c] = pairs]

\* The map joins Session.recoveries (a `read` has no session to update).
PushLocal(c, map) ==
    recoveries' = IF masker[c] = "read" THEN recoveries
                  ELSE [recoveries EXCEPT ![ProcessOf[c]] = Append(@, map)]

RemaskBase(c) == CASE masker[c] = "shared" -> Recoveries(c)
                   [] masker[c] = "read"   -> <<>>
                   [] OTHER                -> snapshot[c]

\* mask_text with a shared masker: record_recovery before the text is returned.
MaskShared(c, d) ==
    /\ masker[c] \in {"shared", "read"}
    /\ phase[c] = "idle"
    /\ ops < MaxOps
    /\ ops' = ops + 1
    /\ \E out \in Renderings(RemaskBase(c), d) :
         LET map == NewMappings(RemaskBase(c), d, out)
             pairs == EmittedPairs(d, out)
         IN  \/ /\ map = Empty
                /\ Emit(c, pairs)
                /\ UNCHANGED <<recoveries, jobVars>>
             \/ /\ map # Empty
                /\ Session(c) = "local"
                /\ PushLocal(c, map)
                /\ Emit(c, pairs)
                /\ UNCHANGED jobVars
             \/ /\ map # Empty
                /\ Session(c) = "store"
                /\ StartAdd(c, map, pairs)
                /\ UNCHANGED <<recoveries, ghostVars>>
    /\ UNCHANGED <<storeUp, store, stale, session, maskerVars>>

\* mask_text with a deferred masker: the mapping waits in `pending`.  A hook
\* holds its output back until flush; a live stream prints the chunk now.
MaskDeferred(c, d) ==
    /\ masker[c] \in {"hook", "live"}
    /\ phase[c] = "idle"
    /\ ops < MaxOps
    /\ ops' = ops + 1
    /\ \E out \in Renderings(RemaskBase(c), d) :
         LET pairs == EmittedPairs(d, out)
         IN  /\ pending' = [pending EXCEPT
                    ![c] = Extend(@, NewMappings(RemaskBase(c), d, out))]
             /\ \/ /\ masker[c] = "hook"
                   /\ held' = [held EXCEPT ![c] = @ \cup pairs]
                   /\ UNCHANGED ghostVars
                \/ /\ masker[c] = "live"
                   /\ Emit(c, pairs)
                   /\ UNCHANGED held
    /\ UNCHANGED <<storeUp, mapVars, session, masker, snapshot, stream, jobVars>>

\* The masker is dropped; the process goes on.  A live stream ends with `result`.
DropMasker(c, result) ==
    /\ masker' = [masker EXCEPT ![c] = "none"]
    /\ snapshot' = [snapshot EXCEPT ![c] = <<>>]
    /\ pending' = [pending EXCEPT ![c] = Empty]
    /\ held' = [held EXCEPT ![c] = {}]
    /\ stream' = [stream EXCEPT ![c] = IF @ = "running" THEN result ELSE @]

\* OutputMasker::flush takes `pending` out of the masker before it is added.
Flush(c) ==
    /\ masker[c] \in {"hook", "live"}
    /\ phase[c] = "idle"
    /\ \/ /\ pending[c] # Empty
          /\ Session(c) = "store"
          /\ StartAdd(c, pending[c], held[c])
          /\ pending' = [pending EXCEPT ![c] = Empty]
          /\ UNCHANGED <<recoveries, masker, snapshot, held, stream, ghostVars>>
       \/ /\ pending[c] = Empty \/ Session(c) = "local"
          /\ IF pending[c] = Empty THEN UNCHANGED recoveries ELSE PushLocal(c, pending[c])
          /\ Report(c, held[c])
          /\ DropMasker(c, "ok")
          /\ UNCHANGED <<jobVars, printed, mixed>>
    /\ UNCHANGED <<storeUp, store, stale, session, ops>>

\* Mutant: a failing read is taken for the end of the output.
FailDeferredSilently(c) ==
    /\ masker[c] \in {"hook", "live"}
    /\ phase[c] = "idle"
    /\ DropMasker(c, "ok")
    /\ UNCHANGED <<storeUp, session, mapVars, jobVars, ops, ghostVars>>

\* A read, a mask call or the output itself fails: `?` returns before flush, and
\* the pending mappings go, those of chunks already printed too.
FailDeferred(c) ==
    /\ masker[c] \in {"hook", "live"}
    /\ phase[c] = "idle"
    /\ DropMasker(c, "error")
    /\ UNCHANGED <<storeUp, session, mapVars, jobVars, ops, ghostVars>>

\* A shared masker needs no flush.
CloseMasker(c) ==
    /\ masker[c] \in {"shared", "read"}
    /\ phase[c] = "idle"
    /\ DropMasker(c, "ok")
    /\ UNCHANGED <<storeUp, session, mapVars, jobVars, ops, ghostVars>>

\* MemoryStore::resolve_all meeting a handle no local map knows: recover_text
\* rebuilds it from a registered file and the result is added like any other.
ResolveFromFile(c, h) ==
    /\ \A d \in Threads(ProcessOf[c]) : Resting(d)
    /\ Session(c) \in {"store", "local"}
    /\ ops < MaxOps
    /\ Unresolved(Recoveries(c), h)
    /\ FileIndex[h] # NoValue
    /\ ops' = ops + 1
    /\ LET map == [Empty EXCEPT ![h] = FileIndex[h]]
       IN  \/ /\ Session(c) = "local"
              /\ PushLocal(c, map)
              /\ UNCHANGED jobVars
           \/ /\ Session(c) = "store"
              /\ StartAdd(c, map, {})
              /\ UNCHANGED recoveries
    /\ UNCHANGED <<storeUp, store, stale, session, maskerVars, ghostVars>>

----------------------------------------------------------------------------
(* MemoryStoreClient::request against add_recovery_request                 *)

\* One connection per session: its lock is held for the length of an attempt.
LockFree(c) == \A d \in Siblings(c) : phase[d] \notin {"sent", "replied"}

\* The connection's earlier request, if the other thread gave up on one, is served.
Drained(c) == \A d \in Siblings(c) : phase[d] = "late" => delta[d] \notin stale

SendAdd(c) ==
    /\ phase[c] = "ready"
    /\ storeUp
    /\ LockFree(c)
    /\ phase' = [phase EXCEPT ![c] = "sent"]
    /\ UNCHANGED <<storeUp, session, mapVars, maskerVars, attempt, delta, after, ops, ghostVars>>

\* The server thread merges the payload under the state lock and answers.
ServerAdd(c) ==
    /\ phase[c] = "sent"
    /\ storeUp
    /\ Drained(c)
    /\ store' = Extend(store, delta[c])
    /\ phase' = [phase EXCEPT ![c] = "replied"]
    /\ UNCHANGED <<storeUp, stale, session, recoveries, maskerVars, attempt, delta, after,
                   ops, ghostVars>>

\* A payload of an abandoned attempt is applied after all.
ServerAddLate(map) ==
    /\ storeUp
    /\ map \in stale
    /\ store' = Extend(store, map)
    /\ stale' = stale \ {map}
    /\ UNCHANGED <<storeUp, session, recoveries, maskerVars, jobVars, ops, ghostVars>>

\* The job ends, well or badly.  A deferred masker does not outlive its flush.
EndJob(c, result) ==
    /\ phase' = [phase EXCEPT ![c] = "idle"]
    /\ attempt' = [attempt EXCEPT ![c] = 0]
    /\ delta' = [delta EXCEPT ![c] = Empty]
    /\ after' = [after EXCEPT ![c] = {}]
    /\ IF masker[c] \in {"hook", "live"} THEN DropMasker(c, result) ELSE UNCHANGED maskerVars

\* Mutant: the client takes the request for done before the answer arrived.
AddSucceedsEarly(c) ==
    /\ phase[c] \in {"sent", "replied"}
    /\ PushLocal(c, delta[c])
    /\ Report(c, after[c])
    /\ EndJob(c, "ok")
    /\ UNCHANGED <<storeUp, store, stale, session, ops, printed, mixed>>

\* OK received: push the map locally, then let the masked text out.
AddSucceeds(c) ==
    /\ phase[c] = "replied"
    /\ PushLocal(c, delta[c])
    /\ Report(c, after[c])
    /\ EndJob(c, "ok")
    /\ UNCHANGED <<storeUp, store, stale, session, ops, printed, mixed>>

\* What becomes of a payload whose answer is not awaited: once sent it may be
\* applied at any time.
Abandoned(c) == IF phase[c] = "sent" /\ storeUp THEN stale \cup {delta[c]} ELSE stale

\* The 5 s timeout of a thread that shares its connection: `request_once` has let
\* the lock go, `request` has not dropped the connection yet.
TimesOut(c) ==
    /\ phase[c] \in {"sent", "replied"}
    /\ Siblings(c) # {}
    /\ stale' = Abandoned(c)
    /\ phase' = [phase EXCEPT ![c] = "late"]
    /\ UNCHANGED <<storeUp, store, session, recoveries, maskerVars, attempt, delta, after, ops,
                   ghostVars>>

\* In that window the other thread sends its request on the same connection, and
\* the first line it reads is the late answer.  Its own request is applied later,
\* or lost with the connection.
TakesLateAnswer(c) ==
    /\ phase[c] = "sent"
    /\ storeUp
    /\ \E d \in Siblings(c) : phase[d] = "late"
    /\ Drained(c)
    /\ stale' \in {stale, Abandoned(c)}
    /\ PushLocal(c, delta[c])
    /\ released' = released \cup after[c]
    /\ mixed' = mixed \cup {c}
    /\ EndJob(c, "ok")
    /\ UNCHANGED <<storeUp, store, session, ops, promised, printed>>

\* Mutants: the retry does not count its attempts; the second error is ignored
\* and the masked text let out.
AttemptFailsForever(c) ==
    /\ phase[c] \in {"ready", "sent", "replied"}
    /\ phase' = [phase EXCEPT ![c] = "ready"]
    /\ UNCHANGED <<storeUp, store, stale, session, recoveries, maskerVars, attempt, delta, after,
                   ops, ghostVars>>
AttemptFailsEmits(c) ==
    /\ phase[c] \in {"ready", "sent", "replied"}
    /\ Report(c, after[c])
    /\ EndJob(c, "ok")
    /\ UNCHANGED <<storeUp, store, stale, session, recoveries, ops, printed, mixed>>

\* Any error (refused connection, dead store, 5 s timeout, lost answer) drops the
\* connection and tries once more; the second error is returned to the caller,
\* which emits nothing more.
AttemptFails(c) ==
    /\ phase[c] # "idle"
    /\ LockFree(c)
    /\ stale' = Abandoned(c)
    /\ \/ /\ attempt[c] = 0
          /\ attempt' = [attempt EXCEPT ![c] = 1]
          /\ phase' = [phase EXCEPT ![c] = "ready"]
          /\ UNCHANGED <<delta, after, maskerVars>>
       \/ /\ attempt[c] = 1
          /\ EndJob(c, "error")
    /\ UNCHANGED <<storeUp, store, session, recoveries, ops, ghostVars>>

----------------------------------------------------------------------------
\* The process ends or dies, with all its threads: the session, the pending
\* mappings and the requests go, and a stream still running has failed.
Crash(p) ==
    LET Of(new, old) == [c \in Clients |-> IF ProcessOf[c] = p THEN new ELSE old[c]]
    IN  /\ session[p] \in {"store", "local"}
        /\ session' = [session EXCEPT ![p] = "ended"]
        /\ recoveries' = [recoveries EXCEPT ![p] = <<>>]
        /\ stale' = stale \cup {delta[c] : c \in {d \in Threads(p) : phase[d] = "sent" /\ storeUp}}
        /\ masker' = Of("none", masker)
        /\ snapshot' = Of(<<>>, snapshot)
        /\ pending' = Of(Empty, pending)
        /\ held' = Of({}, held)
        /\ stream' = [c \in Clients |-> IF ProcessOf[c] = p /\ stream[c] = "running"
                                         THEN "error" ELSE stream[c]]
        /\ phase' = Of("idle", phase)
        /\ attempt' = Of(0, attempt)
        /\ delta' = Of(Empty, delta)
        /\ after' = Of({}, after)
        /\ UNCHANGED <<storeUp, store, ops, ghostVars>>

\* A leased connection closes and the store process exits with its maps.
StoreExit ==
    /\ storeUp
    /\ storeUp' = FALSE
    /\ store' = Empty
    /\ stale' = {}
    /\ UNCHANGED <<session, recoveries, maskerVars, jobVars, ops, ghostVars>>

ProcessStep(p) == OpenStore(p) \/ OpenLocal(p) \/ Crash(p)

ClientStep(c) ==
    \/ \E mode \in ModesOf[c] : NewMasker(c, mode)
    \/ \E d \in Docs : MaskShared(c, d) \/ MaskDeferred(c, d)
    \/ Flush(c)
    \/ FailDeferred(c)
    \/ CloseMasker(c)
    \/ \E h \in Handles : ResolveFromFile(c, h)

RequestStep(c) ==
    \/ SendAdd(c)
    \/ ServerAdd(c)
    \/ AddSucceeds(c)
    \/ TimesOut(c)
    \/ TakesLateAnswer(c)
    \/ AttemptFails(c)

Next ==
    \/ \E p \in Processes : ProcessStep(p)
    \/ \E c \in Clients : ClientStep(c) \/ RequestStep(c)
    \/ \E map \in stale : ServerAddLate(map)
    \/ StoreExit

\* The socket timeouts bound every attempt, so a request in progress moves on.
Spec == Init /\ [][Next]_vars /\ \A c \in Clients : WF_vars(RequestStep(c))

----------------------------------------------------------------------------
TypeOK ==
    /\ storeUp \in BOOLEAN
    /\ store \in Recovery
    /\ stale \subseteq Recovery
    /\ session \in [Processes -> {"none", "store", "local", "ended"}]
    /\ recoveries \in [Processes -> Seq(Recovery)]
    /\ masker \in [Clients -> Modes \cup {"none"}]
    /\ snapshot \in [Clients -> Seq(Recovery)]
    /\ pending \in [Clients -> Recovery]
    /\ held \in [Clients -> SUBSET Pairs]
    /\ stream \in [Clients -> {"none", "running", "ok", "error"}]
    /\ phase \in [Clients -> {"idle", "ready", "sent", "replied", "late"}]
    /\ attempt \in [Clients -> 0..1]
    /\ delta \in [Clients -> Recovery]
    /\ after \in [Clients -> SUBSET Pairs]
    /\ ops \in Nat
    /\ released \subseteq Pairs
    /\ promised \subseteq Handles
    /\ printed \in [Clients -> SUBSET Handles]
    /\ mixed \subseteq Clients

\* A handle is printed only for a value whose own hash it carries.
GenuinePair(h, v) == h = CompactOf[v] \/ h = FullOf[v]

\* The values v and w share the compact handle h.
Collide(h, v, w) == CompactOf[v] = h /\ CompactOf[w] = h

\* Exact recovery (handles.md, "keeps the first compact handle and gives the other
\* value a 64-character full-width ID. This preserves exact recovery instead of
\* publishing an ambiguous mapping"): a handle that was ever emitted for a value
\* resolves, in the store and in every session, to that value or to nothing.
ExactRecovery ==
    \A p \in released :
        /\ store[p[1]] \in {NoValue, p[2]}
        /\ \A q \in Processes, v \in Values : Resolves(recoveries[q], p[1], v) => v = p[2]

\* What the code keeps of it: masked_seg resolves a collision inside one render
\* only, and extend_same_key overwrites across renders, so what an emitted handle
\* resolves to, in the store or in a session, is the value it was emitted for, or
\* one that shares its compact handle.  A full-width handle is never confused.
ExactButForCollision ==
    \A p \in released, w \in Values :
        store[p[1]] = w \/ (\E q \in Processes : Resolves(recoveries[q], p[1], w)) =>
            w = p[2] \/ Collide(p[1], p[2], w)

\* Publish before success (record_recovery before `Ok(masked)`, flush before the
\* hook or the stream returns): while the store lives, every handle of text whose
\* store-backed operation reported success can be resolved by all the others.  The
\* exception is a stream that took the answer to the other's request: its success
\* promises nothing (see TakesLateAnswer).
PromisedInStore == storeUp => \A h \in promised : store[h] # NoValue

\* add_recovery syncs before it pushes: a store-backed session never knows a
\* handle the store does not, even when a request timed out, was retried or was
\* applied late.  The exception is a process one of whose two streams took the
\* answer to the other's request (see TakesLateAnswer).
SessionInStore ==
    storeUp => \A p \in Processes : session[p] = "store" /\ mixed \cap Threads(p) = {} =>
        \A i \in DOMAIN recoveries[p] : \A h \in Handles :
            recoveries[p][i][h] # NoValue => store[h] # NoValue

\* exec --live prints before it publishes.  Every handle a store-backed stream has
\* printed is in the store; or the stream is still running and has the mapping in
\* `pending` or in the request that carries it; or its thread returns an error, so
\* the command does not end in success over handles nobody can resolve.  The
\* exception is the stream that took the answer to the other's request.
LiveCovered ==
    storeUp => \A c \in Clients \ mixed : \A h \in printed[c] :
        \/ store[h] # NoValue
        \/ stream[c] = "running" /\ (pending[c][h] # NoValue \/ delta[c][h] # NoValue)
        \/ stream[c] = "error"

\* The running store never forgets a handle, and rebinds one only among the values
\* that share it as their compact handle: retries and late duplicates of an ADD,
\* and ADDs of colliding values, do nothing else.
StoreStable ==
    [][storeUp' => \A h \in Handles : store[h] # NoValue =>
          /\ store'[h] # NoValue
          /\ store'[h] = store[h] \/ Collide(h, store[h], store'[h])]_vars

\* The pairs that were handed out as recoverable.
Told == {p \in released : p[1] \in promised}

StandsFor == [h \in Handles |-> {v \in Values : GenuinePair(h, v)}]

Directory == INSTANCE HandleDirectory
    WITH up <- storeUp, bound <- store, told <- Told, MayStandFor <- StandsFor

\* Sessions, maskers, requests, retries and crashes together implement the
\* directory: each step of a process or of the store publishes handles, hands out
\* text whose handles are already bound, ends the store, or is invisible.
ImplementsDirectory == Directory!Spec

\* An ADD ends: two attempts, each bounded by the socket timeouts, also for a
\* thread that waits for the other's attempt on the shared connection.
AddTerminates == \A c \in Clients : []<>(phase[c] = "idle")

----------------------------------------------------------------------------
(* The inductive invariant behind the safety properties                    *)

GenuineMap(map) == \A h \in Handles : map[h] # NoValue => GenuinePair(h, map[h])

\* Every mapping, wherever it is kept or carried, and every emitted pair is
\* genuine.
Genuine ==
    /\ GenuineMap(store)
    /\ \A map \in stale : GenuineMap(map)
    /\ \A p \in Processes : \A i \in DOMAIN recoveries[p] : GenuineMap(recoveries[p][i])
    /\ \A c \in Clients :
         /\ \A i \in DOMAIN snapshot[c] : GenuineMap(snapshot[c][i])
         /\ GenuineMap(pending[c])
         /\ GenuineMap(delta[c])
         /\ \A p \in held[c] : GenuinePair(p[1], p[2])
         /\ \A p \in after[c] : GenuinePair(p[1], p[2])
    /\ \A p \in released : GenuinePair(p[1], p[2])

\* What a thread holds when its process has no session, between requests and during one.
QuietThread(c) ==
    /\ phase[c] = "idle" => delta[c] = Empty /\ after[c] = {}
    /\ phase[c] # "idle" => Session(c) = "store" /\ pending[c] = Empty
    /\ masker[c] \notin {"hook", "live"} => held[c] = {} /\ pending[c] = Empty
    /\ masker[c] = "live" => held[c] = {} /\ after[c] = {}
    /\ masker[c] = "live" <=> stream[c] = "running"
    /\ stream[c] = "none" => printed[c] = {}
    /\ printed[c] # {} /\ stream[c] = "running" => Session(c) = "store"
    /\ Session(c) \in {"none", "ended"} => masker[c] = "none" /\ snapshot[c] = <<>>

\* Maskers other than a live stream's run alone in their process, before any
\* stream; the window between a timeout and the dropped connection needs two
\* streams, and once one took the other's answer both have begun.
Alone(c) == stream[c] = "none" /\ \A d \in Siblings(c) : Resting(d)
Apart ==
    \A c \in Clients :
        /\ masker[c] \notin {"none", "live"} => Alone(c)
        /\ masker[c] = "none" /\ phase[c] # "idle" => Alone(c)
        /\ c \in mixed => /\ stream[c] = "ok"
                          /\ \A d \in Siblings(c) : stream[d] # "none"

Quiet ==
    /\ \A c \in Clients : QuietThread(c)
    /\ \A p \in Processes : session[p] \in {"none", "ended"} => recoveries[p] = <<>>

Within(map, big) == \A h \in Handles : map[h] # NoValue => big[h] # NoValue

\* While the store lives, what a store-backed thread knows, is about to emit or has
\* printed is in the store or on its way there.
ClientBacked(c) ==
    /\ \A i \in DOMAIN snapshot[c] : Within(snapshot[c][i], store)
    /\ phase[c] = "replied" => Within(delta[c], store)
    /\ \A p \in held[c] : \/ store[p[1]] # NoValue
                          \/ pending[c][p[1]] # NoValue
                          \/ delta[c][p[1]] # NoValue
    /\ \A p \in after[c] : store[p[1]] # NoValue \/ delta[c][p[1]] # NoValue

PrintedBacked(c) ==
    \A h \in printed[c] :
        \/ store[h] # NoValue
        \/ stream[c] = "running" /\ (pending[c][h] # NoValue \/ delta[c][h] # NoValue)
        \/ stream[c] = "error"
        \/ c \in mixed

\* So is what a store-backed session knows.
SessionBacked(p) ==
    mixed \cap Threads(p) = {} => \A i \in DOMAIN recoveries[p] : Within(recoveries[p][i], store)

Backed ==
    storeUp => /\ \A h \in promised : store[h] # NoValue
               /\ \A p \in Processes : session[p] = "store" => SessionBacked(p)
               /\ \A c \in Clients : Session(c) = "store" => ClientBacked(c)
               /\ \A c \in Clients : PrintedBacked(c)

IInv == TypeOK /\ Genuine /\ Quiet /\ Apart /\ Backed
==============================================================================
