----------------------------- MODULE ToolGateway -----------------------------
(***************************************************************************)
(* One gateway process between a client and a model provider.  Its masking *)
(* thread (ActiveToolOutputMasker, behind a mutex) masks tool outputs and  *)
(* prompts with a cache of what it returned before; its tool-input         *)
(* transactions (ActiveMemoryStoreResolver) run on other threads, restore  *)
(* the handles of one model response and publish what they rebuilt from    *)
(* files only when the whole response is valid.  Both share the session's  *)
(* recoveries and one revision counter.                                    *)
(*                                                                         *)
(* A text is the set of secret values in it; a value the engine finds, or  *)
(* the session knows, is replaced by its handle, any other one stays raw.  *)
(* Values are ones is_remaskable_echo accepts; unmask markers are left out.*)
(***************************************************************************)
EXTENDS Naturals, Sequences, FiniteSets, Functions

CONSTANTS
    Values,        \* secret values
    Texts,         \* tool outputs and prompts
    Contains,      \* the values in a text
    Detected,      \* [Kinds -> values that kind's engine finds by itself]
    FileValues,    \* values a registered, unchanged file can rebuild
    Large,         \* texts above ACTIVE_TOOL_OUTPUT_CACHE_MAX_BYTES
    Initial,       \* values in the store when the session opens
    Transactions,  \* model responses
    CacheLimit,    \* ACTIVE_TOOL_OUTPUT_CACHE_LIMIT
    MaxCalls       \* bound: mask calls in a behaviour

Kinds == {"tool", "prompt"}

ASSUME TextsAssumption == Contains \in [Texts -> SUBSET Values] /\ Large \subseteq Texts
ASSUME ValueSetsAssumption ==
    /\ Detected \in [Kinds -> SUBSET Values]
    /\ FileValues \subseteq Values
    /\ Initial \subseteq Values
ASSUME LimitsAssumption == CacheLimit \in Nat \ {0} /\ MaxCalls \in Nat

VARIABLES
    store,        \* values whose handles the memory store resolves
    known,        \* values in Session.recoveries, what the remask pass replaces
    unreported,   \* masked_count is ahead of reported_masked_count
    cache,        \* [Kinds -> [texts -> [raw, counted]]]
    order,        \* cache_order and prompt_cache_order
    revision,     \* recovery_revision, shared with the transactions
    observed,     \* observed_recovery_revision
    pc, call, raw, new, calls,   \* the mask call in progress
    txState,      \* ToolInputTransactionState, with the steps of a commit
    view,         \* the resolver's immutable recovery
    staged,       \* values rebuilt from files, not yet published
    restored,     \* values put into the response's tool inputs
    answer,       \* ghost: raw values in the text the last call returned
    due, dueRestored,            \* ghost: masked/restored before the call began
    masked, recorded, committed, delivered  \* ghost histories

cacheVars == <<cache, order>>
callVars  == <<pc, call, raw, new>>
txVars    == <<txState, view, staged, restored>>
askVars   == <<answer, due, dueRestored>>
pastVars  == <<masked, recorded, committed, delivered>>
vars == <<store, known, unreported, cacheVars, revision, observed, callVars, calls, txVars,
          askVars, pastVars>>

NoEntries == [t \in {} |-> {}]

Init ==
    /\ store = Initial
    /\ known = Initial
    /\ unreported = FALSE
    /\ cache = [k \in Kinds |-> NoEntries]
    /\ order = [k \in Kinds |-> <<>>]
    /\ revision = 0
    /\ observed = 0
    /\ pc = "idle"
    /\ call = <<>>
    /\ raw = {}
    /\ new = {}
    /\ calls = 0
    /\ txState = [x \in Transactions |-> "none"]
    /\ view = [x \in Transactions |-> {}]
    /\ staged = [x \in Transactions |-> {}]
    /\ restored = [x \in Transactions |-> {}]
    /\ answer = {}
    /\ due = {}
    /\ dueRestored = {}
    /\ masked = {}
    /\ recorded = {}
    /\ committed = {}
    /\ delivered = {}

----------------------------------------------------------------------------
(* The masking thread                                                      *)

\* Mutant: the entries go, their order stays.
ClearEntriesOnly ==
    /\ cache' = [k \in Kinds |-> NoEntries]
    /\ UNCHANGED order

\* cache.clear() and cache_order.clear(), for both caches.
ClearCaches ==
    /\ cache' = [k \in Kinds |-> NoEntries]
    /\ order' = [k \in Kinds |-> <<>>]

\* The call returns to its caller.
Return == pc' = "idle" /\ call' = <<>> /\ raw' = {} /\ new' = {}

\* mask_tool_output / mask_prompt_text up to the cache lookup.
BeginMask(k, t) ==
    /\ pc = "idle"
    /\ calls < MaxCalls
    /\ calls' = calls + 1
    /\ pc' = "lookup"
    /\ call' = <<k, t>>
    /\ UNCHANGED <<raw, new>>
    /\ IF revision # observed THEN ClearCaches ELSE UNCHANGED cacheVars
    /\ observed' = revision
    /\ answer' = {}
    /\ due' = masked \cup committed
    /\ dueRestored' = delivered
    /\ UNCHANGED <<store, known, unreported, revision, txVars, pastVars>>

\* A hit reports the cached count again, which may fail, and returns the text.
CacheHit(k, t) ==
    /\ pc = "lookup"
    /\ call = <<k, t>>
    /\ t \in DOMAIN cache[k]
    /\ Return
    /\ \/ answer' = cache[k][t].raw
       \/ cache[k][t].counted /\ answer' = {}
    /\ UNCHANGED <<store, known, unreported, cacheVars, revision, observed, calls, txVars, due,
                   dueRestored, pastVars>>

\* The remask pass reads the session's recoveries, then the engine runs; its
\* count is added before anything is recorded.
Render(k, t) ==
    /\ pc = "lookup"
    /\ call = <<k, t>>
    /\ t \notin DOMAIN cache[k]
    /\ pc' = "record"
    /\ raw' = Contains[t] \ (known \cup Detected[k])
    /\ new' = (Contains[t] \cap Detected[k]) \ known
    /\ unreported' = (unreported \/ new' # {})
    /\ UNCHANGED <<store, known, cacheVars, revision, observed, call, calls, txVars, askVars,
                   pastVars>>

\* record_recovery: the ADD succeeds, then the session learns the values.
Record ==
    /\ pc = "record"
    /\ pc' = "finish"
    /\ store' = store \cup new
    /\ known' = known \cup new
    /\ recorded' = recorded \cup new
    /\ UNCHANGED <<unreported, cacheVars, revision, observed, call, raw, new, calls, txVars,
                   askVars, masked, committed, delivered>>

\* A plugin or an ADD fails after some scalars of a JSON output were recorded;
\* a failed ADD may still reach the store.  The early return skips the cache.
RecordFails ==
    /\ pc = "record"
    /\ Return
    /\ \E done \in SUBSET new : \E late \in SUBSET (new \ done) :
         /\ store' = store \cup done \cup late
         /\ known' = known \cup done
         /\ recorded' = recorded \cup done
    /\ UNCHANGED <<unreported, cacheVars, revision, observed, calls, txVars, askVars,
                   masked, committed, delivered>>

\* remember_cached_output: the oldest entry makes room (one is enough, because
\* the order lists exactly the cached texts).
MakeRoom(entries, queue) ==
    IF Cardinality(DOMAIN entries) < CacheLimit THEN <<entries, queue>>
    ELSE IF queue = <<>> THEN <<NoEntries, queue>>
    ELSE <<Restrict(entries, DOMAIN entries \ {Head(queue)}), Tail(queue)>>

Remember(k, t, entry, entries, queue) ==
    LET room == MakeRoom(entries[k], queue[k])
    IN  IF t \in Large \/ t \in DOMAIN entries[k]
        THEN cache' = entries /\ order' = queue
        ELSE /\ cache' = [entries EXCEPT ![k] = [s \in DOMAIN room[1] \cup {t} |->
                              IF s = t THEN entry ELSE room[1][s]]]
             /\ order' = [queue EXCEPT ![k] = Append(room[2], t)]

\* Mutant: an increased count leaves the cached outputs alone.
FinishKeepsCache(k, t) ==
    /\ pc = "finish"
    /\ call = <<k, t>>
    /\ Return
    /\ unreported' = FALSE
    /\ Remember(k, t, [raw |-> raw, counted |-> unreported], cache, order)
    /\ answer' = raw
    /\ masked' = masked \cup new
    /\ UNCHANGED <<store, known, revision, observed, calls, txVars, due, dueRestored,
                   recorded, committed, delivered>>

\* The rest of the call: an increased count clears both caches and is reported;
\* a failed ADD_COUNT returns an error although the values are recorded.
Finish(k, t) ==
    /\ pc = "finish"
    /\ call = <<k, t>>
    /\ Return
    /\ unreported' = FALSE
    /\ \/ /\ LET entry == [raw |-> raw, counted |-> unreported]
             IN  IF unreported
                 THEN Remember(k, t, entry, [j \in Kinds |-> NoEntries], [j \in Kinds |-> <<>>])
                 ELSE Remember(k, t, entry, cache, order)
          /\ answer' = raw
          /\ masked' = masked \cup new
       \/ /\ unreported
          /\ ClearCaches
          /\ UNCHANGED <<answer, masked>>
    /\ UNCHANGED <<store, known, revision, observed, calls, txVars, due, dueRestored,
                   recorded, committed, delivered>>

----------------------------------------------------------------------------
(* Tool-input transactions                                                 *)

\* known_text_resolver: the session's values and a fresh snapshot of the store.
OpenTransaction(x) ==
    /\ txState[x] = "none"
    /\ txState' = [txState EXCEPT ![x] = "active"]
    /\ view' = [view EXCEPT ![x] = known \cup store]
    /\ UNCHANGED <<store, known, unreported, cacheVars, revision, observed, callVars, calls,
                   staged, restored, askVars, pastVars>>

\* Mutant: a file recovery joins the session at once, not at the commit.
ResolveInputAtOnce(x, v) ==
    /\ txState[x] = "active"
    /\ v \in FileValues \ view[x]
    /\ restored' = [restored EXCEPT ![x] = @ \cup {v}]
    /\ staged' = [staged EXCEPT ![x] = @ \cup {v}]
    /\ known' = known \cup {v}
    /\ UNCHANGED <<store, unreported, cacheVars, revision, observed, callVars, calls, txState,
                   view, askVars, pastVars>>

\* resolve_tool_input meets the handle of v.  Passive data leaves an unknown
\* handle as it is, which changes nothing.
ResolveInput(x, v) ==
    /\ txState[x] = "active"
    /\ v \notin restored[x]
    /\ \/ /\ v \in view[x]
          /\ restored' = [restored EXCEPT ![x] = @ \cup {v}]
          /\ UNCHANGED <<txState, staged>>
       \/ /\ v \in FileValues \ view[x]
          /\ restored' = [restored EXCEPT ![x] = @ \cup {v}]
          /\ staged' = [staged EXCEPT ![x] = @ \cup {v}]
          /\ UNCHANGED txState
       \/ /\ v \notin view[x]
          /\ v \notin FileValues
          /\ txState' = [txState EXCEPT ![x] = "failed"]
          /\ UNCHANGED <<staged, restored>>
    /\ UNCHANGED <<store, known, unreported, cacheVars, revision, observed, callVars, calls,
                   view, askVars, pastVars>>

\* A malformed view or a changed file rejects the whole response.
RejectInput(x) ==
    /\ txState[x] = "active"
    /\ txState' = [txState EXCEPT ![x] = "failed"]
    /\ UNCHANGED <<store, known, unreported, cacheVars, revision, observed, callVars, calls,
                   view, staged, restored, askVars, pastVars>>

\* commit_file_recoveries with nothing staged.
CommitNothing(x) ==
    /\ txState[x] = "active"
    /\ staged[x] = {}
    /\ txState' = [txState EXCEPT ![x] = "committed"]
    /\ delivered' = delivered \cup restored[x]
    /\ UNCHANGED <<store, known, unreported, cacheVars, revision, observed, callVars, calls,
                   view, staged, restored, askVars, masked, recorded, committed>>

\* add_recovery: the ADD request, then the push into the session, then, back in
\* the commit, the revision.  Each is visible to the masking thread.
CommitSync(x) ==
    /\ txState[x] = "active"
    /\ staged[x] # {}
    /\ txState' = [txState EXCEPT ![x] = "synced"]
    /\ store' = store \cup staged[x]
    /\ UNCHANGED <<known, unreported, cacheVars, revision, observed, callVars, calls, view,
                   staged, restored, askVars, pastVars>>

CommitPush(x) ==
    /\ txState[x] = "synced"
    /\ txState' = [txState EXCEPT ![x] = "pushed"]
    /\ known' = known \cup staged[x]
    /\ UNCHANGED <<store, unreported, cacheVars, revision, observed, callVars, calls, view,
                   staged, restored, askVars, pastVars>>

CommitBump(x) ==
    /\ txState[x] = "pushed"
    /\ txState' = [txState EXCEPT ![x] = "committed"]
    /\ revision' = revision + 1
    /\ committed' = committed \cup staged[x]
    /\ delivered' = delivered \cup restored[x]
    /\ UNCHANGED <<store, known, unreported, cacheVars, observed, callVars, calls, view, staged,
                   restored, askVars, masked, recorded>>

\* The ADD fails; the store may have applied it.
CommitFails(x) ==
    /\ txState[x] = "active"
    /\ staged[x] # {}
    /\ txState' = [txState EXCEPT ![x] = "failed"]
    /\ store' \in {store, store \cup staged[x]}
    /\ UNCHANGED <<known, unreported, cacheVars, revision, observed, callVars, calls, view,
                   staged, restored, askVars, pastVars>>

\* Image inspection and other helpers publish through sessions of their own.
OtherPublishes(v) ==
    /\ v \notin store
    /\ store' = store \cup {v}
    /\ UNCHANGED <<known, unreported, cacheVars, revision, observed, callVars, calls, txVars,
                   askVars, pastVars>>

MaskStep ==
    \/ \E k \in Kinds, t \in Texts : BeginMask(k, t) \/ CacheHit(k, t) \/ Render(k, t) \/ Finish(k, t)
    \/ Record
    \/ RecordFails

TransactionStep(x) ==
    \/ OpenTransaction(x)
    \/ \E v \in Values : ResolveInput(x, v)
    \/ RejectInput(x)
    \/ CommitNothing(x)
    \/ CommitSync(x)
    \/ CommitPush(x)
    \/ CommitBump(x)
    \/ CommitFails(x)

Next ==
    \/ MaskStep
    \/ \E x \in Transactions : TransactionStep(x)
    \/ \E v \in Values : OtherPublishes(v)

Spec == Init /\ [][Next]_vars

----------------------------------------------------------------------------
Entry == [raw : SUBSET Values, counted : BOOLEAN]

TypeOK ==
    /\ store \subseteq Values
    /\ known \subseteq Values
    /\ unreported \in BOOLEAN
    /\ cache = [k \in Kinds |-> cache[k]]
    /\ \A k \in Kinds : /\ DOMAIN cache[k] \subseteq Texts
                        /\ \A t \in DOMAIN cache[k] : cache[k][t] \in Entry
    /\ order \in [Kinds -> Seq(Texts)]
    /\ revision \in Nat
    /\ observed \in 0..revision
    /\ pc \in {"idle", "lookup", "record", "finish"}
    /\ call \in (Kinds \X Texts) \cup {<<>>}
    /\ raw \subseteq Values
    /\ new \subseteq Values
    /\ calls \in Nat
    /\ txState \in [Transactions ->
            {"none", "active", "synced", "pushed", "committed", "failed"}]
    /\ view \in [Transactions -> SUBSET Values]
    /\ staged \in [Transactions -> SUBSET Values]
    /\ restored \in [Transactions -> SUBSET Values]
    /\ answer \subseteq Values
    /\ due \subseteq Values
    /\ dueRestored \subseteq Values
    /\ masked \subseteq Values
    /\ recorded \subseteq Values
    /\ committed \subseteq Values
    /\ delivered \subseteq Values

\* A value this gateway had masked, or had restored from a file under a
\* committed transaction, before a call began is not in the text the call
\* returns, cached or not (invalidate_recovery_caches, the clear on delta > 0).
KnownStaysMasked == answer \cap due = {}

\* The caches list exactly their entries, oldest first, within the limit
\* (remember_cached_output, and every place that clears both).
CacheOrdered ==
    \A k \in Kinds :
        /\ {order[k][i] : i \in DOMAIN order[k]} = DOMAIN cache[k]
        /\ Len(order[k]) = Cardinality(DOMAIN cache[k])
        /\ Len(order[k]) <= CacheLimit

\* "Publish file-backed recoveries only after the complete response passed
\* validation": a rejected response never widens what the session knows.
OnlyValidatedPublished ==
    known \subseteq Initial \cup recorded \cup
        UNION {staged[x] : x \in {y \in Transactions : txState[y] \in {"pushed", "committed"}}}

\* handles.md: "Tool output is checked and masked again before the next provider
\* request": a value a committed response had put into a tool input before the
\* call began is not in the returned text.
RestoredStaysMasked == answer \cap dueRestored = {}

----------------------------------------------------------------------------
(* The inductive invariant behind KnownStaysMasked                         *)

Protected == masked \cup committed

\* What the gateway has masked or committed, the remask pass knows.
ProtectedKnown ==
    /\ Protected \subseteq known
    /\ due \subseteq Protected
    /\ pc = "finish" => new \subseteq known
    /\ \A x \in Transactions : txState[x] = "pushed" => staged[x] \subseteq known

\* While no commit is unobserved, no cached text and no text being rendered
\* shows a protected value.
Fresh ==
    observed = revision =>
        /\ \A k \in Kinds : \A t \in DOMAIN cache[k] : cache[k][t].raw \cap Protected = {}
        /\ pc \in {"record", "finish"} => raw \cap Protected = {}

\* The call in progress: what it may return shows nothing that was due, and a new
\* mapping is counted.
CallSafe ==
    /\ pc = "lookup" =>
         \A k \in Kinds : \A t \in DOMAIN cache[k] : cache[k][t].raw \cap due = {}
    /\ pc \in {"record", "finish"} => /\ raw \cap due = {}
                                      /\ raw \cap new = {}
                                      /\ new # {} => unreported

IInv ==
    /\ TypeOK
    /\ ProtectedKnown
    /\ Fresh
    /\ CallSafe
    /\ KnownStaysMasked
    /\ OnlyValidatedPublished

----------------------------------------------------------------------------
(* The inductive invariant behind CacheOrdered                             *)

\* A queue lists the texts of a cache: each of them once, and no other.
Lists(queue, texts) ==
    /\ {queue[i] : i \in DOMAIN queue} = texts
    /\ \A i, j \in DOMAIN queue : queue[i] = queue[j] => i = j
    /\ IsFiniteSet(texts)
    /\ Len(queue) = Cardinality(texts)
    /\ Len(queue) <= CacheLimit

Listed == \A k \in Kinds : Lists(order[k], DOMAIN cache[k])
==============================================================================
