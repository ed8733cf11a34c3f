-------------------------- MODULE ToolGatewayProofs --------------------------
(***************************************************************************)
(* Proofs about ToolGateway for every set of values, texts, transactions   *)
(* and every cache size: what the gateway masked or committed stays masked *)
(* in every later answer, a rejected response publishes nothing, and the   *)
(* caches' orders list their entries within the limit.                     *)
(***************************************************************************)
EXTENDS ToolGateway, SequenceTheorems, FiniteSetTheorems, TLAPS

\* The types of the caches, and that their entries are what earlier calls put
\* there: the part of IInv that speaks of cached texts.
CacheTyped ==
  /\ cache = [k \in Kinds |-> cache[k]]
  /\ \A k \in Kinds : /\ DOMAIN cache[k] \subseteq Texts
                      /\ \A t \in DOMAIN cache[k] : cache[k][t] \in Entry
  /\ order \in [Kinds -> Seq(Texts)]

\* Clearing leaves no entry.
LEMMA ClearFacts ==
  ASSUME ClearCaches
  PROVE  CacheTyped' /\ \A k \in Kinds : DOMAIN cache'[k] = {}
  BY DEF ClearCaches, CacheTyped, NoEntries

\* remember_cached_output only drops old entries and adds the new one.
LEMMA RememberFacts ==
  ASSUME NEW k \in Kinds, NEW t \in Texts, NEW entry \in Entry, NEW entries, NEW queue,
         \A j \in Kinds : /\ DOMAIN entries[j] \subseteq Texts
                          /\ \A s \in DOMAIN entries[j] : entries[j][s] \in Entry,
         queue \in [Kinds -> Seq(Texts)],
         entries = [j \in Kinds |-> entries[j]],
         Remember(k, t, entry, entries, queue)
  PROVE  /\ CacheTyped'
         /\ \A j \in Kinds : \A s \in DOMAIN cache'[j] :
              \/ cache'[j][s] = entry
              \/ s \in DOMAIN entries[j] /\ cache'[j][s] = entries[j][s]
  <1> DEFINE room == MakeRoom(entries[k], queue[k])
  <1>1. /\ DOMAIN room[1] \subseteq DOMAIN entries[k]
        /\ \A s \in DOMAIN room[1] : room[1][s] = entries[k][s]
        /\ room[2] \in Seq(Texts)
    <2>1. queue[k] \in Seq(Texts)
      OBVIOUS
    <2>2. CASE Cardinality(DOMAIN entries[k]) < CacheLimit
      BY <2>1, <2>2 DEF MakeRoom
    <2>3. CASE ~(Cardinality(DOMAIN entries[k]) < CacheLimit) /\ queue[k] = <<>>
      BY <2>1, <2>3 DEF MakeRoom, NoEntries
    <2>4. CASE ~(Cardinality(DOMAIN entries[k]) < CacheLimit) /\ queue[k] # <<>>
      <3>1. room = <<Restrict(entries[k], DOMAIN entries[k] \ {Head(queue[k])}), Tail(queue[k])>>
        BY <2>4 DEF MakeRoom
      <3>2. Tail(queue[k]) \in Seq(Texts)
        BY <2>1, <2>4
      <3>3. /\ room[1] = Restrict(entries[k], DOMAIN entries[k] \ {Head(queue[k])})
            /\ room[2] = Tail(queue[k])
        BY <3>1
      <3> HIDE DEF room
      <3>4. room[1] = [s \in DOMAIN entries[k] \ {Head(queue[k])} |-> entries[k][s]]
        BY <3>3 DEF Restrict
      <3> QED BY <3>2, <3>3, <3>4
    <2> QED BY <2>2, <2>3, <2>4
  <1> HIDE DEF room
  <1>2. CASE t \in Large \/ t \in DOMAIN entries[k]
    <2>1. cache' = entries /\ order' = queue
      BY <1>2 DEF Remember
    <2> QED BY <2>1 DEF CacheTyped
  <1>3. CASE ~(t \in Large \/ t \in DOMAIN entries[k])
    <2> DEFINE f == [s \in DOMAIN room[1] \cup {t} |-> IF s = t THEN entry ELSE room[1][s]]
    <2>1. /\ cache' = [entries EXCEPT ![k] = f]
          /\ order' = [queue EXCEPT ![k] = Append(room[2], t)]
      BY <1>3 DEF Remember, room
    <2>2. /\ DOMAIN f = DOMAIN room[1] \cup {t}
          /\ \A s \in DOMAIN f : f[s] = entry \/ (s \in DOMAIN entries[k] /\ f[s] = entries[k][s])
      BY <1>1
    <2>3. /\ DOMAIN f \subseteq Texts
          /\ \A s \in DOMAIN f : f[s] \in Entry
      BY <1>1, <2>2
    <2> HIDE DEF f
    <2>4. /\ cache' = [j \in Kinds |-> cache'[j]]
          /\ cache'[k] = f
          /\ \A j \in Kinds : j # k => cache'[j] = entries[j]
      BY <2>1
    <2>5. order' \in [Kinds -> Seq(Texts)]
      <3>1. Append(room[2], t) \in Seq(Texts)
        BY <1>1
      <3> QED BY <2>1, <3>1
    <2> QED BY <2>2, <2>3, <2>4, <2>5 DEF CacheTyped
  <1> QED BY <1>2, <1>3

\* The caches are cleared exactly when a commit was not yet observed.
LEMMA BeginMaskKeeps ==
  ASSUME IInv, NEW k \in Kinds, NEW t \in Texts, BeginMask(k, t)
  PROVE  IInv'
  <1> USE DEF IInv, TypeOK, cacheVars, callVars, txVars, askVars, pastVars, BeginMask
  <1>1. CASE revision # observed
    <2>1. CacheTyped' /\ \A j \in Kinds : DOMAIN cache'[j] = {}
      BY <1>1, ClearFacts
    <2>2. TypeOK'
      BY <2>1 DEF CacheTyped, ProtectedKnown, Protected
    <2>3. ProtectedKnown'
      BY DEF ProtectedKnown, Protected
    <2>4. Fresh' /\ CallSafe'
      BY <2>1 DEF Fresh, CallSafe
    <2>5. KnownStaysMasked' /\ OnlyValidatedPublished'
      BY DEF KnownStaysMasked, OnlyValidatedPublished
    <2> QED BY <2>2, <2>3, <2>4, <2>5
  <1>2. CASE revision = observed
    <2>1. cache' = cache /\ order' = order
      BY <1>2
    <2>2. TypeOK'
      BY <2>1
    <2>3. ProtectedKnown'
      BY DEF ProtectedKnown, Protected
    <2>4. Fresh' /\ CallSafe'
      BY <1>2, <2>1 DEF Fresh, CallSafe, Protected
    <2>5. KnownStaysMasked' /\ OnlyValidatedPublished'
      BY DEF KnownStaysMasked, OnlyValidatedPublished
    <2> QED BY <2>2, <2>3, <2>4, <2>5
  <1> QED BY <1>1, <1>2

\* A cached text returned now shows nothing that was due at the lookup.
LEMMA CacheHitKeeps ==
  ASSUME IInv, NEW k \in Kinds, NEW t \in Texts, CacheHit(k, t)
  PROVE  IInv'
  <1> USE DEF IInv, TypeOK, cacheVars, callVars, txVars, askVars, pastVars, CacheHit, Return
  <1>1. cache[k][t].raw \subseteq Values /\ cache[k][t].raw \cap due = {}
    BY DEF CallSafe, Entry
  <1>2. TypeOK'
    BY <1>1
  <1>3. ProtectedKnown' /\ Fresh' /\ CallSafe'
    BY DEF ProtectedKnown, Protected, Fresh, CallSafe
  <1>4. KnownStaysMasked' /\ OnlyValidatedPublished'
    BY <1>1 DEF KnownStaysMasked, OnlyValidatedPublished
  <1> QED BY <1>2, <1>3, <1>4

\* What is rendered raw is not known, hence not due.
LEMMA RenderKeeps ==
  ASSUME IInv, NEW k \in Kinds, NEW t \in Texts, Render(k, t)
  PROVE  IInv'
  <1> USE TextsAssumption, ValueSetsAssumption
      DEF IInv, TypeOK, cacheVars, callVars, txVars, askVars, pastVars, Render
  <1>1. TypeOK'
    OBVIOUS
  <1>2. ProtectedKnown'
    BY DEF ProtectedKnown, Protected
  <1>3. Fresh'
    BY DEF Fresh, Protected, ProtectedKnown
  <1>4. CallSafe'
    BY DEF CallSafe, ProtectedKnown
  <1>5. KnownStaysMasked' /\ OnlyValidatedPublished'
    BY DEF KnownStaysMasked, OnlyValidatedPublished
  <1> QED BY <1>1, <1>2, <1>3, <1>4, <1>5

\* Recording only adds to what is known.
LEMMA RecordKeeps ==
  ASSUME IInv, Record
  PROVE  IInv'
  <1> USE DEF IInv, TypeOK, cacheVars, callVars, txVars, askVars, pastVars, Record
  <1>1. TypeOK'
    OBVIOUS
  <1>2. ProtectedKnown'
    BY DEF ProtectedKnown, Protected
  <1>3. Fresh' /\ CallSafe'
    BY DEF Fresh, Protected, CallSafe
  <1>4. KnownStaysMasked' /\ OnlyValidatedPublished'
    BY DEF KnownStaysMasked, OnlyValidatedPublished
  <1> QED BY <1>1, <1>2, <1>3, <1>4

\* A partly recorded call returns nothing and keeps its count for the next one.
LEMMA RecordFailsKeeps ==
  ASSUME IInv, RecordFails
  PROVE  IInv'
  <1> USE DEF IInv, TypeOK, cacheVars, callVars, txVars, askVars, pastVars, RecordFails, Return
  <1>0. PICK done \in SUBSET new : \E late \in SUBSET (new \ done) :
          /\ store' = store \cup done \cup late
          /\ known' = known \cup done
          /\ recorded' = recorded \cup done
    OBVIOUS
  <1>1. TypeOK'
    BY <1>0
  <1>2. ProtectedKnown'
    BY <1>0 DEF ProtectedKnown, Protected
  <1>3. Fresh' /\ CallSafe'
    BY DEF Fresh, Protected, CallSafe
  <1>4. KnownStaysMasked' /\ OnlyValidatedPublished'
    BY <1>0 DEF KnownStaysMasked, OnlyValidatedPublished
  <1> QED BY <1>1, <1>2, <1>3, <1>4

\* A new mapping clears the caches before its value becomes protected.
LEMMA FinishKeeps ==
  ASSUME IInv, NEW k \in Kinds, NEW t \in Texts, Finish(k, t)
  PROVE  IInv'
  <1> USE DEF IInv, TypeOK, cacheVars, callVars, txVars, askVars, pastVars
  <1> DEFINE entry == [raw |-> raw, counted |-> unreported]
             none == [j \in Kinds |-> NoEntries]
             empty == [j \in Kinds |-> <<>>]
  <1>0. /\ pc = "finish" /\ pc' = "idle" /\ unreported' = FALSE /\ call' = <<>>
        /\ raw' = {} /\ new' = {}
        /\ UNCHANGED <<store, known, revision, observed, calls, txVars, due, dueRestored,
                       recorded, committed, delivered>>
    BY DEF Finish, Return
  <1>1. entry \in Entry /\ entry.raw = raw
    BY DEF Entry
  <1> HIDE DEF entry
  <1>2. CASE /\ unreported
             /\ Remember(k, t, entry, none, empty)
             /\ answer' = raw
             /\ masked' = masked \cup new
    <2>1. /\ CacheTyped'
          /\ \A j \in Kinds : \A s \in DOMAIN cache'[j] : cache'[j][s] = entry
      <3>1. /\ DOMAIN none = Kinds
            /\ \A j \in Kinds : DOMAIN none[j] = {}
            /\ \A j \in Kinds : /\ DOMAIN none[j] \subseteq Texts
                               /\ \A s \in DOMAIN none[j] : none[j][s] \in Entry
            /\ empty \in [Kinds -> Seq(Texts)]
            /\ none = [j \in Kinds |-> none[j]]
        BY DEF NoEntries
      <3> HIDE DEF none, empty
      <3>2. /\ CacheTyped'
            /\ \A j \in Kinds : \A s \in DOMAIN cache'[j] :
                 cache'[j][s] = entry \/ (s \in DOMAIN none[j] /\ cache'[j][s] = none[j][s])
        <4>1. Remember(k, t, entry, none, empty)
          BY <1>2
        <4> QED BY ONLY k \in Kinds, t \in Texts, <1>1, <3>1, <4>1, RememberFacts
      <3> QED BY <3>1, <3>2
    <2>2. TypeOK'
      BY <1>0, <1>2, <2>1 DEF CacheTyped
    <2>3. ProtectedKnown'
      BY <1>0, <1>2 DEF ProtectedKnown, Protected
    <2>4. Fresh' /\ CallSafe'
      BY <1>0, <1>1, <1>2, <2>1 DEF Fresh, CallSafe, Protected
    <2>5. KnownStaysMasked' /\ OnlyValidatedPublished'
      BY <1>0, <1>2 DEF KnownStaysMasked, OnlyValidatedPublished, CallSafe
    <2> QED BY <2>2, <2>3, <2>4, <2>5
  <1>3. CASE /\ ~unreported
             /\ Remember(k, t, entry, cache, order)
             /\ answer' = raw
             /\ masked' = masked \cup new
    <2>1. /\ CacheTyped'
          /\ \A j \in Kinds : \A s \in DOMAIN cache'[j] :
               cache'[j][s] = entry \/ (s \in DOMAIN cache[j] /\ cache'[j][s] = cache[j][s])
      BY <1>1, <1>3, RememberFacts
    <2>2. new = {} /\ masked' = masked
      BY <1>0, <1>3 DEF CallSafe
    <2>3. TypeOK'
      BY <1>0, <1>3, <2>1 DEF CacheTyped
    <2>4. ProtectedKnown'
      BY <1>0, <2>2 DEF ProtectedKnown, Protected
    <2>5. Fresh' /\ CallSafe'
      BY <1>0, <1>1, <2>1, <2>2 DEF Fresh, CallSafe, Protected
    <2>6. KnownStaysMasked' /\ OnlyValidatedPublished'
      BY <1>0, <1>3 DEF KnownStaysMasked, OnlyValidatedPublished, CallSafe
    <2> QED BY <2>3, <2>4, <2>5, <2>6
  <1>4. CASE unreported /\ ClearCaches /\ UNCHANGED <<answer, masked>>
    <2>1. CacheTyped' /\ \A j \in Kinds : DOMAIN cache'[j] = {}
      BY <1>4, ClearFacts
    <2>2. TypeOK'
      BY <1>0, <1>4, <2>1 DEF CacheTyped
    <2>3. ProtectedKnown'
      BY <1>0, <1>4 DEF ProtectedKnown, Protected
    <2>4. Fresh' /\ CallSafe'
      BY <1>0, <2>1 DEF Fresh, CallSafe
    <2>5. KnownStaysMasked' /\ OnlyValidatedPublished'
      BY <1>0, <1>4 DEF KnownStaysMasked, OnlyValidatedPublished
    <2> QED BY <2>2, <2>3, <2>4, <2>5
  <1> QED BY <1>2, <1>3, <1>4 DEF Finish, entry

\* Opening, resolving and rejecting touch only the transaction itself.
LEMMA ValidationKeeps ==
  ASSUME IInv, NEW x \in Transactions,
         OpenTransaction(x) \/ (\E v \in Values : ResolveInput(x, v)) \/ RejectInput(x)
           \/ CommitNothing(x)
  PROVE  IInv'
  <1> USE DEF IInv, TypeOK, cacheVars, callVars, txVars, askVars, pastVars
  <1>0. /\ store' = store /\ known' = known /\ unreported' = unreported /\ cache' = cache
        /\ order' = order /\ revision' = revision /\ observed' = observed /\ pc' = pc
        /\ call' = call /\ raw' = raw /\ new' = new /\ calls' = calls
        /\ answer' = answer /\ due' = due /\ dueRestored' = dueRestored
        /\ masked' = masked /\ recorded' = recorded /\ committed' = committed
    BY DEF OpenTransaction, ResolveInput, RejectInput, CommitNothing
  <1>1. /\ txState' \in [Transactions ->
             {"none", "active", "synced", "pushed", "committed", "failed"}]
        /\ view' \in [Transactions -> SUBSET Values]
        /\ staged' \in [Transactions -> SUBSET Values]
        /\ restored' \in [Transactions -> SUBSET Values]
        /\ delivered' \subseteq Values
    <2>1. CASE OpenTransaction(x)
      BY <2>1 DEF OpenTransaction
    <2>2. ASSUME NEW v \in Values, ResolveInput(x, v)
          PROVE  /\ txState' \in [Transactions ->
                      {"none", "active", "synced", "pushed", "committed", "failed"}]
                 /\ staged' \in [Transactions -> SUBSET Values]
                 /\ restored' \in [Transactions -> SUBSET Values]
                 /\ view' = view /\ delivered' = delivered
      <3>1. CASE v \in view[x] /\ restored' = [restored EXCEPT ![x] = @ \cup {v}]
                   /\ UNCHANGED <<txState, staged>>
        BY <2>2, <3>1 DEF ResolveInput
      <3>2. CASE /\ restored' = [restored EXCEPT ![x] = @ \cup {v}]
                 /\ staged' = [staged EXCEPT ![x] = @ \cup {v}]
                 /\ UNCHANGED txState
        BY <2>2, <3>2 DEF ResolveInput
      <3>3. CASE txState' = [txState EXCEPT ![x] = "failed"] /\ UNCHANGED <<staged, restored>>
        BY <2>2, <3>3 DEF ResolveInput
      <3> QED BY <2>2, <3>1, <3>2, <3>3 DEF ResolveInput
    <2>3. CASE RejectInput(x)
      BY <2>3 DEF RejectInput
    <2>4. CASE CommitNothing(x)
      BY <2>4 DEF CommitNothing
    <2> QED BY <2>1, <2>2, <2>3, <2>4
  <1>2. \A y \in Transactions :
          \/ txState'[y] = txState[y] /\ staged'[y] = staged[y]
          \/ txState'[y] \notin {"synced", "pushed"} /\ txState[y] \notin {"pushed", "committed"}
    BY DEF OpenTransaction, ResolveInput, RejectInput, CommitNothing
  <1>3. TypeOK'
    BY <1>0, <1>1
  <1>4. ProtectedKnown'
    BY <1>0, <1>2 DEF ProtectedKnown, Protected
  <1>5. Fresh' /\ CallSafe' /\ KnownStaysMasked'
    BY <1>0 DEF Fresh, Protected, CallSafe, KnownStaysMasked
  <1>6. OnlyValidatedPublished'
    BY <1>0, <1>2 DEF OnlyValidatedPublished
  <1> QED BY <1>3, <1>4, <1>5, <1>6

\* The ADD of a commit, lost or applied, changes only the store.
LEMMA SyncKeeps ==
  ASSUME IInv, NEW x \in Transactions, CommitSync(x) \/ CommitFails(x)
  PROVE  IInv'
  <1> USE DEF IInv, TypeOK, cacheVars, callVars, txVars, askVars, pastVars, CommitSync, CommitFails
  <1>1. TypeOK'
    OBVIOUS
  <1>2. ProtectedKnown'
    BY DEF ProtectedKnown, Protected
  <1>3. Fresh' /\ CallSafe' /\ KnownStaysMasked'
    BY DEF Fresh, Protected, CallSafe, KnownStaysMasked
  <1>4. OnlyValidatedPublished'
    BY DEF OnlyValidatedPublished
  <1> QED BY <1>1, <1>2, <1>3, <1>4

\* The push makes the staged values known before they count as committed.
LEMMA PushKeeps ==
  ASSUME IInv, NEW x \in Transactions, CommitPush(x)
  PROVE  IInv'
  <1> USE DEF IInv, TypeOK, cacheVars, callVars, txVars, askVars, pastVars, CommitPush
  <1>1. TypeOK'
    OBVIOUS
  <1>2. ProtectedKnown'
    BY DEF ProtectedKnown, Protected
  <1>3. Fresh' /\ CallSafe' /\ KnownStaysMasked'
    BY DEF Fresh, Protected, CallSafe, KnownStaysMasked
  <1>4. OnlyValidatedPublished'
    BY DEF OnlyValidatedPublished
  <1> QED BY <1>1, <1>2, <1>3, <1>4

\* The revision moves on in the step that commits: whatever is cached is
\* unobserved from then on.
LEMMA BumpKeeps ==
  ASSUME IInv, NEW x \in Transactions, CommitBump(x)
  PROVE  IInv'
  <1> USE DEF IInv, TypeOK, cacheVars, callVars, txVars, askVars, pastVars, CommitBump
  <1>1. TypeOK' /\ observed' # revision'
    OBVIOUS
  <1>2. ProtectedKnown'
    BY DEF ProtectedKnown, Protected
  <1>3. Fresh' /\ CallSafe' /\ KnownStaysMasked'
    BY <1>1 DEF Fresh, CallSafe, KnownStaysMasked
  <1>4. OnlyValidatedPublished'
    BY DEF OnlyValidatedPublished
  <1> QED BY <1>1, <1>2, <1>3, <1>4

\* Other processes write only to the store.
LEMMA OtherKeeps ==
  ASSUME IInv, NEW v \in Values, OtherPublishes(v)
  PROVE  IInv'
  BY DEF IInv, TypeOK, cacheVars, callVars, txVars, askVars, pastVars, OtherPublishes,
         ProtectedKnown, Protected, Fresh, CallSafe, KnownStaysMasked, OnlyValidatedPublished

\* A session starts with the store's values and an empty cache.
LEMMA InitHolds == Init => IInv
  <1> SUFFICES ASSUME Init PROVE IInv
    OBVIOUS
  <1> USE ValueSetsAssumption DEF Init
  <1>1. TypeOK
    <2>1. /\ cache = [k \in Kinds |-> cache[k]]
          /\ \A k \in Kinds : DOMAIN cache[k] = {}
      BY DEF NoEntries
    <2>2. order \in [Kinds -> Seq(Texts)]
      OBVIOUS
    <2>3. call \in (Kinds \X Texts) \cup {<<>>}
      OBVIOUS
    <2>4. observed \in 0..revision /\ revision \in Nat /\ calls \in Nat
      OBVIOUS
    <2>5. /\ txState \in [Transactions ->
               {"none", "active", "synced", "pushed", "committed", "failed"}]
          /\ view \in [Transactions -> SUBSET Values]
          /\ staged \in [Transactions -> SUBSET Values]
          /\ restored \in [Transactions -> SUBSET Values]
      OBVIOUS
    <2> QED BY <2>1, <2>2, <2>3, <2>4, <2>5 DEF TypeOK
  <1>2. ProtectedKnown /\ Fresh /\ CallSafe
    BY DEF ProtectedKnown, Protected, Fresh, CallSafe, NoEntries
  <1>3. KnownStaysMasked /\ OnlyValidatedPublished
    BY DEF KnownStaysMasked, OnlyValidatedPublished
  <1> QED BY <1>1, <1>2, <1>3 DEF IInv

\* Every step of both threads keeps the invariant.
LEMMA NextKeeps == IInv /\ [Next]_vars => IInv'
  <1> SUFFICES ASSUME IInv, [Next]_vars PROVE IInv'
    OBVIOUS
  <1>1. CASE MaskStep
    BY <1>1, BeginMaskKeeps, CacheHitKeeps, RenderKeeps, RecordKeeps, RecordFailsKeeps,
       FinishKeeps DEF MaskStep
  <1>2. ASSUME NEW x \in Transactions, TransactionStep(x) PROVE IInv'
    BY <1>2, ValidationKeeps, SyncKeeps, PushKeeps, BumpKeeps DEF TransactionStep
  <1>3. ASSUME NEW v \in Values, OtherPublishes(v) PROVE IInv'
    BY <1>3, OtherKeeps
  <1>4. CASE UNCHANGED vars
    BY <1>4 DEF vars, IInv, TypeOK, cacheVars, callVars, txVars, askVars, pastVars,
         ProtectedKnown, Protected, Fresh, CallSafe, KnownStaysMasked, OnlyValidatedPublished
  <1> QED BY <1>1, <1>2, <1>3, <1>4 DEF Next

\* IInv is an invariant of the gateway for all its parameters.
THEOREM Invariance == Spec => []IInv
  BY InitHolds, NextKeeps, PTL DEF Spec

\* The types of the caches, the call and the transactions.
THEOREM TypeCorrect == Spec => []TypeOK
  <1>1. IInv => TypeOK
    BY DEF IInv
  <1> QED BY <1>1, Invariance, PTL

\* What the gateway masked or committed before a call began is never in the text
\* the call returns, whatever it cached and however commits and failures
\* interleave with the call.
THEOREM NeverRawAgain == Spec => []KnownStaysMasked
  <1>1. IInv => KnownStaysMasked
    BY DEF IInv
  <1> QED BY <1>1, Invariance, PTL

\* A rejected response never widens what the session knows.
THEOREM RejectedPublishesNothing == Spec => []OnlyValidatedPublished
  <1>1. IInv => OnlyValidatedPublished
    BY DEF IInv
  <1> QED BY <1>1, Invariance, PTL

----------------------------------------------------------------------------
(* The order of the caches                                                 *)

\* An empty cache is listed.
LEMMA NothingListed == Lists(<<>>, {})
  <1>1. Len(<<>>) = 0 /\ DOMAIN <<>> = {}
    OBVIOUS
  <1> QED BY <1>1, FS_EmptySet, LimitsAssumption DEF Lists

\* A new text goes to the end of the order.
LEMMA AppendListed ==
  ASSUME NEW q \in Seq(Texts), NEW D \in SUBSET Texts, Lists(q, D), Len(q) < CacheLimit,
         NEW t \in Texts, t \notin D
  PROVE  Lists(Append(q, t), D \cup {t})
  <1> DEFINE a == Append(q, t)
  <1>1. /\ a \in Seq(Texts) /\ Len(a) = Len(q) + 1
        /\ \A i \in 1 .. Len(q) : a[i] = q[i]
        /\ a[Len(q) + 1] = t
    BY AppendProperties
  <1> HIDE DEF a
  <1>2. Len(q) \in Nat /\ DOMAIN q = 1 .. Len(q) /\ DOMAIN a = 1 .. (Len(q) + 1)
    BY <1>1, LenProperties
  <1>3. \A i \in 1 .. Len(q) : q[i] \in D /\ q[i] # t
    BY <1>2 DEF Lists
  <1>4. {a[i] : i \in DOMAIN a} = D \cup {t}
    <2>1. ASSUME NEW s \in D PROVE \E i \in DOMAIN a : a[i] = s
      <3>1. PICK i \in DOMAIN q : q[i] = s
        BY DEF Lists
      <3>2. i \in 1 .. Len(q) /\ i \in DOMAIN a
        BY <3>1, <1>2
      <3>3. a[i] = s
        BY <1>1, <3>1, <3>2
      <3> QED BY <3>2, <3>3
    <2>2. \E i \in DOMAIN a : a[i] = t
      <3>1. Len(q) + 1 \in DOMAIN a
        BY <1>2
      <3> QED BY <1>1, <3>1
    <2>3. ASSUME NEW i \in DOMAIN a PROVE a[i] \in D \cup {t}
      <3>1. i \in 1 .. Len(q) \/ i = Len(q) + 1
        BY <1>2
      <3> QED BY <3>1, <1>1, <1>3
    <2> QED BY <2>1, <2>2, <2>3
  <1>5. ASSUME NEW i \in DOMAIN a, NEW j \in DOMAIN a, a[i] = a[j] PROVE i = j
    <2>1. (i \in 1 .. Len(q) \/ i = Len(q) + 1) /\ (j \in 1 .. Len(q) \/ j = Len(q) + 1)
      BY <1>2
    <2>2. CASE i \in 1 .. Len(q) /\ j \in 1 .. Len(q)
      BY <2>2, <1>1, <1>2, <1>5 DEF Lists
    <2>3. CASE i = Len(q) + 1 /\ j \in 1 .. Len(q)
      BY <2>3, <1>1, <1>3, <1>5
    <2>4. CASE j = Len(q) + 1 /\ i \in 1 .. Len(q)
      BY <2>4, <1>1, <1>3, <1>5
    <2> QED BY <2>1, <2>2, <2>3, <2>4
  <1>6. /\ IsFiniteSet(D \cup {t})
        /\ Cardinality(D \cup {t}) = Cardinality(D) + 1
        /\ Cardinality(D) = Len(q)
    BY FS_AddElement DEF Lists
  <1>7. Len(a) <= CacheLimit
    BY <1>1, <1>2, LimitsAssumption
  <1> QED BY <1>1, <1>4, <1>5, <1>6, <1>7 DEF Lists, a

\* The oldest text leaves the order and the cache together.
LEMMA TailListed ==
  ASSUME NEW q \in Seq(Texts), NEW D \in SUBSET Texts, Lists(q, D), q # <<>>
  PROVE  /\ Lists(Tail(q), D \ {Head(q)})
         /\ Len(Tail(q)) = Len(q) - 1 /\ Len(q) \in Nat
  <1> DEFINE r == Tail(q)  h == Head(q)
  <1>1. /\ r \in Seq(Texts) /\ Len(r) = Len(q) - 1
        /\ \A i \in 1 .. Len(r) : r[i] = q[i + 1]
        /\ h = q[1]
    BY HeadTailProperties
  <1> HIDE DEF r, h
  <1>2. /\ Len(q) \in Nat /\ Len(r) \in Nat
        /\ DOMAIN q = 1 .. (Len(r) + 1) /\ DOMAIN r = 1 .. Len(r)
    BY <1>1, LenProperties
  <1>3. h \in D
    <2>1. 1 \in DOMAIN q
      BY <1>2
    <2> QED BY <1>1, <2>1 DEF Lists
  <1>4. ASSUME NEW i \in DOMAIN r PROVE i + 1 \in DOMAIN q /\ i + 1 # 1 /\ r[i] = q[i + 1]
    BY <1>1, <1>2
  <1>5. {r[i] : i \in DOMAIN r} = D \ {h}
    <2>1. ASSUME NEW i \in DOMAIN r PROVE r[i] \in D \ {h}
      <3>1. q[i + 1] \in D
        BY <1>4 DEF Lists
      <3>2. 1 \in DOMAIN q
        BY <1>2
      <3>3. q[i + 1] # q[1]
        BY <1>4, <3>2 DEF Lists
      <3> QED BY <1>1, <1>4, <3>1, <3>3
    <2>2. ASSUME NEW s \in D \ {h} PROVE \E i \in DOMAIN r : r[i] = s
      <3>1. PICK j \in DOMAIN q : q[j] = s
        BY DEF Lists
      <3>2. j # 1
        BY <1>1, <3>1
      <3>3. j - 1 \in DOMAIN r /\ (j - 1) + 1 = j
        BY <1>2, <3>2
      <3>4. r[j - 1] = s
        BY <1>4, <3>1, <3>3
      <3> QED BY <3>3, <3>4
    <2> QED BY <2>1, <2>2
  <1>6. ASSUME NEW i \in DOMAIN r, NEW j \in DOMAIN r, r[i] = r[j] PROVE i = j
    <2>1. i + 1 = j + 1
      BY <1>4, <1>6 DEF Lists
    <2> QED BY <2>1, <1>2
  <1>7. /\ IsFiniteSet(D \ {h})
        /\ Cardinality(D \ {h}) = Cardinality(D) - 1
        /\ Cardinality(D) = Len(q) /\ Len(q) <= CacheLimit
    BY <1>3, FS_RemoveElement DEF Lists
  <1>8. Len(r) <= CacheLimit
    BY <1>1, <1>2, <1>7, LimitsAssumption
  <1> QED BY <1>1, <1>2, <1>5, <1>6, <1>7, <1>8 DEF Lists, r, h

\* remember_cached_output leaves both caches listed.
LEMMA RememberListed ==
  ASSUME NEW k \in Kinds, NEW t \in Texts, NEW entry, NEW entries, NEW queue,
         \A j \in Kinds : DOMAIN entries[j] \subseteq Texts /\ Lists(queue[j], DOMAIN entries[j]),
         queue \in [Kinds -> Seq(Texts)],
         entries = [j \in Kinds |-> entries[j]],
         Remember(k, t, entry, entries, queue)
  PROVE  Listed'
  <1> DEFINE room == MakeRoom(entries[k], queue[k])
             D == DOMAIN entries[k]
             q == queue[k]
  <1>0. D \in SUBSET Texts /\ q \in Seq(Texts) /\ Lists(q, D)
    OBVIOUS
  <1>1. /\ Lists(room[2], DOMAIN room[1])
        /\ DOMAIN room[1] \subseteq D
        /\ room[2] \in Seq(Texts)
        /\ Len(room[2]) < CacheLimit
    <2>0. Cardinality(D) = Len(q) /\ Len(q) \in Nat /\ Len(q) <= CacheLimit
      BY <1>0, LenProperties DEF Lists
    <2>2. CASE Cardinality(D) < CacheLimit
      <3>1. room = <<entries[k], q>>
        BY <2>2 DEF MakeRoom
      <3> QED BY <3>1, <1>0, <2>0, <2>2
    <2>3. CASE ~(Cardinality(D) < CacheLimit)
      <3>1. q # <<>>
        BY <2>0, <2>3, EmptySeq, LimitsAssumption
      <3>2. room = <<Restrict(entries[k], D \ {Head(q)}), Tail(q)>>
        BY <2>3, <3>1 DEF MakeRoom
      <3>3. /\ room[1] = Restrict(entries[k], D \ {Head(q)})
            /\ room[2] = Tail(q)
        BY <3>2
      <3> HIDE DEF room
      <3>4. DOMAIN room[1] = D \ {Head(q)}
        BY <3>3 DEF Restrict
      <3> HIDE DEF D, q
      <3>5. Lists(Tail(q), D \ {Head(q)}) /\ Len(Tail(q)) = Len(q) - 1
        BY <1>0, <3>1, TailListed
      <3>6. Len(Tail(q)) < CacheLimit
        BY <2>0, <3>5, LimitsAssumption
      <3>7. Tail(q) \in Seq(Texts)
        BY <1>0, <3>1, HeadTailProperties
      <3> QED BY <3>3, <3>4, <3>5, <3>6, <3>7
    <2> QED BY <2>2, <2>3
  <1> HIDE DEF room
  <1>2. CASE t \in Large \/ t \in DOMAIN entries[k]
    <2>1. cache' = entries /\ order' = queue
      BY <1>2 DEF Remember
    <2> QED BY <2>1 DEF Listed
  <1>3. CASE ~(t \in Large \/ t \in DOMAIN entries[k])
    <2> DEFINE f == [s \in DOMAIN room[1] \cup {t} |-> IF s = t THEN entry ELSE room[1][s]]
    <2>1. /\ cache' = [entries EXCEPT ![k] = f]
          /\ order' = [queue EXCEPT ![k] = Append(room[2], t)]
      BY <1>3 DEF Remember, room
    <2>2. DOMAIN f = DOMAIN room[1] \cup {t}
      OBVIOUS
    <2> HIDE DEF f
    <2>3. Lists(Append(room[2], t), DOMAIN room[1] \cup {t})
      <3>1. DOMAIN room[1] \in SUBSET Texts /\ t \notin DOMAIN room[1]
        BY <1>0, <1>1, <1>3
      <3> QED BY <1>1, <3>1, AppendListed
    <2>4. /\ cache'[k] = f /\ order'[k] = Append(room[2], t)
          /\ \A j \in Kinds : j # k => cache'[j] = entries[j] /\ order'[j] = queue[j]
      BY <2>1
    <2> QED BY <2>2, <2>3, <2>4 DEF Listed
  <1> QED BY <1>2, <1>3

LEMMA ClearListed ==
  ASSUME ClearCaches
  PROVE  Listed'
  <1>1. \A k \in Kinds : order'[k] = <<>> /\ DOMAIN cache'[k] = {}
    BY DEF ClearCaches, NoEntries
  <1> QED BY <1>1, NothingListed DEF Listed

LEMMA NextListed == IInv /\ Listed /\ [Next]_vars => Listed'
  <1> SUFFICES ASSUME IInv, Listed, [Next]_vars PROVE Listed'
    OBVIOUS
  <1>1. CASE UNCHANGED cacheVars
    BY <1>1 DEF cacheVars, Listed
  <1>2. CASE ClearCaches
    BY <1>2, ClearListed
  <1>3. ASSUME NEW k \in Kinds, NEW t \in Texts, Finish(k, t) PROVE Listed'
    <2> DEFINE none == [j \in Kinds |-> NoEntries]
               empty == [j \in Kinds |-> <<>>]
    <2>1. ASSUME NEW entry, Remember(k, t, entry, none, empty) PROVE Listed'
      <3>1. /\ \A j \in Kinds : none[j] = NoEntries /\ empty[j] = <<>>
            /\ empty \in [Kinds -> Seq(Texts)]
            /\ none = [j \in Kinds |-> none[j]]
        OBVIOUS
      <3>2. DOMAIN NoEntries = {}
        BY DEF NoEntries
      <3> HIDE DEF none, empty
      <3>3. \A j \in Kinds : DOMAIN none[j] \subseteq Texts /\ Lists(empty[j], DOMAIN none[j])
        BY <3>1, <3>2, NothingListed
      <3> QED BY ONLY k \in Kinds, t \in Texts, <2>1, <3>1, <3>3, RememberListed
    <2>2. ASSUME NEW entry, Remember(k, t, entry, cache, order) PROVE Listed'
      BY <2>2, RememberListed DEF IInv, TypeOK, Listed
    <2> HIDE DEF none, empty
    <2>3. \/ \E entry : Remember(k, t, entry, none, empty)
          \/ \E entry : Remember(k, t, entry, cache, order)
          \/ ClearCaches
      BY <1>3 DEF Finish, none, empty
    <2> QED BY <2>1, <2>2, <2>3, <1>2
  <1>4. CASE MaskStep
    <2>1. ASSUME NEW k \in Kinds, NEW t \in Texts,
                 BeginMask(k, t) \/ CacheHit(k, t) \/ Render(k, t)
          PROVE  Listed'
      BY <1>1, <1>2, <2>1 DEF BeginMask, CacheHit, Render
    <2>2. CASE Record \/ RecordFails
      BY <1>1, <2>2 DEF Record, RecordFails
    <2> QED BY <1>4, <1>3, <2>1, <2>2 DEF MaskStep
  <1>5. ASSUME NEW x \in Transactions, TransactionStep(x) PROVE Listed'
    BY <1>1, <1>5 DEF TransactionStep, OpenTransaction, ResolveInput, RejectInput, CommitNothing,
       CommitSync, CommitPush, CommitBump, CommitFails
  <1>6. ASSUME NEW v \in Values, OtherPublishes(v) PROVE Listed'
    BY <1>1, <1>6 DEF OtherPublishes
  <1>7. CASE UNCHANGED vars
    BY <1>1, <1>7 DEF vars
  <1> QED BY <1>4, <1>5, <1>6, <1>7 DEF Next

\* The order of each cache lists its texts, each once, within the limit, however
\* often the caches are cleared under a call: remember_cached_output always
\* finds the oldest entry to drop, and drops no other.
THEOREM CachesStayOrdered == Spec => []CacheOrdered
  <1>1. Init => Listed
    <2> SUFFICES ASSUME Init PROVE Listed
      OBVIOUS
    <2>1. \A k \in Kinds : order[k] = <<>> /\ DOMAIN cache[k] = {}
      BY DEF Init, NoEntries
    <2> QED BY <2>1, NothingListed DEF Listed
  <1>2. Listed => CacheOrdered
    BY DEF Listed, Lists, CacheOrdered
  <1> QED BY <1>1, <1>2, NextListed, Invariance, PTL DEF Spec
==============================================================================
