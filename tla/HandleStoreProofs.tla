-------------------------- MODULE HandleStoreProofs --------------------------
(***************************************************************************)
(* Proofs about HandleStore for every set of clients, values and handles.  *)
(* The safety properties follow from IInv, which adds to the types that    *)
(* every mapping carries its own value's hash (Genuine), what a thread     *)
(* holds between requests (Quiet), which threads may run at the same time  *)
(* (Apart) and that what is known, promised, about to be emitted or        *)
(* printed is in the store or on its way there (Backed).                   *)
(***************************************************************************)
EXTENDS HandleStore, TLAPS

\* Recovery maps are closed under the operations the code performs on them.
LEMMA EmptyRecovery == Empty \in Recovery /\ GenuineMap(Empty)
  BY DEF Empty, Recovery, GenuineMap

\* Recovery::extend_same_key keeps the type and the genuineness, and forgets
\* no handle of either side.
LEMMA ExtendFacts ==
  ASSUME NEW old \in Recovery, NEW new \in Recovery
  PROVE  /\ Extend(old, new) \in Recovery
         /\ GenuineMap(old) /\ GenuineMap(new) => GenuineMap(Extend(old, new))
         /\ Within(old, Extend(old, new))
         /\ Within(new, Extend(old, new))
         /\ \A h \in Handles : Extend(old, new)[h] # NoValue
                                 => old[h] # NoValue \/ new[h] # NoValue
  <1>1. Extend(old, new) \in Recovery
    BY ValuesAssumption DEF Extend, Recovery
  <1>2. \A h \in Handles :
           Extend(old, new)[h] = IF new[h] # NoValue THEN new[h] ELSE old[h]
    BY DEF Extend
  <1>3. GenuineMap(old) /\ GenuineMap(new) => GenuineMap(Extend(old, new))
    BY <1>2 DEF GenuineMap
  <1>4. /\ Within(old, Extend(old, new))
        /\ Within(new, Extend(old, new))
        /\ \A h \in Handles : Extend(old, new)[h] # NoValue
                                => old[h] # NoValue \/ new[h] # NoValue
    BY <1>2 DEF Within
  <1> QED BY <1>1, <1>3, <1>4

\* A document is a sequence of values.
LEMMA DocFacts ==
  ASSUME NEW d \in Docs
  PROVE  \A i \in DOMAIN d : d[i] \in Values
  BY DocsAssumption

\* What one render records and emits: a genuine map, genuine pairs, and every
\* emitted handle is in the maps the remask pass used or in the new map.
LEMMA RenderFacts ==
  ASSUME NEW recs \in Seq(Recovery),
         \A i \in DOMAIN recs : GenuineMap(recs[i]),
         NEW d \in Docs, NEW out \in Renderings(recs, d)
  PROVE  /\ NewMappings(recs, d, out) \in Recovery
         /\ GenuineMap(NewMappings(recs, d, out))
         /\ EmittedPairs(d, out) \subseteq Pairs
         /\ \A p \in EmittedPairs(d, out) :
              /\ GenuinePair(p[1], p[2])
              /\ \/ NewMappings(recs, d, out)[p[1]] # NoValue
                 \/ \E i \in DOMAIN recs : recs[i][p[1]] # NoValue
  <1> DEFINE map == NewMappings(recs, d, out)
             at(h) == {i \in DOMAIN d : ~Known(recs, d[i]) /\ out[i] = h}
  <1>0. /\ \A i \in DOMAIN d : d[i] \in Values
        /\ \A i \in DOMAIN d : out[i] \in Handles
    BY DocFacts DEF Renderings
  <1>1. \A i \in DOMAIN d : ~Known(recs, d[i]) => GenuinePair(out[i], d[i])
    BY <1>0 DEF Renderings, EngineHandle, GenuinePair
  <1>2. \A i \in DOMAIN d : Known(recs, d[i]) =>
           /\ \E k \in DOMAIN recs : recs[k][out[i]] = d[i]
           /\ GenuinePair(out[i], d[i])
           /\ \E k \in DOMAIN recs : recs[k][out[i]] # NoValue
    <2> SUFFICES ASSUME NEW i \in DOMAIN d, Known(recs, d[i])
                 PROVE  /\ \E k \in DOMAIN recs : recs[k][out[i]] = d[i]
                        /\ GenuinePair(out[i], d[i])
                        /\ \E k \in DOMAIN recs : recs[k][out[i]] # NoValue
      OBVIOUS
    <2>1. out[i] \in RemaskHandles(recs, d[i])
      BY DEF Renderings
    <2>2. PICK k \in DOMAIN recs : recs[k][out[i]] = d[i]
      BY <2>1 DEF RemaskHandles
    <2>3. recs[k][out[i]] # NoValue
      BY <2>2, <1>0, ValuesAssumption
    <2>4. GenuinePair(out[i], d[i])
      BY <2>2, <2>3, <1>0 DEF GenuineMap
    <2> QED BY <2>2, <2>3, <2>4
  <1>3. \A h \in Handles : map[h] = IF at(h) = {} THEN NoValue
                                    ELSE d[CHOOSE i \in at(h) : TRUE]
    BY DEF NewMappings
  <1>4. \A h \in Handles : at(h) # {} =>
           \E i \in DOMAIN d : ~Known(recs, d[i]) /\ out[i] = h /\ map[h] = d[i]
    <2> SUFFICES ASSUME NEW h \in Handles, at(h) # {}
                 PROVE  \E i \in DOMAIN d : ~Known(recs, d[i]) /\ out[i] = h /\ map[h] = d[i]
      OBVIOUS
    <2>1. (CHOOSE i \in at(h) : TRUE) \in at(h)
      OBVIOUS
    <2> QED BY <2>1, <1>3
  <1>5. map \in Recovery
    BY <1>0, <1>3, <1>4 DEF NewMappings, Recovery
  <1>6. GenuineMap(map)
    BY <1>1, <1>3, <1>4 DEF GenuineMap
  <1>7. \A i \in DOMAIN d : ~Known(recs, d[i]) => map[out[i]] # NoValue
    <2> SUFFICES ASSUME NEW i \in DOMAIN d, ~Known(recs, d[i])
                 PROVE  map[out[i]] # NoValue
      OBVIOUS
    <2>1. i \in at(out[i])
      OBVIOUS
    <2> QED BY <2>1, <1>0, <1>4, ValuesAssumption
  <1>8. EmittedPairs(d, out) \subseteq Pairs
    BY <1>0 DEF EmittedPairs, Pairs
  <1>9. \A p \in EmittedPairs(d, out) :
              /\ GenuinePair(p[1], p[2])
              /\ map[p[1]] # NoValue \/ \E i \in DOMAIN recs : recs[i][p[1]] # NoValue
    BY <1>1, <1>2, <1>7 DEF EmittedPairs
  <1> HIDE DEF map
  <1> QED BY <1>5, <1>6, <1>8, <1>9 DEF map


\* The parts of Genuine that speak of one thread's masker and job.
ClientGenuine(d) ==
  /\ \A i \in DOMAIN snapshot[d] : GenuineMap(snapshot[d][i])
  /\ GenuineMap(pending[d])
  /\ GenuineMap(delta[d])
  /\ \A p \in held[d] : GenuinePair(p[1], p[2])
  /\ \A p \in after[d] : GenuinePair(p[1], p[2])

\* A thread the step is not about.
Same(d) ==
  /\ masker'[d] = masker[d] /\ snapshot'[d] = snapshot[d]
  /\ pending'[d] = pending[d] /\ held'[d] = held[d] /\ stream'[d] = stream[d]
  /\ phase'[d] = phase[d] /\ delta'[d] = delta[d] /\ after'[d] = after[d]
  /\ printed'[d] = printed[d] /\ (d \in mixed' <=> d \in mixed)

\* Its mappings stay genuine.
LEMMA SameGenuine ==
  ASSUME IInv, NEW d \in Clients, Same(d)
  PROVE  ClientGenuine(d)'
  BY DEF IInv, Genuine, ClientGenuine, Same

\* It stays quiet as long as its session is left alone.
LEMMA SameQuiet ==
  ASSUME IInv, NEW d \in Clients, Same(d), session' = session
  PROVE  QuietThread(d)'
  BY DEF IInv, Quiet, QuietThread, Same, Session

\* A store that only grows keeps every obligation of such a thread.
LEMMA SameBacked ==
  ASSUME IInv, NEW d \in Clients, Same(d), session' = session, storeUp, storeUp',
         Within(store, store')
  PROVE  /\ Session(d)' = "store" => ClientBacked(d)'
         /\ PrintedBacked(d)'
  <1>1. \A h \in Handles : store[h] # NoValue => store'[h] # NoValue
    BY DEF Within
  <1>2. /\ \A p \in held[d] : p[1] \in Handles
        /\ \A p \in after[d] : p[1] \in Handles
        /\ \A h \in printed[d] : h \in Handles
    BY DEF IInv, TypeOK, Pairs
  <1>3. PrintedBacked(d)'
    BY <1>1, <1>2 DEF IInv, Backed, PrintedBacked, Same
  <1>4. ASSUME Session(d)' = "store" PROVE ClientBacked(d)'
    <2>1. ClientBacked(d)
      BY <1>4 DEF IInv, Backed, Session
    <2>2. \A i \in DOMAIN snapshot'[d] : Within(snapshot'[d][i], store')
      BY <1>1, <2>1 DEF ClientBacked, Within, Same
    <2>3. phase'[d] = "replied" => Within(delta'[d], store')
      BY <1>1, <2>1 DEF ClientBacked, Within, Same
    <2>4. /\ \A p \in held'[d] : \/ store'[p[1]] # NoValue
                                 \/ pending'[d][p[1]] # NoValue
                                 \/ delta'[d][p[1]] # NoValue
          /\ \A p \in after'[d] : store'[p[1]] # NoValue \/ delta'[d][p[1]] # NoValue
      BY <1>1, <1>2, <2>1 DEF ClientBacked, Same
    <2> QED BY <2>2, <2>3, <2>4 DEF ClientBacked
  <1> QED BY <1>3, <1>4

\* The state of a step that touches one thread, its session's maps and the store.
OneThread(c) ==
  /\ session' = session
  /\ storeUp' = storeUp
  /\ Within(store, store') /\ GenuineMap(store')
  /\ \A map \in stale' : GenuineMap(map)
  /\ \A d \in Clients : d # c => Same(d)
  /\ \A p \in released' : GenuinePair(p[1], p[2])
  /\ \A p \in Processes : p # ProcessOf[c] => recoveries'[p] = recoveries[p]
  /\ \A i \in DOMAIN recoveries'[ProcessOf[c]] : GenuineMap(recoveries'[ProcessOf[c]][i])
  /\ \/ recoveries'[ProcessOf[c]] = recoveries[ProcessOf[c]]
     \/ Session(c) \in {"store", "local"}
  /\ ClientGenuine(c)'
  /\ QuietThread(c)'

\* What such a step owes while the store lives.
OneThreadBacked(c) ==
  storeUp => /\ \A h \in promised' : store'[h] # NoValue
             /\ Session(c) = "store" => SessionBacked(ProcessOf[c])' /\ ClientBacked(c)'
             /\ PrintedBacked(c)'

\* It keeps the invariant.
LEMMA OneThreadKeeps ==
  ASSUME IInv, NEW c \in Clients, OneThread(c), TypeOK', Apart', OneThreadBacked(c)
  PROVE  IInv'
  <1>p. ProcessOf[c] \in Processes
    BY ThreadsAssumption
  <1>1. Genuine'
    <2>1. \A d \in Clients : ClientGenuine(d)'
      BY SameGenuine DEF OneThread
    <2>2. \A p \in Processes : \A i \in DOMAIN recoveries'[p] : GenuineMap(recoveries'[p][i])
      BY DEF OneThread, IInv, Genuine
    <2> QED BY <2>1, <2>2 DEF OneThread, Genuine, ClientGenuine
  <1>2. Quiet'
    <2>1. \A d \in Clients : QuietThread(d)'
      BY SameQuiet DEF OneThread
    <2>2. \A p \in Processes : session'[p] \in {"none", "ended"} => recoveries'[p] = <<>>
      BY DEF OneThread, IInv, Quiet, Session
    <2> QED BY <2>1, <2>2 DEF Quiet
  <1>3. Backed'
    <2> SUFFICES ASSUME storeUp'
                 PROVE  /\ \A h \in promised' : store'[h] # NoValue
                        /\ \A p \in Processes : session'[p] = "store" => SessionBacked(p)'
                        /\ \A d \in Clients : Session(d)' = "store" => ClientBacked(d)'
                        /\ \A d \in Clients : PrintedBacked(d)'
      BY DEF Backed
    <2>0. storeUp /\ session' = session /\ Within(store, store')
      BY DEF OneThread
    <2>1. \A h \in promised' : store'[h] # NoValue
      BY <2>0 DEF OneThreadBacked
    <2>2. ASSUME NEW p \in Processes, session'[p] = "store" PROVE SessionBacked(p)'
      <3>1. CASE p = ProcessOf[c]
        BY <2>0, <2>2, <3>1 DEF OneThreadBacked, Session
      <3>2. CASE p # ProcessOf[c]
        <4>1. SessionBacked(p)
          BY <2>0, <2>2 DEF IInv, Backed
        <4>2. recoveries'[p] = recoveries[p]
          BY <3>2 DEF OneThread
        <4>3. mixed' \cap Threads(p) = mixed \cap Threads(p)
          BY <3>2 DEF OneThread, Same, Threads
        <4> QED BY <2>0, <4>1, <4>2, <4>3 DEF SessionBacked, Within, Threads
      <3> QED BY <3>1, <3>2
    <2>3. ASSUME NEW d \in Clients
          PROVE  (Session(d)' = "store" => ClientBacked(d)') /\ PrintedBacked(d)'
      <3>1. CASE d = c
        BY <2>0, <3>1 DEF OneThreadBacked, Session
      <3>2. CASE d # c
        BY <2>0, <3>2, SameBacked DEF OneThread
      <3> QED BY <3>1, <3>2
    <2> QED BY <2>1, <2>2, <2>3
  <1> QED BY <1>1, <1>2, <1>3 DEF IInv

\* Threads that stop masking, and streams that end, disturb no other thread.
LEMMA ApartFrame ==
  ASSUME IInv, mixed' = mixed,
         \A d \in Clients : /\ stream'[d] = "none" <=> stream[d] = "none"
                            /\ stream[d] = "ok" => stream'[d] = "ok"
                            /\ masker'[d] \in {masker[d], "none"}
                            /\ masker'[d] = "none" /\ phase'[d] # "idle" =>
                                 masker[d] = "none" /\ phase[d] # "idle"
  PROVE  Apart'
  <1> SUFFICES ASSUME NEW c \in Clients
               PROVE  /\ masker'[c] \notin {"none", "live"} => Alone(c)'
                      /\ masker'[c] = "none" /\ phase'[c] # "idle" => Alone(c)'
                      /\ c \in mixed' => /\ stream'[c] = "ok"
                                         /\ \A d \in Siblings(c) : stream'[d] # "none"
    BY DEF Apart, Siblings, Threads
  <1>1. Alone(c) => Alone(c)'
    BY DEF Alone, Resting, Siblings, Threads
  <1>2. c \in mixed => \A d \in Siblings(c) : stream[d] # "none"
    BY DEF IInv, Apart
  <1>3. Siblings(c) \subseteq Clients
    BY DEF Siblings, Threads
  <1> QED BY <1>1, <1>2, <1>3 DEF IInv, Apart

\* A step that leaves the threads alone.
LEMMA SameApart ==
  ASSUME IInv, \A d \in Clients : Same(d)
  PROVE  Apart'
  <1>1. mixed' \cap Clients = mixed \cap Clients
    BY DEF Same
  <1>2. \A c \in Clients : Alone(c)' <=> Alone(c)
    BY DEF Alone, Resting, Siblings, Threads, Same
  <1>3. \A c \in Clients : Siblings(c) \subseteq Clients
    BY DEF Siblings, Threads
  <1> SUFFICES ASSUME NEW c \in Clients
               PROVE  /\ masker'[c] \notin {"none", "live"} => Alone(c)'
                      /\ masker'[c] = "none" /\ phase'[c] # "idle" => Alone(c)'
                      /\ c \in mixed' => /\ stream'[c] = "ok"
                                         /\ \A d \in Siblings(c) : stream'[d] # "none"
    BY DEF Apart, Siblings, Threads
  <1> QED BY <1>2, <1>3 DEF IInv, Apart, Same

\* A session opens: the store's own map, or nothing.
LEMMA OpenKeeps ==
  ASSUME IInv, NEW p \in Processes, OpenStore(p) \/ OpenLocal(p)
  PROVE  IInv'
  <1> USE DEF mapVars, maskerVars, jobVars, ghostVars
  <1>a. /\ TypeOK /\ Genuine /\ Quiet /\ Apart /\ Backed
        /\ session[p] = "none"
    BY DEF IInv, OpenStore, OpenLocal
  <1>f. /\ storeUp' = storeUp /\ store' = store /\ stale' = stale /\ ops' = ops
        /\ UNCHANGED <<maskerVars, jobVars, ghostVars>>
        /\ session' \in [Processes -> {"none", "store", "local", "ended"}]
        /\ session'[p] \in {"store", "local"}
        /\ \A q \in Processes : q # p => session'[q] = session[q] /\ recoveries'[q] = recoveries[q]
    BY <1>a DEF OpenStore, OpenLocal, TypeOK
  <1>g. /\ recoveries' \in [Processes -> Seq(Recovery)]
        /\ \A i \in DOMAIN recoveries'[p] : recoveries'[p][i] = store
    <2>1. CASE OpenLocal(p)
      <3>1. recoveries' = recoveries /\ recoveries[p] = <<>>
        BY <1>a, <2>1 DEF OpenLocal, Quiet
      <3> QED BY <1>a, <3>1 DEF TypeOK
    <2>2. CASE OpenStore(p)
      <3>1. /\ recoveries' = [recoveries EXCEPT ![p] = IF store = Empty THEN <<>> ELSE <<store>>]
            /\ recoveries \in [Processes -> Seq(Recovery)] /\ store \in Recovery
        BY <1>a, <2>2 DEF OpenStore, TypeOK
      <3>2. /\ recoveries' \in [Processes -> Seq(Recovery)]
            /\ recoveries'[p] \in {<<>>, <<store>>}
        BY <3>1
      <3> QED BY <3>2
    <2> QED BY <2>1, <2>2
  <1>s. \A d \in Clients : Same(d)
    BY <1>f DEF Same
  <1>1. TypeOK'
    BY <1>a, <1>f, <1>g DEF TypeOK
  <1>2. Genuine'
    <2>1. \A q \in Processes : \A i \in DOMAIN recoveries'[q] : GenuineMap(recoveries'[q][i])
      BY <1>a, <1>f, <1>g DEF Genuine
    <2> QED BY <1>a, <1>f, <2>1 DEF Genuine
  <1>q. \A d \in Clients : ProcessOf[d] = p =>
           masker[d] = "none" /\ snapshot[d] = <<>> /\ phase[d] = "idle"
    BY <1>a DEF Quiet, QuietThread, Session
  <1>3. Quiet'
    <2>1. ASSUME NEW d \in Clients PROVE QuietThread(d)'
      <3>1. QuietThread(d)
        BY <1>a DEF Quiet
      <3>2. CASE ProcessOf[d] = p
        BY <1>f, <1>q, <3>1, <3>2 DEF QuietThread, Session
      <3>3. CASE ProcessOf[d] # p
        <4>1. Session(d)' = Session(d)
          BY <1>f, <3>3, ThreadsAssumption DEF Session
        <4> QED BY <1>f, <3>1, <4>1 DEF QuietThread
      <3> QED BY <3>2, <3>3
    <2>2. \A q \in Processes : session'[q] \in {"none", "ended"} => recoveries'[q] = <<>>
      BY <1>a, <1>f DEF Quiet
    <2> QED BY <2>1, <2>2 DEF Quiet
  <1>4. Apart'
    BY <1>s, SameApart
  <1>5. Backed'
    <2> SUFFICES ASSUME storeUp
                 PROVE  /\ \A h \in promised' : store'[h] # NoValue
                        /\ \A q \in Processes : session'[q] = "store" => SessionBacked(q)'
                        /\ \A d \in Clients : Session(d)' = "store" => ClientBacked(d)'
                        /\ \A d \in Clients : PrintedBacked(d)'
      BY <1>f DEF Backed
    <2>1. ASSUME NEW q \in Processes, session'[q] = "store" PROVE SessionBacked(q)'
      <3>1. CASE q = p
        BY <1>f, <1>g, <3>1 DEF SessionBacked, Within
      <3>2. CASE q # p
        BY <1>a, <1>f, <2>1, <3>2 DEF Backed, SessionBacked, Threads
      <3> QED BY <3>1, <3>2
    <2>2. ASSUME NEW d \in Clients, Session(d)' = "store" PROVE ClientBacked(d)'
      <3>1. CASE ProcessOf[d] = p
        <4>1. held[d] = {} /\ after[d] = {}
          BY <1>a, <1>q, <3>1 DEF Quiet, QuietThread
        <4> QED BY <1>f, <1>q, <3>1, <4>1 DEF ClientBacked
      <3>2. CASE ProcessOf[d] # p
        <4>1. Session(d) = "store"
          BY <1>f, <2>2, <3>2, ThreadsAssumption DEF Session
        <4> QED BY <1>a, <1>f, <4>1 DEF Backed, ClientBacked
      <3> QED BY <3>1, <3>2
    <2>3. \A d \in Clients : PrintedBacked(d)'
      BY <1>a, <1>f DEF Backed, PrintedBacked
    <2> QED BY <1>a, <1>f, <2>1, <2>2, <2>3 DEF Backed
  <1> QED BY <1>1, <1>2, <1>3, <1>4, <1>5 DEF IInv

\* A process that ended holds nothing; its request may still arrive.
LEMMA CrashKeeps ==
  ASSUME IInv, NEW p \in Processes, Crash(p)
  PROVE  IInv'
  <1> USE DEF ghostVars
  <1>a. TypeOK /\ Genuine /\ Quiet /\ Apart /\ Backed
    BY DEF IInv
  <1>f. /\ storeUp' = storeUp /\ store' = store /\ ops' = ops
        /\ UNCHANGED ghostVars
        /\ session' \in [Processes -> {"none", "store", "local", "ended"}]
        /\ session'[p] = "ended" /\ recoveries'[p] = <<>>
        /\ recoveries' \in [Processes -> Seq(Recovery)]
        /\ \A q \in Processes : q # p => session'[q] = session[q] /\ recoveries'[q] = recoveries[q]
    BY <1>a DEF Crash, TypeOK
  <1>g. /\ \A map \in stale' : map \in Recovery /\ GenuineMap(map)
    BY <1>a DEF Crash, TypeOK, Genuine, Threads
  <1>o. \A d \in Clients : ProcessOf[d] # p => Same(d) /\ attempt'[d] = attempt[d]
    BY <1>f DEF Crash, Same
  <1>h. \A d \in Clients : ProcessOf[d] = p =>
           /\ masker'[d] = "none" /\ snapshot'[d] = <<>> /\ pending'[d] = Empty
           /\ held'[d] = {} /\ phase'[d] = "idle" /\ attempt'[d] = 0
           /\ delta'[d] = Empty /\ after'[d] = {}
           /\ stream'[d] = IF stream[d] = "running" THEN "error" ELSE stream[d]
    BY DEF Crash
  <1>t. /\ stream' \in [Clients -> {"none", "running", "ok", "error"}]
        /\ masker' \in [Clients -> Modes \cup {"none"}]
        /\ snapshot' \in [Clients -> Seq(Recovery)]
        /\ pending' \in [Clients -> Recovery]
        /\ held' \in [Clients -> SUBSET Pairs]
        /\ phase' \in [Clients -> {"idle", "ready", "sent", "replied", "late"}]
        /\ attempt' \in [Clients -> 0..1]
        /\ delta' \in [Clients -> Recovery]
        /\ after' \in [Clients -> SUBSET Pairs]
    BY <1>a, EmptyRecovery DEF Crash, TypeOK
  <1>1. TypeOK'
    BY <1>a, <1>f, <1>g, <1>t DEF TypeOK
  <1>2. Genuine'
    <2>1. \A d \in Clients : ClientGenuine(d)'
      <3>1. ASSUME NEW d \in Clients, ProcessOf[d] = p PROVE ClientGenuine(d)'
        BY <1>h, <3>1, EmptyRecovery DEF ClientGenuine
      <3> QED BY <1>o, <3>1, SameGenuine
    <2>2. \A q \in Processes : \A i \in DOMAIN recoveries'[q] : GenuineMap(recoveries'[q][i])
      BY <1>a, <1>f DEF Genuine
    <2> QED BY <1>a, <1>f, <1>g, <2>1, <2>2 DEF Genuine, ClientGenuine
  <1>3. Quiet'
    <2>1. ASSUME NEW d \in Clients PROVE QuietThread(d)'
      <3>1. QuietThread(d)
        BY <1>a DEF Quiet
      <3>2. CASE ProcessOf[d] = p
        BY <1>f, <1>h, <3>1, <3>2 DEF QuietThread, Session
      <3>3. CASE ProcessOf[d] # p
        <4>1. Session(d)' = Session(d)
          BY <1>f, <3>3, ThreadsAssumption DEF Session
        <4> QED BY <1>o, <3>1, <3>3, <4>1 DEF QuietThread, Same
      <3> QED BY <3>2, <3>3
    <2>2. \A q \in Processes : session'[q] \in {"none", "ended"} => recoveries'[q] = <<>>
      BY <1>a, <1>f DEF Quiet
    <2> QED BY <2>1, <2>2 DEF Quiet
  <1>4. Apart'
    <2>1. ASSUME NEW d \in Clients
          PROVE  /\ stream'[d] = "none" <=> stream[d] = "none"
                 /\ stream[d] = "ok" => stream'[d] = "ok"
                 /\ masker'[d] \in {masker[d], "none"}
                 /\ masker'[d] = "none" /\ phase'[d] # "idle" =>
                      masker[d] = "none" /\ phase[d] # "idle"
      BY <1>o, <1>h DEF Same
    <2> QED BY <1>f, <2>1, ApartFrame
  <1>5. Backed'
    <2> SUFFICES ASSUME storeUp
                 PROVE  /\ \A h \in promised' : store'[h] # NoValue
                        /\ \A q \in Processes : session'[q] = "store" => SessionBacked(q)'
                        /\ \A d \in Clients : Session(d)' = "store" => ClientBacked(d)'
                        /\ \A d \in Clients : PrintedBacked(d)'
      BY <1>f DEF Backed
    <2>1. \A q \in Processes : session'[q] = "store" => SessionBacked(q)'
      BY <1>a, <1>f DEF Backed, SessionBacked, Threads
    <2>2. ASSUME NEW d \in Clients, Session(d)' = "store" PROVE ClientBacked(d)'
      <3>1. ProcessOf[d] # p /\ Session(d) = "store"
        BY <1>f, <2>2, ThreadsAssumption DEF Session
      <3> QED BY <1>a, <1>f, <1>o, <3>1 DEF Backed, ClientBacked, Same
    <2>3. ASSUME NEW d \in Clients PROVE PrintedBacked(d)'
      <3>1. PrintedBacked(d)
        BY <1>a DEF Backed
      <3>2. CASE ProcessOf[d] = p
        BY <1>f, <1>h, <3>1, <3>2 DEF PrintedBacked
      <3>3. CASE ProcessOf[d] # p
        BY <1>f, <1>o, <3>1, <3>3 DEF PrintedBacked, Same
      <3> QED BY <3>2, <3>3
    <2> QED BY <1>a, <1>f, <2>1, <2>2, <2>3 DEF Backed
  <1> QED BY <1>1, <1>2, <1>3, <1>4, <1>5 DEF IInv

\* A dead store has no obligations.
LEMMA StoreExitKeeps ==
  ASSUME IInv, StoreExit
  PROVE  IInv'
  <1> USE EmptyRecovery DEF IInv, TypeOK, maskerVars, jobVars, ghostVars, StoreExit
  <1>1. TypeOK'
    OBVIOUS
  <1>2. Genuine'
    BY DEF Genuine
  <1>3. Quiet'
    BY DEF Quiet, QuietThread, Session
  <1>4. Apart'
    BY SameApart DEF Same
  <1>5. Backed'
    BY DEF Backed
  <1> QED BY <1>1, <1>2, <1>3, <1>4, <1>5

\* The server's merge of an abandoned payload keeps the map genuine and forgets
\* nothing.
LEMMA ServerAddLateKeeps ==
  ASSUME IInv, NEW map \in stale, ServerAddLate(map)
  PROVE  IInv'
  <1> USE DEF IInv, TypeOK, maskerVars, jobVars, ghostVars, ServerAddLate
  <1>0. /\ store \in Recovery /\ map \in Recovery /\ GenuineMap(store) /\ GenuineMap(map)
        /\ store' = Extend(store, map)
        /\ store' \in Recovery /\ GenuineMap(store')
        /\ Within(store, store')
    BY ExtendFacts DEF Genuine
  <1>s. \A d \in Clients : Same(d)
    BY DEF Same
  <1>1. TypeOK'
    BY <1>0
  <1>2. Genuine'
    BY <1>0 DEF Genuine
  <1>3. Quiet'
    BY DEF Quiet, QuietThread, Session
  <1>4. Apart'
    BY <1>s, SameApart
  <1>5. Backed'
    <2>1. \A h \in promised : storeUp => store'[h] # NoValue
      BY <1>0 DEF Backed, Within
    <2>2. ASSUME storeUp, NEW q \in Processes, session[q] = "store" PROVE SessionBacked(q)'
      <3>1. SessionBacked(q) /\ recoveries \in [Processes -> Seq(Recovery)]
        BY <2>2 DEF Backed
      <3>2. recoveries' = recoveries /\ mixed' = mixed
        OBVIOUS
      <3>3. recoveries[q] \in Seq(Recovery)
        BY <3>1
      <3> HIDE DEF IInv, TypeOK, ServerAddLate
      <3>4. ASSUME mixed \cap Threads(q) = {}, NEW i \in DOMAIN recoveries[q]
            PROVE  Within(recoveries[q][i], store')
        <4>1. Within(recoveries[q][i], store)
          BY <3>1, <3>4 DEF SessionBacked
        <4> QED BY <4>1, <1>0 DEF Within
      <3> QED BY <3>2, <3>4 DEF SessionBacked, Threads
    <2>3. ASSUME storeUp, NEW d \in Clients
          PROVE  (Session(d)' = "store" => ClientBacked(d)') /\ PrintedBacked(d)'
      BY <1>0, <1>s, <2>3, SameBacked
    <2> QED BY <2>1, <2>2, <2>3 DEF Backed
  <1> QED BY <1>1, <1>2, <1>3, <1>4, <1>5

\* The types of the masker's and the job's variables.
MaskerTypes ==
  /\ masker \in [Clients -> Modes \cup {"none"}]
  /\ snapshot \in [Clients -> Seq(Recovery)]
  /\ pending \in [Clients -> Recovery]
  /\ held \in [Clients -> SUBSET Pairs]
  /\ stream \in [Clients -> {"none", "running", "ok", "error"}]
JobTypes ==
  /\ phase \in [Clients -> {"idle", "ready", "sent", "replied", "late"}]
  /\ attempt \in [Clients -> 0..1]
  /\ delta \in [Clients -> Recovery]
  /\ after \in [Clients -> SUBSET Pairs]

\* The masker and the job of a thread the step is not about.
SameMasker(d) ==
  /\ masker'[d] = masker[d] /\ snapshot'[d] = snapshot[d]
  /\ pending'[d] = pending[d] /\ held'[d] = held[d] /\ stream'[d] = stream[d]
SameJob(d) == phase'[d] = phase[d] /\ delta'[d] = delta[d] /\ after'[d] = after[d]

\* DropMasker leaves one thread without a masker.
Dropped(c, result) ==
  /\ masker'[c] = "none" /\ snapshot'[c] = <<>> /\ pending'[c] = Empty /\ held'[c] = {}
  /\ stream'[c] = IF stream[c] = "running" THEN result ELSE stream[c]
LEMMA DropFacts ==
  ASSUME TypeOK, NEW c \in Clients, NEW result \in {"ok", "error"}, DropMasker(c, result)
  PROVE  /\ MaskerTypes'
         /\ Dropped(c, result)
         /\ \A d \in Clients : d # c => SameMasker(d)
  BY EmptyRecovery DEF TypeOK, DropMasker, Dropped, MaskerTypes, SameMasker

\* EndJob leaves one thread idle, and without its deferred masker.
JobEnded(c, result) ==
  /\ phase'[c] = "idle" /\ delta'[c] = Empty /\ after'[c] = {}
  /\ \/ masker[c] \in {"hook", "live"} /\ Dropped(c, result)
     \/ masker[c] \notin {"hook", "live"} /\ SameMasker(c)
LEMMA EndJobFacts ==
  ASSUME TypeOK, NEW c \in Clients, NEW result \in {"ok", "error"}, EndJob(c, result)
  PROVE  /\ MaskerTypes' /\ JobTypes'
         /\ JobEnded(c, result)
         /\ \A d \in Clients : d # c => SameMasker(d) /\ SameJob(d)
  <1>1. /\ JobTypes'
        /\ phase'[c] = "idle" /\ delta'[c] = Empty /\ after'[c] = {}
        /\ \A d \in Clients : d # c => SameJob(d)
    BY EmptyRecovery DEF TypeOK, EndJob, JobTypes, SameJob
  <1>2. CASE masker[c] \in {"hook", "live"}
    <2>1. DropMasker(c, result)
      BY <1>2 DEF EndJob
    <2> QED BY <1>1, <1>2, <2>1, DropFacts DEF JobEnded
  <1>3. CASE masker[c] \notin {"hook", "live"}
    <2>1. UNCHANGED maskerVars
      BY <1>3 DEF EndJob
    <2>2. MaskerTypes' /\ \A d \in Clients : SameMasker(d)
      BY <2>1 DEF maskerVars, TypeOK, MaskerTypes, SameMasker
    <2> QED BY <1>1, <1>3, <2>2 DEF JobEnded
  <1> QED BY <1>2, <1>3

\* StartAdd touches the job of one thread only.
LEMMA StartAddFacts ==
  ASSUME TypeOK, NEW c \in Clients, NEW map \in Recovery, NEW pairs \in SUBSET Pairs,
         StartAdd(c, map, pairs)
  PROVE  /\ JobTypes'
         /\ phase'[c] = "ready" /\ delta'[c] = map /\ after'[c] = pairs
         /\ \A d \in Clients : d # c => SameJob(d)
  BY DEF TypeOK, StartAdd, JobTypes, SameJob

\* What PushLocal makes of the sessions' maps.
Pushed(c, map) ==
  /\ recoveries' \in [Processes -> Seq(Recovery)]
  /\ \A p \in Processes : p # ProcessOf[c] => recoveries'[p] = recoveries[p]
  /\ \A i \in DOMAIN recoveries'[ProcessOf[c]] :
       \/ /\ i \in DOMAIN recoveries[ProcessOf[c]]
          /\ recoveries'[ProcessOf[c]][i] = recoveries[ProcessOf[c]][i]
       \/ recoveries'[ProcessOf[c]][i] = map
LEMMA PushFacts ==
  ASSUME TypeOK, NEW c \in Clients, NEW map \in Recovery,
         PushLocal(c, map) \/ recoveries' = recoveries
  PROVE  Pushed(c, map)
  <1> DEFINE p == ProcessOf[c]
  <1>0. p \in Processes /\ recoveries \in [Processes -> Seq(Recovery)]
    BY ThreadsAssumption DEF TypeOK
  <1>1. CASE recoveries' = recoveries
    BY <1>0, <1>1 DEF Pushed
  <1>2. CASE recoveries' # recoveries
    <2>1. recoveries' = [recoveries EXCEPT ![p] = Append(recoveries[p], map)]
      BY <1>2 DEF PushLocal
    <2>2. recoveries[p] \in Seq(Recovery)
      BY <1>0
    <2>3. Append(recoveries[p], map) \in Seq(Recovery)
      BY <2>2
    <2>4. \A i \in DOMAIN Append(recoveries[p], map) :
             \/ i \in DOMAIN recoveries[p] /\ Append(recoveries[p], map)[i] = recoveries[p][i]
             \/ Append(recoveries[p], map)[i] = map
      BY <2>2
    <2>5. recoveries'[p] = Append(recoveries[p], map)
      BY <1>0, <2>1
    <2>6. /\ recoveries' \in [Processes -> Seq(Recovery)]
          /\ \A q \in Processes : q # p => recoveries'[q] = recoveries[q]
      BY <1>0, <2>1, <2>3
    <2> QED BY <2>4, <2>5, <2>6 DEF Pushed
  <1> QED BY <1>1, <1>2

\* The part of a one-thread step that speaks of the session's maps.
LEMMA PushedGenuine ==
  ASSUME IInv, NEW c \in Clients, NEW map \in Recovery, Pushed(c, map),
         GenuineMap(map) \/ recoveries' = recoveries
  PROVE  /\ \A p \in Processes : p # ProcessOf[c] => recoveries'[p] = recoveries[p]
         /\ \A i \in DOMAIN recoveries'[ProcessOf[c]] :
              GenuineMap(recoveries'[ProcessOf[c]][i])
  <1>1. ProcessOf[c] \in Processes
    BY ThreadsAssumption
  <1> QED BY <1>1 DEF IInv, Genuine, Pushed

\* A session keeps behind the store when the map it takes in is in the store, or
\* when one of its streams took the other's answer.
LEMMA PushedBacked ==
  ASSUME IInv, NEW c \in Clients, NEW map \in Recovery, Pushed(c, map),
         storeUp, Session(c) = "store", Within(store, store'), mixed \subseteq mixed',
         Within(map, store') \/ recoveries' = recoveries
  PROVE  SessionBacked(ProcessOf[c])'
  <1>1. ProcessOf[c] \in Processes /\ SessionBacked(ProcessOf[c])
    BY ThreadsAssumption DEF IInv, Backed, Session
  <1>2. mixed' \cap Threads(ProcessOf[c]) = {} => mixed \cap Threads(ProcessOf[c]) = {}
    OBVIOUS
  <1>3. ASSUME mixed \cap Threads(ProcessOf[c]) = {}, NEW i \in DOMAIN recoveries'[ProcessOf[c]]
        PROVE  Within(recoveries'[ProcessOf[c]][i], store')
    BY <1>1, <1>3 DEF Pushed, SessionBacked, Within
  <1> QED BY <1>2, <1>3 DEF SessionBacked, Threads

\* A deferred masker remasks with the session's maps of that moment; a stream that
\* begins finds no sibling that took its answer.
LEMMA NewMaskerKeeps ==
  ASSUME IInv, NEW c \in Clients, NEW mode \in Modes, NewMasker(c, mode)
  PROVE  IInv'
  <1> DEFINE p == ProcessOf[c]
  <1>a. TypeOK /\ Genuine /\ Quiet /\ Apart /\ Backed
    BY DEF IInv
  <1>p. p \in Processes /\ c \in Threads(p)
    BY ThreadsAssumption DEF Threads
  <1>f. /\ storeUp' = storeUp /\ store' = store /\ stale' = stale /\ session' = session
        /\ recoveries' = recoveries /\ ops' = ops /\ UNCHANGED jobVars
        /\ UNCHANGED ghostVars /\ pending' = pending /\ held' = held
        /\ masker[c] = "none" /\ phase[c] = "idle" /\ stream[c] = "none"
        /\ Session(c) \in {"store", "local"}
        /\ \A d \in Siblings(c) : Resting(d) \/ (mode = "live" /\ stream[d] # "none")
    BY DEF NewMasker, mapVars, Resting
  <1>t. MaskerTypes'
    BY <1>a, <1>f, <1>p DEF NewMasker, TypeOK, MaskerTypes, Modes, Recoveries
  <1>h. /\ masker'[c] = mode
        /\ snapshot'[c] \in {<<>>, Recoveries(c)}
        /\ stream'[c] = IF mode = "live" THEN "running" ELSE "none"
        /\ \A d \in Clients : d # c =>
             masker'[d] = masker[d] /\ snapshot'[d] = snapshot[d] /\ stream'[d] = stream[d]
    BY <1>a DEF NewMasker, TypeOK
  <1>o. \A d \in Clients : d # c => Same(d)
    BY <1>f, <1>h DEF Same, jobVars, ghostVars
  <1>q. /\ delta[c] = Empty /\ after[c] = {} /\ held[c] = {} /\ pending[c] = Empty
        /\ printed[c] = {}
    BY <1>a, <1>f DEF Quiet, QuietThread
  <1>m. mixed \cap Threads(p) = {}
    <2> SUFFICES ASSUME NEW d \in mixed, d \in Threads(p) PROVE FALSE
      OBVIOUS
    <2>1. d \in Clients /\ stream[d] = "ok" /\ \A e \in Siblings(d) : stream[e] # "none"
      BY <1>a DEF Apart, Threads
    <2>2. d # c => c \in Siblings(d)
      BY <1>p DEF Siblings, Threads
    <2> QED BY <1>f, <2>1, <2>2
  <1>1. TypeOK'
    BY <1>a, <1>f, <1>t DEF TypeOK, MaskerTypes, jobVars, ghostVars
  <1>2. OneThread(c)
    <2>1. Within(store, store') /\ GenuineMap(store')
      BY <1>a, <1>f DEF Within, Genuine
    <2>2. ClientGenuine(c)'
      <3>1. \A i \in DOMAIN snapshot'[c] : GenuineMap(snapshot'[c][i])
        BY <1>a, <1>h, <1>p DEF Genuine, Recoveries
      <3> QED BY <1>a, <1>f, <3>1 DEF Genuine, ClientGenuine, jobVars
    <2>3. QuietThread(c)'
      BY <1>f, <1>h, <1>q DEF QuietThread, Session, jobVars, ghostVars, Modes
    <2> QED BY <1>a, <1>f, <1>o, <1>p, <2>1, <2>2, <2>3 DEF OneThread, Genuine, ghostVars
  <1>3. Apart'
    <2> SUFFICES ASSUME NEW d \in Clients
                 PROVE  /\ masker'[d] \notin {"none", "live"} => Alone(d)'
                        /\ masker'[d] = "none" /\ phase'[d] # "idle" => Alone(d)'
                        /\ d \in mixed' => /\ stream'[d] = "ok"
                                           /\ \A e \in Siblings(d) : stream'[e] # "none"
      BY DEF Apart, Siblings, Threads
    <2>1. d \in mixed' => /\ stream'[d] = "ok"
                          /\ \A e \in Siblings(d) : stream'[e] # "none"
      <3> SUFFICES ASSUME d \in mixed PROVE /\ stream'[d] = "ok"
                                            /\ \A e \in Siblings(d) : stream'[e] # "none"
        BY <1>f DEF ghostVars
      <3>1. d # c /\ c \notin Siblings(d)
        BY <1>a, <1>f DEF Apart
      <3>2. Siblings(d) \subseteq Clients
        BY DEF Siblings, Threads
      <3> QED BY <1>a, <1>h, <3>1, <3>2 DEF Apart
    <2>2. CASE d = c
      <3>1. mode # "live" => \A e \in Siblings(c) : Resting(e)'
        BY <1>f, <1>h DEF Siblings, Threads, Resting, jobVars
      <3>2. mode # "live" => Alone(d)'
        BY <1>h, <2>2, <3>1 DEF Alone, Siblings, Threads
      <3> QED BY <1>f, <1>h, <2>1, <2>2, <3>2 DEF Modes
    <2>3. CASE d # c /\ ProcessOf[d] # p
      <3>1. Alone(d) => Alone(d)'
        BY <1>f, <1>h, <2>3 DEF Alone, Resting, Siblings, Threads, jobVars
      <3> QED BY <1>a, <1>f, <1>h, <2>1, <2>3, <3>1 DEF Apart, jobVars
    <2>4. CASE d \in Siblings(c)
      <3>1. d # c /\ d \in Clients
        BY <2>4 DEF Siblings, Threads
      <3>2. Resting(d) \/ ~Alone(d)
        BY <1>f, <2>4 DEF Alone
      <3> QED BY <1>a, <1>f, <1>h, <2>1, <3>1, <3>2 DEF Apart, Resting, jobVars
    <2> QED BY <2>2, <2>3, <2>4 DEF Siblings, Threads
  <1>4. OneThreadBacked(c)
    <2> SUFFICES ASSUME storeUp
                 PROVE  /\ \A h \in promised' : store'[h] # NoValue
                        /\ Session(c) = "store" => SessionBacked(p)' /\ ClientBacked(c)'
                        /\ PrintedBacked(c)'
      BY DEF OneThreadBacked
    <2>1. \A h \in promised' : store'[h] # NoValue
      BY <1>a, <1>f DEF Backed, ghostVars
    <2>2. PrintedBacked(c)'
      BY <1>f, <1>q DEF PrintedBacked, ghostVars
    <2>3. ASSUME Session(c) = "store" PROVE SessionBacked(p)' /\ ClientBacked(c)'
      <3>1. SessionBacked(p)
        BY <1>a, <1>p, <2>3 DEF Backed, Session
      <3>2. \A i \in DOMAIN Recoveries(c) : Within(Recoveries(c)[i], store)
        BY <1>m, <3>1 DEF SessionBacked, Recoveries
      <3>3. SessionBacked(p)'
        BY <1>f, <3>1 DEF SessionBacked, ghostVars, Threads
      <3>4. ClientBacked(c)'
        BY <1>f, <1>h, <1>q, <3>2 DEF ClientBacked, jobVars
      <3> QED BY <3>3, <3>4
    <2> QED BY <2>1, <2>2, <2>3
  <1> QED BY <1>1, <1>2, <1>3, <1>4, OneThreadKeeps

\* A masker is dropped: a shared one leaves nothing behind; a deferred one loses its
\* pending mappings, and the stream that printed them ends in an error.
LEMMA DropKeeps ==
  ASSUME IInv, NEW c \in Clients, FailDeferred(c) \/ CloseMasker(c)
  PROVE  IInv'
  <1> DEFINE p == ProcessOf[c]
  <1>a. TypeOK /\ Genuine /\ Quiet /\ Apart /\ Backed
    BY DEF IInv
  <1>p. p \in Processes
    BY ThreadsAssumption
  <1>f. /\ storeUp' = storeUp /\ store' = store /\ stale' = stale /\ session' = session
        /\ recoveries' = recoveries /\ ops' = ops /\ UNCHANGED jobVars
        /\ UNCHANGED ghostVars /\ phase[c] = "idle"
    BY DEF FailDeferred, CloseMasker, mapVars
  <1>r. PICK result \in {"ok", "error"} :
           DropMasker(c, result) /\ (masker[c] = "live" => result = "error")
    BY DEF FailDeferred, CloseMasker
  <1>h. MaskerTypes' /\ Dropped(c, result) /\ \A d \in Clients : d # c => SameMasker(d)
    BY <1>a, <1>r, DropFacts
  <1>o. \A d \in Clients : d # c => Same(d)
    BY <1>f, <1>h DEF Same, SameMasker, jobVars, ghostVars
  <1>q. /\ QuietThread(c) /\ delta[c] = Empty /\ after[c] = {}
        /\ stream[c] = "running" => masker[c] = "live"
    BY <1>a, <1>f DEF Quiet, QuietThread
  <1>1. TypeOK'
    BY <1>a, <1>f, <1>h DEF TypeOK, MaskerTypes, jobVars, ghostVars
  <1>2. OneThread(c)
    <2>1. Within(store, store') /\ GenuineMap(store')
      BY <1>a, <1>f DEF Within, Genuine
    <2>2. ClientGenuine(c)'
      BY <1>f, <1>h, <1>q, EmptyRecovery DEF ClientGenuine, Dropped, jobVars
    <2>3. QuietThread(c)'
      BY <1>f, <1>h, <1>q DEF QuietThread, Session, Dropped, jobVars, ghostVars
    <2> QED BY <1>a, <1>f, <1>o, <1>p, <2>1, <2>2, <2>3 DEF OneThread, Genuine, ghostVars
  <1>3. Apart'
    <2>1. ASSUME NEW d \in Clients
          PROVE  /\ stream'[d] = "none" <=> stream[d] = "none"
                 /\ stream[d] = "ok" => stream'[d] = "ok"
                 /\ masker'[d] \in {masker[d], "none"}
                 /\ masker'[d] = "none" /\ phase'[d] # "idle" =>
                      masker[d] = "none" /\ phase[d] # "idle"
      BY <1>f, <1>h DEF SameMasker, Dropped, jobVars
    <2> QED BY <1>f, <2>1, ApartFrame DEF ghostVars
  <1>4. OneThreadBacked(c)
    <2> SUFFICES ASSUME storeUp
                 PROVE  /\ \A h \in promised' : store'[h] # NoValue
                        /\ Session(c) = "store" => SessionBacked(p)' /\ ClientBacked(c)'
                        /\ PrintedBacked(c)'
      BY DEF OneThreadBacked
    <2>1. \A h \in promised' : store'[h] # NoValue
      BY <1>a, <1>f DEF Backed, ghostVars
    <2>2. PrintedBacked(c)'
      <3>1. PrintedBacked(c)
        BY <1>a DEF Backed
      <3> QED BY <1>f, <1>h, <1>q, <1>r, <3>1 DEF PrintedBacked, Dropped, ghostVars
    <2>3. Session(c) = "store" => SessionBacked(p)'
      BY <1>a, <1>f, <1>p DEF Backed, Session, SessionBacked, ghostVars, Threads
    <2>4. ClientBacked(c)'
      BY <1>f, <1>h, <1>q DEF ClientBacked, Dropped, jobVars
    <2> QED BY <2>1, <2>2, <2>3, <2>4
  <1> QED BY <1>1, <1>2, <1>3, <1>4, OneThreadKeeps

\* Steps of the request that change the phase and nothing the thread knows: the
\* payload is sent, or its answer is not awaited any longer.
LEMMA SendKeeps ==
  ASSUME IInv, NEW c \in Clients, SendAdd(c) \/ TimesOut(c)
  PROVE  IInv'
  <1> DEFINE p == ProcessOf[c]
  <1>a. TypeOK /\ Genuine /\ Quiet /\ Apart /\ Backed
    BY DEF IInv
  <1>p. p \in Processes
    BY ThreadsAssumption
  <1>f. /\ storeUp' = storeUp /\ store' = store /\ session' = session
        /\ recoveries' = recoveries /\ ops' = ops /\ UNCHANGED maskerVars
        /\ UNCHANGED ghostVars /\ delta' = delta /\ after' = after /\ attempt' = attempt
        /\ phase[c] # "idle"
        /\ stale' \subseteq stale \cup {delta[c]}
    BY DEF SendAdd, TimesOut, Abandoned, mapVars
  <1>h. /\ phase' \in [Clients -> {"idle", "ready", "sent", "replied", "late"}]
        /\ phase'[c] \in {"sent", "late"}
        /\ \A d \in Clients : d # c => phase'[d] = phase[d]
    BY <1>a DEF SendAdd, TimesOut, TypeOK
  <1>g. \A map \in stale' : map \in Recovery /\ GenuineMap(map)
    BY <1>a, <1>f DEF TypeOK, Genuine
  <1>o. \A d \in Clients : d # c => Same(d)
    BY <1>f, <1>h DEF Same, maskerVars, ghostVars
  <1>q. QuietThread(c)
    BY <1>a DEF Quiet
  <1>1. TypeOK'
    BY <1>a, <1>f, <1>g, <1>h DEF TypeOK, maskerVars, ghostVars
  <1>2. OneThread(c)
    <2>1. Within(store, store') /\ GenuineMap(store')
      BY <1>a, <1>f DEF Within, Genuine
    <2>2. ClientGenuine(c)'
      BY <1>a, <1>f DEF Genuine, ClientGenuine, maskerVars
    <2>3. QuietThread(c)'
      BY <1>f, <1>h, <1>q DEF QuietThread, Session, maskerVars, ghostVars
    <2> QED BY <1>a, <1>f, <1>g, <1>o, <1>p, <2>1, <2>2, <2>3 DEF OneThread, Genuine, ghostVars
  <1>3. Apart'
    <2>1. ASSUME NEW d \in Clients
          PROVE  /\ stream'[d] = "none" <=> stream[d] = "none"
                 /\ stream[d] = "ok" => stream'[d] = "ok"
                 /\ masker'[d] \in {masker[d], "none"}
                 /\ masker'[d] = "none" /\ phase'[d] # "idle" =>
                      masker[d] = "none" /\ phase[d] # "idle"
      BY <1>f, <1>h DEF maskerVars
    <2> QED BY <1>f, <2>1, ApartFrame DEF ghostVars
  <1>4. OneThreadBacked(c)
    <2> SUFFICES ASSUME storeUp
                 PROVE  /\ \A h \in promised' : store'[h] # NoValue
                        /\ Session(c) = "store" => SessionBacked(p)' /\ ClientBacked(c)'
                        /\ PrintedBacked(c)'
      BY DEF OneThreadBacked
    <2>1. \A h \in promised' : store'[h] # NoValue
      BY <1>a, <1>f DEF Backed, ghostVars
    <2>2. PrintedBacked(c)'
      BY <1>a, <1>f DEF Backed, PrintedBacked, maskerVars, ghostVars
    <2>3. Session(c) = "store" => SessionBacked(p)'
      BY <1>a, <1>f, <1>p DEF Backed, Session, SessionBacked, ghostVars, Threads
    <2>4. Session(c) = "store" => ClientBacked(c)'
      BY <1>a, <1>f, <1>h DEF Backed, ClientBacked, maskerVars
    <2> QED BY <2>1, <2>2, <2>3, <2>4
  <1> QED BY <1>1, <1>2, <1>3, <1>4, OneThreadKeeps

\* The server's merge of a request keeps the map genuine and forgets nothing.
LEMMA ServerAddKeeps ==
  ASSUME IInv, NEW c \in Clients, ServerAdd(c)
  PROVE  IInv'
  <1> DEFINE p == ProcessOf[c]
  <1>a. TypeOK /\ Genuine /\ Quiet /\ Apart /\ Backed
    BY DEF IInv
  <1>p. p \in Processes
    BY ThreadsAssumption
  <1>f. /\ storeUp' = storeUp /\ stale' = stale /\ session' = session
        /\ recoveries' = recoveries /\ ops' = ops /\ UNCHANGED maskerVars
        /\ UNCHANGED ghostVars /\ delta' = delta /\ after' = after /\ attempt' = attempt
        /\ phase[c] # "idle"
    BY DEF ServerAdd
  <1>h. /\ phase' \in [Clients -> {"idle", "ready", "sent", "replied", "late"}]
        /\ phase'[c] = "replied"
        /\ \A d \in Clients : d # c => phase'[d] = phase[d]
    BY <1>a DEF ServerAdd, TypeOK
  <1>g. /\ store' \in Recovery /\ GenuineMap(store')
        /\ Within(store, store') /\ Within(delta[c], store')
    <2>1. /\ store \in Recovery /\ delta[c] \in Recovery /\ GenuineMap(store)
          /\ GenuineMap(delta[c]) /\ store' = Extend(store, delta[c])
      BY <1>a DEF TypeOK, Genuine, ServerAdd
    <2> QED BY <2>1, ExtendFacts
  <1>w. \A h \in Handles : store[h] # NoValue => store'[h] # NoValue
    BY <1>g DEF Within
  <1>o. \A d \in Clients : d # c => Same(d)
    BY <1>f, <1>h DEF Same, maskerVars, ghostVars
  <1>q. QuietThread(c)
    BY <1>a DEF Quiet
  <1>1. TypeOK'
    BY <1>a, <1>f, <1>g, <1>h DEF TypeOK, maskerVars, ghostVars
  <1>2. OneThread(c)
    <2>2. ClientGenuine(c)'
      BY <1>a, <1>f DEF Genuine, ClientGenuine, maskerVars
    <2>3. QuietThread(c)'
      BY <1>f, <1>h, <1>q DEF QuietThread, Session, maskerVars, ghostVars
    <2> QED BY <1>a, <1>f, <1>g, <1>o, <1>p, <2>2, <2>3 DEF OneThread, Genuine, ghostVars
  <1>3. Apart'
    <2>1. ASSUME NEW d \in Clients
          PROVE  /\ stream'[d] = "none" <=> stream[d] = "none"
                 /\ stream[d] = "ok" => stream'[d] = "ok"
                 /\ masker'[d] \in {masker[d], "none"}
                 /\ masker'[d] = "none" /\ phase'[d] # "idle" =>
                      masker[d] = "none" /\ phase[d] # "idle"
      BY <1>f, <1>h DEF maskerVars
    <2> QED BY <1>f, <2>1, ApartFrame DEF ghostVars
  <1>4. OneThreadBacked(c)
    <2> SUFFICES ASSUME storeUp
                 PROVE  /\ \A h \in promised' : store'[h] # NoValue
                        /\ Session(c) = "store" => SessionBacked(p)' /\ ClientBacked(c)'
                        /\ PrintedBacked(c)'
      BY DEF OneThreadBacked
    <2>0. /\ \A q \in held[c] : q[1] \in Handles
          /\ \A q \in after[c] : q[1] \in Handles
          /\ \A h \in printed[c] : h \in Handles
      BY <1>a DEF TypeOK, Pairs
    <2>1. \A h \in promised' : store'[h] # NoValue
      BY <1>a, <1>f, <1>w DEF Backed, ghostVars, TypeOK
    <2>2. PrintedBacked(c)'
      BY <1>a, <1>f, <1>w, <2>0 DEF Backed, PrintedBacked, maskerVars, ghostVars
    <2>3. Session(c) = "store" => SessionBacked(p)'
      <3>1. Session(c) = "store" => SessionBacked(p)
        BY <1>a, <1>p DEF Backed, Session
      <3> QED BY <1>f, <1>w, <3>1 DEF SessionBacked, Within, ghostVars, Threads
    <2>4. ASSUME Session(c) = "store" PROVE ClientBacked(c)'
      <3>1. ClientBacked(c)
        BY <1>a, <2>4 DEF Backed
      <3>2. \A i \in DOMAIN snapshot'[c] : Within(snapshot'[c][i], store')
        BY <1>f, <1>w, <3>1 DEF ClientBacked, Within, maskerVars
      <3>3. Within(delta'[c], store')
        BY <1>f, <1>g
      <3>4. /\ \A q \in held'[c] : \/ store'[q[1]] # NoValue
                                   \/ pending'[c][q[1]] # NoValue
                                   \/ delta'[c][q[1]] # NoValue
            /\ \A q \in after'[c] : store'[q[1]] # NoValue \/ delta'[c][q[1]] # NoValue
        BY <1>f, <1>w, <2>0, <3>1 DEF ClientBacked, maskerVars
      <3> QED BY <3>2, <3>3, <3>4 DEF ClientBacked
    <2> QED BY <2>1, <2>2, <2>3, <2>4
  <1> QED BY <1>1, <1>2, <1>3, <1>4, OneThreadKeeps

\* What the end of a request leaves of the thread that made it.
LEMMA EndJobThread ==
  ASSUME IInv, NEW c \in Clients, NEW result \in {"ok", "error"}, EndJob(c, result),
         phase[c] # "idle", session' = session, printed' = printed, store' = store
  PROVE  /\ MaskerTypes' /\ JobTypes' /\ JobEnded(c, result)
         /\ \A d \in Clients : d # c => SameMasker(d) /\ SameJob(d)
         /\ ClientGenuine(c)' /\ QuietThread(c)'
         /\ storeUp => ClientBacked(c)'
         /\ \A d \in Clients : /\ stream'[d] = "none" <=> stream[d] = "none"
                               /\ stream[d] = "ok" => stream'[d] = "ok"
                               /\ masker'[d] \in {masker[d], "none"}
                               /\ masker'[d] = "none" /\ phase'[d] # "idle" =>
                                    masker[d] = "none" /\ phase[d] # "idle"
  <1>a. TypeOK /\ Genuine /\ Quiet /\ Apart /\ Backed
    BY DEF IInv
  <1>h. /\ MaskerTypes' /\ JobTypes' /\ JobEnded(c, result)
        /\ \A d \in Clients : d # c => SameMasker(d) /\ SameJob(d)
    BY <1>a, EndJobFacts
  <1>q. QuietThread(c) /\ Session(c) = "store"
    BY <1>a DEF Quiet, QuietThread
  <1>s. /\ stream'[c] = "none" <=> stream[c] = "none"
        /\ stream[c] = "ok" => stream'[c] = "ok"
        /\ stream'[c] # "running"
        /\ masker'[c] \in {masker[c], "none"} /\ masker'[c] \notin {"hook", "live"}
        /\ held'[c] = {} /\ pending'[c] = Empty
        /\ snapshot'[c] \in {snapshot[c], <<>>}
    BY <1>h, <1>q DEF JobEnded, Dropped, SameMasker, QuietThread
  <1>1. ClientGenuine(c)'
    <2>1. ClientGenuine(c)
      BY <1>a DEF Genuine, ClientGenuine
    <2>2. \A i \in DOMAIN snapshot'[c] : GenuineMap(snapshot'[c][i])
      BY <1>s, <2>1 DEF ClientGenuine
    <2> QED BY <1>h, <1>s, <2>2, EmptyRecovery DEF JobEnded, ClientGenuine
  <1>2. QuietThread(c)'
    <2>1. Session(c)' = "store"
      BY <1>q DEF Session
    <2> QED BY <1>h, <1>q, <1>s, <2>1 DEF QuietThread, JobEnded
  <1>3. storeUp => ClientBacked(c)'
    <2> SUFFICES ASSUME storeUp PROVE ClientBacked(c)'
      OBVIOUS
    <2>1. ClientBacked(c)
      BY <1>a, <1>q DEF Backed
    <2>2. \A i \in DOMAIN snapshot'[c] : Within(snapshot'[c][i], store')
      BY <1>s, <2>1 DEF ClientBacked
    <2> QED BY <1>h, <1>s, <2>2 DEF ClientBacked, JobEnded
  <1>4. ASSUME NEW d \in Clients
        PROVE  /\ stream'[d] = "none" <=> stream[d] = "none"
               /\ stream[d] = "ok" => stream'[d] = "ok"
               /\ masker'[d] \in {masker[d], "none"}
               /\ masker'[d] = "none" /\ phase'[d] # "idle" =>
                    masker[d] = "none" /\ phase[d] # "idle"
    <2>1. CASE d = c
      BY <1>h, <1>s, <2>1 DEF JobEnded
    <2>2. CASE d # c
      BY <1>h, <2>2 DEF SameMasker, SameJob
    <2> QED BY <2>1, <2>2
  <1> QED BY <1>h, <1>1, <1>2, <1>3, <1>4

\* The answer arrived: the map is in the store, so the session may know it, the text
\* may leave and what a stream has printed is promised.
LEMMA AddSucceedsKeeps ==
  ASSUME IInv, NEW c \in Clients, AddSucceeds(c)
  PROVE  IInv'
  <1> DEFINE p == ProcessOf[c]
  <1>a. TypeOK /\ Genuine /\ Quiet /\ Apart /\ Backed
    BY DEF IInv
  <1>p. p \in Processes
    BY ThreadsAssumption
  <1>f. /\ storeUp' = storeUp /\ store' = store /\ stale' = stale /\ session' = session
        /\ ops' = ops /\ printed' = printed /\ mixed' = mixed
        /\ phase[c] = "replied" /\ PushLocal(c, delta[c]) /\ EndJob(c, "ok")
        /\ Report(c, after[c])
    BY DEF AddSucceeds
  <1>q. QuietThread(c) /\ Session(c) = "store" /\ pending[c] = Empty
    BY <1>a, <1>f DEF Quiet, QuietThread
  <1>b. delta[c] \in Recovery /\ GenuineMap(delta[c]) /\ Pushed(c, delta[c])
    BY <1>a, <1>f, PushFacts DEF TypeOK, Genuine
  <1>e. /\ MaskerTypes' /\ JobTypes' /\ JobEnded(c, "ok")
        /\ \A d \in Clients : d # c => SameMasker(d) /\ SameJob(d)
        /\ ClientGenuine(c)' /\ QuietThread(c)'
        /\ storeUp => ClientBacked(c)'
        /\ \A d \in Clients : /\ stream'[d] = "none" <=> stream[d] = "none"
                              /\ stream[d] = "ok" => stream'[d] = "ok"
                              /\ masker'[d] \in {masker[d], "none"}
                              /\ masker'[d] = "none" /\ phase'[d] # "idle" =>
                                   masker[d] = "none" /\ phase[d] # "idle"
    BY <1>f, EndJobThread
  <1>g. /\ released' = released \cup after[c]
        /\ promised' \subseteq promised \cup EmittedHandles(after[c]) \cup printed[c]
        /\ masker[c] # "live" => promised' \subseteq promised \cup EmittedHandles(after[c])
    BY <1>f DEF Report
  <1>k. /\ after[c] \subseteq Pairs /\ EmittedHandles(after[c]) \subseteq Handles
        /\ printed[c] \subseteq Handles
    BY <1>a DEF TypeOK, EmittedHandles, Pairs
  <1>o. \A d \in Clients : d # c => Same(d)
    BY <1>e, <1>f DEF Same, SameMasker, SameJob
  <1>1. TypeOK'
    <2>1. released' \subseteq Pairs /\ promised' \subseteq Handles
      BY <1>a, <1>g, <1>k DEF TypeOK
    <2>2. recoveries' \in [Processes -> Seq(Recovery)]
      BY <1>b DEF Pushed
    <2> QED BY <1>a, <1>e, <1>f, <2>1, <2>2 DEF TypeOK, MaskerTypes, JobTypes
  <1>2. OneThread(c)
    <2>1. Within(store, store') /\ GenuineMap(store')
      BY <1>a, <1>f DEF Within, Genuine
    <2>2. /\ \A q \in Processes : q # ProcessOf[c] => recoveries'[q] = recoveries[q]
          /\ \A i \in DOMAIN recoveries'[ProcessOf[c]] :
               GenuineMap(recoveries'[ProcessOf[c]][i])
      BY <1>b, PushedGenuine
    <2>3. \A q \in released' : GenuinePair(q[1], q[2])
      BY <1>a, <1>g DEF Genuine
    <2> QED BY <1>a, <1>e, <1>f, <1>o, <1>q, <2>1, <2>2, <2>3 DEF OneThread, Genuine
  <1>3. Apart'
    BY <1>e, <1>f, ApartFrame
  <1>4. OneThreadBacked(c)
    <2> SUFFICES ASSUME storeUp
                 PROVE  /\ \A h \in promised' : store'[h] # NoValue
                        /\ Session(c) = "store" => SessionBacked(p)' /\ ClientBacked(c)'
                        /\ PrintedBacked(c)'
      BY DEF OneThreadBacked
    <2>0. ClientBacked(c) /\ PrintedBacked(c) /\ Within(delta[c], store)
      BY <1>a, <1>f, <1>q DEF Backed, ClientBacked
    <2>w. \A h \in Handles : delta[c][h] # NoValue => store[h] # NoValue
      BY <2>0 DEF Within
    <2>n. \A h \in Handles : pending[c][h] = NoValue
      BY <1>q DEF Empty
    <2>1. \A h \in EmittedHandles(after[c]) : store[h] # NoValue
      BY <1>k, <2>0, <2>w DEF ClientBacked, EmittedHandles, Pairs
    <2>2. masker[c] = "live" => \A h \in printed[c] : store[h] # NoValue
      <3>1. masker[c] = "live" => stream[c] = "running" /\ c \notin mixed
        BY <1>a, <1>q DEF QuietThread, Apart
      <3> QED BY <1>k, <2>0, <2>w, <2>n, <3>1 DEF PrintedBacked
    <2>3. \A h \in promised' : store'[h] # NoValue
      BY <1>a, <1>f, <1>g, <2>1, <2>2 DEF Backed
    <2>4. PrintedBacked(c)'
      <3>1. masker[c] # "live" => stream[c] # "running" /\ stream'[c] = stream[c]
        BY <1>q, <1>e DEF QuietThread, JobEnded, SameMasker, Dropped
      <3>2. CASE masker[c] = "live"
        BY <1>f, <2>2, <3>2 DEF PrintedBacked
      <3>3. CASE masker[c] # "live"
        BY <1>f, <2>0, <3>1, <3>3 DEF PrintedBacked
      <3> QED BY <3>2, <3>3
    <2>5. Within(store, store') /\ Within(delta[c], store') /\ mixed \subseteq mixed'
      BY <1>f, <2>0 DEF Within
    <2>6. SessionBacked(p)'
      BY <1>b, <1>q, <2>5, PushedBacked
    <2> QED BY <1>e, <2>3, <2>4, <2>6
  <1> QED BY <1>1, <1>2, <1>3, <1>4, OneThreadKeeps

\* A thread that takes the late answer to the other's request ends well over a map
\* that may never arrive: from then on it is `mixed`.
LEMMA TakesLateAnswerKeeps ==
  ASSUME IInv, NEW c \in Clients, TakesLateAnswer(c)
  PROVE  IInv'
  <1> DEFINE p == ProcessOf[c]
  <1>a. TypeOK /\ Genuine /\ Quiet /\ Apart /\ Backed
    BY DEF IInv
  <1>p. p \in Processes
    BY ThreadsAssumption
  <1>f. /\ storeUp' = storeUp /\ store' = store /\ session' = session
        /\ ops' = ops /\ printed' = printed /\ mixed' = mixed \cup {c}
        /\ promised' = promised /\ released' = released \cup after[c]
        /\ stale' \subseteq stale \cup {delta[c]}
        /\ phase[c] = "sent" /\ PushLocal(c, delta[c]) /\ EndJob(c, "ok")
    BY DEF TakesLateAnswer, Abandoned
  <1>q. QuietThread(c) /\ Session(c) = "store"
    BY <1>a, <1>f DEF Quiet, QuietThread
  <1>b. delta[c] \in Recovery /\ GenuineMap(delta[c]) /\ Pushed(c, delta[c])
    BY <1>a, <1>f, PushFacts DEF TypeOK, Genuine
  <1>e. /\ MaskerTypes' /\ JobTypes' /\ JobEnded(c, "ok")
        /\ \A d \in Clients : d # c => SameMasker(d) /\ SameJob(d)
        /\ ClientGenuine(c)' /\ QuietThread(c)'
        /\ storeUp => ClientBacked(c)'
        /\ \A d \in Clients : /\ stream'[d] = "none" <=> stream[d] = "none"
                              /\ stream[d] = "ok" => stream'[d] = "ok"
                              /\ masker'[d] \in {masker[d], "none"}
                              /\ masker'[d] = "none" /\ phase'[d] # "idle" =>
                                   masker[d] = "none" /\ phase[d] # "idle"
    BY <1>f, EndJobThread
  <1>g. \A map \in stale' : map \in Recovery /\ GenuineMap(map)
    BY <1>a, <1>b, <1>f DEF TypeOK, Genuine
  <1>o. \A d \in Clients : d # c => Same(d)
    BY <1>e, <1>f DEF Same, SameMasker, SameJob
  <1>1. TypeOK'
    <2>1. released' \subseteq Pairs /\ mixed' \subseteq Clients
      BY <1>a, <1>f DEF TypeOK
    <2>2. recoveries' \in [Processes -> Seq(Recovery)]
      BY <1>b DEF Pushed
    <2> QED BY <1>a, <1>e, <1>f, <1>g, <2>1, <2>2 DEF TypeOK, MaskerTypes, JobTypes
  <1>2. OneThread(c)
    <2>1. Within(store, store') /\ GenuineMap(store')
      BY <1>a, <1>f DEF Within, Genuine
    <2>2. /\ \A q \in Processes : q # ProcessOf[c] => recoveries'[q] = recoveries[q]
          /\ \A i \in DOMAIN recoveries'[ProcessOf[c]] :
               GenuineMap(recoveries'[ProcessOf[c]][i])
      BY <1>b, PushedGenuine
    <2>3. \A q \in released' : GenuinePair(q[1], q[2])
      BY <1>a, <1>f DEF Genuine
    <2> QED BY <1>e, <1>f, <1>g, <1>o, <1>q, <2>1, <2>2, <2>3 DEF OneThread
  <1>3. Apart'
    <2>1. PICK d \in Siblings(c) : phase[d] = "late"
      BY DEF TakesLateAnswer
    <2>2. /\ d \in Clients /\ d # c /\ ProcessOf[d] = p
          /\ c \in Siblings(d)
          /\ \A e \in Siblings(c) : e = d
      BY <2>1, ThreadsAssumption DEF Siblings, Threads
    <2>3. stream[c] # "none" /\ stream[d] # "none"
      <3>1. ASSUME NEW e \in Clients, NEW g \in Clients, ProcessOf[e] = ProcessOf[g],
                   phase[e] # "idle", phase[g] # "idle", e # g
            PROVE  stream[e] # "none"
        <4>1. masker[e] = "live" \/ Alone(e)
          BY <1>a, <3>1 DEF Apart
        <4>3. g \in Siblings(e)
          BY <3>1 DEF Siblings, Threads
        <4>2. masker[e] = "live" => stream[e] = "running"
          BY <1>a DEF Quiet, QuietThread
        <4> QED BY <3>1, <4>1, <4>2, <4>3 DEF Alone, Resting
      <3> QED BY <1>f, <2>1, <2>2, <3>1
    <2>4. /\ stream'[c] = "ok" /\ stream'[d] # "none"
          /\ stream[c] = "running" => stream'[c] = "ok"
      <3>1. stream[c] = "running" /\ masker[c] = "live"
        <4>1. ~Alone(c)
          BY <2>1, <2>2 DEF Alone, Resting
        <4> QED BY <1>a, <1>f, <1>q, <4>1 DEF Apart, QuietThread
      <3> QED BY <1>e, <2>2, <2>3, <3>1 DEF JobEnded, Dropped
    <2> SUFFICES ASSUME NEW e \in Clients
                 PROVE  /\ masker'[e] \notin {"none", "live"} => Alone(e)'
                        /\ masker'[e] = "none" /\ phase'[e] # "idle" => Alone(e)'
                        /\ e \in mixed' => /\ stream'[e] = "ok"
                                           /\ \A g \in Siblings(e) : stream'[g] # "none"
      BY DEF Apart, Siblings, Threads
    <2>5. Alone(e) => Alone(e)'
      BY <1>e DEF Alone, Resting, Siblings, Threads
    <2>6. e \in mixed => /\ stream[e] = "ok" /\ \A g \in Siblings(e) : stream[g] # "none"
      BY <1>a DEF Apart
    <2>7. Siblings(e) \subseteq Clients
      BY DEF Siblings, Threads
    <2>8. e \in mixed' => /\ stream'[e] = "ok"
                         /\ \A g \in Siblings(e) : stream'[g] # "none"
      BY <1>e, <1>f, <2>2, <2>4, <2>6, <2>7
    <2>9. /\ masker'[e] \notin {"none", "live"} => Alone(e)'
          /\ masker'[e] = "none" /\ phase'[e] # "idle" => Alone(e)'
      BY <1>a, <1>e, <2>5 DEF Apart
    <2> QED BY <2>8, <2>9
  <1>4. OneThreadBacked(c)
    <2> SUFFICES ASSUME storeUp
                 PROVE  /\ \A h \in promised' : store'[h] # NoValue
                        /\ Session(c) = "store" => SessionBacked(p)' /\ ClientBacked(c)'
                        /\ PrintedBacked(c)'
      BY DEF OneThreadBacked
    <2>1. \A h \in promised' : store'[h] # NoValue
      BY <1>a, <1>f DEF Backed
    <2>2. PrintedBacked(c)'
      BY <1>f DEF PrintedBacked
    <2>3. SessionBacked(p)'
      BY <1>f DEF SessionBacked, Threads
    <2> QED BY <1>e, <2>1, <2>2, <2>3
  <1> QED BY <1>1, <1>2, <1>3, <1>4, OneThreadKeeps

\* A failed attempt starts again or gives up; either way nothing was emitted and
\* the payload may still be applied.
LEMMA AttemptFailsKeeps ==
  ASSUME IInv, NEW c \in Clients, AttemptFails(c)
  PROVE  IInv'
  <1> DEFINE p == ProcessOf[c]
  <1>a. TypeOK /\ Genuine /\ Quiet /\ Apart /\ Backed
    BY DEF IInv
  <1>p. p \in Processes
    BY ThreadsAssumption
  <1>f. /\ storeUp' = storeUp /\ store' = store /\ session' = session
        /\ recoveries' = recoveries /\ ops' = ops /\ UNCHANGED ghostVars
        /\ stale' \subseteq stale \cup {delta[c]}
        /\ phase[c] # "idle"
    BY DEF AttemptFails, Abandoned
  <1>g. \A map \in stale' : map \in Recovery /\ GenuineMap(map)
    BY <1>a, <1>f DEF TypeOK, Genuine
  <1>q. QuietThread(c) /\ Session(c) = "store"
    BY <1>a, <1>f DEF Quiet, QuietThread
  <1>w. Within(store, store') /\ GenuineMap(store')
    BY <1>a, <1>f DEF Within, Genuine
  <1>s. storeUp => SessionBacked(p)' /\ \A h \in promised' : store'[h] # NoValue
    BY <1>a, <1>f, <1>p, <1>q DEF Backed, Session, SessionBacked, ghostVars, Threads
  <1>1. CASE /\ attempt' = [attempt EXCEPT ![c] = 1]
             /\ phase' = [phase EXCEPT ![c] = "ready"]
             /\ UNCHANGED <<delta, after, maskerVars>>
    <2>h. /\ phase'[c] = "ready"
          /\ \A d \in Clients : d # c => phase'[d] = phase[d]
      BY <1>a, <1>1 DEF TypeOK
    <2>o. \A d \in Clients : d # c => Same(d)
      BY <1>f, <1>1, <2>h DEF Same, maskerVars, ghostVars
    <2>1. TypeOK'
      BY <1>a, <1>f, <1>g, <1>1 DEF TypeOK, maskerVars, ghostVars
    <2>2. OneThread(c)
      <3>1. ClientGenuine(c)'
        BY <1>a, <1>1 DEF Genuine, ClientGenuine, maskerVars
      <3>2. QuietThread(c)'
        BY <1>f, <1>1, <1>q, <2>h DEF QuietThread, Session, maskerVars, ghostVars
      <3> QED BY <1>a, <1>f, <1>g, <1>p, <1>w, <2>o, <3>1, <3>2 DEF OneThread, Genuine, ghostVars
    <2>3. Apart'
      <3>1. ASSUME NEW d \in Clients
            PROVE  /\ stream'[d] = "none" <=> stream[d] = "none"
                   /\ stream[d] = "ok" => stream'[d] = "ok"
                   /\ masker'[d] \in {masker[d], "none"}
                   /\ masker'[d] = "none" /\ phase'[d] # "idle" =>
                        masker[d] = "none" /\ phase[d] # "idle"
        BY <1>f, <1>1, <2>h DEF maskerVars
      <3> QED BY <1>f, <3>1, ApartFrame DEF ghostVars
    <2>4. OneThreadBacked(c)
      <3>1. storeUp => ClientBacked(c)' /\ PrintedBacked(c)'
        BY <1>a, <1>f, <1>1, <1>q, <2>h DEF Backed, ClientBacked, PrintedBacked, maskerVars, ghostVars
      <3> QED BY <1>s, <3>1 DEF OneThreadBacked
    <2> QED BY <2>1, <2>2, <2>3, <2>4, OneThreadKeeps
  <1>2. CASE EndJob(c, "error")
    <2>e. /\ MaskerTypes' /\ JobTypes' /\ JobEnded(c, "error")
          /\ \A d \in Clients : d # c => SameMasker(d) /\ SameJob(d)
          /\ ClientGenuine(c)' /\ QuietThread(c)'
          /\ storeUp => ClientBacked(c)'
          /\ \A d \in Clients : /\ stream'[d] = "none" <=> stream[d] = "none"
                                /\ stream[d] = "ok" => stream'[d] = "ok"
                                /\ masker'[d] \in {masker[d], "none"}
                                /\ masker'[d] = "none" /\ phase'[d] # "idle" =>
                                     masker[d] = "none" /\ phase[d] # "idle"
      BY <1>f, <1>2, EndJobThread DEF ghostVars
    <2>o. \A d \in Clients : d # c => Same(d)
      BY <1>f, <2>e DEF Same, SameMasker, SameJob, ghostVars
    <2>1. TypeOK'
      BY <1>a, <1>f, <1>g, <2>e DEF TypeOK, MaskerTypes, JobTypes, ghostVars
    <2>2. OneThread(c)
      BY <1>a, <1>f, <1>g, <1>p, <1>w, <2>e, <2>o DEF OneThread, Genuine, ghostVars
    <2>3. Apart'
      BY <1>f, <2>e, ApartFrame DEF ghostVars
    <2>4. OneThreadBacked(c)
      <3>1. ASSUME storeUp PROVE PrintedBacked(c)'
        <4>1. PrintedBacked(c)
          BY <1>a, <3>1 DEF Backed
        <4>2. stream'[c] = "error" \/ (stream[c] # "running" /\ stream'[c] = stream[c])
          BY <1>q, <2>e DEF JobEnded, Dropped, SameMasker, QuietThread
        <4> QED BY <1>f, <4>1, <4>2 DEF PrintedBacked, ghostVars
      <3> QED BY <1>s, <2>e, <3>1 DEF OneThreadBacked
    <2> QED BY <2>1, <2>2, <2>3, <2>4, OneThreadKeeps
  <1> QED BY <1>1, <1>2 DEF AttemptFails

\* A mapping rebuilt from a file is genuine.
LEMMA FileMapFacts ==
  ASSUME NEW h \in Handles, FileIndex[h] # NoValue
  PROVE  /\ [Empty EXCEPT ![h] = FileIndex[h]] \in Recovery
         /\ GenuineMap([Empty EXCEPT ![h] = FileIndex[h]])
  BY FileIndexAssumption DEF Empty, Recovery, GenuineMap, GenuinePair

\* A file recovery joins the session, or its request, like any other mapping.
LEMMA ResolveFromFileKeeps ==
  ASSUME IInv, NEW c \in Clients, NEW h \in Handles, ResolveFromFile(c, h)
  PROVE  IInv'
  <1> DEFINE map == [Empty EXCEPT ![h] = FileIndex[h]]
             p == ProcessOf[c]
  <1>a. TypeOK /\ Genuine /\ Quiet /\ Apart /\ Backed
    BY DEF IInv
  <1>p. p \in Processes /\ c \in Threads(p)
    BY ThreadsAssumption DEF Threads
  <1>b. map \in Recovery /\ GenuineMap(map)
    BY FileMapFacts DEF ResolveFromFile
  <1>f. /\ storeUp' = storeUp /\ store' = store /\ stale' = stale
        /\ session' = session /\ ops' = ops + 1
        /\ UNCHANGED maskerVars /\ UNCHANGED ghostVars
        /\ \A d \in Threads(p) : Resting(d)
        /\ Session(c) \in {"store", "local"}
    BY DEF ResolveFromFile
  <1>c. \/ Session(c) = "local" /\ PushLocal(c, map) /\ UNCHANGED jobVars
        \/ Session(c) = "store" /\ StartAdd(c, map, {}) /\ UNCHANGED recoveries
    BY DEF ResolveFromFile
  <1> HIDE DEF map
  <1>r. masker[c] = "none" /\ phase[c] = "idle" /\ stream[c] = "none"
    BY <1>f, <1>p DEF Resting
  <1>q. QuietThread(c) /\ delta[c] = Empty /\ after[c] = {} /\ held[c] = {} /\ pending[c] = Empty
        /\ printed[c] = {}
    BY <1>a, <1>r DEF Quiet, QuietThread
  <1>u. Pushed(c, map)
    BY <1>a, <1>b, <1>c, PushFacts
  <1>v. /\ \A q \in Processes : q # ProcessOf[c] => recoveries'[q] = recoveries[q]
        /\ \A i \in DOMAIN recoveries'[ProcessOf[c]] : GenuineMap(recoveries'[ProcessOf[c]][i])
    BY <1>b, <1>u, PushedGenuine
  <1>j. /\ JobTypes'
        /\ \A d \in Clients : d # c => SameJob(d)
        /\ \/ phase'[c] = "idle" /\ delta'[c] = Empty
           \/ phase'[c] = "ready" /\ delta'[c] = map /\ Session(c) = "store"
        /\ after'[c] = {}
    <2>1. CASE UNCHANGED jobVars
      BY <1>a, <1>q, <1>r, <2>1 DEF jobVars, TypeOK, JobTypes, SameJob
    <2>2. CASE Session(c) = "store" /\ StartAdd(c, map, {})
      <3>1. {} \in SUBSET Pairs
        OBVIOUS
      <3> QED BY <1>a, <1>b, <2>2, <3>1, StartAddFacts
    <2> QED BY <1>c, <2>1, <2>2
  <1>o. \A d \in Clients : d # c => Same(d)
    BY <1>f, <1>j DEF Same, SameJob, maskerVars, ghostVars
  <1>w. Within(store, store') /\ GenuineMap(store')
    BY <1>a, <1>f DEF Within, Genuine
  <1>1. TypeOK'
    BY <1>a, <1>f, <1>j, <1>u DEF TypeOK, Pushed, JobTypes, maskerVars, ghostVars
  <1>2. OneThread(c)
    <2>1. ClientGenuine(c)'
      BY <1>a, <1>b, <1>f, <1>j, EmptyRecovery DEF Genuine, ClientGenuine, maskerVars
    <2>2. QuietThread(c)'
      BY <1>f, <1>j, <1>q, <1>r DEF QuietThread, Session, maskerVars, ghostVars
    <2> QED BY <1>a, <1>f, <1>o, <1>v, <1>w, <2>1, <2>2 DEF OneThread, Genuine, ghostVars
  <1>3. Apart'
    <2> SUFFICES ASSUME NEW d \in Clients
                 PROVE  /\ masker'[d] \notin {"none", "live"} => Alone(d)'
                        /\ masker'[d] = "none" /\ phase'[d] # "idle" => Alone(d)'
                        /\ d \in mixed' => /\ stream'[d] = "ok"
                                           /\ \A e \in Siblings(d) : stream'[e] # "none"
      BY DEF Apart, Siblings, Threads
    <2>1. d \in mixed' => /\ stream'[d] = "ok"
                          /\ \A e \in Siblings(d) : stream'[e] # "none"
      BY <1>a, <1>f DEF Apart, maskerVars, ghostVars
    <2>2. CASE d \in Threads(p) /\ d # c
      BY <1>f, <1>o, <2>1, <2>2 DEF Resting, Same
    <2>3. CASE d = c
      <3>1. \A e \in Siblings(c) : Resting(e)'
        BY <1>f, <1>o DEF Resting, Siblings, Threads, Same
      <3> QED BY <1>f, <1>r, <2>1, <2>3, <3>1 DEF Alone, Siblings, Threads, maskerVars
    <2>4. CASE d \notin Threads(p)
      <3>1. Alone(d) => Alone(d)'
        BY <1>f, <1>o, <2>4 DEF Alone, Resting, Siblings, Threads, Same, maskerVars
      <3>2. Same(d)
        BY <1>o, <1>p, <2>4
      <3> QED BY <1>a, <2>1, <3>1, <3>2 DEF Apart, Same
    <2> QED BY <2>2, <2>3, <2>4
  <1>4. OneThreadBacked(c)
    <2> SUFFICES ASSUME storeUp
                 PROVE  /\ \A g \in promised' : store'[g] # NoValue
                        /\ Session(c) = "store" => SessionBacked(p)' /\ ClientBacked(c)'
                        /\ PrintedBacked(c)'
      BY DEF OneThreadBacked
    <2>1. \A g \in promised' : store'[g] # NoValue
      BY <1>a, <1>f DEF Backed, ghostVars
    <2>2. PrintedBacked(c)'
      BY <1>f, <1>q DEF PrintedBacked, ghostVars
    <2>3. Session(c) = "store" => SessionBacked(p)'
      BY <1>a, <1>c, <1>f, <1>p DEF Backed, Session, SessionBacked, ghostVars, Threads
    <2>4. Session(c) = "store" => ClientBacked(c)'
      BY <1>a, <1>f, <1>j, <1>q DEF Backed, ClientBacked, maskerVars
    <2> QED BY <2>1, <2>2, <2>3, <2>4
  <1> QED BY <1>1, <1>2, <1>3, <1>4, OneThreadKeeps

\* No stream of the process of a thread that masks alone took the other's answer.
LEMMA AloneUnmixed ==
  ASSUME IInv, NEW c \in Clients, Alone(c)
  PROVE  mixed \cap Threads(ProcessOf[c]) = {}
  <1> SUFFICES ASSUME NEW d \in mixed, d \in Threads(ProcessOf[c]) PROVE FALSE
    OBVIOUS
  <1>1. d \in Clients /\ stream[d] = "ok"
    BY DEF IInv, Apart, Threads
  <1> QED BY <1>1 DEF Alone, Resting, Siblings

\* The maps a masker remasks with: typed, genuine and, for a store-backed
\* session, known to the living store.
LEMMA BaseFacts ==
  ASSUME IInv, NEW c \in Clients
  PROVE  /\ RemaskBase(c) \in Seq(Recovery)
         /\ \A i \in DOMAIN RemaskBase(c) : GenuineMap(RemaskBase(c)[i])
         /\ storeUp /\ Session(c) = "store" =>
              \A i \in DOMAIN RemaskBase(c) : Within(RemaskBase(c)[i], store)
  <1>a. TypeOK /\ Genuine /\ Apart /\ Backed
    BY DEF IInv
  <1>p. ProcessOf[c] \in Processes
    BY ThreadsAssumption
  <1>1. CASE masker[c] = "shared"
    <2>1. mixed \cap Threads(ProcessOf[c]) = {}
      BY <1>a, <1>1, AloneUnmixed DEF Apart
    <2>2. storeUp /\ Session(c) = "store" => SessionBacked(ProcessOf[c])
      BY <1>a, <1>p DEF Backed, Session
    <2> QED BY <1>a, <1>p, <1>1, <2>1, <2>2
            DEF TypeOK, Genuine, SessionBacked, RemaskBase, Recoveries
  <1>2. CASE masker[c] = "read"
    BY <1>2 DEF RemaskBase
  <1>3. CASE masker[c] \notin {"shared", "read"}
    BY <1>a, <1>3 DEF TypeOK, Genuine, Backed, ClientBacked, RemaskBase
  <1> QED BY <1>1, <1>2, <1>3

\* What one mask operation renders, seen from the thread that runs it: its map
\* and pairs are typed and genuine, and every emitted handle is in the new map
\* or, for a store-backed session, already in the living store.
LEMMA MaskFacts ==
  ASSUME IInv, NEW c \in Clients, NEW d \in Docs, NEW out \in Renderings(RemaskBase(c), d)
  PROVE  /\ NewMappings(RemaskBase(c), d, out) \in Recovery
         /\ GenuineMap(NewMappings(RemaskBase(c), d, out))
         /\ EmittedPairs(d, out) \in SUBSET Pairs
         /\ \A p \in EmittedPairs(d, out) : GenuinePair(p[1], p[2])
         /\ storeUp /\ Session(c) = "store" => \A p \in EmittedPairs(d, out) :
              \/ store[p[1]] # NoValue
              \/ NewMappings(RemaskBase(c), d, out)[p[1]] # NoValue
  <1> DEFINE recs == RemaskBase(c)
             map == NewMappings(recs, d, out)
  <1>1. /\ recs \in Seq(Recovery)
        /\ \A i \in DOMAIN recs : GenuineMap(recs[i])
        /\ storeUp /\ Session(c) = "store" =>
              \A i \in DOMAIN recs : Within(recs[i], store)
    BY BaseFacts
  <1> HIDE DEF recs
  <1>2. /\ map \in Recovery
        /\ GenuineMap(map)
        /\ EmittedPairs(d, out) \subseteq Pairs
        /\ \A p \in EmittedPairs(d, out) :
              /\ GenuinePair(p[1], p[2])
              /\ \/ map[p[1]] # NoValue
                 \/ \E i \in DOMAIN recs : recs[i][p[1]] # NoValue
    <2>1. out \in Renderings(recs, d)
      BY DEF recs
    <2> QED BY <1>1, <2>1, RenderFacts
  <1>3. \A p \in EmittedPairs(d, out) : p[1] \in Handles
    BY <1>2 DEF Pairs
  <1>4. storeUp /\ Session(c) = "store" => \A p \in EmittedPairs(d, out) :
              store[p[1]] # NoValue \/ map[p[1]] # NoValue
    BY <1>1, <1>2, <1>3 DEF Within
  <1> QED BY <1>2, <1>4 DEF recs

\* A shared masker emits after the ADD: at once when nothing is new or the
\* session is private, through a request otherwise.
LEMMA MaskSharedKeeps ==
  ASSUME IInv, NEW c \in Clients, NEW doc \in Docs, MaskShared(c, doc)
  PROVE  IInv'
  <1> DEFINE p == ProcessOf[c]
             newMap(out) == NewMappings(RemaskBase(c), doc, out)
  <1>a. TypeOK /\ Genuine /\ Quiet /\ Apart /\ Backed
    BY DEF IInv
  <1>p. p \in Processes
    BY ThreadsAssumption
  <1>d. PICK out \in Renderings(RemaskBase(c), doc) :
           \/ /\ newMap(out) = Empty
              /\ Emit(c, EmittedPairs(doc, out))
              /\ UNCHANGED <<recoveries, jobVars>>
           \/ /\ newMap(out) # Empty
              /\ Session(c) = "local"
              /\ PushLocal(c, newMap(out))
              /\ Emit(c, EmittedPairs(doc, out))
              /\ UNCHANGED jobVars
           \/ /\ newMap(out) # Empty
              /\ Session(c) = "store"
              /\ StartAdd(c, newMap(out), EmittedPairs(doc, out))
              /\ UNCHANGED <<recoveries, ghostVars>>
    BY DEF MaskShared
  <1> DEFINE map == newMap(out)
             pairs == EmittedPairs(doc, out)
  <1>b. /\ map \in Recovery /\ GenuineMap(map) /\ pairs \in SUBSET Pairs
        /\ \A q \in pairs : GenuinePair(q[1], q[2])
        /\ storeUp /\ Session(c) = "store" =>
              \A q \in pairs : store[q[1]] # NoValue \/ map[q[1]] # NoValue
    BY MaskFacts
  <1>c. \/ /\ map = Empty
           /\ Emit(c, pairs)
           /\ UNCHANGED <<recoveries, jobVars>>
        \/ /\ Session(c) = "local"
           /\ PushLocal(c, map)
           /\ Emit(c, pairs)
           /\ UNCHANGED jobVars
        \/ /\ Session(c) = "store"
           /\ StartAdd(c, map, pairs)
           /\ UNCHANGED <<recoveries, ghostVars>>
    BY <1>d
  <1> HIDE DEF map, pairs
  <1>f. /\ storeUp' = storeUp /\ store' = store /\ stale' = stale
        /\ session' = session /\ ops' = ops + 1 /\ UNCHANGED maskerVars
        /\ phase[c] = "idle" /\ masker[c] \in {"shared", "read"}
    BY DEF MaskShared
  <1>q. /\ QuietThread(c) /\ delta[c] = Empty /\ after[c] = {} /\ held[c] = {}
        /\ pending[c] = Empty /\ Session(c) \in {"store", "local"}
    BY <1>a, <1>f, <1>p DEF Quiet, QuietThread, Session, TypeOK
  <1>k. EmittedHandles(pairs) \subseteq Handles
    BY <1>b DEF EmittedHandles, Pairs
  <1>u. Pushed(c, map)
    BY <1>a, <1>b, <1>c, PushFacts
  <1>v. /\ \A q \in Processes : q # ProcessOf[c] => recoveries'[q] = recoveries[q]
        /\ \A i \in DOMAIN recoveries'[ProcessOf[c]] : GenuineMap(recoveries'[ProcessOf[c]][i])
    BY <1>b, <1>u, PushedGenuine
  <1>j. /\ JobTypes'
        /\ \A d \in Clients : d # c => SameJob(d)
        /\ \/ phase'[c] = "idle" /\ delta'[c] = Empty /\ after'[c] = {}
           \/ phase'[c] = "ready" /\ delta'[c] = map /\ after'[c] = pairs /\ Session(c) = "store"
    <2>1. CASE UNCHANGED jobVars
      BY <1>a, <1>q, <1>f, <2>1 DEF jobVars, TypeOK, JobTypes, SameJob
    <2>2. CASE Session(c) = "store" /\ StartAdd(c, map, pairs)
      BY <1>a, <1>b, <2>2, StartAddFacts
    <2> QED BY <1>c, <2>1, <2>2
  <1>e. /\ released' \subseteq released \cup pairs
        /\ promised' \subseteq promised \cup EmittedHandles(pairs)
        /\ Session(c) # "store" \/ map # Empty => promised' = promised
        /\ printed' = printed /\ mixed' = mixed
    <2>1. CASE Emit(c, pairs)
      BY <1>c, <1>f, <2>1 DEF Emit, ghostVars
    <2>2. CASE UNCHANGED ghostVars
      BY <2>2 DEF ghostVars
    <2> QED BY <1>c, <2>1, <2>2
  <1>o. \A d \in Clients : d # c => Same(d)
    BY <1>e, <1>f, <1>j DEF Same, SameJob, maskerVars
  <1>w. Within(store, store') /\ GenuineMap(store')
    BY <1>a, <1>f DEF Within, Genuine
  <1>1. TypeOK'
    <2>1. released' \subseteq Pairs /\ promised' \subseteq Handles
      BY <1>a, <1>b, <1>e, <1>k DEF TypeOK
    <2> QED BY <1>a, <1>e, <1>f, <1>j, <1>u, <2>1 DEF TypeOK, Pushed, JobTypes, maskerVars
  <1>2. OneThread(c)
    <2>1. ClientGenuine(c)'
      BY <1>a, <1>b, <1>f, <1>j, EmptyRecovery DEF Genuine, ClientGenuine, maskerVars
    <2>2. QuietThread(c)'
      BY <1>e, <1>f, <1>j, <1>q DEF QuietThread, Session, maskerVars
    <2>3. \A q \in released' : GenuinePair(q[1], q[2])
      BY <1>a, <1>b, <1>e DEF Genuine
    <2> QED BY <1>a, <1>f, <1>o, <1>q, <1>v, <1>w, <2>1, <2>2, <2>3 DEF OneThread, Genuine
  <1>3. Apart'
    <2>1. ASSUME NEW d \in Clients
          PROVE  /\ stream'[d] = "none" <=> stream[d] = "none"
                 /\ stream[d] = "ok" => stream'[d] = "ok"
                 /\ masker'[d] \in {masker[d], "none"}
                 /\ masker'[d] = "none" /\ phase'[d] # "idle" =>
                      masker[d] = "none" /\ phase[d] # "idle"
      BY <1>f, <1>j DEF SameJob, maskerVars
    <2> QED BY <1>e, <2>1, ApartFrame
  <1>4. OneThreadBacked(c)
    <2> SUFFICES ASSUME storeUp
                 PROVE  /\ \A h \in promised' : store'[h] # NoValue
                        /\ Session(c) = "store" => SessionBacked(p)' /\ ClientBacked(c)'
                        /\ PrintedBacked(c)'
      BY DEF OneThreadBacked
    <2>0. \A h \in Handles : Empty[h] = NoValue
      BY DEF Empty
    <2>k. \A q \in pairs : q[1] \in Handles
      BY <1>b DEF Pairs
    <2>1. ASSUME Session(c) = "store", map = Empty
          PROVE  \A h \in EmittedHandles(pairs) : store[h] # NoValue
      BY <1>b, <2>0, <2>1, <2>k DEF EmittedHandles
    <2>2. \A h \in promised' : store'[h] # NoValue
      BY <1>a, <1>e, <1>f, <2>1 DEF Backed
    <2>3. PrintedBacked(c)'
      <3>1. PrintedBacked(c)
        BY <1>a DEF Backed
      <3>2. stream[c] # "running" /\ stream' = stream
        BY <1>f, <1>q DEF QuietThread, maskerVars
      <3> QED BY <1>e, <1>f, <3>1, <3>2 DEF PrintedBacked
    <2>4. Session(c) = "store" => SessionBacked(p)'
      <3>1. Session(c) = "store" => recoveries' = recoveries /\ SessionBacked(p)
        BY <1>a, <1>c, <1>p DEF Backed, Session
      <3> QED BY <1>e, <1>f, <3>1 DEF SessionBacked, Threads
    <2>5. ASSUME Session(c) = "store" PROVE ClientBacked(c)'
      <3>1. ClientBacked(c)
        BY <1>a, <2>5 DEF Backed
      <3>2. \A i \in DOMAIN snapshot'[c] : Within(snapshot'[c][i], store')
        BY <1>f, <3>1 DEF ClientBacked, maskerVars
      <3>3. \A q \in after'[c] : store'[q[1]] # NoValue \/ delta'[c][q[1]] # NoValue
        BY <1>b, <1>f, <1>j, <2>5
      <3> QED BY <1>f, <1>j, <1>q, <3>2, <3>3 DEF ClientBacked, maskerVars
    <2> QED BY <2>2, <2>3, <2>4, <2>5
  <1> QED BY <1>1, <1>2, <1>3, <1>4, OneThreadKeeps

\* A deferred masker keeps the mapping in `pending` beside the held or printed
\* text.
LEMMA MaskDeferredKeeps ==
  ASSUME IInv, NEW c \in Clients, NEW doc \in Docs, MaskDeferred(c, doc)
  PROVE  IInv'
  <1> DEFINE p == ProcessOf[c]
             newMap(out) == NewMappings(RemaskBase(c), doc, out)
  <1>a. TypeOK /\ Genuine /\ Quiet /\ Apart /\ Backed
    BY DEF IInv
  <1>p. p \in Processes
    BY ThreadsAssumption
  <1>d. PICK out \in Renderings(RemaskBase(c), doc) :
          /\ pending' = [pending EXCEPT ![c] = Extend(pending[c], newMap(out))]
          /\ \/ /\ masker[c] = "hook"
                /\ held' = [held EXCEPT ![c] = held[c] \cup EmittedPairs(doc, out)]
                /\ UNCHANGED ghostVars
             \/ /\ masker[c] = "live"
                /\ Emit(c, EmittedPairs(doc, out))
                /\ UNCHANGED held
    BY DEF MaskDeferred
  <1> DEFINE map == newMap(out)
             pairs == EmittedPairs(doc, out)
  <1>b. /\ map \in Recovery /\ GenuineMap(map) /\ pairs \in SUBSET Pairs
        /\ \A q \in pairs : GenuinePair(q[1], q[2])
        /\ storeUp /\ Session(c) = "store" =>
              \A q \in pairs : store[q[1]] # NoValue \/ map[q[1]] # NoValue
    BY MaskFacts
  <1>c. /\ pending' = [pending EXCEPT ![c] = Extend(pending[c], map)]
        /\ \/ /\ masker[c] = "hook"
              /\ held' = [held EXCEPT ![c] = held[c] \cup pairs]
              /\ UNCHANGED ghostVars
           \/ /\ masker[c] = "live"
              /\ Emit(c, pairs)
              /\ UNCHANGED held
    BY <1>d
  <1> HIDE DEF map, pairs
  <1>f. /\ storeUp' = storeUp /\ store' = store /\ stale' = stale
        /\ recoveries' = recoveries /\ session' = session /\ ops' = ops + 1
        /\ masker' = masker /\ snapshot' = snapshot /\ stream' = stream
        /\ UNCHANGED jobVars /\ phase[c] = "idle"
        /\ masker[c] \in {"hook", "live"}
    BY DEF MaskDeferred, mapVars
  <1>q. /\ QuietThread(c) /\ delta[c] = Empty /\ after[c] = {}
        /\ Session(c) \in {"store", "local"}
    BY <1>a, <1>f, <1>p DEF Quiet, QuietThread, Session, TypeOK
  <1>k. EmittedHandles(pairs) \subseteq Handles
    BY <1>b DEF EmittedHandles, Pairs
  <1>x. /\ pending'[c] \in Recovery /\ GenuineMap(pending'[c])
        /\ Within(pending[c], pending'[c]) /\ Within(map, pending'[c])
        /\ pending' \in [Clients -> Recovery]
        /\ \A d \in Clients : d # c => pending'[d] = pending[d]
    <2>1. pending'[c] = Extend(pending[c], map)
      BY <1>a, <1>c DEF TypeOK
    <2>2. pending[c] \in Recovery /\ GenuineMap(pending[c])
      BY <1>a DEF TypeOK, Genuine
    <2>3. /\ pending'[c] \in Recovery /\ GenuineMap(pending'[c])
          /\ Within(pending[c], pending'[c]) /\ Within(map, pending'[c])
      BY <1>b, <2>1, <2>2, ExtendFacts
    <2> QED BY <1>a, <1>c, <2>1, <2>3 DEF TypeOK
  <1>e. /\ held' \in [Clients -> SUBSET Pairs]
        /\ printed' \in [Clients -> SUBSET Handles]
        /\ held'[c] \subseteq held[c] \cup pairs
        /\ printed'[c] \subseteq printed[c] \cup EmittedHandles(pairs)
        /\ \A d \in Clients : d # c => held'[d] = held[d] /\ printed'[d] = printed[d]
        /\ released' \subseteq released \cup pairs
        /\ promised' = promised /\ mixed' = mixed
        /\ masker[c] # "live" \/ Session(c) # "store" => printed' = printed
        /\ masker[c] = "live" => held' = held
    <2>1. CASE masker[c] = "hook"
      BY <1>a, <1>b, <1>c, <2>1 DEF TypeOK, ghostVars
    <2>2. CASE masker[c] = "live"
      <3>1. /\ held' = held
            /\ released' = released \cup pairs
            /\ promised' = promised /\ mixed' = mixed
            /\ printed' = IF Session(c) = "store"
                          THEN [printed EXCEPT ![c] = printed[c] \cup EmittedHandles(pairs)]
                          ELSE printed
        BY <1>c, <2>2 DEF Emit
      <3> QED BY <1>a, <1>k, <2>2, <3>1 DEF TypeOK
    <2> QED BY <1>c, <2>1, <2>2
  <1>o. \A d \in Clients : d # c => Same(d)
    BY <1>e, <1>f, <1>x DEF Same, jobVars
  <1>w. Within(store, store') /\ GenuineMap(store')
    BY <1>a, <1>f DEF Within, Genuine
  <1>1. TypeOK'
    <2>1. released' \subseteq Pairs
      BY <1>a, <1>b, <1>e DEF TypeOK
    <2> QED BY <1>a, <1>e, <1>f, <1>x, <2>1 DEF TypeOK, jobVars
  <1>2. OneThread(c)
    <2>1. ClientGenuine(c)'
      BY <1>a, <1>b, <1>e, <1>f, <1>x DEF Genuine, ClientGenuine, jobVars
    <2>2. QuietThread(c)'
      BY <1>e, <1>f, <1>q DEF QuietThread, Session, jobVars
    <2>3. \A q \in released' : GenuinePair(q[1], q[2])
      BY <1>a, <1>b, <1>e DEF Genuine
    <2> QED BY <1>a, <1>f, <1>o, <1>p, <1>w, <2>1, <2>2, <2>3 DEF OneThread, Genuine
  <1>3. Apart'
    <2>1. ASSUME NEW d \in Clients
          PROVE  /\ stream'[d] = "none" <=> stream[d] = "none"
                 /\ stream[d] = "ok" => stream'[d] = "ok"
                 /\ masker'[d] \in {masker[d], "none"}
                 /\ masker'[d] = "none" /\ phase'[d] # "idle" =>
                      masker[d] = "none" /\ phase[d] # "idle"
      BY <1>f DEF jobVars
    <2> QED BY <1>e, <2>1, ApartFrame
  <1>4. OneThreadBacked(c)
    <2> SUFFICES ASSUME storeUp
                 PROVE  /\ \A h \in promised' : store'[h] # NoValue
                        /\ Session(c) = "store" => SessionBacked(p)' /\ ClientBacked(c)'
                        /\ PrintedBacked(c)'
      BY DEF OneThreadBacked
    <2>w. \A h \in Handles : pending[c][h] # NoValue \/ map[h] # NoValue => pending'[c][h] # NoValue
      BY <1>x DEF Within
    <2>k. /\ \A q \in pairs : q[1] \in Handles
          /\ \A q \in held[c] : q[1] \in Handles
          /\ \A h \in printed[c] : h \in Handles
      BY <1>a, <1>b DEF Pairs, TypeOK
    <2>1. \A h \in promised' : store'[h] # NoValue
      BY <1>a, <1>e, <1>f DEF Backed
    <2>2. Session(c) = "store" => \A h \in EmittedHandles(pairs) :
             store[h] # NoValue \/ pending'[c][h] # NoValue
      BY <1>b, <2>k, <2>w DEF EmittedHandles
    <2>3. PrintedBacked(c)'
      <3>1. PrintedBacked(c)
        BY <1>a DEF Backed
      <3>2. CASE masker[c] = "live" /\ Session(c) = "store"
        <4>1. stream'[c] = "running"
          BY <1>f, <1>q, <3>2 DEF QuietThread
        <4> QED BY <1>e, <1>f, <2>2, <2>k, <2>w, <3>1, <3>2, <4>1 DEF PrintedBacked, jobVars
      <3>3. CASE ~(masker[c] = "live" /\ Session(c) = "store")
        BY <1>e, <1>f, <2>k, <2>w, <3>1, <3>3 DEF PrintedBacked, jobVars
      <3> QED BY <3>2, <3>3
    <2>4. Session(c) = "store" => SessionBacked(p)'
      BY <1>a, <1>e, <1>f, <1>p DEF Backed, Session, SessionBacked, Threads
    <2>5. ASSUME Session(c) = "store" PROVE ClientBacked(c)'
      <3>1. ClientBacked(c)
        BY <1>a, <2>5 DEF Backed
      <3>2. \A i \in DOMAIN snapshot'[c] : Within(snapshot'[c][i], store')
        BY <1>f, <3>1 DEF ClientBacked
      <3>3. \A q \in held'[c] : \/ store'[q[1]] # NoValue
                                \/ pending'[c][q[1]] # NoValue
                                \/ delta'[c][q[1]] # NoValue
        BY <1>b, <1>e, <1>f, <2>5, <2>k, <2>w, <3>1 DEF ClientBacked, jobVars
      <3> QED BY <1>f, <1>q, <3>2, <3>3 DEF ClientBacked, jobVars
    <2> QED BY <2>1, <2>3, <2>4, <2>5
  <1> QED BY <1>1, <1>2, <1>3, <1>4, OneThreadKeeps

\* flush takes the pending map into a request, or ends the masker.
LEMMA FlushKeeps ==
  ASSUME IInv, NEW c \in Clients, Flush(c)
  PROVE  IInv'
  <1> DEFINE p == ProcessOf[c]
  <1>a. TypeOK /\ Genuine /\ Quiet /\ Apart /\ Backed
    BY DEF IInv
  <1>p. p \in Processes
    BY ThreadsAssumption
  <1>b. /\ pending[c] \in Recovery /\ held[c] \in SUBSET Pairs /\ GenuineMap(pending[c])
        /\ \A q \in held[c] : q[1] \in Handles /\ GenuinePair(q[1], q[2])
        /\ \A h \in printed[c] : h \in Handles
    BY <1>a DEF TypeOK, Genuine, Pairs
  <1>f. /\ storeUp' = storeUp /\ store' = store /\ stale' = stale
        /\ session' = session /\ ops' = ops /\ phase[c] = "idle"
        /\ masker[c] \in {"hook", "live"}
    BY DEF Flush
  <1>q. /\ QuietThread(c) /\ delta[c] = Empty /\ after[c] = {}
        /\ Session(c) \in {"store", "local"}
    BY <1>a, <1>f, <1>p DEF Quiet, QuietThread, Session, TypeOK
  <1>w. Within(store, store') /\ GenuineMap(store')
    BY <1>a, <1>f DEF Within, Genuine
  <1>n. \A h \in Handles : Empty[h] = NoValue
    BY DEF Empty
  <1>1. CASE /\ Session(c) = "store"
             /\ StartAdd(c, pending[c], held[c])
             /\ pending' = [pending EXCEPT ![c] = Empty]
             /\ UNCHANGED <<recoveries, masker, snapshot, held, stream, ghostVars>>
    <2>j. /\ JobTypes'
          /\ phase'[c] = "ready" /\ delta'[c] = pending[c] /\ after'[c] = held[c]
          /\ \A d \in Clients : d # c => SameJob(d)
      BY <1>a, <1>b, <1>1, StartAddFacts
    <2>x. /\ pending' \in [Clients -> Recovery] /\ pending'[c] = Empty
          /\ \A d \in Clients : d # c => pending'[d] = pending[d]
      BY <1>a, <1>1, EmptyRecovery DEF TypeOK
    <2>o. \A d \in Clients : d # c => Same(d)
      BY <1>1, <2>j, <2>x DEF Same, SameJob, ghostVars
    <2>1. TypeOK'
      BY <1>a, <1>f, <1>1, <2>j, <2>x DEF TypeOK, JobTypes, ghostVars
    <2>2. OneThread(c)
      <3>1. ClientGenuine(c)'
        BY <1>a, <1>b, <1>1, <2>j, <2>x, EmptyRecovery DEF Genuine, ClientGenuine
      <3>2. QuietThread(c)'
        BY <1>f, <1>1, <1>q, <2>j, <2>x DEF QuietThread, Session, ghostVars
      <3> QED BY <1>a, <1>f, <1>1, <1>p, <1>w, <2>o, <3>1, <3>2 DEF OneThread, Genuine, ghostVars
    <2>3. Apart'
      <3>1. ASSUME NEW d \in Clients
            PROVE  /\ stream'[d] = "none" <=> stream[d] = "none"
                   /\ stream[d] = "ok" => stream'[d] = "ok"
                   /\ masker'[d] \in {masker[d], "none"}
                   /\ masker'[d] = "none" /\ phase'[d] # "idle" =>
                        masker[d] = "none" /\ phase[d] # "idle"
        BY <1>f, <1>1, <2>j DEF SameJob
      <3> QED BY <1>1, <3>1, ApartFrame DEF ghostVars
    <2>4. OneThreadBacked(c)
      <3> SUFFICES ASSUME storeUp
                   PROVE  /\ \A h \in promised' : store'[h] # NoValue
                          /\ SessionBacked(p)' /\ ClientBacked(c)' /\ PrintedBacked(c)'
        BY DEF OneThreadBacked
      <3>0. ClientBacked(c) /\ PrintedBacked(c)
        BY <1>a, <1>1 DEF Backed
      <3>1. \A h \in promised' : store'[h] # NoValue
        BY <1>a, <1>f, <1>1 DEF Backed, ghostVars
      <3>2. SessionBacked(p)'
        BY <1>a, <1>f, <1>1, <1>p DEF Backed, Session, SessionBacked, ghostVars, Threads
      <3>3. PrintedBacked(c)'
        BY <1>b, <1>f, <1>n, <1>1, <1>q, <2>j, <3>0 DEF PrintedBacked, ghostVars
      <3>4. \A i \in DOMAIN snapshot'[c] : Within(snapshot'[c][i], store')
        BY <1>f, <1>1, <3>0 DEF ClientBacked
      <3>5. \A q \in held[c] : store'[q[1]] # NoValue \/ delta'[c][q[1]] # NoValue
        BY <1>b, <1>f, <1>n, <1>q, <2>j, <3>0 DEF ClientBacked
      <3>6. ClientBacked(c)'
        BY <1>1, <2>j, <3>4, <3>5 DEF ClientBacked
      <3> QED BY <3>1, <3>2, <3>3, <3>6
    <2> QED BY <2>1, <2>2, <2>3, <2>4, OneThreadKeeps
  <1>2. CASE /\ pending[c] = Empty \/ Session(c) = "local"
             /\ IF pending[c] = Empty THEN UNCHANGED recoveries ELSE PushLocal(c, pending[c])
             /\ Report(c, held[c])
             /\ DropMasker(c, "ok")
             /\ UNCHANGED <<jobVars, printed, mixed>>
    <2>h. MaskerTypes' /\ Dropped(c, "ok") /\ \A d \in Clients : d # c => SameMasker(d)
      BY <1>a, <1>2, DropFacts
    <2>u. Pushed(c, pending[c])
      BY <1>a, <1>b, <1>2, PushFacts
    <2>v. /\ \A q \in Processes : q # ProcessOf[c] => recoveries'[q] = recoveries[q]
          /\ \A i \in DOMAIN recoveries'[ProcessOf[c]] : GenuineMap(recoveries'[ProcessOf[c]][i])
      BY <1>b, <2>u, PushedGenuine
    <2>o. \A d \in Clients : d # c => Same(d)
      BY <1>2, <2>h DEF Same, SameMasker, jobVars
    <2>e. /\ released' = released \cup held[c]
          /\ promised' \subseteq promised \cup EmittedHandles(held[c]) \cup printed[c]
          /\ Session(c) # "store" => promised' = promised
          /\ masker[c] # "live" => promised' \subseteq promised \cup EmittedHandles(held[c])
      BY <1>2 DEF Report
    <2>k. EmittedHandles(held[c]) \subseteq Handles
      BY <1>b DEF EmittedHandles
    <2>1. TypeOK'
      <3>1. released' \subseteq Pairs /\ promised' \subseteq Handles
        BY <1>a, <1>b, <2>e, <2>k DEF TypeOK
      <3> QED BY <1>a, <1>f, <1>2, <2>h, <2>u, <3>1 DEF TypeOK, Pushed, MaskerTypes, jobVars
    <2>2. OneThread(c)
      <3>1. ClientGenuine(c)'
        BY <1>2, <1>q, <2>h, EmptyRecovery DEF ClientGenuine, Dropped, jobVars
      <3>2. QuietThread(c)'
        BY <1>f, <1>2, <1>q, <2>h DEF QuietThread, Session, Dropped, jobVars
      <3>3. \A q \in released' : GenuinePair(q[1], q[2])
        BY <1>a, <1>b, <2>e DEF Genuine
      <3> QED BY <1>a, <1>f, <1>q, <1>w, <2>o, <2>v, <3>1, <3>2, <3>3 DEF OneThread, Genuine
    <2>3. Apart'
      <3>1. ASSUME NEW d \in Clients
            PROVE  /\ stream'[d] = "none" <=> stream[d] = "none"
                   /\ stream[d] = "ok" => stream'[d] = "ok"
                   /\ masker'[d] \in {masker[d], "none"}
                   /\ masker'[d] = "none" /\ phase'[d] # "idle" =>
                        masker[d] = "none" /\ phase[d] # "idle"
        BY <1>f, <1>2, <2>h DEF SameMasker, Dropped, jobVars
      <3> QED BY <1>2, <3>1, ApartFrame
    <2>4. OneThreadBacked(c)
      <3> SUFFICES ASSUME storeUp
                   PROVE  /\ \A h \in promised' : store'[h] # NoValue
                          /\ Session(c) = "store" => SessionBacked(p)' /\ ClientBacked(c)'
                          /\ PrintedBacked(c)'
        BY DEF OneThreadBacked
      <3>0. /\ PrintedBacked(c)
            /\ Session(c) = "store" => ClientBacked(c) /\ pending[c] = Empty
        BY <1>a, <1>2 DEF Backed
      <3>1. Session(c) = "store" => \A h \in EmittedHandles(held[c]) : store[h] # NoValue
        BY <1>b, <1>n, <1>q, <3>0 DEF ClientBacked, EmittedHandles
      <3>2. masker[c] = "live" /\ Session(c) = "store" => \A h \in printed[c] : store[h] # NoValue
        <4>1. masker[c] = "live" => stream[c] = "running" /\ c \notin mixed
          BY <1>a, <1>q DEF QuietThread, Apart
        <4> QED BY <1>b, <1>n, <1>q, <3>0, <4>1 DEF PrintedBacked
      <3>3. \A h \in promised' : store'[h] # NoValue
        BY <1>a, <1>f, <2>e, <3>1, <3>2 DEF Backed
      <3>4. PrintedBacked(c)'
        <4>1. masker[c] # "live" => stream[c] # "running" /\ stream'[c] = stream[c]
          BY <1>q, <2>h DEF QuietThread, Dropped
        <4>2. masker[c] = "live" /\ Session(c) # "store" => printed[c] = {}
          BY <1>q DEF QuietThread
        <4>3. CASE masker[c] = "live"
          BY <1>f, <1>2, <3>2, <4>2, <4>3 DEF PrintedBacked
        <4>4. CASE masker[c] # "live"
          BY <1>f, <1>2, <3>0, <4>1, <4>4 DEF PrintedBacked
        <4> QED BY <4>3, <4>4
      <3>5. Session(c) = "store" => SessionBacked(p)'
        <4>1. Session(c) = "store" => recoveries' = recoveries /\ SessionBacked(p)
          BY <1>a, <1>2, <1>p DEF Backed, Session
        <4> QED BY <1>f, <1>2, <4>1 DEF SessionBacked, Threads
      <3>6. ClientBacked(c)'
        BY <1>f, <1>2, <1>q, <2>h DEF ClientBacked, Dropped, jobVars
      <3> QED BY <3>3, <3>4, <3>5, <3>6
    <2> QED BY <2>1, <2>2, <2>3, <2>4, OneThreadKeeps
  <1> QED BY <1>1, <1>2 DEF Flush

\* The initial state: a running, empty store and no sessions.
LEMMA InitHolds == Init => IInv
  <1> SUFFICES ASSUME Init PROVE IInv
    OBVIOUS
  <1> USE EmptyRecovery DEF Init
  <1>1. TypeOK
    BY DEF TypeOK
  <1>2. Genuine
    BY DEF Genuine
  <1>3. Quiet
    BY ThreadsAssumption DEF Quiet, QuietThread, Session
  <1>4. Apart
    BY DEF Apart
  <1>5. Backed
    <2>1. \A p \in Processes : session[p] # "store"
      OBVIOUS
    <2>2. \A c \in Clients : Session(c) # "store"
      BY ThreadsAssumption DEF Session
    <2> QED BY <2>1, <2>2 DEF Backed, PrintedBacked
  <1> QED BY <1>1, <1>2, <1>3, <1>4, <1>5 DEF IInv

\* Every step of the system keeps the invariant.
LEMMA NextKeeps == IInv /\ [Next]_vars => IInv'
  <1> SUFFICES ASSUME IInv, [Next]_vars PROVE IInv'
    OBVIOUS
  <1>1. ASSUME NEW p \in Processes, ProcessStep(p) PROVE IInv'
    BY <1>1, OpenKeeps, CrashKeeps DEF ProcessStep
  <1>2. ASSUME NEW c \in Clients, ClientStep(c) PROVE IInv'
    <2>1. ModesOf[c] \subseteq Modes
      BY ModesAssumption
    <2> QED BY <1>2, <2>1, NewMaskerKeeps, MaskSharedKeeps, MaskDeferredKeeps, FlushKeeps,
               DropKeeps, ResolveFromFileKeeps DEF ClientStep
  <1>3. ASSUME NEW c \in Clients, RequestStep(c) PROVE IInv'
    BY <1>3, SendKeeps, ServerAddKeeps, AddSucceedsKeeps, TakesLateAnswerKeeps,
       AttemptFailsKeeps DEF RequestStep
  <1>4. ASSUME NEW map \in stale, ServerAddLate(map) PROVE IInv'
    BY <1>4, ServerAddLateKeeps
  <1>5. CASE StoreExit
    BY <1>5, StoreExitKeeps
  <1>6. CASE UNCHANGED vars
    <2> USE <1>6 DEF vars, mapVars, maskerVars, jobVars, ghostVars, IInv
    <2>1. TypeOK'
      BY DEF TypeOK
    <2>2. Genuine'
      BY DEF Genuine
    <2>3. Quiet'
      BY DEF Quiet, QuietThread, Session
    <2>4. Apart'
      BY SameApart DEF Same
    <2>5. Backed'
      BY DEF Backed, ClientBacked, PrintedBacked, SessionBacked, Session, Threads
    <2> QED BY <2>1, <2>2, <2>3, <2>4, <2>5
  <1> QED BY <1>1, <1>2, <1>3, <1>4, <1>5, <1>6 DEF Next

\* IInv is an invariant of the system for all processes, threads, values and handles.
THEOREM Invariance == Spec => []IInv
  BY InitHolds, NextKeeps, PTL DEF Spec

\* The types of the store, the sessions, the maskers and the requests.
THEOREM TypeCorrect == Spec => []TypeOK
  <1>1. IInv => TypeOK
    BY DEF IInv
  <1> QED BY <1>1, Invariance, PTL

\* Publish before success: a handle of text whose store-backed operation reported
\* success is resolvable for as long as the store lives (record_recovery, flush), but
\* for a stream that took the answer to the other's request.
THEOREM PublishBeforeEmit == Spec => []PromisedInStore
  <1>1. IInv => PromisedInStore
    BY DEF IInv, Backed, PromisedInStore
  <1> QED BY <1>1, Invariance, PTL

\* A store-backed session never runs ahead of the store (add_recovery syncs
\* before it pushes), but for a process whose streams mixed their answers.
THEOREM SessionBehindStore == Spec => []SessionInStore
  <1>1. IInv => SessionInStore
    BY DEF IInv, Backed, SessionBacked, Within, SessionInStore
  <1> QED BY <1>1, Invariance, PTL

\* What a live stream printed is in the store or on its way there, or the stream's
\* thread returns an error, but for a stream that took the other's answer.
THEOREM LiveStreamCovered == Spec => []LiveCovered
  <1>1. IInv => LiveCovered
    BY DEF IInv, Backed, PrintedBacked, LiveCovered
  <1> QED BY <1>1, Invariance, PTL

\* A handle carries the hash of one value, or is the compact handle of both.
LEMMA OneValueOrCollision ==
  ASSUME NEW h \in Handles, NEW v \in Values, NEW w \in Values,
         GenuinePair(h, v), GenuinePair(h, w)
  PROVE  w = v \/ Collide(h, v, w)
  BY CompactAssumption, FullAssumption DEF GenuinePair, Collide

\* Exact recovery without any condition on the hashes: across renders, where the
\* collision fallback of masked_seg does not reach, a handle is confused with
\* another value's only if the two share their compact handle, and a full handle
\* (the fallback's own) never is.
THEOREM ConfusionNeedsCollision == Spec => []ExactButForCollision
  <1>1. IInv => ExactButForCollision
    <2> SUFFICES ASSUME IInv, NEW p \in released, NEW w \in Values,
                        \/ store[p[1]] = w
                        \/ \E q \in Processes : Resolves(recoveries[q], p[1], w)
                 PROVE  w = p[2] \/ Collide(p[1], p[2], w)
      BY DEF ExactButForCollision
    <2>1. p[1] \in Handles /\ p[2] \in Values /\ GenuinePair(p[1], p[2])
      BY DEF IInv, TypeOK, Pairs, Genuine
    <2>2. GenuinePair(p[1], w)
      <3>1. CASE store[p[1]] = w
        BY <2>1, <3>1, ValuesAssumption DEF IInv, Genuine, GenuineMap
      <3>2. ASSUME NEW q \in Processes, Resolves(recoveries[q], p[1], w)
            PROVE  GenuinePair(p[1], w)
        <4>1. PICK i \in DOMAIN recoveries[q] : recoveries[q][i][p[1]] = w
          BY <3>2 DEF Resolves
        <4> QED BY <2>1, <4>1, ValuesAssumption DEF IInv, Genuine, GenuineMap
      <3> QED BY <3>1, <3>2
    <2> QED BY <2>1, <2>2, OneValueOrCollision
  <1> QED BY <1>1, Invariance, PTL

\* An ADD forgets no handle, and what it rebinds collides.
LEMMA AddRebinds ==
  ASSUME IInv, NEW map \in Recovery, GenuineMap(map), store' = Extend(store, map),
         NEW h \in Handles
  PROVE  /\ store'[h] \in Values \cup {NoValue}
         /\ store'[h] # store[h] => store'[h] \in Values /\ GenuinePair(h, store'[h])
         /\ store[h] # NoValue =>
              store'[h] # NoValue /\ (store'[h] = store[h] \/ Collide(h, store[h], store'[h]))
  <1>1. store'[h] = IF map[h] # NoValue THEN map[h] ELSE store[h]
    BY DEF Extend
  <1>2. store[h] \in Values \cup {NoValue} /\ map[h] \in Values \cup {NoValue}
    BY DEF IInv, TypeOK, Recovery
  <1>3. /\ store[h] # NoValue => GenuinePair(h, store[h])
        /\ map[h] # NoValue => GenuinePair(h, map[h])
    BY DEF IInv, Genuine, GenuineMap
  <1> QED BY <1>1, <1>2, <1>3, OneValueOrCollision

\* The steps that leave the store and its process alone.
LEMMA StoreUntouched ==
  ASSUME \/ \E p \in Processes : ProcessStep(p)
         \/ \E c \in Clients : \/ ClientStep(c) \/ SendAdd(c) \/ AddSucceeds(c) \/ TimesOut(c)
                               \/ TakesLateAnswer(c) \/ AttemptFails(c)
  PROVE  /\ storeUp' = storeUp /\ store' = store
         /\ released \subseteq released' /\ promised \subseteq promised'
  <1> USE DEF mapVars, ghostVars
  <1>1. ASSUME NEW p \in Processes, ProcessStep(p)
        PROVE  /\ storeUp' = storeUp /\ store' = store
               /\ released \subseteq released' /\ promised \subseteq promised'
    BY <1>1 DEF ProcessStep, OpenStore, OpenLocal, Crash
  <1>2. ASSUME NEW c \in Clients, ClientStep(c)
        PROVE  /\ storeUp' = storeUp /\ store' = store
               /\ released \subseteq released' /\ promised \subseteq promised'
    BY <1>2 DEF ClientStep, NewMasker, MaskShared, MaskDeferred, Emit, Report, Flush,
                FailDeferred, CloseMasker, ResolveFromFile
  <1>3. ASSUME NEW c \in Clients, \/ SendAdd(c) \/ AddSucceeds(c) \/ TimesOut(c)
                                  \/ TakesLateAnswer(c) \/ AttemptFails(c)
        PROVE  /\ storeUp' = storeUp /\ store' = store
               /\ released \subseteq released' /\ promised \subseteq promised'
    BY <1>3 DEF SendAdd, AddSucceeds, Report, TimesOut, TakesLateAnswer, AttemptFails
  <1> QED BY <1>1, <1>2, <1>3

\* The running store never forgets a handle and rebinds one only among the values
\* that collide in it, whatever is retried, duplicated, late or mixed up.
THEOREM StoreStability == Spec => StoreStable
  <1> DEFINE Step == storeUp' => \A h \in Handles : store[h] # NoValue =>
                       /\ store'[h] # NoValue
                       /\ store'[h] = store[h] \/ Collide(h, store[h], store'[h])
  <1>1. ASSUME store' = store PROVE Step
    BY <1>1
  <1>2. IInv /\ [Next]_vars => [Step]_vars
    <2> SUFFICES ASSUME IInv, [Next]_vars PROVE Step
      OBVIOUS
    <2>1. ASSUME NEW c \in Clients, ServerAdd(c) PROVE Step
      <3>1. /\ delta[c] \in Recovery /\ GenuineMap(delta[c])
            /\ store' = Extend(store, delta[c])
        BY <2>1 DEF IInv, TypeOK, Genuine, ServerAdd
      <3> QED BY <3>1, AddRebinds
    <2>2. ASSUME NEW map \in stale, ServerAddLate(map) PROVE Step
      <3>1. map \in Recovery /\ GenuineMap(map) /\ store' = Extend(store, map)
        BY <2>2 DEF IInv, TypeOK, Genuine, ServerAddLate
      <3> QED BY <3>1, AddRebinds
    <2>3. CASE StoreExit
      BY <2>3 DEF StoreExit
    <2>4. CASE UNCHANGED vars
      <3>1. store' = store
        BY <2>4 DEF vars, mapVars
      <3> QED BY <3>1, <1>1
    <2> HIDE DEF Step
    <2> QED BY <1>1, <2>1, <2>2, <2>3, <2>4, StoreUntouched DEF Next, RequestStep
  <1>3. Spec => [][Step]_vars
    BY <1>2, Invariance, PTL DEF Spec
  <1> QED BY <1>3, PTL DEF StoreStable

\* A step that leaves the store alone only adds to the emitted text.
LEMMA EmissionsGrow ==
  ASSUME IInv, IInv', storeUp' = storeUp, store' = store,
         released \subseteq released', promised \subseteq promised'
  PROVE  Directory!HandOut
  <1>1. Told \subseteq Told'
    BY DEF Told
  <1>2. ASSUME NEW p \in Told'
        PROVE  /\ p[2] \in StandsFor[p[1]]
               /\ storeUp => store[p[1]] \in StandsFor[p[1]]
    <2>1. p \in released' /\ p[1] \in promised'
      BY DEF Told
    <2>2. p[1] \in Handles /\ p[2] \in Values /\ GenuinePair(p[1], p[2])
      BY <2>1 DEF IInv, TypeOK, Pairs, Genuine
    <2>3. storeUp => store[p[1]] # NoValue
      BY <2>1 DEF IInv, Backed
    <2>4. store[p[1]] \in Values \cup {NoValue}
      BY <2>2 DEF IInv, TypeOK, Recovery
    <2>5. store[p[1]] # NoValue => GenuinePair(p[1], store[p[1]])
      BY <2>2 DEF IInv, Genuine, GenuineMap
    <2> QED BY <2>2, <2>3, <2>4, <2>5 DEF StandsFor
  <1> QED BY <1>1, <1>2 DEF Directory!HandOut

\* An ADD that reaches the store binds handles to values they stand for.
LEMMA AddPublishes ==
  ASSUME IInv, NEW map \in Recovery, GenuineMap(map), storeUp,
         storeUp' = storeUp, store' = Extend(store, map),
         released' = released, promised' = promised
  PROVE  Directory!Publish
  <1>1. Told' = Told
    BY DEF Told
  <1>2. store' \in [Handles -> Values \cup {NoValue}]
    BY ExtendFacts DEF IInv, TypeOK, Recovery
  <1>3. ASSUME NEW h \in Handles, store'[h] # store[h] PROVE store'[h] \in StandsFor[h]
    BY <1>3, AddRebinds DEF StandsFor
  <1> QED BY <1>1, <1>2, <1>3 DEF Directory!Publish

\* Refinement: the sessions, the maskers, the retried and mixed-up requests and the
\* store implement the handle directory, for any number of processes, threads and
\* values, whichever of them collide.
THEOREM StoreImplementsDirectory == Spec => ImplementsDirectory
  <1>1. Init => Directory!Init
    BY DEF Init, Directory!Init, Empty, Told
  <1>2. IInv /\ IInv' /\ [Next]_vars => [Directory!Next]_(Directory!dirVars)
    <2> SUFFICES ASSUME IInv, IInv', [Next]_vars
                 PROVE  Directory!Next \/ UNCHANGED Directory!dirVars
      OBVIOUS
    <2>1. ASSUME \/ \E p \in Processes : ProcessStep(p)
                 \/ \E c \in Clients : \/ ClientStep(c) \/ SendAdd(c) \/ AddSucceeds(c)
                                       \/ TimesOut(c) \/ TakesLateAnswer(c) \/ AttemptFails(c)
          PROVE  Directory!HandOut
      <3>1. /\ storeUp' = storeUp /\ store' = store
            /\ released \subseteq released' /\ promised \subseteq promised'
        BY <2>1, StoreUntouched
      <3> QED BY <3>1, EmissionsGrow
    <2>2. ASSUME NEW c \in Clients, ServerAdd(c) PROVE Directory!Publish
      <3>1. /\ delta[c] \in Recovery /\ GenuineMap(delta[c])
            /\ storeUp /\ storeUp' = storeUp /\ store' = Extend(store, delta[c])
            /\ released' = released /\ promised' = promised
        BY <2>2 DEF IInv, TypeOK, Genuine, ServerAdd, ghostVars
      <3> QED BY <3>1, AddPublishes
    <2>3. ASSUME NEW map \in stale, ServerAddLate(map) PROVE Directory!Publish
      <3>1. /\ map \in Recovery /\ GenuineMap(map)
            /\ storeUp /\ storeUp' = storeUp /\ store' = Extend(store, map)
            /\ released' = released /\ promised' = promised
        BY <2>3 DEF IInv, TypeOK, Genuine, ServerAddLate, ghostVars
      <3> QED BY <3>1, AddPublishes
    <2>4. CASE StoreExit
      <3>1. Directory!Stop
        BY <2>4 DEF StoreExit, Directory!Stop, Empty, Told, ghostVars
      <3> QED BY <3>1 DEF Directory!Next
    <2>5. CASE UNCHANGED vars
      BY <2>5 DEF vars, mapVars, ghostVars, Directory!dirVars, Told
    <2>6. Directory!HandOut \/ Directory!Publish => Directory!Next
      BY DEF Directory!Next
    <2> QED BY <2>1, <2>2, <2>3, <2>4, <2>5, <2>6 DEF Next, RequestStep
  <1> QED BY <1>1, <1>2, Invariance, PTL DEF Spec, ImplementsDirectory, Directory!Spec
==============================================================================
