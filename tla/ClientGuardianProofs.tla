------------------------- MODULE ClientGuardianProofs -------------------------
(***************************************************************************)
(* Proofs about ClientGuardian for any number of launches and signals: a   *)
(* living client has its settings, a returned status means that the client *)
(* is reaped and only what the clean-up itself left is left, no client     *)
(* outlives its wrapper while its guardian works, and the client is reaped *)
(* only after the terminal was taken back.                                 *)
(***************************************************************************)
EXTENDS ClientGuardian, TLAPS

LEMMA EntriesAre == Entries = {"settings", "released", "owner", "dir"}
  <1>1. DOMAIN Order = 1 .. 4
    BY DEF Order
  <1>2. /\ Order[1] = "settings" /\ Order[2] = "released" /\ Order[3] = "owner"
        /\ Order[4] = "dir"
    BY DEF Order
  <1>3. \A i \in 1 .. 4 : i = 1 \/ i = 2 \/ i = 3 \/ i = 4
    OBVIOUS
  <1> HIDE DEF Order
  <1> QED BY <1>1, <1>2, <1>3 DEF Entries

\* The entry that a clean-up takes next is one of those it has still to take.
LEMMA FirstOfIs ==
  ASSUME NEW S \in SUBSET Entries, S # {}
  PROVE  FirstOf(S) \in S
  <1>1. DOMAIN Order = 1 .. 4
    BY DEF Order
  <1>2. PICK k \in 1 .. 4 : Order[k] \in S /\ \A j \in 1 .. (k - 1) : Order[j] \notin S
    <2>0. \A i \in 1 .. 4 : i = 1 \/ i = 2 \/ i = 3 \/ i = 4
      OBVIOUS
    <2>1. Order[1] \in S \/ Order[2] \in S \/ Order[3] \in S \/ Order[4] \in S
      BY <1>1, <2>0 DEF Entries
    <2>2. CASE Order[1] \in S
      BY <2>2
    <2>3. CASE Order[1] \notin S /\ Order[2] \in S
      BY <2>3
    <2>4. CASE Order[1] \notin S /\ Order[2] \notin S /\ Order[3] \in S
      <3>1. \A j \in 1 .. (3 - 1) : j = 1 \/ j = 2
        OBVIOUS
      <3> QED BY <2>4, <3>1
    <2>5. CASE Order[1] \notin S /\ Order[2] \notin S /\ Order[3] \notin S /\ Order[4] \in S
      <3>1. \A j \in 1 .. (4 - 1) : j = 1 \/ j = 2 \/ j = 3
        OBVIOUS
      <3> QED BY <2>5, <3>1
    <2> QED BY <2>1, <2>2, <2>3, <2>4, <2>5
  <1> HIDE DEF Order
  <1> QED BY <1>1, <1>2 DEF FirstOf

(***************************************************************************)
(* What a step of one launch leaves alone                                  *)
(***************************************************************************)

\* A step of the launch l: the others are as they were, except that a directory
\* of which the client was reaped may lose entries.
Frame(l) ==
  /\ \A d \in Launches : d # l =>
       /\ owner'[d] = owner[d] /\ result'[d] = result[d] /\ fg'[d] = fg[d]
       /\ toGuardian'[d] = toGuardian[d] /\ guardian'[d] = guardian[d] /\ how'[d] = how[d]
       /\ client'[d] = client[d] /\ target'[d] = target[d]
       /\ files'[d] = files[d] \/ (files'[d] \subseteq files[d] /\ client[d] = "reaped")
  /\ client[l] = "reaped" => client'[l] = "reaped"

LEMMA OthersKeep ==
  ASSUME Core, NEW l \in Launches, Frame(l), NEW d \in Launches, d # l
  PROVE  WrapperOK(d)' /\ ClientOK(d)' /\ CleanOK(d)'
  <1>0. WrapperOK(d) /\ ClientOK(d) /\ CleanOK(d)
    BY DEF Core
  <1>1. /\ owner'[d] = owner[d] /\ result'[d] = result[d] /\ fg'[d] = fg[d]
        /\ toGuardian'[d] = toGuardian[d] /\ guardian'[d] = guardian[d] /\ how'[d] = how[d]
        /\ client'[d] = client[d] /\ target'[d] = target[d]
        /\ files'[d] = files[d] \/ (files'[d] \subseteq files[d] /\ client[d] = "reaped")
    BY DEF Frame
  <1>2. WrapperOK(d)'
    BY <1>0, <1>1 DEF WrapperOK, StatusAcked, GuardianUp
  <1>3. ClientOK(d)'
    BY <1>0, <1>1 DEF ClientOK, Alive, Living, BeforeSpawn
  <1>4. CleanOK(d)'
    <2>1. \A t \in Launches : client[t] = "reaped" => client'[t] = "reaped"
      BY DEF Frame
    <2> QED BY <1>0, <1>1, <2>1 DEF CleanOK
  <1> QED BY <1>2, <1>3, <1>4

LEMMA LaunchStepKeeps ==
  ASSUME Core, NEW l \in Launches, StateOK', Frame(l), WrapperOK(l)', ClientOK(l)', CleanOK(l)'
  PROVE  Core'
  <1>1. ASSUME NEW d \in Launches PROVE WrapperOK(d)' /\ ClientOK(d)' /\ CleanOK(d)'
    <2>1. CASE d = l
      BY <2>1
    <2>2. CASE d # l
      BY <2>2, OthersKeep
    <2> QED BY <2>1, <2>2
  <1> QED BY <1>1 DEF Core

LEMMA Now ==
  ASSUME Core, NEW l \in Launches
  PROVE  StateOK /\ WrapperOK(l) /\ ClientOK(l) /\ CleanOK(l)
  BY DEF Core

(***************************************************************************)
(* The wrapper                                                             *)
(***************************************************************************)

LEMMA LaunchKeeps == ASSUME Core, NEW l \in Launches, Launch(l) PROVE Core'
  <1>0. StateOK /\ WrapperOK(l) /\ ClientOK(l) /\ CleanOK(l)
    BY Now
  <1>1. StateOK'
    BY <1>0 DEF StateOK, Launch, Put, dirVars, OwnerSteps, GuardianSteps, Startup
  <1>2. Frame(l)
    BY <1>0 DEF Frame, StateOK, Launch, Put, dirVars
  <1>3. WrapperOK(l)'
    BY <1>0 DEF StateOK, Launch, Put, dirVars, WrapperOK, StatusAcked, GuardianUp, Gone
  <1>4. ClientOK(l)'
    BY <1>0 DEF StateOK, Launch, Put, dirVars, WrapperOK, ClientOK, Alive, Living, BeforeSpawn
  <1>5. CleanOK(l)'
    BY <1>0 DEF StateOK, Launch, Put, dirVars, CleanOK
  <1> QED BY <1>1, <1>2, <1>3, <1>4, <1>5, LaunchStepKeeps

\* The socket pair.
LEMMA HoldsAppend ==
  ASSUME NEW q \in Seq(ToGuardian), NEW b \in ToGuardian, b # "statusack",
         Holds(Append(q, b), "statusack")
  PROVE  Holds(q, "statusack")
  BY DEF Holds

LEMMA HoldsHeadTail ==
  ASSUME NEW q \in Seq(ToGuardian), q # <<>>
  PROVE  /\ Head(q) = "statusack" => Holds(q, "statusack")
         /\ Holds(Tail(q), "statusack") => Holds(q, "statusack")
  <1>1. 1 \in 1 .. Len(q) /\ Head(q) = q[1]
    OBVIOUS
  <1>2. \A i \in 1 .. Len(Tail(q)) : i + 1 \in 1 .. Len(q) /\ Tail(q)[i] = q[i + 1]
    OBVIOUS
  <1> QED BY <1>1, <1>2 DEF Holds

\* A step of the wrapper: only its own state and the sockets change.
LEMMA WrapperStepKeeps ==
  ASSUME Core, NEW l \in Launches,
         NEW o \in OwnerSteps, NEW r \in {"none", "status", "error"}, NEW f \in BOOLEAN,
         NEW q \in Seq(ToGuardian),
         owner' = Put(owner, l, o), result' = Put(result, l, r), fg' = Put(fg, l, f),
         toGuardian' = Put(toGuardian, l, q),
         toOwner' \in [Launches -> Seq(ToOwner)], signals' \in [Launches -> 0 .. MaxSignals],
         UNCHANGED <<guardian, how, shutdown, interrupted, client, go, dirVars>>,
         o # "idle", o = "ended" => ~GuardianUp(l),
         o \in {"reap", "ended", "dead"} => ~f,
         how[l] = "done" \/ Holds(q, "statusack") => o \in {"reap", "ended", "dead"},
         r = "status" => o = "ended" /\ guardian[l] = "exited0"
  PROVE  Core'
  <1>0. StateOK /\ WrapperOK(l) /\ ClientOK(l) /\ CleanOK(l)
    BY Now
  <1>1. StateOK'
    BY <1>0 DEF StateOK, Put, dirVars
  <1>2. Frame(l)
    BY <1>0 DEF Frame, StateOK, Put, dirVars
  <1>3. WrapperOK(l)'
    BY <1>0 DEF StateOK, Put, WrapperOK, StatusAcked, GuardianUp
  <1>4. ClientOK(l)'
    BY <1>0 DEF ClientOK, Alive, dirVars
  <1>5. CleanOK(l)'
    BY <1>0 DEF CleanOK, dirVars
  <1> QED BY <1>1, <1>2, <1>3, <1>4, <1>5, LaunchStepKeeps

\* The wrapper as it is.
LEMMA WrapperNow ==
  ASSUME Core, NEW l \in Launches
  PROVE  /\ owner = Put(owner, l, owner[l]) /\ owner[l] \in OwnerSteps
         /\ result = Put(result, l, result[l]) /\ result[l] \in {"none", "status", "error"}
         /\ fg = Put(fg, l, fg[l]) /\ fg[l] \in BOOLEAN
         /\ toGuardian = Put(toGuardian, l, toGuardian[l]) /\ toGuardian[l] \in Seq(ToGuardian)
         /\ toGuardian \in [Launches -> Seq(ToGuardian)]
         /\ toOwner \in [Launches -> Seq(ToOwner)] /\ signals \in [Launches -> 0 .. MaxSignals]
         /\ result[l] = "status" => owner[l] = "ended" /\ guardian[l] = "exited0"
         /\ how[l] = "done" \/ Holds(toGuardian[l], "statusack") =>
               owner[l] \in {"reap", "ended", "dead"}
         /\ owner[l] \in {"reap", "ended", "dead"} => ~fg[l]
         /\ owner[l] = "ended" => ~GuardianUp(l)
  <1>0. StateOK /\ WrapperOK(l)
    BY Now
  <1>1. /\ owner \in [Launches -> OwnerSteps] /\ result \in [Launches -> {"none", "status", "error"}]
        /\ fg \in [Launches -> BOOLEAN] /\ toGuardian \in [Launches -> Seq(ToGuardian)]
        /\ toOwner \in [Launches -> Seq(ToOwner)] /\ signals \in [Launches -> 0 .. MaxSignals]
    BY <1>0 DEF StateOK
  <1>2. /\ owner = Put(owner, l, owner[l]) /\ result = Put(result, l, result[l])
        /\ fg = Put(fg, l, fg[l]) /\ toGuardian = Put(toGuardian, l, toGuardian[l])
    BY <1>1 DEF Put
  <1>3. /\ result[l] = "status" => owner[l] = "ended" /\ guardian[l] = "exited0"
        /\ how[l] = "done" \/ Holds(toGuardian[l], "statusack") =>
               owner[l] \in {"reap", "ended", "dead"}
        /\ owner[l] \in {"reap", "ended", "dead"} => ~fg[l]
        /\ owner[l] = "ended" => ~GuardianUp(l)
    BY <1>0 DEF WrapperOK, StatusAcked
  <1> QED BY <1>1, <1>2, <1>3

LEMMA WrapperSends ==
  ASSUME Core, NEW l \in Launches, NEW b \in ToGuardian, toGuardian' = Send(toGuardian, l, b)
  PROVE  /\ toGuardian' = Put(toGuardian, l, Append(toGuardian[l], b))
         /\ Append(toGuardian[l], b) \in Seq(ToGuardian)
         /\ b # "statusack" /\ ~Holds(toGuardian[l], "statusack") =>
               ~Holds(Append(toGuardian[l], b), "statusack")
  <1>1. toGuardian[l] \in Seq(ToGuardian)
    BY WrapperNow
  <1>2. Append(toGuardian[l], b) \in Seq(ToGuardian)
    BY <1>1
  <1>3. toGuardian' = Put(toGuardian, l, Append(toGuardian[l], b))
    BY DEF Send, Put
  <1> QED BY <1>1, <1>2, <1>3, HoldsAppend

LEMMA WrapperTakes ==
  ASSUME Core, NEW l \in Launches, toOwner[l] # <<>>, toOwner' = Taken(toOwner, l)
  PROVE  toOwner' \in [Launches -> Seq(ToOwner)]
  <1>1. toOwner \in [Launches -> Seq(ToOwner)]
    BY WrapperNow
  <1>2. Tail(toOwner[l]) \in Seq(ToOwner)
    BY <1>1
  <1> QED BY <1>1, <1>2 DEF Taken

\* Returning with an error before the status was acknowledged.
LEMMA CloseKeeps ==
  ASSUME Core, NEW l \in Launches, owner[l] \notin {"idle", "reap", "ended", "dead"}, Close(l),
         toOwner' \in [Launches -> Seq(ToOwner)], signals' \in [Launches -> 0 .. MaxSignals],
         UNCHANGED <<guardian, how, shutdown, interrupted, client, go, dirVars>>
  PROVE  Core'
  <1>1. PICK f \in BOOLEAN : fg' = Put(fg, l, f)
    BY WrapperNow DEF Close
  <1>2. /\ owner' = Put(owner, l, "closing") /\ result' = Put(result, l, result[l])
        /\ toGuardian' = Put(toGuardian, l, toGuardian[l]) /\ "closing" \in OwnerSteps
    BY WrapperNow DEF Close, OwnerSteps
  <1>3. result[l] # "status" /\ how[l] # "done" /\ ~Holds(toGuardian[l], "statusack")
    BY WrapperNow
  <1> QED BY <1>1, <1>2, <1>3, WrapperNow, WrapperStepKeeps

LEMMA StartsKeeps == ASSUME Core, NEW l \in Launches, OwnerStarts(l) PROVE Core'
  <1>0. /\ owner[l] \in {"hello", "ready"} /\ signals' = signals
        /\ UNCHANGED <<guardian, how, shutdown, interrupted, client, go, dirVars>>
    BY DEF OwnerStarts
  <1>1. signals' \in [Launches -> 0 .. MaxSignals]
        /\ result[l] # "status" /\ how[l] # "done" /\ ~Holds(toGuardian[l], "statusack")
    BY <1>0, WrapperNow
  <1>2. toOwner' \in [Launches -> Seq(ToOwner)]
    BY WrapperNow, WrapperTakes DEF OwnerStarts, Receives
  <1>3. CASE Close(l)
    BY <1>0, <1>1, <1>2, <1>3, CloseKeeps
  <1>4. CASE /\ toGuardian' = Send(toGuardian, l, "payload") /\ owner' = Put(owner, l, "ready")
             /\ UNCHANGED <<result, fg>>
    <2>1. "payload" \in ToGuardian /\ "ready" \in OwnerSteps
      BY DEF ToGuardian, OwnerSteps
    <2>2. toGuardian' = Put(toGuardian, l, Append(toGuardian[l], "payload"))
          /\ Append(toGuardian[l], "payload") \in Seq(ToGuardian)
      BY <1>4, <2>1, WrapperSends
    <2>3. ~Holds(Append(toGuardian[l], "payload"), "statusack")
      BY <1>1, <1>4, <2>1, WrapperSends
    <2>4. result' = Put(result, l, result[l]) /\ fg' = Put(fg, l, fg[l])
      BY <1>4, WrapperNow
    <2> QED BY <1>0, <1>1, <1>2, <1>4, <2>1, <2>2, <2>3, <2>4, WrapperNow, WrapperStepKeeps
  <1>5. CASE owner' = Put(owner, l, "give") /\ UNCHANGED <<result, fg, toGuardian>>
    <2>1. "give" \in OwnerSteps
      BY DEF OwnerSteps
    <2>2. /\ result' = Put(result, l, result[l]) /\ fg' = Put(fg, l, fg[l])
          /\ toGuardian' = Put(toGuardian, l, toGuardian[l])
      BY <1>5, WrapperNow
    <2> QED BY <1>0, <1>1, <1>2, <1>5, <2>1, <2>2, WrapperNow, WrapperStepKeeps
  <1> QED BY <1>3, <1>4, <1>5 DEF OwnerStarts

LEMMA GivesKeeps == ASSUME Core, NEW l \in Launches, OwnerGives(l) PROVE Core'
  <1>0. /\ owner[l] = "give" /\ UNCHANGED <<signals, toOwner>>
        /\ UNCHANGED <<guardian, how, shutdown, interrupted, client, go, dirVars>>
    BY DEF OwnerGives, guardVars
  <1>1. /\ signals' \in [Launches -> 0 .. MaxSignals] /\ toOwner' \in [Launches -> Seq(ToOwner)]
        /\ result[l] # "status" /\ how[l] # "done" /\ ~Holds(toGuardian[l], "statusack")
    BY <1>0, WrapperNow
  <1>2. CASE Close(l)
    BY <1>0, <1>1, <1>2, CloseKeeps
  <1>3. ASSUME owner' = Put(owner, l, "ack"), NEW given \in BOOLEAN, fg' = Put(fg, l, given),
               UNCHANGED <<result, toGuardian>>
        PROVE  Core'
    <2>1. "ack" \in OwnerSteps
      BY DEF OwnerSteps
    <2>2. /\ result' = Put(result, l, result[l]) /\ toGuardian' = Put(toGuardian, l, toGuardian[l])
      BY <1>3, WrapperNow
    <2> QED BY <1>0, <1>1, <1>3, <2>1, <2>2, WrapperNow, WrapperStepKeeps
  <1> QED BY <1>2, <1>3 DEF OwnerGives

LEMMA AcksKeeps == ASSUME Core, NEW l \in Launches, OwnerAcks(l) PROVE Core'
  <1>0. /\ owner[l] = "ack" /\ UNCHANGED <<signals, toOwner>>
        /\ UNCHANGED <<guardian, how, shutdown, interrupted, client, go, dirVars>>
    BY DEF OwnerAcks, guardVars
  <1>1. /\ signals' \in [Launches -> 0 .. MaxSignals] /\ toOwner' \in [Launches -> Seq(ToOwner)]
        /\ result[l] # "status" /\ how[l] # "done" /\ ~Holds(toGuardian[l], "statusack")
    BY <1>0, WrapperNow
  <1>2. CASE Close(l)
    BY <1>0, <1>1, <1>2, CloseKeeps
  <1>3. CASE /\ toGuardian' = Send(toGuardian, l, "ack") /\ owner' = Put(owner, l, "wait")
             /\ UNCHANGED <<result, fg>>
    <2>1. "ack" \in ToGuardian /\ "wait" \in OwnerSteps
      BY DEF ToGuardian, OwnerSteps
    <2>2. toGuardian' = Put(toGuardian, l, Append(toGuardian[l], "ack"))
          /\ Append(toGuardian[l], "ack") \in Seq(ToGuardian)
      BY <1>3, <2>1, WrapperSends
    <2>3. ~Holds(Append(toGuardian[l], "ack"), "statusack")
      BY <1>1, <1>3, <2>1, WrapperSends
    <2>4. result' = Put(result, l, result[l]) /\ fg' = Put(fg, l, fg[l])
      BY <1>3, WrapperNow
    <2> QED BY <1>0, <1>1, <1>3, <2>1, <2>2, <2>3, <2>4, WrapperNow, WrapperStepKeeps
  <1> QED BY <1>2, <1>3 DEF OwnerAcks

\* STATUSACK is sent when the terminal is back.
LEMMA ReadsKeeps == ASSUME Core, NEW l \in Launches, OwnerReads(l) PROVE Core'
  <1>0. /\ owner[l] = "wait" /\ signals' = signals
        /\ UNCHANGED <<guardian, how, shutdown, interrupted, client, go, dirVars>>
    BY DEF OwnerReads
  <1>1. signals' \in [Launches -> 0 .. MaxSignals]
        /\ result[l] # "status" /\ how[l] # "done" /\ ~Holds(toGuardian[l], "statusack")
    BY <1>0, WrapperNow
  <1>2. toOwner' \in [Launches -> Seq(ToOwner)]
    BY WrapperNow, WrapperTakes DEF OwnerReads, Receives
  <1>3. CASE Close(l)
    BY <1>0, <1>1, <1>2, <1>3, CloseKeeps
  <1>4. CASE /\ owner' = Put(owner, l, "reap") /\ fg' = Put(fg, l, FALSE)
             /\ toGuardian' = Send(toGuardian, l, "statusack") /\ UNCHANGED result
    <2>1. "statusack" \in ToGuardian /\ "reap" \in OwnerSteps
      BY DEF ToGuardian, OwnerSteps
    <2>2. toGuardian' = Put(toGuardian, l, Append(toGuardian[l], "statusack"))
          /\ Append(toGuardian[l], "statusack") \in Seq(ToGuardian)
      BY <1>4, <2>1, WrapperSends
    <2>3. result' = Put(result, l, result[l])
      BY <1>4, WrapperNow
    <2> QED BY <1>0, <1>1, <1>2, <1>4, <2>1, <2>2, <2>3, WrapperNow, WrapperStepKeeps
  <1>5. CASE /\ owner' = Put(owner, l, "suspended") /\ fg' = Put(fg, l, FALSE)
             /\ UNCHANGED <<result, toGuardian>>
    <2>1. "suspended" \in OwnerSteps
      BY DEF OwnerSteps
    <2>2. /\ result' = Put(result, l, result[l]) /\ toGuardian' = Put(toGuardian, l, toGuardian[l])
      BY <1>5, WrapperNow
    <2> QED BY <1>0, <1>1, <1>2, <1>5, <2>1, <2>2, WrapperNow, WrapperStepKeeps
  <1> QED BY <1>3, <1>4, <1>5 DEF OwnerReads

LEMMA ResumesKeeps == ASSUME Core, NEW l \in Launches, OwnerResumes(l) PROVE Core'
  <1>0. /\ owner[l] \in {"suspended", "wait"} /\ UNCHANGED <<signals, toOwner>>
        /\ UNCHANGED <<guardian, how, shutdown, interrupted, client, go, dirVars>>
    BY DEF OwnerResumes, guardVars
  <1>1. /\ signals' \in [Launches -> 0 .. MaxSignals] /\ toOwner' \in [Launches -> Seq(ToOwner)]
        /\ result[l] # "status" /\ how[l] # "done" /\ ~Holds(toGuardian[l], "statusack")
    BY <1>0, WrapperNow
  <1>2. CASE Close(l)
    BY <1>0, <1>1, <1>2, CloseKeeps
  <1>3. CASE /\ toGuardian' = Send(toGuardian, l, "continue") /\ owner' = Put(owner, l, "wait")
             /\ fg' \in {Put(fg, l, TRUE)} \cup (IF owner[l] = "suspended" THEN {fg} ELSE {})
             /\ UNCHANGED result
    <2>1. "continue" \in ToGuardian /\ "wait" \in OwnerSteps
      BY DEF ToGuardian, OwnerSteps
    <2>2. toGuardian' = Put(toGuardian, l, Append(toGuardian[l], "continue"))
          /\ Append(toGuardian[l], "continue") \in Seq(ToGuardian)
      BY <1>3, <2>1, WrapperSends
    <2>3. ~Holds(Append(toGuardian[l], "continue"), "statusack")
      BY <1>1, <1>3, <2>1, WrapperSends
    <2>4. result' = Put(result, l, result[l])
      BY <1>3, WrapperNow
    <2>5. PICK f \in BOOLEAN : fg' = Put(fg, l, f)
      BY <1>3, WrapperNow
    <2> QED BY <1>0, <1>1, <1>3, <2>1, <2>2, <2>3, <2>4, <2>5, WrapperNow, WrapperStepKeeps
  <1> QED BY <1>2, <1>3 DEF OwnerResumes

LEMMA CancelsKeeps == ASSUME Core, NEW l \in Launches, OwnerCancels(l) PROVE Core'
  <1>0. /\ owner[l] = "wait" /\ toOwner' = toOwner /\ signals[l] < MaxSignals
        /\ signals' = [signals EXCEPT ![l] = @ + 1]
        /\ UNCHANGED <<guardian, how, shutdown, interrupted, client, go, dirVars>>
    BY DEF OwnerCancels, guardVars
  <1>1. /\ signals' \in [Launches -> 0 .. MaxSignals] /\ toOwner' \in [Launches -> Seq(ToOwner)]
        /\ result[l] # "status" /\ how[l] # "done" /\ ~Holds(toGuardian[l], "statusack")
    <2>1. signals \in [Launches -> 0 .. MaxSignals]
      BY WrapperNow
    <2>2. signals' \in [Launches -> 0 .. MaxSignals]
      BY <1>0, <2>1, MaxSignalsAssumption
    <2> QED BY <1>0, <2>2, WrapperNow
  <1>2. CASE Close(l)
    BY <1>0, <1>1, <1>2, CloseKeeps
  <1>3. CASE toGuardian' = Send(toGuardian, l, "cancel") /\ UNCHANGED <<owner, result, fg>>
    <2>1. "cancel" \in ToGuardian
      BY DEF ToGuardian
    <2>2. toGuardian' = Put(toGuardian, l, Append(toGuardian[l], "cancel"))
          /\ Append(toGuardian[l], "cancel") \in Seq(ToGuardian)
      BY <1>3, <2>1, WrapperSends
    <2>3. ~Holds(Append(toGuardian[l], "cancel"), "statusack")
      BY <1>1, <1>3, <2>1, WrapperSends
    <2>4. /\ result' = Put(result, l, result[l]) /\ fg' = Put(fg, l, fg[l])
          /\ owner' = Put(owner, l, owner[l])
      BY <1>3, WrapperNow
    <2> QED BY <1>0, <1>1, <2>2, <2>3, <2>4, WrapperNow, WrapperStepKeeps
  <1> QED BY <1>2, <1>3 DEF OwnerCancels

\* The status is returned only if the guardian says that all is done.
LEMMA ReturnsKeeps == ASSUME Core, NEW l \in Launches, OwnerReturns(l) PROVE Core'
  <1>0. /\ owner[l] = "reap" /\ ~GuardianUp(l) /\ UNCHANGED <<fg, toGuardian, toOwner, signals>>
        /\ UNCHANGED <<guardian, how, shutdown, interrupted, client, go, dirVars>>
        /\ owner' = Put(owner, l, "ended")
    BY DEF OwnerReturns, guardVars
  <1>1. PICK r \in {"status", "error"} : result' = Put(result, l, r)
                                         /\ (r = "status" => guardian[l] = "exited0")
    BY DEF OwnerReturns
  <1>2. fg' = Put(fg, l, fg[l]) /\ toGuardian' = Put(toGuardian, l, toGuardian[l])
        /\ "ended" \in OwnerSteps /\ ~fg[l] /\ r \in {"none", "status", "error"}
    BY <1>0, WrapperNow DEF OwnerSteps
  <1>3. toOwner' \in [Launches -> Seq(ToOwner)] /\ signals' \in [Launches -> 0 .. MaxSignals]
    BY <1>0, WrapperNow
  <1> QED BY <1>0, <1>1, <1>2, <1>3, WrapperNow, WrapperStepKeeps

LEMMA OwnerCrashesKeeps == ASSUME Core, NEW l \in Launches, OwnerCrashes(l) PROVE Core'
  <1>0. /\ owner[l] \notin {"idle", "ended", "dead"}
        /\ UNCHANGED <<result, toGuardian, toOwner, signals>>
        /\ UNCHANGED <<guardian, how, shutdown, interrupted, client, go, dirVars>>
        /\ owner' = Put(owner, l, "dead") /\ fg' = Put(fg, l, FALSE) /\ "dead" \in OwnerSteps
    BY DEF OwnerCrashes, guardVars, OwnerSteps
  <1>1. /\ result' = Put(result, l, result[l]) /\ toGuardian' = Put(toGuardian, l, toGuardian[l])
        /\ toOwner' \in [Launches -> Seq(ToOwner)] /\ signals' \in [Launches -> 0 .. MaxSignals]
        /\ result[l] # "status"
    BY <1>0, WrapperNow
  <1> QED BY <1>0, <1>1, WrapperNow, WrapperStepKeeps

(***************************************************************************)
(* The guardian                                                            *)
(***************************************************************************)

Clients == Living \cup {"none", "zombie", "reaped"}
Hows == {"none", "abort", "lost", "done"}

\* What is to be shown of the launch l if its guardian, the reason why it ends,
\* its client, its directory and the target of its cleanup become these.
LaunchOK(l, g, h, c, F, t) ==
  /\ h = "done" => c \in {"zombie", "reaped"} /\ owner[l] \in {"reap", "ended", "dead"}
  /\ client[l] = "reaped" => c = "reaped"
  /\ g \in BeforeSpawn => c = "none"
  /\ g = "spawn" \/ c \in Living => "settings" \in F
  /\ g = "statusack" => c = "zombie"
  /\ g \in {"terminate", "exited0", "exited1"} /\ c \in Living => c = "dying"
  /\ g = "mark" \/ "released" \in F => c = "reaped"
  /\ g = "exited0" => c = "reaped"
  /\ g \in {"clean", "drop"} =>
        /\ t \in Launches
        /\ t = l => c \in {"none", "reaped"}
        /\ t # l => c = "none" /\ client[t] = "reaped"
  /\ g = "drop" => t = l

\* The parts of the state of which only the types matter.
RestTyped ==
  /\ toOwner \in [Launches -> Seq(ToOwner)] /\ shutdown \in [Launches -> {"none", "armed", "forced"}]
  /\ interrupted \in [Launches -> BOOLEAN] /\ go \in [Launches -> BOOLEAN]
  /\ unseen \in [Launches -> SUBSET Launches] /\ rootLock \in Launches \cup {None}
  /\ signals \in [Launches -> 0 .. MaxSignals]

LEMMA GuardianNow ==
  ASSUME Core, NEW l \in Launches
  PROVE  /\ guardian = Put(guardian, l, guardian[l]) /\ guardian[l] \in GuardianSteps
         /\ how = Put(how, l, how[l]) /\ how[l] \in Hows
         /\ client = Put(client, l, client[l]) /\ client[l] \in Clients
         /\ files = Put(files, l, files[l]) /\ files[l] \in SUBSET Entries
         /\ target = Put(target, l, target[l]) /\ target[l] \in Launches \cup {None}
         /\ guardian \in [Launches -> GuardianSteps] /\ client \in [Launches -> Clients]
         /\ files \in [Launches -> SUBSET Entries] /\ target \in [Launches -> Launches \cup {None}]
         /\ RestTyped
         /\ LaunchOK(l, guardian[l], how[l], client[l], files[l], target[l])
  <1>0. StateOK /\ WrapperOK(l) /\ ClientOK(l) /\ CleanOK(l)
    BY Now
  <1>1. /\ guardian \in [Launches -> GuardianSteps] /\ how \in [Launches -> Hows]
        /\ client \in [Launches -> Clients] /\ files \in [Launches -> SUBSET Entries]
        /\ target \in [Launches -> Launches \cup {None}]
    BY <1>0 DEF StateOK, Hows, Clients
  <1>2. RestTyped
    BY <1>0 DEF StateOK, RestTyped
  <1>3. /\ guardian = Put(guardian, l, guardian[l]) /\ how = Put(how, l, how[l])
        /\ client = Put(client, l, client[l]) /\ files = Put(files, l, files[l])
        /\ target = Put(target, l, target[l])
    BY <1>1 DEF Put
  <1>4. LaunchOK(l, guardian[l], how[l], client[l], files[l], target[l])
    BY <1>0 DEF LaunchOK, WrapperOK, ClientOK, CleanOK, StatusAcked, Alive
  <1> QED BY <1>1, <1>2, <1>3, <1>4

\* A step that leaves the wrapper's own state alone.
LEMMA StepKeeps ==
  ASSUME Core, NEW l \in Launches,
         NEW g \in GuardianSteps, NEW h \in Hows, NEW c \in Clients, NEW F \in SUBSET Entries,
         NEW t \in Launches \cup {None}, NEW q \in Seq(ToGuardian),
         guardian' = Put(guardian, l, g), how' = Put(how, l, h), client' = Put(client, l, c),
         files' = Put(files, l, F), target' = Put(target, l, t),
         toGuardian' = Put(toGuardian, l, q), UNCHANGED <<owner, result, fg>>,
         Holds(q, "statusack") => Holds(toGuardian[l], "statusack"),
         RestTyped', LaunchOK(l, g, h, c, F, t),
         GuardianUp(l) \/ g = guardian[l]
  PROVE  Core'
  <1>0. StateOK /\ WrapperOK(l) /\ ClientOK(l) /\ CleanOK(l)
    BY Now
  <1>1. StateOK'
    BY <1>0 DEF StateOK, RestTyped, Put, Hows, Clients
  <1>2. /\ guardian'[l] = g /\ how'[l] = h /\ client'[l] = c /\ files'[l] = F /\ target'[l] = t
        /\ toGuardian'[l] = q
        /\ \A d \in Launches : d # l =>
             /\ guardian'[d] = guardian[d] /\ how'[d] = how[d] /\ client'[d] = client[d]
             /\ files'[d] = files[d] /\ target'[d] = target[d] /\ toGuardian'[d] = toGuardian[d]
    BY <1>0 DEF StateOK, Put
  <1>3. Frame(l)
    BY <1>2 DEF Frame, LaunchOK
  <1>4. WrapperOK(l)'
    <2>1. GuardianUp(l) => owner[l] # "idle" /\ owner[l] # "ended" /\ result[l] # "status"
      BY <1>0 DEF WrapperOK, GuardianUp, Gone
    <2>2. h = "done" \/ Holds(q, "statusack") => owner[l] \in {"reap", "ended", "dead"}
      BY <1>0 DEF WrapperOK, StatusAcked, LaunchOK
    <2> QED BY <1>0, <1>2, <2>1, <2>2 DEF WrapperOK, StatusAcked, GuardianUp
  <1>5. ClientOK(l)'
    BY <1>2 DEF ClientOK, Alive, LaunchOK
  <1>6. CleanOK(l)'
    <2>1. \A x \in Launches : client[x] = "reaped" => client'[x] = "reaped"
      BY <1>2 DEF LaunchOK
    <2>2. ASSUME guardian'[l] \in {"clean", "drop"}
          PROVE  /\ target'[l] \in Launches
                 /\ target'[l] = l => client'[l] \in {"none", "reaped"}
                 /\ target'[l] # l => client'[l] = "none" /\ client'[target'[l]] = "reaped"
      <3>1. /\ t \in Launches /\ (t = l => c \in {"none", "reaped"})
            /\ t # l => c = "none" /\ client[t] = "reaped"
        BY <1>2, <2>2 DEF LaunchOK
      <3> QED BY <1>2, <2>1, <3>1
    <2>3. guardian'[l] = "drop" => target'[l] = l
      BY <1>2 DEF LaunchOK
    <2> QED BY <2>2, <2>3 DEF CleanOK
  <1> QED BY <1>1, <1>3, <1>4, <1>5, <1>6, LaunchStepKeeps

LEMMA ExitTyped ==
  ASSUME Core, NEW l \in Launches, NEW code, ExitAs(l, code),
         UNCHANGED <<toOwner, shutdown, go, signals>>
  PROVE  RestTyped' /\ guardian' = Put(guardian, l, code) /\ target' = Put(target, l, None)
  <1>1. RestTyped
    BY GuardianNow
  <1> QED BY <1>1 DEF ExitAs, RestTyped, Put

LEMMA GuardianTakes ==
  ASSUME Core, NEW l \in Launches, toGuardian[l] # <<>>
  PROVE  /\ Taken(toGuardian, l) = Put(toGuardian, l, Tail(toGuardian[l]))
         /\ Tail(toGuardian[l]) \in Seq(ToGuardian)
         /\ Holds(Tail(toGuardian[l]), "statusack") => Holds(toGuardian[l], "statusack")
         /\ Head(toGuardian[l]) = "statusack" => Holds(toGuardian[l], "statusack")
  <1>1. toGuardian[l] \in Seq(ToGuardian)
    BY WrapperNow
  <1>2. Tail(toGuardian[l]) \in Seq(ToGuardian)
    BY <1>1
  <1>3. Taken(toGuardian, l) = Put(toGuardian, l, Tail(toGuardian[l]))
    BY DEF Taken, Put
  <1> QED BY <1>1, <1>2, <1>3, HoldsHeadTail

LEMMA GuardianSends ==
  ASSUME Core, NEW l \in Launches, NEW b \in ToOwner
  PROVE  Send(toOwner, l, b) \in [Launches -> Seq(ToOwner)]
  <1>1. toOwner \in [Launches -> Seq(ToOwner)]
    BY WrapperNow
  <1>2. Append(toOwner[l], b) \in Seq(ToOwner)
    BY <1>1
  <1> QED BY <1>1, <1>2 DEF Send

\* The guardian ends in a step in which its client is of no concern.
LEMMA ExitKeeps ==
  ASSUME Core, NEW l \in Launches, NEW code \in {"exited0", "exited1", "crashed", "hung"},
         ExitAs(l, code), GuardianUp(l),
         code \in {"exited0", "exited1"} => client[l] \notin Living \ {"dying"},
         code = "exited0" => client[l] = "reaped",
         NEW q \in Seq(ToGuardian), toGuardian' = Put(toGuardian, l, q),
         Holds(q, "statusack") => Holds(toGuardian[l], "statusack"),
         UNCHANGED <<owner, result, fg, how, shutdown, toOwner, client, go, files, signals>>
  PROVE  Core'
  <1>1. RestTyped' /\ guardian' = Put(guardian, l, code) /\ target' = Put(target, l, None)
    BY ExitTyped
  <1>2. /\ how' = Put(how, l, how[l]) /\ client' = Put(client, l, client[l])
        /\ files' = Put(files, l, files[l]) /\ how[l] \in Hows /\ client[l] \in Clients
        /\ files[l] \in SUBSET Entries /\ None \in Launches \cup {None}
    BY GuardianNow
  <1>3. code \in GuardianSteps
    BY DEF GuardianSteps
  <1>4. LaunchOK(l, guardian[l], how[l], client[l], files[l], target[l])
    BY GuardianNow
  <1>5. LaunchOK(l, code, how[l], client[l], files[l], None)
    BY <1>4 DEF LaunchOK, BeforeSpawn
  <1> QED BY <1>1, <1>2, <1>3, <1>5, StepKeeps

\* The wrapper returns an error when its guardian has ended, if need be by force.
LEMMA ClosesKeeps == ASSUME Core, NEW l \in Launches, OwnerCloses(l) PROVE Core'
  <1>0. StateOK /\ WrapperOK(l) /\ ClientOK(l) /\ CleanOK(l) /\ owner[l] = "closing"
    BY Now DEF OwnerCloses
  <1>1. /\ owner' = Put(owner, l, "ended") /\ result' = Put(result, l, "error")
        /\ fg' = Put(fg, l, FALSE)
        /\ UNCHANGED <<toGuardian, how, shutdown, toOwner, client, go, files, signals>>
    BY DEF OwnerCloses
  <1>2. CASE ~GuardianUp(l) /\ UNCHANGED <<guardian, rootLock, left, target, unseen, interrupted>>
    <2>1. "ended" \in OwnerSteps /\ "error" \in {"none", "status", "error"}
      BY DEF OwnerSteps
    <2>2. toGuardian' = Put(toGuardian, l, toGuardian[l]) /\ toGuardian[l] \in Seq(ToGuardian)
      BY <1>1, WrapperNow
    <2>3. toOwner' \in [Launches -> Seq(ToOwner)] /\ signals' \in [Launches -> 0 .. MaxSignals]
      BY <1>1, WrapperNow
    <2>4. UNCHANGED <<guardian, how, shutdown, interrupted, client, go, dirVars>>
      BY <1>1, <1>2 DEF dirVars
    <2> QED BY <1>1, <1>2, <2>1, <2>2, <2>3, <2>4, WrapperStepKeeps
  <1>3. CASE guardian[l] = "hung" /\ ExitAs(l, "crashed")
    <2>1. RestTyped' /\ guardian' = Put(guardian, l, "crashed") /\ target' = Put(target, l, None)
      BY <1>1, <1>3, ExitTyped
    <2>2. StateOK'
      BY <1>0, <1>1, <2>1 DEF StateOK, RestTyped, Put, OwnerSteps, GuardianSteps
    <2>3. Frame(l)
      BY <1>0, <1>1, <2>1 DEF Frame, StateOK, Put
    <2>4. WrapperOK(l)'
      BY <1>0, <1>1, <2>1 DEF WrapperOK, StateOK, Put, StatusAcked, GuardianUp, Gone
    <2>5. ClientOK(l)'
      BY <1>0, <1>1, <2>1 DEF ClientOK, StateOK, Put, Alive, BeforeSpawn
    <2>6. CleanOK(l)'
      BY <1>0, <2>1 DEF CleanOK, StateOK, Put
    <2> QED BY <2>2, <2>3, <2>4, <2>5, <2>6, LaunchStepKeeps
  <1> QED BY <1>2, <1>3 DEF OwnerCloses

\* The unchanged parts of the guardian's step and the message it may have taken.
LEMMA SameQueue ==
  ASSUME Core, NEW l \in Launches, toGuardian' = toGuardian
  PROVE  toGuardian' = Put(toGuardian, l, toGuardian[l]) /\ toGuardian[l] \in Seq(ToGuardian)
  BY WrapperNow

\* A step of the guardian to g that leaves its client and its directory alone.
LEMMA MoveKeeps ==
  ASSUME Core, NEW l \in Launches, GuardianUp(l), NEW g \in GuardianSteps,
         NEW t \in Launches \cup {None},
         guardian' = Put(guardian, l, g), target' = Put(target, l, t),
         NEW q \in Seq(ToGuardian), toGuardian' = Put(toGuardian, l, q),
         Holds(q, "statusack") => Holds(toGuardian[l], "statusack"),
         UNCHANGED <<owner, result, fg, how, client, files>>, RestTyped',
         LaunchOK(l, g, how[l], client[l], files[l], t)
  PROVE  Core'
  <1>1. /\ how' = Put(how, l, how[l]) /\ client' = Put(client, l, client[l])
        /\ files' = Put(files, l, files[l]) /\ how[l] \in Hows /\ client[l] \in Clients
        /\ files[l] \in SUBSET Entries
    BY GuardianNow
  <1> QED BY <1>1, StepKeeps

LEMMA HelloKeeps == ASSUME Core, NEW l \in Launches, GuardianHello(l) PROVE Core'
  <1>0. /\ guardian[l] = "start" /\ GuardianUp(l)
        /\ UNCHANGED <<owner, result, fg, toGuardian, how, shutdown, client, go, files, signals>>
    BY DEF GuardianHello, GuardianUp, Gone, ownerVars
  <1>1. toGuardian' = Put(toGuardian, l, toGuardian[l]) /\ toGuardian[l] \in Seq(ToGuardian)
    BY <1>0, SameQueue
  <1>2. RestTyped /\ LaunchOK(l, "start", how[l], client[l], files[l], target[l])
    BY <1>0, GuardianNow
  <1>3. CASE /\ toOwner' = Send(toOwner, l, "hello") /\ guardian' = Put(guardian, l, "payload")
             /\ UNCHANGED <<interrupted, target, unseen, rootLock>>
    <2>1. "payload" \in GuardianSteps /\ "hello" \in ToOwner
      BY DEF GuardianSteps, Startup, ToOwner
    <2>2. toOwner' \in [Launches -> Seq(ToOwner)]
      BY <1>3, <2>1, GuardianSends
    <2>3. RestTyped'
      BY <1>0, <1>2, <1>3, <2>2 DEF RestTyped
    <2>4. LaunchOK(l, "payload", how[l], client[l], files[l], target[l])
      BY <1>2 DEF LaunchOK, BeforeSpawn
    <2>5. target' = Put(target, l, target[l]) /\ target[l] \in Launches \cup {None}
      BY <1>3, GuardianNow
    <2> QED BY <1>0, <1>1, <1>3, <2>1, <2>3, <2>4, <2>5, MoveKeeps
  <1>4. CASE ExitAs(l, "exited1") /\ UNCHANGED toOwner
    <2>1. client[l] \notin Living \ {"dying"}
      BY <1>2 DEF LaunchOK, BeforeSpawn, Living
    <2> QED BY <1>0, <1>1, <1>4, <2>1, ExitKeeps
  <1> QED BY <1>3, <1>4 DEF GuardianHello

LEMMA PayloadKeeps == ASSUME Core, NEW l \in Launches, GuardianPayload(l) PROVE Core'
  <1>0. /\ guardian[l] = "payload" /\ GuardianUp(l)
        /\ UNCHANGED <<owner, result, fg, how, shutdown, toOwner, client, go, files, signals>>
    BY DEF GuardianPayload, GuardianUp, Gone
  <1>2. RestTyped /\ LaunchOK(l, "payload", how[l], client[l], files[l], target[l])
    BY <1>0, GuardianNow
  <1>3. CASE /\ toGuardian[l] # <<>> /\ toGuardian' = Taken(toGuardian, l)
             /\ guardian' = Put(guardian, l, "root")
             /\ UNCHANGED <<interrupted, target, unseen, rootLock>>
    <2>1. "root" \in GuardianSteps
      BY DEF GuardianSteps, Startup
    <2>3. RestTyped'
      BY <1>0, <1>2, <1>3 DEF RestTyped
    <2>4. LaunchOK(l, "root", how[l], client[l], files[l], target[l])
      BY <1>2 DEF LaunchOK, BeforeSpawn
    <2>5. target' = Put(target, l, target[l]) /\ target[l] \in Launches \cup {None}
      BY <1>3, GuardianNow
    <2> QED BY <1>0, <1>3, <2>1, <2>3, <2>4, <2>5, GuardianTakes, MoveKeeps
  <1>4. CASE ExitAs(l, "exited1") /\ UNCHANGED toGuardian
    <2>1. client[l] \notin Living \ {"dying"}
      BY <1>2 DEF LaunchOK, BeforeSpawn, Living
    <2>2. toGuardian' = Put(toGuardian, l, toGuardian[l]) /\ toGuardian[l] \in Seq(ToGuardian)
      BY <1>4, SameQueue
    <2> QED BY <1>0, <1>4, <2>1, <2>2, ExitKeeps
  <1> QED BY <1>3, <1>4 DEF GuardianPayload, Receives

LEMMA RootLockKeeps == ASSUME Core, NEW l \in Launches, GuardianRootLock(l) PROVE Core'
  <1>0. /\ guardian[l] = "root" /\ GuardianUp(l)
        /\ UNCHANGED <<owner, result, fg, toGuardian, how, shutdown, toOwner, client, go, files,
                       signals>>
    BY DEF GuardianRootLock, GuardianUp, Gone, ownerVars
  <1>1. toGuardian' = Put(toGuardian, l, toGuardian[l]) /\ toGuardian[l] \in Seq(ToGuardian)
    BY <1>0, SameQueue
  <1>2. RestTyped /\ LaunchOK(l, "root", how[l], client[l], files[l], target[l])
    BY <1>0, GuardianNow
  <1>3. CASE /\ rootLock' = l /\ guardian' = Put(guardian, l, "sweep")
             /\ unseen' = Put(unseen, l, {t \in Launches \ {l} : "dir" \in files[t]})
             /\ UNCHANGED <<interrupted, target>>
    <2>1. "sweep" \in GuardianSteps
      BY DEF GuardianSteps, Startup
    <2>3. RestTyped'
      BY <1>0, <1>2, <1>3 DEF RestTyped, Put
    <2>4. LaunchOK(l, "sweep", how[l], client[l], files[l], target[l])
      BY <1>2 DEF LaunchOK, BeforeSpawn
    <2>5. target' = Put(target, l, target[l]) /\ target[l] \in Launches \cup {None}
      BY <1>3, GuardianNow
    <2> QED BY <1>0, <1>1, <1>3, <2>1, <2>3, <2>4, <2>5, MoveKeeps
  <1>4. CASE ExitAs(l, "exited1")
    <2>1. client[l] \notin Living \ {"dying"}
      BY <1>2 DEF LaunchOK, BeforeSpawn, Living
    <2> QED BY <1>0, <1>1, <1>4, <2>1, ExitKeeps
  <1> QED BY <1>3, <1>4 DEF GuardianRootLock

\* A session is taken for removal only if it was released: its client is reaped.
LEMMA SweepKeeps ==
  ASSUME Core, NEW l \in Launches, NEW t \in Launches, GuardianSweep(l, t)
  PROVE  Core'
  <1>0. /\ guardian[l] = "sweep" /\ GuardianUp(l) /\ unseen' = Put(unseen, l, unseen[l] \ {t})
        /\ UNCHANGED <<owner, result, fg, toGuardian, how, shutdown, interrupted, toOwner, client,
                       go, files, rootLock, signals>>
    BY DEF GuardianSweep, GuardianUp, Gone, ownerVars
  <1>1. toGuardian' = Put(toGuardian, l, toGuardian[l]) /\ toGuardian[l] \in Seq(ToGuardian)
    BY <1>0, SameQueue
  <1>2. RestTyped /\ LaunchOK(l, "sweep", how[l], client[l], files[l], target[l])
    BY <1>0, GuardianNow
  <1>3. RestTyped'
    BY <1>0, <1>2 DEF RestTyped, Put
  <1>4. CASE /\ "released" \in files[t] /\ guardian' = Put(guardian, l, "clean")
             /\ target' = Put(target, l, t)
    <2>1. "clean" \in GuardianSteps
      BY DEF GuardianSteps
    <2>2. client[t] = "reaped"
      BY <1>4, GuardianNow DEF LaunchOK
    <2>3. client[l] = "none"
      BY <1>2 DEF LaunchOK, BeforeSpawn
    <2>4. LaunchOK(l, "clean", how[l], client[l], files[l], t)
      BY <1>2, <2>2, <2>3 DEF LaunchOK, BeforeSpawn
    <2> QED BY <1>0, <1>1, <1>3, <1>4, <2>1, <2>4, MoveKeeps
  <1>5. CASE UNCHANGED <<guardian, target>>
    <2>1. /\ target' = Put(target, l, target[l]) /\ target[l] \in Launches \cup {None}
          /\ guardian' = Put(guardian, l, "sweep") /\ "sweep" \in GuardianSteps
      BY <1>0, <1>5, GuardianNow
    <2> QED BY <1>0, <1>1, <1>2, <1>3, <2>1, MoveKeeps
  <1> QED BY <1>4, <1>5 DEF GuardianSweep

LEMMA SweepDoneKeeps == ASSUME Core, NEW l \in Launches, GuardianSweepDone(l) PROVE Core'
  <1>0. /\ guardian[l] = "sweep" /\ GuardianUp(l) /\ guardian' = Put(guardian, l, "mkdir")
        /\ UNCHANGED <<owner, result, fg, toGuardian, how, shutdown, interrupted, toOwner, client,
                       go, files, rootLock, unseen, target, signals>>
    BY DEF GuardianSweepDone, GuardianUp, Gone, ownerVars, dirVars
  <1>1. toGuardian' = Put(toGuardian, l, toGuardian[l]) /\ toGuardian[l] \in Seq(ToGuardian)
    BY <1>0, SameQueue
  <1>2. RestTyped /\ LaunchOK(l, "sweep", how[l], client[l], files[l], target[l])
    BY <1>0, GuardianNow
  <1>3. RestTyped'
    BY <1>0, <1>2 DEF RestTyped
  <1>4. LaunchOK(l, "mkdir", how[l], client[l], files[l], target[l]) /\ "mkdir" \in GuardianSteps
    BY <1>2 DEF LaunchOK, BeforeSpawn, GuardianSteps, Startup
  <1>5. target' = Put(target, l, target[l]) /\ target[l] \in Launches \cup {None}
    BY <1>0, GuardianNow
  <1> QED BY <1>0, <1>1, <1>3, <1>4, <1>5, MoveKeeps

\* abort before there is a client.
LEMMA AbortKeeps ==
  ASSUME Core, NEW l \in Launches, guardian[l] \in {"mkdir", "lock", "write", "spawn"}, Abort(l),
         UNCHANGED <<owner, result, fg, toGuardian, shutdown, interrupted, toOwner, go, files,
                     unseen, signals>>
  PROVE  Core'
  <1>0. /\ GuardianUp(l) /\ target' = Put(target, l, l)
        /\ UNCHANGED <<how, client, rootLock>>
    BY DEF Abort, GuardianUp, Gone
  <1>5. PICK g \in {"clean", "drop"} : guardian' = Put(guardian, l, g) /\ g \in GuardianSteps
    BY DEF Abort, GuardianSteps
  <1>1. toGuardian' = Put(toGuardian, l, toGuardian[l]) /\ toGuardian[l] \in Seq(ToGuardian)
    BY SameQueue
  <1>2. RestTyped /\ LaunchOK(l, guardian[l], how[l], client[l], files[l], target[l])
    BY GuardianNow
  <1>3. RestTyped'
    BY <1>0, <1>2 DEF RestTyped
  <1>4. LaunchOK(l, g, how[l], client[l], files[l], l)
    <2>1. client[l] = "none"
      BY <1>2 DEF LaunchOK, BeforeSpawn
    <2> QED BY <1>2, <2>1 DEF LaunchOK, BeforeSpawn, Living
  <1> QED BY <1>0, <1>1, <1>3, <1>4, <1>5, MoveKeeps

LEMMA CreateKeeps == ASSUME Core, NEW l \in Launches, GuardianCreate(l) PROVE Core'
  <1>0. /\ guardian[l] \in {"mkdir", "lock", "write"} /\ GuardianUp(l)
        /\ UNCHANGED <<owner, result, fg, toGuardian, shutdown, interrupted, toOwner, go,
                       unseen, signals>>
    BY DEF GuardianCreate, GuardianUp, Gone, ownerVars
  <1>1. toGuardian' = Put(toGuardian, l, toGuardian[l]) /\ toGuardian[l] \in Seq(ToGuardian)
    BY <1>0, SameQueue
  <1>2. RestTyped /\ LaunchOK(l, guardian[l], how[l], client[l], files[l], target[l])
    BY GuardianNow
  <1>3. CASE Abort(l) /\ UNCHANGED files
    BY <1>0, <1>3, AbortKeeps
  <1>4. CASE /\ files' = [files EXCEPT ![l] = @ \cup {Creates(guardian[l])}]
             /\ guardian' = Put(guardian, l, AfterCreate(guardian[l]))
             /\ rootLock' = IF guardian[l] = "write" THEN None ELSE rootLock
             /\ UNCHANGED <<how, client, target>>
    <2>1. PICK g \in {"lock", "write", "spawn"} : g = AfterCreate(guardian[l])
      BY <1>0 DEF AfterCreate
    <2>2. PICK e \in {"dir", "owner", "settings"} :
            e = Creates(guardian[l]) /\ (g = "spawn" => e = "settings")
      BY <1>0, <2>1 DEF Creates, AfterCreate
    <2>3. /\ guardian' = Put(guardian, l, g) /\ files' = Put(files, l, files[l] \cup {e})
          /\ g \in GuardianSteps /\ files[l] \cup {e} \in SUBSET Entries
      BY <1>4, <2>1, <2>2, GuardianNow, EntriesAre DEF Put, GuardianSteps, Startup
    <2>4. /\ how' = Put(how, l, how[l]) /\ client' = Put(client, l, client[l])
          /\ target' = Put(target, l, target[l]) /\ how[l] \in Hows /\ client[l] \in Clients
          /\ target[l] \in Launches \cup {None}
      BY <1>4, GuardianNow
    <2>5. RestTyped'
      BY <1>0, <1>2, <1>4 DEF RestTyped
    <2>6. LaunchOK(l, g, how[l], client[l], files[l] \cup {e}, target[l])
      <3>1. client[l] = "none" /\ "none" \notin Living
        BY <1>0, <1>2 DEF LaunchOK, BeforeSpawn, Living
      <3> QED BY <1>2, <2>1, <2>2, <3>1 DEF LaunchOK, BeforeSpawn
    <2> QED BY <1>0, <1>1, <2>3, <2>4, <2>5, <2>6, StepKeeps
  <1> QED BY <1>3, <1>4 DEF GuardianCreate

\* SIGKILL: who still lives is dying.
LEMMA TerminateKeeps ==
  ASSUME Core, NEW l \in Launches, GuardianUp(l), NEW why \in {"abort", "lost", "done"},
         Terminate(l, why),
         why = "done" => client[l] = "zombie" /\ owner[l] \in {"reap", "ended", "dead"},
         NEW q \in Seq(ToGuardian), toGuardian' = Put(toGuardian, l, q),
         Holds(q, "statusack") => Holds(toGuardian[l], "statusack"),
         UNCHANGED <<owner, result, fg, files, target>>, RestTyped'
  PROVE  Core'
  <1>1. PICK c \in Clients : client' = Put(client, l, c) /\ c = IF Alive(l) THEN "dying" ELSE client[l]
    BY GuardianNow DEF Terminate, Clients, Living
  <1>2. /\ guardian' = Put(guardian, l, "terminate") /\ how' = Put(how, l, why)
        /\ "terminate" \in GuardianSteps /\ why \in Hows
    BY DEF Terminate, GuardianSteps, Hows
  <1>3. /\ files' = Put(files, l, files[l]) /\ files[l] \in SUBSET Entries
        /\ target' = Put(target, l, target[l]) /\ target[l] \in Launches \cup {None}
    BY GuardianNow
  <1>4. LaunchOK(l, "terminate", why, c, files[l], target[l])
    <2>1. LaunchOK(l, guardian[l], how[l], client[l], files[l], target[l])
      BY GuardianNow
    <2> QED BY <1>1, <2>1 DEF LaunchOK, Alive, Living, BeforeSpawn
  <1> QED BY <1>1, <1>2, <1>3, <1>4, StepKeeps

LEMMA SpawnKeeps == ASSUME Core, NEW l \in Launches, GuardianSpawn(l) PROVE Core'
  <1>0. /\ guardian[l] \in {"spawn", "relay"} /\ GuardianUp(l)
        /\ UNCHANGED <<owner, result, fg, toGuardian, shutdown, interrupted, toOwner, go, files,
                       unseen, signals>>
    BY DEF GuardianSpawn, GuardianUp, Gone, ownerVars
  <1>1. toGuardian' = Put(toGuardian, l, toGuardian[l]) /\ toGuardian[l] \in Seq(ToGuardian)
    BY <1>0, SameQueue
  <1>2. RestTyped /\ LaunchOK(l, guardian[l], how[l], client[l], files[l], target[l])
    BY GuardianNow
  <1>3. rootLock' = rootLock => RestTyped'
    BY <1>0, <1>2 DEF RestTyped
  <1>4. CASE guardian[l] = "spawn" /\ Abort(l)
    BY <1>0, <1>4, AbortKeeps
  <1>5. CASE /\ guardian[l] = "spawn" /\ client' = Put(client, l, "bootstrap")
             /\ guardian' = Put(guardian, l, "relay") /\ UNCHANGED <<how, target, rootLock>>
    <2>1. "relay" \in GuardianSteps /\ "bootstrap" \in Clients
      BY DEF GuardianSteps, Startup, Clients, Living
    <2>2. /\ how' = Put(how, l, how[l]) /\ files' = Put(files, l, files[l])
          /\ target' = Put(target, l, target[l]) /\ how[l] \in Hows
          /\ files[l] \in SUBSET Entries /\ target[l] \in Launches \cup {None}
      BY <1>0, <1>5, GuardianNow
    <2>3. LaunchOK(l, "relay", how[l], "bootstrap", files[l], target[l])
      BY <1>2, <1>5 DEF LaunchOK, BeforeSpawn
    <2> QED BY <1>0, <1>1, <1>3, <1>5, <2>1, <2>2, <2>3, StepKeeps
  <1>6. CASE /\ guardian[l] = "relay" /\ guardian' = Put(guardian, l, "ready")
             /\ UNCHANGED <<how, client, target, rootLock>>
    <2>1. "ready" \in GuardianSteps /\ LaunchOK(l, "ready", how[l], client[l], files[l], target[l])
      BY <1>2, <1>6 DEF LaunchOK, BeforeSpawn, GuardianSteps, Startup
    <2>2. target' = Put(target, l, target[l]) /\ target[l] \in Launches \cup {None}
      BY <1>6, GuardianNow
    <2> QED BY <1>0, <1>1, <1>3, <1>6, <2>1, <2>2, MoveKeeps
  <1>7. CASE Terminate(l, "abort") /\ UNCHANGED <<target, rootLock>>
    BY <1>0, <1>1, <1>3, <1>7, TerminateKeeps
  <1> QED BY <1>4, <1>5, <1>6, <1>7 DEF GuardianSpawn

LEMMA ReadyKeeps == ASSUME Core, NEW l \in Launches, GuardianReady(l) PROVE Core'
  <1>0. /\ guardian[l] = "ready" /\ GuardianUp(l)
        /\ UNCHANGED <<owner, result, fg, toGuardian, shutdown, interrupted, go, files, target,
                       unseen, rootLock, signals>>
    BY DEF GuardianReady, GuardianUp, Gone, ownerVars, dirVars
  <1>1. toGuardian' = Put(toGuardian, l, toGuardian[l]) /\ toGuardian[l] \in Seq(ToGuardian)
    BY <1>0, SameQueue
  <1>2. RestTyped /\ LaunchOK(l, "ready", how[l], client[l], files[l], target[l])
    BY <1>0, GuardianNow
  <1>3. toOwner' \in [Launches -> Seq(ToOwner)]
    <2>1. "ready" \in ToOwner /\ toOwner \in [Launches -> Seq(ToOwner)]
      BY <1>2 DEF ToOwner, RestTyped
    <2> QED BY <2>1, GuardianSends DEF GuardianReady
  <1>4. RestTyped'
    BY <1>0, <1>2, <1>3 DEF RestTyped
  <1>5. CASE guardian' = Put(guardian, l, "ackwait") /\ UNCHANGED <<how, client>>
    <2>1. "ackwait" \in GuardianSteps /\ LaunchOK(l, "ackwait", how[l], client[l], files[l], target[l])
      BY <1>2 DEF LaunchOK, BeforeSpawn, GuardianSteps, Startup
    <2>2. target' = Put(target, l, target[l]) /\ target[l] \in Launches \cup {None}
      BY <1>0, GuardianNow
    <2> QED BY <1>0, <1>1, <1>4, <1>5, <2>1, <2>2, MoveKeeps
  <1>6. CASE Terminate(l, "abort")
    BY <1>0, <1>1, <1>4, <1>6, TerminateKeeps
  <1> QED BY <1>5, <1>6 DEF GuardianReady

LEMMA AckKeeps == ASSUME Core, NEW l \in Launches, GuardianAck(l) PROVE Core'
  <1>0. /\ guardian[l] = "ackwait" /\ GuardianUp(l)
        /\ UNCHANGED <<owner, result, fg, toOwner, shutdown, interrupted, go, files, target,
                       unseen, rootLock, signals>>
    BY DEF GuardianAck, GuardianUp, Gone, dirVars
  <1>2. RestTyped /\ LaunchOK(l, "ackwait", how[l], client[l], files[l], target[l])
    BY <1>0, GuardianNow
  <1>4. RestTyped'
    BY <1>0, <1>2 DEF RestTyped
  <1>5. CASE /\ toGuardian[l] # <<>> /\ toGuardian' = Taken(toGuardian, l)
             /\ guardian' = Put(guardian, l, "go") /\ UNCHANGED <<how, client>>
    <2>1. "go" \in GuardianSteps /\ LaunchOK(l, "go", how[l], client[l], files[l], target[l])
      BY <1>2 DEF LaunchOK, BeforeSpawn, GuardianSteps, Startup
    <2>2. target' = Put(target, l, target[l]) /\ target[l] \in Launches \cup {None}
      BY <1>0, GuardianNow
    <2> QED BY <1>0, <1>4, <1>5, <2>1, <2>2, GuardianTakes, MoveKeeps
  <1>6. CASE Terminate(l, "abort") /\ UNCHANGED toGuardian
    BY <1>0, <1>4, <1>6, SameQueue, TerminateKeeps
  <1> QED BY <1>5, <1>6 DEF GuardianAck, Receives

LEMMA GoKeeps == ASSUME Core, NEW l \in Launches, GuardianGo(l) PROVE Core'
  <1>0. /\ guardian[l] = "go" /\ GuardianUp(l)
        /\ UNCHANGED <<owner, result, fg, toGuardian, toOwner, shutdown, interrupted, files, target,
                       unseen, rootLock, signals>>
    BY DEF GuardianGo, GuardianUp, Gone, ownerVars, dirVars
  <1>1. toGuardian' = Put(toGuardian, l, toGuardian[l]) /\ toGuardian[l] \in Seq(ToGuardian)
    BY <1>0, SameQueue
  <1>2. RestTyped /\ LaunchOK(l, "go", how[l], client[l], files[l], target[l])
    BY <1>0, GuardianNow
  <1>4. RestTyped'
    BY <1>0, <1>2 DEF RestTyped, GuardianGo, Put
  <1>5. CASE guardian' = Put(guardian, l, "loop") /\ UNCHANGED <<how, client>>
    <2>1. "loop" \in GuardianSteps /\ LaunchOK(l, "loop", how[l], client[l], files[l], target[l])
      BY <1>2 DEF LaunchOK, BeforeSpawn, GuardianSteps
    <2>2. target' = Put(target, l, target[l]) /\ target[l] \in Launches \cup {None}
      BY <1>0, GuardianNow
    <2> QED BY <1>0, <1>1, <1>4, <1>5, <2>1, <2>2, MoveKeeps
  <1>6. CASE Terminate(l, "abort")
    BY <1>0, <1>1, <1>4, <1>6, TerminateKeeps
  <1> QED BY <1>5, <1>6 DEF GuardianGo

(***************************************************************************)
(* The loop, the end and the client                                        *)
(***************************************************************************)

\* Only the client changes, and what has no bearing on the invariant.
LEMMA ClientStepKeeps ==
  ASSUME Core, NEW l \in Launches, NEW c \in Clients, client' = Put(client, l, c),
         NEW q \in Seq(ToGuardian), toGuardian' = Put(toGuardian, l, q),
         Holds(q, "statusack") => Holds(toGuardian[l], "statusack"),
         UNCHANGED <<owner, result, fg, guardian, how, files, target>>, RestTyped',
         LaunchOK(l, guardian[l], how[l], c, files[l], target[l])
  PROVE  Core'
  <1>1. /\ guardian' = Put(guardian, l, guardian[l]) /\ guardian[l] \in GuardianSteps
        /\ how' = Put(how, l, how[l]) /\ how[l] \in Hows
        /\ files' = Put(files, l, files[l]) /\ files[l] \in SUBSET Entries
        /\ target' = Put(target, l, target[l]) /\ target[l] \in Launches \cup {None}
    BY GuardianNow
  <1> QED BY <1>1, StepKeeps

\* What a client of a guardian in its loop may become.
LEMMA LoopClient ==
  ASSUME Core, NEW l \in Launches, guardian[l] = "loop", NEW c \in Clients,
         \/ c = client[l]
         \/ Alive(l) /\ c \in {"running", "paused", "dying"}
  PROVE  LaunchOK(l, "loop", how[l], c, files[l], target[l])
  <1>1. LaunchOK(l, "loop", how[l], client[l], files[l], target[l])
    BY GuardianNow
  <1> QED BY <1>1 DEF LaunchOK, Alive, Living, BeforeSpawn

LEMMA LoopNow ==
  ASSUME Core, NEW l \in Launches, guardian[l] = "loop"
  PROVE  GuardianUp(l) /\ RestTyped /\ client[l] \in Clients
         /\ client = Put(client, l, client[l]) /\ {"running", "paused", "dying"} \subseteq Clients
  BY GuardianNow DEF GuardianUp, Gone, Clients, Living

LEMMA MessageKeeps == ASSUME Core, NEW l \in Launches, GuardianMessage(l) PROVE Core'
  <1>0. /\ guardian[l] = "loop" /\ toGuardian[l] # <<>> /\ toGuardian' = Taken(toGuardian, l)
        /\ UNCHANGED <<owner, result, fg, guardian, how, interrupted, toOwner, go, files, target,
                       unseen, rootLock, signals>>
    BY DEF GuardianMessage, LoopUnchanged, dirVars
  <1>1. RestTyped'
    BY <1>0, LoopNow DEF RestTyped, GuardianMessage, Put
  <1>2. PICK c \in Clients : /\ client' = Put(client, l, c)
                             /\ c = client[l] \/ (Alive(l) /\ c = "running")
    BY <1>0, LoopNow DEF GuardianMessage, Alive, Living
  <1>3. LaunchOK(l, guardian[l], how[l], c, files[l], target[l])
    BY <1>0, <1>2, LoopClient
  <1> QED BY <1>0, <1>1, <1>2, <1>3, GuardianTakes, ClientStepKeeps

LEMMA OwnerLostKeeps ==
  ASSUME Core, NEW l \in Launches, GuardianOwnerLost(l) \/ GuardianWaitFails(l)
  PROVE  Core'
  <1>0. /\ guardian[l] = "loop" /\ Terminate(l, "lost")
        /\ UNCHANGED <<owner, result, fg, toGuardian, interrupted, shutdown, toOwner, go, files,
                       target, unseen, rootLock, signals>>
    BY DEF GuardianOwnerLost, GuardianWaitFails, LoopUnchanged, dirVars
  <1>1. RestTyped'
    BY <1>0, LoopNow DEF RestTyped
  <1> QED BY <1>0, <1>1, LoopNow, SameQueue, TerminateKeeps

LEMMA InterruptKeeps ==
  ASSUME Core, NEW l \in Launches, GuardianInterrupt(l) \/ GuardianForget(l)
  PROVE  Core'
  <1>0. /\ guardian[l] = "loop"
        /\ UNCHANGED <<owner, result, fg, toGuardian, guardian, how, toOwner, client, go, files,
                       target, unseen, rootLock>>
    BY DEF GuardianInterrupt, GuardianForget, LoopUnchanged, dirVars
  <1>1. RestTyped'
    <2>1. signals' \in [Launches -> 0 .. MaxSignals]
      <3>1. signals \in [Launches -> 0 .. MaxSignals]
        BY WrapperNow
      <3>2. signals' = signals \/ (signals[l] < MaxSignals /\ signals' = [signals EXCEPT ![l] = @ + 1])
        BY DEF GuardianInterrupt, GuardianForget
      <3> QED BY <3>1, <3>2, MaxSignalsAssumption
    <2>2. /\ interrupted' \in [Launches -> BOOLEAN]
          /\ shutdown' \in [Launches -> {"none", "armed", "forced"}]
      BY <1>0, LoopNow DEF RestTyped, GuardianInterrupt, GuardianForget, Put
    <2> QED BY <1>0, <2>1, <2>2, LoopNow DEF RestTyped
  <1>2. LaunchOK(l, guardian[l], how[l], client[l], files[l], target[l])
    BY GuardianNow
  <1>3. client' = Put(client, l, client[l]) /\ client[l] \in Clients
    BY <1>0, GuardianNow
  <1> QED BY <1>0, <1>1, <1>2, <1>3, SameQueue, ClientStepKeeps

LEMMA ForceKeeps ==
  ASSUME Core, NEW l \in Launches, GuardianForce(l) \/ GuardianRelayLost(l)
  PROVE  Core'
  <1>0. /\ guardian[l] = "loop"
        /\ UNCHANGED <<owner, result, fg, toGuardian, guardian, how, interrupted, toOwner, go, files,
                       target, unseen, rootLock, signals>>
        /\ shutdown' = Put(shutdown, l, "forced")
    BY DEF GuardianForce, GuardianRelayLost, LoopUnchanged, dirVars
  <1>1. RestTyped'
    BY <1>0, LoopNow DEF RestTyped, Put
  <1>2. PICK c \in Clients : /\ client' = Put(client, l, c)
                             /\ c = client[l] \/ (Alive(l) /\ c = "dying")
    BY <1>0, LoopNow DEF GuardianForce, GuardianRelayLost
  <1>3. LaunchOK(l, guardian[l], how[l], c, files[l], target[l])
    BY <1>0, <1>2, LoopClient
  <1> QED BY <1>0, <1>1, <1>2, <1>3, SameQueue, ClientStepKeeps

LEMMA ReportsKeeps == ASSUME Core, NEW l \in Launches, GuardianReports(l) PROVE Core'
  <1>0. /\ guardian[l] = "loop" /\ client[l] \in {"stopped", "zombie"}
        /\ UNCHANGED <<owner, result, fg, toGuardian, shutdown, interrupted, go, files,
                       target, unseen, rootLock, signals>>
    BY DEF GuardianReports, LoopUnchanged, dirVars
  <1>1. toOwner' \in [Launches -> Seq(ToOwner)]
    <2>1. {"stopped", "status"} \subseteq ToOwner /\ toOwner \in [Launches -> Seq(ToOwner)]
      BY WrapperNow DEF ToOwner
    <2> QED BY <2>1, GuardianSends DEF GuardianReports
  <1>2. RestTyped'
    BY <1>0, <1>1, LoopNow DEF RestTyped
  <1>3. CASE Terminate(l, "lost")
    BY <1>0, <1>2, <1>3, LoopNow, SameQueue, TerminateKeeps
  <1>4. CASE client[l] = "stopped" /\ client' = Put(client, l, "paused") /\ UNCHANGED <<guardian, how>>
    <2>1. "paused" \in Clients /\ Alive(l)
      BY <1>4 DEF Clients, Living, Alive
    <2>2. LaunchOK(l, guardian[l], how[l], "paused", files[l], target[l])
      BY <1>0, <2>1, LoopClient
    <2> QED BY <1>0, <1>2, <1>4, <2>1, <2>2, SameQueue, ClientStepKeeps
  <1>5. CASE /\ client[l] = "zombie" /\ guardian' = Put(guardian, l, "statusack")
             /\ UNCHANGED <<client, how>>
    <2>1. LaunchOK(l, "loop", how[l], client[l], files[l], target[l])
      BY <1>0, GuardianNow
    <2>2. LaunchOK(l, "statusack", how[l], client[l], files[l], target[l])
          /\ "statusack" \in GuardianSteps
      BY <1>5, <2>1 DEF LaunchOK, BeforeSpawn, GuardianSteps
    <2>3. target' = Put(target, l, target[l]) /\ target[l] \in Launches \cup {None}
      BY <1>0, GuardianNow
    <2> QED BY <1>0, <1>2, <1>5, <2>2, <2>3, LoopNow, SameQueue, MoveKeeps
  <1> QED BY <1>0, <1>3, <1>4, <1>5 DEF GuardianReports

\* "done" is a client that ended and a wrapper that has its terminal back.
LEMMA StatusAckKeeps == ASSUME Core, NEW l \in Launches, GuardianStatusAck(l) PROVE Core'
  <1>0. /\ guardian[l] = "statusack" /\ GuardianUp(l)
        /\ UNCHANGED <<owner, result, fg, shutdown, interrupted, toOwner, go, files,
                       target, unseen, rootLock, signals>>
    BY DEF GuardianStatusAck, LoopUnchanged, dirVars, GuardianUp, Gone
  <1>1. RestTyped /\ LaunchOK(l, "statusack", how[l], client[l], files[l], target[l])
    BY <1>0, GuardianNow
  <1>2. RestTyped'
    BY <1>0, <1>1 DEF RestTyped
  <1>3. CASE /\ toGuardian[l] # <<>> /\ toGuardian' = Taken(toGuardian, l)
             /\ Head(toGuardian[l]) = "statusack" /\ Terminate(l, "done")
    <2>1. client[l] = "zombie" /\ owner[l] \in {"reap", "ended", "dead"}
      BY <1>1, <1>3, GuardianTakes, WrapperNow DEF LaunchOK
    <2> QED BY <1>0, <1>2, <1>3, <2>1, GuardianTakes, TerminateKeeps
  <1>4. CASE /\ toGuardian[l] # <<>> /\ toGuardian' = Taken(toGuardian, l)
             /\ UNCHANGED <<guardian, how, client>>
    <2>1. client' = Put(client, l, client[l]) /\ client[l] \in Clients
      BY <1>4, GuardianNow
    <2> QED BY <1>0, <1>1, <1>2, <1>4, <2>1, GuardianTakes, ClientStepKeeps
  <1>5. CASE Terminate(l, "lost") /\ UNCHANGED toGuardian
    BY <1>0, <1>2, <1>5, SameQueue, TerminateKeeps
  <1> QED BY <1>3, <1>4, <1>5 DEF GuardianStatusAck

LEMMA ReapsKeeps == ASSUME Core, NEW l \in Launches, GuardianReaps(l) PROVE Core'
  <1>0. /\ guardian[l] = "terminate" /\ GuardianUp(l) /\ client[l] = "zombie"
        /\ client' = Put(client, l, "reaped") /\ "reaped" \in Clients
        /\ UNCHANGED <<owner, result, fg, toGuardian, how, shutdown, interrupted, toOwner, go,
                       files, unseen, rootLock, signals>>
    BY DEF GuardianReaps, GuardianUp, Gone, ownerVars, Clients
  <1>1. RestTyped /\ LaunchOK(l, "terminate", how[l], "zombie", files[l], target[l])
    BY <1>0, GuardianNow
  <1>2. RestTyped'
    BY <1>0, <1>1 DEF RestTyped
  <1>3. /\ how' = Put(how, l, how[l]) /\ how[l] \in Hows
        /\ files' = Put(files, l, files[l]) /\ files[l] \in SUBSET Entries
    BY <1>0, GuardianNow
  <1>4. CASE how[l] = "abort"
    <2>1. guardian' = Put(guardian, l, "clean") /\ target' = Put(target, l, l)
          /\ "clean" \in GuardianSteps
      BY <1>4 DEF GuardianReaps, GuardianSteps
    <2>2. LaunchOK(l, "clean", how[l], "reaped", files[l], l)
      BY <1>1 DEF LaunchOK, BeforeSpawn, Living
    <2> QED BY <1>0, <1>2, <1>3, <2>1, <2>2, SameQueue, StepKeeps
  <1>5. CASE how[l] # "abort"
    <2>1. guardian' = Put(guardian, l, "mark") /\ target' = Put(target, l, target[l])
          /\ "mark" \in GuardianSteps /\ target[l] \in Launches \cup {None}
      BY <1>5, GuardianNow DEF GuardianReaps, GuardianSteps
    <2>2. LaunchOK(l, "mark", how[l], "reaped", files[l], target[l])
      BY <1>1 DEF LaunchOK, BeforeSpawn, Living
    <2> QED BY <1>0, <1>2, <1>3, <2>1, <2>2, SameQueue, StepKeeps
  <1> QED BY <1>4, <1>5

LEMMA DrainFailsKeeps == ASSUME Core, NEW l \in Launches, GuardianDrainFails(l) PROVE Core'
  <1>0. /\ guardian[l] = "terminate" /\ GuardianUp(l) /\ ExitAs(l, "exited1")
        /\ UNCHANGED <<owner, result, fg, toGuardian, how, shutdown, toOwner, client, go, files,
                       signals>>
    BY DEF GuardianDrainFails, GuardianUp, Gone, ownerVars
  <1>1. client[l] \notin Living \ {"dying"}
    BY <1>0, GuardianNow DEF LaunchOK
  <1> QED BY <1>0, <1>1, SameQueue, ExitKeeps

LEMMA GuardianCrashesKeeps == ASSUME Core, NEW l \in Launches, GuardianCrashes(l) PROVE Core'
  <1>0. /\ GuardianUp(l)
        /\ UNCHANGED <<owner, result, fg, toGuardian, how, shutdown, toOwner, client, go, files,
                       signals>>
    BY DEF GuardianCrashes, ownerVars
  <1>1. PICK fate \in {"crashed", "hung"} : ExitAs(l, fate)
    BY DEF GuardianCrashes
  <1> QED BY <1>0, <1>1, SameQueue, ExitKeeps

\* The marker is written when the client is reaped.
LEMMA MarksKeeps == ASSUME Core, NEW l \in Launches, GuardianMarks(l) PROVE Core'
  <1>0. /\ guardian[l] = "mark" /\ GuardianUp(l)
        /\ guardian' = Put(guardian, l, "clean") /\ target' = Put(target, l, l)
        /\ "clean" \in GuardianSteps
        /\ UNCHANGED <<owner, result, fg, toGuardian, how, shutdown, interrupted, toOwner, client,
                       go, unseen, rootLock, signals>>
    BY DEF GuardianMarks, GuardianUp, Gone, ownerVars, GuardianSteps
  <1>1. RestTyped /\ LaunchOK(l, "mark", how[l], client[l], files[l], target[l])
    BY <1>0, GuardianNow
  <1>2. RestTyped'
    BY <1>0, <1>1 DEF RestTyped
  <1>3. PICK F \in SUBSET Entries : files' = Put(files, l, F)
    BY GuardianNow, EntriesAre DEF GuardianMarks, Put
  <1>4. /\ how' = Put(how, l, how[l]) /\ how[l] \in Hows
        /\ client' = Put(client, l, client[l]) /\ client[l] \in Clients
    BY <1>0, GuardianNow
  <1>5. client[l] = "reaped"
    BY <1>1 DEF LaunchOK
  <1>6. LaunchOK(l, "clean", how[l], client[l], F, l)
    BY <1>1, <1>5 DEF LaunchOK, BeforeSpawn, Living
  <1> QED BY <1>0, <1>2, <1>3, <1>4, <1>6, SameQueue, StepKeeps

\* The directory that is cleaned up is the launch's own, or a released one.
LEMMA CleanTarget ==
  ASSUME Core, NEW l \in Launches, guardian[l] \in {"clean", "drop"}
  PROVE  /\ GuardianUp(l)
         /\ \E t \in Launches : /\ t = target[l]
                                /\ t = l => client[l] \in {"none", "reaped"}
                                /\ t # l => client[l] = "none" /\ client[t] = "reaped"
  <1>1. LaunchOK(l, guardian[l], how[l], client[l], files[l], target[l])
    BY GuardianNow
  <1>2. GuardianUp(l)
    BY DEF GuardianUp, Gone
  <1>3. /\ target[l] \in Launches
        /\ target[l] = l => client[l] \in {"none", "reaped"}
        /\ target[l] # l => client[l] = "none" /\ client[target[l]] = "reaped"
    BY <1>1 DEF LaunchOK
  <1> QED BY <1>2, <1>3

\* Removing an entry of a session, or leaving it.
LEMMA CleansKeeps == ASSUME Core, NEW l \in Launches, GuardianCleans(l) PROVE Core'
  <1>0. /\ guardian[l] \in {"clean", "drop"}
        /\ UNCHANGED <<owner, result, fg, toGuardian, guardian, how, shutdown, interrupted, toOwner,
                       client, go, target, unseen, rootLock, signals>>
    BY DEF GuardianCleans, ownerVars, guardVars
  <1>1. /\ RestTyped /\ LaunchOK(l, guardian[l], how[l], client[l], files[l], target[l])
        /\ GuardianUp(l)
    BY <1>0, GuardianNow, CleanTarget
  <1>2. PICK t \in Launches : /\ t = target[l]
                              /\ t = l => client[l] \in {"none", "reaped"}
                              /\ t # l => client[l] = "none" /\ client[t] = "reaped"
    BY <1>0, CleanTarget
  <1>3. /\ how' = Put(how, l, how[l]) /\ how[l] \in Hows
        /\ client' = Put(client, l, client[l]) /\ client[l] \in Clients
        /\ guardian' = Put(guardian, l, guardian[l]) /\ guardian[l] \in GuardianSteps
        /\ target' = Put(target, l, target[l]) /\ target[l] \in Launches \cup {None}
    BY <1>0, GuardianNow
  <1>4. RestTyped'
    BY <1>0, <1>1 DEF RestTyped
  <1>5. PICK F \in SUBSET Entries : files' = Put(files, t, F) /\ F \subseteq files[t]
    <2>1. files[t] \in SUBSET Entries /\ files = Put(files, t, files[t])
      BY GuardianNow
    <2>2. CASE files' = files
      BY <2>1, <2>2
    <2>3. CASE files' # files
      <3>1. PICK e : files' = [files EXCEPT ![t] = @ \ {e}]
        BY <1>2, <2>3 DEF GuardianCleans
      <3>2. PICK F \in SUBSET Entries : F = files[t] \ {e}
        BY <2>1
      <3> QED BY <3>1, <3>2 DEF Put
    <2> QED BY <2>2, <2>3
  <1>6. CASE t = l
    <2>1. LaunchOK(l, guardian[l], how[l], client[l], F, target[l])
      <3>1. client[l] \notin Living
        BY <1>2, <1>6 DEF Living
      <3> QED BY <1>0, <1>1, <1>5, <1>6, <3>1 DEF LaunchOK, BeforeSpawn
    <2> QED BY <1>0, <1>3, <1>4, <1>5, <1>6, <2>1, SameQueue, StepKeeps
  <1>7. CASE t # l
    <2>0. StateOK /\ WrapperOK(l) /\ ClientOK(l) /\ CleanOK(l)
      BY Now
    <2>1. files'[l] = files[l] /\ files'[t] \subseteq files[t] /\ client[t] = "reaped"
          /\ \A d \in Launches : d # t => files'[d] = files[d]
      BY <1>2, <1>5, <1>7, GuardianNow DEF Put
    <2>2. StateOK'
      BY <1>0, <1>4, <1>5, <2>0 DEF StateOK, RestTyped, Put
    <2>3. Frame(l)
      BY <1>0, <2>1 DEF Frame
    <2>4. WrapperOK(l)'
      BY <1>0, <2>0 DEF WrapperOK, StatusAcked, GuardianUp
    <2>5. ClientOK(l)'
      BY <1>0, <2>0, <2>1 DEF ClientOK, Alive
    <2>6. CleanOK(l)'
      BY <1>0, <2>0 DEF CleanOK
    <2> QED BY <2>2, <2>3, <2>4, <2>5, <2>6, LaunchStepKeeps
  <1> QED BY <1>6, <1>7

\* A clean-up is through: the sweep goes on, the session is dropped, or the
\* guardian ends.
LEMMA CleanedKeeps == ASSUME Core, NEW l \in Launches, GuardianCleaned(l) PROVE Core'
  <1>0. /\ guardian[l] \in {"clean", "drop"}
        /\ UNCHANGED <<owner, result, fg, toGuardian, how, shutdown, toOwner, client, go, files, signals>>
    BY DEF GuardianCleaned, ownerVars
  <1>1. /\ RestTyped /\ LaunchOK(l, guardian[l], how[l], client[l], files[l], target[l])
        /\ GuardianUp(l)
    BY <1>0, GuardianNow, CleanTarget
  <1>2. PICK t \in Launches : /\ t = target[l]
                              /\ t = l => client[l] \in {"none", "reaped"}
                              /\ t # l => client[l] = "none" /\ client[t] = "reaped"
    BY <1>0, CleanTarget
  <1>3. CASE guardian[l] = "clean"
    <2>1. UNCHANGED <<interrupted, unseen, rootLock>>
      BY <1>3 DEF GuardianCleaned
    <2>2. RestTyped'
      BY <1>0, <1>1, <2>1 DEF RestTyped
    <2>3. CASE t = l
      <3>1. guardian' = Put(guardian, l, "drop") /\ target' = Put(target, l, l)
        BY <1>2, <1>3, <2>3, GuardianNow DEF GuardianCleaned
      <3>2. LaunchOK(l, "drop", how[l], client[l], files[l], l) /\ "drop" \in GuardianSteps
        BY <1>1, <1>2, <1>3, <2>3 DEF LaunchOK, BeforeSpawn, Living, GuardianSteps
      <3> QED BY <1>0, <1>1, <2>2, <3>1, <3>2, SameQueue, MoveKeeps
    <2>4. CASE t # l
      <3>1. guardian' = Put(guardian, l, "sweep") /\ target' = Put(target, l, None)
        BY <1>2, <1>3, <2>4 DEF GuardianCleaned
      <3>2. LaunchOK(l, "sweep", how[l], client[l], files[l], None) /\ "sweep" \in GuardianSteps
        BY <1>1, <1>2, <2>4 DEF LaunchOK, BeforeSpawn, Living, GuardianSteps, Startup
      <3> QED BY <1>0, <1>1, <2>2, <3>1, <3>2, SameQueue, MoveKeeps
    <2> QED BY <2>3, <2>4
  <1>4. CASE guardian[l] = "drop"
    <2>1. PICK code \in {"exited0", "exited1"} :
            ExitAs(l, code) /\ (code = "exited0" => how[l] = "done")
      BY <1>4 DEF GuardianCleaned
    <2>2. client[l] \in {"none", "reaped"}
      BY <1>1, <1>2, <1>4 DEF LaunchOK
    <2>3. code = "exited0" => client[l] = "reaped"
      BY <1>1, <2>1, <2>2 DEF LaunchOK
    <2>4. client[l] \notin Living \ {"dying"}
      BY <2>2 DEF Living
    <2> QED BY <1>0, <1>1, <2>1, <2>3, <2>4, SameQueue, ExitKeeps
  <1> QED BY <1>0, <1>3, <1>4

\* A living client may end; one that is not dying may also live on.
LEMMA LivingClient ==
  ASSUME Core, NEW l \in Launches, Alive(l), NEW c,
         c = "zombie" \/ (client[l] # "dying" /\ c \in Living)
  PROVE  LaunchOK(l, guardian[l], how[l], c, files[l], target[l])
  <1>1. LaunchOK(l, guardian[l], how[l], client[l], files[l], target[l])
    BY GuardianNow
  <1> QED BY <1>1 DEF LaunchOK, Alive, Living, BeforeSpawn

LEMMA ClientKeeps ==
  ASSUME Core, NEW l \in Launches,
         ClientStarts(l) \/ BootstrapEnds(l) \/ ClientStops(l) \/ ClientEnds(l) \/ InitReaps(l)
  PROVE  Core'
  <1>0. UNCHANGED <<owner, result, fg, toGuardian, guardian, how, shutdown, interrupted, toOwner,
                    go, files, target, unseen, rootLock>>
    BY DEF ClientStarts, BootstrapEnds, ClientStops, ClientEnds, InitReaps, ClientUnchanged,
           ownerVars, guardVars, dirVars
  <1>1. RestTyped'
    <2>1. RestTyped /\ signals \in [Launches -> 0 .. MaxSignals]
      BY GuardianNow, WrapperNow
    <2>2. signals' = signals \/ (signals[l] < MaxSignals /\ signals' = [signals EXCEPT ![l] = @ + 1])
      BY DEF ClientStarts, BootstrapEnds, ClientStops, ClientEnds, InitReaps
    <2>3. signals' \in [Launches -> 0 .. MaxSignals]
      BY <2>1, <2>2, MaxSignalsAssumption
    <2> QED BY <1>0, <2>1, <2>3 DEF RestTyped
  <1>2. CASE InitReaps(l)
    <2>1. client[l] = "zombie" /\ ~GuardianUp(l) /\ client' = Put(client, l, "reaped")
          /\ "reaped" \in Clients
      BY <1>2 DEF InitReaps, Clients
    <2>2. LaunchOK(l, guardian[l], how[l], "reaped", files[l], target[l])
      <3>1. LaunchOK(l, guardian[l], how[l], "zombie", files[l], target[l])
        BY <2>1, GuardianNow
      <3> QED BY <2>1, <3>1 DEF LaunchOK, BeforeSpawn, Living, GuardianUp, Gone
    <2> QED BY <1>0, <1>1, <2>1, <2>2, SameQueue, ClientStepKeeps
  <1>3. CASE ~InitReaps(l)
    <2>1. PICK c \in {"running", "zombie", "stopped"} :
             /\ client' = Put(client, l, c) /\ Alive(l)
             /\ c = "zombie" \/ client[l] # "dying"
      BY <1>3 DEF ClientStarts, BootstrapEnds, ClientStops, ClientEnds, Alive, Living
    <2>2. c \in Clients /\ (c = "zombie" \/ c \in Living)
      BY DEF Clients, Living
    <2>3. LaunchOK(l, guardian[l], how[l], c, files[l], target[l])
      BY <2>1, <2>2, LivingClient
    <2> QED BY <1>0, <1>1, <2>1, <2>2, <2>3, SameQueue, ClientStepKeeps
  <1> QED BY <1>2, <1>3

(***************************************************************************)
(* The specification                                                       *)
(***************************************************************************)

LEMMA InitHolds == ASSUME Init PROVE IInv
  <1>1. ASSUME NEW l \in Launches
        PROVE  /\ owner[l] \in {"idle", "dead"} /\ guardian[l] \in {"absent", "root"}
               /\ owner[l] = "idle" => guardian[l] = "absent"
               /\ result[l] = "none" /\ fg[l] = FALSE /\ toGuardian[l] = <<>> /\ how[l] = "none"
               /\ client[l] = "none" /\ files[l] = {} /\ target[l] = None
    BY DEF Init
  <1>2. StateOK
    <2>1. <<>> \in Seq(ToGuardian) /\ <<>> \in Seq(ToOwner) /\ 0 \in 0 .. MaxSignals
      BY MaxSignalsAssumption
    <2>2. /\ owner \in [Launches -> OwnerSteps] /\ guardian \in [Launches -> GuardianSteps]
      BY DEF Init, OwnerSteps, GuardianSteps, Startup
    <2> QED BY <2>1, <2>2 DEF Init, StateOK
  <1>3. ASSUME NEW l \in Launches PROVE WrapperOK(l) /\ ClientOK(l) /\ CleanOK(l) /\ LeftOK(l)
    <2>1. WrapperOK(l)
      <3>1. ~Holds(toGuardian[l], "statusack")
        <4>1. toGuardian[l] = <<>>
          BY <1>1
        <4>2. Len(<<>>) = 0
          OBVIOUS
        <4>3. \A i \in 1 .. 0 : FALSE
          OBVIOUS
        <4>4. Len(toGuardian[l]) = 0
          BY <4>1, <4>2
        <4> QED BY <4>3, <4>4 DEF Holds
      <3> QED BY <1>1, <3>1 DEF WrapperOK, StatusAcked, GuardianUp, Gone
    <2>2. ClientOK(l)
      BY <1>1 DEF ClientOK, Alive, Living, BeforeSpawn
    <2>3. CleanOK(l) /\ LeftOK(l)
      BY <1>1 DEF CleanOK, LeftOK
    <2> QED BY <2>1, <2>2, <2>3
  <1>4. left \in [Launches -> SUBSET Entries]
    BY DEF Init
  <1> QED BY <1>2, <1>3, <1>4 DEF IInv, Core, TypeOK

LEMMA CoreKeeps == ASSUME Core, [Next]_vars PROVE Core'
  <1>1. CASE UNCHANGED vars
    <2>1. UNCHANGED <<owner, result, fg, toGuardian, guardian, how, shutdown, interrupted, toOwner,
                      client, go, files, target, unseen, rootLock, signals>>
      BY <1>1 DEF vars, ownerVars, guardVars, dirVars
    <2>2. StateOK'
      BY <2>1 DEF Core, StateOK
    <2>3. ASSUME NEW l \in Launches PROVE WrapperOK(l)' /\ ClientOK(l)' /\ CleanOK(l)'
      BY <2>1, Now DEF WrapperOK, ClientOK, CleanOK, StatusAcked, Alive, GuardianUp
    <2> QED BY <2>2, <2>3 DEF Core
  <1>2. ASSUME NEW l \in Launches, OwnerStep(l) PROVE Core'
    BY <1>2, StartsKeeps, GivesKeeps, AcksKeeps, ReadsKeeps, ReturnsKeeps, ClosesKeeps DEF OwnerStep
  <1>3. ASSUME NEW l \in Launches, GuardianStep(l) PROVE Core'
    BY <1>3, HelloKeeps, PayloadKeeps, RootLockKeeps, SweepKeeps, SweepDoneKeeps, CreateKeeps,
       SpawnKeeps, ReadyKeeps, AckKeeps, GoKeeps, MessageKeeps, OwnerLostKeeps, InterruptKeeps,
       ForceKeeps, ReportsKeeps, StatusAckKeeps, ReapsKeeps, DrainFailsKeeps, MarksKeeps,
       CleansKeeps, CleanedKeeps DEF GuardianStep
  <1>4. ASSUME NEW l \in Launches, ProcessEnds(l) PROVE Core'
    BY <1>4, ClientKeeps DEF ProcessEnds
  <1>5. ASSUME NEW l \in Launches, Environment(l) PROVE Core'
    BY <1>5, LaunchKeeps, ResumesKeeps, CancelsKeeps, OwnerCrashesKeeps, InterruptKeeps,
       ForceKeeps, OwnerLostKeeps, GuardianCrashesKeeps, ClientKeeps DEF Environment
  <1>6. CASE Finished
    BY <1>1, <1>6 DEF Finished
  <1> QED BY <1>1, <1>2, <1>3, <1>4, <1>5, <1>6 DEF Next

\* A step that leaves the guardians and their directories alone.
Quiet == UNCHANGED <<left, guardian, files>>

\* A guardian's step that is no clean-up: it does not end well, and what it has
\* left is as it was or, when it ends, forgotten.
Moves(l) ==
  /\ guardian[l] # "exited0"
  /\ \E g : g # "exited0" /\ guardian' = Put(guardian, l, g)
  /\ left' = left \/ left' = Put(left, l, {})
  /\ files' = files \/ \E F : files' = [files EXCEPT ![l] = F]

LEMMA ExitMoves ==
  ASSUME NEW l \in Launches, guardian[l] # "exited0", NEW code, code # "exited0",
         ExitAs(l, code), files' = files
  PROVE  Moves(l)
  BY DEF ExitAs, Moves

LEMMA WrapperQuiet ==
  ASSUME Core, NEW l \in Launches,
         OwnerStep(l) \/ Launch(l) \/ OwnerResumes(l) \/ OwnerCancels(l) \/ OwnerCrashes(l)
  PROVE  Quiet \/ Moves(l)
  <1>1. CASE OwnerStarts(l) \/ OwnerGives(l) \/ OwnerAcks(l) \/ OwnerReads(l) \/ OwnerReturns(l)
             \/ OwnerResumes(l) \/ OwnerCancels(l) \/ OwnerCrashes(l)
    BY <1>1 DEF OwnerStarts, OwnerGives, OwnerAcks, OwnerReads, OwnerReturns, OwnerResumes,
                OwnerCancels, OwnerCrashes, guardVars, dirVars, Quiet
  <1>2. CASE Launch(l)
    <2>1. guardian[l] = "absent"
      BY <1>2, Now DEF Launch, WrapperOK
    <2> QED BY <1>2, <2>1 DEF Launch, dirVars, Moves
  <1>3. CASE OwnerCloses(l)
    <2>1. CASE UNCHANGED <<guardian, rootLock, left, target, unseen, interrupted>>
      BY <1>3, <2>1 DEF OwnerCloses, Quiet
    <2>2. CASE guardian[l] = "hung" /\ ExitAs(l, "crashed")
      BY <1>3, <2>2, ExitMoves DEF OwnerCloses
    <2> QED BY <1>3, <2>1, <2>2 DEF OwnerCloses
  <1> QED BY <1>1, <1>2, <1>3 DEF OwnerStep

LEMMA ClientQuiet ==
  ASSUME NEW l \in Launches,
         ClientStarts(l) \/ BootstrapEnds(l) \/ ClientStops(l) \/ ClientEnds(l) \/ InitReaps(l)
  PROVE  Quiet
  BY DEF ClientStarts, BootstrapEnds, ClientStops, ClientEnds, InitReaps, ClientUnchanged,
         guardVars, dirVars, Quiet

LEMMA StartupMoves ==
  ASSUME NEW l \in Launches,
         \/ GuardianHello(l) \/ GuardianPayload(l) \/ GuardianRootLock(l)
         \/ \E t \in Launches : GuardianSweep(l, t)
         \/ GuardianSweepDone(l) \/ GuardianCreate(l) \/ GuardianSpawn(l) \/ GuardianReady(l)
         \/ GuardianAck(l) \/ GuardianGo(l)
  PROVE  Quiet \/ Moves(l)
  <1>1. CASE GuardianHello(l)
    <2>1. CASE OwnerGone(l) /\ ExitAs(l, "exited1")
      BY <1>1, <2>1, ExitMoves DEF GuardianHello
    <2>2. CASE guardian' = Put(guardian, l, "payload") /\ left' = left
      BY <1>1, <2>2 DEF GuardianHello, Moves
    <2> QED BY <1>1, <2>1, <2>2 DEF GuardianHello
  <1>2. CASE GuardianPayload(l)
    <2>1. CASE ExitAs(l, "exited1")
      BY <1>2, <2>1, ExitMoves DEF GuardianPayload
    <2>2. CASE guardian' = Put(guardian, l, "root") /\ left' = left
      BY <1>2, <2>2 DEF GuardianPayload, Moves
    <2> QED BY <1>2, <2>1, <2>2 DEF GuardianPayload
  <1>3. CASE GuardianRootLock(l)
    <2>1. CASE ExitAs(l, "exited1")
      BY <1>3, <2>1, ExitMoves DEF GuardianRootLock
    <2>2. CASE guardian' = Put(guardian, l, "sweep") /\ left' = left
      BY <1>3, <2>2 DEF GuardianRootLock, Moves
    <2> QED BY <1>3, <2>1, <2>2 DEF GuardianRootLock
  <1>4. ASSUME NEW t \in Launches, GuardianSweep(l, t) PROVE Quiet \/ Moves(l)
    BY <1>4 DEF GuardianSweep, Quiet, Moves
  <1>5. CASE GuardianSweepDone(l)
    BY <1>5 DEF GuardianSweepDone, dirVars, Moves
  <1>6. CASE GuardianCreate(l)
    <2>1. PICK g \in {"clean", "drop", "lock", "write", "spawn"} : guardian' = Put(guardian, l, g)
      BY <1>6 DEF GuardianCreate, Abort, AfterCreate
    <2>2. files' = files \/ \E F : files' = [files EXCEPT ![l] = F]
      BY <1>6 DEF GuardianCreate
    <2>3. guardian[l] # "exited0" /\ left' = left
      BY <1>6 DEF GuardianCreate
    <2> QED BY <2>1, <2>2, <2>3 DEF Moves
  <1>7. CASE GuardianSpawn(l)
    BY <1>7 DEF GuardianSpawn, Abort, Terminate, Moves
  <1>8. CASE GuardianReady(l) \/ GuardianAck(l) \/ GuardianGo(l)
    BY <1>8 DEF GuardianReady, GuardianAck, GuardianGo, Terminate, dirVars, Moves
  <1> QED BY <1>1, <1>2, <1>3, <1>4, <1>5, <1>6, <1>7, <1>8

LEMMA LoopMoves ==
  ASSUME NEW l \in Launches,
         \/ GuardianMessage(l) \/ GuardianOwnerLost(l) \/ GuardianForget(l) \/ GuardianForce(l)
         \/ GuardianReports(l) \/ GuardianStatusAck(l) \/ GuardianInterrupt(l)
         \/ GuardianRelayLost(l) \/ GuardianWaitFails(l)
  PROVE  Quiet \/ Moves(l)
  BY DEF GuardianMessage, GuardianOwnerLost, GuardianForget, GuardianForce, GuardianReports,
         GuardianStatusAck, GuardianInterrupt, GuardianRelayLost, GuardianWaitFails, Terminate,
         LoopUnchanged, dirVars, Quiet, Moves

LEMMA EndMoves ==
  ASSUME NEW l \in Launches,
         GuardianReaps(l) \/ GuardianDrainFails(l) \/ GuardianMarks(l) \/ GuardianCrashes(l)
  PROVE  Moves(l)
  <1>1. CASE GuardianReaps(l)
    BY <1>1 DEF GuardianReaps, Moves
  <1>2. CASE GuardianDrainFails(l)
    BY <1>2, ExitMoves DEF GuardianDrainFails
  <1>3. CASE GuardianMarks(l)
    BY <1>3 DEF GuardianMarks, Moves
  <1>4. CASE GuardianCrashes(l)
    BY <1>4, ExitMoves DEF GuardianCrashes, GuardianUp, Gone
  <1> QED BY <1>1, <1>2, <1>3, <1>4

LEMMA KindOfStep ==
  ASSUME Core, [Next]_vars
  PROVE  Quiet \/ \E l \in Launches : Moves(l) \/ GuardianCleans(l) \/ GuardianCleaned(l)
  <1>1. CASE UNCHANGED vars
    BY <1>1 DEF vars, guardVars, dirVars, Quiet
  <1>2. ASSUME NEW l \in Launches, OwnerStep(l) \/ Environment(l)
        PROVE  Quiet \/ Moves(l)
    BY <1>2, WrapperQuiet, LoopMoves, EndMoves, ClientQuiet DEF Environment
  <1>3. ASSUME NEW l \in Launches, GuardianStep(l)
        PROVE  Quiet \/ Moves(l) \/ GuardianCleans(l) \/ GuardianCleaned(l)
    BY <1>3, StartupMoves, LoopMoves, EndMoves DEF GuardianStep
  <1>4. ASSUME NEW l \in Launches, ProcessEnds(l) PROVE Quiet
    BY <1>4, ClientQuiet DEF ProcessEnds
  <1>5. CASE Finished
    BY <1>1, <1>5 DEF Finished
  <1> QED BY <1>1, <1>2, <1>3, <1>4, <1>5 DEF Next

LEMMA LeftKeeps ==
  ASSUME IInv, [Next]_vars
  PROVE  left' \in [Launches -> SUBSET Entries] /\ \A d \in Launches : LeftOK(d)'
  <1>0. /\ left \in [Launches -> SUBSET Entries] /\ files \in [Launches -> SUBSET Entries]
        /\ guardian \in [Launches -> GuardianSteps] /\ Core /\ \A d \in Launches : LeftOK(d)
    BY DEF IInv, TypeOK, StateOK
  <1>1. CASE Quiet
    BY <1>0, <1>1 DEF Quiet, LeftOK
  <1>2. ASSUME NEW l \in Launches, Moves(l)
        PROVE  left' \in [Launches -> SUBSET Entries] /\ \A d \in Launches : LeftOK(d)'
    <2>1. left' \in [Launches -> SUBSET Entries] /\ \A d \in Launches : d # l => left'[d] = left[d]
      BY <1>0, <1>2 DEF Moves, Put
    <2>2. guardian'[l] # "exited0" /\ \A d \in Launches : d # l => guardian'[d] = guardian[d]
      BY <1>0, <1>2 DEF Moves, Put
    <2>3. \A d \in Launches : d # l => files'[d] = files[d]
      BY <1>0, <1>2 DEF Moves
    <2> QED BY <1>0, <2>1, <2>2, <2>3 DEF LeftOK
  <1>3. ASSUME NEW l \in Launches, GuardianCleans(l)
        PROVE  left' \in [Launches -> SUBSET Entries] /\ \A d \in Launches : LeftOK(d)'
    <2>1. guardian[l] # "exited0" /\ guardian' = guardian /\ target[l] \in Launches
      BY <1>0, <1>3, CleanTarget DEF GuardianCleans, guardVars
    <2> DEFINE t == target[l]
               e == FirstOf(files[t] \ left[l])
    <2>2. \/ left' = left /\ files' = [files EXCEPT ![t] = @ \ {e}]
          \/ left' = [left EXCEPT ![l] = @ \cup {e}] /\ files' = files
      BY <1>3 DEF GuardianCleans
    <2>3. e \in Entries
      <3>1. files[t] \ left[l] # {} /\ files[t] \ left[l] \subseteq Entries
        BY <1>0, <1>3, <2>1 DEF GuardianCleans
      <3>2. e \in files[t] \ left[l]
        BY <3>1, FirstOfIs
      <3> QED BY <3>1, <3>2
    <2> HIDE DEF t, e
    <2>4. left' \in [Launches -> SUBSET Entries] /\ \A d \in Launches : d # l => left'[d] = left[d]
      BY <1>0, <2>2, <2>3
    <2>5. \A d \in Launches : files'[d] \subseteq files[d]
      BY <1>0, <2>2
    <2> QED BY <1>0, <2>1, <2>4, <2>5 DEF LeftOK
  <1>4. ASSUME NEW l \in Launches, GuardianCleaned(l)
        PROVE  left' \in [Launches -> SUBSET Entries] /\ \A d \in Launches : LeftOK(d)'
    <2>1. guardian[l] \in {"clean", "drop"} /\ files' = files /\ files[target[l]] \subseteq left[l]
      BY <1>4 DEF GuardianCleaned
    <2>2. CASE guardian[l] = "clean"
      <3>1. Moves(l)
        BY <1>4, <2>1, <2>2 DEF GuardianCleaned, Moves
      <3> QED BY <1>2, <3>1
    <2>3. CASE guardian[l] = "drop"
      <3>1. target[l] = l
        BY <1>0, <2>3, Now DEF CleanOK
      <3>2. ExitAs(l, IF how[l] = "done" THEN "exited0" ELSE "exited1")
        BY <1>4, <2>3 DEF GuardianCleaned
      <3>3. CASE how[l] # "done"
        <4>1. Moves(l)
          BY <2>1, <2>3, <3>2, <3>3, ExitMoves
        <4> QED BY <1>2, <4>1
      <3>4. CASE how[l] = "done"
        <4>1. left' = left /\ guardian' = Put(guardian, l, "exited0")
          BY <3>2, <3>4 DEF ExitAs
        <4>2. \A d \in Launches : d # l => guardian'[d] = guardian[d]
          BY <1>0, <4>1 DEF Put
        <4> QED BY <1>0, <2>1, <3>1, <4>1, <4>2 DEF LeftOK
      <3> QED BY <3>3, <3>4
    <2> QED BY <2>1, <2>2, <2>3
  <1> QED BY <1>0, <1>1, <1>2, <1>3, <1>4, KindOfStep

LEMMA NextKeeps == ASSUME IInv, [Next]_vars PROVE IInv'
  <1>1. Core'
    BY CoreKeeps DEF IInv
  <1> QED BY <1>1, LeftKeeps DEF IInv, Core, TypeOK

(* The inductive invariant holds for any number of launches that share the *)
(* settings root and any number of signals, whichever process is killed.   *)
THEOREM Invariance == Spec => []IInv
  <1>1. Init => IInv
    BY InitHolds
  <1>2. IInv /\ [Next]_vars => IInv'
    BY NextKeeps
  <1> QED BY <1>1, <1>2, PTL DEF Spec

(* The state of the launches keeps its types.                              *)
THEOREM TypeCorrect == Spec => []TypeOK
  <1>1. IInv => TypeOK
    BY DEF IInv
  <1> QED BY <1>1, Invariance, PTL

(* Neither the launch's own guardian nor the sweep of another launch       *)
(* removes the settings of a bootstrap or client that lives.               *)
THEOREM LivingClientsKeepSettings == Spec => []SettingsKept
  <1>1. IInv => SettingsKept
    BY DEF IInv, Core, ClientOK, SettingsKept
  <1> QED BY <1>1, Invariance, PTL

(* A client that outlives its wrapper is dying, or lost its guardian.      *)
THEOREM WrapperTakesClient == Spec => []ClientGoneWithWrapper
  <1>1. ASSUME IInv, NEW l \in Launches, owner[l] = "ended", Alive(l)
        PROVE  guardian[l] = "crashed" \/ client[l] = "dying"
    <2>1. WrapperOK(l) /\ ClientOK(l)
      BY <1>1, Now DEF IInv
    <2>2. guardian[l] \in Gone
      BY <1>1, <2>1 DEF WrapperOK, GuardianUp
    <2> QED BY <1>1, <2>1, <2>2 DEF ClientOK, Gone, BeforeSpawn, Alive, Living
  <1>2. IInv => ClientGoneWithWrapper
    BY <1>1 DEF ClientGoneWithWrapper
  <1> QED BY <1>2, Invariance, PTL

(* The client's status is returned only when the client is reaped, the     *)
(* terminal is back and the clean-up of its session has been through: what *)
(* is left of it the clean-up refused to touch or failed to remove.        *)
THEOREM ReturnedStatusMeansDone == Spec => []StatusMeansDone
  <1>1. ASSUME IInv, NEW l \in Launches, result[l] = "status"
        PROVE  client[l] = "reaped" /\ files[l] \subseteq left[l] /\ ~fg[l]
    <2>1. WrapperOK(l) /\ ClientOK(l) /\ LeftOK(l)
      BY <1>1, Now DEF IInv
    <2> QED BY <1>1, <2>1 DEF WrapperOK, ClientOK, LeftOK
  <1>2. IInv => StatusMeansDone
    BY <1>1 DEF StatusMeansDone
  <1> QED BY <1>2, Invariance, PTL

(* The exited client stays the anchor of its process group until the       *)
(* wrapper that acknowledges its status has taken the terminal back.       *)
THEOREM AnchorIsKept == Spec => AnchorKept
  <1>1. ASSUME IInv, NEW l \in Launches, how[l] = "done" PROVE ~fg[l]
    <2>1. WrapperOK(l)
      BY <1>1, Now DEF IInv
    <2> QED BY <1>1, <2>1 DEF WrapperOK, StatusAcked
  <1>2. IInv /\ [Next]_vars =>
          [\A l \in Launches :
             client[l] = "zombie" /\ client'[l] = "reaped" /\ how[l] = "done" => ~fg[l]]_vars
    BY <1>1
  <1> QED BY <1>2, Invariance, PTL DEF Spec, AnchorKept
=============================================================================
