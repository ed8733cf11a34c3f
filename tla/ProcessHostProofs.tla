-------------------------- MODULE ProcessHostProofs --------------------------
(***************************************************************************)
(* Proofs about ProcessHost for every set of stores and viewers, every     *)
(* number of election attempts and with or without faults.                 *)
(***************************************************************************)
EXTENDS ProcessHost, TLAPS

\* The part of the invariant about the actors' steps and locals.
LocalsTyped ==
  /\ pc \in [Actors -> Pcs]
  /\ op \in [Actors -> AllOperations \cup {"none", "register", "sendElect", "shareSend"}]
  /\ seen \in [Actors -> Stores \cup {None}]
  /\ path \in [Actors -> Stores \cup {None}]
  /\ names \in [Actors -> SUBSET Stores]
  /\ todo \in [Actors -> SUBSET Stores]
  /\ tries \in [Actors -> 0..(Attempts - 1)]
  /\ sends \in [Actors -> 0..1]

LocalsOK == LocalsTyped /\ SeenStore /\ OpKept

\* The actor takes a step that is not a step of a store's registration.
Moved(a) ==
  \E label \in Pcs \ {"new", "create", "write"} : pc' = [pc EXCEPT ![a] = label]

LEMMA ZeroTry == 0 \in 0..(Attempts - 1)
  BY ParametersAssumption

LEMMA InitIInv == Init => IInv
  <1> SUFFICES ASSUME Init PROVE IInv
    OBVIOUS
  <1>1. /\ live \in [Stores -> {"new", "up", "down"}]
        /\ file \in [Stores -> {"absent", "empty", "full"}]
        /\ pc \in [Actors -> Pcs]
    BY DEF Init, Pcs
  <1>2. host \in [by : Actors, ep : Stores, full : BOOLEAN] \cup {None}
    BY ActorsAssumption DEF Init, Actors
  <1>4. TypeOK
    BY <1>1, <1>2, ZeroTry, ActorsAssumption DEF Init, TypeOK
  <1>5. SeenStore /\ OpKept /\ OwnFile
    BY ActorsAssumption DEF Init, SeenStore, OpKept, OwnFile, Actors
  <1> QED BY <1>4, <1>5 DEF IInv

\* A step that changes no candidate file and leaves the host record well typed.
LEMMA LocalStep ==
  ASSUME IInv, NEW a \in Actors, LocalsOK', Moved(a),
         file' = file, live' = live,
         host' \in [by : Actors, ep : Stores, full : BOOLEAN] \cup {None}
  PROVE  IInv'
  <1>1. TypeOK' /\ SeenStore' /\ OpKept'
    BY DEF IInv, TypeOK, LocalsOK, LocalsTyped
  <1>2. OwnFile'
    BY DEF IInv, TypeOK, OwnFile, Moved, Actors
  <1> QED BY <1>1, <1>2 DEF IInv

LEMMA FinishedKeeps ==
  ASSUME IInv, NEW a \in Actors, NEW label \in {"running", "idle", "gone", "abandon"},
         Finished(a, label)
  PROVE  LocalsOK' /\ Moved(a)
  <1>1. LocalsTyped'
    BY ZeroTry DEF Finished, Goto, IInv, TypeOK, LocalsTyped, Pcs, AllOperations
  <1>2. SeenStore'
    BY ActorsAssumption DEF Finished, Goto, IInv, TypeOK, SeenStore, OpKept, Actors
  <1>3. OpKept'
    BY ActorsAssumption DEF Finished, Goto, IInv, TypeOK, OpKept, Actors
  <1>4. Moved(a)
    BY Zenon DEF Finished, Goto, Moved, Pcs
  <1> QED BY <1>1, <1>2, <1>3, <1>4 DEF LocalsOK

LEMMA ErrKeeps ==
  ASSUME IInv, NEW a \in Actors, Err(a)
  PROVE  LocalsOK' /\ Moved(a)
  BY FinishedKeeps DEF Err

\* A step that only changes pc.
LEMMA GotoKeeps ==
  ASSUME IInv, NEW a \in Actors, UNCHANGED locals,
         NEW label \in {"checkHost", "dropSeen", "writeHost", "dropInvalid", "list", "probe"},
         Goto(a, label),
         label = "writeHost" => pc[a] = "publish",
         label = "dropInvalid" => pc[a] = "reread",
         label = "list" => op[a] = "contains",
         label = "probe" => op[a] # "shareSend"
  PROVE  LocalsOK' /\ Moved(a)
  BY ActorsAssumption, ParametersAssumption DEF Goto, locals, IInv, TypeOK, SeenStore, OpKept, LocalsOK, LocalsTyped, Moved, Actors, Pcs, AllOperations

LEMMA NextAttemptKeeps ==
  ASSUME IInv, NEW a \in Actors, pc[a] \in {"probe", "publish"}, NextAttempt(a)
  PROVE  LocalsOK' /\ Moved(a)
  <1>1. CASE tries[a] + 1 < Attempts
    <2> tries[a] + 1 \in 0..(Attempts - 1)
      BY <1>1, ParametersAssumption DEF IInv, TypeOK
    <2>1. LocalsTyped'
      BY <1>1 DEF NextAttempt, Goto, IInv, TypeOK, LocalsTyped, Pcs, AllOperations
    <2>2. SeenStore'
      BY <1>1, ActorsAssumption DEF NextAttempt, Goto, IInv, TypeOK, SeenStore, OpKept, Actors
    <2>3. OpKept'
      BY <1>1, ActorsAssumption DEF NextAttempt, Goto, IInv, TypeOK, OpKept, Actors
    <2>4. Moved(a)
      BY <1>1, Zenon DEF NextAttempt, Goto, Moved, Pcs
    <2> QED BY <2>1, <2>2, <2>3, <2>4 DEF LocalsOK
  <1>2. CASE ~(tries[a] + 1 < Attempts)
    BY <1>2, ErrKeeps DEF NextAttempt
  <1> QED BY <1>1, <1>2

LEMMA ElectedKeeps ==
  ASSUME IInv, NEW a \in Actors, NEW s \in Stores, Elected(a, s)
  PROVE  LocalsOK' /\ Moved(a)
  <1>1. CASE Finished(a, "running") \/ Finished(a, "idle")
    BY <1>1, FinishedKeeps
  <1>2. CASE ~(Finished(a, "running") \/ Finished(a, "idle"))
    <2>1. LocalsTyped'
      BY <1>2, ZeroTry DEF Elected, Goto, IInv, TypeOK, LocalsTyped, Pcs, AllOperations
    <2>2. SeenStore'
      BY <1>2, ActorsAssumption DEF Elected, Goto, IInv, TypeOK, SeenStore, OpKept, Actors
    <2>3. OpKept'
      BY <1>2, ActorsAssumption DEF Elected, Goto, IInv, TypeOK, OpKept, Actors
    <2>4. Moved(a)
      BY <1>2, Zenon DEF Elected, Goto, Moved, Pcs
    <2> QED BY <2>1, <2>2, <2>3, <2>4 DEF LocalsOK
  <1> QED BY <1>1, <1>2

LEMMA AfterInvalidateKeeps ==
  ASSUME IInv, NEW a \in Actors, AfterInvalidate(a)
  PROVE  LocalsOK' /\ Moved(a)
  <1>1. CASE op[a] = "send" /\ sends[a] = 0
    <2>1. LocalsTyped'
      BY <1>1, ZeroTry DEF AfterInvalidate, Goto, IInv, TypeOK, LocalsTyped, Pcs, AllOperations
    <2>2. SeenStore'
      BY <1>1, ActorsAssumption DEF AfterInvalidate, Goto, IInv, TypeOK, SeenStore, OpKept, Actors
    <2>3. OpKept'
      BY <1>1, ActorsAssumption DEF AfterInvalidate, Goto, IInv, TypeOK, OpKept, Actors
    <2>4. Moved(a)
      BY <1>1, Zenon DEF AfterInvalidate, Goto, Moved, Pcs
    <2> QED BY <2>1, <2>2, <2>3, <2>4 DEF LocalsOK
  <1>2. CASE op[a] = "send" /\ sends[a] # 0
    BY <1>2, FinishedKeeps DEF AfterInvalidate
  <1>3. CASE op[a] = "follow"
    <2>1. LocalsTyped'
      BY <1>3, ZeroTry DEF AfterInvalidate, Goto, IInv, TypeOK, LocalsTyped, Pcs, AllOperations
    <2>2. SeenStore'
      BY <1>3, ActorsAssumption DEF AfterInvalidate, Goto, IInv, TypeOK, SeenStore, OpKept, Actors
    <2>3. OpKept'
      BY <1>3, ActorsAssumption DEF AfterInvalidate, Goto, IInv, TypeOK, OpKept, Actors
    <2>4. Moved(a)
      BY <1>3, Zenon DEF AfterInvalidate, Goto, Moved, Pcs
    <2> QED BY <2>1, <2>2, <2>3, <2>4 DEF LocalsOK
  <1>4. CASE op[a] \notin {"send", "follow"}
    <2>1. LocalsTyped'
      BY <1>4, ZeroTry DEF AfterInvalidate, Goto, IInv, TypeOK, LocalsTyped, Pcs, AllOperations
    <2>2. SeenStore'
      BY <1>4, ActorsAssumption DEF AfterInvalidate, Goto, IInv, TypeOK, SeenStore, OpKept, Actors
    <2>3. OpKept'
      BY <1>4, ActorsAssumption DEF AfterInvalidate, Goto, IInv, TypeOK, OpKept, Actors
    <2>4. Moved(a)
      BY <1>4, Zenon DEF AfterInvalidate, Goto, Moved, Pcs
    <2> QED BY <2>1, <2>2, <2>3, <2>4 DEF LocalsOK
  <1> QED BY <1>1, <1>2, <1>3, <1>4

\* The steps of a store's guard keep the invariant.
LEMMA GuardKeeps ==
  ASSUME IInv, NEW s \in Stores, GuardStep(s) \/ Unregister(s) \/ GuardDies(s) \/ StoreExits(s)
  PROVE  IInv'
  <1>1. CASE StartStore(s)
    BY <1>1, ActorsAssumption, ParametersAssumption DEF StartStore, Goto, IInv, TypeOK, SeenStore, OpKept, OwnFile, Actors, Pcs, AllOperations, locals
  <1>2. CASE CreateFile(s)
    BY <1>2, ActorsAssumption, ParametersAssumption DEF CreateFile, Goto, IInv, TypeOK, SeenStore, OpKept, OwnFile, Actors, Pcs, AllOperations, locals
  <1>3. CASE WriteFile(s)
    BY <1>3, ActorsAssumption, ParametersAssumption DEF WriteFile, Goto, IInv, TypeOK, SeenStore, OpKept, OwnFile, Actors, Pcs, AllOperations, locals
  <1>4. CASE Abandon(s)
    BY <1>4, ActorsAssumption, ParametersAssumption DEF Abandon, Goto, IInv, TypeOK, SeenStore, OpKept, OwnFile, Actors, Pcs, AllOperations, locals
  <1>5. CASE LeaveFile(s)
    BY <1>5, ActorsAssumption, ParametersAssumption DEF LeaveFile, Goto, IInv, TypeOK, SeenStore, OpKept, OwnFile, Actors, Pcs, AllOperations, locals
  <1>6. CASE LeaveHost(s)
    BY <1>6, ActorsAssumption, ParametersAssumption DEF LeaveHost, Goto, HostNames, IInv, TypeOK, SeenStore, OpKept, OwnFile, Actors, Pcs, AllOperations, locals
  <1>7. CASE LeaveDrop(s)
    BY <1>7, ActorsAssumption, ParametersAssumption DEF LeaveDrop, Goto, IInv, TypeOK, SeenStore, OpKept, OwnFile, Actors, Pcs, AllOperations, locals
  <1>8. CASE Kill(s)
    BY <1>8, ActorsAssumption, ParametersAssumption DEF Kill, Goto, Finished, IInv, TypeOK, SeenStore, OpKept, OwnFile, Actors, Pcs, AllOperations, locals
  <1>9. CASE Unregister(s)
    BY <1>9, ActorsAssumption, ParametersAssumption DEF Unregister, Goto, IInv, TypeOK, SeenStore, OpKept, OwnFile, Actors, Pcs, AllOperations, locals
  <1>10. CASE GuardDies(s)
    BY <1>10, ActorsAssumption, ParametersAssumption DEF GuardDies, Goto, Finished, IInv, TypeOK, SeenStore, OpKept, OwnFile, Actors, Pcs, AllOperations, locals
  <1>11. CASE StoreExits(s)
    BY <1>11, ActorsAssumption, ParametersAssumption DEF StoreExits, IInv, TypeOK, SeenStore, OpKept, OwnFile, Actors, Pcs, AllOperations, locals
  <1> QED BY <1>1, <1>2, <1>3, <1>4, <1>5, <1>6, <1>7, <1>8, <1>9, <1>10, <1>11 DEF GuardStep

\* So does every step of an operation, of a guard or of a viewer.
LEMMA OperationKeeps ==
  ASSUME IInv, NEW a \in Actors, OperationStep(a)
  PROVE  IInv'
  <1>1. CASE ReadHost(a)
    BY <1>1, ActorsAssumption, ParametersAssumption DEF ReadHost, HaveHost, NoHost, Goto, IInv, TypeOK, SeenStore, OpKept, OwnFile, Actors, Pcs, AllOperations, locals
  <1>2. CASE RereadHost(a)
    BY <1>2, ActorsAssumption, ParametersAssumption DEF RereadHost, HaveHost, NoHost, Goto, IInv, TypeOK, SeenStore, OpKept, OwnFile, Actors, Pcs, AllOperations, locals
  <1>3. CASE DropInvalid(a)
    BY <1>3, ActorsAssumption, ParametersAssumption DEF DropInvalid, NoHost, Goto, IInv, TypeOK, SeenStore, OpKept, OwnFile, Actors, Pcs, AllOperations, locals
  <1>4. CASE RereadFails(a)
    BY <1>4, ErrKeeps, GotoKeeps, LocalStep DEF RereadFails, IInv, TypeOK
  <1>5. CASE CheckHost(a)
    BY <1>5, GotoKeeps, AfterInvalidateKeeps, LocalStep DEF CheckHost, IInv, TypeOK
  <1>6. CASE DropSeen(a)
    BY <1>6, AfterInvalidateKeeps, LocalStep DEF DropSeen
  <1>7. CASE ProbeHost(a)
    <2>1. seen[a] \in Stores
      BY <1>7 DEF ProbeHost, IInv, SeenStore
    <2>2. CASE op[a] = "contains" /\ pc' = [pc EXCEPT ![a] = "list"]
              /\ seen' = [seen EXCEPT ![a] = None]
              /\ UNCHANGED <<op, path, names, todo, tries, sends>>
      BY <1>7, <2>2, ActorsAssumption, ParametersAssumption DEF ProbeHost, IInv, TypeOK, SeenStore, OpKept, OwnFile, Actors, Pcs, AllOperations, locals
    <2> QED BY <1>7, <2>1, <2>2, FinishedKeeps, ElectedKeeps, GotoKeeps, LocalStep
            DEF ProbeHost, Goto, IInv, TypeOK
  <1>8. CASE ListCandidates(a)
    <2>1. CASE Err(a)
      BY <1>8, <2>1, ErrKeeps, LocalStep DEF ListCandidates, IInv, TypeOK
    <2>2. CASE ~Err(a)
      BY <1>8, <2>2, ActorsAssumption, ParametersAssumption DEF ListCandidates, Goto, IInv, TypeOK, SeenStore, OpKept, OwnFile, Actors, Pcs, AllOperations, locals
    <2> QED BY <2>1, <2>2
  <1>9. CASE DropFile(a)
    <2>1. TypeOK'
      BY <1>9, ActorsAssumption, ParametersAssumption, ZenonT(30) DEF DropFile, Goto, IInv, TypeOK, SeenStore, Actors, Pcs, AllOperations, locals
    <2>2. SeenStore' /\ OpKept'
      BY <1>9, ActorsAssumption, SMTT(30) DEF DropFile, Goto, IInv, TypeOK, SeenStore, OpKept, Actors, locals
    <2>3. OwnFile'
      BY <1>9, ActorsAssumption, SMTT(30) DEF DropFile, Goto, IInv, TypeOK, OwnFile, Actors, locals
    <2> QED BY <2>1, <2>2, <2>3 DEF IInv
  <1>10. CASE Listed(a)
    <2>1. CASE op[a] = "contains"
      BY <1>10, <2>1, FinishedKeeps, LocalStep DEF Listed, IInv, TypeOK
    <2>2. CASE op[a] = "shareSend"
      <3>1. TypeOK'
        BY <1>10, <2>2, ActorsAssumption, ParametersAssumption, SMTT(30) DEF Listed, Goto, IInv, TypeOK, SeenStore, Actors, Pcs, AllOperations, locals
      <3>2. SeenStore' /\ OpKept'
        BY <1>10, <2>2, ActorsAssumption, SMTT(30) DEF Listed, Goto, IInv, TypeOK, SeenStore, OpKept, Actors, locals
      <3>3. OwnFile'
        BY <1>10, <2>2, ActorsAssumption, SMTT(30) DEF Listed, Goto, IInv, TypeOK, OwnFile, Actors, locals
      <3> QED BY <3>1, <3>2, <3>3 DEF IInv
    <2>3. CASE op[a] \notin {"contains", "shareSend"}
      BY <1>10, <2>3, GotoKeeps, LocalStep DEF Listed, IInv, TypeOK
    <2> QED BY <2>1, <2>2, <2>3
  <1>11. CASE NoneAnswered(a)
    BY <1>11, NextAttemptKeeps, LocalStep DEF NoneAnswered, IInv, TypeOK
  <1>12. CASE PublishHost(a)
    <2>1. CASE /\ host' = [by |-> a, ep |-> seen[a], full |-> FALSE]
               /\ Goto(a, "writeHost") /\ UNCHANGED locals
      <3>1. seen[a] \in Stores
        BY <1>12 DEF PublishHost, IInv, SeenStore
      <3>2. host' \in [by : Actors, ep : Stores, full : BOOLEAN]
        BY <2>1, <3>1
      <3> QED BY <1>12, <2>1, <3>2, GotoKeeps, LocalStep DEF PublishHost
    <2>2. CASE UNCHANGED host /\ (NextAttempt(a) \/ Err(a))
      BY <1>12, <2>2, NextAttemptKeeps, ErrKeeps, LocalStep DEF PublishHost, IInv, TypeOK
    <2> QED BY <1>12, <2>1, <2>2 DEF PublishHost
  <1>13. CASE WriteHost(a)
    <2>1. seen[a] \in Stores
      BY <1>13 DEF WriteHost, IInv, SeenStore
    <2>2. host' \in [by : Actors, ep : Stores, full : BOOLEAN] \cup {None}
      BY <1>13, ZenonT(30) DEF WriteHost, IInv, TypeOK
    <2> QED BY <1>13, <2>1, <2>2, ElectedKeeps, ErrKeeps, LocalStep DEF WriteHost
  <1>14. CASE Deliver(a)
    BY <1>14, FinishedKeeps, GotoKeeps, LocalStep DEF Deliver, IInv, TypeOK
  <1>15. CASE ShareDone(a)
    BY <1>15, FinishedKeeps, LocalStep DEF ShareDone, IInv, TypeOK
  <1>16. ASSUME NEW s \in Stores, ReadCandidate(a, s) PROVE IInv'
    <2>1. TypeOK'
      BY <1>16, ActorsAssumption, ParametersAssumption, SMTT(30) DEF ReadCandidate, Goto, IInv, TypeOK, SeenStore, Actors, Pcs, AllOperations, locals
    <2>2. SeenStore' /\ OpKept'
      BY <1>16, ActorsAssumption, SMTT(30) DEF ReadCandidate, Goto, IInv, TypeOK, SeenStore, OpKept, Actors, locals
    <2>3. OwnFile'
      BY <1>16, ActorsAssumption, SMTT(30) DEF ReadCandidate, Goto, IInv, TypeOK, OwnFile, Actors, locals
    <2> QED BY <2>1, <2>2, <2>3 DEF IInv
  <1>17. ASSUME NEW s \in Stores, ProbeFailed(a, s) PROVE IInv'
    <2>1. TypeOK'
      BY <1>17, ActorsAssumption, ParametersAssumption, SMTT(30) DEF ProbeFailed, Silent, IInv, TypeOK, SeenStore, Actors, Pcs, AllOperations, locals
    <2>2. SeenStore' /\ OpKept'
      BY <1>17, ActorsAssumption, SMTT(30) DEF ProbeFailed, Silent, IInv, TypeOK, SeenStore, OpKept, Actors, locals
    <2>3. OwnFile'
      BY <1>17, ActorsAssumption, SMTT(30) DEF ProbeFailed, Silent, IInv, TypeOK, OwnFile, Actors, locals
    <2> QED BY <2>1, <2>2, <2>3 DEF IInv
  <1>18. ASSUME NEW s \in Stores, ProbeAnswered(a, s) PROVE IInv'
    <2>1. TypeOK'
      BY <1>18, ActorsAssumption, ParametersAssumption, SMTT(30) DEF ProbeAnswered, Answers, Goto, IInv, TypeOK, SeenStore, Actors, Pcs, AllOperations, locals
    <2>2. SeenStore' /\ OpKept'
      BY <1>18, ActorsAssumption, SMTT(30) DEF ProbeAnswered, Answers, Goto, IInv, TypeOK, SeenStore, OpKept, Actors, locals
    <2>3. OwnFile'
      BY <1>18, ActorsAssumption, SMTT(30) DEF ProbeAnswered, Answers, Goto, IInv, TypeOK, OwnFile, Actors, locals
    <2> QED BY <2>1, <2>2, <2>3 DEF IInv
  <1>19. ASSUME NEW s \in Stores, ShareTo(a, s) PROVE IInv'
    BY <1>19, ActorsAssumption, ParametersAssumption DEF ShareTo, Answers, Silent, Goto, IInv, TypeOK, SeenStore, OpKept, OwnFile, Actors, Pcs, AllOperations, locals
  <1> QED BY <1>1, <1>2, <1>3, <1>4, <1>5, <1>6, <1>7, <1>8, <1>9, <1>10, <1>11, <1>12, <1>13, <1>14, <1>15, <1>16, <1>17, <1>18, <1>19 DEF OperationStep

\* And the beginning and the death of a viewer's operation.
LEMMA ViewerKeeps ==
  ASSUME IInv, NEW a \in Viewers,
         \/ ViewerDies(a)
         \/ \E o \in Operations : Begin(a, o)
         \/ \E s \in Stores : PollFailed(a, s)
  PROVE  IInv'
  <1>1. CASE ViewerDies(a)
    BY <1>1, ActorsAssumption, ParametersAssumption DEF ViewerDies, Finished, Goto, IInv, TypeOK, SeenStore, OpKept, OwnFile, Actors, Pcs, AllOperations, locals
  <1>2. ASSUME NEW o \in Operations, Begin(a, o) PROVE IInv'
    BY <1>2, ActorsAssumption, ParametersAssumption DEF Begin, Goto, IInv, TypeOK, SeenStore, OpKept, OwnFile, Actors, Pcs, AllOperations, locals
  <1>3. ASSUME NEW s \in Stores, PollFailed(a, s) PROVE IInv'
    BY <1>3, ActorsAssumption, ParametersAssumption DEF PollFailed, Goto, IInv, TypeOK, SeenStore, OpKept, OwnFile, Actors, Pcs, AllOperations, locals
  <1> QED BY <1>1, <1>2, <1>3

LEMMA StutterKeeps == ASSUME IInv, UNCHANGED vars PROVE IInv'
  BY DEF vars, IInv, TypeOK, SeenStore, OpKept, OwnFile, Actors, Pcs, AllOperations, locals

\* The invariant holds in every reachable state of the election.
THEOREM Invariance == Spec => []IInv
  <1>1. Init => IInv
    BY InitIInv
  <1>2. IInv /\ [Next]_vars => IInv'
    BY GuardKeeps, OperationKeeps, ViewerKeeps, StutterKeeps DEF Next, Actors
  <1> QED BY <1>1, <1>2, PTL DEF Spec

\* Every reachable state is well typed: in particular no more than Attempts
\* attempts are counted, and a record names a store.
THEOREM TypeCorrect == Spec => []TypeOK
  BY Invariance, PTL DEF IInv

\* What a step may do to the host record: leave it, remove it, create it where
\* there was none, or complete it.
LEMMA HostSteps ==
  ASSUME IInv, Next
  PROVE  \/ host' = host \/ host' = None \/ host = None
         \/ host # None /\ host' = [host EXCEPT !.full = TRUE]
  <1>1. ASSUME NEW s \in Stores, GuardStep(s) \/ Unregister(s) \/ GuardDies(s) \/ StoreExits(s)
        PROVE  host' = host \/ host' = None
    BY <1>1 DEF GuardStep, StartStore, CreateFile, WriteFile, Abandon, LeaveFile, LeaveHost,
                LeaveDrop, Kill, Unregister, GuardDies, StoreExits
  <1>2. ASSUME NEW a \in Viewers,
               \/ ViewerDies(a)
               \/ \E o \in Operations : Begin(a, o)
               \/ \E s \in Stores : PollFailed(a, s)
        PROVE  host' = host
    BY <1>2 DEF ViewerDies, Begin, PollFailed
  <1>3. ASSUME NEW a \in Actors, OperationStep(a), ~PublishHost(a), ~WriteHost(a)
        PROVE  host' = host \/ host' = None
    BY <1>3 DEF OperationStep, ReadHost, RereadHost, DropInvalid, RereadFails, CheckHost,
                DropSeen, ProbeHost, ListCandidates, DropFile, Listed, ReadCandidate,
                ProbeFailed, ProbeAnswered, NoneAnswered, Deliver, ShareDone, ShareTo
  <1>4. ASSUME NEW a \in Actors, PublishHost(a)
        PROVE  host = None \/ host' = host
    BY <1>4 DEF PublishHost
  <1>5. ASSUME NEW a \in Actors, WriteHost(a)
        PROVE  \/ host' = host \/ host' = None
               \/ host # None /\ host' = [host EXCEPT !.full = TRUE]
    BY <1>5 DEF WriteHost
  <1> QED BY <1>1, <1>2, <1>3, <1>4, <1>5 DEF Next

\* publish_host's create_new, for every number of processes: a record is
\* completed or removed, never replaced in place.
THEOREM OneRecord == Spec => RecordNeverOverwritten
  <1>1. IInv /\ [Next]_vars =>
          [host # None /\ host' # None => host'.by = host.by /\ host'.ep = host.ep]_vars
    <2> SUFFICES ASSUME IInv, Next, host # None, host' # None
                 PROVE  host'.by = host.by /\ host'.ep = host.ep
      OBVIOUS
    <2>1. host \in [by : Actors, ep : Stores, full : BOOLEAN]
      BY DEF IInv, TypeOK
    <2>2. host' = host \/ host' = [host EXCEPT !.full = TRUE]
      BY HostSteps
    <2> QED BY <2>1, <2>2
  <1> QED BY <1>1, Invariance, PTL DEF Spec, RecordNeverOverwritten
==============================================================================
