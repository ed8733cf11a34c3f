----------------------------- MODULE ProcessHost -----------------------------
(***************************************************************************)
(* The election of the Delegated Process Host among the memory stores of   *)
(* one user.  Every store has a candidate file, one host record names the  *)
(* elected one, and any process may read, elect, replace or clean up at    *)
(* any time: there is no lock, only create_new on the host record, a short *)
(* probe, and read-then-remove sequences that other processes interleave.  *)
(*                                                                         *)
(* An actor is the guard process that started a store, or a viewer: any    *)
(* other process that sends activity, follows it or validates its          *)
(* environment.  A file is modelled by what a reader gets: absent,         *)
(* unreadable (created, not yet written) or complete.  A write reaches a   *)
(* file only while the path still names the file that was opened.          *)
(***************************************************************************)
EXTENDS Naturals, FiniteSets

CONSTANTS
    Stores,      \* memory stores, each with its guard process
    Registered,  \* stores registered, one of them perhaps elected, at the start
    Viewers,     \* processes that send, follow or validate
    Operations,  \* what viewers do
    Attempts,    \* ELECTION_ATTEMPTS
    Faults,      \* probes and adds of a live store, and file I/O, may fail
    None

AllOperations == {"ensure", "follow", "send", "share", "contains"}

ASSUME ActorsAssumption ==
    Registered \subseteq Stores /\ Stores \cap Viewers = {} /\ None \notin Stores
ASSUME ParametersAssumption ==
    Operations \subseteq AllOperations /\ Attempts \in Nat \ {0} /\ Faults \in BOOLEAN

Actors == Stores \cup Viewers

VARIABLES
    live,    \* the store's process: "new", "up", "down"
    file,    \* its candidate file: "absent", "empty", "full"
    host,    \* None, or [by, ep, full]: who created the record and whom it names
    pc, op,  \* each actor's next step, and the operation it belongs to
    seen,    \* the endpoint read or elected last
    path,    \* the candidate path about to be removed
    names,   \* candidate paths listed and not yet read
    todo,    \* candidates read and not yet probed (or sent to)
    tries,   \* finished election attempts
    sends    \* failed deliveries of send_activity

locals == <<op, seen, path, names, todo, tries, sends>>
vars == <<live, file, host, pc, locals>>

HostNames(s) == host # None /\ host.full /\ host.ep = s

Init ==
    /\ live = [s \in Stores |-> IF s \in Registered THEN "up" ELSE "new"]
    /\ file = [s \in Stores |-> IF s \in Registered THEN "full" ELSE "absent"]
    /\ host \in [by : Registered, ep : Registered, full : {TRUE}] \cup {None}
    /\ pc = [a \in Actors |-> IF a \in Registered THEN "running"
                             ELSE IF a \in Stores THEN "new" ELSE "idle"]
    /\ op = [a \in Actors |-> IF a \in Stores THEN "register" ELSE "none"]
    /\ seen = [a \in Actors |-> None]
    /\ path = [a \in Actors |-> None]
    /\ names = [a \in Actors |-> {}]
    /\ todo = [a \in Actors |-> {}]
    /\ tries = [a \in Actors |-> 0]
    /\ sends = [a \in Actors |-> 0]

Goto(a, label) == pc' = [pc EXCEPT ![a] = label]

\* The actor is done and forgets its locals; a store's guard ends in `label`.
Finished(a, label) ==
    /\ Goto(a, label)
    /\ op' = [op EXCEPT ![a] = IF a \in Stores THEN "register" ELSE "none"]
    /\ seen' = [seen EXCEPT ![a] = None]
    /\ path' = [path EXCEPT ![a] = None]
    /\ names' = [names EXCEPT ![a] = {}]
    /\ todo' = [todo EXCEPT ![a] = {}]
    /\ tries' = [tries EXCEPT ![a] = 0]
    /\ sends' = [sends EXCEPT ![a] = 0]

----------------------------------------------------------------------------
(* A store and its guard: MemoryStoreGuard, register and unregister        *)

\* The store child reports its address; register_candidate begins.
StartStore(s) ==
    /\ pc[s] = "new"
    /\ live' = [live EXCEPT ![s] = "up"]
    /\ Goto(s, "create")
    /\ UNCHANGED <<file, host, locals>>

\* write_endpoint opens the candidate file, then writes it.  A failed write
\* leaves the file as it is.
CreateFile(s) ==
    /\ pc[s] = "create"
    /\ \/ file' = [file EXCEPT ![s] = "empty"] /\ Goto(s, "write")
       \/ Faults /\ Goto(s, "kill") /\ UNCHANGED file
    /\ UNCHANGED <<live, host, locals>>

WriteFile(s) ==
    /\ pc[s] = "write"
    /\ \/ /\ file' = [file EXCEPT ![s] = IF @ = "empty" THEN "full" ELSE @]
          /\ Goto(s, "readHost")
       \/ Faults /\ Goto(s, "kill") /\ UNCHANGED file
    /\ UNCHANGED <<live, host, locals>>

\* The election failed: the candidate file goes and the store is killed.
Abandon(s) ==
    /\ pc[s] = "abandon"
    /\ file' = [file EXCEPT ![s] = "absent"]
    /\ Goto(s, "kill")
    /\ UNCHANGED <<live, host, locals>>

\* Dropping the guard: unregister_candidate reads and removes the candidate
\* file, removes the host record if it names this store, then kills the child.
Unregister(s) ==
    /\ pc[s] = "running"
    /\ seen' = [seen EXCEPT ![s] = IF file[s] = "full" THEN s ELSE None]
    /\ Goto(s, "leave")
    /\ UNCHANGED <<live, file, host, op, path, names, todo, tries, sends>>

LeaveFile(s) ==
    /\ pc[s] = "leave"
    /\ file' = [file EXCEPT ![s] = "absent"]
    /\ Goto(s, "leaveHost")
    /\ UNCHANGED <<live, host, locals>>

LeaveHost(s) ==
    /\ pc[s] = "leaveHost"
    /\ Goto(s, IF seen[s] = s /\ HostNames(s) THEN "leaveDrop" ELSE "kill")
    /\ UNCHANGED <<live, file, host, locals>>

LeaveDrop(s) ==
    /\ pc[s] = "leaveDrop"
    /\ host' = None
    /\ Goto(s, "kill")
    /\ UNCHANGED <<live, file, locals>>

Kill(s) ==
    /\ pc[s] = "kill"
    /\ live' = [live EXCEPT ![s] = "down"]
    /\ Finished(s, "gone")
    /\ UNCHANGED <<file, host>>

\* The guard dies between any two steps; the store loses its lease and exits.
GuardDies(s) ==
    /\ pc[s] \notin {"new", "gone"}
    /\ Finished(s, "gone")
    /\ UNCHANGED <<live, file, host>>

StoreExits(s) ==
    /\ live[s] = "up"
    /\ live' = [live EXCEPT ![s] = "down"]
    /\ UNCHANGED <<file, host, pc, locals>>

----------------------------------------------------------------------------
(* Viewers                                                                 *)

Begin(a, o) ==
    /\ pc[a] = "idle"
    /\ o # "follow"
    /\ Goto(a, "readHost")
    /\ op' = [op EXCEPT ![a] = o]
    /\ UNCHANGED <<live, file, host, seen, path, names, todo, tries, sends>>

\* follow: a poll of the endpoint it had failed, so it invalidates and elects.
PollFailed(a, s) ==
    /\ pc[a] = "idle"
    /\ "follow" \in Operations
    /\ live[s] = "down" \/ (Faults /\ live[s] = "up")
    /\ seen' = [seen EXCEPT ![a] = s]
    /\ op' = [op EXCEPT ![a] = "follow"]
    /\ Goto(a, "checkHost")
    /\ UNCHANGED <<live, file, host, path, names, todo, tries, sends>>

\* A viewer process ends in the middle of an operation; another one may start.
ViewerDies(a) ==
    /\ Faults
    /\ pc[a] # "idle"
    /\ Finished(a, "idle")
    /\ UNCHANGED <<live, file, host>>

----------------------------------------------------------------------------
(* current_host_at                                                         *)

\* A complete record: send_activity delivers to it, the others probe it first.
HaveHost(a) ==
    /\ host # None
    /\ host.full
    /\ seen' = [seen EXCEPT ![a] = host.ep]
    /\ Goto(a, IF op[a] = "send" THEN "deliver" ELSE "probeHost")
    /\ UNCHANGED op

\* No record: send_activity starts an election, the others list the candidates.
NoHost(a) ==
    /\ IF op[a] = "send"
       THEN op' = [op EXCEPT ![a] = "sendElect"] /\ Goto(a, "readHost")
       ELSE Goto(a, "list") /\ UNCHANGED op
    /\ seen' = [seen EXCEPT ![a] = None]

\* The operation returns an error to its caller.
Err(a) == Finished(a, IF a \in Stores THEN "abandon" ELSE "idle")

\* A record that cannot be read is read again after ELECTION_RETRY.
ReadHost(a) ==
    /\ pc[a] = "readHost"
    /\ \/ HaveHost(a)
       \/ host = None /\ NoHost(a)
       \/ host # None /\ (~host.full \/ Faults) /\ Goto(a, "reread") /\ UNCHANGED <<op, seen>>
    /\ UNCHANGED <<live, file, host, path, names, todo, tries, sends>>

\* Mutant: an unreadable record is treated as absent and stays.
RereadHostKeeps(a) ==
    /\ pc[a] = "reread"
    /\ HaveHost(a) \/ ((host # None => ~host.full) /\ NoHost(a))
    /\ UNCHANGED <<live, file, host, path, names, todo, tries, sends>>

RereadHost(a) ==
    /\ pc[a] = "reread"
    /\ \/ HaveHost(a)
       \/ host = None /\ NoHost(a)
       \/ host # None /\ ~host.full /\ Goto(a, "dropInvalid") /\ UNCHANGED <<op, seen>>
    /\ UNCHANGED <<live, file, host, path, names, todo, tries, sends>>

\* The path is removed, whatever it names by now.
DropInvalid(a) ==
    /\ pc[a] = "dropInvalid"
    /\ host' = None
    /\ NoHost(a)
    /\ UNCHANGED <<live, file, path, names, todo, tries, sends>>

\* A second read that fails otherwise: send_activity removes the record and
\* elects, contains_host goes on, an election returns the error.
RereadFails(a) ==
    /\ pc[a] = "reread"
    /\ Faults
    /\ \/ op[a] = "send" /\ Goto(a, "dropInvalid") /\ UNCHANGED locals
       \/ op[a] = "contains" /\ Goto(a, "list") /\ UNCHANGED locals
       \/ op[a] \notin {"send", "contains"} /\ Err(a)
    /\ UNCHANGED <<live, file, host>>

----------------------------------------------------------------------------
(* invalidate_host_at                                                      *)

\* What the operation does after it invalidated the host.
AfterInvalidate(a) ==
    CASE op[a] = "send" /\ sends[a] = 0 ->
           /\ sends' = [sends EXCEPT ![a] = 1]
           /\ seen' = [seen EXCEPT ![a] = None]
           /\ Goto(a, "readHost")
           /\ UNCHANGED <<op, path, names, todo, tries>>
      [] op[a] = "send" /\ sends[a] # 0 -> Finished(a, "idle")
      [] op[a] = "follow" ->
           /\ op' = [op EXCEPT ![a] = "ensure"]
           /\ seen' = [seen EXCEPT ![a] = None]
           /\ Goto(a, "readHost")
           /\ UNCHANGED <<path, names, todo, tries, sends>>
      [] OTHER ->
           /\ seen' = [seen EXCEPT ![a] = None]
           /\ Goto(a, IF op[a] = "shareSend" THEN "shareNext" ELSE "list")
           /\ UNCHANGED <<op, path, names, todo, tries, sends>>

\* The record is read and compared, then removed: two steps.
CheckHost(a) ==
    /\ pc[a] = "checkHost"
    /\ IF HostNames(seen[a]) THEN Goto(a, "dropSeen") /\ UNCHANGED locals ELSE AfterInvalidate(a)
    /\ UNCHANGED <<live, file, host>>

DropSeen(a) ==
    /\ pc[a] = "dropSeen"
    /\ host' = None
    /\ AfterInvalidate(a)
    /\ UNCHANGED <<live, file>>

----------------------------------------------------------------------------
(* ensure_host_at_with_probe                                               *)

Answers(s) == live[s] = "up"
Silent(s) == live[s] # "up" \/ Faults

\* The election returns s.
Elected(a, s) ==
    \/ op[a] = "register" /\ Finished(a, "running")
    \/ op[a] = "ensure" /\ Finished(a, "idle")
    \/ /\ \/ op[a] = "sendElect" /\ op' = [op EXCEPT ![a] = "send"] /\ Goto(a, "deliver")
          \/ op[a] = "share" /\ op' = [op EXCEPT ![a] = "shareSend"] /\ Goto(a, "list")
       /\ seen' = [seen EXCEPT ![a] = s]
       /\ todo' = [todo EXCEPT ![a] = {}]
       /\ tries' = [tries EXCEPT ![a] = 0]
       /\ UNCHANGED <<path, names, sends>>

\* contains_host looks no further when its own store answers.
ProbeHost(a) ==
    /\ pc[a] = "probeHost"
    /\ \/ Answers(seen[a]) /\ op[a] = "contains" /\ Finished(a, "idle")
       \/ Answers(seen[a]) /\ op[a] # "contains" /\ Elected(a, seen[a])
       \/ /\ op[a] = "contains"
          /\ seen' = [seen EXCEPT ![a] = None]
          /\ Goto(a, "list")
          /\ UNCHANGED <<op, path, names, todo, tries, sends>>
       \/ Silent(seen[a]) /\ op[a] # "contains" /\ Goto(a, "checkHost") /\ UNCHANGED locals
    /\ UNCHANGED <<live, file, host>>

\* candidates_at lists the directory, then reads path by path (in any order:
\* modification times may tie).
ListCandidates(a) ==
    /\ pc[a] = "list"
    /\ \/ /\ names' = [names EXCEPT ![a] = {s \in Stores : file[s] # "absent"}]
          /\ todo' = [todo EXCEPT ![a] = {}]
          /\ Goto(a, "scan")
          /\ UNCHANGED <<op, seen, path, tries, sends>>
       \/ Faults /\ Err(a)
    /\ UNCHANGED <<live, file, host>>

\* A candidate that cannot be read, for whatever reason, is removed next.
ReadCandidate(a, s) ==
    /\ pc[a] = "scan"
    /\ s \in names[a]
    /\ names' = [names EXCEPT ![a] = @ \ {s}]
    /\ \/ /\ file[s] = "full"
          /\ todo' = [todo EXCEPT ![a] = @ \cup {s}]
          /\ UNCHANGED <<pc, path>>
       \/ /\ file[s] # "full" \/ Faults
          /\ path' = [path EXCEPT ![a] = s]
          /\ Goto(a, "dropFile")
          /\ UNCHANGED todo
    /\ UNCHANGED <<live, file, host, op, seen, tries, sends>>

\* The unreadable candidate is removed, whatever the path holds by now.
DropFile(a) ==
    /\ pc[a] = "dropFile"
    /\ file' = [file EXCEPT ![path[a]] = "absent"]
    /\ path' = [path EXCEPT ![a] = None]
    /\ Goto(a, "scan")
    /\ UNCHANGED <<live, host, op, seen, names, todo, tries, sends>>

\* All paths are read.  A broadcast adds the host unless it was listed: `names`
\* then holds that one target, which has no candidate path.
Listed(a) ==
    /\ pc[a] = "scan"
    /\ names[a] = {}
    /\ CASE op[a] = "contains" -> Finished(a, "idle")
         [] op[a] = "shareSend" ->
              /\ names' = [names EXCEPT ![a] = {seen[a]} \ todo[a]]
              /\ Goto(a, "shareNext")
              /\ UNCHANGED <<op, seen, path, todo, tries, sends>>
         [] OTHER -> Goto(a, "probe") /\ UNCHANGED locals
    /\ UNCHANGED <<live, file, host>>

\* A candidate that does not answer is skipped.  Its file is removed only if it
\* is not the registering one and its process is gone; a dead child its guard
\* has not waited for counts as running on Unix.
ProbeFailed(a, s) ==
    /\ pc[a] = "probe"
    /\ s \in todo[a]
    /\ Silent(s)
    /\ todo' = [todo EXCEPT ![a] = @ \ {s}]
    /\ \/ a # s /\ live[s] = "down" /\ file' = [file EXCEPT ![s] = "absent"]
       \/ (a = s \/ live[s] # "down" \/ pc[s] # "gone") /\ UNCHANGED file
    /\ UNCHANGED <<live, host, pc, op, seen, path, names, tries, sends>>

ProbeAnswered(a, s) ==
    /\ pc[a] = "probe"
    /\ s \in todo[a]
    /\ Answers(s)
    /\ seen' = [seen EXCEPT ![a] = s]
    /\ Goto(a, "publish")
    /\ UNCHANGED <<live, file, host, op, path, names, todo, tries, sends>>

\* Mutant: the failed attempt is not counted.
NextAttemptUncounted(a) ==
    /\ seen' = [seen EXCEPT ![a] = None]
    /\ todo' = [todo EXCEPT ![a] = {}]
    /\ Goto(a, "readHost")
    /\ UNCHANGED <<op, path, names, tries, sends>>

\* The attempt ends without a host: sleep, then the next one or the error.
NextAttempt(a) ==
    IF tries[a] + 1 < Attempts
    THEN /\ tries' = [tries EXCEPT ![a] = @ + 1]
         /\ seen' = [seen EXCEPT ![a] = None]
         /\ todo' = [todo EXCEPT ![a] = {}]
         /\ Goto(a, "readHost")
         /\ UNCHANGED <<op, path, names, sends>>
    ELSE Err(a)

NoneAnswered(a) ==
    /\ pc[a] = "probe"
    /\ todo[a] = {}
    /\ NextAttempt(a)
    /\ UNCHANGED <<live, file, host>>

\* Mutant: the host record is opened without create_new.
PublishHostOver(a) ==
    /\ pc[a] = "publish"
    /\ host' = [by |-> a, ep |-> seen[a], full |-> FALSE]
    /\ Goto(a, "writeHost")
    /\ UNCHANGED <<live, file, locals>>

\* publish_host creates the record exclusively; if there is one, the attempt is
\* over.
PublishHost(a) ==
    /\ pc[a] = "publish"
    /\ \/ /\ host = None
          /\ host' = [by |-> a, ep |-> seen[a], full |-> FALSE]
          /\ Goto(a, "writeHost")
          /\ UNCHANGED locals
       \/ host # None /\ NextAttempt(a) /\ UNCHANGED host
       \/ Faults /\ Err(a) /\ UNCHANGED host
    /\ UNCHANGED <<live, file>>

\* The write reaches the record unless another actor removed it meanwhile; a
\* failed write removes the path.
WriteHost(a) ==
    /\ pc[a] = "writeHost"
    /\ \/ /\ host' = IF host # None /\ host.by = a THEN [host EXCEPT !.full = TRUE] ELSE host
          /\ Elected(a, seen[a])
       \/ Faults /\ host' = None /\ Err(a)
    /\ UNCHANGED <<live, file>>

----------------------------------------------------------------------------
(* Delivery of activity                                                    *)

Deliver(a) ==
    /\ pc[a] = "deliver"
    /\ \/ Answers(seen[a]) /\ Finished(a, "idle")
       \/ Silent(seen[a]) /\ Goto(a, "checkHost") /\ UNCHANGED locals
    /\ UNCHANGED <<live, file, host>>

\* broadcast_activity_at: an add that fails removes the candidate file, then
\* invalidates the host.
ShareTo(a, s) ==
    /\ pc[a] = "shareNext"
    /\ s \in todo[a] \cup names[a]
    /\ s \in names[a] => todo[a] = {}
    /\ todo' = [todo EXCEPT ![a] = @ \ {s}]
    /\ names' = [names EXCEPT ![a] = @ \ {s}]
    /\ \/ Answers(s) /\ UNCHANGED <<file, pc, seen>>
       \/ /\ Silent(s)
          /\ file' = IF s \in todo[a] THEN [file EXCEPT ![s] = "absent"] ELSE file
          /\ seen' = [seen EXCEPT ![a] = s]
          /\ Goto(a, "checkHost")
    /\ UNCHANGED <<live, host, op, path, tries, sends>>

ShareDone(a) ==
    /\ pc[a] = "shareNext"
    /\ todo[a] = {}
    /\ names[a] = {}
    /\ Finished(a, "idle")
    /\ UNCHANGED <<live, file, host>>

----------------------------------------------------------------------------
GuardStep(s) ==
    \/ StartStore(s) \/ CreateFile(s) \/ WriteFile(s) \/ Abandon(s)
    \/ LeaveFile(s) \/ LeaveHost(s) \/ LeaveDrop(s) \/ Kill(s)

\* The steps of an operation under way.
OperationStep(a) ==
    \/ ReadHost(a) \/ RereadHost(a) \/ DropInvalid(a) \/ RereadFails(a)
    \/ CheckHost(a) \/ DropSeen(a) \/ ProbeHost(a)
    \/ ListCandidates(a) \/ DropFile(a) \/ Listed(a)
    \/ \E s \in Stores : ReadCandidate(a, s) \/ ProbeFailed(a, s) \/ ProbeAnswered(a, s)
    \/ NoneAnswered(a) \/ PublishHost(a) \/ WriteHost(a)
    \/ Deliver(a) \/ ShareDone(a)
    \/ \E s \in Stores : ShareTo(a, s)

Next ==
    \/ \E s \in Stores : GuardStep(s) \/ Unregister(s) \/ GuardDies(s) \/ StoreExits(s)
    \/ \E a \in Actors : OperationStep(a)
    \/ \E a \in Viewers : ViewerDies(a)
    \/ \E a \in Viewers, o \in Operations : Begin(a, o)
    \/ \E a \in Viewers, s \in Stores : PollFailed(a, s)

Spec == Init /\ [][Next]_vars

----------------------------------------------------------------------------
Pcs == {"new", "create", "write", "running", "leave", "leaveHost", "leaveDrop", "kill", "gone",
        "abandon", "idle", "readHost", "reread", "dropInvalid", "checkHost", "dropSeen",
        "probeHost", "list", "scan", "dropFile", "probe", "publish", "writeHost", "deliver",
        "shareNext"}

TypeOK ==
    /\ live \in [Stores -> {"new", "up", "down"}]
    /\ file \in [Stores -> {"absent", "empty", "full"}]
    /\ host \in [by : Actors, ep : Stores, full : BOOLEAN] \cup {None}
    /\ pc \in [Actors -> Pcs]
    /\ op \in [Actors -> AllOperations \cup
                         {"none", "register", "sendElect", "shareSend"}]
    /\ seen \in [Actors -> Stores \cup {None}]
    /\ path \in [Actors -> Stores \cup {None}]
    /\ names \in [Actors -> SUBSET Stores]
    /\ todo \in [Actors -> SUBSET Stores]
    /\ tries \in [Actors -> 0..(Attempts - 1)]
    /\ sends \in [Actors -> 0..1]

\* One publisher per record: a record that exists is completed by its creator or
\* removed, never overwritten (create_new), so two elections at once leave one
\* host.
RecordNeverOverwritten ==
    [][host # None /\ host' # None => host'.by = host.by /\ host'.ep = host.ep]_vars

Electing(a) == pc[a] \notin {"new", "idle", "running", "gone"}

\* Steps under way go on (sockets and sleeps have timeouts), a guard that began
\* to leave leaves, and viewers keep asking for the host.
Fairness ==
    /\ \A s \in Stores : WF_vars(GuardStep(s) \/ OperationStep(s))
    /\ \A a \in Viewers : WF_vars(OperationStep(a))
    /\ \A a \in Viewers : WF_vars(\E o \in Operations : Begin(a, o))

FairSpec == Spec /\ Fairness

\* Every registration, election, delivery, broadcast and renewed election of a
\* follower ends: ELECTION_ATTEMPTS and the two rounds of send_activity bound the
\* loops however the other processes interfere and whatever fails.
OperationEnds == \A a \in Actors : []<>(~Electing(a))

\* Hand-over: when some running store keeps its complete candidate file and the
\* others have come to rest, the host record ends up naming a running store and
\* stays so, whatever dead records, half-written records and slow removers are
\* left.
HandOver ==
    (\E s \in Stores : <>[](live[s] = "up" /\ file[s] = "full" /\ pc[s] = "running"))
        => <>[](\E s \in Stores : HostNames(s) /\ live[s] = "up")

----------------------------------------------------------------------------
(* The inductive invariant of the proofs                                   *)

\* The endpoint an actor is about to probe, publish, write or deliver to, and
\* the one a broadcast adds to its candidates, is a store.
SeenStore ==
    \A a \in Actors :
        /\ pc[a] \in {"probeHost", "publish", "writeHost", "deliver"} => seen[a] \in Stores
        /\ op[a] = "shareSend" /\ pc[a] \in {"list", "scan", "dropFile"} => seen[a] \in Stores

\* A guard only registers, and a broadcast under way runs no election.
OpKept ==
    /\ \A s \in Stores : op[s] = "register"
    /\ \A a \in Actors :
         pc[a] \in {"readHost", "reread", "dropInvalid", "probeHost", "probe",
                   "publish", "writeHost"} => op[a] # "shareSend"

\* Only a store's own guard completes its candidate file.
OwnFile ==
    \A s \in Stores : /\ pc[s] \in {"new", "create"} => file[s] = "absent"
                      /\ pc[s] = "write" => file[s] # "full"

IInv == TypeOK /\ SeenStore /\ OpKept /\ OwnFile
==============================================================================
