--------------------------- MODULE ClientGuardian ---------------------------
(***************************************************************************)
(* A protected launch of a native client on Unix: the wrapper (owner) that *)
(* the shell waits for, the guardian it spawns, and the client, which      *)
(* starts as a bootstrap that executes the client's program only when the  *)
(* guardian lets it.  The guardian keeps the generated settings file of    *)
(* the launch in a session directory of its own under one root that all    *)
(* launches of the user share, and removes it once the client is reaped.   *)
(*                                                                         *)
(* Wrapper and guardian talk over a socket pair, a byte each: "payload",   *)
(* "ack", "cancel", "continue" and "statusack" one way, "hello", "ready",  *)
(* "stopped" and "status" the other.  Any read that has a time limit may   *)
(* time out, any process may be killed between two of its steps.           *)
(***************************************************************************)
EXTENDS Naturals, Sequences, FiniteSets

CONSTANTS
    Launches,   \* launches that share the settings root
    Starting,   \* bound: the launches that are followed from their beginning;
                \* of the others only the guardian is left, about to sweep, and
                \* it makes no directory
    MaxSignals, \* bound: interrupts and job-control stops in one launch
    None

ASSUME LaunchesAssumption == None \notin Launches /\ Starting \subseteq Launches
ASSUME MaxSignalsAssumption == MaxSignals \in Nat

VARIABLES
    owner,      \* the wrapper's step
    result,     \* what the wrapper returned
    fg,         \* the wrapper has given the terminal to the client's group
    toGuardian, toOwner,   \* the socket pair
    guardian,   \* the guardian's step
    how,        \* why the guardian terminates the client
    shutdown,   \* the loop's `shutdown` and `forced`
    interrupted,           \* its `first_interrupt`
    client,     \* the client's process
    go,         \* GO was written to the bootstrap's barrier
    files,      \* the session directory: "dir", "owner", "settings", "released"
    target,     \* whose directory the guardian is cleaning up
    left,       \* what this clean-up did not remove
    unseen,     \* sessions cleanup_released has still to look at
    rootLock,   \* holder of .cleanup.lock
    signals     \* interrupts and stops so far

ownerVars == <<owner, result, fg, toGuardian>>
guardVars == <<guardian, how, shutdown, interrupted, toOwner>>
dirVars   == <<files, target, left, unseen, rootLock>>
vars == <<ownerVars, guardVars, client, go, dirVars, signals>>

\* cleanup_session removes them in this order.
Order == <<"settings", "released", "owner", "dir">>
Entries == {Order[i] : i \in DOMAIN Order}

OwnerSteps == {"idle", "hello", "ready", "give", "ack", "wait", "suspended",
               "reap", "closing", "ended", "dead"}
Startup == {"start", "payload", "root", "sweep", "mkdir", "lock", "write", "spawn",
            "relay", "ready", "ackwait", "go"}
GuardianSteps == Startup \cup {"loop", "statusack", "terminate", "mark", "clean", "drop",
                               "absent", "hung", "exited0", "exited1", "crashed"}
Gone == {"absent", "exited0", "exited1", "crashed"}
Living == {"bootstrap", "running", "stopped", "paused", "dying"}

ToGuardian == {"payload", "ack", "cancel", "continue", "statusack"}
ToOwner == {"hello", "ready", "stopped", "status"}

GuardianUp(l) == guardian[l] \notin Gone
\* The wrapper has closed its end of the socket.
OwnerGone(l) == owner[l] \in {"closing", "ended", "dead"}
Alive(l) == client[l] \in Living
\* flock on owner.lock: held from its creation until the guardian's process ends.
HoldsLock(l) == GuardianUp(l) /\ "owner" \in files[l]

Init ==
    /\ owner = [l \in Launches |-> IF l \in Starting THEN "idle" ELSE "dead"]
    /\ result = [l \in Launches |-> "none"]
    /\ fg = [l \in Launches |-> FALSE]
    /\ toGuardian = [l \in Launches |-> <<>>]
    /\ toOwner = [l \in Launches |-> <<>>]
    /\ guardian = [l \in Launches |-> IF l \in Starting THEN "absent" ELSE "root"]
    /\ how = [l \in Launches |-> "none"]
    /\ shutdown = [l \in Launches |-> "none"]
    /\ interrupted = [l \in Launches |-> FALSE]
    /\ client = [l \in Launches |-> "none"]
    /\ go = [l \in Launches |-> FALSE]
    /\ files = [l \in Launches |-> {}]
    /\ target = [l \in Launches |-> None]
    /\ left = [l \in Launches |-> {}]
    /\ unseen = [l \in Launches |-> {}]
    /\ rootLock = None
    /\ signals = [l \in Launches |-> 0]

Put(f, l, x) == [f EXCEPT ![l] = x]
Send(queue, l, byte) == [queue EXCEPT ![l] = Append(@, byte)]
Receives(queue, l, byte) == queue[l] # <<>> /\ Head(queue[l]) = byte
Taken(queue, l) == [queue EXCEPT ![l] = Tail(@)]

\* The guardian's process ends and its locks go with it; a hung one keeps them.
ExitAs(l, code) ==
    /\ guardian' = Put(guardian, l, code)
    /\ rootLock' = IF rootLock = l /\ code # "hung" THEN None ELSE rootLock
    /\ target' = Put(target, l, None)
    /\ left' = IF code = "exited0" THEN left ELSE Put(left, l, {})
    /\ unseen' = Put(unseen, l, {})
    /\ interrupted' = Put(interrupted, l, FALSE)

-----------------------------------------------------------------------------
(* The wrapper: spawn_native, wait and the drop of Supervised               *)

\* The wrapper returns an error: it closes the socket and waits for the
\* guardian; in wait it has given the terminal back before.
Close(l) ==
    /\ owner' = Put(owner, l, "closing")
    /\ fg' = IF owner[l] \in {"wait", "suspended", "reap"} THEN Put(fg, l, FALSE) ELSE fg
    /\ UNCHANGED <<result, toGuardian>>

Launch(l) ==
    /\ owner[l] = "idle"
    /\ owner' = Put(owner, l, "hello")
    /\ guardian' = Put(guardian, l, "start")
    /\ UNCHANGED <<result, fg, toGuardian, how, shutdown, interrupted, toOwner,
                   client, go, dirVars, signals>>

\* HELLO arrived: send the payload.  READY arrived: go on.  Otherwise the
\* guardian is gone or silent for five seconds, or a write failed.
OwnerStarts(l) ==
    /\ owner[l] \in {"hello", "ready"}
    /\ \/ /\ Receives(toOwner, l, owner[l])
          /\ toOwner' = Taken(toOwner, l)
          /\ IF owner[l] = "hello" /\ GuardianUp(l)
             THEN /\ toGuardian' = Send(toGuardian, l, "payload")
                  /\ owner' = Put(owner, l, "ready")
                  /\ UNCHANGED <<result, fg>>
             ELSE IF owner[l] = "hello" THEN Close(l)
             ELSE /\ owner' = Put(owner, l, "give")
                  /\ UNCHANGED <<result, fg, toGuardian>>
       \/ Close(l) /\ UNCHANGED toOwner
    /\ UNCHANGED <<guardian, how, shutdown, interrupted, client, go, dirVars, signals>>

\* Foreground::give_to: the terminal is given, there is none to give, or the
\* call fails.
OwnerGives(l) ==
    /\ owner[l] = "give"
    /\ \/ /\ owner' = Put(owner, l, "ack")
          /\ \E given \in BOOLEAN : fg' = Put(fg, l, given)
          /\ UNCHANGED <<result, toGuardian>>
       \/ Close(l)
    /\ UNCHANGED <<guardVars, client, go, dirVars, signals>>

OwnerAcks(l) ==
    /\ owner[l] = "ack"
    /\ \/ /\ GuardianUp(l)
          /\ toGuardian' = Send(toGuardian, l, "ack")
          /\ owner' = Put(owner, l, "wait")
          /\ UNCHANGED <<result, fg>>
       \/ ~GuardianUp(l) /\ Close(l)
    /\ UNCHANGED <<guardVars, client, go, dirVars, signals>>

\* wait: STATUS restores the terminal and is acknowledged, STOPPED restores it
\* and stops the wrapper itself, the end of the stream is an error.
OwnerReads(l) ==
    /\ owner[l] = "wait"
    /\ \/ /\ Receives(toOwner, l, "status")
          /\ toOwner' = Taken(toOwner, l)
          /\ \/ /\ GuardianUp(l)
                /\ owner' = Put(owner, l, "reap")
                /\ fg' = Put(fg, l, FALSE)
                /\ toGuardian' = Send(toGuardian, l, "statusack")
                /\ UNCHANGED result
             \/ Close(l)
       \/ /\ Receives(toOwner, l, "stopped")
          /\ toOwner' = Taken(toOwner, l)
          /\ \/ /\ owner' = Put(owner, l, "suspended")
                /\ fg' = Put(fg, l, FALSE)
                /\ UNCHANGED <<result, toGuardian>>
             \/ Close(l)
       \/ /\ toOwner[l] = <<>> /\ ~GuardianUp(l)
          /\ Close(l)
          /\ UNCHANGED toOwner
    /\ UNCHANGED <<guardian, how, shutdown, interrupted, client, go, dirVars, signals>>

\* The shell continues the stopped wrapper, or the waiting wrapper finds itself
\* in the foreground: the terminal is given and the client continued.
OwnerResumes(l) ==
    /\ owner[l] = "suspended" \/ (owner[l] = "wait" /\ ~fg[l])
    /\ \/ /\ GuardianUp(l)
          /\ owner' = Put(owner, l, "wait")
          /\ fg' \in {Put(fg, l, TRUE)} \cup
                     (IF owner[l] = "suspended" THEN {fg} ELSE {})
          /\ toGuardian' = Send(toGuardian, l, "continue")
          /\ UNCHANGED result
       \/ Close(l)
    /\ UNCHANGED <<guardVars, client, go, dirVars, signals>>

\* NATIVE_COMMAND_INTERRUPTS has changed.
OwnerCancels(l) ==
    /\ owner[l] = "wait" /\ signals[l] < MaxSignals
    /\ signals' = [signals EXCEPT ![l] = @ + 1]
    /\ \/ /\ GuardianUp(l)
          /\ toGuardian' = Send(toGuardian, l, "cancel")
          /\ UNCHANGED <<owner, result, fg>>
       \/ ~GuardianUp(l) /\ Close(l)
    /\ UNCHANGED <<guardVars, client, go, dirVars>>

\* Mutant: the status is returned however the guardian ended.
OwnerReturnsAny(l) ==
    /\ owner[l] = "reap" /\ ~GuardianUp(l)
    /\ owner' = Put(owner, l, "ended")
    /\ result' = Put(result, l, "status")
    /\ UNCHANGED <<fg, toGuardian, guardVars, client, go, dirVars, signals>>

\* The guardian's exit status decides whether the client's is returned.
OwnerReturns(l) ==
    /\ owner[l] = "reap" /\ ~GuardianUp(l)
    /\ owner' = Put(owner, l, "ended")
    /\ result' = Put(result, l, IF guardian[l] = "exited0" THEN "status" ELSE "error")
    /\ UNCHANGED <<fg, toGuardian, guardVars, client, go, dirVars, signals>>

\* Mutant: the wrapper returns its error without waiting for the guardian.
OwnerClosesAtOnce(l) ==
    /\ owner[l] = "closing"
    /\ owner' = Put(owner, l, "ended")
    /\ result' = Put(result, l, "error")
    /\ fg' = Put(fg, l, FALSE)
    /\ UNCHANGED <<toGuardian, guardVars, client, go, dirVars, signals>>

\* cleanup_startup_guardian: wait for the guardian; one that has not ended after
\* twelve seconds, more than its own time limits add up to, is hung and killed.
OwnerCloses(l) ==
    /\ owner[l] = "closing"
    /\ owner' = Put(owner, l, "ended")
    /\ result' = Put(result, l, "error")
    /\ fg' = Put(fg, l, FALSE)
    /\ \/ ~GuardianUp(l) /\ UNCHANGED <<guardian, rootLock, left, target, unseen, interrupted>>
       \/ guardian[l] = "hung" /\ ExitAs(l, "crashed")
    /\ UNCHANGED <<toGuardian, how, shutdown, toOwner, client, go, files, signals>>

OwnerCrashes(l) ==
    /\ owner[l] \notin {"idle", "ended", "dead"}
    /\ owner' = Put(owner, l, "dead")
    /\ fg' = Put(fg, l, FALSE)
    /\ UNCHANGED <<result, toGuardian, guardVars, client, go, dirVars, signals>>

-----------------------------------------------------------------------------
(* The guardian: startup.  Whatever fails before the bootstrap is let go    *)
(* aborts the session; the directory is not released but removed.           *)

\* A session whose client was never started: what there is of it is removed,
\* once by a failing create_in, by abort and again by the drop of Session.
Abort(l) ==
    /\ guardian' = Put(guardian, l, IF guardian[l] = "spawn" THEN "clean" ELSE "drop")
    /\ target' = Put(target, l, l)
    /\ UNCHANGED <<how, client, rootLock>>

\* terminate_managed begins with SIGKILL to the client's group.
Terminate(l, why) ==
    /\ guardian' = Put(guardian, l, "terminate")
    /\ how' = Put(how, l, why)
    /\ client' = IF Alive(l) THEN Put(client, l, "dying") ELSE client

\* HELLO, then the payload; an owner that is gone or silent ends the guardian.
GuardianHello(l) ==
    /\ guardian[l] = "start"
    /\ \/ /\ ~OwnerGone(l)
          /\ toOwner' = Send(toOwner, l, "hello")
          /\ guardian' = Put(guardian, l, "payload")
          /\ UNCHANGED <<interrupted, left, target, unseen, rootLock>>
       \/ OwnerGone(l) /\ ExitAs(l, "exited1") /\ UNCHANGED toOwner
    /\ UNCHANGED <<ownerVars, how, shutdown, client, go, files, signals>>

GuardianPayload(l) ==
    /\ guardian[l] = "payload"
    /\ \/ /\ Receives(toGuardian, l, "payload")
          /\ toGuardian' = Taken(toGuardian, l)
          /\ guardian' = Put(guardian, l, "root")
          /\ UNCHANGED <<interrupted, left, target, unseen, rootLock>>
       \/ toGuardian[l] = <<>> /\ ExitAs(l, "exited1") /\ UNCHANGED toGuardian
    /\ UNCHANGED <<owner, result, fg, how, shutdown, toOwner, client, go, files, signals>>

\* Mutant: the lock file in the root is taken for a session.
GuardianRootLockLists(l) ==
    /\ guardian[l] = "root" /\ rootLock = None
    /\ rootLock' = l
    /\ guardian' = Put(guardian, l, "sweep")
    /\ unseen' = Put(unseen, l, {t \in Launches \ {l} : "dir" \in files[t]} \cup {None})
    /\ UNCHANGED <<ownerVars, how, shutdown, interrupted, target, toOwner, client, go, files,
                   left, signals>>

\* root_lock waits up to two seconds; then the directory is listed.
GuardianRootLock(l) ==
    /\ guardian[l] = "root"
    /\ \/ /\ rootLock = None
          /\ rootLock' = l
          /\ guardian' = Put(guardian, l, "sweep")
          /\ unseen' = Put(unseen, l, {t \in Launches \ {l} : "dir" \in files[t]})
          /\ UNCHANGED <<interrupted, left, target>>
       \/ rootLock # None /\ ExitAs(l, "exited1")
    /\ UNCHANGED <<ownerVars, how, shutdown, toOwner, client, go, files, signals>>

\* Mutant: a session whose owner lock is free is taken for released.
GuardianSweepUnmarked(l, t) ==
    /\ guardian[l] = "sweep" /\ t \in unseen[l]
    /\ unseen' = Put(unseen, l, unseen[l] \ {t})
    /\ IF "owner" \in files[t] /\ ~HoldsLock(t)
       THEN guardian' = Put(guardian, l, "clean") /\ target' = Put(target, l, t)
       ELSE UNCHANGED <<guardian, target>>
    /\ UNCHANGED <<ownerVars, how, shutdown, interrupted, toOwner, client, go, files,
                   rootLock, left, signals>>

\* cleanup_released, one session: only with its marker and its owner lock.
GuardianSweep(l, t) ==
    /\ guardian[l] = "sweep" /\ t \in unseen[l]
    /\ unseen' = Put(unseen, l, unseen[l] \ {t})
    /\ IF "released" \in files[t] /\ "owner" \in files[t] /\ ~HoldsLock(t)
       THEN guardian' = Put(guardian, l, "clean") /\ target' = Put(target, l, t)
       ELSE UNCHANGED <<guardian, target>>
    /\ UNCHANGED <<ownerVars, how, shutdown, interrupted, toOwner, client, go, files,
                   rootLock, left, signals>>

GuardianSweepDone(l) ==
    /\ guardian[l] = "sweep" /\ unseen[l] = {}
    /\ guardian' = Put(guardian, l, "mkdir")
    /\ UNCHANGED <<ownerVars, how, shutdown, interrupted, toOwner, client, go, dirVars,
                   signals>>

\* create_in: the directory, the locked owner file, the settings; what was made
\* is removed when the next one fails.  The root lock is dropped at the end.
Creates(step) == CASE step = "mkdir" -> "dir" [] step = "lock" -> "owner"
                   [] step = "write" -> "settings"
AfterCreate(step) == CASE step = "mkdir" -> "lock" [] step = "lock" -> "write"
                       [] step = "write" -> "spawn"
GuardianCreate(l) ==
    /\ guardian[l] \in {"mkdir", "lock", "write"}
    /\ \/ /\ l \in Starting
          /\ files' = [files EXCEPT ![l] = @ \cup {Creates(guardian[l])}]
          /\ guardian' = Put(guardian, l, AfterCreate(guardian[l]))
          /\ rootLock' = IF guardian[l] = "write" THEN None ELSE rootLock
          /\ UNCHANGED <<how, client, target>>
       \/ Abort(l) /\ UNCHANGED files
    /\ UNCHANGED <<ownerVars, shutdown, interrupted, toOwner, go, unseen, left, signals>>

\* The bootstrap is spawned, then the signal relay in its process group.
GuardianSpawn(l) ==
    /\ guardian[l] \in {"spawn", "relay"}
    /\ \/ /\ guardian[l] = "spawn"
          /\ \/ /\ client' = Put(client, l, "bootstrap")
                /\ guardian' = Put(guardian, l, "relay")
                /\ UNCHANGED <<how, target, rootLock>>
             \/ Abort(l)
       \/ /\ guardian[l] = "relay"
          /\ \/ guardian' = Put(guardian, l, "ready") /\ UNCHANGED <<how, client>>
             \/ Terminate(l, "abort")
          /\ UNCHANGED <<target, rootLock>>
    /\ UNCHANGED <<ownerVars, shutdown, interrupted, toOwner, go, files, unseen, left, signals>>

GuardianReady(l) ==
    /\ guardian[l] = "ready"
    /\ \/ /\ ~OwnerGone(l)
          /\ toOwner' = Send(toOwner, l, "ready")
          /\ guardian' = Put(guardian, l, "ackwait")
          /\ UNCHANGED <<how, client>>
       \/ OwnerGone(l) /\ Terminate(l, "abort") /\ UNCHANGED toOwner
    /\ UNCHANGED <<ownerVars, shutdown, interrupted, go, dirVars, signals>>

\* ACK within five seconds lets the bootstrap go; anything else ends it.
GuardianAck(l) ==
    /\ guardian[l] = "ackwait"
    /\ \/ /\ Receives(toGuardian, l, "ack")
          /\ toGuardian' = Taken(toGuardian, l)
          /\ guardian' = Put(guardian, l, "go")
          /\ UNCHANGED <<how, client>>
       \/ toGuardian[l] = <<>> /\ Terminate(l, "abort") /\ UNCHANGED toGuardian
    /\ UNCHANGED <<owner, result, fg, shutdown, interrupted, toOwner, go, dirVars, signals>>

GuardianGo(l) ==
    /\ guardian[l] = "go"
    /\ \/ /\ client[l] = "bootstrap"
          /\ go' = Put(go, l, TRUE)
          /\ guardian' = Put(guardian, l, "loop")
          /\ UNCHANGED <<how, client>>
       \/ Terminate(l, "abort") /\ UNCHANGED go
    /\ UNCHANGED <<ownerVars, shutdown, interrupted, toOwner, dirVars, signals>>

-----------------------------------------------------------------------------
(* The guardian: the loop polls the wrapper, the relay, the shutdown timer  *)
(* and the client in turn; an event may come just after its poll, so they   *)
(* are taken in any order.                                                  *)

LoopUnchanged == UNCHANGED <<owner, result, fg, go, dirVars>>

GuardianMessage(l) ==
    /\ guardian[l] = "loop" /\ toGuardian[l] # <<>>
    /\ toGuardian' = Taken(toGuardian, l)
    /\ shutdown' = IF Head(toGuardian[l]) = "cancel" /\ shutdown[l] = "none"
                   THEN Put(shutdown, l, "armed") ELSE shutdown
    /\ client' = IF Head(toGuardian[l]) = "continue" /\ client[l] \in {"stopped", "paused"}
                 THEN Put(client, l, "running") ELSE client
    /\ UNCHANGED <<guardian, how, interrupted, toOwner, signals>>
    /\ LoopUnchanged

\* Mutant: the loss of the wrapper only interrupts the client.
GuardianOwnerLostInterrupts(l) ==
    /\ guardian[l] = "loop" /\ toGuardian[l] = <<>> /\ OwnerGone(l)
    /\ interrupted' = Put(interrupted, l, TRUE)
    /\ UNCHANGED <<toGuardian, guardian, how, client, shutdown, toOwner, signals>>
    /\ LoopUnchanged

\* The wrapper is gone: its death, or its shutdown of the socket.
GuardianOwnerLost(l) ==
    /\ guardian[l] = "loop" /\ toGuardian[l] = <<>> /\ OwnerGone(l)
    /\ Terminate(l, "lost")
    /\ UNCHANGED <<toGuardian, shutdown, interrupted, toOwner, signals>>
    /\ LoopUnchanged

\* A second interrupt within two seconds arms the shutdown.
GuardianInterrupt(l) ==
    /\ guardian[l] = "loop" /\ signals[l] < MaxSignals
    /\ signals' = [signals EXCEPT ![l] = @ + 1]
    /\ interrupted' = Put(interrupted, l, TRUE)
    /\ shutdown' = IF interrupted[l] /\ shutdown[l] = "none"
                   THEN Put(shutdown, l, "armed") ELSE shutdown
    /\ UNCHANGED <<toGuardian, guardian, how, toOwner, client>>
    /\ LoopUnchanged

GuardianForget(l) ==
    /\ guardian[l] = "loop" /\ interrupted[l]
    /\ interrupted' = Put(interrupted, l, FALSE)
    /\ UNCHANGED <<toGuardian, guardian, how, shutdown, toOwner, client, signals>>
    /\ LoopUnchanged

\* The relay is lost, or the shutdown has taken two seconds: SIGKILL.
GuardianForce(l) ==
    /\ guardian[l] = "loop" /\ shutdown[l] = "armed"
    /\ shutdown' = Put(shutdown, l, "forced")
    /\ client' = IF Alive(l) THEN Put(client, l, "dying") ELSE client
    /\ UNCHANGED <<toGuardian, guardian, how, interrupted, toOwner, signals>>
    /\ LoopUnchanged

GuardianRelayLost(l) ==
    /\ guardian[l] = "loop" /\ Alive(l) /\ client[l] # "dying"
    /\ shutdown' = Put(shutdown, l, "forced")
    /\ client' = Put(client, l, "dying")
    /\ UNCHANGED <<toGuardian, guardian, how, interrupted, toOwner, signals>>
    /\ LoopUnchanged

\* Looking at the client's state or reaping strays fails.
GuardianWaitFails(l) ==
    /\ guardian[l] = "loop"
    /\ Terminate(l, "lost")
    /\ UNCHANGED <<toGuardian, shutdown, interrupted, toOwner, signals>>
    /\ LoopUnchanged

\* Mutant: only a stop of the client is reported.
GuardianReportsStops(l) ==
    /\ guardian[l] = "loop" /\ client[l] = "stopped" /\ ~OwnerGone(l)
    /\ toOwner' = Send(toOwner, l, "stopped")
    /\ client' = Put(client, l, "paused")
    /\ UNCHANGED <<toGuardian, guardian, how, shutdown, interrupted, signals>>
    /\ LoopUnchanged

\* STOPPED and STATUS; a wrapper that is gone does not receive them.
GuardianReports(l) ==
    /\ guardian[l] = "loop" /\ client[l] \in {"stopped", "zombie"}
    /\ \/ /\ ~OwnerGone(l)
          /\ toOwner' = Send(toOwner, l, IF client[l] = "stopped" THEN "stopped" ELSE "status")
          /\ client' = IF client[l] = "stopped" THEN Put(client, l, "paused") ELSE client
          /\ guardian' = IF client[l] = "zombie" THEN Put(guardian, l, "statusack")
                         ELSE guardian
          /\ UNCHANGED how
       \/ OwnerGone(l) /\ Terminate(l, "lost") /\ UNCHANGED toOwner
    /\ UNCHANGED <<toGuardian, shutdown, interrupted, signals>>
    /\ LoopUnchanged

\* Mutant: the client is reaped without waiting for the wrapper.
GuardianStatusAckSkips(l) ==
    /\ guardian[l] = "statusack"
    /\ Terminate(l, "done")
    /\ UNCHANGED <<toGuardian, shutdown, interrupted, toOwner, signals>>
    /\ LoopUnchanged

\* await_status_ack: the exited client is kept as the anchor of its process
\* group until the wrapper has taken the terminal back, or is gone.
GuardianStatusAck(l) ==
    /\ guardian[l] = "statusack"
    /\ \/ /\ toGuardian[l] # <<>>
          /\ toGuardian' = Taken(toGuardian, l)
          /\ IF Head(toGuardian[l]) = "statusack" THEN Terminate(l, "done")
             ELSE UNCHANGED <<guardian, how, client>>
       \/ /\ toGuardian[l] = <<>> /\ OwnerGone(l)
          /\ Terminate(l, "lost")
          /\ UNCHANGED toGuardian
    /\ UNCHANGED <<shutdown, interrupted, toOwner, signals>>
    /\ LoopUnchanged

-----------------------------------------------------------------------------
(* The guardian: the end of the client and of the session                  *)

\* Everything is reaped: an aborted session is removed, any other released.
GuardianReaps(l) ==
    /\ guardian[l] = "terminate" /\ client[l] = "zombie"
    /\ client' = Put(client, l, "reaped")
    /\ guardian' = Put(guardian, l, IF how[l] = "abort" THEN "clean" ELSE "mark")
    /\ target' = IF how[l] = "abort" THEN Put(target, l, l) ELSE target
    /\ UNCHANGED <<ownerVars, how, shutdown, interrupted, toOwner, go, files, unseen,
                   rootLock, left, signals>>

\* A descendant outlives the deadline, or a call fails: the session is kept.
GuardianDrainFails(l) ==
    /\ guardian[l] = "terminate"
    /\ ExitAs(l, "exited1")
    /\ UNCHANGED <<ownerVars, how, shutdown, toOwner, client, go, files, signals>>

\* Session::release: the marker (its failure is ignored), then the removal.
GuardianMarks(l) ==
    /\ guardian[l] = "mark"
    /\ \E made \in {{}, {"released"}} : files' = [files EXCEPT ![l] = @ \cup made]
    /\ guardian' = Put(guardian, l, "clean")
    /\ target' = Put(target, l, l)
    /\ UNCHANGED <<ownerVars, how, shutdown, interrupted, toOwner, client, go, unseen,
                   rootLock, left, signals>>

\* cleanup_session: one entry after the other, the directory last.  An entry
\* whose removal fails is left, and the directory with it; all are left if one
\* looks unsafe (a link, loose permissions, an unexpected name).  A session's
\* own clean-up is followed by that of its drop.
FirstOf(S) == Order[CHOOSE i \in DOMAIN Order :
                       /\ Order[i] \in S
                       /\ \A j \in 1 .. (i - 1) : Order[j] \notin S]
GuardianCleans(l) ==
    LET t == target[l]
        e == FirstOf(files[t] \ left[l]) IN
    /\ guardian[l] \in {"clean", "drop"} /\ files[t] \ left[l] # {}
    /\ \/ /\ e = "dir" => files[t] = {"dir"}
          /\ files' = [files EXCEPT ![t] = @ \ {e}]
          /\ UNCHANGED left
       \/ /\ left' = [left EXCEPT ![l] = @ \cup {e}]
          /\ UNCHANGED files
    /\ UNCHANGED <<ownerVars, guardVars, client, go, target, unseen, rootLock, signals>>

GuardianCleaned(l) ==
    /\ guardian[l] \in {"clean", "drop"} /\ files[target[l]] \subseteq left[l]
    /\ IF guardian[l] = "clean"
       THEN /\ guardian' = Put(guardian, l, IF target[l] = l THEN "drop" ELSE "sweep")
            /\ target' = IF target[l] = l THEN target ELSE Put(target, l, None)
            /\ left' = Put(left, l, {})
            /\ UNCHANGED <<interrupted, unseen, rootLock>>
       ELSE ExitAs(l, IF how[l] = "done" THEN "exited0" ELSE "exited1")
    /\ UNCHANGED <<ownerVars, how, shutdown, toOwner, client, go, files, signals>>

\* The guardian is killed, or stops making progress.
GuardianCrashes(l) ==
    /\ GuardianUp(l)
    /\ \E fate \in {"crashed", "hung"} : ExitAs(l, fate)
    /\ UNCHANGED <<ownerVars, how, shutdown, toOwner, client, go, files, signals>>

-----------------------------------------------------------------------------
(* The client                                                              *)

ClientUnchanged == UNCHANGED <<ownerVars, guardVars, go, dirVars>>

\* GO: the bootstrap becomes the client; or it cannot execute it.
ClientStarts(l) ==
    /\ client[l] = "bootstrap" /\ go[l]
    /\ \E next \in {"running", "zombie"} : client' = Put(client, l, next)
    /\ UNCHANGED signals
    /\ ClientUnchanged

\* The barrier is closed without GO.
BootstrapEnds(l) ==
    /\ client[l] = "bootstrap" /\ ~go[l] /\ ~GuardianUp(l)
    /\ client' = Put(client, l, "zombie")
    /\ UNCHANGED signals
    /\ ClientUnchanged

\* The terminal's stop character.
ClientStops(l) ==
    /\ client[l] = "running" /\ signals[l] < MaxSignals
    /\ signals' = [signals EXCEPT ![l] = @ + 1]
    /\ client' = Put(client, l, "stopped")
    /\ ClientUnchanged

\* The client ends, of its own or by a signal.
ClientEnds(l) ==
    /\ Alive(l)
    /\ client' = Put(client, l, "zombie")
    /\ UNCHANGED signals
    /\ ClientUnchanged

\* With the guardian gone, init reaps.
InitReaps(l) ==
    /\ client[l] = "zombie" /\ ~GuardianUp(l)
    /\ client' = Put(client, l, "reaped")
    /\ UNCHANGED signals
    /\ ClientUnchanged

-----------------------------------------------------------------------------
OwnerStep(l) ==
    \/ OwnerStarts(l) \/ OwnerGives(l) \/ OwnerAcks(l) \/ OwnerReads(l)
    \/ OwnerReturns(l) \/ OwnerCloses(l)

GuardianStep(l) ==
    \/ GuardianHello(l) \/ GuardianPayload(l) \/ GuardianRootLock(l)
    \/ \E t \in Launches : GuardianSweep(l, t)
    \/ GuardianSweepDone(l) \/ GuardianCreate(l) \/ GuardianSpawn(l) \/ GuardianReady(l)
    \/ GuardianAck(l) \/ GuardianGo(l) \/ GuardianMessage(l) \/ GuardianOwnerLost(l)
    \/ GuardianForget(l) \/ GuardianForce(l) \/ GuardianReports(l) \/ GuardianStatusAck(l)
    \/ GuardianReaps(l) \/ GuardianDrainFails(l) \/ GuardianMarks(l) \/ GuardianCleans(l)
    \/ GuardianCleaned(l)

ProcessEnds(l) == BootstrapEnds(l) \/ (client[l] = "dying" /\ ClientEnds(l)) \/ InitReaps(l)

Environment(l) ==
    \/ Launch(l) \/ OwnerResumes(l) \/ OwnerCancels(l) \/ OwnerCrashes(l)
    \/ GuardianInterrupt(l) \/ GuardianRelayLost(l) \/ GuardianWaitFails(l)
    \/ GuardianCrashes(l) \/ ClientStarts(l) \/ ClientStops(l) \/ ClientEnds(l)

Finished ==
    /\ \A l \in Launches : /\ owner[l] \in {"ended", "dead", "wait", "reap"}
                            /\ guardian[l] \in Gone \cup {"hung"}
                            /\ owner[l] \in {"wait", "reap"} => guardian[l] = "hung"
                            /\ ~Alive(l)
    /\ UNCHANGED vars

Next ==
    \/ \E l \in Launches : OwnerStep(l) \/ GuardianStep(l) \/ ProcessEnds(l) \/ Environment(l)
    \/ Finished

\* Wrapper and guardian poll every ten milliseconds and all their waits are
\* bounded; a process that was sent SIGKILL dies.
Fairness ==
    \A l \in Launches : WF_vars(OwnerStep(l)) /\ WF_vars(GuardianStep(l))
                        /\ WF_vars(ProcessEnds(l))
Spec == Init /\ [][Next]_vars /\ Fairness

-----------------------------------------------------------------------------
\* The types of all but `left`.
StateOK ==
    /\ owner \in [Launches -> OwnerSteps]
    /\ result \in [Launches -> {"none", "status", "error"}]
    /\ fg \in [Launches -> BOOLEAN]
    /\ toGuardian \in [Launches -> Seq(ToGuardian)]
    /\ toOwner \in [Launches -> Seq(ToOwner)]
    /\ guardian \in [Launches -> GuardianSteps]
    /\ how \in [Launches -> {"none", "abort", "lost", "done"}]
    /\ shutdown \in [Launches -> {"none", "armed", "forced"}]
    /\ interrupted \in [Launches -> BOOLEAN]
    /\ client \in [Launches -> Living \cup {"none", "zombie", "reaped"}]
    /\ go \in [Launches -> BOOLEAN]
    /\ files \in [Launches -> SUBSET Entries]
    /\ target \in [Launches -> Launches \cup {None}]
    /\ unseen \in [Launches -> SUBSET Launches]
    /\ rootLock \in Launches \cup {None}
    /\ signals \in [Launches -> 0 .. MaxSignals]

TypeOK == StateOK /\ left \in [Launches -> SUBSET Entries]

\* "Marking is allowed only after the guardian has confirmed and reaped the
\* actual Claude consumer": as long as a bootstrap or client lives, its settings
\* file exists, whoever was killed and whichever launch cleans up.
SettingsKept == \A l \in Launches : Alive(l) => "settings" \in files[l]

\* When the wrapper has returned to the shell, its client is gone, or dying of
\* SIGKILL; only the loss of the guardian itself lets a client live on.
ClientGoneWithWrapper ==
    \A l \in Launches : owner[l] = "ended" /\ Alive(l) =>
        guardian[l] = "crashed" \/ client[l] = "dying"

\* A wrapper that returns the client's exit status has its terminal back, the
\* client is reaped, and the clean-up of its session has gone through to the
\* end: what is still there it refused to touch or failed to remove.
StatusMeansDone ==
    \A l \in Launches : result[l] = "status" =>
        client[l] = "reaped" /\ files[l] \subseteq left[l] /\ ~fg[l]

\* "Keep the direct Claude child unreaped as the PGID anchor until the live
\* wrapper confirms it restored terminal ownership".
AnchorKept ==
    [][\A l \in Launches :
         client[l] = "zombie" /\ client'[l] = "reaped" /\ how[l] = "done" => ~fg[l]]_vars

\* A wrapper that is gone, or that cancelled, takes its client with it, though
\* the client ignores the interrupt or is stopped.
ClientEndsWithWrapper ==
    \A l \in Launches : []<>(OwnerGone(l) \/ shutdown[l] # "none" =>
                               ~Alive(l) \/ guardian[l] \in {"crashed", "hung"})

\* A client that ended, or a guardian that did, lets the wrapper return.
WrapperReturns ==
    \A l \in Launches :
        []<>(client[l] \in {"zombie", "reaped"} \/ guardian[l] \in Gone \ {"absent"} =>
                owner[l] \in {"ended", "dead", "suspended"} \/ guardian[l] = "hung")

-----------------------------------------------------------------------------
(* The inductive invariant behind SettingsKept, StatusMeansDone,           *)
(* ClientGoneWithWrapper and AnchorKept.                                   *)

\* The steps of the guardian before there is a bootstrap.
BeforeSpawn == {"absent", "start", "payload", "root", "sweep", "mkdir", "lock", "write", "spawn"}

\* STATUSACK was sent to the guardian, or received.
Holds(queue, byte) == \E i \in 1 .. Len(queue) : queue[i] = byte
StatusAcked(l) == how[l] = "done" \/ Holds(toGuardian[l], "statusack")

\* A wrapper that acknowledged the status, or returned, has the terminal back;
\* one that returned has waited for its guardian.
WrapperOK(l) ==
    /\ owner[l] = "idle" => guardian[l] = "absent"
    /\ owner[l] = "ended" => ~GuardianUp(l)
    /\ owner[l] \in {"reap", "ended", "dead"} => ~fg[l]
    /\ StatusAcked(l) => owner[l] \in {"reap", "ended", "dead"}
    /\ result[l] = "status" => owner[l] = "ended" /\ guardian[l] = "exited0"

\* What the guardian's step says about its client and its directory.
ClientOK(l) ==
    /\ guardian[l] \in BeforeSpawn => client[l] = "none"
    /\ guardian[l] = "spawn" \/ Alive(l) => "settings" \in files[l]
    /\ guardian[l] = "statusack" => client[l] = "zombie"
    /\ guardian[l] \in {"terminate", "exited0", "exited1"} /\ Alive(l) => client[l] = "dying"
    /\ how[l] = "done" => client[l] \in {"zombie", "reaped"}
    /\ guardian[l] = "mark" \/ "released" \in files[l] => client[l] = "reaped"
    /\ guardian[l] = "exited0" => client[l] = "reaped"

\* A directory is removed before its client was started or after it was reaped,
\* and another launch's only after.
CleanOK(l) ==
    /\ guardian[l] \in {"clean", "drop"} =>
          /\ target[l] \in Launches
          /\ target[l] = l => client[l] \in {"none", "reaped"}
          /\ target[l] # l => client[l] = "none" /\ client[target[l]] = "reaped"
    /\ guardian[l] = "drop" => target[l] = l

\* A guardian that ended well has cleaned up to the end.
LeftOK(l) == guardian[l] = "exited0" => files[l] \subseteq left[l]

\* What the steps of wrapper and guardian rest on, without what a clean-up left.
Core == StateOK /\ \A l \in Launches : WrapperOK(l) /\ ClientOK(l) /\ CleanOK(l)

IInv == Core /\ TypeOK /\ \A l \in Launches : LeftOK(l)
=============================================================================
