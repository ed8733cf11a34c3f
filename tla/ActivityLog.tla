----------------------------- MODULE ActivityLog -----------------------------
(***************************************************************************)
(* The diagnostic logger of one process: any thread records an event, the  *)
(* diagnostic writer combines repeated warnings, the persistent-log writer *)
(* writes batches to pentect.log, and flush_persistent waits for both      *)
(* before the process ends.  Both queues are bounded and recording never   *)
(* blocks, so events may be dropped; each writer's counter says how many.  *)
(*                                                                         *)
(* A line is the set of events it stands for: one event, the repeats that  *)
(* were combined into one entry, or the drops an overflow report counts.   *)
(* A dropped counter is the set of events it still has to report, one per  *)
(* unit of its value; a dropped line adds 1 whatever it stands for, that   *)
(* is, one of its events.                                                  *)
(***************************************************************************)
EXTENDS Naturals, Sequences, FiniteSets

CONSTANTS
    Events,        \* what the process records, each at most once
    Diagnostic,    \* the warnings and diagnostics among them
    Keys, KeyOf,   \* DiagnosticKey: equal keys are combined into one entry
    Callers,       \* calls of flush_persistent
    DiagCapacity,  \* DIAGNOSTIC_CHANNEL_CAPACITY
    LogCapacity,   \* LOG_CHANNEL_CAPACITY
    BatchEvents,   \* LOG_BATCH_EVENTS
    None

ASSUME EventsAssumption ==
    Diagnostic \subseteq Events /\ KeyOf \in [Events -> Keys] /\ None \notin Callers
ASSUME CapacityAssumption ==
    DiagCapacity \in Nat \ {0} /\ LogCapacity \in Nat \ {0} /\ BatchEvents \in Nat \ {0}

VARIABLES
    recorded,     \* events recorded so far
    diagQueue,    \* the diagnostic writer's channel
    diagDropped,  \* its counter
    pending,      \* DiagnosticBatch: key -> the repeats combined so far
    diagPc, drain, diagAck,  \* the diagnostic writer: step, lines in hand, caller
    logQueue, logDropped,    \* the persistent writer's channel and counter
    batch, logPc, logAck,    \* the persistent writer: batch, step, caller
    file,         \* events that pentect.log shows, as an entry or in a report
    failed,       \* ghost: events of a line whose write failed
    call,         \* flush_persistent: each caller's step
    before,       \* what had been recorded when its flush began
    acked,        \* the acknowledgements its channels received
    late          \* callers that gave up waiting

diagVars == <<diagQueue, diagDropped, pending, diagPc, drain, diagAck>>
disk == <<file, failed>>
logVars == <<logQueue, logDropped, batch, logPc, logAck, disk>>
callVars == <<call, before, acked, late>>
vars == <<recorded, diagVars, logVars, callVars>>

Entry(line) == [line |-> line, flush |-> None]
FlushFor(c) == [line |-> {}, flush |-> c]
Messages == [line : SUBSET Events, flush : Callers \cup {None}]

\* What a counter remembers of a line it counts.
OneOf(line) == CHOOSE e \in line : TRUE

Init ==
    /\ recorded = {}
    /\ diagQueue = <<>> /\ diagDropped = {} /\ pending = [k \in Keys |-> {}]
    /\ diagPc = "recv" /\ drain = {} /\ diagAck = None
    /\ logQueue = <<>> /\ logDropped = {}
    /\ batch = <<>> /\ logPc = "recv" /\ logAck = None
    /\ file = {} /\ failed = {}
    /\ call = [c \in Callers |-> "idle"]
    /\ before = [c \in Callers |-> {}]
    /\ acked = [c \in Callers |-> {}]
    /\ late = {}
-----------------------------------------------------------------------------
(* Recording: try_send, and a full channel counts the line instead.         *)

\* Mutant: one entry more than the channel holds.
LogEnqueueOver(line) ==
    IF Len(logQueue) <= LogCapacity
    THEN logQueue' = Append(logQueue, Entry(line)) /\ UNCHANGED logDropped
    ELSE logDropped' = logDropped \cup {OneOf(line)} /\ UNCHANGED logQueue

LogEnqueue(line) ==
    IF Len(logQueue) < LogCapacity
    THEN logQueue' = Append(logQueue, Entry(line)) /\ UNCHANGED logDropped
    ELSE logDropped' = logDropped \cup {OneOf(line)} /\ UNCHANGED logQueue

DiagEnqueue(e) ==
    IF Len(diagQueue) < DiagCapacity
    THEN diagQueue' = Append(diagQueue, Entry({e})) /\ UNCHANGED diagDropped
    ELSE diagDropped' = diagDropped \cup {e} /\ UNCHANGED diagQueue

RecordDiagnostic(e) ==
    /\ e \in Diagnostic \ recorded
    /\ recorded' = recorded \cup {e}
    /\ DiagEnqueue(e)
    /\ UNCHANGED <<pending, diagPc, drain, diagAck, logVars, callVars>>

RecordImmediate(e) ==
    /\ e \in Events \ (Diagnostic \cup recorded)
    /\ recorded' = recorded \cup {e}
    /\ LogEnqueue({e})
    /\ UNCHANGED <<diagVars, batch, logPc, logAck, disk, callVars>>
-----------------------------------------------------------------------------
(* diagnostic_writer_loop                                                   *)

DiagPush ==
    /\ diagPc = "recv" /\ diagQueue # <<>> /\ Head(diagQueue).flush = None
    /\ LET line == Head(diagQueue).line
       IN  pending' = [k \in Keys |->
                         pending[k] \cup {e \in line : KeyOf[e] = k}]
    /\ diagQueue' = Tail(diagQueue)
    /\ UNCHANGED <<recorded, diagDropped, diagPc, drain, diagAck, logVars, callVars>>

\* Takes the entries of the keys K out of the batch.
Drain(K) ==
    /\ drain' = {pending[k] : k \in K} \ {{}}
    /\ pending' = [k \in Keys |-> IF k \in K THEN {} ELSE pending[k]]
    /\ diagPc' = "drain"

\* Mutant: a flush drains only what has expired (force is ignored).
DiagFlushLazy ==
    /\ diagPc = "recv" /\ diagQueue # <<>> /\ Head(diagQueue).flush # None
    /\ \E K \in SUBSET Keys : Drain(K)
    /\ diagAck' = Head(diagQueue).flush
    /\ diagQueue' = Tail(diagQueue)
    /\ UNCHANGED <<recorded, diagDropped, logVars, callVars>>

DiagFlush ==
    /\ diagPc = "recv" /\ diagQueue # <<>> /\ Head(diagQueue).flush # None
    /\ Drain(Keys)
    /\ diagAck' = Head(diagQueue).flush
    /\ diagQueue' = Tail(diagQueue)
    /\ UNCHANGED <<recorded, diagDropped, logVars, callVars>>

\* Mutant: the poll reports drops and leaves expired entries in the batch.
DiagTimeoutIdle(K) ==
    /\ diagPc = "recv" /\ diagQueue = <<>>
    /\ Drain({})
    /\ diagAck' = None
    /\ UNCHANGED <<recorded, diagQueue, diagDropped, logVars, callVars>>

\* No message for the poll interval: the keys whose window has passed.
DiagTimeout(K) ==
    /\ diagPc = "recv" /\ diagQueue = <<>>
    /\ Drain(K)
    /\ diagAck' = None
    /\ UNCHANGED <<recorded, diagQueue, diagDropped, logVars, callVars>>

\* record_immediate of one line in hand.
DiagHandOver(line) ==
    /\ line \in drain
    /\ LogEnqueue(line)
    /\ drain' = drain \ {line}
    /\ UNCHANGED <<recorded, diagQueue, diagDropped, pending, diagPc, diagAck,
                   batch, logPc, logAck, disk, callVars>>

\* All entries handed over: swap the counter, and report it if it was not zero.
DiagSwap ==
    /\ diagPc = "drain" /\ drain = {}
    /\ drain' = {diagDropped} \ {{}}
    /\ diagDropped' = {}
    /\ diagPc' = "report"
    /\ UNCHANGED <<recorded, diagQueue, pending, diagAck, logVars, callVars>>

\* The acknowledgement: a caller that has gone away does not receive it.
Acknowledge(c, channel) ==
    acked' = [d \in Callers |-> acked[d] \cup (IF d = c THEN {channel} ELSE {})]

DiagDone ==
    /\ diagPc = "report" /\ drain = {}
    /\ diagPc' = "recv" /\ diagAck' = None
    /\ Acknowledge(diagAck, "diag")
    /\ UNCHANGED <<recorded, diagQueue, diagDropped, pending, drain, logVars,
                   call, before, late>>

DiagStep == DiagPush \/ DiagFlush \/ DiagSwap \/ DiagDone
            \/ \E line \in drain : DiagHandOver(line)
-----------------------------------------------------------------------------
(* log_writer_loop                                                          *)

\* An entry; the batch is flushed when it is full, by events or by bytes.
LogPush ==
    /\ logPc = "recv" /\ logQueue # <<>> /\ Head(logQueue).flush = None
    /\ batch' = Append(batch, Head(logQueue).line)
    /\ logPc' \in IF Len(batch') >= BatchEvents THEN {"swap"} ELSE {"recv", "swap"}
    /\ logQueue' = Tail(logQueue)
    /\ UNCHANGED <<recorded, diagVars, logDropped, logAck, disk, callVars>>

LogFlush ==
    /\ logPc = "recv" /\ logQueue # <<>> /\ Head(logQueue).flush # None
    /\ logAck' = Head(logQueue).flush
    /\ logPc' = "swap"
    /\ logQueue' = Tail(logQueue)
    /\ UNCHANGED <<recorded, diagVars, logDropped, batch, disk, callVars>>

\* The flush interval passed; with an empty batch the writer just blocks.
LogTimeout ==
    /\ logPc = "recv" /\ logQueue = <<>> /\ batch # <<>>
    /\ logPc' = "swap"
    /\ UNCHANGED <<recorded, diagVars, logQueue, logDropped, batch, logAck, disk, callVars>>

LogSwap ==
    /\ logPc = "swap"
    /\ batch' = IF logDropped = {} THEN batch ELSE Append(batch, logDropped)
    /\ logDropped' = {}
    /\ logPc' = "write"
    /\ UNCHANGED <<recorded, diagVars, logQueue, logAck, disk, callVars>>

Shown(lines) == UNION {lines[i] : i \in DOMAIN lines}

LogWritten ==
    /\ logPc' = "recv" /\ logAck' = None
    /\ Acknowledge(logAck, "log")
    /\ UNCHANGED <<recorded, diagVars, logQueue, call, before, late>>

\* Mutant: the counter is zeroed after the write instead of swapped before it.
LogWriteResets ==
    /\ logPc = "write"
    /\ file' = file \cup Shown(batch)
    /\ batch' = <<>>
    /\ logDropped' = {}
    /\ UNCHANGED failed
    /\ LogWritten

LogWrite ==
    /\ logPc = "write"
    /\ file' = file \cup Shown(batch)
    /\ batch' = <<>>
    /\ UNCHANGED <<logDropped, failed>>
    /\ LogWritten

\* Mutant: a failed batch is counted as dropped and kept.
LogWriteFailsKeeps ==
    /\ logPc = "write" /\ batch # <<>>
    /\ \E n \in 0..(Len(batch) - 1) : file' = file \cup Shown(SubSeq(batch, 1, n))
    /\ logDropped' = logDropped \cup {OneOf(batch[i]) : i \in DOMAIN batch}
    /\ failed' = failed \cup Shown(batch)
    /\ UNCHANGED batch
    /\ LogWritten

\* Preparing, opening or writing the file fails, perhaps after some lines.
LogWriteFails ==
    /\ logPc = "write" /\ batch # <<>>
    /\ \E n \in 0..(Len(batch) - 1) : file' = file \cup Shown(SubSeq(batch, 1, n))
    /\ logDropped' = logDropped \cup {OneOf(batch[i]) : i \in DOMAIN batch}
    /\ failed' = failed \cup Shown(batch)
    /\ batch' = <<>>
    /\ LogWritten

LogStep == LogPush \/ LogFlush \/ LogTimeout \/ LogSwap \/ LogWrite \/ LogWriteFails
-----------------------------------------------------------------------------
(* flush_persistent: the diagnostic writer first, then the log writer.  The  *)
(* send blocks while the channel is full, the wait ends after five seconds.  *)

FlushBegin(c) ==
    /\ call[c] = "idle"
    /\ call' = [call EXCEPT ![c] = "diagSend"]
    /\ before' = [before EXCEPT ![c] = recorded]
    /\ UNCHANGED <<recorded, diagVars, logVars, acked, late>>

FlushDiagSend(c) ==
    /\ call[c] = "diagSend" /\ Len(diagQueue) < DiagCapacity
    /\ diagQueue' = Append(diagQueue, FlushFor(c))
    /\ call' = [call EXCEPT ![c] = "diagWait"]
    /\ UNCHANGED <<recorded, diagDropped, pending, diagPc, drain, diagAck, logVars,
                   before, acked, late>>

FlushLogSend(c) ==
    /\ call[c] = "logSend" /\ Len(logQueue) < LogCapacity
    /\ logQueue' = Append(logQueue, FlushFor(c))
    /\ call' = [call EXCEPT ![c] = "logWait"]
    /\ UNCHANGED <<recorded, diagVars, logDropped, batch, logPc, logAck, disk,
                   before, acked, late>>

Waits(c) == (call[c] = "diagWait" /\ "diag" \notin acked[c])
            \/ (call[c] = "logWait" /\ "log" \notin acked[c])

AfterWait(c) == [call EXCEPT ![c] = IF @ = "diagWait" THEN "logSend" ELSE "done"]

FlushReturns(c) ==
    /\ call[c] \in {"diagWait", "logWait"} /\ ~Waits(c)
    /\ call' = AfterWait(c)
    /\ UNCHANGED <<recorded, diagVars, logVars, before, acked, late>>

FlushTimesOut(c) ==
    /\ Waits(c)
    /\ call' = AfterWait(c)
    /\ late' = late \cup {c}
    /\ UNCHANGED <<recorded, diagVars, logVars, before, acked>>

CallStep(c) == FlushDiagSend(c) \/ FlushLogSend(c) \/ FlushReturns(c) \/ FlushTimesOut(c)
-----------------------------------------------------------------------------
Next ==
    \/ \E e \in Events : RecordDiagnostic(e) \/ RecordImmediate(e)
    \/ DiagStep
    \/ \E K \in SUBSET Keys : DiagTimeout(K)
    \/ LogStep
    \/ \E c \in Callers : FlushBegin(c) \/ CallStep(c)

Spec == Init /\ [][Next]_vars

\* Both writers and the callers are threads that run.  Nothing makes the poll
\* time out: every diagnostic that arrives restarts its interval.
Fairness ==
    /\ WF_vars(DiagStep) /\ WF_vars(LogStep)
    /\ \A c \in Callers : WF_vars(CallStep(c))

FairSpec == Spec /\ Fairness
-----------------------------------------------------------------------------
Combined == UNION {pending[k] : k \in Keys}
Queued(q) == UNION {q[i].line : i \in DOMAIN q}

\* Where an event may be while the process still holds it.
Places == <<Queued(diagQueue), diagDropped, Combined, UNION drain,
            Queued(logQueue), logDropped, Shown(batch)>>

InMemory == Shown(Places)

TypeOK ==
    /\ recorded \subseteq Events
    /\ diagQueue \in Seq(Messages) /\ Len(diagQueue) <= DiagCapacity
    /\ logQueue \in Seq(Messages) /\ Len(logQueue) <= LogCapacity
    /\ diagDropped \subseteq recorded /\ logDropped \subseteq recorded
    /\ pending \in [Keys -> SUBSET recorded]
    /\ diagPc \in {"recv", "drain", "report"} /\ logPc \in {"recv", "swap", "write"}
    /\ drain \subseteq (SUBSET recorded) \ {{}}
    /\ diagAck \in Callers \cup {None} /\ logAck \in Callers \cup {None}
    /\ batch \in Seq(SUBSET recorded) /\ Len(batch) <= BatchEvents + 1
    /\ file \subseteq recorded /\ failed \subseteq recorded
    /\ call \in [Callers -> {"idle", "diagSend", "diagWait", "logSend", "logWait", "done"}]
    /\ before \in [Callers -> SUBSET recorded]
    /\ acked \in [Callers -> SUBSET {"diag", "log"}]
    /\ late \subseteq Callers

\* No event is written or counted twice: it is in one place of the pipeline, in
\* one line of it, and gone from memory once the file shows it (a write that
\* fails part-way is the exception: its lines count as dropped).
OnePlace ==
    /\ \A i, j \in DOMAIN Places : i # j => Places[i] \cap Places[j] = {}
    /\ \A i, j \in DOMAIN batch : i # j => batch[i] \cap batch[j] = {}
    /\ file \cap InMemory \subseteq failed

\* A flush that was answered leaves nothing behind: what was recorded before it
\* has left the queues, the diagnostic batch and counter and the lines in hand
\* for good, and nothing of it is in memory unless its write failed.
FlushDurable ==
    \A c \in Callers : call[c] = "done" /\ c \notin late =>
        /\ before[c] \cap (Queued(diagQueue) \cup diagDropped \cup Combined
                           \cup (UNION drain) \cup Queued(logQueue)) = {}
        /\ before[c] \cap InMemory \subseteq failed

\* An event disappears only together with others of its line, when the line is
\* dropped or its write fails and one unit is counted for all of them; a line
\* that stands for one event is never lost without being counted.
OnlyMergedVanish ==
    [][\A e \in (file \cup InMemory) \ (file' \cup InMemory') :
          \E line \in drain \cup {batch[i] : i \in DOMAIN batch} :
             e \in line /\ line \cap logDropped' # {}]_vars

\* Again and again no diagnostic arrives for a whole poll interval, at a time
\* when the window of the key k has passed.  A steady stream never pauses.
Pauses(k) == []<><<\E K \in SUBSET Keys : k \in K /\ DiagTimeout(K)>>_vars

\* Every event leaves the process's memory: it is written, reported or dropped.
\* An immediate event does so whatever else is recorded, a combined diagnostic
\* when the stream of diagnostics pauses.  Only after a failed write may it stay
\* in the counter, which is not reported before another entry is written.
Settles ==
    \A e \in Events : (e \in Diagnostic => Pauses(KeyOf[e])) =>
        (e \in recorded ~> (e \notin InMemory \/ e \in failed))
-----------------------------------------------------------------------------
(* The inductive invariant behind OnePlace and FlushDurable.                *)

\* A message is an entry or a flush, and no two entries share an event.
QueueOK(q) ==
    /\ \A i \in DOMAIN q : q[i].line = {} <=> q[i].flush # None
    /\ \A i, j \in DOMAIN q : i # j => q[i].line \cap q[j].line = {}

\* Lines are not empty and share no event, and combined events have their key.
LinesApart ==
    /\ QueueOK(diagQueue) /\ QueueOK(logQueue)
    /\ Queued(diagQueue) \cup Queued(logQueue) \subseteq recorded
    /\ \A line, other \in drain : line # other => line \cap other = {}
    /\ \A i \in DOMAIN batch : batch[i] # {}
    /\ \A k \in Keys : \A e \in pending[k] : KeyOf[e] = k

\* Between messages a writer has nothing in hand, and its batch is not full.
WriterSteps ==
    /\ diagPc = "recv" => drain = {} /\ diagAck = None
    /\ logPc = "recv" => logAck = None /\ Len(batch) < BatchEvents
    /\ logPc = "swap" => Len(batch) <= BatchEvents

\* No event of E, what was recorded before the flush c, comes after c's message.
Behind(q, c, E) ==
    \A i, j \in DOMAIN q : i < j /\ q[i].flush = c => q[j].line \cap E = {}

\* The channel holds a flush of c.
Asks(q, c) == \E i \in DOMAIN q : q[i].flush = c

\* The diagnostic writer's side of a flush: behind the message, then while the
\* forced drain is handed over, and for good once it is acknowledged.
DiagSide(c) ==
    /\ Behind(diagQueue, c, before[c])
    /\ diagAck = c => /\ before[c] \cap (Queued(diagQueue) \cup Combined) = {}
                      /\ diagPc = "report" => before[c] \cap diagDropped = {}
    /\ "diag" \in acked[c] =>
          before[c] \cap (Queued(diagQueue) \cup diagDropped \cup Combined
                          \cup (UNION drain)) = {}
    /\ call[c] = "idle" => /\ acked[c] = {} /\ diagAck # c /\ logAck # c
                           /\ ~Asks(diagQueue, c) /\ ~Asks(logQueue, c)

\* The persistent writer's side, for a caller that did not give up waiting.
LogSide(c) ==
    /\ call[c] \in {"logSend", "logWait", "done"} => "diag" \in acked[c]
    /\ call[c] = "done" => "log" \in acked[c]
    /\ call[c] \notin {"logWait", "done"} =>
          logAck # c /\ "log" \notin acked[c] /\ ~Asks(logQueue, c)
    /\ Behind(logQueue, c, before[c])
    /\ logAck = c => /\ before[c] \cap Queued(logQueue) = {}
                     /\ logPc = "write" => before[c] \cap logDropped = {}
    /\ "log" \in acked[c] =>
          /\ before[c] \cap Queued(logQueue) = {}
          /\ before[c] \cap (logDropped \cup Shown(batch)) \subseteq failed

FlushSides == \A c \in Callers : DiagSide(c) /\ (c \notin late => LogSide(c))

IInv == TypeOK /\ OnePlace /\ LinesApart /\ WriterSteps /\ FlushSides
=============================================================================
