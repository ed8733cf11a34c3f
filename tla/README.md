# Pentect: TLA+ models, checks and proofs

Pentect replaces secret values in what an AI coding client sends to a model
provider by *handles* and restores them locally when the model uses a handle in
a tool call. The promise is that a masked value never leaves raw, and that a
handle restores to exactly the value it stands for. This directory holds TLA+
models of the parts whose correctness depends on interleavings, failures and
order, the TLC runs that check them on small instances, and TLAPS proofs that
hold for every instance.

## 1. Inventory

Sources are under `src/crates/`: `pentect-core` (C), `pentect-runtime` (R) and
`pentect-cli` (L).

| Part | State it keeps | Operations | Hard behaviour | What makes it correct |
|---|---|---|---|---|
| Recovery map, renderer (C `recovery.rs`, `pipeline/render.rs`) | handle -> value | extend, resolve, remask, render | collisions across documents | a handle resolves to its own value, or to one that collides with it |
| Memory store (R `memory_store.rs`) | one map per session, counts, activity ring | SNAPSHOT, ADD, COUNT, LOG, LEASE over loopback TCP | timeouts, one retry, late duplicates, exit with the lease holder | stable and idempotent; what was emitted can be resolved |
| Session, output masker (R `session.rs`, `masking.rs`) | snapshot, own recoveries, pending ones | open, mask, record, flush, drop | publish before emit, live streams, crashes | nothing is emitted whose mapping is nowhere |
| Tool gateway (R `main.rs`) | output caches, recovery revision, transactions | mask a tool output, resolve tool inputs, commit | commit against cached answers, partial validation | known values stay masked; a rejected response publishes nothing |
| Provider proxies (L `*_http_proxy.rs`, `claude_app_proxy.rs`, `handle_recovery.rs`) | held text, held tool calls, the attempt's transaction | read an event, hold, validate, restore, commit, release, ask again | cut-off streams, refused batches, retries | a client gets all tool calls of a response or none; a cut-off answer says so |
| Plugin middleware (R `plugin_middleware.rs`) | enabled plugins, one process and lock per command plugin, budgets | prepare, run a chain, exchange, time out, host request | shared processes, late and stray answers, hangs | no call gets another call's answer; a plugin left out is reported |
| Unix supervisor, settings session (L `claude_unix_supervisor.rs`, `claude_settings_session.rs`) | wrapper, guardian, client, terminal, settings directories | launch, hand over, signal, report, reap, release, sweep | any process killed between two steps, job control, time limits | a client ends with its wrapper and keeps its settings file until it is reaped |
| File pointer manager (R `file_pointer_manager.rs`) | index of handles in files | register, recover | files that changed | rebuilds the same value or nothing |
| Delegated Process Host (R `delegated_process_host.rs`) | candidate files, host record | register, elect, invalidate, deliver, broadcast, leave | no lock: read-then-remove, create-then-write, kills | one record, handed over to a live store, live stores keep their files |
| Activity and diagnostic log (R `activity_log.rs`) | two bounded queues, two counters, batches, rotated files | record, combine, write, flush, rotate, follow, report metrics | full queues, failed writes, exit, several processes rotating | nothing is counted twice or lost uncounted; a flush is durable; nothing is shown twice |
| Store guard (L `main.rs`) | store child, lease | start, register, drop | the guard is killed | the store exits, its registration is cleaned up |
| Span merge, sweep (C `pipeline/`) | none | merge detector spans | overlap, nesting | deterministic, covers every span |
| Installer, plugins, updates (L `update.rs`, `plugins_cmd.rs`) | staged files, lock | install, roll back | crash between steps | old or new, never a mix |
| Detectors, parsers, normalisation (C) | none | find secrets in text | none across steps | recall and precision (corpora) |

Interaction: a client process launches a gateway (proxy) and a store guard; the
guard starts the store child, holds its lease and registers it as a candidate
host. The native client itself runs under a guardian that owns its settings
file. Hooks, `exec`, the gateway and image inspection open a session from the
store (one snapshot), mask, and publish new mappings with ADD; masking and the
proxies call the plugin chain. The proxies hand each response's tool calls to a
tool-input transaction of the gateway. Every process records activity: to the
log file through two writer threads, and to the elected host store so that
`pentect log` in any terminal can follow it.

`PROJECT.json` lists all components, the hazards with their source lines and the
properties that cover them, and the map from definitions to code.

## 2. Modules

| Module | Models | Proofs |
|---|---|---|
| `HandleDirectory` | abstract: what the store and its clients promise together | - |
| `HandleStore` | recovery maps, rendering of handles, sessions, the four maskers, the ADD request, the store's server; implements `HandleDirectory` | `HandleStoreProofs` |
| `ToolGateway` | the cached masking thread and the tool-input transactions of one gateway | `ToolGatewayProofs` |
| `ResponseGateway` | a model response on its way through the five provider surfaces | `ResponseGatewayProofs` |
| `PluginChain` | callers, command plugin processes and wasm plugins | `PluginChainProofs` |
| `ClientGuardian` | wrapper, guardian, client and the shared settings root on Unix | `ClientGuardianProofs` |
| `ProcessHost` | registration and election of the Delegated Process Host, delivery and broadcast | `ProcessHostProofs` |
| `ActivityLog` | the diagnostic writer, the log writer and `flush_persistent` of one process | `ActivityLogProofs` |
| `LogRotation` | the log file and its generations under several processes, the follower and the metrics report | `LogRotationProofs` |
| `MC*` | constants and symmetry of the runs (`LogRotation` needs none) | - |

Definitions marked "Mutant" in the modules are faulty variants of the definition
that follows them; no specification uses them.

### HandleDirectory and HandleStore
`HandleDirectory` is a directory that forgets nothing while it is up: `Publish`
binds handles to values whose hash they print (one value, unless several share
their compact hash), `HandOut` hands out text whose handles are bound, `Stop`
loses everything. `HandleStore` shows it with `bound` = the store's map, `up` =
the store runs and `told` = the text of operations that reported success.

In `HandleStore`, `store` is `MemoryStoreState.recovery`; `recoveries`,
`snapshot` and `pending` are a session's, a deferred masker's and a buffered
masker's maps. A recovery map is a total function to a value or `NoValue`.
Handles are abstract: a constant gives each value its compact handle (which may
collide) and its full one. Masking one document is one step up to the request:
the engine renders, the remask pass replaces known echoes, `NewMappings` is what
the render adds. The ADD request is its own state machine (`phase`): sent,
applied, answered or failed, at most two attempts; an attempt the client gave up
on stays in `stale` and may be applied at any later time. `Crash` is a process
that ends at any point, `StoreExit` the store that loses its lease.

A process has one masking thread, or the two of `exec --live` (stdout, stderr).
The two share the session and its one connection: an attempt holds the lock
(`LockFree`), and between a timeout and the dropping of the connection
(`TimesOut`) the other thread may send on it and read the late answer as its own
(`TakesLateAnswer`). A stream that fails to read or to mask returns before its
flush (`FailDeferred`): what it printed stays printed and its pending mappings
are gone. `stream` is what the thread's join will return.

Ghosts: `released` is all text emitted, `promised` the handles of operations that
reported success, `printed` what each live stream has printed (never cleared),
`mixed` the streams that took the other's answer.

### ToolGateway
A text is the set of secret values in it. A mask call takes the steps `lookup`
(cache hit or not), `render`, `record` and `finish`; the mutex makes it one call
at a time, but the transactions run on other threads and share `known` (the
session's recoveries) and `revision`. A transaction resolves inputs, may reject
one, and commits in three steps (sync, push, raise the revision), each of which
may fail. `OtherPublishes` is any other process that adds to the store.

### ResponseGateway
`surface` says which gateway answers: Claude Code (`messages`: the whole
response is collected, then judged and perhaps asked for again), Claude App
(`app`: the same transformer, no retry), OpenAI Responses and Chat Completions,
and Google's two (`google`: each event restored by itself). One upstream event
is one action; `sent` is what the provider sent, `buffer` the tool calls being
held, `held` the text that may become a handle, `ready` the frames produced,
`answer` what the client got. The transaction is `ToolGateway`'s, seen as open,
committed or failed. A size limit, a plugin or malformed input is a block that
is rejected at any moment.

Protocol assumptions: a text block is closed before a `tool_use` starts,
`response.completed` follows `output_text.done`, a call whose arguments are done
is itself done or listed in `response.completed`, and restoring output text is
switched on.

### PluginChain
A caller's step is `pc`; a plugin's `session` has the requests written to its
process and the lines it printed. The process is external: it answers requests
in order, prints lines nobody asked for (at most `MaxExtra`) or dies, at any
time. A payload is the list of replacements made to it, so that an answer that
reaches the wrong call is visible. A wasm plugin makes any of the requests `Asks`
of the host, up to `HostRequests` times. `host` is `WasmHostState` during one
invocation: the request whose answer is kept, with ghosts for which performance
an answer stems from (`answer`) and how the last request ended (`told`). An
answer that does not fit is kept, also the second time; the same request takes
it out, another one discards it; an answer that was handed over or lost in a
failed write is not kept. `Expire` is the chain's deadline.

### ClientGuardian
The three processes of a launch take the steps between two messages, waits or
file-system calls; `toGuardian` and `toOwner` are the socket pair. The
guardian's loop polls in one fixed order in the code; here its polls come in any
order, which only adds behaviours. A read with a time limit may time out, the
wrapper and the guardian may be killed between any two steps (`OwnerCrashes`,
`GuardianCrashes`), a guardian may hang and is then killed after the wrapper's
12 seconds. `cleanup_session` takes one entry after the other and may leave any
of them: its early returns (an unexpected name, a link, a loose mode) and the
removals whose errors it ignores. `left` is what the clean-up in progress left;
the session's own clean-up runs a second time when `Session` is dropped. Of the
launches outside `Starting` only the guardian is left, about to sweep.

### ProcessHost
Actors are guards and viewers. Every file-system operation, probe and delivery
is a step. A file is absent, empty (created and not yet written) or full; a
write reaches the file that was opened, so a file that was removed meanwhile
stays removed. `GuardDies` and `ViewerDies` end an actor between any two steps.
With `Faults` a probe or an add of a live store may fail and file operations may
return errors; in particular the read of a complete candidate file may fail, and
the file is then removed.

### ActivityLog
A line is the set of events it stands for, and a dropped counter the set of
events it still has to report: a dropped line adds one element because the code
adds 1. That makes "counted twice" and "lost uncounted" statements about sets.
The writers' swap of the counter and the write are two steps; a failing write
may have written some of the lines. If the diagnostic writer cannot be started
everything is recorded immediately: that is `Diagnostic = {}`.

### LogRotation
`path` says which file each generation's name stands for, `data` what every file
ever created holds. A writer checks the size, removes the oldest, renames one
generation at a time, opens the path and appends, each its own step; a rename,
the directory, the open or the write may fail. The follower's `read_new` is
split at its two looks at the path (open, compare, reopen, read). `read_metrics`
reads one generation per step from the oldest. A batch is one line and its
append is atomic.

## 3. Runs

| Run | Checks | Instance | States |
|---|---|---|---|
| `handle_store` | `ExactButForCollision`, `PromisedInStore`, `SessionInStore`, `LiveCovered`, `ImplementsDirectory`, `AddTerminates` | a process with two live streams and a process with one masker, 2 values that share their compact handle, 2 mask/resolve operations, one value also in a file | 302,908 |
| `handle_collision` (violation) | `ExactRecovery` | as above | - |
| `tool_gateway` | `KnownStaysMasked`, `CacheOrdered`, `OnlyValidatedPublished` | 3 values, 3 texts, cache of 1, 4 calls, 1 transaction | 680,673 |
| `tool_gateway_restored` (violation) | `RestoredStaysMasked` | as above, 2 calls | - |
| `response_gateway` | `WholeBatch`, `CutOffReported`, `TextKept`, `RetryForgets` | 5 surfaces, 3 tool calls, 9 events, the code's 2 and 4 retries | 886,329 |
| `plugin_chain` | `OwnAnswers`, `CoverageTold`, `Aligned`, `HostOnce`, `CallEnds`, types | 2 callers, an optional prewarmed command plugin, a required wasm plugin, 2 different host requests and 3 performances, 1 stray line | 407,428 |
| `plugin_restart` (violation) | `RestartedAfterWrongAnswer` | as above, 1 host request | - |
| `client_guardian` | `ClientGoneWithWrapper`, `SettingsKept`, `StatusMeansDone`, `AnchorKept`, `ClientEndsWithWrapper`, `WrapperReturns`, types | 1 launch that goes through its whole life with 2 interrupts or stops, 1 other that sweeps the same root | 447,726 |
| `process_host` | `RecordNeverOverwritten`, `OperationEnds` | 1 store, 1 viewer with all operations, the code's 3 attempts, faults | 40,619 |
| `host_hand_over` | `HandOver` | 2 stores, 1 of them registered, 1 viewer that elects, sends and broadcasts, 2 attempts, kills | 774,405 |
| `activity_log` | `OnePlace`, `FlushDurable`, `OnlyMergedVanish`, `Settles`, types | 3 events, 2 of them repeats, queues of 1, batches of 2, failing writes | 329,660 |
| `log_rotation` | `SizeBounded`, `FollowedOnce`, `CountedOnce`, `OldestOnly`, `FollowerCatchesUp` | 2 writers, 3 lines, files of 1 line, 2 older generations, failing renames and writes | 314,376 |

Why the bounds are enough. Overwriting and stale snapshots need two values and
two processes, a collision inside a document and across documents two values
that share their hash, the window of the shared connection the two streams of
one process; a retried request that is overtaken by a newer one needs two
operations. A cache of one entry is at its limit after the first call, and a
stale answer needs a call before and a call after a commit. A part of a batch
needs two tool calls, and a third one is still open while one is done and one is
refused; nine events hold three calls with their ends, text before them and the
terminal event. A desynchronised plugin process needs one caller that left and
one that comes after it; a host request that is repeated, with another one in
between, needs two different requests and three performances. An interrupt
counts as a second one within two seconds, so two signals reach every branch; a
sweep that meets another launch needs a second guardian on the root. A race on
the host record needs two actors at different steps, a hand-over two stores, and
a second attempt shows that attempts are counted; the three of `process_host`
are the code's. Queues of one entry are full after one event; a third event
meets the full queue while two are on their way. With files of one line every
further line rotates: two overlapping rotations and a lost oldest generation
need three lines and two older names. `MaxOps`, `MaxCalls`, `MaxEvents`,
`MaxExtra`, `MaxSignals`, `Starting` and the set `Lines` are the bounds on
behaviours; the rest is bounded by the code's own limits.

The handle-store and tool-gateway runs switch deadlock checking off: a process
that has used up its operations, its calls and its transaction stops.

### Fairness
- `HandleStore`: weak fairness of the request step of each thread. Connect, read
  and write have timeouts (`REQUEST_TIMEOUT`) and the connection's lock is held
  for one attempt only, so a request under way moves.
- `PluginChain`: weak fairness of each caller's own steps and of its deadline.
  Nothing is assumed of plugins: they may hang.
- `ClientGuardian`: weak fairness of the wrapper's and the guardian's steps (both
  poll every 10 ms or block on a socket the other's end closes) and of the end
  of a process that was sent SIGKILL. A client never has to end by itself, and a
  killed or hung guardian owes nothing.
- `ProcessHost`: weak fairness of an operation under way and of a guard that
  registers or leaves (probes, adds and sleeps are bounded), and viewers keep
  asking. Nothing forces a guard to leave or a store to start.
- `ActivityLog`: both writers and flushing callers are running threads. Nothing
  is assumed of the diagnostic writer's poll time-out, which happens only when no
  message came for 250 ms: `Settles` has it as a premise, per key (`Pauses`).
- `LogRotation`: weak fairness of the follower, which polls for ever; writers and
  the metrics report may stop anywhere.

### What the violations show
Each is a difference between the code and what a document of the repository
says; `PROJECT.json` quotes both.
- Two values with one compact handle that are masked in two documents both get
  that handle: `masked_seg` sees one render and `extend_same_key` overwrites. The
  first document's handle then resolves to the second value, although
  `handles.md` says that a collision preserves exact recovery.
  `ExactButForCollision`, checked and proved, is what remains.
- A value that only another process published is restored into a tool input, but
  the remask pass of the next tool output does not know it.
- A command plugin's process that answered with invalid JSON or a wrong id is
  kept: the answer is parsed after the exchange has succeeded and only a failed
  exchange stops the process. `OwnAnswers` still holds, because ids are compared.

### Limits of the code known from reading
These have no run of their own.
- When a live stream's request times out, the other stream may send on the same
  connection before it is dropped and read the late answer as its own
  (`memory_store.rs:428`): it then reports success for mappings that may be lost.
  The properties of `HandleStore` except that stream (`mixed`).
- The comment at `delegated_process_host.rs:254-257` says that only a confirmed
  exit of its process permits removing a peer's candidate file. That holds of a
  failed probe. A reader, however, removes a file it cannot read, because it is
  being written or for any other reason (367), and a broadcast removes that of a
  store whose delivery failed (112). The model does the same; no property says
  that a live store keeps its file, and `HandOver` is about one that does.
- `troubleshooting.md:307-310` says that repeated diagnostics are combined into
  one entry every five seconds. The batch is drained only when no message arrives
  for the poll interval (`activity_log.rs:1347`), so a steady stream of
  diagnostics holds it back for as long as it lasts. `Settles` therefore has the
  pauses as a premise.
- One host answer is kept for a wasm plugin (`plugin_middleware.rs:2484`). A guest
  that is told its buffer is too small, makes another request and then repeats
  the first has it performed a second time; `HostOnce` says exactly when.
- A returned status does not mean that the settings directory is gone: the
  clean-up leaves what looks unsafe and ignores failing removals, as the
  repository's tests want it. `StatusMeansDone` says that nothing else is left.
- A guardian that hangs and is killed by the wrapper's own deadline counts as
  lost; what it leaves running is outside `ClientGoneWithWrapper`.
- `KnownStaysMasked` is about values that completed calls masked or a transaction
  committed. What a failing call recorded before it failed stays in the session,
  but nothing is promised about it.
- A combined entry that meets a full log queue is counted as one drop
  (`activity_log.rs:1399`), so the number that `troubleshooting.md:315-316`
  speaks of is too small; `OnlyMergedVanish` says that only merged ones vanish.
- An optional plugin that fails its startup probe is taken out of the chain with
  a line on standard error (`plugin_middleware.rs:421-428`); later calls report
  full coverage, as `CoverageTold` says with `enabled`.
- Lines appended to a rotated file after the follower left it are not shown;
  `FollowerCatchesUp` speaks of the file that the path names. The bounded read
  of `pentect log --once` may repeat or omit lines, as `troubleshooting.md:294`
  says.
- ADD_COUNT and LOG_ADD are retried although they are not idempotent, and a
  masked-value count that fails to be sent is not sent again. Both serve the
  display only, and no promise is made about them.

## 4. Proofs

All theorems hold for every value of the constants allowed by the named
assumptions (sets of any size, any limits). Each module proves
`Init => IInv`, `IInv /\ [Next]_vars => IInv'` and derives the rest. The inductive
invariants are stated at the end of the component's module. Every invariant and
every step property that a passing run checks is also a theorem.

- **HandleStoreProofs.** `IInv` is `TypeOK` with: *Genuine* (every mapping kept
  or carried anywhere binds a handle to a value whose own handle it is), *Quiet*
  (what a thread holds between requests), *Apart* (only live streams share a
  process, so only they meet the connection's window) and *Backed* (while the
  store runs, what was promised is in the store, and what a session holds, a
  request carries or a stream printed is in the store, the pending map or the
  request, or its stream ends in an error). The properties alone are not
  inductive: a promise is kept because the request that carried it was applied,
  possibly twice and late. Results: `TypeCorrect`, `PublishBeforeEmit`,
  `SessionBehindStore`, `LiveStreamCovered`, `ConfusionNeedsCollision` (*Genuine*
  confines a wrong resolution to two values with one compact handle; full handles
  are exact), `StoreStability` (the store forgets nothing and rebinds only among
  colliding values) and the refinement `StoreImplementsDirectory`: initial states
  map to initial states, and every step to a step of the directory or a stutter.
  None of them assumes anything about compact handles; full-width ones are taken
  as collision free (`FullAssumption`).
- **ToolGatewayProofs.** `IInv` adds *ProtectedKnown* (what was masked or
  committed is known to the remask pass), *Fresh* (while no commit is
  unobserved, no cached text shows a protected value) and *CallSafe* (the call
  in progress cannot return what was due before it began). `CacheOrdered` rests
  on a second invariant, *Listed*: each cache's order names every entry once, so
  that its length is their number and dropping the head drops one entry; the
  counting uses the library's facts on finite sets. Results: `TypeCorrect`,
  `NeverRawAgain`, `RejectedPublishesNothing`, `CachesStayOrdered`.
- **ResponseGatewayProofs.** `IInv` adds *Held* (while a response is read, each
  surface's own bookkeeping of active, completed and buffered calls agrees with
  what the model began and ended, and nothing of a call is in `ready` except on
  Google's surfaces), *Judged* (a response that is about to be judged well has
  the whole batch or nothing, committed where the surface commits early) and
  *Idle*. `WholeBatch` alone says nothing about buffers. `TextKept` needs to know
  where text waits: *TextsHeld* says that the text in the frames produced, then
  the text behind the held calls, then the text that may start a handle are all
  text so far, in order, and which of these places is empty on which surface;
  *TextsJudged* carries that to the verdict. Every action moves text from one of
  the places to the one before it, which is associativity of concatenation.
  Results: `TypeCorrect`, `BatchesAreWhole`, `CutOffsAreReported`,
  `RetriesForget`, `TextIsKept`, for any number of tool calls, events and
  retries.
- **ProcessHostProofs.** `IInv` adds *SeenStore*, *OpKept* and *OwnFile* (a
  candidate file is complete only after its own guard wrote it). Results:
  `TypeCorrect` and `OneRecord` (a host record is never replaced in place), for
  any number of stores, viewers and attempts, with faults.
- **LogRotationProofs.** `IInv` adds *Steps*, *WrittenOnce* (a line is to be
  taken, in one writer's hands or at one place of one file), *OneName* (a file
  has at most one name), *CountedBehind* and *ShownBehind* (what a reader has
  behind it is not in front of it again: files only move to older names).
  `RotationInv` is proved on top of it. *RoomLeft* is a counting argument: a
  writer that is bound for a file (it passed the size check or has the file open)
  is counted as if it had appended; a writer becomes bound only for a file that
  is under the limit or new, or for the file that takes the path's name, and its
  own append turns one bound writer into one line. *Undisturbed* says that a
  rotation flagged clean is alone and that its next target name is free. Results:
  `TypeCorrect`, `NothingFollowedTwice`, `NothingCountedTwice`,
  `RotationInvariance`, `FilesStayBounded`, `RotationCostsOldest`, for any number
  of writers, lines and generations (the size bound for finitely many writers).
- **ActivityLogProofs.** `IInv` adds *LinesApart* (lines share no event and a
  message is an entry or a flush), *WriterSteps* and *FlushSides*. The last one
  follows a flush: nothing recorded before it comes after its message in a
  channel (*Behind*), while the writer works on it nothing of it is left in the
  channel or the batch, and once acknowledged nothing comes back. The persistent
  writer's side (*LogSide*) holds for callers that did not time out, and needs
  the diagnostic side to be acknowledged first: the order in `flush_persistent`.
  Results: `TypeCorrect`, `EventsInOnePlace`, `AnsweredFlushIsDurable` and the
  step property `OnlyMergedEventsVanish`, for any callers, events, keys and
  capacities.
- **PluginChainProofs.** `IInv` adds *CallOK* and *CoverOK* (a payload comes
  from the caller's own request and from earlier plugins; every plugin that was
  passed over is accounted for), *LockOK* (a process's lock is held from before
  the write until the answer; every message is whole) and *Exchange* (with one
  line per request, a process that nobody waits for has nothing under way, and
  one that is waited for has either the request or its answer, as the next
  line). *HostOK* says that an answer is kept exactly when the last request was
  told that its buffer is too small, and for that request. `OwnAnswers` follows
  from the comparison of ids and needs nothing of the plugin; `Aligned` is what
  the lock and the stop after a failed exchange add. Results: `TypeCorrect`,
  `AnswersAreOwn`, `CoverageIsTold`, `ProcessesStayAligned`, `HostRequestsOnce`,
  for any callers and plugins.
- **ClientGuardianProofs.** `IInv` adds, for each launch, *WrapperOK* (an
  acknowledged status means the terminal is back, a returned wrapper has waited
  for its guardian), *ClientOK* (what the guardian's step says about the client
  and its directory: in particular a `released` marker only after the client was
  reaped), *CleanOK* (whose directory is being removed, and that its client was
  reaped) and *LeftOK* (a guardian that ended well went through its clean-up:
  what is on disk is what it left). A sweep is safe because of the marker, not
  because of who sweeps. Results: `TypeCorrect`, `LivingClientsKeepSettings`,
  `WrapperTakesClient`, `ReturnedStatusMeansDone` and the step property
  `AnchorIsKept`, for any number of launches and signals.

Only model-checked: liveness (`AddTerminates`, `CallEnds`,
`ClientEndsWithWrapper`, `WrapperReturns`, `HandOver`, `OperationEnds`,
`Settles`, `FollowerCatchesUp`), since fairness and ENABLED are outside the
prover; and the three properties that the code violates.

## 5. Not modelled

- Detectors, parsers and normalisation, by far the largest part of the source:
  pure functions of text (regular expressions, checksums, formats, learned
  filters) checked by the repository's corpora. A model of them would be a
  transliteration, and no property of them is about states.
- The request side of the proxies (masking of prompts, uploads, remote content)
  is JSON traversal around `OutputMasker`, whose protocol is in `HandleStore`.
- Image inspection, handle views, shell parsing and the sandbox: text, pixels and
  operating-system calls. Image inspection appears as a foreign publisher.
- The Windows supervisor and the execution boundary rest on job objects and
  system policies.
- Launchers, configuration, process hardening and packaging have little state of
  their own.
- The text of handles, logs and messages is abstracted everywhere.

## 6. Plan

1. Proofs: further results that no run states, such as what an answered
   delivery of `ProcessHost` says about the host it reached.
2. `PluginInstall` (L `plugins_cmd.rs`, `update.rs`): staging, lock file and
   rollback across crashes.
3. `FilePointerIndex`: registration, change detection and bounded recovery.
4. `SpanMerge` and the streaming remasker against a reference definition.
5. `ActivityFeed`: the store's activity ring and the viewers' polling across host
   changes.
