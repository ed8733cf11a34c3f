--------------------------- MODULE ResponseGateway ---------------------------
(***************************************************************************)
(* One model request through a provider gateway: the response is read,     *)
(* every tool call in it is held until the whole batch is validated and    *)
(* restored, and a batch with an unusable handle is withheld and the model *)
(* asked again.  The surfaces are                                          *)
(*   messages   Claude Code (SseStreamTransformer, collected, retried)     *)
(*   app        Claude App (the same transformer, never retried)           *)
(*   responses  OpenAI Responses   chat  OpenAI Chat Completions           *)
(*   google     Gemini and Cloud Code (each event is restored by itself)   *)
(* An upstream event is one action.  Texts are numbered pieces, a tool     *)
(* call is its identity; bytes, JSON and wording are abstracted: a size    *)
(* limit, a plugin or malformed input is a block that is rejected.         *)
(***************************************************************************)
EXTENDS Naturals, Sequences, FiniteSets

CONSTANTS
    Tools,               \* tool calls the model may propose in one response
    MessagesAttempts,    \* MAX_HANDLE_RECOVERY_ATTEMPTS
    Attempts,            \* handle_recovery::ATTEMPTS
    MaxEvents            \* bound on the events of one upstream response

ASSUME GatewayAssumption ==
    /\ MessagesAttempts \in Nat
    /\ Attempts \in Nat
    /\ MaxEvents \in Nat

VARIABLES
    surface,   \* which gateway answers the request
    phase,     \* "send", "open" (reading), "drain", "judge", "answered"
    attempt,   \* attempt of the recovery loop
    sent,      \* what the upstream has sent in this attempt
    held,      \* OutputTextRestorer.pending: text that may start a handle
    buffer,    \* tool_buffer / responses_tool_pending / ChatStreamState.calls
    ready,     \* frames produced for the client in this attempt
    txn,       \* the attempt's transaction: "open", "committed", "failed"
    result,    \* how processing this attempt's response ended
    answer     \* what the client received

vars == <<surface, phase, attempt, sent, held, buffer, ready, txn, result, answer>>

Surfaces == {"messages", "app", "responses", "chat", "google"}
Anthropic == {"messages", "app"}
Handle == {"recoverable", "unsupported"}
Errors == Handle \cup {"other", "incomplete"}
Marks == {"end", "fail", "ping"}

Frames == [texts : Seq(Nat), tools : SUBSET Tools, raw : SUBSET Tools,
           marks : SUBSET Marks]
Frame(texts, tools, raw, marks) ==
    [texts |-> texts, tools |-> tools, raw |-> raw, marks |-> marks]
NoFrames == Frame(<<>>, {}, {}, {})
Join(f, g) == Frame(f.texts \o g.texts, f.tools \cup g.tools, f.raw \cup g.raw,
                    f.marks \cup g.marks)
Texts(s) == Frame(s, {}, {}, {})
Mark(m) == Frame(<<>>, {}, {}, {m})
Restored(S) == Frame(<<>>, S, {}, {})
Announced(t) == Frame(<<>>, {}, {t}, {})

Buffers == [holding : BOOLEAN, active : SUBSET Tools, completed : SUBSET Tools,
            frames : Frames]
SentSet == [texts : Nat, textOpen : BOOLEAN, started : SUBSET Tools, ended : SUBSET Tools,
            argsOnly : SUBSET Tools, terminal : BOOLEAN, json : BOOLEAN, events : Nat]
NoBuffer == [holding |-> FALSE, active |-> {}, completed |-> {}, frames |-> NoFrames]
NothingSent == [texts |-> 0, textOpen |-> FALSE, started |-> {}, ended |-> {},
                argsOnly |-> {}, terminal |-> FALSE, json |-> FALSE, events |-> 0]
NoAnswer == [kind |-> "none", frames |-> NoFrames]

\* Additional model requests after the first: MAX_HANDLE_RECOVERY_ATTEMPTS for
\* Claude Code, ATTEMPTS of the shared loop, none for Claude App.
Limit == IF surface = "messages" THEN MessagesAttempts
         ELSE IF surface = "app" THEN 0 ELSE Attempts

TypeOK ==
    /\ surface \in Surfaces
    /\ phase \in {"send", "open", "drain", "judge", "answered"}
    /\ attempt \in 0 .. Limit
    /\ sent \in SentSet
    /\ held \in Seq(Nat)
    /\ buffer \in Buffers
    /\ ready \in Frames
    /\ txn \in {"open", "committed", "failed"}
    /\ result \in {"none", "ok"} \cup Errors
    /\ answer \in [kind : {"none", "response", "status", "stopped", "refused",
                           "failure", "error"}, frames : Frames]

Init ==
    /\ surface \in Surfaces
    /\ phase = "send"
    /\ attempt = 0
    /\ sent = NothingSent
    /\ held = <<>>
    /\ buffer = NoBuffer
    /\ ready = NoFrames
    /\ txn = "open"
    /\ result = "none"
    /\ answer = NoAnswer

-----------------------------------------------------------------------------
(* The loops around the transformers                                       *)

Answer(kind, frames) ==
    /\ answer' = [kind |-> kind, frames |-> frames]
    /\ phase' = "answered"

\* The transformer is done.  Claude Code has read the whole body before and
\* Claude App reads on after the terminal event: either may still break.
Conclude(r) ==
    /\ result' = r
    /\ phase' = IF surface = "messages" \/ (surface = "app" /\ sent'.terminal)
                THEN "drain" ELSE "judge"

\* A block that could not be processed: what the surface's read loop does.
LoopError(kind) ==
    /\ UNCHANGED <<held, txn>>
    /\ IF surface \in {"messages", "google"} \/ kind \in Handle
       THEN /\ result' = kind
            /\ phase' = IF surface = "messages" THEN "drain" ELSE "judge"
            /\ UNCHANGED <<buffer, ready>>
       ELSE /\ result' = "ok"
            /\ phase' = "judge"
            /\ ready' = Join(ready, Mark("fail"))
            /\ buffer' = IF surface = "app" THEN buffer ELSE NoBuffer

\* Frames go to the client, or behind the tool calls that are being held.
Emit(f) ==
    IF surface # "chat" /\ buffer.holding
    THEN buffer' = [buffer EXCEPT !.frames = Join(@, f)] /\ UNCHANGED ready
    ELSE ready' = Join(ready, f) /\ UNCHANGED buffer

Reading == phase = "open" /\ sent.events < MaxEvents
Send(s) == sent' = [s EXCEPT !.events = @ + 1]
GoesOn == UNCHANGED <<phase, result, txn>>

-----------------------------------------------------------------------------
(* Upstream                                                                *)

\* The request is sent; a status other than success is passed on, a failure
\* to connect or an encoding that cannot be read ends the request.
SendRequest ==
    /\ phase = "send"
    /\ \/ phase' = "open" /\ UNCHANGED answer
       \/ \E kind \in {"status", "error"} : Answer(kind, NoFrames)
    /\ UNCHANGED <<surface, attempt, sent, held, buffer, ready, txn, result>>

\* Mutant: what was held back is dropped when it is not a handle.
PushDrops(piece, opens) ==
    IF opens THEN [out |-> <<>>, held |-> Append(held, piece)]
             ELSE [out |-> <<piece>>, held |-> <<>>]

\* OutputTextRestorer::push: text that may still become a handle is held back.
\* `opens` says that the text so far ends in the beginning of a handle.
Push(piece, opens) ==
    IF opens THEN [out |-> <<>>, held |-> Append(held, piece)]
             ELSE [out |-> Append(held, piece), held |-> <<>>]

TextDelta ==
    /\ Reading
    /\ Send([sent EXCEPT !.texts = @ + 1, !.textOpen = TRUE])
    /\ LET piece == sent.texts + 1
       IN \/ /\ surface = "google" \/ (surface \in Anthropic /\ buffer.holding)
             /\ Emit(Texts(<<piece>>))
             /\ GoesOn /\ UNCHANGED held
          \/ /\ surface # "google" /\ ~(surface \in Anthropic /\ buffer.holding)
             /\ \E opens \in BOOLEAN :
                   /\ Emit(Texts(Push(piece, opens).out))
                   /\ held' = Push(piece, opens).held
             /\ GoesOn
          \/ /\ surface # "google" /\ ~(surface \in Anthropic /\ buffer.holding)
             /\ \E kind \in Errors \ {"incomplete"} : LoopError(kind)
    /\ UNCHANGED <<surface, attempt, answer>>

\* content_block_stop of a text block, response.output_text.done or a chunk
\* with finish_reason: what was held back is not a handle after all.
TextEnd ==
    /\ Reading /\ surface # "google"
    /\ sent.textOpen
    /\ Send([sent EXCEPT !.textOpen = FALSE])
    /\ \/ /\ surface \in Anthropic /\ buffer.holding
          /\ GoesOn /\ UNCHANGED <<held, buffer, ready>>
       \/ /\ ~(surface \in Anthropic /\ buffer.holding)
          /\ Emit(Texts(held))
          /\ held' = <<>>
          /\ GoesOn
    /\ UNCHANGED <<surface, attempt, answer>>

\* Any block may be rejected before it is looked at: a size limit, a plugin
\* that blocks it or fails.
BlockRejected ==
    /\ Reading
    /\ Send(sent)
    /\ LoopError("other")
    /\ UNCHANGED <<surface, attempt, answer>>

\* The upstream's own error event ends the stream; held tool calls are dropped.
UpstreamError ==
    /\ Reading /\ surface # "google"
    /\ Send([sent EXCEPT !.terminal = TRUE])
    /\ buffer' = NoBuffer
    /\ ready' = Join(ready, Mark("fail"))
    /\ Conclude("ok")
    /\ UNCHANGED <<surface, attempt, held, txn, answer>>

\* End of the body.
UpstreamEof ==
    /\ phase = "open"
    /\ UNCHANGED <<surface, attempt, sent, answer>>
    /\ CASE surface \in Anthropic ->
               IF buffer.holding
               THEN /\ result' = IF surface = "app" THEN "ok" ELSE "other"
                    /\ ready' = IF surface = "app" THEN Join(ready, Mark("fail"))
                                ELSE ready
                    /\ phase' = "judge"
                    /\ UNCHANGED <<held, buffer, txn>>
               ELSE /\ ready' = Join(ready, Texts(held))
                    /\ held' = <<>>
                    /\ result' = IF surface = "app" THEN "ok" ELSE "incomplete"
                    /\ phase' = "judge"
                    /\ UNCHANGED <<buffer, txn>>
         [] surface = "google" ->
               /\ result' = "ok" /\ phase' = "judge"
               /\ UNCHANGED <<held, buffer, ready, txn>>
         [] OTHER -> LoopError("other")

\* The connection breaks or a read times out.
UpstreamBreaks ==
    /\ phase \in {"open", "drain"}
    /\ UNCHANGED <<surface, attempt, sent>>
    /\ IF surface \in {"responses", "chat"}
       THEN LoopError("other") /\ UNCHANGED answer
       ELSE /\ Answer("error", NoFrames)
            /\ UNCHANGED <<held, buffer, ready, txn, result>>

DrainEnds ==
    /\ phase = "drain"
    /\ phase' = "judge"
    /\ UNCHANGED <<surface, attempt, sent, held, buffer, ready, txn, result, answer>>

-----------------------------------------------------------------------------
(* Anthropic: SseStreamTransformer::process_block                          *)

\* A ping passes the held tool calls.
Ping ==
    /\ Reading /\ surface \in Anthropic
    /\ Send(sent)
    /\ ready' = Join(ready, Mark("ping"))
    /\ GoesOn
    /\ UNCHANGED <<surface, attempt, held, buffer, answer>>

\* content_block_start of a tool_use; the protocol closes a text block first.
ToolStart(t) ==
    /\ Reading /\ surface \in Anthropic
    /\ ~sent.textOpen /\ t \notin sent.started
    /\ Send([sent EXCEPT !.started = @ \cup {t}])
    /\ buffer' = [buffer EXCEPT !.holding = TRUE, !.active = @ \cup {t},
                                !.frames = Join(@, Announced(t))]
    /\ GoesOn
    /\ UNCHANGED <<surface, attempt, held, ready, answer>>

ToolStop(t) ==
    /\ Reading /\ surface \in Anthropic
    /\ t \in sent.started \ sent.ended
    /\ Send([sent EXCEPT !.ended = @ \cup {t}])
    /\ buffer' = [buffer EXCEPT !.active = @ \ {t}]
    /\ GoesOn
    /\ UNCHANGED <<surface, attempt, held, ready, answer>>

\* rewrite_anthropic_sse_with_tool_context: the tool calls that were stopped
\* are restored, one that was not stays as it came.
Rewrite(f, ended) == [f EXCEPT !.tools = f.raw \cap ended, !.raw = f.raw \ ended]

\* message_stop: with no tool call held the rest of the text is flushed; with
\* all held tool calls complete they are validated and restored together;
\* with an incomplete one the stop is held like any other block.
MessageStop ==
    /\ Reading /\ surface \in Anthropic
    /\ Send([sent EXCEPT !.terminal = TRUE])
    /\ UNCHANGED <<surface, attempt, answer>>
    /\ \/ /\ ~buffer.holding
          /\ ready' = Join(Join(ready, Texts(held)), Mark("end"))
          /\ held' = <<>>
          /\ Conclude("ok")
          /\ UNCHANGED <<buffer, txn>>
       \/ /\ buffer.holding /\ buffer.active = {}
          /\ \/ /\ ready' = Join(ready, Join(Rewrite(buffer.frames, sent.ended),
                                             Mark("end")))
                /\ buffer' = NoBuffer
                /\ Conclude("ok")
                /\ UNCHANGED <<held, txn>>
             \/ \E kind \in Errors \ {"incomplete"} : LoopError(kind)
       \/ /\ buffer.holding /\ buffer.active # {}
          /\ GoesOn /\ UNCHANGED <<held, buffer, ready>>
-----------------------------------------------------------------------------
(* OpenAI Responses: process_stream_block                                  *)

\* Mutant: a call counts as complete when it is announced.
ProgressAnnounced(S, complete) ==
    [buffer EXCEPT !.active = @ \cup S, !.completed = @ \cup S]

\* record_responses_tool_progress for the calls S of one block.
Progress(S, complete) ==
    [buffer EXCEPT !.active = @ \cup S,
                   !.completed = IF complete THEN @ \cup S ELSE @]

\* Frames of a block with a tool call start the hold, or join it.
Hold(b, f) ==
    IF f = NoFrames THEN b
    ELSE [b EXCEPT !.holding = TRUE, !.frames = Join(@, f)]

\* output_item.added is kept as it came; an arguments delta is swallowed.
ItemAnnounced(t) ==
    /\ Reading /\ surface = "responses"
    /\ t \notin sent.ended
    /\ Send([sent EXCEPT !.started = @ \cup {t}])
    /\ \E f \in {Announced(t), NoFrames} : buffer' = Hold(Progress({t}, FALSE), f)
    /\ GoesOn
    /\ UNCHANGED <<surface, attempt, held, ready, answer>>

\* arguments.done without a tool name says too little to be released.
ArgumentsDoneUnnamed(t) ==
    /\ Reading /\ surface = "responses"
    /\ t \in sent.started \ sent.ended
    /\ Send([sent EXCEPT !.argsOnly = @ \cup {t}])
    /\ buffer' = Progress({t}, TRUE)
    /\ GoesOn
    /\ UNCHANGED <<surface, attempt, held, ready, answer>>

\* output_item.done, or arguments.done with a name: restored and held.
ItemDone(t) ==
    /\ Reading /\ surface = "responses"
    /\ t \notin sent.ended
    /\ Send([sent EXCEPT !.started = @ \cup {t}, !.ended = @ \cup {t},
                         !.argsOnly = @ \ {t}])
    /\ UNCHANGED <<surface, attempt, answer>>
    /\ \/ /\ buffer' = Hold(Progress({t}, TRUE), Restored({t}))
          /\ GoesOn /\ UNCHANGED <<held, ready>>
       \/ \E kind \in Errors \ {"incomplete"} : LoopError(kind)

\* response.completed with the calls S.  Its calls are validated once more;
\* what is held is released only if every call that began is complete and
\* the transaction commits.  An item whose arguments are done is done or in S.
ResponseCompleted(S) ==
    /\ Reading /\ surface = "responses"
    /\ ~sent.textOpen /\ sent.argsOnly \subseteq S
    /\ Send([sent EXCEPT !.started = @ \cup S, !.ended = @ \cup S, !.terminal = TRUE])
    /\ UNCHANGED <<surface, attempt, answer>>
    /\ LET b == Progress(S, TRUE)
           f == Join(Restored(S), Mark("end"))
       IN \/ \E kind \in Errors \ {"incomplete"} : LoopError(kind)
          \/ /\ ~buffer.holding /\ S = {}
             /\ ready' = Join(ready, f)
             /\ buffer' = b
             /\ Conclude("ok") /\ UNCHANGED <<held, txn>>
          \/ /\ buffer.holding \/ S # {}
             /\ ~(b.active \subseteq b.completed)
             /\ LoopError("other")
          \/ /\ buffer.holding \/ S # {}
             /\ b.active \subseteq b.completed
             /\ \/ /\ txn' = "committed"
                   /\ ready' = Join(ready, Join(b.frames, f))
                   /\ buffer' = NoBuffer
                   /\ Conclude("ok") /\ UNCHANGED held
                \/ /\ txn' = "failed"
                   /\ ready' = Join(ready, Mark("fail"))
                   /\ buffer' = NoBuffer
                   /\ Conclude("ok") /\ UNCHANGED held

-----------------------------------------------------------------------------
(* OpenAI Chat Completions: ChatStreamState                                *)

\* A tool_calls delta is taken out of its chunk and collected; `last` says
\* that the arguments are complete with it.
ChatToolDelta(t, last) ==
    /\ Reading /\ surface = "chat"
    /\ t \notin sent.ended
    /\ Send([sent EXCEPT !.started = @ \cup {t},
                         !.ended = IF last THEN @ \cup {t} ELSE @])
    /\ buffer' = [buffer EXCEPT !.holding = TRUE, !.active = @ \cup {t}]
    /\ GoesOn
    /\ UNCHANGED <<surface, attempt, held, ready, answer>>

\* [DONE]: the held text, then every collected call, validated and restored;
\* arguments that are not complete are not valid JSON.
ChatDone ==
    /\ Reading /\ surface = "chat"
    /\ Send([sent EXCEPT !.terminal = TRUE])
    /\ UNCHANGED <<surface, attempt, answer>>
    /\ \/ /\ buffer.active \subseteq sent.ended
          /\ \/ /\ txn' = "committed"
                /\ ready' = Join(Join(ready, Texts(held)),
                                 Join(Restored(buffer.active), Mark("end")))
                /\ held' = <<>>
                /\ buffer' = NoBuffer
                /\ Conclude("ok")
             \/ /\ txn' = "failed"
                /\ ready' = Join(ready, Mark("fail"))
                /\ buffer' = NoBuffer
                /\ Conclude("ok") /\ UNCHANGED held
       \/ \E kind \in (IF buffer.active \subseteq sent.ended
                       THEN Handle \cup {"other"} ELSE {"other"}) :
             /\ buffer.active # {}
             /\ LoopError(kind)

-----------------------------------------------------------------------------
(* Gemini, Cloud Code, and bodies that are not streams                     *)

\* An event with a complete function call, restored by itself.
GoogleCall(t) ==
    /\ Reading /\ surface = "google"
    /\ t \notin sent.started
    /\ Send([sent EXCEPT !.started = @ \cup {t}, !.ended = @ \cup {t}])
    /\ UNCHANGED <<surface, attempt, answer>>
    /\ \/ /\ ready' = Join(ready, Restored({t}))
          /\ GoesOn /\ UNCHANGED <<held, buffer>>
       \/ \E kind \in Errors \ {"incomplete"} : LoopError(kind)

\* A JSON body with the calls S: all are restored or the body is rejected.
\* OpenAI commits here, Claude Code when the body is judged.
JsonBody(S) ==
    /\ phase = "open" /\ sent = NothingSent
    /\ sent' = [sent EXCEPT !.json = TRUE, !.started = S, !.ended = S, !.texts = 1,
                            !.terminal = TRUE]
    /\ UNCHANGED <<surface, attempt, held, buffer, answer>>
    /\ phase' = "judge"
    /\ \/ /\ ready' = Join(Texts(<<1>>), Restored(S))
          /\ \/ surface \in {"responses", "chat"} /\ txn' = "committed" /\ result' = "ok"
             \/ surface \in {"responses", "chat"} /\ txn' = "failed" /\ result' = "other"
             \/ surface \notin {"responses", "chat"} /\ result' = "ok" /\ UNCHANGED txn
       \/ /\ result' \in Errors \ {"incomplete"}
          /\ UNCHANGED <<ready, txn>>

-----------------------------------------------------------------------------
(* recoverable_messages_response, handle_recovery::run, the app's caller   *)

\* The collected response is too large, or the commit of Claude Code fails.
Accepted ==
    \/ /\ surface = "messages"
       /\ \/ txn' = "committed" /\ Answer("response", ready)
          \/ txn' \in {txn, "failed"} /\ Answer("refused", NoFrames)
    \/ /\ surface # "messages"
       /\ \/ Answer("response", ready)
          \/ Answer("error", NoFrames)
       /\ UNCHANGED txn

\* A handle that cannot be used: explain locally.
Stopped ==
    /\ result = "unsupported" \/ (result = "recoverable" /\ attempt = Limit)
    /\ Answer("stopped", NoFrames)
    /\ UNCHANGED txn

\* Mutant: a stream that ended early is passed on as far as it came.
RefusedPassesCutOff ==
    /\ result \in {"other", "incomplete"}
    /\ CASE result = "incomplete" -> Answer("response", ready)
         [] surface = "messages" -> Answer("refused", NoFrames)
         [] OTHER -> Answer("error", NoFrames)
    /\ UNCHANGED txn

\* Any other rejection fails closed.
Refused ==
    /\ result \in {"other", "incomplete"}
    /\ CASE result = "incomplete" -> Answer("failure", NoFrames)
         [] surface = "messages" -> Answer("refused", NoFrames)
         [] OTHER -> Answer("error", NoFrames)
    /\ UNCHANGED txn

Judge ==
    /\ phase = "judge"
    /\ (result = "ok" /\ Accepted) \/ Stopped \/ Refused
    /\ UNCHANGED <<surface, attempt, sent, held, buffer, ready, result>>

\* Mutant: the frames of the rejected response stay in the answer.
RetryKeepsFrames ==
    /\ phase = "judge"
    /\ result = "recoverable" /\ attempt < Limit
    /\ attempt' = attempt + 1
    /\ phase' = "send"
    /\ sent' = NothingSent /\ held' = <<>> /\ buffer' = NoBuffer
    /\ txn' = "open" /\ result' = "none"
    /\ UNCHANGED <<surface, ready, answer>>

\* The rejected response is forgotten; the original protected request is sent
\* again with a notice, in a transaction of its own.
Retry ==
    /\ phase = "judge"
    /\ result = "recoverable" /\ attempt < Limit
    /\ attempt' = attempt + 1
    /\ phase' = "send"
    /\ sent' = NothingSent /\ held' = <<>> /\ buffer' = NoBuffer
    /\ ready' = NoFrames /\ txn' = "open" /\ result' = "none"
    /\ UNCHANGED <<surface, answer>>

Finished == phase = "answered" /\ UNCHANGED vars

Stream ==
    \/ TextDelta \/ TextEnd \/ BlockRejected \/ UpstreamError \/ UpstreamEof
    \/ UpstreamBreaks \/ DrainEnds \/ Ping \/ MessageStop \/ ChatDone
    \/ \E t \in Tools :
          \/ ToolStart(t) \/ ToolStop(t) \/ GoogleCall(t)
          \/ ItemAnnounced(t) \/ ArgumentsDoneUnnamed(t) \/ ItemDone(t)
          \/ \E last \in BOOLEAN : ChatToolDelta(t, last)
    \/ \E S \in SUBSET Tools : ResponseCompleted(S) \/ JsonBody(S)

Next == SendRequest \/ Stream \/ Judge \/ Retry \/ Finished

Spec == Init /\ [][Next]_vars

-----------------------------------------------------------------------------
(* A client that receives a tool call of a response receives every tool    *)
(* call the model began in that response, each validated and restored, and *)
(* where the surface uses a transaction it is committed: no part of a      *)
(* batch runs, and none runs whose recoveries could not be kept.           *)
Transactional == {"messages", "responses", "chat"}
WholeBatch ==
    (answer.frames.tools \cup answer.frames.raw # {}) =>
        /\ answer.frames.tools = sent.started
        /\ surface \in Transactional => txn = "committed"

(* A stream that was cut off is not passed on as a complete answer: what   *)
(* these surfaces deliver ends in the terminal event or reports a failure. *)
CutOffReported ==
    (answer.kind = "response" /\ ~sent.json /\ surface \in Transactional) =>
        answer.frames.marks \cap {"end", "fail"} # {}

(* Text that was held back because it might have become a handle is not    *)
(* lost: a response that was completed carries all text, once and in order *)
TextKept ==
    (answer.kind = "response" /\ "fail" \notin answer.frames.marks /\ sent.terminal) =>
        answer.frames.texts = [i \in 1 .. sent.texts |-> i]

(* "Every retry has a fresh transaction; rejected batches are never        *)
(* committed": the model is never asked again after a commit, and a retry  *)
(* keeps nothing of the rejected response.                                 *)
RetryForgets ==
    [][attempt' # attempt =>
         /\ txn # "committed" /\ txn' = "open"
         /\ ready' = NoFrames /\ held' = <<>> /\ buffer' = NoBuffer]_vars

-----------------------------------------------------------------------------
(* The inductive invariant behind WholeBatch, CutOffReported, RetryForgets *)

\* While a response is read, what the surface holds is what the model began.
Held ==
    phase = "open" =>
        /\ result = "none" /\ txn = "open"
        /\ sent.ended \subseteq sent.started
        /\ surface = "google" => ready.tools = sent.started
        /\ surface # "google" => ready.tools = {} /\ ready.raw = {}
        /\ surface \in Anthropic =>
              /\ ~buffer.holding => sent.started = {}
              /\ buffer.active = sent.started \ sent.ended
              /\ buffer.frames.raw = sent.started
        /\ surface = "responses" =>
              /\ buffer.active = sent.started
              /\ buffer.frames.tools = sent.ended
              /\ buffer.completed = sent.ended \cup sent.argsOnly
        /\ surface = "chat" => buffer.active = sent.started

\* What a response that is not yet answered may carry to the client.
Judged ==
    phase \in {"drain", "judge"} =>
        /\ txn = "committed" => result = "ok"
        /\ result = "ok" /\ ready.tools \cup ready.raw # {} =>
              /\ ready.tools = sent.started
              /\ surface \in {"responses", "chat"} => txn = "committed"
        /\ result = "ok" /\ ~sent.json /\ surface \in Transactional =>
              ready.marks \cap {"end", "fail"} # {}

Idle ==
    /\ phase = "drain" => surface \in Anthropic
    /\ phase = "send" => /\ sent = NothingSent /\ held = <<>> /\ buffer = NoBuffer
                         /\ ready = NoFrames /\ txn = "open" /\ result = "none"
    /\ phase # "answered" => answer = NoAnswer

IInv == TypeOK /\ Held /\ Judged /\ Idle /\ WholeBatch /\ CutOffReported

-----------------------------------------------------------------------------
(* The inductive invariant behind TextKept                                 *)

Pieces(n) == [i \in 1 .. n |-> i]

\* While a response is read, the text for the client, the text behind the held
\* tool calls and the text that may start a handle are all of it, in order.
TextsHeld ==
    phase = "open" =>
        /\ (ready.texts \o buffer.frames.texts) \o held = Pieces(sent.texts)
        /\ ~sent.textOpen => held = <<>>
        /\ surface = "google" => held = <<>> /\ ~buffer.holding
        /\ surface \in Anthropic /\ buffer.holding => held = <<>>
        /\ surface = "chat" \/ ~buffer.holding => buffer.frames.texts = <<>>

TextsJudged ==
    phase \in {"drain", "judge"} =>
        (result = "ok" /\ sent.terminal /\ "fail" \notin ready.marks =>
            ready.texts = Pieces(sent.texts))

TextInv == TextsHeld /\ TextsJudged /\ TextKept
=============================================================================
