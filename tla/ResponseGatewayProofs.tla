------------------------ MODULE ResponseGatewayProofs ------------------------
(***************************************************************************)
(* Proofs about ResponseGateway for every set of tool calls, every number  *)
(* of attempts and every length of a response: no surface releases part of *)
(* a batch, a stream that was cut off is not passed on as a complete one,  *)
(* the model is never asked again after a commit, and no text is lost,     *)
(* repeated or moved.                                                      *)
(***************************************************************************)
EXTENDS ResponseGateway, SequenceTheorems, TLAPS

\* Join keeps the type and joins field by field.
LEMMA JoinFacts ==
  ASSUME NEW f \in Frames, NEW g \in Frames
  PROVE  /\ Join(f, g) \in Frames
         /\ Join(f, g).tools = f.tools \cup g.tools
         /\ Join(f, g).raw = f.raw \cup g.raw
         /\ Join(f, g).marks = f.marks \cup g.marks
         /\ g.tools = {} /\ g.raw = {} => /\ Join(f, g).tools = f.tools
                                         /\ Join(f, g).raw = f.raw
  <1>1. f.texts \o g.texts \in Seq(Nat)
    BY DEF Frames
  <1>2. /\ f.tools \cup g.tools \in SUBSET Tools /\ f.raw \cup g.raw \in SUBSET Tools
        /\ f.marks \cup g.marks \in SUBSET Marks
    BY DEF Frames
  <1>3. /\ Join(f, g) \in Frames
        /\ Join(f, g).tools = f.tools \cup g.tools
        /\ Join(f, g).raw = f.raw \cup g.raw
        /\ Join(f, g).marks = f.marks \cup g.marks
    BY <1>1, <1>2 DEF Join, Frame, Frames
  <1>4. f.tools \cup {} = f.tools /\ f.raw \cup {} = f.raw
    OBVIOUS
  <1> QED BY <1>3, <1>4

\* The frames the surfaces make.
LEMMA FrameFacts ==
  /\ NoFrames \in Frames /\ NoFrames.tools = {} /\ NoFrames.raw = {} /\ NoFrames.marks = {}
  /\ \A s \in Seq(Nat) : /\ Texts(s) \in Frames /\ Texts(s).tools = {} /\ Texts(s).raw = {}
                         /\ Texts(s).marks = {}
  /\ \A m \in Marks : /\ Mark(m) \in Frames /\ Mark(m).tools = {} /\ Mark(m).raw = {}
                      /\ Mark(m).marks = {m}
  /\ \A S \in SUBSET Tools : /\ Restored(S) \in Frames /\ Restored(S).tools = S
                             /\ Restored(S).raw = {} /\ Restored(S).marks = {}
  /\ \A t \in Tools : /\ Announced(t) \in Frames /\ Announced(t).tools = {}
                      /\ Announced(t).raw = {t} /\ Announced(t).marks = {}
  <1>1. NoFrames \in Frames
    BY DEF NoFrames, Frame, Frames
  <1>2. ASSUME NEW s \in Seq(Nat)
        PROVE  Texts(s) \in Frames /\ Texts(s).tools = {} /\ Texts(s).raw = {} /\ Texts(s).marks = {}
    BY DEF Frames, Frame, Texts
  <1>3. ASSUME NEW m \in Marks
        PROVE  Mark(m) \in Frames /\ Mark(m).tools = {} /\ Mark(m).raw = {} /\ Mark(m).marks = {m}
    <2>1. {m} \in SUBSET Marks
      OBVIOUS
    <2> QED BY <2>1 DEF Frames, Frame, Mark
  <1>4. ASSUME NEW S \in SUBSET Tools
        PROVE  /\ Restored(S) \in Frames /\ Restored(S).tools = S /\ Restored(S).raw = {}
               /\ Restored(S).marks = {}
    BY DEF Frames, Frame, Restored
  <1>5. ASSUME NEW t \in Tools
        PROVE  /\ Announced(t) \in Frames /\ Announced(t).tools = {} /\ Announced(t).raw = {t}
               /\ Announced(t).marks = {}
    <2>1. {t} \in SUBSET Tools
      OBVIOUS
    <2> QED BY <2>1 DEF Frames, Frame, Announced
  <1> QED BY <1>1, <1>2, <1>3, <1>4, <1>5 DEF NoFrames, Frame

\* The empty buffer, the start of an attempt, the missing answer.
LEMMA EmptyFacts ==
  /\ NoBuffer \in Buffers /\ ~NoBuffer.holding /\ NoBuffer.active = {}
  /\ NoBuffer.completed = {} /\ NoBuffer.frames = NoFrames
  /\ NothingSent \in SentSet /\ NothingSent.started = {} /\ NothingSent.ended = {}
  /\ NothingSent.argsOnly = {} /\ ~NothingSent.json
  /\ NoAnswer.kind = "none" /\ NoAnswer.frames = NoFrames
  BY FrameFacts DEF NoBuffer, Buffers, NothingSent, SentSet, NoAnswer

\* What a block adds to what is held keeps its type.
LEMMA PushFacts ==
  ASSUME held \in Seq(Nat), NEW piece \in Nat, NEW opens \in BOOLEAN
  PROVE  Push(piece, opens).out \in Seq(Nat) /\ Push(piece, opens).held \in Seq(Nat)
  <1>1. Append(held, piece) \in Seq(Nat) /\ <<>> \in Seq(Nat)
    OBVIOUS
  <1> QED BY <1>1 DEF Push

\* The attempts of the surfaces, which never change.
LEMMA LimitFacts ==
  /\ Limit \in Nat
  /\ surface' = surface => Limit' = Limit
  BY GatewayAssumption DEF Limit

-----------------------------------------------------------------------------
(* Reading one response                                                    *)

\* A step that goes on reading.
LEMMA StillReading ==
  ASSUME IInv, phase = "open", phase' = "open", answer' = answer, TypeOK', Held'
  PROVE  IInv'
  BY EmptyFacts, FrameFacts DEF IInv, Judged, Idle, WholeBatch, CutOffReported

\* A step that ends the reading.
LEMMA ReadingEnds ==
  ASSUME IInv, phase = "open", phase' \in {"drain", "judge"}, answer' = answer,
         phase' = "drain" => surface' \in Anthropic, TypeOK', Judged'
  PROVE  IInv'
  BY EmptyFacts, FrameFacts DEF IInv, Held, Idle, WholeBatch, CutOffReported

\* A rejected block: the loop fails, or reports the failure in the stream.
LEMMA LoopErrorKeeps ==
  ASSUME IInv, phase = "open", NEW kind \in Errors, LoopError(kind),
         surface' = surface, attempt' = attempt, answer' = answer, sent' \in SentSet
  PROVE  IInv'
  <1>1. /\ result' \in {"none", "ok"} \cup Errors /\ phase' \in {"drain", "judge"}
        /\ phase' = "drain" => surface = "messages"
        /\ txn' = "open" /\ txn = "open"
    BY DEF LoopError, IInv, Held
  <1>2. ready' \in Frames /\ buffer' \in Buffers
    BY JoinFacts, FrameFacts, EmptyFacts DEF LoopError, IInv, TypeOK, Marks
  <1>3. TypeOK'
    BY <1>1, <1>2, LimitFacts DEF LoopError, IInv, TypeOK
  <1>4. ASSUME result' = "ok"
        PROVE  ready'.tools = {} /\ ready'.raw = {} /\ "fail" \in ready'.marks
    <2>1. kind # "ok"
      BY DEF Errors, Handle
    <2>2. ready' = Join(ready, Mark("fail")) /\ surface \notin {"messages", "google"}
      BY <1>4, <2>1 DEF LoopError
    <2>3. ready.tools = {} /\ ready.raw = {} /\ ready \in Frames
      BY <2>2 DEF IInv, Held, TypeOK
    <2> QED BY <2>2, <2>3, JoinFacts, FrameFacts DEF Marks
  <1>5. Judged'
    BY <1>1, <1>4 DEF Judged
  <1> QED BY <1>1, <1>3, <1>5, ReadingEnds DEF Anthropic

\* The transformer is done and its frames may be released.
LEMMA ConcludeKeeps ==
  ASSUME IInv, phase = "open", Conclude("ok"), surface' = surface, attempt' = attempt,
         answer' = answer, sent' \in SentSet, held' \in Seq(Nat), buffer' \in Buffers,
         ready' \in Frames, txn' \in {"open", "committed", "failed"},
         ready'.marks \cap {"end", "fail"} # {},
         ready'.tools \cup ready'.raw # {} =>
            /\ ready'.tools = sent'.started
            /\ surface \in {"responses", "chat"} => txn' = "committed"
  PROVE  IInv'
  <1>1. result' = "ok" /\ phase' \in {"drain", "judge"}
        /\ (phase' = "drain" => surface \in Anthropic)
    BY DEF Conclude, Anthropic
  <1>2. TypeOK'
    BY <1>1, LimitFacts DEF IInv, TypeOK
  <1>3. Judged'
    BY <1>1 DEF Judged
  <1> QED BY <1>1, <1>2, <1>3, ReadingEnds

\* Frames that carry no tool call change no set of tool calls.
LEMMA EmitFacts ==
  ASSUME TypeOK, NEW f \in Frames, f.tools = {}, f.raw = {}, Emit(f)
  PROVE  /\ buffer' \in Buffers /\ ready' \in Frames
         /\ ready'.tools = ready.tools /\ ready'.raw = ready.raw
         /\ buffer'.holding = buffer.holding /\ buffer'.active = buffer.active
         /\ buffer'.completed = buffer.completed
         /\ buffer'.frames.tools = buffer.frames.tools
         /\ buffer'.frames.raw = buffer.frames.raw
  <1>1. CASE surface # "chat" /\ buffer.holding
    <2>1. ready' = ready /\ buffer' = [buffer EXCEPT !.frames = Join(@, f)]
      BY <1>1 DEF Emit
    <2>2. buffer.frames \in Frames
      BY DEF TypeOK, Buffers
    <2>3. /\ Join(buffer.frames, f) \in Frames
          /\ Join(buffer.frames, f).tools = buffer.frames.tools
          /\ Join(buffer.frames, f).raw = buffer.frames.raw
      BY <2>2, JoinFacts
    <2> QED BY <2>1, <2>2, <2>3 DEF TypeOK, Buffers
  <1>2. CASE ~(surface # "chat" /\ buffer.holding)
    <2>1. ready' = Join(ready, f) /\ buffer' = buffer
      BY <1>2 DEF Emit
    <2> QED BY <2>1, JoinFacts DEF TypeOK
  <1> QED BY <1>1, <1>2

\* A step that emits such frames and changes no tool call of the model.
LEMMA EmitKeeps ==
  ASSUME IInv, phase = "open", NEW f \in Frames, f.tools = {}, f.raw = {}, Emit(f), GoesOn,
         surface' = surface, attempt' = attempt, answer' = answer,
         held' \in Seq(Nat), sent' \in SentSet, sent'.started = sent.started,
         sent'.ended = sent.ended, sent'.argsOnly = sent.argsOnly
  PROVE  IInv'
  <1>1. TypeOK'
    BY EmitFacts, LimitFacts DEF IInv, TypeOK, GoesOn
  <1>2. Held'
    BY EmitFacts DEF IInv, Held, GoesOn
  <1> QED BY <1>1, <1>2, StillReading DEF GoesOn

LEMMA SentFacts ==
  ASSUME sent \in SentSet, NEW s \in SentSet, Send(s)
  PROVE  /\ sent' \in SentSet
         /\ sent'.started = s.started /\ sent'.ended = s.ended
         /\ sent'.argsOnly = s.argsOnly /\ sent'.json = s.json
  BY DEF Send, SentSet

LEMMA TextDeltaKeeps ==
  ASSUME IInv, TextDelta
  PROVE  IInv'
  <1> DEFINE s == [sent EXCEPT !.texts = @ + 1, !.textOpen = TRUE]
             piece == sent.texts + 1
  <1>1. /\ phase = "open" /\ surface' = surface /\ attempt' = attempt /\ answer' = answer
        /\ Send(s)
    BY DEF TextDelta, Reading
  <1>2. /\ s \in SentSet /\ s.started = sent.started /\ s.ended = sent.ended
        /\ s.argsOnly = sent.argsOnly /\ piece \in Nat
    <2>1. sent \in SentSet /\ sent.texts \in Nat
      BY DEF IInv, TypeOK, SentSet
    <2>2. piece \in Nat
      BY <2>1
    <2>3. s \in SentSet
      BY <2>1, <2>2 DEF SentSet
    <2>4. s.started = sent.started /\ s.ended = sent.ended /\ s.argsOnly = sent.argsOnly
      BY <2>1 DEF SentSet
    <2> QED BY <2>2, <2>3, <2>4
  <1> HIDE DEF s
  <1>3. /\ sent' \in SentSet /\ sent'.started = sent.started /\ sent'.ended = sent.ended
        /\ sent'.argsOnly = sent.argsOnly
    BY <1>1, <1>2, SentFacts DEF IInv, TypeOK
  <1>4. ASSUME Emit(Texts(<<piece>>)), GoesOn, held' = held PROVE IInv'
    <2>1. <<piece>> \in Seq(Nat) /\ held' \in Seq(Nat)
      BY <1>2, <1>4 DEF IInv, TypeOK
    <2> QED BY <1>1, <1>3, <1>4, <2>1, FrameFacts, EmitKeeps
  <1>5. ASSUME NEW opens \in BOOLEAN, Emit(Texts(Push(piece, opens).out)),
               held' = Push(piece, opens).held, GoesOn
        PROVE  IInv'
    <2>1. Push(piece, opens).out \in Seq(Nat) /\ held' \in Seq(Nat)
      BY <1>2, <1>5, PushFacts DEF IInv, TypeOK
    <2> QED BY <1>1, <1>3, <1>5, <2>1, FrameFacts, EmitKeeps
  <1>6. ASSUME NEW kind \in Errors, LoopError(kind) PROVE IInv'
    BY <1>1, <1>3, <1>6, LoopErrorKeeps
  <1> QED BY <1>4, <1>5, <1>6 DEF TextDelta

LEMMA TextEndKeeps ==
  ASSUME IInv, TextEnd
  PROVE  IInv'
  <1> DEFINE s == [sent EXCEPT !.textOpen = FALSE]
  <1>1. /\ phase = "open" /\ surface' = surface /\ attempt' = attempt /\ answer' = answer
        /\ Send(s) /\ GoesOn
    BY DEF TextEnd, Reading
  <1>2. /\ s \in SentSet /\ s.started = sent.started /\ s.ended = sent.ended
        /\ s.argsOnly = sent.argsOnly
    BY DEF IInv, TypeOK, SentSet
  <1> HIDE DEF s
  <1>3. /\ sent' \in SentSet /\ sent'.started = sent.started /\ sent'.ended = sent.ended
        /\ sent'.argsOnly = sent.argsOnly
    BY <1>1, <1>2, SentFacts DEF IInv, TypeOK
  <1>4. CASE UNCHANGED <<held, buffer, ready>>
    <2>1. TypeOK'
      BY <1>1, <1>3, <1>4, LimitFacts DEF IInv, TypeOK, GoesOn
    <2>2. Held'
      BY <1>1, <1>3, <1>4 DEF IInv, Held, GoesOn
    <2> QED BY <1>1, <2>1, <2>2, StillReading DEF GoesOn
  <1>5. CASE Emit(Texts(held)) /\ held' = <<>>
    <2>1. held \in Seq(Nat) /\ held' \in Seq(Nat)
      BY <1>5 DEF IInv, TypeOK
    <2> QED BY <1>1, <1>3, <1>5, <2>1, FrameFacts, EmitKeeps
  <1> QED BY <1>4, <1>5 DEF TextEnd

LEMMA BlockRejectedKeeps ==
  ASSUME IInv, BlockRejected
  PROVE  IInv'
  <1>1. sent' \in SentSet
    BY SentFacts DEF BlockRejected, IInv, TypeOK
  <1>2. "other" \in Errors
    BY DEF Errors
  <1> QED BY <1>1, <1>2, LoopErrorKeeps DEF BlockRejected, Reading

LEMMA UpstreamErrorKeeps ==
  ASSUME IInv, UpstreamError
  PROVE  IInv'
  <1> DEFINE s == [sent EXCEPT !.terminal = TRUE]
  <1>1. /\ phase = "open" /\ surface' = surface /\ attempt' = attempt /\ answer' = answer
        /\ held' = held /\ txn' = txn /\ buffer' = NoBuffer /\ Conclude("ok") /\ Send(s)
        /\ ready' = Join(ready, Mark("fail")) /\ surface # "google"
    BY DEF UpstreamError, Reading
  <1>2. s \in SentSet
    BY DEF IInv, TypeOK, SentSet
  <1> HIDE DEF s
  <1>3. sent' \in SentSet
    BY <1>1, <1>2, SentFacts DEF IInv, TypeOK
  <1>4. ready.tools = {} /\ ready.raw = {} /\ ready \in Frames
    BY <1>1 DEF IInv, Held, TypeOK
  <1>5. /\ ready' \in Frames /\ ready'.tools = {} /\ ready'.raw = {} /\ "fail" \in ready'.marks
    BY <1>1, <1>4, JoinFacts, FrameFacts DEF Marks
  <1> QED BY <1>1, <1>3, <1>5, EmptyFacts, ConcludeKeeps DEF IInv, TypeOK

\* The reading ends in what may be released (Claude App, Gemini) or in an error.
LEMMA UpstreamEofKeeps ==
  ASSUME IInv, UpstreamEof
  PROVE  IInv'
  <1>1. /\ phase = "open" /\ surface' = surface /\ attempt' = attempt /\ answer' = answer
        /\ sent' = sent
    BY DEF UpstreamEof
  <1>2. CASE surface \in Anthropic
    <2>1. /\ phase' = "judge" /\ buffer' = buffer /\ txn' = txn
          /\ result' \in {"ok", "other", "incomplete"}
          /\ result' = "ok" => surface = "app"
          /\ \/ ready' = ready \/ ready' = Join(ready, Mark("fail"))
             \/ ready' = Join(ready, Texts(held))
          /\ held' \in {held, <<>>}
      BY <1>1, <1>2 DEF UpstreamEof, Anthropic
    <2>2. ready.tools = {} /\ ready.raw = {} /\ ready \in Frames /\ held \in Seq(Nat)
      BY <1>1, <1>2 DEF IInv, Held, TypeOK, Anthropic
    <2>3. ready' \in Frames /\ ready'.tools = {} /\ ready'.raw = {}
      BY <2>1, <2>2, JoinFacts, FrameFacts DEF Marks
    <2>a. held' \in Seq(Nat)
      <3>1. <<>> \in Seq(Nat)
        OBVIOUS
      <3> QED BY <2>1, <2>2, <3>1
    <2>4. TypeOK'
      BY <1>1, <2>1, <2>2, <2>3, <2>a, LimitFacts DEF IInv, TypeOK, Errors
    <2>5. txn = "open"
      BY <1>1 DEF IInv, Held
    <2>6. Judged'
      BY <1>1, <2>1, <2>3, <2>5 DEF Judged, Transactional
    <2> QED BY <1>1, <2>1, <2>4, <2>6, ReadingEnds
  <1>3. CASE surface = "google"
    <2>1. /\ phase' = "judge" /\ result' = "ok" /\ UNCHANGED <<held, buffer, ready, txn>>
      BY <1>1, <1>3 DEF UpstreamEof, Anthropic
    <2>2. TypeOK'
      BY <1>1, <2>1, LimitFacts DEF IInv, TypeOK
    <2>3. Judged'
      BY <1>1, <1>3, <2>1 DEF IInv, Held, Judged, Transactional
    <2> QED BY <1>1, <2>1, <2>2, <2>3, ReadingEnds
  <1>4. CASE surface \notin Anthropic \cup {"google"}
    <2>1. LoopError("other") /\ "other" \in Errors
      BY <1>1, <1>4 DEF UpstreamEof, Errors
    <2> QED BY <1>1, <2>1, LoopErrorKeeps DEF IInv, TypeOK
  <1> QED BY <1>2, <1>3, <1>4

\* An answer without frames.
LEMMA EmptyAnswerKeeps ==
  ASSUME IInv, NEW kind \in {"status", "stopped", "refused", "failure", "error"},
         Answer(kind, NoFrames), txn' \in {"open", "committed", "failed"},
         UNCHANGED <<surface, attempt, sent, held, buffer, ready, result>>
  PROVE  IInv'
  <1>1. answer' = [kind |-> kind, frames |-> NoFrames] /\ phase' = "answered"
    BY DEF Answer
  <1>2. answer'.kind = kind /\ answer'.frames = NoFrames
    BY <1>1
  <1>3. TypeOK'
    BY <1>1, FrameFacts, LimitFacts DEF IInv, TypeOK
  <1> QED BY <1>1, <1>2, <1>3, FrameFacts
          DEF IInv, Held, Judged, Idle, WholeBatch, CutOffReported

LEMMA UpstreamBreaksKeeps ==
  ASSUME IInv, UpstreamBreaks
  PROVE  IInv'
  <1>1. CASE surface \in {"responses", "chat"}
    <2>1. phase = "open" /\ LoopError("other") /\ "other" \in Errors
      BY <1>1 DEF UpstreamBreaks, IInv, Idle, Anthropic, Errors
    <2> QED BY <1>1, <2>1, LoopErrorKeeps DEF UpstreamBreaks, IInv, TypeOK
  <1>2. CASE surface \notin {"responses", "chat"}
    BY <1>2, EmptyAnswerKeeps DEF UpstreamBreaks, IInv, TypeOK
  <1> QED BY <1>1, <1>2

LEMMA DrainEndsKeeps ==
  ASSUME IInv, DrainEnds
  PROVE  IInv'
  <1>1. TypeOK'
    BY LimitFacts DEF IInv, TypeOK, DrainEnds
  <1>2. Judged'
    BY DEF IInv, Judged, DrainEnds
  <1> QED BY <1>1, <1>2, EmptyFacts
          DEF IInv, Held, Idle, WholeBatch, CutOffReported, DrainEnds

LEMMA PingKeeps ==
  ASSUME IInv, Ping
  PROVE  IInv'
  <1>1. /\ phase = "open" /\ phase' = "open" /\ Send(sent) /\ ready' = Join(ready, Mark("ping"))
        /\ UNCHANGED <<surface, attempt, held, buffer, answer, result, txn>>
    BY DEF Ping, Reading, GoesOn
  <1>2. /\ sent' \in SentSet /\ sent'.started = sent.started /\ sent'.ended = sent.ended
        /\ sent'.argsOnly = sent.argsOnly
    BY <1>1, SentFacts DEF IInv, TypeOK
  <1>3. ready' \in Frames /\ ready'.tools = ready.tools /\ ready'.raw = ready.raw
    BY <1>1, JoinFacts, FrameFacts DEF IInv, TypeOK, Marks
  <1>4. TypeOK'
    BY <1>1, <1>2, <1>3, LimitFacts DEF IInv, TypeOK
  <1>5. Held'
    BY <1>1, <1>2, <1>3 DEF IInv, Held
  <1> QED BY <1>1, <1>4, <1>5, StillReading

\* The Anthropic transformer: a tool call joins what is held.
LEMMA ToolStartKeeps ==
  ASSUME IInv, NEW t \in Tools, ToolStart(t)
  PROVE  IInv'
  <1> DEFINE s == [sent EXCEPT !.started = @ \cup {t}]
  <1>1. /\ phase = "open" /\ phase' = "open" /\ Send(s) /\ surface \in Anthropic
        /\ buffer' = [buffer EXCEPT !.holding = TRUE, !.active = @ \cup {t},
                                    !.frames = Join(@, Announced(t))]
        /\ t \notin sent.started
        /\ UNCHANGED <<surface, attempt, held, ready, answer, result, txn>>
    BY DEF ToolStart, Reading, GoesOn
  <1>2. /\ s \in SentSet /\ s.started = sent.started \cup {t} /\ s.ended = sent.ended
        /\ s.argsOnly = sent.argsOnly
    BY DEF IInv, TypeOK, SentSet
  <1> HIDE DEF s
  <1>3. /\ sent' \in SentSet /\ sent'.started = sent.started \cup {t}
        /\ sent'.ended = sent.ended
    BY <1>1, <1>2, SentFacts DEF IInv, TypeOK
  <1>4. /\ Join(buffer.frames, Announced(t)) \in Frames
        /\ Join(buffer.frames, Announced(t)).raw = buffer.frames.raw \cup {t}
    BY JoinFacts, FrameFacts DEF IInv, TypeOK, Buffers
  <1>5. buffer' \in Buffers
    BY <1>1, <1>4 DEF IInv, TypeOK, Buffers
  <1>6. /\ buffer'.holding /\ buffer'.active = buffer.active \cup {t}
        /\ buffer'.frames.raw = buffer.frames.raw \cup {t}
    BY <1>1, <1>4 DEF IInv, TypeOK, Buffers
  <1>7. TypeOK'
    BY <1>1, <1>3, <1>5, LimitFacts DEF IInv, TypeOK
  <1>8. Held'
    BY <1>1, <1>3, <1>6 DEF IInv, Held, Anthropic
  <1> QED BY <1>1, <1>7, <1>8, StillReading

LEMMA ToolStopKeeps ==
  ASSUME IInv, NEW t \in Tools, ToolStop(t)
  PROVE  IInv'
  <1> DEFINE s == [sent EXCEPT !.ended = @ \cup {t}]
  <1>1. /\ phase = "open" /\ phase' = "open" /\ Send(s) /\ surface \in Anthropic
        /\ buffer' = [buffer EXCEPT !.active = @ \ {t}]
        /\ t \in sent.started \ sent.ended
        /\ UNCHANGED <<surface, attempt, held, ready, answer, result, txn>>
    BY DEF ToolStop, Reading, GoesOn
  <1>2. /\ s \in SentSet /\ s.started = sent.started /\ s.ended = sent.ended \cup {t}
    BY DEF IInv, TypeOK, SentSet
  <1> HIDE DEF s
  <1>3. /\ sent' \in SentSet /\ sent'.started = sent.started
        /\ sent'.ended = sent.ended \cup {t}
    BY <1>1, <1>2, SentFacts DEF IInv, TypeOK
  <1>4. /\ buffer' \in Buffers /\ buffer'.holding = buffer.holding
        /\ buffer'.active = buffer.active \ {t} /\ buffer'.frames = buffer.frames
    BY <1>1 DEF IInv, TypeOK, Buffers
  <1>5. TypeOK'
    BY <1>1, <1>3, <1>4, LimitFacts DEF IInv, TypeOK
  <1>6. Held'
    BY <1>1, <1>3, <1>4 DEF IInv, Held, Anthropic
  <1> QED BY <1>1, <1>5, <1>6, StillReading

\* All held tool calls are complete, so the rewrite restores each of them.
LEMMA RewriteFacts ==
  ASSUME NEW f \in Frames, NEW ended \in SUBSET Tools, f.raw \subseteq ended
  PROVE  /\ Rewrite(f, ended) \in Frames
         /\ Rewrite(f, ended).tools = f.raw /\ Rewrite(f, ended).raw = {}
  <1>1. f.raw \cap ended = f.raw /\ f.raw \ ended = {}
    OBVIOUS
  <1> QED BY <1>1 DEF Rewrite, Frames

LEMMA MessageStopKeeps ==
  ASSUME IInv, MessageStop
  PROVE  IInv'
  <1> DEFINE s == [sent EXCEPT !.terminal = TRUE]
  <1>1. /\ phase = "open" /\ Send(s) /\ surface \in Anthropic
        /\ UNCHANGED <<surface, attempt, answer>>
    BY DEF MessageStop, Reading
  <1>2. /\ s \in SentSet /\ s.started = sent.started /\ s.ended = sent.ended
    BY DEF IInv, TypeOK, SentSet
  <1> HIDE DEF s
  <1>3. /\ sent' \in SentSet /\ sent'.started = sent.started /\ sent'.ended = sent.ended
    BY <1>1, <1>2, SentFacts DEF IInv, TypeOK
  <1>4. /\ ready.tools = {} /\ ready.raw = {} /\ ready \in Frames /\ held \in Seq(Nat)
        /\ buffer \in Buffers /\ buffer.frames \in Frames
        /\ sent.ended \in SUBSET Tools /\ <<>> \in Seq(Nat)
        /\ txn \in {"open", "committed", "failed"}
    BY <1>1 DEF IInv, TypeOK, Held, Anthropic, Buffers, SentSet
  <1>5. /\ Mark("end") \in Frames /\ Mark("end").tools = {} /\ Mark("end").raw = {}
        /\ Mark("end").marks = {"end"}
    BY FrameFacts DEF Marks
  <1>6. CASE /\ ready' = Join(Join(ready, Texts(held)), Mark("end")) /\ held' = <<>>
             /\ Conclude("ok") /\ UNCHANGED <<buffer, txn>>
    <2>1. /\ Join(ready, Texts(held)) \in Frames /\ Join(ready, Texts(held)).tools = {}
          /\ Join(ready, Texts(held)).raw = {}
      BY <1>4, JoinFacts, FrameFacts
    <2>2. /\ ready' \in Frames /\ ready'.tools = {} /\ ready'.raw = {}
          /\ "end" \in ready'.marks
      BY <1>5, <1>6, <2>1, JoinFacts
    <2> QED BY <1>1, <1>3, <1>4, <1>6, <2>2, ConcludeKeeps
  <1>7. CASE /\ buffer.active = {}
             /\ ready' = Join(ready, Join(Rewrite(buffer.frames, sent.ended), Mark("end")))
             /\ buffer' = NoBuffer /\ Conclude("ok") /\ UNCHANGED <<held, txn>>
    <2>1. sent.started \subseteq sent.ended /\ buffer.frames.raw = sent.started
      BY <1>1, <1>7 DEF IInv, Held, Anthropic
    <2>2. /\ Rewrite(buffer.frames, sent.ended) \in Frames
          /\ Rewrite(buffer.frames, sent.ended).tools = sent.started
          /\ Rewrite(buffer.frames, sent.ended).raw = {}
      BY <1>4, <2>1, RewriteFacts
    <2> DEFINE g == Join(Rewrite(buffer.frames, sent.ended), Mark("end"))
    <2>3. g \in Frames /\ g.tools = sent.started /\ g.raw = {} /\ "end" \in g.marks
      BY <1>5, <2>2, JoinFacts
    <2> HIDE DEF g
    <2>4. ready' = Join(ready, g)
      BY <1>7 DEF g
    <2>a. {} \cup sent.started = sent.started
      OBVIOUS
    <2>5. /\ ready' \in Frames /\ ready'.tools = sent.started /\ "end" \in ready'.marks
      <3>1. /\ Join(ready, g) \in Frames /\ Join(ready, g).tools = ready.tools \cup g.tools
            /\ Join(ready, g).marks = ready.marks \cup g.marks
        BY <1>4, <2>3, JoinFacts
      <3> QED BY <1>4, <2>3, <2>4, <2>a, <3>1
    <2>6. surface \notin {"responses", "chat"}
      BY <1>1 DEF Anthropic
    <2> QED BY <1>1, <1>3, <1>4, <1>7, <2>5, <2>6, EmptyFacts, ConcludeKeeps
  <1>8. ASSUME NEW kind \in Errors, LoopError(kind) PROVE IInv'
    BY <1>1, <1>3, <1>8, LoopErrorKeeps
  <1>9. CASE GoesOn /\ UNCHANGED <<held, buffer, ready>>
    <2>1. TypeOK'
      BY <1>1, <1>3, <1>9, LimitFacts DEF IInv, TypeOK, GoesOn
    <2>2. Held'
      BY <1>1, <1>3, <1>9 DEF IInv, Held, GoesOn, Anthropic
    <2> QED BY <1>1, <1>9, <2>1, <2>2, StillReading DEF GoesOn
  <1> QED BY <1>6, <1>7, <1>8, <1>9 DEF MessageStop

-----------------------------------------------------------------------------
(* OpenAI and Google                                                       *)

\* What the hold does to the buffer.
LEMMA HoldFacts ==
  ASSUME NEW b \in Buffers, NEW f \in Frames
  PROVE  /\ Hold(b, f) \in Buffers /\ Hold(b, f).active = b.active
         /\ Hold(b, f).completed = b.completed
         /\ Hold(b, f).frames.tools = b.frames.tools \cup f.tools
  <1>1. CASE f = NoFrames
    <2>1. Hold(b, f) = b /\ b.frames.tools \cup f.tools = b.frames.tools
      BY <1>1, FrameFacts DEF Hold
    <2> QED BY <2>1
  <1>2. CASE f # NoFrames
    <2>1. Hold(b, f) = [b EXCEPT !.holding = TRUE, !.frames = Join(@, f)]
      BY <1>2 DEF Hold
    <2>2. b.frames \in Frames
      BY DEF Buffers
    <2>3. Join(b.frames, f) \in Frames /\ Join(b.frames, f).tools = b.frames.tools \cup f.tools
      BY <2>2, JoinFacts
    <2>4. /\ Hold(b, f) \in Buffers /\ Hold(b, f).active = b.active
          /\ Hold(b, f).completed = b.completed /\ Hold(b, f).frames = Join(b.frames, f)
      BY <2>1, <2>3 DEF Buffers
    <2> QED BY <2>3, <2>4
  <1> QED BY <1>1, <1>2

LEMMA ItemAnnouncedKeeps ==
  ASSUME IInv, NEW t \in Tools, ItemAnnounced(t)
  PROVE  IInv'
  <1> DEFINE s == [sent EXCEPT !.started = @ \cup {t}]
  <1>1. /\ phase = "open" /\ phase' = "open" /\ Send(s) /\ surface = "responses"
        /\ UNCHANGED <<surface, attempt, held, ready, answer, result, txn>>
    BY DEF ItemAnnounced, Reading, GoesOn
  <1>2. /\ s \in SentSet /\ s.started = sent.started \cup {t} /\ s.ended = sent.ended
        /\ s.argsOnly = sent.argsOnly
    BY DEF IInv, TypeOK, SentSet
  <1> HIDE DEF s
  <1>3. /\ sent' \in SentSet /\ sent'.started = sent.started \cup {t}
        /\ sent'.ended = sent.ended /\ sent'.argsOnly = sent.argsOnly
    BY <1>1, <1>2, SentFacts DEF IInv, TypeOK
  <1>4. PICK f \in {Announced(t), NoFrames} : buffer' = Hold(Progress({t}, FALSE), f)
    BY DEF ItemAnnounced
  <1>5. f \in Frames /\ f.tools = {}
    BY <1>4, FrameFacts
  <1>6. buffer \in Buffers /\ buffer.frames.tools \cup {} = buffer.frames.tools
    BY DEF IInv, TypeOK
  <1>7. /\ buffer' \in Buffers /\ buffer'.active = buffer.active \cup {t}
        /\ buffer'.completed = buffer.completed /\ buffer'.frames.tools = buffer.frames.tools
    <2> DEFINE b == Progress({t}, FALSE)
    <2>1. /\ b \in Buffers /\ b.active = buffer.active \cup {t}
          /\ b.completed = buffer.completed /\ b.frames = buffer.frames
      BY <1>6 DEF Progress, Buffers
    <2>2. buffer' = Hold(b, f)
      BY <1>4
    <2> HIDE DEF b
    <2> QED BY <1>5, <1>6, <2>1, <2>2, HoldFacts
  <1>8. TypeOK'
    BY <1>1, <1>3, <1>7, LimitFacts DEF IInv, TypeOK
  <1>9. Held'
    BY <1>1, <1>3, <1>7 DEF IInv, Held, Anthropic
  <1> QED BY <1>1, <1>8, <1>9, StillReading

LEMMA ArgumentsDoneUnnamedKeeps ==
  ASSUME IInv, NEW t \in Tools, ArgumentsDoneUnnamed(t)
  PROVE  IInv'
  <1> DEFINE s == [sent EXCEPT !.argsOnly = @ \cup {t}]
  <1>1. /\ phase = "open" /\ phase' = "open" /\ Send(s) /\ surface = "responses"
        /\ t \in sent.started /\ buffer' = Progress({t}, TRUE)
        /\ UNCHANGED <<surface, attempt, held, ready, answer, result, txn>>
    BY DEF ArgumentsDoneUnnamed, Reading, GoesOn
  <1>2. /\ s \in SentSet /\ s.started = sent.started /\ s.ended = sent.ended
        /\ s.argsOnly = sent.argsOnly \cup {t}
    BY DEF IInv, TypeOK, SentSet
  <1> HIDE DEF s
  <1>3. /\ sent' \in SentSet /\ sent'.started = sent.started
        /\ sent'.ended = sent.ended /\ sent'.argsOnly = sent.argsOnly \cup {t}
    BY <1>1, <1>2, SentFacts DEF IInv, TypeOK
  <1>4. /\ buffer' \in Buffers /\ buffer'.active = buffer.active \cup {t}
        /\ buffer'.completed = buffer.completed \cup {t} /\ buffer'.frames = buffer.frames
    BY <1>1 DEF IInv, TypeOK, Progress, Buffers
  <1>5. TypeOK'
    BY <1>1, <1>3, <1>4, LimitFacts DEF IInv, TypeOK
  <1>6. Held'
    BY <1>1, <1>3, <1>4 DEF IInv, Held, Anthropic
  <1> QED BY <1>1, <1>5, <1>6, StillReading

LEMMA ItemDoneKeeps ==
  ASSUME IInv, NEW t \in Tools, ItemDone(t)
  PROVE  IInv'
  <1> DEFINE s == [sent EXCEPT !.started = @ \cup {t}, !.ended = @ \cup {t},
                               !.argsOnly = @ \ {t}]
  <1>1. /\ phase = "open" /\ Send(s) /\ surface = "responses"
        /\ UNCHANGED <<surface, attempt, answer>>
    BY DEF ItemDone, Reading
  <1>2. /\ s \in SentSet /\ s.started = sent.started \cup {t}
        /\ s.ended = sent.ended \cup {t} /\ s.argsOnly = sent.argsOnly \ {t}
    BY DEF IInv, TypeOK, SentSet
  <1> HIDE DEF s
  <1>3. /\ sent' \in SentSet /\ sent'.started = sent.started \cup {t}
        /\ sent'.ended = sent.ended \cup {t} /\ sent'.argsOnly = sent.argsOnly \ {t}
    BY <1>1, <1>2, SentFacts DEF IInv, TypeOK
  <1>4. CASE /\ buffer' = Hold(Progress({t}, TRUE), Restored({t})) /\ GoesOn
             /\ UNCHANGED <<held, ready>>
    <2> DEFINE b == Progress({t}, TRUE)
    <2>1. /\ b \in Buffers /\ b.active = buffer.active \cup {t}
          /\ b.completed = buffer.completed \cup {t} /\ b.frames = buffer.frames
      BY DEF IInv, TypeOK, Progress, Buffers
    <2>a. {t} \in SUBSET Tools
      OBVIOUS
    <2>b. Restored({t}) \in Frames /\ Restored({t}).tools = {t}
      BY <2>a, FrameFacts
    <2>c. buffer' = Hold(b, Restored({t}))
      BY <1>4
    <2> HIDE DEF b
    <2>2. /\ buffer' \in Buffers /\ buffer'.active = buffer.active \cup {t}
          /\ buffer'.completed = buffer.completed \cup {t}
          /\ buffer'.frames.tools = buffer.frames.tools \cup {t}
      BY <2>1, <2>b, <2>c, HoldFacts
    <2>3. TypeOK'
      BY <1>1, <1>3, <1>4, <2>2, LimitFacts DEF IInv, TypeOK, GoesOn
    <2>4. Held'
      BY <1>1, <1>3, <1>4, <2>2 DEF IInv, Held, Anthropic, GoesOn
    <2> QED BY <1>1, <1>4, <2>3, <2>4, StillReading DEF GoesOn
  <1>5. ASSUME NEW kind \in Errors, LoopError(kind) PROVE IInv'
    BY <1>1, <1>3, <1>5, LoopErrorKeeps
  <1> QED BY <1>4, <1>5 DEF ItemDone

\* The frames of the held calls and of response.completed name every call.
LEMMA ResponseCompletedKeeps ==
  ASSUME IInv, NEW S \in SUBSET Tools, ResponseCompleted(S)
  PROVE  IInv'
  <1> DEFINE s == [sent EXCEPT !.started = @ \cup S, !.ended = @ \cup S, !.terminal = TRUE]
             b == Progress(S, TRUE)
             f == Join(Restored(S), Mark("end"))
  <1>1. /\ phase = "open" /\ Send(s) /\ surface = "responses" /\ sent.argsOnly \subseteq S
        /\ UNCHANGED <<surface, attempt, answer>>
    BY DEF ResponseCompleted, Reading
  <1>2. /\ s \in SentSet /\ s.started = sent.started \cup S
    BY DEF IInv, TypeOK, SentSet
  <1> HIDE DEF s
  <1>3. /\ sent' \in SentSet /\ sent'.started = sent.started \cup S
    BY <1>1, <1>2, SentFacts DEF IInv, TypeOK
  <1>4. /\ ready.tools = {} /\ ready.raw = {} /\ ready \in Frames /\ held \in Seq(Nat)
        /\ buffer \in Buffers /\ buffer.frames \in Frames
        /\ buffer.active = sent.started /\ buffer.frames.tools = sent.ended
        /\ buffer.completed = sent.ended \cup sent.argsOnly
        /\ sent.ended \subseteq sent.started
        /\ txn \in {"open", "committed", "failed"}
    BY <1>1 DEF IInv, TypeOK, Held, Anthropic, Buffers
  <1>5. f \in Frames /\ f.tools = S /\ f.raw = {} /\ "end" \in f.marks
    BY JoinFacts, FrameFacts DEF Marks
  <1>6. /\ b \in Buffers /\ b.active = sent.started \cup S /\ b.frames = buffer.frames
        /\ b.completed = buffer.completed \cup S
    BY <1>4 DEF Progress, Buffers
  <1>7. ASSUME NEW kind \in Errors, LoopError(kind) PROVE IInv'
    BY <1>1, <1>3, <1>7, LoopErrorKeeps
  <1>8. CASE LoopError("other")
    BY <1>7, <1>8 DEF Errors
  <1>9. CASE /\ S = {} /\ ready' = Join(ready, f) /\ buffer' = b /\ Conclude("ok")
             /\ UNCHANGED <<held, txn>>
    <2> HIDE DEF f, b
    <2>1. ready' \in Frames /\ ready'.tools = {} /\ ready'.raw = {} /\ "end" \in ready'.marks
      BY <1>4, <1>5, <1>9, JoinFacts
    <2> QED BY <1>1, <1>3, <1>4, <1>6, <1>9, <2>1, ConcludeKeeps
  <1>10. CASE /\ b.active \subseteq b.completed
              /\ txn' = "committed" /\ ready' = Join(ready, Join(b.frames, f))
              /\ buffer' = NoBuffer /\ Conclude("ok") /\ UNCHANGED held
    <2> HIDE DEF f, b
    <2>1. sent.ended \cup S = sent.started \cup S
      BY <1>1, <1>4, <1>6, <1>10
    <2>2. /\ Join(b.frames, f) \in Frames /\ Join(b.frames, f).tools = sent.started \cup S
          /\ "end" \in Join(b.frames, f).marks
      BY <1>4, <1>5, <1>6, <2>1, JoinFacts
    <2>3. {} \cup (sent.started \cup S) = sent.started \cup S
      OBVIOUS
    <2>4. /\ ready' \in Frames /\ ready'.tools = sent.started \cup S /\ "end" \in ready'.marks
      BY <1>4, <1>10, <2>2, <2>3, JoinFacts
    <2> QED BY <1>1, <1>3, <1>4, <1>10, <2>4, EmptyFacts, ConcludeKeeps
  <1>11. CASE /\ txn' = "failed" /\ ready' = Join(ready, Mark("fail"))
              /\ buffer' = NoBuffer /\ Conclude("ok") /\ UNCHANGED held
    <2>1. /\ ready' \in Frames /\ ready'.tools = {} /\ ready'.raw = {}
          /\ "fail" \in ready'.marks
      BY <1>4, <1>11, JoinFacts, FrameFacts DEF Marks
    <2> QED BY <1>1, <1>3, <1>4, <1>11, <2>1, EmptyFacts, ConcludeKeeps
  <1> QED BY <1>7, <1>8, <1>9, <1>10, <1>11 DEF ResponseCompleted

LEMMA ChatToolDeltaKeeps ==
  ASSUME IInv, NEW t \in Tools, NEW last \in BOOLEAN, ChatToolDelta(t, last)
  PROVE  IInv'
  <1> DEFINE s == [sent EXCEPT !.started = @ \cup {t},
                               !.ended = IF last THEN @ \cup {t} ELSE @]
  <1>1. /\ phase = "open" /\ phase' = "open" /\ Send(s) /\ surface = "chat"
        /\ buffer' = [buffer EXCEPT !.holding = TRUE, !.active = @ \cup {t}]
        /\ UNCHANGED <<surface, attempt, held, ready, answer, result, txn>>
    BY DEF ChatToolDelta, Reading, GoesOn
  <1>2. /\ s \in SentSet /\ s.started = sent.started \cup {t}
        /\ s.ended \subseteq sent.ended \cup {t}
    BY DEF IInv, TypeOK, SentSet
  <1> HIDE DEF s
  <1>3. /\ sent' \in SentSet /\ sent'.started = sent.started \cup {t}
        /\ sent'.ended \subseteq sent.ended \cup {t}
    BY <1>1, <1>2, SentFacts DEF IInv, TypeOK
  <1>4. buffer' \in Buffers /\ buffer'.active = buffer.active \cup {t}
    BY <1>1 DEF IInv, TypeOK, Buffers
  <1>5. TypeOK'
    BY <1>1, <1>3, <1>4, LimitFacts DEF IInv, TypeOK
  <1>6. Held'
    BY <1>1, <1>3, <1>4 DEF IInv, Held, Anthropic
  <1> QED BY <1>1, <1>5, <1>6, StillReading

LEMMA ChatDoneKeeps ==
  ASSUME IInv, ChatDone
  PROVE  IInv'
  <1> DEFINE s == [sent EXCEPT !.terminal = TRUE]
  <1>1. /\ phase = "open" /\ Send(s) /\ surface = "chat"
        /\ UNCHANGED <<surface, attempt, answer>>
    BY DEF ChatDone, Reading
  <1>2. /\ s \in SentSet /\ s.started = sent.started
    BY DEF IInv, TypeOK, SentSet
  <1> HIDE DEF s
  <1>3. /\ sent' \in SentSet /\ sent'.started = sent.started
    BY <1>1, <1>2, SentFacts DEF IInv, TypeOK
  <1>4. /\ ready.tools = {} /\ ready.raw = {} /\ ready \in Frames /\ held \in Seq(Nat)
        /\ buffer.active = sent.started /\ sent.started \in SUBSET Tools
        /\ <<>> \in Seq(Nat)
    BY <1>1 DEF IInv, TypeOK, Held, Anthropic, SentSet
  <1>5. CASE /\ txn' = "committed" /\ held' = <<>> /\ buffer' = NoBuffer /\ Conclude("ok")
             /\ ready' = Join(Join(ready, Texts(held)),
                              Join(Restored(buffer.active), Mark("end")))
    <2> DEFINE f == Join(ready, Texts(held))
               g == Join(Restored(buffer.active), Mark("end"))
    <2>1. f \in Frames /\ f.tools = {}
      BY <1>4, JoinFacts, FrameFacts
    <2>2. g \in Frames /\ g.tools = sent.started /\ "end" \in g.marks
      BY <1>4, JoinFacts, FrameFacts DEF Marks
    <2> HIDE DEF f, g
    <2>3. ready' = Join(f, g) /\ {} \cup sent.started = sent.started
      BY <1>5 DEF f, g
    <2>4. /\ Join(f, g) \in Frames /\ Join(f, g).tools = f.tools \cup g.tools
          /\ Join(f, g).marks = f.marks \cup g.marks
      BY <2>1, <2>2, JoinFacts
    <2>5. ready' \in Frames /\ ready'.tools = sent.started /\ "end" \in ready'.marks
      BY <2>1, <2>2, <2>3, <2>4
    <2> QED BY <1>1, <1>3, <1>4, <1>5, <2>5, EmptyFacts, ConcludeKeeps
  <1>6. CASE /\ txn' = "failed" /\ ready' = Join(ready, Mark("fail"))
             /\ buffer' = NoBuffer /\ Conclude("ok") /\ UNCHANGED held
    <2>1. /\ ready' \in Frames /\ ready'.tools = {} /\ ready'.raw = {}
          /\ "fail" \in ready'.marks
      BY <1>4, <1>6, JoinFacts, FrameFacts DEF Marks
    <2> QED BY <1>1, <1>3, <1>4, <1>6, <2>1, EmptyFacts, ConcludeKeeps
  <1>7. ASSUME NEW kind \in Errors, LoopError(kind) PROVE IInv'
    BY <1>1, <1>3, <1>7, LoopErrorKeeps
  <1>8. Handle \cup {"other"} \subseteq Errors
    BY DEF Errors
  <1> QED BY <1>5, <1>6, <1>7, <1>8 DEF ChatDone

LEMMA GoogleCallKeeps ==
  ASSUME IInv, NEW t \in Tools, GoogleCall(t)
  PROVE  IInv'
  <1> DEFINE s == [sent EXCEPT !.started = @ \cup {t}, !.ended = @ \cup {t}]
  <1>1. /\ phase = "open" /\ Send(s) /\ surface = "google"
        /\ UNCHANGED <<surface, attempt, answer>>
    BY DEF GoogleCall, Reading
  <1>2. /\ s \in SentSet /\ s.started = sent.started \cup {t} /\ s.ended = sent.ended \cup {t}
    BY DEF IInv, TypeOK, SentSet
  <1> HIDE DEF s
  <1>3. /\ sent' \in SentSet /\ sent'.started = sent.started \cup {t}
        /\ sent'.ended = sent.ended \cup {t}
    BY <1>1, <1>2, SentFacts DEF IInv, TypeOK
  <1>4. CASE ready' = Join(ready, Restored({t})) /\ GoesOn /\ UNCHANGED <<held, buffer>>
    <2>1. {t} \in SUBSET Tools /\ ready \in Frames /\ ready.tools = sent.started
      BY <1>1 DEF IInv, TypeOK, Held
    <2>2. Restored({t}) \in Frames /\ Restored({t}).tools = {t}
      BY <2>1, FrameFacts
    <2>3. ready' \in Frames /\ ready'.tools = sent.started \cup {t}
      <3>1. /\ Join(ready, Restored({t})) \in Frames
            /\ Join(ready, Restored({t})).tools = ready.tools \cup Restored({t}).tools
        BY <2>1, <2>2, JoinFacts
      <3> QED BY <1>4, <2>1, <2>2, <3>1
    <2>4. TypeOK'
      BY <1>1, <1>3, <1>4, <2>3, LimitFacts DEF IInv, TypeOK, GoesOn
    <2>5. Held'
      BY <1>1, <1>3, <1>4, <2>3 DEF IInv, Held, Anthropic, GoesOn
    <2> QED BY <1>1, <1>4, <2>4, <2>5, StillReading DEF GoesOn
  <1>5. ASSUME NEW kind \in Errors, LoopError(kind) PROVE IInv'
    BY <1>1, <1>3, <1>5, LoopErrorKeeps
  <1> QED BY <1>4, <1>5 DEF GoogleCall

LEMMA JsonBodyKeeps ==
  ASSUME IInv, NEW S \in SUBSET Tools, JsonBody(S)
  PROVE  IInv'
  <1> DEFINE s == [sent EXCEPT !.json = TRUE, !.started = S, !.ended = S, !.texts = 1,
                               !.terminal = TRUE]
  <1>1. /\ phase = "open" /\ phase' = "judge" /\ sent' = s
        /\ UNCHANGED <<surface, attempt, held, buffer, answer>>
    BY DEF JsonBody
  <1>2. s \in SentSet /\ s.started = S /\ s.json
    BY DEF IInv, TypeOK, SentSet
  <1> HIDE DEF s
  <1>3. txn = "open" /\ "ok" \notin Errors
    BY <1>1 DEF IInv, Held, Errors, Handle
  <1>4. CASE /\ ready' = Join(Texts(<<1>>), Restored(S))
             /\ \/ surface \in {"responses", "chat"} /\ txn' = "committed" /\ result' = "ok"
                \/ surface \in {"responses", "chat"} /\ txn' = "failed" /\ result' = "other"
                \/ surface \notin {"responses", "chat"} /\ result' = "ok" /\ UNCHANGED txn
    <2>1. <<1>> \in Seq(Nat) /\ {} \cup S = S
      OBVIOUS
    <2>2. /\ Texts(<<1>>) \in Frames /\ Texts(<<1>>).tools = {}
          /\ Restored(S) \in Frames /\ Restored(S).tools = S
      BY <2>1, FrameFacts
    <2>3. Join(Texts(<<1>>), Restored(S)) \in Frames
          /\ Join(Texts(<<1>>), Restored(S)).tools = {} \cup S
      <3>1. /\ Join(Texts(<<1>>), Restored(S)) \in Frames
            /\ Join(Texts(<<1>>), Restored(S)).tools = Texts(<<1>>).tools \cup Restored(S).tools
        BY <2>2, JoinFacts
      <3> QED BY <2>2, <3>1
    <2>4. ready' \in Frames /\ ready'.tools = S
      BY <1>4, <2>1, <2>3
    <2>5. TypeOK'
      BY <1>1, <1>2, <1>4, <2>4, LimitFacts DEF IInv, TypeOK, Errors
    <2>6. Judged'
      BY <1>1, <1>2, <1>3, <1>4, <2>4 DEF Judged, Errors
    <2> QED BY <1>1, <2>5, <2>6, ReadingEnds
  <1>5. CASE result' \in Errors \ {"incomplete"} /\ UNCHANGED <<ready, txn>>
    <2>1. TypeOK'
      BY <1>1, <1>2, <1>5, LimitFacts DEF IInv, TypeOK
    <2>2. Judged'
      BY <1>1, <1>3, <1>5 DEF Judged
    <2> QED BY <1>1, <2>1, <2>2, ReadingEnds
  <1> QED BY <1>4, <1>5 DEF JsonBody

-----------------------------------------------------------------------------
(* The loops around the response                                           *)

LEMMA SendRequestKeeps ==
  ASSUME IInv, SendRequest
  PROVE  IInv'
  <1>1. /\ phase = "send"
        /\ UNCHANGED <<surface, attempt, sent, held, buffer, ready, txn, result>>
    BY DEF SendRequest
  <1>2. CASE phase' = "open" /\ UNCHANGED answer
    <2>1. TypeOK'
      BY <1>1, <1>2, LimitFacts DEF IInv, TypeOK
    <2>2. /\ sent = NothingSent /\ buffer = NoBuffer /\ ready = NoFrames /\ txn = "open"
          /\ result = "none" /\ answer = NoAnswer
      BY <1>1 DEF IInv, Idle
    <2>3. Held'
      BY <1>1, <1>2, <2>2, EmptyFacts, FrameFacts DEF Held
    <2>4. Judged' /\ Idle' /\ WholeBatch' /\ CutOffReported'
      BY <1>1, <1>2, <2>2, EmptyFacts, FrameFacts
         DEF Judged, Idle, WholeBatch, CutOffReported
    <2> QED BY <2>1, <2>3, <2>4 DEF IInv
  <1>3. ASSUME NEW kind \in {"status", "error"}, Answer(kind, NoFrames) PROVE IInv'
    BY <1>1, <1>3, EmptyAnswerKeeps DEF IInv, TypeOK
  <1> QED BY <1>2, <1>3 DEF SendRequest

\* The answer is the collected frames, or carries none.
LEMMA JudgeKeeps ==
  ASSUME IInv, Judge
  PROVE  IInv'
  <1>1. /\ phase = "judge"
        /\ UNCHANGED <<surface, attempt, sent, held, buffer, ready, result>>
    BY DEF Judge
  <1>2. ASSUME NEW kind \in {"status", "stopped", "refused", "failure", "error"},
               Answer(kind, NoFrames), txn' \in {txn, "failed"}
        PROVE  IInv'
    BY <1>1, <1>2, EmptyAnswerKeeps DEF IInv, TypeOK
  <1>3. CASE /\ result = "ok" /\ Answer("response", ready)
             /\ txn' = IF surface = "messages" THEN "committed" ELSE txn
    <2>1. answer' = [kind |-> "response", frames |-> ready] /\ phase' = "answered"
      BY <1>3 DEF Answer
    <2>2. answer'.kind = "response" /\ answer'.frames = ready
      BY <2>1
    <2>3. TypeOK'
      BY <1>1, <1>3, <2>1, LimitFacts DEF IInv, TypeOK
    <2>4. WholeBatch'
      BY <1>1, <1>3, <2>2 DEF IInv, Judged, WholeBatch, Transactional
    <2>5. CutOffReported'
      BY <1>1, <1>3, <2>2 DEF IInv, Judged, CutOffReported
    <2> QED BY <2>1, <2>3, <2>4, <2>5 DEF IInv, Held, Judged, Idle
  <1>4. CASE result = "ok" /\ Accepted
    BY <1>2, <1>3, <1>4 DEF Accepted
  <1>5. CASE Stopped
    BY <1>2, <1>5 DEF Stopped
  <1>6. CASE Refused
    BY <1>2, <1>6 DEF Refused
  <1> QED BY <1>4, <1>5, <1>6 DEF Judge

LEMMA RetryKeeps ==
  ASSUME IInv, Retry
  PROVE  IInv'
  <1>1. /\ phase' = "send" /\ sent' = NothingSent /\ held' = <<>> /\ buffer' = NoBuffer
        /\ ready' = NoFrames /\ txn' = "open" /\ result' = "none"
        /\ UNCHANGED <<surface, answer>> /\ answer = NoAnswer
        /\ attempt < Limit /\ attempt' = attempt + 1
    BY DEF Retry, IInv, Idle
  <1>2. attempt' \in 0 .. Limit' /\ held' \in Seq(Nat)
    BY <1>1, LimitFacts DEF IInv, TypeOK
  <1>3. TypeOK'
    BY <1>1, <1>2, EmptyFacts, FrameFacts DEF IInv, TypeOK
  <1> QED BY <1>1, <1>3, EmptyFacts, FrameFacts
          DEF IInv, Held, Judged, Idle, WholeBatch, CutOffReported

LEMMA InitHolds == Init => IInv
  <1> SUFFICES ASSUME Init PROVE IInv
    OBVIOUS
  <1>1. 0 \in 0 .. Limit /\ <<>> \in Seq(Nat)
    BY LimitFacts
  <1>2. TypeOK
    BY <1>1, EmptyFacts, FrameFacts DEF Init, TypeOK, NoAnswer
  <1> QED BY <1>2, EmptyFacts, FrameFacts
          DEF Init, IInv, Held, Judged, Idle, WholeBatch, CutOffReported

LEMMA NextKeeps == IInv /\ [Next]_vars => IInv'
  <1> SUFFICES ASSUME IInv, [Next]_vars PROVE IInv'
    OBVIOUS
  <1>1. CASE Stream
    BY <1>1, TextDeltaKeeps, TextEndKeeps, BlockRejectedKeeps, UpstreamErrorKeeps,
       UpstreamEofKeeps, UpstreamBreaksKeeps, DrainEndsKeeps, PingKeeps, MessageStopKeeps,
       ChatDoneKeeps, ToolStartKeeps, ToolStopKeeps, GoogleCallKeeps, ItemAnnouncedKeeps,
       ArgumentsDoneUnnamedKeeps, ItemDoneKeeps, ChatToolDeltaKeeps, ResponseCompletedKeeps,
       JsonBodyKeeps DEF Stream
  <1>2. CASE UNCHANGED vars
    <2>1. TypeOK'
      BY <1>2, LimitFacts DEF vars, IInv, TypeOK
    <2> QED BY <1>2, <2>1
            DEF vars, IInv, Held, Judged, Idle, WholeBatch, CutOffReported
  <1> QED BY <1>1, <1>2, SendRequestKeeps, JudgeKeeps, RetryKeeps DEF Next, Finished

\* IInv holds whatever the model sends and however it is cut into events.
THEOREM Invariance == Spec => []IInv
  BY InitHolds, NextKeeps, PTL DEF Spec

\* The types of the surfaces' buffers, frames and answers.
THEOREM TypeCorrect == Spec => []TypeOK
  <1>1. IInv => TypeOK
    BY DEF IInv
  <1> QED BY <1>1, Invariance, PTL

\* A client that receives a tool call receives the whole batch, restored and,
\* where the surface has a transaction, committed.
THEOREM BatchesAreWhole == Spec => []WholeBatch
  <1>1. IInv => WholeBatch
    BY DEF IInv
  <1> QED BY <1>1, Invariance, PTL

\* A stream that was cut off is not delivered as a complete answer.
THEOREM CutOffsAreReported == Spec => []CutOffReported
  <1>1. IInv => CutOffReported
    BY DEF IInv
  <1> QED BY <1>1, Invariance, PTL

\* A retry follows no commit and keeps nothing of the rejected response.
THEOREM RetriesForget == Spec => RetryForgets
  <1> DEFINE Step == attempt' # attempt =>
                        /\ txn # "committed" /\ txn' = "open"
                        /\ ready' = NoFrames /\ held' = <<>> /\ buffer' = NoBuffer
  <1>1. IInv /\ [Next]_vars => [Step]_vars
    <2> SUFFICES ASSUME IInv, [Next]_vars PROVE Step
      OBVIOUS
    <2>1. CASE Stream
      BY <2>1 DEF Stream, TextDelta, TextEnd, BlockRejected, UpstreamError, UpstreamEof,
         UpstreamBreaks, DrainEnds, Ping, MessageStop, ChatDone, ToolStart, ToolStop, GoogleCall,
         ItemAnnounced, ArgumentsDoneUnnamed, ItemDone, ChatToolDelta, ResponseCompleted,
         JsonBody
    <2>2. CASE Retry
      BY <2>2 DEF Retry, IInv, Judged
    <2>3. CASE SendRequest \/ Judge \/ Finished \/ UNCHANGED vars
      BY <2>3 DEF SendRequest, Judge, Finished, vars
    <2> HIDE DEF Step
    <2> QED BY <2>1, <2>2, <2>3 DEF Next
  <1>2. Spec => [][Step]_vars
    BY <1>1, Invariance, PTL DEF Spec
  <1> QED BY <1>2, PTL DEF RetryForgets

-----------------------------------------------------------------------------
(* The text of a response: the pieces                                      *)

LEMMA PiecesFacts ==
  /\ Pieces(0) = <<>>
  /\ Pieces(1) = <<1>>
  /\ \A n \in Nat : Pieces(n) \in Seq(Nat) /\ Append(Pieces(n), n + 1) = Pieces(n + 1)
  <1>1. ASSUME NEW n \in Nat
        PROVE  /\ Pieces(n) \in Seq(Nat) /\ Len(Pieces(n)) = n
               /\ \A i \in 1 .. n : Pieces(n)[i] = i
    BY DEF Pieces
  <1>2. ASSUME NEW n \in Nat PROVE Append(Pieces(n), n + 1) = Pieces(n + 1)
    <2> DEFINE a == Append(Pieces(n), n + 1)  p == Pieces(n + 1)  q == Pieces(n)
    <2>1. /\ q \in Seq(Nat) /\ Len(q) = n /\ \A i \in 1 .. n : q[i] = i
          /\ p \in Seq(Nat) /\ Len(p) = n + 1 /\ \A i \in 1 .. (n + 1) : p[i] = i
      BY <1>1
    <2>2. a = Append(q, n + 1)
      OBVIOUS
    <2> HIDE DEF a, p, q
    <2>3. /\ a \in Seq(Nat) /\ Len(a) = n + 1
          /\ \A i \in 1 .. n : a[i] = q[i]
          /\ a[n + 1] = n + 1
      BY <2>1, <2>2, AppendProperties
    <2>4. \A i \in 1 .. Len(a) : a[i] = p[i]
      BY <2>1, <2>3
    <2>5. a = p
      BY <2>1, <2>3, <2>4, SeqEqual
    <2> QED BY <2>5 DEF a, p
  <1>3. Pieces(0) = <<>>
    BY <1>1, EmptySeq
  <1>4. Pieces(1) = <<1>>
    <2>1. Append(<<>>, 1) = <<1>>
      OBVIOUS
    <2>2. Append(Pieces(0), 0 + 1) = Pieces(0 + 1)
      BY <1>2
    <2> QED BY <1>3, <2>1, <2>2
  <1> QED BY <1>1, <1>2, <1>3, <1>4

\* z is x followed by y, element by element.
Cat(x, y, z) ==
  /\ z \in Seq(Nat) /\ Len(z) = Len(x) + Len(y)
  /\ \A i \in 1 .. Len(x) : z[i] = x[i]
  /\ \A i \in 1 .. Len(y) : z[Len(x) + i] = y[i]

LEMMA CatFacts ==
  ASSUME NEW x \in Seq(Nat), NEW y \in Seq(Nat)
  PROVE  Cat(x, y, x \o y) /\ x \o y \in Seq(Nat)
  <1> DEFINE z == x \o y
  <1>1. /\ z \in Seq(Nat) /\ Len(z) = Len(x) + Len(y)
        /\ \A i \in 1 .. Len(x) + Len(y) : z[i] = IF i <= Len(x) THEN x[i] ELSE y[i - Len(x)]
    BY ConcatProperties
  <1>2. Len(x) \in Nat /\ Len(y) \in Nat
    BY LenProperties
  <1> HIDE DEF z
  <1>3. \A i \in 1 .. Len(x) : z[i] = x[i]
    BY <1>1, <1>2
  <1>4. ASSUME NEW i \in 1 .. Len(y) PROVE z[Len(x) + i] = y[i]
    <2>1. Len(x) + i \in 1 .. Len(x) + Len(y) /\ ~(Len(x) + i <= Len(x)) /\ (Len(x) + i) - Len(x) = i
      BY <1>2
    <2> QED BY <1>1, <2>1
  <1>5. Cat(x, y, z)
    BY <1>1, <1>3, <1>4 DEF Cat
  <1> QED BY <1>1, <1>5 DEF z

LEMMA CatAssoc ==
  ASSUME NEW a \in Seq(Nat), NEW b \in Seq(Nat), NEW c \in Seq(Nat),
         NEW ab, NEW bc, NEW l, NEW r,
         Cat(a, b, ab), Cat(b, c, bc), Cat(ab, c, l), Cat(a, bc, r)
  PROVE  l = r
  <1>1. Len(a) \in Nat /\ Len(b) \in Nat /\ Len(c) \in Nat
    BY LenProperties
  <1>2. /\ Len(l) = (Len(a) + Len(b)) + Len(c) /\ Len(r) = Len(a) + (Len(b) + Len(c))
        /\ Len(ab) = Len(a) + Len(b) /\ Len(bc) = Len(b) + Len(c)
    BY DEF Cat
  <1>3. ASSUME NEW i \in 1 .. Len(l) PROVE l[i] = r[i]
    <2>1. CASE i \in 1 .. Len(a)
      <3>1. i \in 1 .. Len(ab)
        BY <1>1, <1>2, <2>1
      <3> QED BY <2>1, <3>1 DEF Cat
    <2>2. CASE i \in Len(a) + 1 .. Len(a) + Len(b)
      <3> DEFINE j == i - Len(a)
      <3>1. j \in 1 .. Len(b) /\ i = Len(a) + j
        BY <1>1, <2>2
      <3> HIDE DEF j
      <3>2. i \in 1 .. Len(ab) /\ j \in 1 .. Len(bc)
        BY <1>1, <1>2, <2>2, <3>1
      <3>3. l[i] = ab[i] /\ ab[Len(a) + j] = b[j] /\ r[Len(a) + j] = bc[j] /\ bc[j] = b[j]
        BY <3>1, <3>2 DEF Cat
      <3> QED BY <3>1, <3>3
    <2>3. CASE i \in Len(a) + Len(b) + 1 .. Len(l)
      <3> DEFINE j == i - (Len(a) + Len(b))
      <3>1. j \in 1 .. Len(c) /\ i = Len(ab) + j /\ i = Len(a) + (Len(b) + j)
        BY <1>1, <1>2, <2>3
      <3> HIDE DEF j
      <3>2. Len(b) + j \in 1 .. Len(bc)
        BY <1>1, <1>2, <3>1
      <3>3. /\ l[Len(ab) + j] = c[j] /\ r[Len(a) + (Len(b) + j)] = bc[Len(b) + j]
            /\ bc[Len(b) + j] = c[j]
        BY <3>1, <3>2 DEF Cat
      <3> QED BY <3>1, <3>3
    <2> QED BY <1>1, <1>2, <2>1, <2>2, <2>3
  <1>4. Len(l) = Len(r) /\ l \in Seq(Nat) /\ r \in Seq(Nat)
    BY <1>1, <1>2 DEF Cat
  <1> QED BY <1>3, <1>4, SeqEqual

LEMMA Assoc ==
  ASSUME NEW a \in Seq(Nat), NEW b \in Seq(Nat), NEW c \in Seq(Nat)
  PROVE  (a \o b) \o c = a \o (b \o c)
  <1>1. PICK ab : ab = a \o b /\ Cat(a, b, ab) /\ ab \in Seq(Nat)
    BY CatFacts, Zenon
  <1>2. PICK bc : bc = b \o c /\ Cat(b, c, bc) /\ bc \in Seq(Nat)
    BY CatFacts, Zenon
  <1>3. PICK l : l = ab \o c /\ Cat(ab, c, l)
    BY <1>1, CatFacts, Zenon
  <1>4. PICK r : r = a \o bc /\ Cat(a, bc, r)
    BY <1>2, CatFacts, Zenon
  <1>5. l = r
    BY <1>1, <1>2, <1>3, <1>4, CatAssoc
  <1> QED BY <1>1, <1>2, <1>3, <1>4, <1>5, Zenon

\* Text moves from what is held to what is released without changing its place.
SameText(r, b, o, k) == (r \o (b \o o)) \o k = (r \o b) \o (o \o k)

LEMMA Behind ==
  ASSUME NEW r \in Seq(Nat), NEW b \in Seq(Nat), NEW o \in Seq(Nat), NEW k \in Seq(Nat)
  PROVE  SameText(r, b, o, k)
  <1>1. PICK rb \in Seq(Nat) : rb = r \o b /\ Cat(r, b, rb)
    BY CatFacts, Zenon
  <1>2. PICK bo \in Seq(Nat) : bo = b \o o /\ Cat(b, o, bo)
    BY CatFacts, Zenon
  <1>3. PICK ok \in Seq(Nat) : ok = o \o k /\ Cat(o, k, ok)
    BY CatFacts, Zenon
  <1>4. PICK u \in Seq(Nat) : u = r \o bo /\ Cat(r, bo, u)
    BY CatFacts, Zenon
  <1>5. PICK v \in Seq(Nat) : v = rb \o o /\ Cat(rb, o, v)
    BY CatFacts, Zenon
  <1>6. PICK l \in Seq(Nat) : l = u \o k /\ Cat(u, k, l)
    BY CatFacts, Zenon
  <1>7. PICK m \in Seq(Nat) : m = rb \o ok /\ Cat(rb, ok, m)
    BY CatFacts, Zenon
  <1>c. /\ Cat(r, b, rb) /\ Cat(b, o, bo) /\ Cat(o, k, ok) /\ Cat(r, bo, u) /\ Cat(rb, o, v)
        /\ Cat(u, k, l) /\ Cat(rb, ok, m)
    BY <1>1, <1>2, <1>3, <1>4, <1>5, <1>6, <1>7, Zenon
  <1>8. v = u
    BY <1>c, CatAssoc
  <1>9. l = m
    BY <1>c, <1>8, CatAssoc
  <1> QED BY <1>1, <1>2, <1>3, <1>4, <1>6, <1>7, <1>9, Zenon DEF SameText

LEMMA Released ==
  ASSUME NEW r \in Seq(Nat), NEW o \in Seq(Nat), NEW k \in Seq(Nat)
  PROVE  ((r \o o) \o <<>>) \o k = (r \o <<>>) \o (o \o k)
  <1>1. PICK ro \in Seq(Nat) : ro = r \o o
    BY CatFacts, Zenon
  <1>2. ro \o <<>> = ro /\ r \o <<>> = r
    BY ConcatEmptySeq
  <1>3. (r \o o) \o k = r \o (o \o k)
    BY Assoc
  <1> QED BY <1>1, <1>2, <1>3, Zenon

LEMMA AppendLast ==
  ASSUME NEW r \in Seq(Nat), NEW h \in Seq(Nat), NEW p \in Nat
  PROVE  r \o Append(h, p) = Append(r \o h, p)
  <1>1. Append(h, p) = h \o <<p>> /\ <<p>> \in Seq(Nat) /\ r \o h \in Seq(Nat)
    BY AppendIsConcat, ConcatProperties
  <1>2. Append(r \o h, p) = (r \o h) \o <<p>>
    BY <1>1, AppendIsConcat
  <1>3. (r \o h) \o <<p>> = r \o (h \o <<p>>)
    BY <1>1, Assoc
  <1> QED BY <1>1, <1>2, <1>3

\* The text of the frames the surfaces make.
LEMMA FrameTexts ==
  /\ NoFrames.texts = <<>>
  /\ \A s \in Seq(Nat) : Texts(s).texts = s
  /\ \A m \in Marks : Mark(m).texts = <<>>
  /\ \A S \in SUBSET Tools : Restored(S).texts = <<>>
  /\ \A t \in Tools : Announced(t).texts = <<>>
  /\ \A f \in Frames : f.texts \in Seq(Nat)
  BY DEF NoFrames, Texts, Mark, Restored, Announced, Frame, Frames

LEMMA JoinTexts ==
  ASSUME NEW f \in Frames, NEW g \in Frames
  PROVE  /\ Join(f, g).texts = f.texts \o g.texts
         /\ g.texts = <<>> => Join(f, g).texts = f.texts
  <1>1. Join(f, g).texts = f.texts \o g.texts
    BY DEF Join, Frame
  <1>2. f.texts \in Seq(Nat)
    BY FrameTexts
  <1>3. f.texts \o <<>> = f.texts
    BY <1>2, ConcatEmptySeq
  <1> QED BY <1>1, <1>3

LEMMA SentTexts ==
  ASSUME sent \in SentSet, NEW s \in SentSet, Send(s)
  PROVE  /\ sent'.texts = s.texts /\ sent'.textOpen = s.textOpen /\ sent'.terminal = s.terminal
  BY DEF Send, SentSet

-----------------------------------------------------------------------------
(* The text of a response: the kinds of steps                              *)

\* A step that leaves the text where it is.
LEMMA TextsStay ==
  ASSUME IInv, TextInv, phase = "open", phase' = "open",
         UNCHANGED <<surface, answer, held>>,
         ready'.texts = ready.texts, buffer'.frames.texts = buffer.frames.texts,
         sent'.texts = sent.texts,
         ~sent'.textOpen => ~sent.textOpen \/ held = <<>>,
         buffer'.holding # buffer.holding =>
            /\ buffer'.holding /\ surface # "google"
            /\ surface \in Anthropic => ~sent.textOpen
  PROVE  TextInv'
  <1>1. TextsHeld'
    BY DEF TextInv, TextsHeld, IInv, TypeOK, Buffers
  <1>2. answer.kind = "none"
    BY EmptyFacts DEF IInv, Idle
  <1> QED BY <1>1, <1>2 DEF TextInv, TextsJudged, TextKept

\* A step that ends the reading.
LEMMA TextsEnd ==
  ASSUME IInv, phase = "open", phase' \in {"drain", "judge"}, answer' = answer,
         result' = "ok" /\ sent'.terminal /\ "fail" \notin ready'.marks =>
            ready'.texts = Pieces(sent'.texts)
  PROVE  TextInv'
  <1>1. answer.kind = "none"
    BY EmptyFacts DEF IInv, Idle
  <1> QED BY <1>1 DEF TextInv, TextsHeld, TextsJudged, TextKept

\* A rejected block withholds the response or marks it as failed.
LEMMA TextsRejected ==
  ASSUME IInv, phase = "open", NEW kind \in Errors, LoopError(kind), answer' = answer
  PROVE  TextInv'
  <1>1. phase' \in {"drain", "judge"}
    BY DEF LoopError
  <1>2. kind # "ok"
    BY DEF Errors, Handle
  <1>3. result' = "ok" => "fail" \in ready'.marks
    <2>1. result' = "ok" => ready' = Join(ready, Mark("fail"))
      BY <1>2 DEF LoopError
    <2>2. ready \in Frames /\ Mark("fail") \in Frames /\ Mark("fail").marks = {"fail"}
      BY FrameFacts DEF Marks, IInv, TypeOK
    <2> QED BY <2>1, <2>2, JoinFacts
  <1> QED BY <1>1, <1>3, TextsEnd

\* Text goes out, to the client or behind the held tool calls.
LEMMA TextsEmitted ==
  ASSUME IInv, TextInv, phase = "open", phase' = "open",
         UNCHANGED <<surface, answer>>,
         NEW o \in Seq(Nat), Emit(Texts(o)), held' \in Seq(Nat),
         \/ o \o held' = held /\ sent'.texts = sent.texts
         \/ o \o held' = Append(held, sent.texts + 1) /\ sent'.texts = sent.texts + 1,
         ~sent'.textOpen => held' = <<>>,
         surface = "google" \/ (surface \in Anthropic /\ buffer.holding) => held' = <<>>
  PROVE  TextInv'
  <1> DEFINE r == ready.texts  b == buffer.frames.texts
  <1>1. /\ ready \in Frames /\ buffer \in Buffers /\ buffer.frames \in Frames
        /\ held \in Seq(Nat) /\ sent.texts \in Nat
    BY DEF IInv, TypeOK, Buffers, SentSet
  <1>2. r \in Seq(Nat) /\ b \in Seq(Nat) /\ Texts(o) \in Frames /\ Texts(o).texts = o
    BY <1>1, FrameTexts, FrameFacts
  <1>3. /\ (r \o b) \o held = Pieces(sent.texts)
        /\ surface = "google" => held = <<>> /\ ~buffer.holding
        /\ surface = "chat" \/ ~buffer.holding => b = <<>>
    BY DEF TextInv, TextsHeld
  <1>4. (r \o b) \o (o \o held') = Pieces(sent'.texts)
    <2>1. CASE o \o held' = held /\ sent'.texts = sent.texts
      BY <1>3, <2>1
    <2>2. CASE o \o held' = Append(held, sent.texts + 1) /\ sent'.texts = sent.texts + 1
      <3>1. r \o b \in Seq(Nat) /\ sent.texts + 1 \in Nat
        BY <1>1, <1>2, ConcatProperties
      <3> HIDE DEF r, b
      <3>2. (r \o b) \o Append(held, sent.texts + 1) = Append((r \o b) \o held, sent.texts + 1)
        BY <1>1, <3>1, AppendLast
      <3>3. Append(Pieces(sent.texts), sent.texts + 1) = Pieces(sent.texts + 1)
        BY <1>1, PiecesFacts
      <3> QED BY <1>3, <2>2, <3>2, <3>3
    <2> QED BY <2>1, <2>2
  <1>5. /\ buffer'.holding = buffer.holding
        /\ \/ /\ surface # "chat" /\ buffer.holding
              /\ ready'.texts = r /\ buffer'.frames.texts = b \o o
           \/ /\ surface = "chat" \/ ~buffer.holding
              /\ ready'.texts = r \o o /\ buffer'.frames.texts = b
    <2>1. CASE surface # "chat" /\ buffer.holding
      <3>1. buffer' = [buffer EXCEPT !.frames = Join(@, Texts(o))] /\ ready' = ready
        BY <2>1 DEF Emit
      <3>2. buffer'.frames = Join(buffer.frames, Texts(o)) /\ buffer'.holding = buffer.holding
        BY <1>1, <3>1 DEF Buffers
      <3>3. Join(buffer.frames, Texts(o)).texts = buffer.frames.texts \o Texts(o).texts
        BY <1>1, <1>2, JoinTexts
      <3> QED BY <1>2, <2>1, <3>1, <3>2, <3>3, Zenon
    <2>2. CASE ~(surface # "chat" /\ buffer.holding)
      <3>1. ready' = Join(ready, Texts(o)) /\ buffer' = buffer
        BY <2>2 DEF Emit
      <3> QED BY <1>1, <1>2, <2>2, <3>1, JoinTexts
    <2> QED BY <2>1, <2>2
  <1> HIDE DEF r, b
  <1>6. (ready'.texts \o buffer'.frames.texts) \o held' = Pieces(sent'.texts)
    <2>1. /\ (r \o (b \o o)) \o held' = (r \o b) \o (o \o held')
          /\ ((r \o o) \o <<>>) \o held' = (r \o <<>>) \o (o \o held')
      <3>1. PICK x \in Seq(Nat), y \in Seq(Nat), k \in Seq(Nat) : x = r /\ y = b /\ k = held'
        BY <1>2, Zenon
      <3>2. (x \o (y \o o)) \o k = (x \o y) \o (o \o k)
        <4>1. SameText(x, y, o, k)
          BY Behind
        <4> QED BY <4>1, Zenon DEF SameText
      <3>3. ((x \o o) \o <<>>) \o k = (x \o <<>>) \o (o \o k)
        BY Released
      <3> QED BY <3>1, <3>2, <3>3, Zenon
    <2> QED BY <1>3, <1>4, <1>5, <2>1
  <1>7. surface = "chat" \/ ~buffer.holding => buffer'.frames.texts = <<>>
    BY <1>3, <1>5
  <1>8. TextsHeld'
    BY <1>3, <1>5, <1>6, <1>7 DEF TextsHeld
  <1>9. answer.kind = "none"
    BY EmptyFacts DEF IInv, Idle
  <1> QED BY <1>8, <1>9 DEF TextInv, TextsJudged, TextKept

LEMMA Flushed ==
  ASSUME NEW r \in Seq(Nat), NEW h \in Seq(Nat)
  PROVE  (r \o <<>>) \o h = r \o h /\ (r \o h) \o <<>> = r \o h
  <1>1. PICK rh \in Seq(Nat) : rh = r \o h
    BY CatFacts, Zenon
  <1>2. rh \o <<>> = rh /\ r \o <<>> = r
    BY ConcatEmptySeq
  <1> QED BY <1>1, <1>2, Zenon

\* What is where, while a response is read.
LEMMA ReadingTexts ==
  ASSUME IInv, TextInv, phase = "open"
  PROVE  /\ ready \in Frames /\ buffer \in Buffers /\ buffer.frames \in Frames
         /\ held \in Seq(Nat) /\ sent \in SentSet /\ sent.texts \in Nat
         /\ ready.texts \in Seq(Nat)
         /\ held = <<>> => ready.texts \o buffer.frames.texts = Pieces(sent.texts)
         /\ ~buffer.holding \/ surface = "chat" => ready.texts \o held = Pieces(sent.texts)
         /\ ~buffer.holding /\ held = <<>> => ready.texts = Pieces(sent.texts)
         /\ ~sent.textOpen => held = <<>>
         /\ surface = "google" => held = <<>> /\ ~buffer.holding
         /\ surface \in Anthropic /\ buffer.holding => held = <<>>
         /\ answer.kind = "none"
  <1>1. /\ ready \in Frames /\ buffer \in Buffers /\ buffer.frames \in Frames
        /\ held \in Seq(Nat) /\ sent \in SentSet /\ sent.texts \in Nat
    BY DEF IInv, TypeOK, Buffers, SentSet
  <1>2. PICK r \in Seq(Nat), b \in Seq(Nat), h \in Seq(Nat) :
          r = ready.texts /\ b = buffer.frames.texts /\ h = held
    BY <1>1, FrameTexts, Zenon
  <1>3. (r \o b) \o h = Pieces(sent.texts)
    BY <1>2, Zenon DEF TextInv, TextsHeld
  <1>4. h = <<>> => r \o b = Pieces(sent.texts)
    BY <1>3, Flushed, Zenon
  <1>5. b = <<>> => r \o h = Pieces(sent.texts)
    BY <1>3, Flushed, Zenon
  <1>6. b = <<>> /\ h = <<>> => r = Pieces(sent.texts)
    <2>1. r \o <<>> = r
      BY ConcatEmptySeq
    <2> QED BY <1>4, <2>1, Zenon
  <1>7. /\ ~sent.textOpen => held = <<>>
        /\ surface = "google" => held = <<>> /\ ~buffer.holding
        /\ surface \in Anthropic /\ buffer.holding => held = <<>>
        /\ surface = "chat" \/ ~buffer.holding => buffer.frames.texts = <<>>
    BY DEF TextInv, TextsHeld
  <1>8. answer.kind = "none"
    BY EmptyFacts DEF IInv, Idle
  <1> QED BY <1>1, <1>2, <1>4, <1>5, <1>6, <1>7, <1>8, Zenon

\* An answer without frames says nothing about the text.
LEMMA TextsAnswered ==
  ASSUME phase' = "answered", answer'.kind # "response"
  PROVE  TextInv'
  BY DEF TextInv, TextsHeld, TextsJudged, TextKept

-----------------------------------------------------------------------------
(* The text of a response: the steps                                       *)

LEMMA TextDeltaTexts ==
  ASSUME IInv, TextInv, TextDelta
  PROVE  TextInv'
  <1> DEFINE s == [sent EXCEPT !.texts = @ + 1, !.textOpen = TRUE]
             piece == sent.texts + 1
  <1>1. /\ phase = "open" /\ surface' = surface /\ answer' = answer /\ Send(s)
    BY DEF TextDelta, Reading
  <1>2. sent \in SentSet /\ sent.texts \in Nat /\ held \in Seq(Nat) /\ piece \in Nat
    BY DEF IInv, TypeOK, SentSet
  <1>3. s \in SentSet /\ s.texts = piece /\ s.textOpen
    BY <1>2 DEF SentSet
  <1> HIDE DEF s
  <1>4. sent'.texts = piece /\ sent'.textOpen
    BY <1>1, <1>2, <1>3, SentTexts
  <1>5. ASSUME Emit(Texts(<<piece>>)), GoesOn, held' = held,
               surface = "google" \/ (surface \in Anthropic /\ buffer.holding)
        PROVE  TextInv'
    <2>1. held = <<>>
      BY <1>1, <1>5, ReadingTexts
    <2>2. <<piece>> \in Seq(Nat) /\ held' \in Seq(Nat) /\ held' = <<>>
      BY <1>2, <1>5, <2>1
    <2>3. <<piece>> \o <<>> = Append(<<>>, piece)
      OBVIOUS
    <2>4. <<piece>> \o held' = Append(held, sent.texts + 1) /\ sent'.texts = sent.texts + 1
      BY <1>4, <2>1, <2>2, <2>3, Zenon
    <2>5. phase' = "open"
      BY <1>1, <1>5 DEF GoesOn
    <2> HIDE DEF piece
    <2> QED BY <1>1, <1>4, <1>5, <2>2, <2>4, <2>5, TextsEmitted
  <1>6. ASSUME NEW opens \in BOOLEAN, Emit(Texts(Push(piece, opens).out)),
               held' = Push(piece, opens).held, GoesOn,
               surface # "google" /\ ~(surface \in Anthropic /\ buffer.holding)
        PROVE  TextInv'
    <2>1. Push(piece, opens).out \in Seq(Nat) /\ held' \in Seq(Nat)
      BY <1>2, <1>6, PushFacts
    <2>2. Append(held, piece) \in Seq(Nat)
      BY <1>2, AppendProperties
    <2>3. <<>> \o Append(held, piece) = Append(held, piece)
          /\ Append(held, piece) \o <<>> = Append(held, piece)
      BY <2>2, ConcatEmptySeq
    <2>4. Push(piece, opens).out \o held' = Append(held, piece)
      <3>1. CASE opens
        <4>1. Push(piece, opens).out = <<>> /\ Push(piece, opens).held = Append(held, piece)
          BY <3>1 DEF Push
        <4> QED BY <4>1, <1>6, <2>3, Zenon
      <3>2. CASE ~opens
        <4>1. Push(piece, opens).out = Append(held, piece) /\ Push(piece, opens).held = <<>>
          BY <3>2 DEF Push
        <4> QED BY <4>1, <1>6, <2>3, Zenon
      <3> QED BY <3>1, <3>2
    <2>5. phase' = "open"
      BY <1>1, <1>6 DEF GoesOn
    <2>6. PICK o \in Seq(Nat) : o = Push(piece, opens).out
      BY <2>1
    <2>7. Emit(Texts(o)) /\ o \o held' = Append(held, sent.texts + 1) /\ sent'.texts = sent.texts + 1
      BY <1>4, <1>6, <2>4, <2>6, Zenon
    <2> HIDE DEF piece
    <2> QED BY <1>1, <1>4, <1>6, <2>1, <2>5, <2>7, TextsEmitted
  <1>7. ASSUME NEW kind \in Errors, LoopError(kind) PROVE TextInv'
    BY <1>1, <1>7, TextsRejected
  <1> QED BY <1>5, <1>6, <1>7 DEF TextDelta

LEMMA TextEndTexts ==
  ASSUME IInv, TextInv, TextEnd
  PROVE  TextInv'
  <1> DEFINE s == [sent EXCEPT !.textOpen = FALSE]
  <1>1. /\ phase = "open" /\ phase' = "open" /\ surface' = surface /\ answer' = answer
        /\ Send(s) /\ surface # "google"
    BY DEF TextEnd, Reading, GoesOn
  <1>2. sent \in SentSet /\ held \in Seq(Nat)
    BY DEF IInv, TypeOK
  <1>3. s \in SentSet /\ s.texts = sent.texts /\ ~s.textOpen
    BY <1>2 DEF SentSet
  <1> HIDE DEF s
  <1>4. sent'.texts = sent.texts /\ ~sent'.textOpen
    BY <1>1, <1>2, <1>3, SentTexts
  <1>5. CASE surface \in Anthropic /\ buffer.holding /\ UNCHANGED <<held, buffer, ready>>
    <2>1. held = <<>>
      BY <1>1, <1>5, ReadingTexts
    <2> QED BY <1>1, <1>4, <1>5, <2>1, TextsStay
  <1>6. CASE ~(surface \in Anthropic /\ buffer.holding) /\ Emit(Texts(held)) /\ held' = <<>>
    <2>1. held' \in Seq(Nat)
      BY <1>6
    <2>2. held \o <<>> = held
      BY <1>2, ConcatEmptySeq
    <2>3. PICK o \in Seq(Nat) : o = held
      BY <1>2
    <2>4. Emit(Texts(o)) /\ o \o held' = held
      BY <1>6, <2>2, <2>3, Zenon
    <2> QED BY <1>1, <1>4, <1>6, <2>1, <2>4, TextsEmitted
  <1> QED BY <1>5, <1>6 DEF TextEnd

\* The response ends with text and, where the surface holds some, what was held.
LEMMA JoinedTexts ==
  ASSUME NEW f \in Frames, NEW g \in Frames, NEW h \in Frames, h.texts = <<>>
  PROVE  /\ Join(Join(f, g), h) \in Frames /\ Join(Join(f, g), h).texts = f.texts \o g.texts
         /\ Join(f, Join(g, h)) \in Frames /\ Join(f, Join(g, h)).texts = f.texts \o g.texts
  <1>1. Join(f, g) \in Frames /\ Join(g, h) \in Frames
    BY JoinFacts
  <1>2. Join(f, g).texts = f.texts \o g.texts /\ Join(g, h).texts = g.texts
    BY JoinTexts
  <1>3. Join(Join(f, g), h) \in Frames /\ Join(Join(f, g), h).texts = Join(f, g).texts
    BY <1>1, JoinFacts, JoinTexts
  <1>4. Join(f, Join(g, h)) \in Frames /\ Join(f, Join(g, h)).texts = f.texts \o Join(g, h).texts
    BY <1>1, JoinFacts, JoinTexts
  <1> QED BY <1>2, <1>3, <1>4, Zenon

LEMMA Concluded ==
  ASSUME Conclude("ok")
  PROVE  phase' \in {"drain", "judge"}
  BY DEF Conclude

\* A failure that is reported in the stream.
LEMMA TextsFailed ==
  ASSUME IInv, phase = "open", phase' \in {"drain", "judge"}, answer' = answer,
         ready' = Join(ready, Mark("fail"))
  PROVE  TextInv'
  <1>1. ready \in Frames /\ Mark("fail") \in Frames /\ Mark("fail").marks = {"fail"}
    BY FrameFacts DEF Marks, IInv, TypeOK
  <1>2. "fail" \in ready'.marks
    BY <1>1, JoinFacts
  <1> QED BY <1>2, TextsEnd

LEMMA UpstreamEofTexts ==
  ASSUME IInv, TextInv, UpstreamEof
  PROVE  TextInv'
  <1>1. phase = "open" /\ surface' = surface /\ answer' = answer /\ sent' = sent
    BY DEF UpstreamEof
  <1>2. CASE surface \in Anthropic /\ buffer.holding
    <2>1. phase' = "judge" /\ (result' = "ok" => ready' = Join(ready, Mark("fail")))
      BY <1>1, <1>2 DEF UpstreamEof, Anthropic
    <2> QED BY <1>1, <2>1, TextsFailed, TextsEnd
  <1>3. CASE surface \in Anthropic /\ ~buffer.holding
    <2>1. phase' = "judge" /\ ready' = Join(ready, Texts(held))
      BY <1>1, <1>3 DEF UpstreamEof, Anthropic
    <2>2. ready \in Frames /\ held \in Seq(Nat) /\ ready.texts \o held = Pieces(sent.texts)
      BY <1>1, <1>3, ReadingTexts
    <2>3. Texts(held) \in Frames /\ Texts(held).texts = held
      BY <2>2, FrameFacts, FrameTexts
    <2>4. Join(ready, Texts(held)).texts = ready.texts \o Texts(held).texts
      BY <2>2, <2>3, JoinTexts
    <2>5. ready'.texts = Pieces(sent'.texts)
      BY <1>1, <2>1, <2>2, <2>3, <2>4, Zenon
    <2> QED BY <1>1, <2>1, <2>5, TextsEnd
  <1>4. CASE surface = "google"
    <2>1. phase' = "judge" /\ ready' = ready
      BY <1>1, <1>4 DEF UpstreamEof, Anthropic
    <2>2. ready.texts = Pieces(sent.texts)
      BY <1>1, <1>4, ReadingTexts
    <2> QED BY <1>1, <2>1, <2>2, TextsEnd
  <1>5. CASE surface \notin Anthropic \cup {"google"}
    <2>1. LoopError("other") /\ "other" \in Errors
      BY <1>1, <1>5 DEF UpstreamEof, Errors
    <2> QED BY <1>1, <2>1, TextsRejected
  <1> QED BY <1>2, <1>3, <1>4, <1>5

LEMMA UpstreamBreaksTexts ==
  ASSUME IInv, TextInv, UpstreamBreaks
  PROVE  TextInv'
  <1>1. CASE surface \in {"responses", "chat"}
    <2>1. phase = "open" /\ LoopError("other") /\ "other" \in Errors /\ answer' = answer
      BY <1>1 DEF UpstreamBreaks, IInv, Idle, Anthropic, Errors
    <2> QED BY <2>1, TextsRejected
  <1>2. CASE surface \notin {"responses", "chat"}
    <2>1. answer' = [kind |-> "error", frames |-> NoFrames] /\ phase' = "answered"
      BY <1>2 DEF UpstreamBreaks, Answer
    <2> QED BY <2>1, TextsAnswered
  <1> QED BY <1>1, <1>2

LEMMA MessageStopTexts ==
  ASSUME IInv, TextInv, MessageStop
  PROVE  TextInv'
  <1> DEFINE s == [sent EXCEPT !.terminal = TRUE]
  <1>1. /\ phase = "open" /\ Send(s) /\ surface \in Anthropic
        /\ surface' = surface /\ answer' = answer
    BY DEF MessageStop, Reading
  <1>2. /\ ready \in Frames /\ buffer \in Buffers /\ buffer.frames \in Frames
        /\ held \in Seq(Nat) /\ sent \in SentSet
        /\ held = <<>> => ready.texts \o buffer.frames.texts = Pieces(sent.texts)
        /\ ~buffer.holding => ready.texts \o held = Pieces(sent.texts)
        /\ buffer.holding => held = <<>>
    BY <1>1, ReadingTexts
  <1>3. s \in SentSet /\ s.texts = sent.texts /\ s.textOpen = sent.textOpen
    BY <1>2 DEF SentSet
  <1> HIDE DEF s
  <1>4. sent'.texts = sent.texts /\ sent'.textOpen = sent.textOpen
    BY <1>1, <1>2, <1>3, SentTexts
  <1>5. Mark("end") \in Frames /\ Mark("end").texts = <<>>
    BY FrameFacts, FrameTexts DEF Marks
  <1>6. CASE /\ ~buffer.holding
             /\ ready' = Join(Join(ready, Texts(held)), Mark("end")) /\ Conclude("ok")
    <2>1. Texts(held) \in Frames /\ Texts(held).texts = held
      BY <1>2, FrameFacts, FrameTexts
    <2>2. Join(Join(ready, Texts(held)), Mark("end")).texts = ready.texts \o Texts(held).texts
      BY <1>2, <1>5, <2>1, JoinedTexts
    <2>3. ready'.texts = Pieces(sent'.texts)
      BY <1>2, <1>4, <1>6, <2>1, <2>2, Zenon
    <2> QED BY <1>1, <1>6, <2>3, Concluded, TextsEnd
  <1>7. CASE /\ buffer.holding
             /\ ready' = Join(ready, Join(Rewrite(buffer.frames, sent.ended), Mark("end")))
             /\ Conclude("ok")
    <2> DEFINE g == Rewrite(buffer.frames, sent.ended)
    <2>1. g \in Frames /\ g.texts = buffer.frames.texts
      BY <1>2 DEF Rewrite, Frames, SentSet
    <2> HIDE DEF g
    <2>2. Join(ready, Join(g, Mark("end"))).texts = ready.texts \o g.texts
      BY <1>2, <1>5, <2>1, JoinedTexts
    <2>3. ready' = Join(ready, Join(g, Mark("end")))
      BY <1>7 DEF g
    <2>4. ready'.texts = Pieces(sent'.texts)
      BY <1>2, <1>4, <1>7, <2>1, <2>2, <2>3, Zenon
    <2> QED BY <1>1, <1>7, <2>4, Concluded, TextsEnd
  <1>8. ASSUME NEW kind \in Errors, LoopError(kind) PROVE TextInv'
    BY <1>1, <1>8, TextsRejected
  <1>9. CASE GoesOn /\ UNCHANGED <<held, buffer, ready>>
    BY <1>1, <1>4, <1>9, TextsStay DEF GoesOn
  <1> QED BY <1>6, <1>7, <1>8, <1>9 DEF MessageStop

LEMMA ResponseCompletedTexts ==
  ASSUME IInv, TextInv, NEW S \in SUBSET Tools, ResponseCompleted(S)
  PROVE  TextInv'
  <1> DEFINE s == [sent EXCEPT !.started = @ \cup S, !.ended = @ \cup S, !.terminal = TRUE]
             b == Progress(S, TRUE)
             f == Join(Restored(S), Mark("end"))
  <1>1. /\ phase = "open" /\ Send(s) /\ surface = "responses" /\ ~sent.textOpen
        /\ surface' = surface /\ answer' = answer
    BY DEF ResponseCompleted, Reading
  <1>2. /\ ready \in Frames /\ buffer \in Buffers /\ buffer.frames \in Frames
        /\ sent \in SentSet
        /\ ready.texts \o buffer.frames.texts = Pieces(sent.texts)
        /\ ~buffer.holding => ready.texts = Pieces(sent.texts)
    BY <1>1, ReadingTexts
  <1>3. s \in SentSet /\ s.texts = sent.texts
    BY <1>2 DEF SentSet
  <1> HIDE DEF s
  <1>4. sent'.texts = sent.texts
    BY <1>1, <1>2, <1>3, SentTexts
  <1>5. f \in Frames /\ f.texts = <<>>
    <2>1. /\ Restored(S) \in Frames /\ Restored(S).texts = <<>>
          /\ Mark("end") \in Frames /\ Mark("end").texts = <<>>
      BY FrameFacts, FrameTexts DEF Marks
    <2> QED BY <2>1, JoinFacts, JoinTexts
  <1>6. b.frames = buffer.frames
    BY <1>2 DEF Progress, Buffers
  <1> HIDE DEF b, f
  <1>7. ASSUME NEW kind \in Errors, LoopError(kind) PROVE TextInv'
    BY <1>1, <1>7, TextsRejected
  <1>8. CASE LoopError("other")
    BY <1>7, <1>8 DEF Errors
  <1>9. CASE ~buffer.holding /\ ready' = Join(ready, f) /\ Conclude("ok")
    <2>1. ready'.texts = ready.texts
      BY <1>2, <1>5, <1>9, JoinTexts
    <2> QED BY <1>1, <1>2, <1>4, <1>9, <2>1, Concluded, TextsEnd
  <1>10. CASE ready' = Join(ready, Join(b.frames, f)) /\ Conclude("ok")
    <2>1. Join(ready, Join(buffer.frames, f)).texts = ready.texts \o buffer.frames.texts
      BY <1>2, <1>5, JoinedTexts
    <2>2. ready'.texts = Pieces(sent'.texts)
      BY <1>2, <1>4, <1>6, <1>10, <2>1, Zenon
    <2> QED BY <1>1, <1>10, <2>2, Concluded, TextsEnd
  <1>11. CASE ready' = Join(ready, Mark("fail")) /\ Conclude("ok")
    BY <1>1, <1>11, Concluded, TextsFailed
  <1> QED BY <1>7, <1>8, <1>9, <1>10, <1>11 DEF ResponseCompleted, b, f

LEMMA ChatDoneTexts ==
  ASSUME IInv, TextInv, ChatDone
  PROVE  TextInv'
  <1> DEFINE s == [sent EXCEPT !.terminal = TRUE]
             g == Join(Restored(buffer.active), Mark("end"))
  <1>1. /\ phase = "open" /\ Send(s) /\ surface = "chat"
        /\ surface' = surface /\ answer' = answer
    BY DEF ChatDone, Reading
  <1>2. /\ ready \in Frames /\ buffer \in Buffers /\ held \in Seq(Nat) /\ sent \in SentSet
        /\ ready.texts \o held = Pieces(sent.texts)
    BY <1>1, ReadingTexts
  <1>3. s \in SentSet /\ s.texts = sent.texts
    BY <1>2 DEF SentSet
  <1> HIDE DEF s
  <1>4. sent'.texts = sent.texts
    BY <1>1, <1>2, <1>3, SentTexts
  <1>5. g \in Frames /\ g.texts = <<>>
    <2>1. buffer.active \in SUBSET Tools
      BY <1>2 DEF Buffers
    <2>2. /\ Restored(buffer.active) \in Frames /\ Restored(buffer.active).texts = <<>>
          /\ Mark("end") \in Frames /\ Mark("end").texts = <<>>
      BY <2>1, FrameFacts, FrameTexts DEF Marks
    <2> QED BY <2>2, JoinFacts, JoinTexts
  <1> HIDE DEF g
  <1>6. CASE ready' = Join(Join(ready, Texts(held)), g) /\ Conclude("ok")
    <2>1. Texts(held) \in Frames /\ Texts(held).texts = held
      BY <1>2, FrameFacts, FrameTexts
    <2>2. Join(Join(ready, Texts(held)), g).texts = ready.texts \o Texts(held).texts
      BY <1>2, <1>5, <2>1, JoinedTexts
    <2>3. ready'.texts = Pieces(sent'.texts)
      BY <1>2, <1>4, <1>6, <2>1, <2>2, Zenon
    <2> QED BY <1>1, <1>6, <2>3, Concluded, TextsEnd
  <1>7. CASE ready' = Join(ready, Mark("fail")) /\ Conclude("ok")
    BY <1>1, <1>7, Concluded, TextsFailed
  <1>8. ASSUME NEW kind \in Handle \cup {"other"}, LoopError(kind) PROVE TextInv'
    BY <1>1, <1>8, TextsRejected DEF Errors
  <1> QED BY <1>6, <1>7, <1>8 DEF ChatDone, g

LEMMA JsonBodyTexts ==
  ASSUME IInv, TextInv, NEW S \in SUBSET Tools, JsonBody(S)
  PROVE  TextInv'
  <1>1. /\ phase = "open" /\ phase' = "judge" /\ answer' = answer
        /\ sent' = [sent EXCEPT !.json = TRUE, !.started = S, !.ended = S, !.texts = 1,
                                !.terminal = TRUE]
    BY DEF JsonBody
  <1>2. sent'.texts = 1
    BY <1>1 DEF IInv, TypeOK, SentSet
  <1>3. CASE ready' = Join(Texts(<<1>>), Restored(S))
    <2>1. <<1>> \in Seq(Nat)
      OBVIOUS
    <2>2. /\ Texts(<<1>>) \in Frames /\ Texts(<<1>>).texts = <<1>>
          /\ Restored(S) \in Frames /\ Restored(S).texts = <<>>
      BY <2>1, FrameFacts, FrameTexts
    <2>3. ready'.texts = <<1>>
      BY <1>3, <2>2, JoinTexts
    <2>4. ready'.texts = Pieces(sent'.texts)
      BY <1>2, <2>3, PiecesFacts, Zenon
    <2> QED BY <1>1, <2>4, TextsEnd
  <1>4. CASE result' \in Errors
    <2>1. result' # "ok"
      BY <1>4 DEF Errors, Handle
    <2> QED BY <1>1, <2>1, TextsEnd
  <1> QED BY <1>3, <1>4 DEF JsonBody

\* Tool calls, pings and swallowed arguments move no text.
LEMMA ToolTexts ==
  ASSUME IInv, TextInv, NEW t \in Tools,
         \/ ToolStart(t) \/ ToolStop(t) \/ GoogleCall(t)
         \/ ItemAnnounced(t) \/ ArgumentsDoneUnnamed(t) \/ ItemDone(t)
         \/ \E last \in BOOLEAN : ChatToolDelta(t, last)
  PROVE  TextInv'
  <1>0. /\ phase = "open" /\ surface' = surface /\ answer' = answer
    BY DEF ToolStart, ToolStop, GoogleCall, ItemAnnounced, ArgumentsDoneUnnamed, ItemDone,
           ChatToolDelta, Reading
  <1>1. /\ ready \in Frames /\ buffer \in Buffers /\ buffer.frames \in Frames /\ sent \in SentSet
    BY <1>0, ReadingTexts
  <1>2. /\ Announced(t) \in Frames /\ Announced(t).texts = <<>>
        /\ Restored({t}) \in Frames /\ Restored({t}).texts = <<>>
        /\ NoFrames \in Frames /\ NoFrames.texts = <<>>
    <2>1. {t} \in SUBSET Tools
      OBVIOUS
    <2> QED BY <2>1, FrameFacts, FrameTexts
  <1>3. sent'.texts = sent.texts /\ sent'.textOpen = sent.textOpen
    <2>1. ASSUME NEW s \in SentSet, s.texts = sent.texts, s.textOpen = sent.textOpen, Send(s)
          PROVE  sent'.texts = sent.texts /\ sent'.textOpen = sent.textOpen
      BY <1>1, <2>1, SentTexts
    <2>2. CASE ToolStart(t) \/ ItemAnnounced(t)
      <3> DEFINE s == [sent EXCEPT !.started = @ \cup {t}]
      <3>1. s \in SentSet /\ s.texts = sent.texts /\ s.textOpen = sent.textOpen
        BY <1>1 DEF SentSet
      <3> HIDE DEF s
      <3> QED BY <2>1, <2>2, <3>1 DEF ToolStart, ItemAnnounced, s
    <2>3. CASE ToolStop(t)
      <3> DEFINE s == [sent EXCEPT !.ended = @ \cup {t}]
      <3>1. s \in SentSet /\ s.texts = sent.texts /\ s.textOpen = sent.textOpen
        BY <1>1 DEF SentSet
      <3> HIDE DEF s
      <3> QED BY <2>1, <2>3, <3>1 DEF ToolStop, s
    <2>4. CASE GoogleCall(t)
      <3> DEFINE s == [sent EXCEPT !.started = @ \cup {t}, !.ended = @ \cup {t}]
      <3>1. s \in SentSet /\ s.texts = sent.texts /\ s.textOpen = sent.textOpen
        BY <1>1 DEF SentSet
      <3> HIDE DEF s
      <3> QED BY <2>1, <2>4, <3>1 DEF GoogleCall, s
    <2>5. CASE ArgumentsDoneUnnamed(t)
      <3> DEFINE s == [sent EXCEPT !.argsOnly = @ \cup {t}]
      <3>1. s \in SentSet /\ s.texts = sent.texts /\ s.textOpen = sent.textOpen
        BY <1>1 DEF SentSet
      <3> HIDE DEF s
      <3> QED BY <2>1, <2>5, <3>1 DEF ArgumentsDoneUnnamed, s
    <2>6. CASE ItemDone(t)
      <3> DEFINE s == [sent EXCEPT !.started = @ \cup {t}, !.ended = @ \cup {t},
                                   !.argsOnly = @ \ {t}]
      <3>1. s \in SentSet /\ s.texts = sent.texts /\ s.textOpen = sent.textOpen
        BY <1>1 DEF SentSet
      <3> HIDE DEF s
      <3> QED BY <2>1, <2>6, <3>1 DEF ItemDone, s
    <2>7. ASSUME NEW last \in BOOLEAN, ChatToolDelta(t, last)
          PROVE  sent'.texts = sent.texts /\ sent'.textOpen = sent.textOpen
      <3> DEFINE s == [sent EXCEPT !.started = @ \cup {t},
                                   !.ended = IF last THEN @ \cup {t} ELSE @]
      <3>1. s \in SentSet /\ s.texts = sent.texts /\ s.textOpen = sent.textOpen
        BY <1>1 DEF SentSet
      <3> HIDE DEF s
      <3> QED BY <2>1, <2>7, <3>1 DEF ChatToolDelta, s
    <2> QED BY <2>2, <2>3, <2>4, <2>5, <2>6, <2>7
  <1>a. ASSUME NEW b \in Buffers, NEW f \in Frames, f.texts = <<>>, buffer' = Hold(b, f),
               b.frames = buffer.frames, b.holding = buffer.holding
        PROVE  /\ buffer'.frames.texts = buffer.frames.texts
               /\ buffer'.holding # buffer.holding => buffer'.holding
    <2>1. CASE f = NoFrames
      BY <1>a, <2>1 DEF Hold
    <2>2. CASE f # NoFrames
      <3>1. buffer'.frames = Join(buffer.frames, f) /\ buffer'.holding
        BY <1>a, <2>2 DEF Hold, Buffers
      <3>2. Join(buffer.frames, f).texts = buffer.frames.texts
        BY <1>1, <1>a, JoinTexts
      <3> QED BY <3>1, <3>2
    <2> QED BY <2>1, <2>2
  <1>b. ASSUME NEW complete \in BOOLEAN
        PROVE  /\ Progress({t}, complete) \in Buffers
               /\ Progress({t}, complete).frames = buffer.frames
               /\ Progress({t}, complete).holding = buffer.holding
    BY <1>1 DEF Progress, Buffers
  <1>4. CASE ToolStart(t)
    <2>1. /\ phase' = "open" /\ UNCHANGED <<held, ready>> /\ surface \in Anthropic
          /\ buffer' = [buffer EXCEPT !.holding = TRUE, !.active = @ \cup {t},
                                      !.frames = Join(@, Announced(t))]
          /\ ~sent.textOpen
      BY <1>0, <1>4 DEF ToolStart, GoesOn
    <2>2. buffer'.frames = Join(buffer.frames, Announced(t)) /\ buffer'.holding
      BY <1>1, <2>1 DEF Buffers
    <2>3. buffer'.frames.texts = buffer.frames.texts
      <3>1. Join(buffer.frames, Announced(t)).texts = buffer.frames.texts
        BY <1>1, <1>2, JoinTexts
      <3> QED BY <2>2, <3>1, Zenon
    <2> QED BY <1>0, <1>3, <2>1, <2>2, <2>3, TextsStay DEF Anthropic
  <1>5. CASE ToolStop(t)
    <2>1. phase' = "open" /\ UNCHANGED <<held, ready>> /\ buffer' = [buffer EXCEPT !.active = @ \ {t}]
      BY <1>0, <1>5 DEF ToolStop, GoesOn
    <2>2. buffer'.frames = buffer.frames /\ buffer'.holding = buffer.holding
      BY <1>1, <2>1 DEF Buffers
    <2> QED BY <1>0, <1>3, <2>1, <2>2, TextsStay
  <1>6. CASE GoogleCall(t)
    <2>1. CASE ready' = Join(ready, Restored({t})) /\ GoesOn /\ UNCHANGED <<held, buffer>>
      <3>1. ready'.texts = ready.texts
        BY <1>1, <1>2, <2>1, JoinTexts
      <3> QED BY <1>0, <1>3, <2>1, <3>1, TextsStay DEF GoesOn
    <2>2. ASSUME NEW kind \in Errors, LoopError(kind) PROVE TextInv'
      BY <1>0, <2>2, TextsRejected
    <2> QED BY <1>6, <2>1, <2>2 DEF GoogleCall
  <1>7. CASE ItemAnnounced(t)
    <2>1. /\ phase' = "open" /\ UNCHANGED <<held, ready>> /\ surface = "responses"
          /\ \E f \in {Announced(t), NoFrames} : buffer' = Hold(Progress({t}, FALSE), f)
      BY <1>0, <1>7 DEF ItemAnnounced, GoesOn
    <2>2. /\ buffer'.frames.texts = buffer.frames.texts
          /\ buffer'.holding # buffer.holding => buffer'.holding
      BY <1>2, <1>a, <1>b, <2>1
    <2> QED BY <1>0, <1>3, <2>1, <2>2, TextsStay DEF Anthropic
  <1>8. CASE ArgumentsDoneUnnamed(t)
    <2>1. phase' = "open" /\ UNCHANGED <<held, ready>> /\ buffer' = Progress({t}, TRUE)
      BY <1>0, <1>8 DEF ArgumentsDoneUnnamed, GoesOn
    <2> QED BY <1>0, <1>3, <1>b, <2>1, TextsStay
  <1>9. CASE ItemDone(t)
    <2>1. CASE buffer' = Hold(Progress({t}, TRUE), Restored({t})) /\ GoesOn /\ UNCHANGED <<held, ready>>
      <3>1. /\ buffer'.frames.texts = buffer.frames.texts
            /\ buffer'.holding # buffer.holding => buffer'.holding
        BY <1>2, <1>a, <1>b, <2>1
      <3>2. surface = "responses"
        BY <1>9 DEF ItemDone
      <3> QED BY <1>0, <1>3, <2>1, <3>1, <3>2, TextsStay DEF GoesOn, Anthropic
    <2>2. ASSUME NEW kind \in Errors, LoopError(kind) PROVE TextInv'
      BY <1>0, <2>2, TextsRejected
    <2> QED BY <1>9, <2>1, <2>2 DEF ItemDone
  <1>10. ASSUME NEW last \in BOOLEAN, ChatToolDelta(t, last) PROVE TextInv'
    <2>1. /\ phase' = "open" /\ UNCHANGED <<held, ready>> /\ surface = "chat"
          /\ buffer' = [buffer EXCEPT !.holding = TRUE, !.active = @ \cup {t}]
      BY <1>0, <1>10 DEF ChatToolDelta, GoesOn
    <2>2. buffer'.frames = buffer.frames /\ buffer'.holding
      BY <1>1, <2>1 DEF Buffers
    <2> QED BY <1>0, <1>3, <2>1, <2>2, TextsStay DEF Anthropic
  <1> QED BY <1>4, <1>5, <1>6, <1>7, <1>8, <1>9, <1>10

LEMMA PingTexts ==
  ASSUME IInv, TextInv, Ping
  PROVE  TextInv'
  <1>1. /\ phase = "open" /\ phase' = "open" /\ Send(sent) /\ ready' = Join(ready, Mark("ping"))
        /\ UNCHANGED <<surface, held, buffer, answer>>
    BY DEF Ping, Reading, GoesOn
  <1>2. ready \in Frames /\ sent \in SentSet
    BY DEF IInv, TypeOK
  <1>3. sent'.texts = sent.texts /\ sent'.textOpen = sent.textOpen
    BY <1>1, <1>2, SentTexts
  <1>4. Mark("ping") \in Frames /\ Mark("ping").texts = <<>>
    BY FrameFacts, FrameTexts DEF Marks
  <1>5. ready'.texts = ready.texts
    BY <1>1, <1>2, <1>4, JoinTexts
  <1> QED BY <1>1, <1>3, <1>5, TextsStay

LEMMA StreamTexts ==
  ASSUME IInv, TextInv, Stream
  PROVE  TextInv'
  <1>1. CASE BlockRejected
    <2>1. phase = "open" /\ answer' = answer /\ LoopError("other") /\ "other" \in Errors
      BY <1>1 DEF BlockRejected, Reading, Errors
    <2> QED BY <2>1, TextsRejected
  <1>2. CASE UpstreamError
    <2>1. phase = "open" /\ answer' = answer /\ Conclude("ok") /\ ready' = Join(ready, Mark("fail"))
      BY <1>2 DEF UpstreamError, Reading
    <2> QED BY <2>1, Concluded, TextsFailed
  <1>3. CASE DrainEnds
    <2>1. phase = "drain" /\ phase' = "judge" /\ UNCHANGED <<sent, ready, result, answer>>
      BY <1>3 DEF DrainEnds
    <2> QED BY <2>1 DEF TextInv, TextsHeld, TextsJudged, TextKept
  <1> QED BY <1>1, <1>2, <1>3, TextDeltaTexts, TextEndTexts, UpstreamEofTexts,
             UpstreamBreaksTexts, PingTexts, MessageStopTexts, ChatDoneTexts, ToolTexts,
             ResponseCompletedTexts, JsonBodyTexts DEF Stream

LEMMA NextTexts == IInv /\ TextInv /\ [Next]_vars => TextInv'
  <1> SUFFICES ASSUME IInv, TextInv, [Next]_vars PROVE TextInv'
    OBVIOUS
  <1>1. CASE SendRequest
    <2>1. CASE phase' = "open" /\ UNCHANGED answer
      <3>1. /\ sent' = NothingSent /\ held' = <<>> /\ buffer' = NoBuffer /\ ready' = NoFrames
            /\ answer' = NoAnswer
        BY <1>1, <2>1 DEF SendRequest, IInv, Idle
      <3>2. /\ ready'.texts = <<>> /\ buffer'.frames.texts = <<>> /\ ~buffer'.holding
            /\ answer'.kind = "none"
        BY <3>1, EmptyFacts, FrameTexts
      <3>3. sent'.texts = 0
        BY <3>1 DEF NothingSent
      <3>4. (<<>> \o <<>>) \o <<>> = <<>>
        OBVIOUS
      <3>5. (ready'.texts \o buffer'.frames.texts) \o held' = Pieces(sent'.texts)
        BY <3>1, <3>2, <3>3, <3>4, PiecesFacts, Zenon
      <3> QED BY <2>1, <3>1, <3>2, <3>5 DEF TextInv, TextsHeld, TextsJudged, TextKept
    <2>2. ASSUME NEW kind \in {"status", "error"}, Answer(kind, NoFrames) PROVE TextInv'
      BY <2>2, TextsAnswered DEF Answer
    <2> QED BY <1>1, <2>1, <2>2 DEF SendRequest
  <1>2. CASE Judge
    <2>1. phase = "judge" /\ UNCHANGED <<sent, ready>>
      BY <1>2 DEF Judge
    <2>2. ASSUME NEW kind \in {"stopped", "refused", "failure", "error"}, Answer(kind, NoFrames)
          PROVE  TextInv'
      BY <2>2, TextsAnswered DEF Answer
    <2>3. CASE result = "ok" /\ Answer("response", ready)
      <3>1. answer'.frames = ready /\ phase' = "answered"
        BY <2>3 DEF Answer
      <3>2. TextKept'
        BY <2>1, <2>3, <3>1 DEF TextInv, TextsJudged, TextKept, Pieces
      <3> QED BY <3>1, <3>2 DEF TextInv, TextsHeld, TextsJudged
    <2>4. CASE result = "ok" /\ Accepted
      BY <2>2, <2>3, <2>4 DEF Accepted
    <2> QED BY <1>2, <2>2, <2>4 DEF Judge, Stopped, Refused
  <1>3. CASE Retry
    <2>1. phase' = "send" /\ answer' = NoAnswer
      BY <1>3 DEF Retry, IInv, Idle
    <2> QED BY <2>1, EmptyFacts DEF TextInv, TextsHeld, TextsJudged, TextKept
  <1>4. CASE UNCHANGED vars
    BY <1>4 DEF vars, TextInv, TextsHeld, TextsJudged, TextKept
  <1> QED BY <1>1, <1>2, <1>3, <1>4, StreamTexts DEF Next, Finished

\* Text that OutputTextRestorer held back is not lost: a response that was
\* completed carries all text, once and in order, on every surface and however
\* tool calls, pings and text blocks alternate.
THEOREM TextIsKept == Spec => []TextKept
  <1>1. Init => TextInv
    BY EmptyFacts DEF Init, TextInv, TextsHeld, TextsJudged, TextKept
  <1>2. TextInv => TextKept
    BY DEF TextInv
  <1> QED BY <1>1, <1>2, NextTexts, Invariance, PTL DEF Spec
==============================================================================
