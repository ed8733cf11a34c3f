-------------------------- MODULE ActivityLogProofs --------------------------
(***************************************************************************)
(* Proofs about ActivityLog for every set of events, keys and callers and  *)
(* every capacity: an event is in one place of the pipeline, an answered   *)
(* flush leaves nothing of what it waited for in memory, and only an event *)
(* that shared its line with others is ever lost without being counted.    *)
(***************************************************************************)
EXTENDS ActivityLog, SequenceTheorems, TLAPS

(***************************************************************************)
(* Queues of messages                                                      *)
(***************************************************************************)

\* A message added at the end of a channel.
LEMMA QueueAppend ==
  ASSUME NEW q \in Seq(Messages), NEW m \in Messages
  PROVE  /\ Append(q, m) \in Seq(Messages)
         /\ Len(Append(q, m)) = Len(q) + 1
         /\ Len(q) \in Nat
         /\ DOMAIN q = 1 .. Len(q)
         /\ DOMAIN Append(q, m) = 1 .. (Len(q) + 1)
         /\ \A i \in 1 .. Len(q) : Append(q, m)[i] = q[i]
         /\ Append(q, m)[Len(q) + 1] = m
  OBVIOUS

LEMMA QueuedAppend ==
  ASSUME NEW q \in Seq(Messages), NEW m \in Messages
  PROVE  \A x : x \in Queued(Append(q, m)) <=> x \in Queued(q) \/ x \in m.line
  <1> TAKE x
  <1>1. ASSUME x \in Queued(Append(q, m)) PROVE x \in Queued(q) \/ x \in m.line
    <2>1. PICK i \in DOMAIN Append(q, m) : x \in Append(q, m)[i].line
      BY <1>1 DEF Queued
    <2>2. CASE i = Len(q) + 1
      BY <2>1, <2>2, QueueAppend
    <2>3. CASE i \in DOMAIN q
      BY <2>1, <2>3, QueueAppend DEF Queued
    <2> QED BY <2>2, <2>3, QueueAppend
  <1>2. ASSUME x \in Queued(q) PROVE x \in Queued(Append(q, m))
    <2>1. PICK i \in DOMAIN q : x \in q[i].line
      BY <1>2 DEF Queued
    <2>2. i \in DOMAIN Append(q, m) /\ Append(q, m)[i] = q[i]
      BY QueueAppend
    <2> QED BY <2>1, <2>2 DEF Queued
  <1>3. ASSUME x \in m.line PROVE x \in Queued(Append(q, m))
    <2>1. Len(q) + 1 \in DOMAIN Append(q, m) /\ Append(q, m)[Len(q) + 1] = m
      BY QueueAppend
    <2> QED BY <1>3, <2>1 DEF Queued
  <1> QED BY <1>1, <1>2, <1>3

\* A new entry shares no event with those before it; a flush has none.
LEMMA QueueOKAppend ==
  ASSUME NEW q \in Seq(Messages), NEW m \in Messages, QueueOK(q),
         m.line = {} <=> m.flush # None,
         m.line \cap Queued(q) = {}
  PROVE  QueueOK(Append(q, m))
  <1>1. \A i \in DOMAIN q : q[i].line \cap m.line = {}
    BY DEF Queued
  <1> QED BY <1>1, QueueAppend DEF QueueOK

LEMMA BehindAppend ==
  ASSUME NEW q \in Seq(Messages), NEW m \in Messages, NEW c, NEW E,
         Behind(q, c, E), m.line \cap E = {}
  PROVE  Behind(Append(q, m), c, E)
  BY QueueAppend DEF Behind

\* A message taken from the head of a channel.
LEMMA QueueTail ==
  ASSUME NEW q \in Seq(Messages), q # <<>>
  PROVE  /\ Tail(q) \in Seq(Messages) /\ Head(q) \in Messages
         /\ Len(q) \in Nat \ {0}
         /\ Len(Tail(q)) = Len(q) - 1
         /\ DOMAIN q = 1 .. Len(q)
         /\ DOMAIN Tail(q) = 1 .. (Len(q) - 1)
         /\ Head(q) = q[1]
         /\ \A i \in 1 .. (Len(q) - 1) : Tail(q)[i] = q[i + 1]
  BY HeadTailProperties, LenProperties, EmptySeq

LEMMA QueuedTail ==
  ASSUME NEW q \in Seq(Messages), q # <<>>
  PROVE  \A x : x \in Queued(q) <=> x \in Queued(Tail(q)) \/ x \in Head(q).line
  <1> TAKE x
  <1>1. ASSUME x \in Queued(q) PROVE x \in Queued(Tail(q)) \/ x \in Head(q).line
    <2>1. PICK i \in DOMAIN q : x \in q[i].line
      BY <1>1 DEF Queued
    <2>2. CASE i = 1
      BY <2>1, <2>2, QueueTail
    <2>3. CASE i # 1
      <3>1. i - 1 \in DOMAIN Tail(q) /\ Tail(q)[i - 1] = q[i]
        BY <2>1, <2>3, QueueTail
      <3> QED BY <2>1, <3>1 DEF Queued
    <2> QED BY <2>2, <2>3
  <1>2. ASSUME x \in Queued(Tail(q)) PROVE x \in Queued(q)
    <2>1. PICK i \in DOMAIN Tail(q) : x \in Tail(q)[i].line
      BY <1>2 DEF Queued
    <2>2. i + 1 \in DOMAIN q /\ q[i + 1] = Tail(q)[i]
      BY <2>1, QueueTail
    <2> QED BY <2>1, <2>2 DEF Queued
  <1>3. ASSUME x \in Head(q).line PROVE x \in Queued(q)
    <2>1. 1 \in DOMAIN q /\ Head(q) = q[1]
      BY QueueTail
    <2> QED BY <1>3, <2>1 DEF Queued
  <1> QED BY <1>1, <1>2, <1>3

LEMMA QueueOKTail ==
  ASSUME NEW q \in Seq(Messages), q # <<>>, QueueOK(q)
  PROVE  /\ QueueOK(Tail(q))
         /\ Head(q).line \cap Queued(Tail(q)) = {}
         /\ Head(q).line = {} <=> Head(q).flush # None
  <1>1. QueueOK(Tail(q))
    <2>1. \A i \in DOMAIN Tail(q) : i + 1 \in DOMAIN q /\ Tail(q)[i] = q[i + 1]
      BY QueueTail
    <2>2. \A i, j \in DOMAIN Tail(q) : i # j => i + 1 # j + 1
      BY QueueTail
    <2> QED BY <2>1, <2>2 DEF QueueOK
  <1>2. \A i \in DOMAIN Tail(q) : Head(q).line \cap Tail(q)[i].line = {}
    BY QueueTail DEF QueueOK
  <1>3. Head(q).line = {} <=> Head(q).flush # None
    BY QueueTail DEF QueueOK
  <1> QED BY <1>1, <1>2, <1>3 DEF Queued

LEMMA BehindTail ==
  ASSUME NEW q \in Seq(Messages), q # <<>>, NEW c, NEW E, Behind(q, c, E)
  PROVE  /\ Behind(Tail(q), c, E)
         /\ Head(q).flush = c => E \cap Queued(Tail(q)) = {}
  <1>1. Behind(Tail(q), c, E)
    <2>1. \A i \in DOMAIN Tail(q) : i + 1 \in DOMAIN q /\ Tail(q)[i] = q[i + 1]
      BY QueueTail
    <2>2. \A i, j \in DOMAIN Tail(q) : i < j => i + 1 < j + 1
      BY QueueTail
    <2> QED BY <2>1, <2>2 DEF Behind
  <1>2. ASSUME Head(q).flush = c, NEW i \in DOMAIN Tail(q) PROVE Tail(q)[i].line \cap E = {}
    <2>1. 1 \in DOMAIN q /\ i + 1 \in DOMAIN q /\ 1 < i + 1 /\ q[1].flush = c /\ q[i + 1] = Tail(q)[i]
      BY <1>2, QueueTail
    <2> QED BY <2>1 DEF Behind
  <1> QED BY <1>1, <1>2 DEF Queued

\* Who has a flush in the channel.
LEMMA AsksAppend ==
  ASSUME NEW q \in Seq(Messages), NEW m \in Messages, NEW c
  PROVE  Asks(Append(q, m), c) <=> Asks(q, c) \/ m.flush = c
  BY QueueAppend DEF Asks

LEMMA AsksTail ==
  ASSUME NEW q \in Seq(Messages), q # <<>>, NEW c
  PROVE  Asks(q, c) <=> Asks(Tail(q), c) \/ Head(q).flush = c
  <1>1. ASSUME NEW i \in DOMAIN q, q[i].flush = c PROVE Asks(Tail(q), c) \/ Head(q).flush = c
    <2>1. CASE i = 1
      BY <1>1, <2>1, QueueTail
    <2>2. CASE i # 1
      <3>1. i - 1 \in DOMAIN Tail(q) /\ Tail(q)[i - 1] = q[i]
        BY <2>2, QueueTail
      <3> QED BY <1>1, <3>1 DEF Asks
    <2> QED BY <2>1, <2>2
  <1>2. ASSUME NEW i \in DOMAIN Tail(q), Tail(q)[i].flush = c PROVE Asks(q, c)
    <2>1. i + 1 \in DOMAIN q /\ q[i + 1] = Tail(q)[i]
      BY QueueTail
    <2> QED BY <1>2, <2>1 DEF Asks
  <1>3. Head(q).flush = c => Asks(q, c)
    BY QueueTail DEF Asks
  <1> QED BY <1>1, <1>2, <1>3 DEF Asks

(***************************************************************************)
(* Batches of lines                                                        *)
(***************************************************************************)

BatchApart(b) == \A i, j \in DOMAIN b : i # j => b[i] \cap b[j] = {}

LEMMA BatchAppend ==
  ASSUME NEW S, NEW b \in Seq(SUBSET S), NEW line \in SUBSET S
  PROVE  /\ Append(b, line) \in Seq(SUBSET S)
         /\ Len(b) \in Nat /\ Len(Append(b, line)) = Len(b) + 1
         /\ DOMAIN b = 1 .. Len(b)
         /\ DOMAIN Append(b, line) = 1 .. (Len(b) + 1)
         /\ \A i \in 1 .. Len(b) : Append(b, line)[i] = b[i]
         /\ Append(b, line)[Len(b) + 1] = line
  OBVIOUS

LEMMA ShownAppend ==
  ASSUME NEW S, NEW b \in Seq(SUBSET S), NEW line \in SUBSET S
  PROVE  \A x : x \in Shown(Append(b, line)) <=> x \in Shown(b) \/ x \in line
  <1> TAKE x
  <1>1. ASSUME x \in Shown(Append(b, line)) PROVE x \in Shown(b) \/ x \in line
    <2>1. PICK i \in DOMAIN Append(b, line) : x \in Append(b, line)[i]
      BY <1>1 DEF Shown
    <2>2. CASE i = Len(b) + 1
      BY <2>1, <2>2, BatchAppend
    <2>3. CASE i \in DOMAIN b
      BY <2>1, <2>3, BatchAppend DEF Shown
    <2> QED BY <2>2, <2>3, BatchAppend
  <1>2. ASSUME x \in Shown(b) PROVE x \in Shown(Append(b, line))
    <2>1. PICK i \in DOMAIN b : x \in b[i]
      BY <1>2 DEF Shown
    <2>2. i \in DOMAIN Append(b, line) /\ Append(b, line)[i] = b[i]
      BY BatchAppend
    <2> QED BY <2>1, <2>2 DEF Shown
  <1>3. ASSUME x \in line PROVE x \in Shown(Append(b, line))
    <2>1. Len(b) + 1 \in DOMAIN Append(b, line) /\ Append(b, line)[Len(b) + 1] = line
      BY BatchAppend
    <2> QED BY <1>3, <2>1 DEF Shown
  <1> QED BY <1>1, <1>2, <1>3

\* A line that shares no event with the batch joins it.
LEMMA BatchApartAppend ==
  ASSUME NEW S, NEW b \in Seq(SUBSET S), NEW line \in SUBSET S, BatchApart(b),
         line # {}, line \cap Shown(b) = {}, \A i \in DOMAIN b : b[i] # {}
  PROVE  /\ BatchApart(Append(b, line))
         /\ \A i \in DOMAIN Append(b, line) : Append(b, line)[i] # {}
  <1>1. \A i \in DOMAIN b : b[i] \cap line = {}
    BY DEF Shown
  <1> QED BY <1>1, BatchAppend DEF BatchApart

\* What the file shows after a part of the batch is in the batch.
LEMMA ShownPart ==
  ASSUME NEW S, NEW b \in Seq(SUBSET S), NEW n \in 0 .. (Len(b) - 1)
  PROVE  Shown(SubSeq(b, 1, n)) \subseteq Shown(b)
  <1>1. Len(b) \in Nat /\ DOMAIN b = 1 .. Len(b)
    BY LenProperties
  <1>2. \A i \in 1 .. n : b[i] \in SUBSET S
    BY <1>1
  <1>3. /\ DOMAIN SubSeq(b, 1, n) = 1 .. n
        /\ \A i \in 1 .. n : SubSeq(b, 1, n)[i] = b[i]
    BY <1>1, <1>2
  <1> QED BY <1>1, <1>3 DEF Shown

LEMMA ShownEmpty == \A x : x \notin Shown(<<>>)
  BY DEF Shown

(***************************************************************************)
(* The places of the pipeline, event by event                              *)
(***************************************************************************)

PlacesOK(dq, dd, co, dr, lq, ld, sb, fi, fa) ==
  \A x : /\ x \in dq => x \notin dd /\ x \notin co /\ x \notin dr /\ x \notin lq /\ x \notin ld /\ x \notin sb
         /\ x \in dd => x \notin co /\ x \notin dr /\ x \notin lq /\ x \notin ld /\ x \notin sb
         /\ x \in co => x \notin dr /\ x \notin lq /\ x \notin ld /\ x \notin sb
         /\ x \in dr => x \notin lq /\ x \notin ld /\ x \notin sb
         /\ x \in lq => x \notin ld /\ x \notin sb
         /\ x \in ld => x \notin sb
         /\ x \in fi => x \in fa \/ (x \notin dq /\ x \notin dd /\ x \notin co
                                   /\ x \notin dr /\ x \notin lq /\ x \notin ld /\ x \notin sb)

Placed ==
  /\ PlacesOK(Queued(diagQueue), diagDropped, Combined, UNION drain,
              Queued(logQueue), logDropped, Shown(batch), file, failed)
  /\ BatchApart(batch)

LEMMA SevenShown ==
  ASSUME NEW dq, NEW dd, NEW co, NEW dr, NEW lq, NEW ld, NEW sb, NEW P,
         P = <<dq, dd, co, dr, lq, ld, sb>>
  PROVE  \A x : x \in Shown(P) <=> x \in dq \/ x \in dd \/ x \in co \/ x \in dr \/ x \in lq
                                   \/ x \in ld \/ x \in sb
  <1>1. /\ DOMAIN P = 1 .. 7
        /\ P[1] = dq /\ P[2] = dd /\ P[3] = co /\ P[4] = dr /\ P[5] = lq /\ P[6] = ld
        /\ P[7] = sb
    OBVIOUS
  <1>2. \A x : x \in Shown(P) <=> \E i \in 1 .. 7 : x \in P[i]
    BY <1>1 DEF Shown
  <1>3. \A x : (\E i \in 1 .. 7 : x \in P[i]) <=>
               x \in P[1] \/ x \in P[2] \/ x \in P[3] \/ x \in P[4] \/ x \in P[5]
               \/ x \in P[6] \/ x \in P[7]
    OBVIOUS
  <1> QED BY <1>1, <1>2, <1>3

LEMMA SevenPlaces ==
  ASSUME NEW dq, NEW dd, NEW co, NEW dr, NEW lq, NEW ld, NEW sb, NEW fi, NEW fa, NEW P,
         P = <<dq, dd, co, dr, lq, ld, sb>>
  PROVE  /\ \A i, j \in DOMAIN P : i # j => P[i] \cap P[j] = {}
         /\ fi \cap Shown(P) \subseteq fa
         <=> PlacesOK(dq, dd, co, dr, lq, ld, sb, fi, fa)
  <1>1. /\ DOMAIN P = 1 .. 7
        /\ P[1] = dq /\ P[2] = dd /\ P[3] = co /\ P[4] = dr /\ P[5] = lq /\ P[6] = ld
        /\ P[7] = sb
    OBVIOUS
  <1>2. \A x : x \in Shown(P) <=> x \in dq \/ x \in dd \/ x \in co \/ x \in dr \/ x \in lq
                                  \/ x \in ld \/ x \in sb
    BY SevenShown
  <1>3. ASSUME \A i, j \in DOMAIN P : i # j => P[i] \cap P[j] = {},
               fi \cap Shown(P) \subseteq fa
        PROVE  PlacesOK(dq, dd, co, dr, lq, ld, sb, fi, fa)
    <2>1. \A i, j \in 1 .. 7 : i # j => \A x : x \in P[i] => x \notin P[j]
      BY <1>1, <1>3
    <2> HIDE DEF PlacesOK
    <2>2. /\ \A x : x \in dq => x \notin dd /\ x \notin co /\ x \notin dr /\ x \notin lq
                                /\ x \notin ld /\ x \notin sb
          /\ \A x : x \in dd => x \notin co /\ x \notin dr /\ x \notin lq /\ x \notin ld
                                /\ x \notin sb
          /\ \A x : x \in co => x \notin dr /\ x \notin lq /\ x \notin ld /\ x \notin sb
          /\ \A x : x \in dr => x \notin lq /\ x \notin ld /\ x \notin sb
          /\ \A x : x \in lq => x \notin ld /\ x \notin sb
          /\ \A x : x \in ld => x \notin sb
      BY <1>1, <2>1
    <2> QED BY <1>2, <1>3, <2>2 DEF PlacesOK
  <1>4. ASSUME PlacesOK(dq, dd, co, dr, lq, ld, sb, fi, fa)
        PROVE  /\ \A i, j \in DOMAIN P : i # j => P[i] \cap P[j] = {}
               /\ fi \cap Shown(P) \subseteq fa
    <2>1. fi \cap Shown(P) \subseteq fa
      BY <1>2, <1>4 DEF PlacesOK
    <2>2. ASSUME NEW i \in 1 .. 7, NEW j \in 1 .. 7, i < j PROVE P[i] \cap P[j] = {}
      <3>1. (i = 1 \/ i = 2 \/ i = 3 \/ i = 4 \/ i = 5 \/ i = 6)
        BY <2>2
      <3>2. (j = 2 \/ j = 3 \/ j = 4 \/ j = 5 \/ j = 6 \/ j = 7)
        BY <2>2
      <3> QED BY <1>1, <1>4, <2>2, <3>1, <3>2 DEF PlacesOK
    <2> QED BY <1>1, <2>1, <2>2
  <1> QED BY <1>3, <1>4

LEMMA OnePlaceIs == OnePlace <=> Placed
  <1> DEFINE dq == Queued(diagQueue)
             co == Combined
             dr == UNION drain
             lq == Queued(logQueue)
             sb == Shown(batch)
             P == Places
  <1>1. P = <<dq, diagDropped, co, dr, lq, logDropped, sb>>
    BY DEF Places
  <1> HIDE DEF dq, co, dr, lq, sb, P
  <1>2. /\ \A i, j \in DOMAIN P : i # j => P[i] \cap P[j] = {}
        /\ file \cap Shown(P) \subseteq failed
        <=> PlacesOK(dq, diagDropped, co, dr, lq, logDropped, sb, file, failed)
    BY <1>1, SevenPlaces
  <1> QED BY <1>2 DEF OnePlace, Placed, InMemory, BatchApart, dq, co, dr, lq, sb, P

LEMMA OnePlaceNext == OnePlace' <=> Placed'
  <1> DEFINE dq == Queued(diagQueue')
             co == Combined'
             dr == UNION drain'
             lq == Queued(logQueue')
             sb == Shown(batch')
             P == Places'
  <1>1. P = <<dq, diagDropped', co, dr, lq, logDropped', sb>>
    BY DEF Places
  <1> HIDE DEF dq, co, dr, lq, sb, P
  <1>2. /\ \A i, j \in DOMAIN P : i # j => P[i] \cap P[j] = {}
        /\ file' \cap Shown(P) \subseteq failed'
        <=> PlacesOK(dq, diagDropped', co, dr, lq, logDropped', sb, file', failed')
    BY <1>1, SevenPlaces
  <1> QED BY <1>2 DEF OnePlace, Placed, InMemory, BatchApart, dq, co, dr, lq, sb, P

LEMMA MemoryIs ==
  \A x : x \in InMemory <=>
         \/ x \in Queued(diagQueue) \/ x \in diagDropped \/ x \in Combined
         \/ x \in UNION drain \/ x \in Queued(logQueue) \/ x \in logDropped
         \/ x \in Shown(batch)
  BY SevenShown DEF InMemory, Places

LEMMA MemoryNext ==
  \A x : x \in InMemory' <=>
         \/ x \in Queued(diagQueue') \/ x \in diagDropped' \/ x \in Combined'
         \/ x \in UNION drain' \/ x \in Queued(logQueue') \/ x \in logDropped'
         \/ x \in Shown(batch')
  BY SevenShown DEF InMemory, Places

\* Every message a thread sends is an entry or a flush.
LEMMA MessageForms ==
  /\ \A line \in SUBSET Events : Entry(line) \in Messages
  /\ \A line : Entry(line).line = line /\ Entry(line).flush = None
  /\ \A c \in Callers : FlushFor(c) \in Messages
  /\ \A c : FlushFor(c).line = {} /\ FlushFor(c).flush = c
  BY DEF Entry, FlushFor, Messages

\* A counter counts a line by one of its events.
LEMMA OneOfIn == ASSUME NEW line, line # {} PROVE OneOf(line) \in line
  BY DEF OneOf

\* A new event is in none of the places.
LEMMA FreshEvent ==
  ASSUME IInv, NEW e, e \notin recorded
  PROVE  /\ e \notin Queued(diagQueue) /\ e \notin diagDropped /\ e \notin Combined
         /\ e \notin UNION drain /\ e \notin Queued(logQueue) /\ e \notin logDropped
         /\ e \notin Shown(batch) /\ e \notin file
         /\ \A c \in Callers : e \notin before[c]
  <1>1. e \notin Queued(diagQueue) /\ e \notin Queued(logQueue)
    BY DEF IInv, LinesApart
  <1>2. e \notin diagDropped /\ e \notin logDropped /\ e \notin file
    BY DEF IInv, TypeOK
  <1>3. e \notin Combined
    BY DEF IInv, TypeOK, Combined
  <1>4. e \notin UNION drain
    BY DEF IInv, TypeOK
  <1>5. e \notin Shown(batch)
    <2>1. batch \in Seq(SUBSET recorded)
      BY DEF IInv, TypeOK
    <2>2. \A i \in DOMAIN batch : batch[i] \subseteq recorded
      BY <2>1
    <2> QED BY <2>2 DEF Shown
  <1>6. \A c \in Callers : e \notin before[c]
    BY DEF IInv, TypeOK
  <1> QED BY <1>1, <1>2, <1>3, <1>4, <1>5, <1>6

\* The set of recorded events grows: what was typed by it stays typed.
LEMMA RecordTypes ==
  ASSUME TypeOK, NEW e \in Events, recorded' = recorded \cup {e}
  PROVE  /\ recorded' \subseteq Events
         /\ pending \in [Keys -> SUBSET recorded']
         /\ drain \subseteq (SUBSET recorded') \ {{}}
         /\ batch \in Seq(SUBSET recorded')
         /\ before \in [Callers -> SUBSET recorded']
         /\ file \subseteq recorded' /\ failed \subseteq recorded'
         /\ diagDropped \subseteq recorded' /\ logDropped \subseteq recorded'
  <1>1. SUBSET recorded \subseteq SUBSET recorded'
    OBVIOUS
  <1>2. batch \in Seq(SUBSET recorded')
    BY <1>1, SeqMonotonic DEF TypeOK
  <1>3. pending \in [Keys -> SUBSET recorded'] /\ before \in [Callers -> SUBSET recorded']
    BY <1>1 DEF TypeOK
  <1> QED BY <1>1, <1>2, <1>3 DEF TypeOK

(***************************************************************************)
(* Recording                                                               *)
(***************************************************************************)

\* record_diagnostic: a fresh event enters the channel or its counter.
LEMMA RecordDiagnosticKeeps ==
  ASSUME IInv, NEW e \in Events, RecordDiagnostic(e)
  PROVE  IInv'
  <1>0. TypeOK /\ Placed /\ LinesApart /\ WriterSteps /\ FlushSides
    BY OnePlaceIs DEF IInv
  <1>1. /\ e \notin recorded /\ recorded' = recorded \cup {e}
        /\ UNCHANGED <<pending, diagPc, drain, diagAck, logQueue, logDropped, batch, logPc,
                       logAck, file, failed, call, before, acked, late>>
        /\ DiagEnqueue(e)
    BY DEF RecordDiagnostic, logVars, callVars, disk
  <1>2. diagQueue \in Seq(Messages) /\ Entry({e}) \in Messages
        /\ Entry({e}).line = {e} /\ Entry({e}).flush = None
    BY <1>0, MessageForms DEF TypeOK
  <1>3. Combined' = Combined
    BY <1>1 DEF Combined
  <1>4. /\ diagQueue' \in Seq(Messages) /\ Len(diagQueue') <= DiagCapacity
        /\ \A x : x \in Queued(diagQueue') => x \in Queued(diagQueue) \/ x = e
        /\ \A x : x \in diagDropped' => x \in diagDropped \/ x = e
        /\ e \in Queued(diagQueue') => e \notin diagDropped'
        /\ QueueOK(diagQueue')
        /\ \A c \in Callers : /\ Behind(diagQueue', c, before[c])
                              /\ Asks(diagQueue', c) <=> Asks(diagQueue, c)
    <2>1. CASE Len(diagQueue) < DiagCapacity
      <3>1. diagQueue' = Append(diagQueue, Entry({e})) /\ diagDropped' = diagDropped
        BY <1>1, <2>1 DEF DiagEnqueue
      <3>2. /\ diagQueue' \in Seq(Messages) /\ Len(diagQueue') <= DiagCapacity
        BY <1>2, <2>1, <3>1, QueueAppend, CapacityAssumption
      <3>3. \A x : x \in Queued(diagQueue') <=> x \in Queued(diagQueue) \/ x \in {e}
        BY <1>2, <3>1, QueuedAppend
      <3>4. QueueOK(diagQueue')
        <4>0. e \notin Queued(diagQueue)
          BY <1>1, FreshEvent
        <4>1. QueueOK(diagQueue)
          BY <1>0 DEF LinesApart
        <4>2. Entry({e}).line = {} <=> Entry({e}).flush # None
          BY <1>2
        <4>3. Entry({e}).line \cap Queued(diagQueue) = {}
          <5>1. Entry({e}).line = {e}
            BY <1>2
          <5> QED BY <4>0, <5>1
        <4> QED BY <1>2, <3>1, <4>1, <4>2, <4>3, QueueOKAppend
      <3>5. \A c \in Callers : /\ Behind(diagQueue', c, before[c])
                               /\ Asks(diagQueue', c) <=> Asks(diagQueue, c)
        <4> TAKE c \in Callers
        <4>1. Behind(diagQueue, c, before[c]) /\ e \notin before[c] /\ c # None
          BY <1>0, <1>1, FreshEvent, EventsAssumption DEF FlushSides, DiagSide
        <4>2. Behind(diagQueue', c, before[c])
          BY <1>2, <3>1, <4>1, BehindAppend
        <4> QED BY <1>2, <3>1, <4>1, <4>2, AsksAppend
      <3> QED BY <1>1, <3>1, <3>2, <3>3, <3>4, <3>5, FreshEvent
    <2>2. CASE ~(Len(diagQueue) < DiagCapacity)
      <3>1. diagQueue' = diagQueue /\ diagDropped' = diagDropped \cup {e}
        BY <1>1, <2>2 DEF DiagEnqueue
      <3>2. \A c \in Callers : Behind(diagQueue, c, before[c])
        BY <1>0 DEF FlushSides, DiagSide
      <3> QED BY <1>0, <1>1, <3>1, <3>2, FreshEvent DEF TypeOK, LinesApart
    <2> QED BY <2>1, <2>2
  <1>5. TypeOK'
    <2>1. diagDropped' \subseteq recorded'
      BY <1>0, <1>1, <1>4 DEF TypeOK
    <2> QED BY <1>0, <1>1, <1>4, <2>1, RecordTypes DEF TypeOK
  <1>6. Placed'
    BY <1>0, <1>1, <1>3, <1>4, FreshEvent DEF Placed, PlacesOK
  <1>7. LinesApart'
    BY <1>0, <1>1, <1>4 DEF LinesApart
  <1>8. WriterSteps'
    BY <1>0, <1>1 DEF WriterSteps
  <1>9. FlushSides'
    <2> SUFFICES ASSUME NEW c \in Callers PROVE DiagSide(c)' /\ (c \notin late => LogSide(c)')
      BY <1>1 DEF FlushSides
    <2>1. DiagSide(c) /\ (c \notin late => LogSide(c)) /\ e \notin before[c]
      BY <1>0, <1>1, FreshEvent DEF FlushSides
    <2>2. DiagSide(c)'
      BY <1>1, <1>3, <1>4, <2>1 DEF DiagSide
    <2>3. LogSide(c) => LogSide(c)'
      BY <1>1 DEF LogSide
    <2> QED BY <2>1, <2>2, <2>3
  <1> QED BY <1>5, <1>6, <1>7, <1>8, <1>9, OnePlaceNext DEF IInv

\* What LogEnqueue does with a line of events that no other place has: to the
\* channel and its counter, and to the flushes that did not wait for the line.
LEMMA LogEnqueueFacts ==
  ASSUME IInv, NEW line \in SUBSET Events, line # {}, LogEnqueue(line),
         line \cap Queued(logQueue) = {}
  PROVE  /\ logQueue' \in Seq(Messages) /\ Len(logQueue') <= LogCapacity
         /\ \A x : x \in Queued(logQueue') => x \in Queued(logQueue) \/ x \in line
         /\ \A x : x \in logDropped' => x \in logDropped \/ x \in line
         /\ \A x : x \in line /\ x \in Queued(logQueue') => logDropped' = logDropped
         /\ QueueOK(logQueue')
         /\ \A c \in Callers : Asks(logQueue', c) <=> Asks(logQueue, c)
         /\ \A c, E : Behind(logQueue, c, E) /\ line \cap E = {} => Behind(logQueue', c, E)
         /\ Queued(logQueue) \subseteq Queued(logQueue') /\ logDropped \subseteq logDropped'
         /\ line \subseteq Queued(logQueue') \/ \E x \in line : x \in logDropped'
  <1>1. /\ logQueue \in Seq(Messages) /\ Len(logQueue) <= LogCapacity /\ QueueOK(logQueue)
        /\ Entry(line) \in Messages /\ Entry(line).line = line /\ Entry(line).flush = None
    BY MessageForms DEF IInv, TypeOK, LinesApart
  <1>2. CASE Len(logQueue) < LogCapacity
    <2>1. logQueue' = Append(logQueue, Entry(line)) /\ logDropped' = logDropped
      BY <1>2 DEF LogEnqueue
    <2>2. logQueue' \in Seq(Messages) /\ Len(logQueue') <= LogCapacity
      BY <1>1, <1>2, <2>1, QueueAppend, CapacityAssumption
    <2>3. \A x : x \in Queued(logQueue') <=> x \in Queued(logQueue) \/ x \in line
      BY <1>1, <2>1, QueuedAppend
    <2>4. QueueOK(logQueue')
      BY <1>1, <2>1, QueueOKAppend
    <2>5. \A c \in Callers : Asks(logQueue', c) <=> Asks(logQueue, c)
      BY <1>1, <2>1, AsksAppend, EventsAssumption
    <2>6. \A c, E : Behind(logQueue, c, E) /\ line \cap E = {} => Behind(logQueue', c, E)
      BY <1>1, <2>1, BehindAppend
    <2> QED BY <2>1, <2>2, <2>3, <2>4, <2>5, <2>6
  <1>3. CASE ~(Len(logQueue) < LogCapacity)
    <2>1. logQueue' = logQueue /\ logDropped' = logDropped \cup {OneOf(line)}
      BY <1>3 DEF LogEnqueue
    <2>2. OneOf(line) \in line
      BY OneOfIn
    <2> QED BY <1>1, <2>1, <2>2
  <1> QED BY <1>2, <1>3

\* record_immediate of an event that is not a diagnostic.
LEMMA RecordImmediateKeeps ==
  ASSUME IInv, NEW e \in Events, RecordImmediate(e)
  PROVE  IInv'
  <1>0. TypeOK /\ Placed /\ LinesApart /\ WriterSteps /\ FlushSides
    BY OnePlaceIs DEF IInv
  <1>1. /\ e \notin recorded /\ recorded' = recorded \cup {e}
        /\ UNCHANGED <<diagQueue, diagDropped, pending, diagPc, drain, diagAck, batch, logPc,
                       logAck, file, failed, call, before, acked, late>>
        /\ LogEnqueue({e})
    BY DEF RecordImmediate, diagVars, callVars, disk
  <1>2. /\ logQueue' \in Seq(Messages) /\ Len(logQueue') <= LogCapacity
        /\ \A x : x \in Queued(logQueue') => x \in Queued(logQueue) \/ x = e
        /\ \A x : x \in logDropped' => x \in logDropped \/ x = e
        /\ e \in Queued(logQueue') => e \notin logDropped'
        /\ QueueOK(logQueue')
        /\ \A c \in Callers : Asks(logQueue', c) <=> Asks(logQueue, c)
        /\ \A c \in Callers : Behind(logQueue, c, before[c]) => Behind(logQueue', c, before[c])
    <2>1. {e} \in SUBSET Events /\ {e} # {} /\ {e} \cap Queued(logQueue) = {}
          /\ e \notin logDropped /\ \A c \in Callers : {e} \cap before[c] = {}
      BY <1>1, FreshEvent
    <2>2. /\ logQueue' \in Seq(Messages) /\ Len(logQueue') <= LogCapacity
          /\ \A x : x \in Queued(logQueue') => x \in Queued(logQueue) \/ x \in {e}
          /\ \A x : x \in logDropped' => x \in logDropped \/ x \in {e}
          /\ \A x : x \in {e} /\ x \in Queued(logQueue') => logDropped' = logDropped
          /\ QueueOK(logQueue')
          /\ \A c \in Callers : Asks(logQueue', c) <=> Asks(logQueue, c)
          /\ \A c, E : Behind(logQueue, c, E) /\ {e} \cap E = {} => Behind(logQueue', c, E)
      BY <1>1, <2>1, LogEnqueueFacts
    <2> QED BY <2>1, <2>2
  <1>3. Combined' = Combined
    BY <1>1 DEF Combined
  <1>5. TypeOK'
    <2>1. logDropped' \subseteq recorded'
      BY <1>0, <1>1, <1>2 DEF TypeOK
    <2> QED BY <1>0, <1>1, <1>2, <2>1, RecordTypes DEF TypeOK
  <1>6. Placed'
    BY <1>0, <1>1, <1>2, <1>3, FreshEvent DEF Placed, PlacesOK
  <1>7. LinesApart'
    BY <1>0, <1>1, <1>2 DEF LinesApart
  <1>8. WriterSteps'
    BY <1>0, <1>1 DEF WriterSteps
  <1>9. FlushSides'
    <2> SUFFICES ASSUME NEW c \in Callers PROVE DiagSide(c)' /\ (c \notin late => LogSide(c)')
      BY <1>1 DEF FlushSides
    <2>1. DiagSide(c) /\ (c \notin late => LogSide(c)) /\ e \notin before[c]
      BY <1>0, <1>1, FreshEvent DEF FlushSides
    <2>2. DiagSide(c)'
      BY <1>1, <1>2, <1>3, <2>1 DEF DiagSide
    <2>3. LogSide(c) => LogSide(c)'
      BY <1>1, <1>2, <2>1 DEF LogSide
    <2> QED BY <2>1, <2>2, <2>3
  <1> QED BY <1>5, <1>6, <1>7, <1>8, <1>9, OnePlaceNext DEF IInv

(***************************************************************************)
(* diagnostic_writer_loop                                                  *)
(***************************************************************************)

\* What every step of the diagnostic writer that takes a message does to the
\* channel.
LEMMA DiagTakes ==
  ASSUME IInv, diagQueue # <<>>, diagQueue' = Tail(diagQueue)
  PROVE  /\ diagQueue' \in Seq(Messages) /\ Len(diagQueue') <= DiagCapacity
         /\ Head(diagQueue) \in Messages
         /\ \A x : x \in Queued(diagQueue) <=>
                   x \in Queued(diagQueue') \/ x \in Head(diagQueue).line
         /\ \A x : x \in Head(diagQueue).line => x \notin Queued(diagQueue')
         /\ Head(diagQueue).line = {} <=> Head(diagQueue).flush # None
         /\ Head(diagQueue).line \subseteq recorded
         /\ QueueOK(diagQueue')
         /\ \A c : Asks(diagQueue, c) <=> Asks(diagQueue', c) \/ Head(diagQueue).flush = c
         /\ \A c \in Callers :
              /\ Behind(diagQueue', c, before[c])
              /\ Head(diagQueue).flush = c => before[c] \cap Queued(diagQueue') = {}
  <1>1. /\ diagQueue \in Seq(Messages) /\ Len(diagQueue) <= DiagCapacity /\ QueueOK(diagQueue)
        /\ Queued(diagQueue) \subseteq recorded
        /\ \A c \in Callers : Behind(diagQueue, c, before[c])
    BY DEF IInv, TypeOK, LinesApart, FlushSides, DiagSide
  <1>2. diagQueue' \in Seq(Messages) /\ Len(diagQueue') <= DiagCapacity
        /\ Head(diagQueue) \in Messages
    BY <1>1, QueueTail, CapacityAssumption
  <1>3. \A x : x \in Queued(diagQueue) <=>
               x \in Queued(diagQueue') \/ x \in Head(diagQueue).line
    BY <1>1, QueuedTail
  <1>4. /\ QueueOK(diagQueue')
        /\ Head(diagQueue).line \cap Queued(diagQueue') = {}
        /\ Head(diagQueue).line = {} <=> Head(diagQueue).flush # None
    BY <1>1, QueueOKTail
  <1>5. \A c : Asks(diagQueue, c) <=> Asks(diagQueue', c) \/ Head(diagQueue).flush = c
    BY <1>1, AsksTail
  <1>6. \A c \in Callers :
          /\ Behind(diagQueue', c, before[c])
          /\ Head(diagQueue).flush = c => before[c] \cap Queued(diagQueue') = {}
    BY <1>1, BehindTail
  <1> QED BY <1>1, <1>2, <1>3, <1>4, <1>5, <1>6

\* DiagnosticBatch::push: the events of the entry join those of their key.
LEMMA DiagPushKeeps ==
  ASSUME IInv, DiagPush
  PROVE  /\ IInv'
         /\ \A x : x \in Queued(diagQueue) \/ x \in Combined =>
                   x \in Queued(diagQueue') \/ x \in Combined'
  <1>0. TypeOK /\ Placed /\ LinesApart /\ WriterSteps /\ FlushSides
    BY OnePlaceIs DEF IInv
  <1> DEFINE line == Head(diagQueue).line
  <1>1. /\ diagPc = "recv" /\ diagQueue # <<>> /\ Head(diagQueue).flush = None
        /\ diagQueue' = Tail(diagQueue)
        /\ pending' = [k \in Keys |-> pending[k] \cup {e \in line : KeyOf[e] = k}]
        /\ UNCHANGED <<recorded, diagDropped, diagPc, drain, diagAck, logQueue, logDropped,
                       batch, logPc, logAck, file, failed, call, before, acked, late>>
    BY DEF DiagPush, logVars, callVars, disk
  <1>2. /\ diagQueue' \in Seq(Messages) /\ Len(diagQueue') <= DiagCapacity
        /\ \A x : x \in Queued(diagQueue) <=> x \in Queued(diagQueue') \/ x \in line
        /\ \A x : x \in line => x \notin Queued(diagQueue')
        /\ line \subseteq recorded
        /\ QueueOK(diagQueue')
        /\ \A c \in Callers : /\ Asks(diagQueue', c) => Asks(diagQueue, c)
                              /\ Behind(diagQueue', c, before[c])
    BY <1>1, DiagTakes
  <1> HIDE DEF line
  <1>3. \A x : x \in Combined' <=> x \in Combined \/ x \in line
    <2>1. \A x \in line : KeyOf[x] \in Keys
      BY <1>0, <1>2, EventsAssumption DEF TypeOK
    <2>2. \A x : x \in Combined' <=> \E k \in Keys : x \in pending'[k]
      BY DEF Combined
    <2>3. \A x : x \in Combined <=> \E k \in Keys : x \in pending[k]
      BY DEF Combined
    <2> QED BY <1>1, <2>1, <2>2, <2>3
  <1>4. pending' \in [Keys -> SUBSET recorded']
    BY <1>0, <1>1, <1>2 DEF TypeOK
  <1>5. TypeOK'
    BY <1>0, <1>1, <1>2, <1>4 DEF TypeOK
  <1>6. Placed'
    BY <1>0, <1>1, <1>2, <1>3 DEF Placed, PlacesOK
  <1>7. LinesApart'
    BY <1>0, <1>1, <1>2 DEF LinesApart
  <1>8. WriterSteps'
    BY <1>0, <1>1 DEF WriterSteps
  <1>9. FlushSides'
    <2> SUFFICES ASSUME NEW c \in Callers PROVE DiagSide(c)' /\ (c \notin late => LogSide(c)')
      BY <1>1 DEF FlushSides
    <2>1. DiagSide(c) /\ (c \notin late => LogSide(c)) /\ diagAck # c
      BY <1>0, <1>1, EventsAssumption DEF FlushSides, WriterSteps
    <2>2. DiagSide(c)'
      BY <1>1, <1>2, <1>3, <2>1 DEF DiagSide
    <2>3. LogSide(c) => LogSide(c)'
      BY <1>1 DEF LogSide
    <2> QED BY <2>1, <2>2, <2>3
  <1> QED BY <1>2, <1>3, <1>5, <1>6, <1>7, <1>8, <1>9, OnePlaceNext DEF IInv

\* Draining the keys K moves their events into the lines in hand.
LEMMA DrainFacts ==
  ASSUME IInv, diagPc = "recv", NEW K \in SUBSET Keys, Drain(K), recorded' = recorded
  PROVE  /\ pending' \in [Keys -> SUBSET recorded']
         /\ drain' \subseteq (SUBSET recorded') \ {{}}
         /\ \A x : x \in Combined <=> x \in Combined' \/ x \in UNION drain'
         /\ \A x : x \in Combined' => x \notin UNION drain'
         /\ \A line, other \in drain' : line # other => line \cap other = {}
         /\ \A k \in Keys : \A e \in pending'[k] : KeyOf[e] = k
         /\ K = Keys => \A x : x \notin Combined'
         /\ drain = {}
  <1>1. /\ drain' = {pending[k] : k \in K} \ {{}}
        /\ pending' = [k \in Keys |-> IF k \in K THEN {} ELSE pending[k]]
        /\ pending \in [Keys -> SUBSET recorded] /\ recorded' = recorded
        /\ \A k \in Keys : \A e \in pending[k] : KeyOf[e] = k
        /\ drain = {}
    BY DEF Drain, IInv, TypeOK, LinesApart, WriterSteps
  <1>2. \A x : x \in UNION drain' <=> \E k \in K : x \in pending[k]
    BY <1>1
  <1>3. \A x : x \in Combined' <=> \E k \in Keys \ K : x \in pending[k]
    <2>1. \A x : x \in Combined' <=> \E k \in Keys : x \in pending'[k]
      BY DEF Combined
    <2> QED BY <1>1, <2>1
  <1>4. \A x : x \in Combined <=> \E k \in Keys : x \in pending[k]
    BY DEF Combined
  <1>5. pending' \in [Keys -> SUBSET recorded']
    BY <1>1
  <1>6. drain' \subseteq (SUBSET recorded') \ {{}}
    BY <1>1
  <1>7. \A line, other \in drain' : line # other => line \cap other = {}
    <2> SUFFICES ASSUME NEW line \in drain', NEW other \in drain', NEW x \in line, x \in other
                 PROVE  line = other
      OBVIOUS
    <2>1. PICK k \in K : line = pending[k]
      BY <1>1
    <2>2. PICK j \in K : other = pending[j]
      BY <1>1
    <2> QED BY <1>1, <2>1, <2>2
  <1>8. \A k \in Keys : \A e \in pending'[k] : KeyOf[e] = k
    BY <1>1
  <1>9. \A x : x \in Combined' => x \notin UNION drain'
    <2> SUFFICES ASSUME NEW x, x \in Combined', x \in UNION drain' PROVE FALSE
      OBVIOUS
    <2>1. PICK k \in Keys \ K : x \in pending[k]
      BY <1>3
    <2>2. PICK j \in K : x \in pending[j]
      BY <1>2
    <2>3. j \in Keys
      OBVIOUS
    <2> QED BY <1>1, <2>1, <2>2, <2>3
  <1>10. \A x : x \in Combined <=> x \in Combined' \/ x \in UNION drain'
    BY <1>2, <1>3, <1>4
  <1>11. K = Keys => \A x : x \notin Combined'
    BY <1>3
  <1> QED BY <1>1, <1>5, <1>6, <1>7, <1>8, <1>9, <1>10, <1>11

\* drain_expired(force): everything combined is in hand before the answer.
LEMMA DiagFlushKeeps ==
  ASSUME IInv, DiagFlush
  PROVE  /\ IInv'
         /\ \A x : x \in Queued(diagQueue) \/ x \in Combined =>
                   x \in Queued(diagQueue') \/ x \in Combined' \/ x \in UNION drain'
  <1>0. TypeOK /\ Placed /\ LinesApart /\ WriterSteps /\ FlushSides
    BY OnePlaceIs DEF IInv
  <1>1. /\ diagPc = "recv" /\ diagQueue # <<>> /\ Head(diagQueue).flush # None
        /\ Drain(Keys) /\ diagPc' = "drain"
        /\ diagAck' = Head(diagQueue).flush
        /\ diagQueue' = Tail(diagQueue)
        /\ UNCHANGED <<recorded, diagDropped, logQueue, logDropped, batch, logPc, logAck,
                       file, failed, call, before, acked, late>>
    BY DEF DiagFlush, Drain, logVars, callVars, disk
  <1>2. /\ diagQueue' \in Seq(Messages) /\ Len(diagQueue') <= DiagCapacity
        /\ Head(diagQueue) \in Messages
        /\ \A x : x \in Queued(diagQueue) <=> x \in Queued(diagQueue')
        /\ QueueOK(diagQueue')
        /\ \A c \in Callers : /\ Asks(diagQueue, c) <=> Asks(diagQueue', c) \/ diagAck' = c
                              /\ Behind(diagQueue', c, before[c])
                              /\ diagAck' = c => before[c] \cap Queued(diagQueue') = {}
    BY <1>1, DiagTakes
  <1>3. /\ pending' \in [Keys -> SUBSET recorded']
        /\ drain' \subseteq (SUBSET recorded') \ {{}}
        /\ \A x : x \in Combined <=> x \in Combined' \/ x \in UNION drain'
        /\ \A line, other \in drain' : line # other => line \cap other = {}
        /\ \A k \in Keys : \A e \in pending'[k] : KeyOf[e] = k
        /\ \A x : x \notin Combined'
        /\ drain = {}
    <2>1. Keys \in SUBSET Keys
      OBVIOUS
    <2> QED BY <1>1, <2>1, DrainFacts
  <1>4. diagAck' \in Callers
    BY <1>1, <1>2 DEF Messages
  <1>5. TypeOK'
    BY <1>0, <1>1, <1>2, <1>3, <1>4 DEF TypeOK
  <1>6. Placed'
    <2>1. \A x : x \notin UNION drain
      BY <1>3
    <2> QED BY <1>0, <1>1, <1>2, <1>3, <2>1 DEF Placed, PlacesOK
  <1>7. LinesApart'
    BY <1>0, <1>1, <1>2, <1>3 DEF LinesApart
  <1>8. WriterSteps'
    BY <1>0, <1>1 DEF WriterSteps
  <1>9. FlushSides'
    <2> SUFFICES ASSUME NEW c \in Callers PROVE DiagSide(c)' /\ (c \notin late => LogSide(c)')
      BY <1>1 DEF FlushSides
    <2>1. DiagSide(c) /\ (c \notin late => LogSide(c))
      BY <1>0 DEF FlushSides
    <2>2. DiagSide(c)'
      BY <1>1, <1>2, <1>3, <2>1 DEF DiagSide
    <2>3. LogSide(c) => LogSide(c)'
      BY <1>1 DEF LogSide
    <2> QED BY <2>1, <2>2, <2>3
  <1> QED BY <1>2, <1>3, <1>5, <1>6, <1>7, <1>8, <1>9, OnePlaceNext DEF IInv

\* The poll: the entries whose window has passed are in hand.
LEMMA DiagTimeoutKeeps ==
  ASSUME IInv, NEW K \in SUBSET Keys, DiagTimeout(K)
  PROVE  /\ IInv'
         /\ \A x : x \in Combined => x \in Combined' \/ x \in UNION drain'
  <1>0. TypeOK /\ Placed /\ LinesApart /\ WriterSteps /\ FlushSides
    BY OnePlaceIs DEF IInv
  <1>1. /\ diagPc = "recv" /\ Drain(K) /\ diagPc' = "drain" /\ diagAck' = None
        /\ UNCHANGED <<recorded, diagQueue, diagDropped, logQueue, logDropped, batch, logPc,
                       logAck, file, failed, call, before, acked, late>>
    BY DEF DiagTimeout, Drain, logVars, callVars, disk
  <1>3. /\ pending' \in [Keys -> SUBSET recorded']
        /\ drain' \subseteq (SUBSET recorded') \ {{}}
        /\ \A x : x \in Combined <=> x \in Combined' \/ x \in UNION drain'
        /\ \A x : x \in Combined' => x \notin UNION drain'
        /\ \A line, other \in drain' : line # other => line \cap other = {}
        /\ \A k \in Keys : \A e \in pending'[k] : KeyOf[e] = k
        /\ drain = {}
    BY <1>1, DrainFacts
  <1>5. TypeOK'
    BY <1>0, <1>1, <1>3 DEF TypeOK
  <1>6. Placed'
    BY <1>0, <1>1, <1>3 DEF Placed, PlacesOK
  <1>7. LinesApart'
    BY <1>0, <1>1, <1>3 DEF LinesApart
  <1>8. WriterSteps'
    BY <1>0, <1>1 DEF WriterSteps
  <1>9. FlushSides'
    <2> SUFFICES ASSUME NEW c \in Callers PROVE DiagSide(c)' /\ (c \notin late => LogSide(c)')
      BY <1>1 DEF FlushSides
    <2>1. DiagSide(c) /\ (c \notin late => LogSide(c)) /\ diagAck' # c
      BY <1>0, <1>1, EventsAssumption DEF FlushSides
    <2>2. DiagSide(c)'
      BY <1>1, <1>3, <2>1 DEF DiagSide
    <2>3. LogSide(c) => LogSide(c)'
      BY <1>1 DEF LogSide
    <2> QED BY <2>1, <2>2, <2>3
  <1> QED BY <1>3, <1>5, <1>6, <1>7, <1>8, <1>9, OnePlaceNext DEF IInv

\* record_immediate of a line in hand: it is queued, or counted by one event.
LEMMA DiagHandOverKeeps ==
  ASSUME IInv, NEW line \in drain, DiagHandOver(line)
  PROVE  /\ IInv'
         /\ Queued(logQueue) \subseteq Queued(logQueue') /\ logDropped \subseteq logDropped'
         /\ (UNION drain) \subseteq (UNION drain') \cup line
         /\ line \subseteq Queued(logQueue') \/ \E x \in line : x \in logDropped'
  <1>0. TypeOK /\ Placed /\ LinesApart /\ WriterSteps /\ FlushSides
    BY OnePlaceIs DEF IInv
  <1>1. /\ drain' = drain \ {line} /\ LogEnqueue(line)
        /\ UNCHANGED <<recorded, diagQueue, diagDropped, pending, diagPc, diagAck, batch,
                       logPc, logAck, file, failed, call, before, acked, late>>
    BY DEF DiagHandOver, callVars, disk
  <1>2. /\ line \in SUBSET Events /\ line # {} /\ line \subseteq recorded
        /\ line \cap Queued(logQueue) = {}
        /\ \A x : x \in line => x \in UNION drain
    BY <1>0 DEF TypeOK, Placed, PlacesOK
  <1>3. /\ logQueue' \in Seq(Messages) /\ Len(logQueue') <= LogCapacity
        /\ \A x : x \in Queued(logQueue') => x \in Queued(logQueue) \/ x \in line
        /\ \A x : x \in logDropped' => x \in logDropped \/ x \in line
        /\ \A x : x \in line /\ x \in Queued(logQueue') => logDropped' = logDropped
        /\ QueueOK(logQueue')
        /\ \A c \in Callers : Asks(logQueue', c) <=> Asks(logQueue, c)
        /\ \A c, E : Behind(logQueue, c, E) /\ line \cap E = {} => Behind(logQueue', c, E)
        /\ Queued(logQueue) \subseteq Queued(logQueue') /\ logDropped \subseteq logDropped'
        /\ line \subseteq Queued(logQueue') \/ \E x \in line : x \in logDropped'
    BY <1>1, <1>2, LogEnqueueFacts
  <1>4. /\ \A x : x \in UNION drain' => x \in UNION drain /\ x \notin line
        /\ (UNION drain) \subseteq (UNION drain') \cup line
        /\ Combined' = Combined
    <2>1. \A other \in drain : other # line => other \cap line = {}
      BY <1>0 DEF LinesApart
    <2>2. Combined' = Combined
      BY <1>1 DEF Combined
    <2>3. \A x : x \in UNION drain' => x \in UNION drain /\ x \notin line
      BY <1>1, <2>1
    <2>4. ASSUME NEW x \in UNION drain PROVE x \in (UNION drain') \cup line
      <3>1. PICK other \in drain : x \in other
        OBVIOUS
      <3>2. other = line \/ other \in drain'
        BY <1>1
      <3>3. other \in drain' => x \in UNION drain'
        BY <3>1
      <3> QED BY <3>1, <3>2, <3>3
    <2> QED BY <2>2, <2>3, <2>4
  <1>5. TypeOK'
    <2>1. logDropped' \subseteq recorded' /\ drain' \subseteq (SUBSET recorded') \ {{}}
      BY <1>0, <1>1, <1>2, <1>3 DEF TypeOK
    <2> QED BY <1>0, <1>1, <1>3, <2>1 DEF TypeOK
  <1>6. Placed'
    BY <1>0, <1>1, <1>2, <1>3, <1>4 DEF Placed, PlacesOK
  <1>7. LinesApart'
    BY <1>0, <1>1, <1>2, <1>3 DEF LinesApart
  <1>8. WriterSteps'
    BY <1>0, <1>1 DEF WriterSteps
  <1>9. FlushSides'
    <2> SUFFICES ASSUME NEW c \in Callers PROVE DiagSide(c)' /\ (c \notin late => LogSide(c)')
      BY <1>1 DEF FlushSides
    <2>1. DiagSide(c) /\ (c \notin late => LogSide(c))
      BY <1>0 DEF FlushSides
    <2>2. DiagSide(c)'
      BY <1>1, <1>3, <1>4, <2>1 DEF DiagSide
    <2>3. ASSUME LogSide(c) PROVE LogSide(c)'
      <3>1. CASE "diag" \in acked[c]
        <4>1. \A x \in line : x \notin before[c]
          BY <1>2, <2>1, <3>1 DEF DiagSide
        <4> QED BY <1>1, <1>3, <2>3, <4>1 DEF LogSide
      <3>2. CASE "diag" \notin acked[c]
        <4>1. ~Asks(logQueue', c) /\ logAck # c /\ "log" \notin acked[c]
          BY <1>0, <1>3, <2>3, <3>2 DEF LogSide, TypeOK
        <4>2. Behind(logQueue', c, before[c])
          BY <4>1 DEF Behind, Asks
        <4> QED BY <1>1, <1>3, <2>3, <4>1, <4>2 DEF LogSide
      <3> QED BY <3>1, <3>2
    <2> QED BY <2>1, <2>2, <2>3
  <1> QED BY <1>3, <1>4, <1>5, <1>6, <1>7, <1>8, <1>9, OnePlaceNext DEF IInv

\* take_dropped: the counter becomes the line of the report.
LEMMA DiagSwapKeeps ==
  ASSUME IInv, DiagSwap
  PROVE  IInv' /\ diagDropped \subseteq UNION drain' /\ drain = {}
  <1>0. TypeOK /\ Placed /\ LinesApart /\ WriterSteps /\ FlushSides
    BY OnePlaceIs DEF IInv
  <1>1. /\ diagPc = "drain" /\ diagPc' = "report" /\ drain = {}
        /\ drain' = {diagDropped} \ {{}} /\ diagDropped' = {}
        /\ UNCHANGED <<recorded, diagQueue, pending, diagAck, logQueue, logDropped, batch,
                       logPc, logAck, file, failed, call, before, acked, late>>
    BY DEF DiagSwap, logVars, callVars, disk
  <1>2. /\ \A x : x \in UNION drain' <=> x \in diagDropped
        /\ \A x : x \notin UNION drain
        /\ Combined' = Combined
    BY <1>1 DEF Combined
  <1>5. TypeOK'
    BY <1>0, <1>1 DEF TypeOK
  <1>6. Placed'
    BY <1>0, <1>1, <1>2 DEF Placed, PlacesOK
  <1>7. LinesApart'
    BY <1>0, <1>1 DEF LinesApart
  <1>8. WriterSteps'
    BY <1>0, <1>1 DEF WriterSteps
  <1>9. FlushSides'
    <2> SUFFICES ASSUME NEW c \in Callers PROVE DiagSide(c)' /\ (c \notin late => LogSide(c)')
      BY <1>1 DEF FlushSides
    <2>1. DiagSide(c) /\ (c \notin late => LogSide(c))
      BY <1>0 DEF FlushSides
    <2>2. DiagSide(c)'
      BY <1>1, <1>2, <2>1 DEF DiagSide
    <2>3. LogSide(c) => LogSide(c)'
      BY <1>1 DEF LogSide
    <2> QED BY <2>1, <2>2, <2>3
  <1> QED BY <1>1, <1>2, <1>5, <1>6, <1>7, <1>8, <1>9, OnePlaceNext DEF IInv

\* The answer: nothing of what its flush waited for is left on this side.
LEMMA DiagDoneKeeps ==
  ASSUME IInv, DiagDone
  PROVE  IInv'
  <1>0. TypeOK /\ Placed /\ LinesApart /\ WriterSteps /\ FlushSides
    BY OnePlaceIs DEF IInv
  <1>1. /\ diagPc = "report" /\ drain = {} /\ diagPc' = "recv" /\ diagAck' = None
        /\ acked' = [d \in Callers |-> acked[d] \cup (IF d = diagAck THEN {"diag"} ELSE {})]
        /\ UNCHANGED <<recorded, diagQueue, diagDropped, pending, drain, logQueue, logDropped,
                       batch, logPc, logAck, file, failed, call, before, late>>
    BY DEF DiagDone, Acknowledge, logVars, disk
  <1>2. Combined' = Combined
    BY <1>1 DEF Combined
  <1>3. acked' \in [Callers -> SUBSET {"diag", "log"}]
    BY <1>0, <1>1 DEF TypeOK
  <1>5. TypeOK'
    BY <1>0, <1>1, <1>3 DEF TypeOK
  <1>6. Placed'
    BY <1>0, <1>1, <1>2 DEF Placed, PlacesOK
  <1>7. LinesApart'
    BY <1>0, <1>1 DEF LinesApart
  <1>8. WriterSteps'
    BY <1>0, <1>1 DEF WriterSteps
  <1>9. FlushSides'
    <2> SUFFICES ASSUME NEW c \in Callers PROVE DiagSide(c)' /\ (c \notin late => LogSide(c)')
      BY <1>1 DEF FlushSides
    <2>1. DiagSide(c) /\ (c \notin late => LogSide(c)) /\ c # None
      BY <1>0, EventsAssumption DEF FlushSides
    <2>2. acked'[c] = IF c = diagAck THEN acked[c] \cup {"diag"} ELSE acked[c]
      BY <1>1
    <2>3. DiagSide(c)'
      BY <1>1, <1>2, <2>1, <2>2 DEF DiagSide
    <2>4. LogSide(c) => LogSide(c)'
      BY <1>1, <2>2 DEF LogSide
    <2> QED BY <2>1, <2>3, <2>4
  <1> QED BY <1>5, <1>6, <1>7, <1>8, <1>9, OnePlaceNext DEF IInv

(***************************************************************************)
(* log_writer_loop                                                         *)
(***************************************************************************)

\* What every step of the persistent writer that takes a message does to the
\* channel.
LEMMA LogTakes ==
  ASSUME IInv, logQueue # <<>>, logQueue' = Tail(logQueue)
  PROVE  /\ logQueue' \in Seq(Messages) /\ Len(logQueue') <= LogCapacity
         /\ Head(logQueue) \in Messages
         /\ \A x : x \in Queued(logQueue) <=>
                   x \in Queued(logQueue') \/ x \in Head(logQueue).line
         /\ \A x : x \in Head(logQueue).line => x \notin Queued(logQueue')
         /\ Head(logQueue).line = {} <=> Head(logQueue).flush # None
         /\ Head(logQueue).line \subseteq recorded
         /\ QueueOK(logQueue')
         /\ \A c : Asks(logQueue, c) <=> Asks(logQueue', c) \/ Head(logQueue).flush = c
         /\ \A c \in Callers : Behind(logQueue, c, before[c]) =>
              /\ Behind(logQueue', c, before[c])
              /\ Head(logQueue).flush = c => before[c] \cap Queued(logQueue') = {}
  <1>1. /\ logQueue \in Seq(Messages) /\ Len(logQueue) <= LogCapacity /\ QueueOK(logQueue)
        /\ Queued(logQueue) \subseteq recorded
    BY DEF IInv, TypeOK, LinesApart
  <1>2. logQueue' \in Seq(Messages) /\ Len(logQueue') <= LogCapacity
        /\ Head(logQueue) \in Messages
    BY <1>1, QueueTail, CapacityAssumption
  <1>3. \A x : x \in Queued(logQueue) <=>
               x \in Queued(logQueue') \/ x \in Head(logQueue).line
    BY <1>1, QueuedTail
  <1>4. /\ QueueOK(logQueue')
        /\ Head(logQueue).line \cap Queued(logQueue') = {}
        /\ Head(logQueue).line = {} <=> Head(logQueue).flush # None
    BY <1>1, QueueOKTail
  <1>5. \A c : Asks(logQueue, c) <=> Asks(logQueue', c) \/ Head(logQueue).flush = c
    BY <1>1, AsksTail
  <1>6. \A c \in Callers : Behind(logQueue, c, before[c]) =>
          /\ Behind(logQueue', c, before[c])
          /\ Head(logQueue).flush = c => before[c] \cap Queued(logQueue') = {}
    BY <1>1, BehindTail
  <1> QED BY <1>1, <1>2, <1>3, <1>4, <1>5, <1>6

\* An entry joins the batch.
LEMMA LogPushKeeps ==
  ASSUME IInv, LogPush
  PROVE  /\ IInv'
         /\ \A x : x \in Queued(logQueue) \/ x \in Shown(batch) =>
                   x \in Queued(logQueue') \/ x \in Shown(batch')
  <1>0. TypeOK /\ Placed /\ LinesApart /\ WriterSteps /\ FlushSides
    BY OnePlaceIs DEF IInv
  <1> DEFINE line == Head(logQueue).line
  <1>1. /\ logPc = "recv" /\ logQueue # <<>> /\ Head(logQueue).flush = None
        /\ batch' = Append(batch, line)
        /\ logPc' \in IF Len(batch') >= BatchEvents THEN {"swap"} ELSE {"recv", "swap"}
        /\ logQueue' = Tail(logQueue)
        /\ UNCHANGED <<recorded, diagQueue, diagDropped, pending, diagPc, drain, diagAck,
                       logDropped, logAck, file, failed, call, before, acked, late>>
    BY DEF LogPush, diagVars, callVars, disk
  <1>2. /\ logQueue' \in Seq(Messages) /\ Len(logQueue') <= LogCapacity
        /\ \A x : x \in Queued(logQueue) <=> x \in Queued(logQueue') \/ x \in line
        /\ \A x : x \in line => x \notin Queued(logQueue')
        /\ line # {} /\ line \subseteq recorded
        /\ QueueOK(logQueue')
        /\ \A c \in Callers : /\ Asks(logQueue', c) => Asks(logQueue, c)
                              /\ Behind(logQueue, c, before[c]) => Behind(logQueue', c, before[c])
    BY <1>1, LogTakes
  <1> HIDE DEF line
  <1>3. /\ batch \in Seq(SUBSET recorded) /\ line \in SUBSET recorded
        /\ BatchApart(batch) /\ \A i \in DOMAIN batch : batch[i] # {}
        /\ line \cap Shown(batch) = {}
        /\ logAck = None /\ Len(batch) < BatchEvents
    <2>1. \A x \in line : x \notin Shown(batch)
      BY <1>0, <1>2 DEF Placed, PlacesOK
    <2> QED BY <1>0, <1>1, <1>2, <2>1 DEF TypeOK, Placed, LinesApart, WriterSteps
  <1>4. /\ \A x : x \in Shown(batch') <=> x \in Shown(batch) \/ x \in line
        /\ BatchApart(batch') /\ \A i \in DOMAIN batch' : batch'[i] # {}
        /\ batch' \in Seq(SUBSET recorded') /\ Len(batch') = Len(batch) + 1
        /\ Len(batch) \in Nat
        /\ Combined' = Combined
    <2>1. \A x : x \in Shown(batch') <=> x \in Shown(batch) \/ x \in line
      BY <1>1, <1>3, ShownAppend
    <2>2. BatchApart(batch') /\ \A i \in DOMAIN batch' : batch'[i] # {}
      BY <1>1, <1>2, <1>3, BatchApartAppend
    <2>3. batch' \in Seq(SUBSET recorded') /\ Len(batch') = Len(batch) + 1 /\ Len(batch) \in Nat
      BY <1>1, <1>3, BatchAppend
    <2>4. Combined' = Combined
      BY <1>1 DEF Combined
    <2> QED BY <2>1, <2>2, <2>3, <2>4
  <1>5. TypeOK' /\ WriterSteps'
    <2>1. Len(batch') <= BatchEvents /\ (logPc' = "recv" => Len(batch') < BatchEvents)
          /\ logPc' \in {"recv", "swap"}
      BY <1>1, <1>3, <1>4, CapacityAssumption
    <2>2. Len(batch') <= BatchEvents + 1
      BY <1>4, <2>1, CapacityAssumption
    <2>3. TypeOK'
      BY <1>0, <1>1, <1>2, <1>4, <2>1, <2>2 DEF TypeOK
    <2> QED BY <1>0, <1>1, <1>3, <2>1, <2>3 DEF WriterSteps
  <1>6. Placed'
    BY <1>0, <1>1, <1>2, <1>4 DEF Placed, PlacesOK
  <1>7. LinesApart'
    BY <1>0, <1>1, <1>2, <1>4 DEF LinesApart
  <1>9. FlushSides'
    <2> SUFFICES ASSUME NEW c \in Callers PROVE DiagSide(c)' /\ (c \notin late => LogSide(c)')
      BY <1>1 DEF FlushSides
    <2>1. DiagSide(c) /\ (c \notin late => LogSide(c)) /\ logAck # c
      BY <1>0, <1>3, EventsAssumption DEF FlushSides
    <2>2. DiagSide(c)'
      BY <1>1, <1>2, <1>4, <2>1 DEF DiagSide
    <2>3. LogSide(c) => LogSide(c)'
      BY <1>1, <1>2, <1>4, <2>1 DEF LogSide
    <2> QED BY <2>1, <2>2, <2>3
  <1> QED BY <1>2, <1>4, <1>5, <1>6, <1>7, <1>9, OnePlaceNext DEF IInv

\* A flush message: the batch is written whatever its size.
LEMMA LogFlushKeeps ==
  ASSUME IInv, LogFlush
  PROVE  IInv' /\ \A x : x \in Queued(logQueue) <=> x \in Queued(logQueue')
  <1>0. TypeOK /\ Placed /\ LinesApart /\ WriterSteps /\ FlushSides
    BY OnePlaceIs DEF IInv
  <1>1. /\ logPc = "recv" /\ logQueue # <<>> /\ Head(logQueue).flush # None
        /\ logAck' = Head(logQueue).flush /\ logPc' = "swap"
        /\ logQueue' = Tail(logQueue)
        /\ UNCHANGED <<recorded, diagQueue, diagDropped, pending, diagPc, drain, diagAck,
                       logDropped, batch, file, failed, call, before, acked, late>>
    BY DEF LogFlush, diagVars, callVars, disk
  <1>2. /\ logQueue' \in Seq(Messages) /\ Len(logQueue') <= LogCapacity
        /\ Head(logQueue) \in Messages
        /\ \A x : x \in Queued(logQueue) <=> x \in Queued(logQueue')
        /\ QueueOK(logQueue')
        /\ \A c \in Callers : /\ Asks(logQueue, c) <=> Asks(logQueue', c) \/ logAck' = c
                              /\ Behind(logQueue, c, before[c]) =>
                                   /\ Behind(logQueue', c, before[c])
                                   /\ logAck' = c => before[c] \cap Queued(logQueue') = {}
    BY <1>1, LogTakes
  <1>3. logAck' \in Callers /\ Combined' = Combined
    BY <1>1, <1>2 DEF Messages, Combined
  <1>4. Len(batch) \in Nat /\ Len(batch) < BatchEvents
    BY <1>0, <1>1 DEF TypeOK, WriterSteps
  <1>5. TypeOK'
    BY <1>0, <1>1, <1>2, <1>3 DEF TypeOK
  <1>6. Placed'
    BY <1>0, <1>1, <1>2, <1>3 DEF Placed, PlacesOK
  <1>7. LinesApart'
    BY <1>0, <1>1, <1>2 DEF LinesApart
  <1>8. WriterSteps'
    BY <1>0, <1>1, <1>4, CapacityAssumption DEF WriterSteps
  <1>9. FlushSides'
    <2> SUFFICES ASSUME NEW c \in Callers PROVE DiagSide(c)' /\ (c \notin late => LogSide(c)')
      BY <1>1 DEF FlushSides
    <2>1. DiagSide(c) /\ (c \notin late => LogSide(c)) /\ logAck # c
      BY <1>0, <1>1, EventsAssumption DEF FlushSides, WriterSteps
    <2>2. DiagSide(c)'
      BY <1>1, <1>2, <1>3, <2>1 DEF DiagSide
    <2>3. LogSide(c) => LogSide(c)'
      BY <1>1, <1>2, <2>1 DEF LogSide
    <2> QED BY <2>1, <2>2, <2>3
  <1> QED BY <1>2, <1>5, <1>6, <1>7, <1>8, <1>9, OnePlaceNext DEF IInv

\* The flush interval has passed.
LEMMA LogTimeoutKeeps ==
  ASSUME IInv, LogTimeout
  PROVE  IInv'
  <1>0. TypeOK /\ Placed /\ LinesApart /\ WriterSteps /\ FlushSides
    BY OnePlaceIs DEF IInv
  <1>1. /\ logPc = "recv" /\ logPc' = "swap"
        /\ UNCHANGED <<recorded, diagQueue, diagDropped, pending, diagPc, drain, diagAck,
                       logQueue, logAck, logDropped, batch, file, failed, call, before,
                       acked, late>>
    BY DEF LogTimeout, diagVars, callVars, disk
  <1>3. Combined' = Combined
    BY <1>1 DEF Combined
  <1>4. Len(batch) \in Nat /\ Len(batch) < BatchEvents
    BY <1>0, <1>1 DEF TypeOK, WriterSteps
  <1>5. TypeOK'
    BY <1>0, <1>1 DEF TypeOK
  <1>6. Placed'
    BY <1>0, <1>1, <1>3 DEF Placed, PlacesOK
  <1>7. LinesApart'
    BY <1>0, <1>1 DEF LinesApart
  <1>8. WriterSteps'
    BY <1>0, <1>1, <1>4, CapacityAssumption DEF WriterSteps
  <1>9. FlushSides'
    <2> SUFFICES ASSUME NEW c \in Callers PROVE DiagSide(c)' /\ (c \notin late => LogSide(c)')
      BY <1>1 DEF FlushSides
    <2>1. DiagSide(c) /\ (c \notin late => LogSide(c)) /\ logAck # c
      BY <1>0, <1>1, EventsAssumption DEF FlushSides, WriterSteps
    <2>2. DiagSide(c)'
      BY <1>1, <1>3, <2>1 DEF DiagSide
    <2>3. LogSide(c) => LogSide(c)'
      BY <1>1, <2>1 DEF LogSide
    <2> QED BY <2>1, <2>2, <2>3
  <1> QED BY <1>5, <1>6, <1>7, <1>8, <1>9, OnePlaceNext DEF IInv

\* take_dropped: the counter becomes a line of the batch.
LEMMA LogSwapKeeps ==
  ASSUME IInv, LogSwap
  PROVE  IInv' /\ \A x : x \in Shown(batch) \/ x \in logDropped => x \in Shown(batch')
  <1>0. TypeOK /\ Placed /\ LinesApart /\ WriterSteps /\ FlushSides
    BY OnePlaceIs DEF IInv
  <1>1. /\ logPc = "swap" /\ logPc' = "write"
        /\ batch' = (IF logDropped = {} THEN batch ELSE Append(batch, logDropped))
        /\ logDropped' = {}
        /\ UNCHANGED <<recorded, diagQueue, diagDropped, pending, diagPc, drain, diagAck,
                       logQueue, logAck, file, failed, call, before, acked, late>>
    BY DEF LogSwap, diagVars, callVars, disk
  <1>3. /\ batch \in Seq(SUBSET recorded) /\ logDropped \in SUBSET recorded
        /\ BatchApart(batch) /\ \A i \in DOMAIN batch : batch[i] # {}
        /\ logDropped \cap Shown(batch) = {}
        /\ Len(batch) <= BatchEvents
    <2>1. \A x \in logDropped : x \notin Shown(batch)
      BY <1>0 DEF Placed, PlacesOK
    <2> QED BY <1>0, <1>1, <2>1 DEF TypeOK, Placed, LinesApart, WriterSteps
  <1>4. /\ \A x : x \in Shown(batch') <=> x \in Shown(batch) \/ x \in logDropped
        /\ BatchApart(batch') /\ \A i \in DOMAIN batch' : batch'[i] # {}
        /\ batch' \in Seq(SUBSET recorded') /\ Len(batch') <= BatchEvents + 1
        /\ Combined' = Combined
    <2>0. Len(batch) \in Nat /\ Combined' = Combined
      BY <1>1, <1>3 DEF Combined
    <2>1. CASE logDropped = {}
      <3>1. Len(batch) <= BatchEvents + 1
        BY <1>3, <2>0, CapacityAssumption
      <3> QED BY <1>1, <1>3, <2>0, <2>1, <3>1
    <2>2. CASE logDropped # {}
      <3>0. batch' = Append(batch, logDropped)
        BY <1>1, <2>2
      <3>1. \A x : x \in Shown(batch') <=> x \in Shown(batch) \/ x \in logDropped
        BY <1>3, <3>0, ShownAppend
      <3>2. BatchApart(batch') /\ \A i \in DOMAIN batch' : batch'[i] # {}
        BY <1>3, <2>2, <3>0, BatchApartAppend
      <3>3. batch' \in Seq(SUBSET recorded') /\ Len(batch') = Len(batch) + 1
        BY <1>1, <1>3, <3>0, BatchAppend
      <3>4. Len(batch') <= BatchEvents + 1
        BY <1>3, <2>0, <3>3, CapacityAssumption
      <3> QED BY <2>0, <3>1, <3>2, <3>3, <3>4
    <2> QED BY <2>1, <2>2
  <1>5. TypeOK'
    BY <1>0, <1>1, <1>4 DEF TypeOK
  <1>6. Placed'
    BY <1>0, <1>1, <1>4 DEF Placed, PlacesOK
  <1>7. LinesApart'
    BY <1>0, <1>1, <1>4 DEF LinesApart
  <1>8. WriterSteps'
    BY <1>0, <1>1 DEF WriterSteps
  <1>9. FlushSides'
    <2> SUFFICES ASSUME NEW c \in Callers PROVE DiagSide(c)' /\ (c \notin late => LogSide(c)')
      BY <1>1 DEF FlushSides
    <2>1. DiagSide(c) /\ (c \notin late => LogSide(c))
      BY <1>0 DEF FlushSides
    <2>2. DiagSide(c)'
      BY <1>1, <1>4, <2>1 DEF DiagSide
    <2>3. LogSide(c) => LogSide(c)'
      BY <1>1, <1>4 DEF LogSide
    <2> QED BY <2>1, <2>2, <2>3
  <1> QED BY <1>4, <1>5, <1>6, <1>7, <1>8, <1>9, OnePlaceNext DEF IInv

\* Both outcomes of a write empty the batch and answer the flush: what the
\* counter gets back of a batch that failed is among the failed events.
LEMMA WriteKeeps ==
  ASSUME IInv, logPc = "write", LogWritten, batch' = <<>>,
         file \subseteq file' /\ file' \subseteq file \cup Shown(batch),
         failed \subseteq failed' /\ failed' \subseteq recorded,
         Shown(batch) \subseteq file' \/ Shown(batch) \subseteq failed',
         logDropped \subseteq logDropped',
         logDropped' \subseteq logDropped \cup (Shown(batch) \cap failed'),
         \A x \in file' \cap Shown(batch) : x \in logDropped' => x \in failed'
  PROVE  IInv'
  <1>0. TypeOK /\ Placed /\ LinesApart /\ WriterSteps /\ FlushSides
    BY OnePlaceIs DEF IInv
  <1>1. /\ logPc' = "recv" /\ logAck' = None
        /\ acked' = [d \in Callers |-> acked[d] \cup (IF d = logAck THEN {"log"} ELSE {})]
        /\ UNCHANGED <<recorded, diagQueue, diagDropped, pending, diagPc, drain, diagAck,
                       logQueue, call, before, late>>
    BY DEF LogWritten, Acknowledge, diagVars
  <1>2. \A x : x \notin Shown(batch')
    BY ShownEmpty
  <1>3. /\ Combined' = Combined
        /\ acked' \in [Callers -> SUBSET {"diag", "log"}]
        /\ Shown(batch) \subseteq recorded
    <2>1. Combined' = Combined
      BY <1>1 DEF Combined
    <2>2. acked' \in [Callers -> SUBSET {"diag", "log"}]
      BY <1>0, <1>1 DEF TypeOK
    <2>3. batch \in Seq(SUBSET recorded)
      BY <1>0 DEF TypeOK
    <2>4. \A i \in DOMAIN batch : batch[i] \subseteq recorded
      BY <2>3
    <2>5. Shown(batch) \subseteq recorded
      BY <2>4 DEF Shown
    <2> QED BY <2>1, <2>2, <2>5
  <1>4. /\ <<>> \in Seq(SUBSET recorded') /\ Len(<<>>) = 0 /\ DOMAIN <<>> = {}
        /\ 0 < BatchEvents /\ 0 <= BatchEvents + 1
    BY CapacityAssumption
  <1>5. TypeOK'
    <2>1. /\ file' \subseteq recorded' /\ failed' \subseteq recorded' /\ logDropped' \subseteq recorded'
          /\ batch' \in Seq(SUBSET recorded') /\ Len(batch') <= BatchEvents + 1
      BY <1>0, <1>1, <1>3, <1>4 DEF TypeOK
    <2> QED BY <1>0, <1>1, <1>3, <2>1 DEF TypeOK
  <1>6. Placed'
    <2>1. BatchApart(batch')
      BY <1>4 DEF BatchApart
    <2>2. PlacesOK(Queued(diagQueue), diagDropped, Combined, UNION drain, Queued(logQueue),
                   logDropped, Shown(batch), file, failed)
      BY <1>0 DEF Placed
    <2>3. PlacesOK(Queued(diagQueue), diagDropped, Combined, UNION drain, Queued(logQueue),
                   logDropped', Shown(batch'), file', failed')
      BY <1>2, <2>2 DEF PlacesOK
    <2> QED BY <1>1, <1>3, <2>1, <2>3 DEF Placed
  <1>7. LinesApart'
    BY <1>0, <1>1, <1>4 DEF LinesApart
  <1>8. WriterSteps'
    BY <1>0, <1>1, <1>4 DEF WriterSteps
  <1>9. FlushSides'
    <2> SUFFICES ASSUME NEW c \in Callers PROVE DiagSide(c)' /\ (c \notin late => LogSide(c)')
      BY <1>1 DEF FlushSides
    <2>1. DiagSide(c) /\ (c \notin late => LogSide(c)) /\ c # None
      BY <1>0, EventsAssumption DEF FlushSides
    <2>2. acked'[c] = IF c = logAck THEN acked[c] \cup {"log"} ELSE acked[c]
      BY <1>1
    <2>3. DiagSide(c)'
      BY <1>1, <1>3, <2>1, <2>2 DEF DiagSide
    <2>4. ASSUME LogSide(c) PROVE LogSide(c)'
      <3>1. /\ before[c] \cap Queued(logQueue) = {} \/ "log" \notin acked'[c]
            /\ "log" \in acked'[c] => before[c] \cap logDropped' \subseteq failed'
        BY <2>2, <2>4 DEF LogSide
      <3> QED BY <1>1, <1>2, <2>1, <2>2, <2>4, <3>1 DEF LogSide
    <2> QED BY <2>1, <2>3, <2>4
  <1> QED BY <1>5, <1>6, <1>7, <1>8, <1>9, OnePlaceNext DEF IInv

LEMMA LogWriteKeeps ==
  ASSUME IInv, LogWrite
  PROVE  IInv' /\ Shown(batch) \subseteq file' /\ file \subseteq file'
  <1>1. /\ logPc = "write" /\ file' = file \cup Shown(batch) /\ batch' = <<>>
        /\ logDropped' = logDropped /\ failed' = failed /\ LogWritten
    BY DEF LogWrite
  <1>2. \A x \in Shown(batch) : x \notin logDropped
    BY OnePlaceIs DEF IInv, Placed, PlacesOK
  <1>3. failed \subseteq recorded
    BY DEF IInv, TypeOK
  <1>4. IInv'
    BY <1>1, <1>2, <1>3, WriteKeeps
  <1> QED BY <1>1, <1>4

LEMMA LogWriteFailsInv ==
  ASSUME IInv, LogWriteFails
  PROVE  /\ IInv' /\ file \subseteq file'
         /\ \A i \in DOMAIN batch : \E x \in batch[i] : x \in logDropped'
         /\ logDropped \subseteq logDropped'
  <1>1. /\ logPc = "write" /\ batch' = <<>> /\ LogWritten
        /\ logDropped' = logDropped \cup {OneOf(batch[i]) : i \in DOMAIN batch}
        /\ failed' = failed \cup Shown(batch)
    BY DEF LogWriteFails
  <1>2. PICK n \in 0 .. (Len(batch) - 1) : file' = file \cup Shown(SubSeq(batch, 1, n))
    BY DEF LogWriteFails
  <1>3. /\ batch \in Seq(SUBSET recorded) /\ failed \subseteq recorded
        /\ \A i \in DOMAIN batch : batch[i] # {}
    BY DEF IInv, TypeOK, LinesApart
  <1>4. \A i \in DOMAIN batch : OneOf(batch[i]) \in batch[i]
    BY <1>3, OneOfIn
  <1>5. file \subseteq file' /\ file' \subseteq file \cup Shown(batch)
    BY <1>2, <1>3, ShownPart
  <1>6. \A i \in DOMAIN batch : OneOf(batch[i]) \in Shown(batch)
    BY <1>4 DEF Shown
  <1>7. logDropped' \subseteq logDropped \cup Shown(batch)
    BY <1>1, <1>6
  <1>8. Shown(batch) \subseteq recorded
    <2>1. \A i \in DOMAIN batch : batch[i] \subseteq recorded
      BY <1>3
    <2> QED BY <2>1 DEF Shown
  <1>9. IInv'
    <2>1. /\ failed \subseteq failed' /\ failed' \subseteq recorded
          /\ Shown(batch) \subseteq failed' /\ logDropped \subseteq logDropped'
          /\ logDropped' \subseteq logDropped \cup (Shown(batch) \cap failed')
          /\ \A x \in file' \cap Shown(batch) : x \in logDropped' => x \in failed'
      BY <1>1, <1>3, <1>7, <1>8
    <2> QED BY <1>1, <1>5, <2>1, WriteKeeps
  <1> QED BY <1>1, <1>4, <1>5, <1>9

(***************************************************************************)
(* flush_persistent                                                        *)
(***************************************************************************)

LEMMA NoneBehind ==
  ASSUME NEW q, NEW c, NEW E, ~Asks(q, c)
  PROVE  Behind(q, c, E)
  BY DEF Asks, Behind

\* A caller that has not sent its message has no answer, and nobody has one for it.
LEMMA FlushBeginKeeps ==
  ASSUME IInv, NEW c \in Callers, FlushBegin(c)
  PROVE  IInv'
  <1>0. TypeOK /\ Placed /\ LinesApart /\ WriterSteps /\ FlushSides
    BY OnePlaceIs DEF IInv
  <1>1. /\ call[c] = "idle" /\ call' = [call EXCEPT ![c] = "diagSend"]
        /\ before' = [before EXCEPT ![c] = recorded]
        /\ UNCHANGED <<recorded, diagQueue, diagDropped, pending, diagPc, drain, diagAck,
                       logQueue, logDropped, batch, logPc, logAck, file, failed, acked, late>>
    BY DEF FlushBegin, diagVars, logVars, disk
  <1>2. Combined' = Combined
    BY <1>1 DEF Combined
  <1>5. TypeOK'
    BY <1>0, <1>1 DEF TypeOK
  <1>6. Placed'
    BY <1>0, <1>1, <1>2 DEF Placed
  <1>7. LinesApart'
    BY <1>0, <1>1 DEF LinesApart
  <1>8. WriterSteps'
    BY <1>0, <1>1 DEF WriterSteps
  <1>9. FlushSides'
    <2> SUFFICES ASSUME NEW d \in Callers PROVE DiagSide(d)' /\ (d \notin late => LogSide(d)')
      BY <1>1 DEF FlushSides
    <2>1. DiagSide(d) /\ (d \notin late => LogSide(d))
      BY <1>0 DEF FlushSides
    <2>2. CASE d = c
      <3>1. /\ acked[d] = {} /\ diagAck # d /\ logAck # d
            /\ ~Asks(diagQueue, d) /\ ~Asks(logQueue, d)
        BY <1>1, <2>1, <2>2 DEF DiagSide
      <3>2. call'[d] = "diagSend"
        BY <1>0, <1>1, <2>2 DEF TypeOK
      <3>3. Behind(diagQueue, d, before'[d]) /\ Behind(logQueue, d, before'[d])
        BY <3>1, NoneBehind
      <3>4. DiagSide(d)'
        BY <1>1, <3>1, <3>2, <3>3 DEF DiagSide
      <3>5. LogSide(d)'
        BY <1>1, <3>1, <3>2, <3>3 DEF LogSide
      <3> QED BY <3>4, <3>5
    <2>3. CASE d # c
      <3>1. call'[d] = call[d] /\ before'[d] = before[d]
        BY <1>0, <1>1, <2>3 DEF TypeOK
      <3>2. DiagSide(d)'
        BY <1>1, <1>2, <2>1, <3>1 DEF DiagSide
      <3>3. LogSide(d) => LogSide(d)'
        BY <1>1, <3>1 DEF LogSide
      <3> QED BY <2>1, <3>2, <3>3
    <2> QED BY <2>2, <2>3
  <1> QED BY <1>5, <1>6, <1>7, <1>8, <1>9, OnePlaceNext DEF IInv

\* The message is the last of its channel: nothing recorded before it follows.
LEMMA FlushDiagSendKeeps ==
  ASSUME IInv, NEW c \in Callers, FlushDiagSend(c)
  PROVE  IInv' /\ \A x : x \in Queued(diagQueue') <=> x \in Queued(diagQueue)
  <1>0. TypeOK /\ Placed /\ LinesApart /\ WriterSteps /\ FlushSides
    BY OnePlaceIs DEF IInv
  <1>1. /\ call[c] = "diagSend" /\ call' = [call EXCEPT ![c] = "diagWait"]
        /\ Len(diagQueue) < DiagCapacity
        /\ diagQueue' = Append(diagQueue, FlushFor(c))
        /\ UNCHANGED <<recorded, diagDropped, pending, diagPc, drain, diagAck, logQueue,
                       logDropped, batch, logPc, logAck, file, failed, before, acked, late>>
    BY DEF FlushDiagSend, logVars, disk
  <1>2. /\ diagQueue \in Seq(Messages) /\ FlushFor(c) \in Messages
        /\ FlushFor(c).line = {} /\ FlushFor(c).flush = c /\ c # None
        /\ QueueOK(diagQueue)
    BY <1>0, MessageForms, EventsAssumption DEF TypeOK, LinesApart
  <1>3. /\ diagQueue' \in Seq(Messages) /\ Len(diagQueue') <= DiagCapacity
        /\ \A x : x \in Queued(diagQueue') <=> x \in Queued(diagQueue)
        /\ QueueOK(diagQueue')
        /\ \A d : Asks(diagQueue', d) <=> Asks(diagQueue, d) \/ d = c
        /\ \A d, E : Behind(diagQueue, d, E) => Behind(diagQueue', d, E)
        /\ Combined' = Combined
    <2>1. diagQueue' \in Seq(Messages) /\ Len(diagQueue') <= DiagCapacity
      BY <1>1, <1>2, QueueAppend, CapacityAssumption
    <2>2. \A x : x \in Queued(diagQueue') <=> x \in Queued(diagQueue)
      BY <1>1, <1>2, QueuedAppend
    <2>3. QueueOK(diagQueue')
      BY <1>1, <1>2, QueueOKAppend
    <2>4. \A d : Asks(diagQueue', d) <=> Asks(diagQueue, d) \/ d = c
      BY <1>1, <1>2, AsksAppend
    <2>5. \A d, E : Behind(diagQueue, d, E) => Behind(diagQueue', d, E)
      BY <1>1, <1>2, BehindAppend
    <2>6. Combined' = Combined
      BY <1>1 DEF Combined
    <2> QED BY <2>1, <2>2, <2>3, <2>4, <2>5, <2>6
  <1>5. TypeOK'
    BY <1>0, <1>1, <1>3 DEF TypeOK
  <1>6. Placed'
    BY <1>0, <1>1, <1>3 DEF Placed, PlacesOK
  <1>7. LinesApart'
    BY <1>0, <1>1, <1>3 DEF LinesApart
  <1>8. WriterSteps'
    BY <1>0, <1>1 DEF WriterSteps
  <1>9. FlushSides'
    <2> SUFFICES ASSUME NEW d \in Callers PROVE DiagSide(d)' /\ (d \notin late => LogSide(d)')
      BY <1>1 DEF FlushSides
    <2>1. DiagSide(d) /\ (d \notin late => LogSide(d))
      BY <1>0 DEF FlushSides
    <2>2. call'[d] = IF d = c THEN "diagWait" ELSE call[d]
      BY <1>0, <1>1 DEF TypeOK
    <2>3. DiagSide(d)'
      BY <1>1, <1>3, <2>1, <2>2 DEF DiagSide
    <2>4. LogSide(d) => LogSide(d)'
      BY <1>1, <2>2 DEF LogSide
    <2> QED BY <2>1, <2>3, <2>4
  <1> QED BY <1>3, <1>5, <1>6, <1>7, <1>8, <1>9, OnePlaceNext DEF IInv

\* The same on the persistent writer's channel, after the first answer.
LEMMA FlushLogSendKeeps ==
  ASSUME IInv, NEW c \in Callers, FlushLogSend(c)
  PROVE  IInv' /\ \A x : x \in Queued(logQueue') <=> x \in Queued(logQueue)
  <1>0. TypeOK /\ Placed /\ LinesApart /\ WriterSteps /\ FlushSides
    BY OnePlaceIs DEF IInv
  <1>1. /\ call[c] = "logSend" /\ call' = [call EXCEPT ![c] = "logWait"]
        /\ Len(logQueue) < LogCapacity
        /\ logQueue' = Append(logQueue, FlushFor(c))
        /\ UNCHANGED <<recorded, diagQueue, diagDropped, pending, diagPc, drain, diagAck,
                       logDropped, batch, logPc, logAck, file, failed, before, acked, late>>
    BY DEF FlushLogSend, diagVars, disk
  <1>2. /\ logQueue \in Seq(Messages) /\ FlushFor(c) \in Messages
        /\ FlushFor(c).line = {} /\ FlushFor(c).flush = c /\ c # None
        /\ QueueOK(logQueue)
    BY <1>0, MessageForms, EventsAssumption DEF TypeOK, LinesApart
  <1>3. /\ logQueue' \in Seq(Messages) /\ Len(logQueue') <= LogCapacity
        /\ \A x : x \in Queued(logQueue') <=> x \in Queued(logQueue)
        /\ QueueOK(logQueue')
        /\ \A d : Asks(logQueue', d) <=> Asks(logQueue, d) \/ d = c
        /\ \A d, E : Behind(logQueue, d, E) => Behind(logQueue', d, E)
        /\ Combined' = Combined
    <2>1. logQueue' \in Seq(Messages) /\ Len(logQueue') <= LogCapacity
      BY <1>1, <1>2, QueueAppend, CapacityAssumption
    <2>2. \A x : x \in Queued(logQueue') <=> x \in Queued(logQueue)
      BY <1>1, <1>2, QueuedAppend
    <2>3. QueueOK(logQueue')
      BY <1>1, <1>2, QueueOKAppend
    <2>4. \A d : Asks(logQueue', d) <=> Asks(logQueue, d) \/ d = c
      BY <1>1, <1>2, AsksAppend
    <2>5. \A d, E : Behind(logQueue, d, E) => Behind(logQueue', d, E)
      BY <1>1, <1>2, BehindAppend
    <2>6. Combined' = Combined
      BY <1>1 DEF Combined
    <2> QED BY <2>1, <2>2, <2>3, <2>4, <2>5, <2>6
  <1>5. TypeOK'
    BY <1>0, <1>1, <1>3 DEF TypeOK
  <1>6. Placed'
    BY <1>0, <1>1, <1>3 DEF Placed, PlacesOK
  <1>7. LinesApart'
    BY <1>0, <1>1, <1>3 DEF LinesApart
  <1>8. WriterSteps'
    BY <1>0, <1>1 DEF WriterSteps
  <1>9. FlushSides'
    <2> SUFFICES ASSUME NEW d \in Callers PROVE DiagSide(d)' /\ (d \notin late => LogSide(d)')
      BY <1>1 DEF FlushSides
    <2>1. DiagSide(d) /\ (d \notin late => LogSide(d))
      BY <1>0 DEF FlushSides
    <2>2. call'[d] = IF d = c THEN "logWait" ELSE call[d]
      BY <1>0, <1>1 DEF TypeOK
    <2>3. DiagSide(d)'
      BY <1>1, <1>3, <2>1, <2>2 DEF DiagSide
    <2>4. LogSide(d) => LogSide(d)'
      BY <1>1, <1>3, <2>2 DEF LogSide
    <2> QED BY <2>1, <2>3, <2>4
  <1> QED BY <1>3, <1>5, <1>6, <1>7, <1>8, <1>9, OnePlaceNext DEF IInv

\* A wait ends with its answer, or the caller is late for good.
LEMMA WaitEndsKeeps ==
  ASSUME IInv, NEW c \in Callers, FlushReturns(c) \/ FlushTimesOut(c)
  PROVE  IInv'
  <1>0. TypeOK /\ Placed /\ LinesApart /\ WriterSteps /\ FlushSides
    BY OnePlaceIs DEF IInv
  <1>1. /\ call[c] \in {"diagWait", "logWait"} /\ call' = AfterWait(c)
        /\ late \subseteq late' /\ late' \subseteq Callers
        /\ \/ /\ call[c] = "diagWait" => "diag" \in acked[c]
              /\ call[c] = "logWait" => "log" \in acked[c]
           \/ c \in late'
        /\ UNCHANGED <<recorded, diagQueue, diagDropped, pending, diagPc, drain, diagAck,
                       logQueue, logDropped, batch, logPc, logAck, file, failed, before, acked>>
    BY <1>0 DEF FlushReturns, FlushTimesOut, Waits, diagVars, logVars, disk, TypeOK
  <1>2. Combined' = Combined
    BY <1>1 DEF Combined
  <1>3. /\ call' \in [Callers -> {"idle", "diagSend", "diagWait", "logSend", "logWait", "done"}]
        /\ call'[c] = IF call[c] = "diagWait" THEN "logSend" ELSE "done"
        /\ \A d \in Callers : d # c => call'[d] = call[d]
    BY <1>0, <1>1 DEF TypeOK, AfterWait
  <1>5. TypeOK'
    BY <1>0, <1>1, <1>3 DEF TypeOK
  <1>6. Placed'
    BY <1>0, <1>1, <1>2 DEF Placed
  <1>7. LinesApart'
    BY <1>0, <1>1 DEF LinesApart
  <1>8. WriterSteps'
    BY <1>0, <1>1 DEF WriterSteps
  <1>9. FlushSides'
    <2> SUFFICES ASSUME NEW d \in Callers PROVE DiagSide(d)' /\ (d \notin late' => LogSide(d)')
      BY DEF FlushSides
    <2>1. DiagSide(d) /\ (d \notin late' => LogSide(d))
      BY <1>0, <1>1 DEF FlushSides
    <2>2. call'[d] = "idle" => call[d] = "idle"
      BY <1>3
    <2>3. DiagSide(d)'
      BY <1>1, <1>2, <2>1, <2>2 DEF DiagSide
    <2>4. ASSUME d \notin late' PROVE LogSide(d)'
      <3>1. CASE d # c
        BY <1>1, <1>3, <2>1, <2>4, <3>1 DEF LogSide
      <3>2. CASE d = c /\ call[c] = "diagWait"
        BY <1>1, <1>3, <2>1, <2>4, <3>2 DEF LogSide
      <3>3. CASE d = c /\ call[c] = "logWait"
        BY <1>1, <1>3, <2>1, <2>4, <3>3 DEF LogSide
      <3> QED BY <1>1, <3>1, <3>2, <3>3
    <2> QED BY <2>3, <2>4
  <1> QED BY <1>5, <1>6, <1>7, <1>8, <1>9, OnePlaceNext DEF IInv

(***************************************************************************)
(* The theorems                                                            *)
(***************************************************************************)

LEMMA InitHolds == Init => IInv
  <1> SUFFICES ASSUME Init PROVE IInv
    OBVIOUS
  <1>1. \A x : x \notin Queued(<<>>) /\ x \notin Shown(<<>>)
    BY DEF Queued, Shown
  <1>2. \A x : x \notin Combined
    BY DEF Init, Combined
  <1>3. TypeOK
    BY CapacityAssumption DEF Init, TypeOK
  <1>4. Placed
    BY <1>1, <1>2 DEF Init, Placed, PlacesOK, BatchApart
  <1>5. LinesApart
    BY <1>1 DEF Init, LinesApart, QueueOK
  <1>6. WriterSteps
    BY CapacityAssumption DEF Init, WriterSteps
  <1>7. FlushSides
    BY <1>1, EventsAssumption DEF Init, FlushSides, DiagSide, LogSide, Behind, Asks
  <1> QED BY <1>3, <1>4, <1>5, <1>6, <1>7, OnePlaceIs DEF IInv

LEMMA StutterKeeps ==
  ASSUME IInv, UNCHANGED vars
  PROVE  IInv' /\ InMemory' = InMemory /\ file' = file
  <1>1. UNCHANGED <<recorded, diagQueue, diagDropped, pending, diagPc, drain, diagAck, logQueue,
                    logDropped, batch, logPc, logAck, file, failed, call, before, acked, late>>
    BY DEF vars, diagVars, logVars, disk, callVars
  <1>2. Combined' = Combined
    BY <1>1 DEF Combined
  <1>3. TypeOK'
    BY <1>1 DEF IInv, TypeOK
  <1>4. Placed'
    BY <1>1, <1>2, OnePlaceIs DEF IInv, Placed
  <1>5. LinesApart' /\ WriterSteps'
    BY <1>1 DEF IInv, LinesApart, WriterSteps
  <1>6. FlushSides'
    <2> SUFFICES ASSUME NEW c \in Callers PROVE DiagSide(c)' /\ (c \notin late => LogSide(c)')
      BY <1>1 DEF FlushSides
    <2>1. DiagSide(c) /\ (c \notin late => LogSide(c))
      BY DEF IInv, FlushSides
    <2>2. DiagSide(c)'
      BY <1>1, <1>2, <2>1 DEF DiagSide
    <2>3. LogSide(c) => LogSide(c)'
      BY <1>1 DEF LogSide
    <2> QED BY <2>1, <2>2, <2>3
  <1>7. InMemory' = InMemory
    BY <1>1, <1>2 DEF InMemory, Places
  <1> QED BY <1>1, <1>3, <1>4, <1>5, <1>6, <1>7, OnePlaceNext DEF IInv

LEMMA NextKeeps == IInv /\ [Next]_vars => IInv'
  <1> SUFFICES ASSUME IInv, [Next]_vars PROVE IInv'
    OBVIOUS
  <1>1. ASSUME NEW e \in Events, RecordDiagnostic(e) \/ RecordImmediate(e) PROVE IInv'
    BY <1>1, RecordDiagnosticKeeps, RecordImmediateKeeps
  <1>2. CASE DiagStep
    BY <1>2, DiagPushKeeps, DiagFlushKeeps, DiagSwapKeeps, DiagDoneKeeps, DiagHandOverKeeps
       DEF DiagStep
  <1>3. ASSUME NEW K \in SUBSET Keys, DiagTimeout(K) PROVE IInv'
    BY <1>3, DiagTimeoutKeeps
  <1>4. CASE LogStep
    BY <1>4, LogPushKeeps, LogFlushKeeps, LogTimeoutKeeps, LogSwapKeeps, LogWriteKeeps,
       LogWriteFailsInv DEF LogStep
  <1>5. ASSUME NEW c \in Callers, FlushBegin(c) \/ CallStep(c) PROVE IInv'
    BY <1>5, FlushBeginKeeps, FlushDiagSendKeeps, FlushLogSendKeeps, WaitEndsKeeps
       DEF CallStep
  <1>6. CASE UNCHANGED vars
    BY <1>6, StutterKeeps
  <1> QED BY <1>1, <1>2, <1>3, <1>4, <1>5, <1>6 DEF Next

\* The inductive invariant holds throughout, for every set of events and every
\* capacity of the channels and the batch.
THEOREM Invariance == Spec => []IInv
  BY InitHolds, NextKeeps, PTL DEF Spec

\* The types of the logger's state: neither channel outgrows its capacity and
\* the batch holds at most one line, the overflow report, more than its limit.
THEOREM TypeCorrect == Spec => []TypeOK
  <1>1. IInv => TypeOK
    BY DEF IInv
  <1> QED BY <1>1, Invariance, PTL

\* No event is written or counted twice: it is in one place of the pipeline.
THEOREM EventsInOnePlace == Spec => []OnePlace
  <1>1. IInv => OnePlace
    BY DEF IInv
  <1> QED BY <1>1, Invariance, PTL

\* flush_persistent, once answered by both writers, has left nothing of what was
\* recorded before it in memory, except what a failed write counted again.
THEOREM AnsweredFlushIsDurable == Spec => []FlushDurable
  <1>1. IInv => FlushDurable
    <2> SUFFICES ASSUME IInv, NEW c \in Callers, call[c] = "done", c \notin late
                 PROVE  /\ before[c] \cap (Queued(diagQueue) \cup diagDropped \cup Combined
                                           \cup (UNION drain) \cup Queued(logQueue)) = {}
                        /\ before[c] \cap InMemory \subseteq failed
      BY DEF FlushDurable
    <2>1. DiagSide(c) /\ LogSide(c)
      BY DEF IInv, FlushSides
    <2>2. "diag" \in acked[c] /\ "log" \in acked[c]
      BY <2>1 DEF LogSide
    <2>3. /\ before[c] \cap (Queued(diagQueue) \cup diagDropped \cup Combined
                             \cup (UNION drain)) = {}
          /\ before[c] \cap Queued(logQueue) = {}
          /\ before[c] \cap (logDropped \cup Shown(batch)) \subseteq failed
      BY <2>1, <2>2 DEF DiagSide, LogSide
    <2>4. InMemory = Queued(diagQueue) \cup diagDropped \cup Combined \cup (UNION drain)
                     \cup Queued(logQueue) \cup logDropped \cup Shown(batch)
      BY MemoryIs
    <2> QED BY <2>3, <2>4
  <1> QED BY <1>1, Invariance, PTL

(***************************************************************************)
(* What may vanish                                                         *)
(***************************************************************************)

\* e is gone from the process and the file with this step.
Lost(e) == e \in (file \cup InMemory) \ (file' \cup InMemory')

\* e was in a line of which the persistent writer's counter has an event.
Counted(e) == \E line \in drain \cup {batch[i] : i \in DOMAIN batch} :
                 e \in line /\ line \cap logDropped' # {}

LEMMA LostIs ==
  ASSUME NEW e, Lost(e)
  PROVE  /\ \/ e \in file \/ e \in Queued(diagQueue) \/ e \in diagDropped \/ e \in Combined
            \/ e \in UNION drain \/ e \in Queued(logQueue) \/ e \in logDropped
            \/ e \in Shown(batch)
         /\ e \notin file' /\ e \notin Queued(diagQueue') /\ e \notin diagDropped'
         /\ e \notin Combined' /\ e \notin UNION drain' /\ e \notin Queued(logQueue')
         /\ e \notin logDropped' /\ e \notin Shown(batch')
  BY MemoryIs, MemoryNext DEF Lost

\* Recording adds events and the diagnostic writer only passes them on.
LEMMA DiagLosesNone ==
  ASSUME IInv, NEW e, Lost(e)
  PROVE  /\ \A x \in Events : ~RecordDiagnostic(x) /\ ~RecordImmediate(x)
         /\ ~DiagPush /\ ~DiagFlush /\ ~DiagSwap /\ ~DiagDone
         /\ \A K \in SUBSET Keys : ~DiagTimeout(K)
  <1>1. ASSUME NEW x \in Events, RecordDiagnostic(x) PROVE FALSE
    <2>1. /\ UNCHANGED <<pending, drain, logQueue, logDropped, batch, file>> /\ DiagEnqueue(x)
          /\ diagQueue \in Seq(Messages) /\ Entry({x}) \in Messages
      BY <1>1, MessageForms DEF RecordDiagnostic, logVars, disk, IInv, TypeOK
    <2>2. diagDropped \subseteq diagDropped' /\ Queued(diagQueue) \subseteq Queued(diagQueue')
      BY <2>1, QueuedAppend DEF DiagEnqueue
    <2>3. Combined' = Combined
      BY <2>1 DEF Combined
    <2> QED BY <2>1, <2>2, <2>3, LostIs
  <1>2. ASSUME NEW x \in Events, RecordImmediate(x) PROVE FALSE
    <2>1. /\ UNCHANGED <<diagQueue, diagDropped, pending, drain, batch, file>>
          /\ LogEnqueue({x}) /\ x \notin recorded
      BY <1>2 DEF RecordImmediate, diagVars, disk
    <2>2. {x} \in SUBSET Events /\ {x} # {} /\ {x} \cap Queued(logQueue) = {}
      BY <2>1, FreshEvent
    <2>3. logDropped \subseteq logDropped' /\ Queued(logQueue) \subseteq Queued(logQueue')
      BY <2>1, <2>2, LogEnqueueFacts
    <2>4. Combined' = Combined
      BY <2>1 DEF Combined
    <2> QED BY <2>1, <2>3, <2>4, LostIs
  <1>3. ASSUME DiagPush PROVE FALSE
    <2>1. UNCHANGED <<diagDropped, drain, logQueue, logDropped, batch, file>>
      BY <1>3 DEF DiagPush, logVars, disk
    <2>2. \A x : x \in Queued(diagQueue) \/ x \in Combined =>
                 x \in Queued(diagQueue') \/ x \in Combined'
      BY <1>3, DiagPushKeeps
    <2> QED BY <2>1, <2>2, LostIs
  <1>4. ASSUME DiagFlush PROVE FALSE
    <2>1. UNCHANGED <<diagDropped, logQueue, logDropped, batch, file>> /\ drain = {}
      BY <1>4 DEF DiagFlush, logVars, disk, IInv, WriterSteps
    <2>2. \A x : x \in Queued(diagQueue) \/ x \in Combined =>
                 x \in Queued(diagQueue') \/ x \in Combined' \/ x \in UNION drain'
      BY <1>4, DiagFlushKeeps
    <2>3. e \notin UNION drain
      BY <2>1
    <2> QED BY <2>1, <2>2, <2>3, LostIs
  <1>5. ASSUME DiagSwap PROVE FALSE
    <2>1. UNCHANGED <<diagQueue, pending, logQueue, logDropped, batch, file>>
      BY <1>5 DEF DiagSwap, logVars, disk
    <2>2. diagDropped \subseteq UNION drain' /\ drain = {}
      BY <1>5, DiagSwapKeeps
    <2>3. e \notin UNION drain /\ Combined' = Combined
      BY <2>1, <2>2 DEF Combined
    <2> QED BY <2>1, <2>2, <2>3, LostIs
  <1>6. ASSUME DiagDone PROVE FALSE
    <2>1. UNCHANGED <<diagQueue, diagDropped, drain, pending, logQueue, logDropped, batch, file>>
      BY <1>6 DEF DiagDone, logVars, disk
    <2>2. Combined' = Combined
      BY <2>1 DEF Combined
    <2> QED BY <2>1, <2>2, LostIs
  <1>7. ASSUME NEW K \in SUBSET Keys, DiagTimeout(K) PROVE FALSE
    <2>1. UNCHANGED <<diagQueue, diagDropped, logQueue, logDropped, batch, file>> /\ drain = {}
      BY <1>7 DEF DiagTimeout, logVars, disk, IInv, WriterSteps
    <2>2. \A x : x \in Combined => x \in Combined' \/ x \in UNION drain'
      BY <1>7, DiagTimeoutKeeps
    <2>3. e \notin UNION drain
      BY <2>1
    <2> QED BY <2>1, <2>2, <2>3, LostIs
  <1> QED BY <1>1, <1>2, <1>3, <1>4, <1>5, <1>6, <1>7

\* The persistent writer loses none unless a write fails, a caller never does.
LEMMA LogLosesNone ==
  ASSUME IInv, NEW e, Lost(e)
  PROVE  /\ ~LogPush /\ ~LogFlush /\ ~LogTimeout /\ ~LogSwap /\ ~LogWrite
         /\ \A c \in Callers : ~FlushBegin(c) /\ ~CallStep(c)
  <1>1. ASSUME LogPush PROVE FALSE
    <2>1. UNCHANGED <<diagQueue, diagDropped, pending, drain, logDropped, file>>
      BY <1>1 DEF LogPush, diagVars, disk
    <2>2. \A x : x \in Queued(logQueue) \/ x \in Shown(batch) =>
                 x \in Queued(logQueue') \/ x \in Shown(batch')
      BY <1>1, LogPushKeeps
    <2>3. Combined' = Combined
      BY <2>1 DEF Combined
    <2> QED BY <2>1, <2>2, <2>3, LostIs
  <1>2. ASSUME LogFlush PROVE FALSE
    <2>1. UNCHANGED <<diagQueue, diagDropped, pending, drain, logDropped, batch, file>>
      BY <1>2 DEF LogFlush, diagVars, disk
    <2>2. \A x : x \in Queued(logQueue) <=> x \in Queued(logQueue')
      BY <1>2, LogFlushKeeps
    <2>3. Combined' = Combined
      BY <2>1 DEF Combined
    <2> QED BY <2>1, <2>2, <2>3, LostIs
  <1>3. ASSUME LogTimeout PROVE FALSE
    <2>1. UNCHANGED <<diagQueue, diagDropped, pending, drain, logQueue, logDropped, batch, file>>
      BY <1>3 DEF LogTimeout, diagVars, disk
    <2>2. Combined' = Combined
      BY <2>1 DEF Combined
    <2> QED BY <2>1, <2>2, LostIs
  <1>4. ASSUME LogSwap PROVE FALSE
    <2>1. UNCHANGED <<diagQueue, diagDropped, pending, drain, logQueue, file>>
      BY <1>4 DEF LogSwap, diagVars, disk
    <2>2. \A x : x \in Shown(batch) \/ x \in logDropped => x \in Shown(batch')
      BY <1>4, LogSwapKeeps
    <2>3. Combined' = Combined
      BY <2>1 DEF Combined
    <2> QED BY <2>1, <2>2, <2>3, LostIs
  <1>5. ASSUME LogWrite PROVE FALSE
    <2>1. UNCHANGED <<diagQueue, diagDropped, pending, drain, logQueue, logDropped>>
      BY <1>5 DEF LogWrite, LogWritten, diagVars
    <2>2. Shown(batch) \subseteq file' /\ file \subseteq file'
      BY <1>5, LogWriteKeeps
    <2>3. Combined' = Combined
      BY <2>1 DEF Combined
    <2> QED BY <2>1, <2>2, <2>3, LostIs
  <1>6. ASSUME NEW c \in Callers, FlushBegin(c) \/ CallStep(c) PROVE FALSE
    <2>1. UNCHANGED <<diagDropped, pending, drain, logDropped, batch, file>>
      BY <1>6 DEF FlushBegin, CallStep, FlushDiagSend, FlushLogSend, FlushReturns,
                  FlushTimesOut, diagVars, logVars, disk
    <2>2. \A x : x \in Queued(diagQueue) => x \in Queued(diagQueue')
      <3>1. CASE FlushDiagSend(c)
        BY <3>1, FlushDiagSendKeeps
      <3>2. CASE ~FlushDiagSend(c)
        BY <1>6, <3>2 DEF FlushBegin, CallStep, FlushLogSend, FlushReturns, FlushTimesOut,
                          diagVars
      <3> QED BY <3>1, <3>2
    <2>3. \A x : x \in Queued(logQueue) => x \in Queued(logQueue')
      <3>1. CASE FlushLogSend(c)
        BY <3>1, FlushLogSendKeeps
      <3>2. CASE ~FlushLogSend(c)
        BY <1>6, <3>2 DEF FlushBegin, CallStep, FlushDiagSend, FlushReturns, FlushTimesOut,
                          logVars
      <3> QED BY <3>1, <3>2
    <2>4. Combined' = Combined
      BY <2>1 DEF Combined
    <2> QED BY <2>1, <2>2, <2>3, <2>4, LostIs
  <1> QED BY <1>1, <1>2, <1>3, <1>4, <1>5, <1>6

LEMMA HandOverCounts ==
  ASSUME IInv, NEW e, Lost(e), NEW line \in drain, DiagHandOver(line)
  PROVE  Counted(e)
  <1>1. UNCHANGED <<diagQueue, diagDropped, pending, batch, file>>
    BY DEF DiagHandOver, disk
  <1>2. /\ Queued(logQueue) \subseteq Queued(logQueue') /\ logDropped \subseteq logDropped'
        /\ (UNION drain) \subseteq (UNION drain') \cup line
        /\ line \subseteq Queued(logQueue') \/ \E x \in line : x \in logDropped'
    BY DiagHandOverKeeps
  <1>3. Combined' = Combined
    BY <1>1 DEF Combined
  <1>4. e \in line /\ \E x \in line : x \in logDropped'
    BY <1>1, <1>2, <1>3, LostIs
  <1> QED BY <1>4 DEF Counted

LEMMA FailedWriteCounts ==
  ASSUME IInv, NEW e, Lost(e), LogWriteFails
  PROVE  Counted(e)
  <1>1. UNCHANGED <<diagQueue, diagDropped, pending, drain, logQueue>>
    BY DEF LogWriteFails, LogWritten, diagVars
  <1>2. /\ file \subseteq file' /\ logDropped \subseteq logDropped'
        /\ \A i \in DOMAIN batch : \E x \in batch[i] : x \in logDropped'
    BY LogWriteFailsInv
  <1>3. Combined' = Combined
    BY <1>1 DEF Combined
  <1>4. e \in Shown(batch)
    BY <1>1, <1>2, <1>3, LostIs
  <1>5. PICK i \in DOMAIN batch : e \in batch[i]
    BY <1>4 DEF Shown
  <1>6. batch[i] \cap logDropped' # {}
    BY <1>2
  <1> QED BY <1>5, <1>6 DEF Counted

\* An event that leaves memory without reaching the file shared its line with
\* one that the persistent writer's counter then has.
THEOREM OnlyMergedEventsVanish == Spec => OnlyMergedVanish
  <1>1. ASSUME IInv, [Next]_vars, NEW e, Lost(e) PROVE Counted(e)
    <2>1. ~UNCHANGED vars
      BY <1>1, StutterKeeps DEF Lost
    <2>2. \/ \E line \in drain : DiagHandOver(line)
          \/ LogWriteFails
      BY <1>1, <2>1, DiagLosesNone, LogLosesNone DEF Next, DiagStep, LogStep
    <2> QED BY <1>1, <2>2, HandOverCounts, FailedWriteCounts
  <1>2. IInv /\ [Next]_vars =>
          [\A e \in (file \cup InMemory) \ (file' \cup InMemory') :
             \E line \in drain \cup {batch[i] : i \in DOMAIN batch} :
                e \in line /\ line \cap logDropped' # {}]_vars
    BY <1>1 DEF Lost, Counted
  <1> QED BY <1>2, Invariance, PTL DEF Spec, OnlyMergedVanish
=============================================================================
