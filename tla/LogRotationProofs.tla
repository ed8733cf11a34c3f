-------------------------- MODULE LogRotationProofs --------------------------
(***************************************************************************)
(* Proofs about LogRotation for every set of writers and lines, every size *)
(* limit and every number of generations.                                  *)
(***************************************************************************)
EXTENDS LogRotation, SequenceTheorems, FiniteSetTheorems, TLAPS

\* The lines of the files are what they were.
SameLines ==
  /\ Len(data') = Len(data) \/ Len(data') = Len(data) + 1
  /\ \A l : \A f, i \in Nat : At(f, i, l)' <=> At(f, i, l)

\* The line of writer w has been added to the end of the file it opened.
Appended(w) ==
  /\ Len(data') = Len(data)
  /\ \A l : \A f, i \in Nat :
        At(f, i, l)' <=> \/ At(f, i, l)
                         \/ f = opened[w] /\ i = Len(data[f]) + 1 /\ l = line[w]

LEMMA FilesTyped ==
  ASSUME TypeOK
  PROVE  /\ Len(data) \in Nat
         /\ \A f \in 1 .. Len(data) : /\ data[f] \in Seq(Lines)
                                      /\ Len(data[f]) \in Nat
                                      /\ \A i \in 1 .. Len(data[f]) : data[f][i] \in Lines
  <1>1. data \in Seq(Seq(Lines)) /\ Len(data) \in Nat
    BY LenProperties DEF TypeOK
  <1>2. ASSUME NEW f \in 1 .. Len(data)
        PROVE  /\ data[f] \in Seq(Lines)
               /\ Len(data[f]) \in Nat
               /\ \A i \in 1 .. Len(data[f]) : data[f][i] \in Lines
    <2>1. data[f] \in Seq(Lines)
      BY <1>1, ElementOfSeq
    <2> QED BY <2>1, LenProperties, ElementOfSeq
  <1> QED BY <1>1, <1>2

LEMMA AtTyped ==
  ASSUME TypeOK, NEW f, NEW i, NEW l, At(f, i, l)
  PROVE  f \in 1 .. Len(data) /\ i \in 1 .. Len(data[f]) /\ l \in Lines /\ f \in Nat /\ i \in Nat
  BY FilesTyped DEF At

LEMMA UnchangedLines ==
  ASSUME TypeOK, data' = data
  PROVE  SameLines
  BY FilesTyped DEF SameLines, At

\* What Open does to the files.
LEMMA OpenLines ==
  ASSUME TypeOK, NEW w \in Writers, Open(w)
  PROVE  /\ data' \in Seq(Seq(Lines))
         /\ SameLines
         /\ \A f \in 1 .. Len(data) : data'[f] = data[f]
  <1>1. CASE path[0] = 0
    <2>1. <<>> \in Seq(Lines) /\ Len(<<>>) = 0
      BY EmptySeq
    <2>2. data' = Append(data, <<>>)
      BY <1>1 DEF Open
    <2>3. /\ data' \in Seq(Seq(Lines))
          /\ Len(data') = Len(data) + 1
          /\ \A f \in 1 .. Len(data) : data'[f] = data[f]
          /\ data'[Len(data) + 1] = <<>>
      BY <2>1, <2>2, AppendProperties DEF TypeOK
    <2>4. ASSUME NEW l, NEW f \in Nat, NEW i \in Nat PROVE At(f, i, l)' <=> At(f, i, l)
      <3>1. CASE f = Len(data) + 1
        BY <3>1, <2>1, <2>3, FilesTyped DEF At
      <3>2. CASE f # Len(data) + 1
        BY <3>2, <2>3, FilesTyped DEF At
      <3> QED BY <3>1, <3>2
    <2> QED BY <2>3, <2>4 DEF SameLines
  <1>2. CASE path[0] # 0
    <2>1. data' = data
      BY <1>2 DEF Open
    <2> QED BY <2>1, UnchangedLines DEF TypeOK
  <1> QED BY <1>1, <1>2

\* What a successful append does to the files.
LEMMA AppendLines ==
  ASSUME TypeOK, Steps, NEW w \in Writers, pc[w] = "append",
         data' = [data EXCEPT ![opened[w]] = Append(@, line[w])]
  PROVE  /\ data' \in Seq(Seq(Lines))
         /\ Appended(w)
         /\ \A f \in 1 .. Len(data) : Len(data'[f]) >= Len(data[f])
  <1> DEFINE o == opened[w]
             new == Append(data[o], line[w])
  <1>1. o \in 1 .. Len(data) /\ line[w] \in Lines
    BY FilesTyped DEF TypeOK, Steps
  <1>2. /\ new \in Seq(Lines)
        /\ Len(new) = Len(data[o]) + 1
        /\ \A i \in 1 .. Len(data[o]) : new[i] = data[o][i]
        /\ new[Len(data[o]) + 1] = line[w]
    BY <1>1, FilesTyped, AppendProperties
  <1>3. data' = [data EXCEPT ![o] = new]
    OBVIOUS
  <1> HIDE DEF new
  <1>4. /\ data' \in Seq(Seq(Lines))
        /\ Len(data') = Len(data)
        /\ \A f \in 1 .. Len(data) : data'[f] = IF f = o THEN new ELSE data[f]
    <2>1. data \in Seq(Seq(Lines)) /\ new \in Seq(Lines)
      BY <1>2 DEF TypeOK
    <2> HIDE DEF o
    <2>2. /\ [data EXCEPT ![o] = new] \in Seq(Seq(Lines))
          /\ Len([data EXCEPT ![o] = new]) = Len(data)
          /\ \A j \in 1 .. Len(data) : [data EXCEPT ![o] = new][j] = IF j = o THEN new ELSE data[j]
      BY ONLY <1>1, <2>1, ExceptSeq
    <2> QED BY <1>3, <2>2
  <1>5. ASSUME NEW l, NEW f \in Nat, NEW i \in Nat
        PROVE  At(f, i, l)' <=> \/ At(f, i, l)
                                \/ f = o /\ i = Len(data[f]) + 1 /\ l = line[w]
    <2>1. CASE f = o
      BY <2>1, <1>1, <1>2, <1>4, FilesTyped DEF At
    <2>2. CASE f # o
      BY <2>2, <1>4, FilesTyped DEF At
    <2> QED BY <2>1, <2>2
  <1>6. \A f \in 1 .. Len(data) : Len(data'[f]) >= Len(data[f])
    BY <1>1, <1>2, <1>4, FilesTyped
  <1> QED BY <1>4, <1>5, <1>6 DEF Appended

-----------------------------------------------------------------------------
(* Types and steps                                                         *)

LEMMA InitIInv == Init => IInv
  <1> SUFFICES ASSUME Init PROVE IInv
    OBVIOUS
  <1> USE RotationAssumption
  <1>1. data = <<>> /\ Len(data) = 0 /\ data \in Seq(Seq(Lines))
    BY EmptySeq DEF Init
  <1>2. shown \in Seq(Lines) /\ counted \in Seq(Lines) /\ Len(shown) = 0 /\ Len(counted) = 0
    BY EmptySeq DEF Init
  <1>3. TypeOK
    BY <1>1, <1>2 DEF Init, TypeOK, Generations
  <1>4. Steps
    BY <1>1 DEF Init, Steps
  <1>5. WrittenOnce
    BY <1>1 DEF Init, WrittenOnce, At
  <1>6. OneName
    BY DEF Init, OneName
  <1>7. CountedBehind /\ ShownBehind /\ CountedOnce /\ FollowedOnce
    BY <1>2 DEF CountedBehind, ShownBehind, CountedOnce, FollowedOnce, Distinct
  <1> QED BY <1>3, <1>4, <1>5, <1>6, <1>7 DEF IInv

\* The writers' steps keep the types and what the steps established.
LEMMA WriterTyped ==
  ASSUME IInv, NEW w \in Writers,
         \/ \E l \in Lines : Take(w, l)
         \/ Check(w) \/ Remove(w) \/ Shift(w) \/ Open(w) \/ AppendLine(w)
         \/ WriteFails(w)
  PROVE  TypeOK' /\ Steps'
  <1> USE RotationAssumption DEF IInv
  <1>0. Len(data) \in Nat
    BY FilesTyped
  <1>1. CASE \E l \in Lines : Take(w, l)
    <2> PICK l \in Lines : Take(w, l)
      BY <1>1
    <2>1. TypeOK'
      BY DEF Take, Step, TypeOK, followVars, metricVars
    <2>2. Steps'
      BY DEF Take, Step, TypeOK, Steps, followVars
    <2> QED BY <2>1, <2>2
  <1>2. CASE Check(w)
    <2>a. clean' \in [Writers -> BOOLEAN]
      BY <1>2, Zenon DEF Check, TypeOK
    <2>b. Rotations \in Generations
      BY DEF Generations
    <2>c. /\ pc' \in [Writers -> {"idle", "check", "remove", "shift", "open", "append"}]
          /\ gen' \in [Writers -> Generations]
      <3>1. /\ pc \in [Writers -> {"idle", "check", "remove", "shift", "open", "append"}]
            /\ gen \in [Writers -> Generations]
        BY DEF TypeOK
      <3> HIDE DEF IInv
      <3> QED BY <1>2, <2>b, <3>1 DEF Check, Step
    <2>1. TypeOK'
      BY <1>2, <2>a, <2>c DEF Check, TypeOK, followVars, metricVars
    <2>2. Steps'
      BY <1>2 DEF Check, Step, TypeOK, Steps, followVars
    <2> QED BY <2>1, <2>2
  <1>3. CASE Remove(w)
    <2>a. path' \in [Generations -> 0 .. Len(data)] /\ path'[0] = path[0]
      <3>1. 0 \in Generations /\ 0 # Rotations /\ path \in [Generations -> 0 .. Len(data)]
            /\ 0 \in 0 .. Len(data)
        BY <1>0 DEF Generations, TypeOK
      <3> QED BY <1>3, <3>1 DEF Remove
    <2>b. /\ pc' = [pc EXCEPT ![w] = "shift"]
          /\ UNCHANGED <<data, todo, line, gen, opened, clean, failed, followVars, metricVars>>
      BY <1>3 DEF Remove, Step
    <2>1. TypeOK'
      BY <2>a, <2>b DEF TypeOK, followVars, metricVars
    <2>2. Steps'
      BY <1>3, <2>a, <2>b DEF Remove, TypeOK, Steps, followVars
    <2> QED BY <2>1, <2>2
  <1>4. CASE Shift(w)
    <2>0. gen[w] \in 1 .. Rotations /\ gen[w] - 1 \in Generations /\ gen[w] \in Generations
      BY <1>4 DEF Shift, TypeOK, Steps, Generations
    <2>a. /\ path' \in [Generations -> 0 .. Len(data)]
          /\ path'[0] \in {0, path[0]}
          /\ clean' \in [Writers -> BOOLEAN] /\ failed' \in BOOLEAN
      <3> DEFINE g == gen[w]
      <3>1. /\ path \in [Generations -> 0 .. Len(data)]
            /\ clean \in [Writers -> BOOLEAN] /\ failed \in BOOLEAN
            /\ 0 \in 0 .. Len(data) /\ 0 \in Generations
            /\ g \in Generations /\ g - 1 \in Generations /\ g # 0
        <4>1. /\ path \in [Generations -> 0 .. Len(data)]
              /\ clean \in [Writers -> BOOLEAN] /\ failed \in BOOLEAN
          BY DEF TypeOK
        <4> HIDE DEF IInv
        <4>2. 0 \in 0 .. Len(data) /\ 0 \in Generations
          BY <1>0 DEF Generations
        <4> QED BY <2>0, <4>1, <4>2
      <3>2. CASE UNCHANGED <<clean, failed, path>>
        BY <3>1, <3>2
      <3>3. CASE /\ path' = [path EXCEPT ![g] = path[g - 1], ![g - 1] = 0]
                 /\ UNCHANGED <<clean, failed>>
        BY <3>1, <3>3, <2>0
      <3>4. CASE /\ clean' = [clean EXCEPT ![w] = FALSE]
                 /\ failed' = TRUE
                 /\ UNCHANGED path
        BY <3>1, <3>4
      <3> QED BY <1>4, <3>2, <3>3, <3>4 DEF Shift
    <2>b. /\ gen' = [gen EXCEPT ![w] = gen[w] - 1]
          /\ pc' = [pc EXCEPT ![w] = IF gen[w] = 1 THEN "open" ELSE "shift"]
          /\ UNCHANGED <<data, todo, line, opened, followVars, metricVars>>
      BY <1>4 DEF Shift, Step
    <2>1. TypeOK'
      BY <2>0, <2>a, <2>b DEF TypeOK, followVars, metricVars
    <2>2. Steps'
      <3>1. \A v \in Writers : /\ pc'[v] = "shift" => gen'[v] >= 1
                               /\ pc'[v] = "remove" => gen'[v] = Rotations
                               /\ pc'[v] = "append" => opened'[v] >= 1
                               /\ pc'[v] # "idle" => line'[v] \in Lines
                               /\ pc'[v] = "idle" => line'[v] = None
        <4>1. pc[w] = "shift" /\ line[w] \in Lines
          BY <1>4 DEF Shift, Steps
        <4> QED BY <4>1, <2>0, <2>b DEF TypeOK, Steps
      <3>2. /\ fstep' = "reopen" => ffile' # 0 /\ path'[0] # ffile'
            /\ ffile' = 0 => offset' = 0
            /\ ffile' # 0 => offset' <= Len(data'[ffile'])
        BY <2>a, <2>b DEF Steps, followVars
      <3> QED BY <3>1, <3>2 DEF Steps
    <2> QED BY <2>1, <2>2
  <1>5. CASE Open(w)
    <2>1. /\ data' \in Seq(Seq(Lines)) /\ Len(data') \in {Len(data), Len(data) + 1}
          /\ \A f \in 1 .. Len(data) : data'[f] = data[f]
      BY <1>5, OpenLines DEF SameLines
    <2>2. path' \in [Generations -> 0 .. Len(data')] /\ opened' \in [Writers -> 0 .. Len(data')]
      <3>1. CASE path[0] = 0
        <4>1. Len(data') = Len(data) + 1
          BY <1>5, <3>1, <1>0, EmptySeq, AppendProperties DEF Open, TypeOK
        <4>2. /\ path' = [path EXCEPT ![0] = Len(data) + 1]
              /\ opened' = [opened EXCEPT ![w] = Len(data) + 1]
          BY <1>5, <3>1 DEF Open
        <4>3. /\ path \in [Generations -> 0 .. Len(data')]
              /\ opened \in [Writers -> 0 .. Len(data')]
              /\ Len(data) + 1 \in 0 .. Len(data')
          BY <4>1, <1>0 DEF TypeOK
        <4> HIDE DEF IInv
        <4> QED BY <4>2, <4>3
      <3>2. CASE path[0] # 0
        <4>1. /\ path' = path /\ data' = data
              /\ opened' = [opened EXCEPT ![w] = path[0]]
          BY <1>5, <3>2 DEF Open
        <4>2. path[0] \in 0 .. Len(data)
          BY DEF TypeOK, Generations
        <4> QED BY <4>1, <4>2 DEF TypeOK
      <3> QED BY <3>1, <3>2
    <2>3. TypeOK'
      <3>1. /\ pc' = [pc EXCEPT ![w] = "append"]
            /\ UNCHANGED <<todo, line, gen, clean, failed, followVars, metricVars>>
        BY <1>5 DEF Open, Step
      <3>2. 0 .. Len(data) \subseteq 0 .. Len(data')
        BY <2>1, <1>0
      <3> QED BY <2>1, <2>2, <3>1, <3>2 DEF TypeOK, followVars, metricVars
    <2>4. opened'[w] >= 1
      BY <1>5, <1>0, RotationAssumption DEF Open, TypeOK, Generations
    <2>5. path'[0] # 0 /\ (path'[0] = path[0] \/ path'[0] = Len(data) + 1)
      BY <1>5, <1>0, RotationAssumption DEF Open, TypeOK, Generations
    <2>6. Steps'
      <3>1. /\ pc' = [pc EXCEPT ![w] = "append"]
            /\ UNCHANGED <<todo, line, gen, clean, failed, followVars>>
            /\ pc[w] = "open"
            /\ \A v \in Writers \ {w} : opened'[v] = opened[v]
        BY <1>5 DEF Open, Step, TypeOK
      <3>2. \A v \in Writers : /\ pc'[v] = "shift" => gen'[v] >= 1
                               /\ pc'[v] = "remove" => gen'[v] = Rotations
                               /\ pc'[v] = "append" => opened'[v] >= 1
                               /\ pc'[v] # "idle" => line'[v] \in Lines
                               /\ pc'[v] = "idle" => line'[v] = None
        BY <3>1, <2>4 DEF TypeOK, Steps
      <3>3. ffile \in 0 .. Len(data)
        BY DEF TypeOK
      <3>4. /\ fstep' = "reopen" => ffile' # 0 /\ path'[0] # ffile'
            /\ ffile' = 0 => offset' = 0
            /\ ffile' # 0 => offset' <= Len(data'[ffile'])
        BY <3>1, <3>3, <2>1, <2>5, <1>0 DEF Steps, followVars
      <3> QED BY <3>2, <3>4 DEF Steps
    <2> QED BY <2>3, <2>6
  <1>6. CASE AppendLine(w) \/ WriteFails(w)
    <2>1. /\ data' \in Seq(Seq(Lines)) /\ Len(data') = Len(data)
          /\ \A f \in 1 .. Len(data) : Len(data'[f]) >= Len(data[f])
      <3>1. CASE data' = data
        BY <3>1, FilesTyped DEF TypeOK
      <3>2. CASE data' = [data EXCEPT ![opened[w]] = Append(@, line[w])]
        BY <3>2, <3>1, <1>6, AppendLines DEF Appended, AppendLine, WriteFails
      <3> QED BY <1>6, <3>1, <3>2 DEF AppendLine, WriteFails
    <2>a. /\ pc' = [pc EXCEPT ![w] = "idle"]
          /\ line' = [line EXCEPT ![w] = None]
          /\ opened' = [opened EXCEPT ![w] = 0]
          /\ gen' = [gen EXCEPT ![w] = 0]
          /\ clean' = [clean EXCEPT ![w] = FALSE]
          /\ UNCHANGED <<path, todo, failed, followVars, metricVars>>
      BY <1>6 DEF AppendLine, WriteFails, Return, Step
    <2>2. TypeOK'
      <3>1. 0 \in Generations /\ 0 \in 0 .. Len(data)
        BY <1>0 DEF Generations
      <3> QED BY <2>1, <2>a, <3>1 DEF TypeOK, followVars, metricVars
    <2>3. \A f \in 1 .. Len(data) : Len(data[f]) \in Nat /\ Len(data'[f]) \in Nat
      BY <2>1, <2>2, FilesTyped, LenProperties, ElementOfSeq
    <2>4. Steps'
      <3>1. \A v \in Writers : /\ pc'[v] = "shift" => gen'[v] >= 1
                               /\ pc'[v] = "remove" => gen'[v] = Rotations
                               /\ pc'[v] = "append" => opened'[v] >= 1
                               /\ pc'[v] # "idle" => line'[v] \in Lines
                               /\ pc'[v] = "idle" => line'[v] = None
        BY <2>a DEF TypeOK, Steps
      <3>2. ffile \in 0 .. Len(data) /\ offset \in Nat
        BY DEF TypeOK
      <3>3. ffile # 0 => offset <= Len(data'[ffile])
        BY <3>2, <2>1, <2>3, <1>0 DEF Steps
      <3> QED BY <2>a, <3>1, <3>3 DEF Steps, followVars
    <2> QED BY <2>2, <2>4
  <1> QED BY <1>1, <1>2, <1>3, <1>4, <1>5, <1>6

LEMMA ReaderTyped ==
  ASSUME IInv, Follow \/ MetricsBegin \/ MetricsRead
  PROVE  TypeOK' /\ Steps'
  <1> USE RotationAssumption DEF IInv
  <1>0. Len(data) \in Nat /\ path[0] \in 0 .. Len(data)
    BY FilesTyped DEF TypeOK, Generations
  <1>1. CASE FollowOpen
    <2>1. /\ ffile' \in 0 .. Len(data) /\ fstep' = "compare"
          /\ ffile' = IF ffile = 0 THEN path[0] ELSE ffile
          /\ UNCHANGED <<path, data, writerVars, offset, shown, metricVars>>
      BY <1>0, <1>1 DEF FollowOpen, TypeOK
    <2>2. TypeOK'
      BY <2>1 DEF TypeOK, writerVars, metricVars
    <2>3. ffile' # 0 => offset <= Len(data[ffile'])
      BY <2>1, <1>0, FilesTyped DEF Steps
    <2>4. Steps'
      BY <2>1, <2>3 DEF Steps, writerVars
    <2> QED BY <2>2, <2>4
  <1>2. CASE FollowCompare
    BY <1>2 DEF FollowCompare, Replaced, TypeOK, Steps, writerVars, metricVars
  <1>3. CASE FollowReopen
    <2>1. ffile' # 0 => 0 <= Len(data[ffile'])
      BY <1>0, <1>3, FilesTyped DEF FollowReopen
    <2> QED BY <1>0, <1>3, <2>1 DEF FollowReopen, TypeOK, Steps, writerVars, metricVars
  <1>4. CASE FollowRead
    <2>1. CASE ffile = 0
      BY <1>4, <2>1 DEF FollowRead, TypeOK, Steps, writerVars, metricVars
    <2>2. CASE ffile # 0
      <3>1. ffile \in 1 .. Len(data) /\ data[ffile] \in Seq(Lines) /\ Len(data[ffile]) \in Nat
        BY <2>2, <1>0, FilesTyped, SMTT(30) DEF TypeOK
      <3>2. ~(Len(data[ffile]) < offset) /\ offset \in Nat
        BY <2>2, <3>1 DEF Steps, TypeOK
      <3>3. shown' = shown \o LinesAfter(ffile, offset) /\ offset' = Len(data[ffile])
        BY <1>4, <2>2, <3>2 DEF FollowRead
      <3>4. LinesAfter(ffile, offset) \in Seq(Lines)
        <4>1. \A i \in offset + 1 .. Len(data[ffile]) : data[ffile][i] \in Lines
          BY <3>1, <3>2, FilesTyped
        <4> QED BY <4>1, <3>1, <3>2, SubSeqProperties DEF LinesAfter
      <3>5. shown' \in Seq(Lines)
        BY <3>3, <3>4, ConcatProperties DEF TypeOK
      <3>6. UNCHANGED <<path, data, writerVars, ffile, metricVars>> /\ fstep' = "open"
        BY <1>4 DEF FollowRead
      <3>7. TypeOK'
        BY <3>1, <3>3, <3>5, <3>6 DEF TypeOK, writerVars, metricVars
      <3>8. Steps'
        BY <2>2, <3>1, <3>3, <3>6 DEF Steps, writerVars
      <3> QED BY <3>7, <3>8
    <2> QED BY <2>1, <2>2
  <1>5. CASE MetricsBegin
    BY <1>5, EmptySeq DEF MetricsBegin, TypeOK, Steps, writerVars, followVars
  <1>6. CASE MetricsRead
    <2>1. counted' \in Seq(Lines)
      <3>1. path[mgen] \in 0 .. Len(data)
        BY <1>6 DEF MetricsRead, TypeOK
      <3>2. path[mgen] # 0 => data[path[mgen]] \in Seq(Lines)
        BY <3>1, <1>0, FilesTyped
      <3> QED BY <1>6, <3>2, ConcatProperties DEF MetricsRead, TypeOK
    <2>2. mgen' \in 0 .. Rotations + 1
      BY <1>6 DEF MetricsRead, Generations
    <2>3. UNCHANGED <<path, data, writerVars, followVars>>
      BY <1>6 DEF MetricsRead
    <2>4. TypeOK'
      BY <2>1, <2>2, <2>3 DEF TypeOK, writerVars, followVars
    <2>5. Steps'
      BY <2>3 DEF Steps, writerVars, followVars
    <2> QED BY <2>4, <2>5
  <1> QED BY <1>1, <1>2, <1>3, <1>4, <1>5, <1>6 DEF Follow

-----------------------------------------------------------------------------
(* Lines and names                                                         *)

\* WrittenOnce of the next state, with the next state's lines as parameters.
LEMMA WrittenFromParts ==
  ASSUME \A l \in todo' : \A f, i \in Nat : ~At(f, i, l)',
         \A v \in Writers : \A l : l = line'[v] =>
             l \notin todo' /\ \A f, i \in Nat : ~At(f, i, l)',
         \A u, v \in Writers : line'[u] = line'[v] /\ line'[u] # None => u = v,
         \A l \in Lines : \A f, g, i, j \in Nat : At(f, i, l)' /\ At(g, j, l)' => f = g /\ i = j
  PROVE  WrittenOnce'
  <1>1. (\A v \in Writers : line[v] \notin todo /\ \A f, i \in Nat : ~At(f, i, line[v]))'
    BY DEF At
  <1> QED BY <1>1 DEF WrittenOnce

LEMMA WriterWritten ==
  ASSUME IInv, TypeOK', NEW w \in Writers,
         \/ \E l \in Lines : Take(w, l)
         \/ Check(w) \/ Remove(w) \/ Shift(w) \/ Open(w) \/ AppendLine(w)
         \/ WriteFails(w)
  PROVE  /\ WrittenOnce'
         /\ \A l : \A f, i \in Nat : At(f, i, l) => At(f, i, l)'
  <1> USE RotationAssumption DEF IInv
  <1>1. CASE \E l \in Lines : Take(w, l)
    <2> PICK l \in Lines : Take(w, l)
      BY <1>1
    <2>1. /\ todo' = todo \ {l} /\ l \in todo
          /\ line' = [line EXCEPT ![w] = l]
          /\ data' = data
      BY DEF Take
    <2>2. SameLines
      BY <2>1, UnchangedLines
    <2>3. l # None
      OBVIOUS
    <2>4. ASSUME NEW v \in Writers
          PROVE  /\ line'[v] \notin todo'
                 /\ \A f, i \in Nat : ~At(f, i, line'[v])
      <3>1. CASE v = w
        BY <2>1, <3>1 DEF WrittenOnce, TypeOK
      <3>2. CASE v # w
        BY <2>1, <3>2 DEF WrittenOnce, TypeOK
      <3> QED BY <3>1, <3>2
    <2>5. ASSUME NEW u \in Writers, NEW v \in Writers, line'[u] = line'[v], line'[u] # None
          PROVE  u = v
      <3>1. \A x \in Writers : line'[x] = IF x = w THEN l ELSE line[x]
        BY <2>1 DEF TypeOK
      <3>2. l # line[u] /\ l # line[v] /\ (line[u] = line[v] /\ line[u] # None => u = v)
        BY <2>1 DEF WrittenOnce
      <3> QED BY <2>5, <3>1, <3>2
    <2> QED BY <2>1, <2>2, <2>4, <2>5, ZenonT(30) DEF WrittenOnce, SameLines
  <1>2. CASE SameLines /\ todo' = todo /\ line' = line
    BY <1>2 DEF WrittenOnce, SameLines
  <1>3. CASE Check(w) \/ Remove(w) \/ Shift(w)
    <2>1. data' = data /\ todo' = todo /\ line' = line
      BY <1>3 DEF Check, Remove, Shift
    <2> QED BY <1>2, <2>1, UnchangedLines
  <1>4. CASE Open(w)
    <2>1. todo' = todo /\ line' = line
      BY <1>4 DEF Open
    <2> QED BY <1>2, <1>4, <2>1, OpenLines
  <1>5. CASE AppendLine(w) \/ WriteFails(w)
    <2>1. todo' = todo /\ line' = [line EXCEPT ![w] = None] /\ pc[w] # "idle"
      BY <1>5 DEF AppendLine, WriteFails, Return
    <2>2. line'[w] = None /\ None \notin Lines /\ \A v \in Writers \ {w} : line'[v] = line[v]
      BY <2>1 DEF TypeOK
    <2>3. line[w] \in Lines /\ line[w] \notin todo
      BY <2>1 DEF Steps, WrittenOnce
    <2>4. \A l, f, i : At(f, i, l)' => l \in Lines
      <3> SUFFICES ASSUME NEW l, NEW f, NEW i, At(f, i, l)' PROVE l \in Lines
        OBVIOUS
      <3>1. data' \in Seq(Seq(Lines)) /\ f \in 1 .. Len(data')
        BY DEF TypeOK, At
      <3>2. data'[f] \in Seq(Lines) /\ i \in 1 .. Len(data'[f]) /\ data'[f][i] = l
        BY <3>1, ElementOfSeq DEF At
      <3> QED BY <3>2, ElementOfSeq
    <2>5. \A u, v \in Writers : line'[u] = line'[v] /\ line'[u] # None => u = v
      BY <2>1, <2>2 DEF WrittenOnce, TypeOK
    <2>6. CASE data' = data
      <3>1. SameLines
        BY <2>6, UnchangedLines
      <3>2. ASSUME NEW v \in Writers, NEW l, l = line'[v]
            PROVE  l \notin todo /\ \A f, i \in Nat : ~At(f, i, l)'
        <4>1. CASE v = w
          BY <4>1, <3>2, <2>2, <2>4 DEF TypeOK
        <4>2. CASE v # w
          BY <4>2, <3>2, <3>1, <2>2 DEF WrittenOnce, SameLines
        <4> QED BY <4>1, <4>2
      <3> QED BY <2>1, <2>5, <3>1, <3>2, WrittenFromParts DEF WrittenOnce, SameLines
    <2>7. CASE AppendLine(w)
      <3>1. Appended(w)
        BY <2>7, AppendLines DEF AppendLine
      <3>2. ASSUME NEW l \in todo, NEW f \in Nat, NEW i \in Nat
            PROVE  ~At(f, i, l)'
        BY <2>3, <3>1 DEF WrittenOnce, Appended
      <3>3. ASSUME NEW v \in Writers, NEW l, l = line'[v]
            PROVE  l \notin todo /\ \A f, i \in Nat : ~At(f, i, l)'
        <4>1. CASE v = w
          BY <4>1, <3>3, <2>2, <2>4 DEF TypeOK
        <4>2. CASE v # w
          <5>1. l = line[v] /\ l # line[w]
            BY <4>2, <3>3, <2>2, <2>3 DEF WrittenOnce
          <5>2. l \notin todo /\ \A f, i \in Nat : ~At(f, i, l)
            BY <5>1 DEF WrittenOnce
          <5> QED BY <5>1, <5>2, <3>1 DEF Appended
        <4> QED BY <4>1, <4>2
      <3>4. ASSUME NEW l \in Lines, NEW f \in Nat, NEW g \in Nat, NEW i \in Nat, NEW j \in Nat,
                   At(f, i, l)', At(g, j, l)'
            PROVE  f = g /\ i = j
        <4>1. At(f, i, l) \/ (f = opened[w] /\ i = Len(data[f]) + 1 /\ l = line[w])
          BY <3>1, <3>4 DEF Appended
        <4>2. At(g, j, l) \/ (g = opened[w] /\ j = Len(data[g]) + 1 /\ l = line[w])
          BY <3>1, <3>4 DEF Appended
        <4>3. l = line[w] => ~At(f, i, l) /\ ~At(g, j, l)
          BY DEF WrittenOnce
        <4>4. At(f, i, l) /\ At(g, j, l) => f = g /\ i = j
          BY DEF WrittenOnce
        <4> QED BY <4>1, <4>2, <4>3, <4>4
      <3> QED BY <2>1, <2>5, <3>1, <3>2, <3>3, <3>4, WrittenFromParts DEF Appended
    <2> QED BY <1>5, <2>6, <2>7 DEF WriteFails
  <1> QED BY <1>1, <1>3, <1>4, <1>5

\* Where a name's file can come from: nowhere, itself, the next younger name,
\* which then names nothing, or, for the youngest, a new file.
Moves ==
  \A g \in Generations :
    \/ path'[g] = 0
    \/ path'[g] = path[g]
    \/ g >= 1 /\ path'[g] = path[g - 1] /\ path'[g - 1] = 0
    \/ g = 0 /\ path'[0] = Len(data) + 1

LEMMA WriterMoves ==
  ASSUME IInv, NEW w \in Writers,
         \/ \E l \in Lines : Take(w, l)
         \/ Check(w) \/ Remove(w) \/ Shift(w) \/ Open(w) \/ AppendLine(w)
         \/ WriteFails(w)
  PROVE  Moves
  <1> USE RotationAssumption
  <1>0. path \in [Generations -> 0 .. Len(data)] /\ gen[w] \in Generations
    BY DEF IInv, TypeOK
  <1>1. CASE path' = path
    BY <1>1 DEF Moves
  <1>2. CASE Remove(w)
    BY <1>0, <1>2 DEF Remove, Moves
  <1>3. CASE Shift(w)
    <2>1. gen[w] >= 1
      BY <1>3 DEF Shift, IInv, Steps
    <2>2. CASE path' = [path EXCEPT ![gen[w]] = path[gen[w] - 1], ![gen[w] - 1] = 0]
      BY <1>0, <2>1, <2>2 DEF Moves, Generations
    <2> QED BY <1>1, <1>3, <2>2 DEF Shift
  <1>4. CASE Open(w)
    BY <1>0, <1>1, <1>4 DEF Open, Moves, Generations
  <1>5. CASE (\E l \in Lines : Take(w, l)) \/ Check(w) \/ AppendLine(w) \/ WriteFails(w)
    BY <1>1, <1>5 DEF Take, Check, AppendLine, WriteFails, Return
  <1> QED BY <1>2, <1>3, <1>4, <1>5

LEMMA MovesKeepNames ==
  ASSUME IInv, Moves
  PROVE  OneName'
  <1>0. /\ Len(data) \in Nat
        /\ \A g \in Generations : path[g] \in 0 .. Len(data)
    BY FilesTyped DEF IInv, TypeOK
  <1>1. ASSUME NEW g \in Generations, NEW h \in Generations, path'[g] = path'[h], path'[g] # 0
        PROVE  g = h
    <2>1. g \in Nat /\ h \in Nat
      BY RotationAssumption DEF Generations
    <2>2. /\ g >= 1 => g - 1 \in Generations
          /\ h >= 1 => h - 1 \in Generations
      BY <2>1, RotationAssumption DEF Generations
    <2>3. \A a, b \in Generations : path[a] = path[b] /\ path[a] # 0 => a = b
      BY DEF IInv, OneName
    <2>a. \/ path'[h] = path[h]
          \/ h >= 1 /\ path'[h] = path[h - 1] /\ path'[h - 1] = 0
          \/ h = 0 /\ path'[h] = Len(data) + 1
      BY <1>1 DEF Moves
    <2>4. CASE path'[g] = path[g]
      <3>1. CASE path'[h] = path[h]
        BY <1>1, <2>3, <2>4, <3>1
      <3>2. CASE h >= 1 /\ path'[h] = path[h - 1] /\ path'[h - 1] = 0
        <4>1. g = h - 1
          BY <1>1, <2>2, <2>3, <2>4, <3>2
        <4> QED BY <1>1, <3>2, <4>1
      <3>3. CASE path'[h] = Len(data) + 1
        <4>1. path[g] = Len(data) + 1 /\ path[g] \in 0 .. Len(data)
          BY <1>0, <1>1, <2>4, <3>3, Zenon
        <4> QED BY ONLY <1>0, <4>1
      <3> QED BY <2>a, <3>1, <3>2, <3>3
    <2>5. CASE g >= 1 /\ path'[g] = path[g - 1] /\ path'[g - 1] = 0
      <3>1. CASE path'[h] = path[h]
        <4>1. h = g - 1
          BY <1>1, <2>2, <2>3, <2>5, <3>1
        <4> QED BY <1>1, <2>5, <4>1
      <3>2. CASE h >= 1 /\ path'[h] = path[h - 1]
        <4>1. g - 1 = h - 1
          BY <1>1, <2>2, <2>3, <2>5, <3>2
        <4> QED BY <2>1, <4>1
      <3>3. CASE path'[h] = Len(data) + 1
        <4>1. path[g - 1] = Len(data) + 1 /\ path[g - 1] \in 0 .. Len(data)
          BY <1>0, <1>1, <2>2, <2>5, <3>3, Zenon
        <4> QED BY ONLY <1>0, <4>1
      <3> QED BY <2>a, <3>1, <3>2, <3>3
    <2>6. CASE g = 0 /\ path'[0] = Len(data) + 1
      BY <1>0, <1>1, <2>1, <2>2, <2>6 DEF Moves
    <2> QED BY <1>1, <2>4, <2>5, <2>6 DEF Moves
  <1> QED BY <1>1 DEF OneName

LEMMA MovesKeepBehind ==
  ASSUME IInv, Moves, \A l : \A f, i \in Nat : At(f, i, l) => At(f, i, l)',
         UNCHANGED <<followVars, metricVars>>
  PROVE  CountedBehind' /\ ShownBehind'
  <1> USE RotationAssumption
  <1>0. Len(data) \in Nat /\ mgen \in 0 .. Rotations + 1
    BY FilesTyped DEF IInv, TypeOK
  <1>1. ASSUME NEW k \in 1 .. Len(counted)
        PROVE  \E f, i \in Nat : /\ At(f, i, counted[k])'
                                 /\ mgen \in Generations => \A g \in 0 .. mgen : path'[g] # f
    <2>1. PICK f \in Nat, i \in Nat : /\ At(f, i, counted[k])
                                      /\ mgen \in Generations => \A g \in 0 .. mgen : path[g] # f
      BY DEF IInv, CountedBehind
    <2>2. f \in 1 .. Len(data)
      BY <2>1 DEF At
    <2>3. ASSUME mgen \in Generations, NEW g \in 0 .. mgen PROVE path'[g] # f
      <3>1. g \in Generations /\ (g >= 1 => g - 1 \in 0 .. mgen)
        BY <1>0, <2>3 DEF Generations
      <3> QED BY <1>0, <2>1, <2>2, <2>3, <3>1 DEF Moves
    <2>4. At(f, i, counted[k])'
      BY <2>1 DEF metricVars, At
    <2> QED BY <2>3, <2>4
  <1>2. ASSUME NEW k \in 1 .. Len(shown)
        PROVE  \E f, i \in Nat : /\ At(f, i, shown[k])'
                                 /\ IF f = ffile THEN i <= offset ELSE f # path'[0]
    <2>1. PICK f \in Nat, i \in Nat : /\ At(f, i, shown[k])
                                      /\ IF f = ffile THEN i <= offset ELSE f # path[0]
      BY DEF IInv, ShownBehind
    <2>2. f \in 1 .. Len(data)
      BY <2>1 DEF At
    <2>3. path'[0] \in {0, path[0], Len(data) + 1}
      BY DEF Moves, Generations
    <2>4. f # path[0] => f # path'[0]
      BY <1>0, <2>2, <2>3
    <2>5. At(f, i, shown[k])'
      BY <2>1 DEF followVars, At
    <2> QED BY <2>1, <2>4, <2>5
  <1>3. CountedBehind'
    BY <1>1 DEF CountedBehind, metricVars
  <1>4. ShownBehind'
    BY <1>2 DEF ShownBehind, followVars
  <1> QED BY <1>3, <1>4

-----------------------------------------------------------------------------
(* The readers                                                             *)

\* One sequence after another, where no element of the first is in the second.
LEMMA DistinctConcat ==
  ASSUME NEW S, NEW s \in Seq(S), NEW t \in Seq(S), Distinct(s), Distinct(t),
         \A i \in 1 .. Len(s), j \in 1 .. Len(t) : s[i] # t[j]
  PROVE  Distinct(s \o t)
  <1>1. Len(s) \in Nat /\ Len(t) \in Nat
    BY LenProperties
  <1>2. /\ Len(s \o t) = Len(s) + Len(t)
        /\ \A i \in 1 .. Len(s) + Len(t) :
              (s \o t)[i] = IF i <= Len(s) THEN s[i] ELSE t[i - Len(s)]
    BY ConcatProperties
  <1>3. ASSUME NEW i \in 1 .. Len(s) + Len(t), NEW j \in 1 .. Len(s) + Len(t), i # j
        PROVE  (s \o t)[i] # (s \o t)[j]
    <2>1. CASE i <= Len(s) /\ j <= Len(s)
      BY <1>1, <1>2, <1>3, <2>1 DEF Distinct
    <2>2. CASE i <= Len(s) /\ j > Len(s)
      BY <1>1, <1>2, <2>2
    <2>3. CASE i > Len(s) /\ j <= Len(s)
      BY <1>1, <1>2, <2>3
    <2>4. CASE i > Len(s) /\ j > Len(s)
      <3>1. /\ i - Len(s) \in 1 .. Len(t) /\ j - Len(s) \in 1 .. Len(t)
            /\ i - Len(s) # j - Len(s)
        BY <1>1, <1>3, <2>4
      <3>2. t[i - Len(s)] # t[j - Len(s)]
        BY <3>1 DEF Distinct
      <3> QED BY <1>1, <1>2, <2>4, <3>2
    <2> QED BY <1>1, <2>1, <2>2, <2>3, <2>4
  <1> QED BY <1>2, <1>3 DEF Distinct

\* The lines of a file are different from each other.
LEMMA FileDistinct ==
  ASSUME IInv, NEW f \in 1 .. Len(data), NEW i \in 1 .. Len(data[f]), NEW j \in 1 .. Len(data[f]),
         data[f][i] = data[f][j]
  PROVE  i = j
  <1>1. f \in Nat /\ i \in Nat /\ j \in Nat /\ data[f][i] \in Lines
    BY FilesTyped DEF IInv
  <1>2. At(f, i, data[f][i]) /\ At(f, j, data[f][i])
    BY DEF At
  <1> QED BY <1>1, <1>2 DEF IInv, WrittenOnce

LEMMA MetricsReads ==
  ASSUME IInv, MetricsRead
  PROVE  CountedBehind' /\ CountedOnce'
  <1> USE RotationAssumption
  <1>0. /\ Len(data) \in Nat /\ mgen \in Generations /\ mgen \in Nat
        /\ path[mgen] \in 0 .. Len(data)
        /\ counted \in Seq(Lines) /\ Len(counted) \in Nat
        /\ data' = data /\ path' = path
        /\ mgen' = IF mgen = 0 THEN Rotations + 1 ELSE mgen - 1
    <2>1. /\ mgen \in Generations /\ data' = data /\ path' = path
          /\ mgen' = IF mgen = 0 THEN Rotations + 1 ELSE mgen - 1
      BY DEF MetricsRead
    <2>2. /\ path \in [Generations -> 0 .. Len(data)]
          /\ counted \in Seq(Lines)
      BY DEF IInv, TypeOK
    <2>3. mgen \in Nat
      BY <2>1 DEF Generations
    <2> QED BY <2>1, <2>2, <2>3, FilesTyped, LenProperties
  <1>1. mgen' \in Generations => mgen' \in Nat /\ mgen' < mgen
    BY <1>0 DEF Generations
  <1>2. ASSUME NEW k \in 1 .. Len(counted)
        PROVE  \E f, i \in Nat : /\ At(f, i, counted[k])
                                 /\ f # path[mgen]
                                 /\ mgen' \in Generations => \A g \in 0 .. mgen' : path[g] # f
    <2>1. PICK f \in Nat, i \in Nat : /\ At(f, i, counted[k])
                                      /\ \A g \in 0 .. mgen : path[g] # f
      BY <1>0 DEF IInv, CountedBehind
    <2> QED BY <1>0, <1>1, <2>1
  <1>3. CASE path[mgen] = 0
    <2>1. counted' = counted
      BY <1>3 DEF MetricsRead
    <2>2. ASSUME NEW k \in 1 .. Len(counted')
          PROVE  \E f, i \in Nat : /\ At(f, i, counted'[k])
                                   /\ mgen' \in Generations => \A g \in 0 .. mgen' : path[g] # f
      BY <1>2, <2>1
    <2>3. CountedBehind'
      BY <1>0, <2>2 DEF CountedBehind, At
    <2> QED BY <2>1, <2>3 DEF IInv, CountedOnce
  <1>4. CASE path[mgen] # 0
    <2> DEFINE p == path[mgen]
               t == data[p]
    <2>1. /\ p \in 1 .. Len(data) /\ t \in Seq(Lines) /\ Len(t) \in Nat
          /\ p \in Nat /\ counted' = counted \o t
      BY <1>0, <1>4, FilesTyped, SMTT(30) DEF IInv, MetricsRead
    <2>2. \A i \in 1 .. Len(t) : At(p, i, t[i]) /\ i \in Nat /\ t[i] \in Lines
      BY <2>1, FilesTyped DEF At, IInv
    <2>3. ASSUME NEW k \in 1 .. Len(counted), NEW j \in 1 .. Len(t)
          PROVE  counted[k] # t[j]
      <3>1. PICK f \in Nat, i \in Nat : At(f, i, counted[k]) /\ f # p
        BY <1>2
      <3>2. At(p, j, t[j]) /\ t[j] \in Lines /\ j \in Nat
        BY <2>2
      <3> HIDE DEF p, t
      <3> QED BY <2>1, <3>1, <3>2 DEF IInv, WrittenOnce
    <2>4. Distinct(t)
      BY <2>1, FileDistinct DEF Distinct
    <2>5. CountedOnce'
      <3> HIDE DEF t
      <3> QED BY <1>0, <2>1, <2>3, <2>4, DistinctConcat DEF IInv, CountedOnce
    <2>6. mgen' \in Generations => \A g \in 0 .. mgen' : path[g] # p
      <3> SUFFICES ASSUME mgen' \in Generations, NEW g \in 0 .. mgen' PROVE path[g] # p
        OBVIOUS
      <3>1. g \in Generations /\ g # mgen
        BY <1>0, <1>1 DEF Generations
      <3> QED BY <1>0, <1>4, <3>1 DEF IInv, OneName
    <2>7. ASSUME NEW k \in 1 .. Len(counted')
          PROVE  \E f, i \in Nat : /\ At(f, i, counted'[k])
                                   /\ mgen' \in Generations => \A g \in 0 .. mgen' : path[g] # f
      <3> HIDE DEF t, p
      <3>1. /\ k \in 1 .. Len(counted) + Len(t)
            /\ counted'[k] = IF k <= Len(counted) THEN counted[k] ELSE t[k - Len(counted)]
        BY <1>0, <2>1, ConcatProperties
      <3>2. CASE k <= Len(counted)
        BY <1>0, <1>2, <3>1, <3>2
      <3>3. CASE k > Len(counted)
        <4>1. k - Len(counted) \in 1 .. Len(t) /\ counted'[k] = t[k - Len(counted)]
          BY <1>0, <2>1, <3>1, <3>3
        <4> QED BY <2>1, <2>2, <2>6, <4>1
      <3> QED BY <1>0, <2>1, <3>1, <3>2, <3>3
    <2>8. CountedBehind'
      BY <1>0, <2>7 DEF CountedBehind, At
    <2> QED BY <2>5, <2>8
  <1> QED BY <1>3, <1>4

LEMMA FollowReads ==
  ASSUME IInv, FollowRead, ffile # 0
  PROVE  ShownBehind' /\ FollowedOnce'
  <1> DEFINE t == LinesAfter(ffile, offset)
             n == Len(data[ffile])
  <1>1. /\ ffile \in 1 .. Len(data) /\ ffile \in Nat
        /\ data[ffile] \in Seq(Lines) /\ n \in Nat
        /\ offset \in Nat /\ offset <= n
        /\ shown \in Seq(Lines) /\ Len(shown) \in Nat
    BY FilesTyped, LenProperties DEF IInv, TypeOK, Steps
  <1>2. /\ shown' = shown \o t /\ offset' = n
        /\ path' = path /\ data' = data /\ ffile' = ffile
    <2>1. ~(n < offset)
      BY <1>1
    <2> QED BY <2>1 DEF FollowRead
  <1>3. /\ t \in Seq(Lines) /\ Len(t) = n - offset
        /\ \A i \in 1 .. n - offset : t[i] = data[ffile][offset + i]
    <2>1. \A i \in offset + 1 .. n : data[ffile][i] \in Lines
      BY <1>1, FilesTyped DEF IInv
    <2>2. /\ SubSeq(data[ffile], offset + 1, n) \in Seq(Lines)
          /\ Len(SubSeq(data[ffile], offset + 1, n)) =
                IF offset + 1 <= n THEN n - (offset + 1) + 1 ELSE 0
          /\ \A i \in 1 .. n - (offset + 1) + 1 :
                SubSeq(data[ffile], offset + 1, n)[i] = data[ffile][offset + 1 + i - 1]
      <3> HIDE DEF n
      <3>1. offset + 1 \in Int /\ n \in Int
        BY <1>1
      <3> QED BY <2>1, <3>1, SubSeqProperties
    <2>3. t = SubSeq(data[ffile], offset + 1, n)
      BY DEF LinesAfter
    <2> HIDE DEF t, n
    <2>4. Len(t) = n - offset
      BY <1>1, <2>2, <2>3
    <2>5. ASSUME NEW i \in 1 .. n - offset PROVE t[i] = data[ffile][offset + i]
      <3>1. i \in 1 .. n - (offset + 1) + 1 /\ offset + 1 + i - 1 = offset + i
        BY <1>1
      <3> QED BY <2>2, <2>3, <3>1
    <2> QED BY <2>2, <2>3, <2>4, <2>5
  <1>4. \A i \in 1 .. Len(t) : /\ At(ffile, offset + i, t[i])
                               /\ offset + i \in Nat /\ offset + i > offset /\ offset + i <= n
                               /\ t[i] \in Lines
    <2> HIDE DEF t
    <2> QED BY <1>1, <1>3, FilesTyped DEF At, IInv
  <1> HIDE DEF t
  <1>5. ASSUME NEW k \in 1 .. Len(shown), NEW j \in 1 .. Len(t)
        PROVE  shown[k] # t[j]
    <2>1. PICK f \in Nat, i \in Nat : /\ At(f, i, shown[k])
                                      /\ f = ffile => i <= offset
      BY DEF IInv, ShownBehind
    <2>2. /\ At(ffile, offset + j, t[j]) /\ offset + j \in Nat /\ offset + j > offset
          /\ t[j] \in Lines
      BY <1>4
    <2>3. shown[k] = t[j] => f = ffile /\ i = offset + j
      BY <1>1, <2>1, <2>2 DEF IInv, WrittenOnce
    <2> QED BY <1>1, <2>1, <2>2, <2>3
  <1>6. Distinct(t)
    <2> SUFFICES ASSUME NEW i \in 1 .. Len(t), NEW j \in 1 .. Len(t), t[i] = t[j]
                 PROVE  i = j
      BY DEF Distinct
    <2>1. offset + i = offset + j
      <3>1. /\ At(ffile, offset + i, t[i]) /\ At(ffile, offset + j, t[i])
            /\ offset + i \in Nat /\ offset + j \in Nat /\ t[i] \in Lines
        BY <1>4
      <3> QED BY <1>1, <3>1 DEF IInv, WrittenOnce
    <2> QED BY <1>1, <1>3, <2>1
  <1>7. FollowedOnce'
    BY <1>1, <1>2, <1>3, <1>5, <1>6, DistinctConcat DEF IInv, FollowedOnce
  <1>8. ASSUME NEW k \in 1 .. Len(shown')
        PROVE  \E f, i \in Nat : /\ At(f, i, shown'[k])
                                 /\ IF f = ffile THEN i <= n ELSE f # path[0]
    <2>1. /\ k \in 1 .. Len(shown) + Len(t)
          /\ shown'[k] = IF k <= Len(shown) THEN shown[k] ELSE t[k - Len(shown)]
      <3>1. /\ Len(shown') = Len(shown) + Len(t)
            /\ \A j \in 1 .. Len(shown) + Len(t) :
                  shown'[j] = IF j <= Len(shown) THEN shown[j] ELSE t[j - Len(shown)]
        <4>1. shown \in Seq(Lines) /\ t \in Seq(Lines) /\ shown' = shown \o t
          BY <1>1, <1>2, <1>3
        <4> QED BY <4>1, ConcatProperties
      <3> QED BY <3>1
    <2>0. Len(shown) \in Nat /\ Len(t) \in Nat
      BY <1>1, <1>3, LenProperties
    <2>2. CASE k <= Len(shown)
      <3>1. PICK f \in Nat, i \in Nat : /\ At(f, i, shown[k])
                                        /\ IF f = ffile THEN i <= offset ELSE f # path[0]
        <4>1. k \in 1 .. Len(shown)
          BY <1>1, <2>1, <2>2
        <4> QED BY <4>1 DEF IInv, ShownBehind
      <3>2. At(f, i, shown'[k])
        BY <2>1, <2>2, <3>1
      <3>3. IF f = ffile THEN i <= n ELSE f # path[0]
        BY <1>1, <3>1
      <3> QED BY <3>2, <3>3
    <2>3. CASE k > Len(shown)
      <3>1. k - Len(shown) \in 1 .. Len(t) /\ shown'[k] = t[k - Len(shown)]
        BY <2>0, <2>1, <2>3
      <3>2. /\ At(ffile, offset + (k - Len(shown)), shown'[k])
            /\ offset + (k - Len(shown)) \in Nat
            /\ offset + (k - Len(shown)) <= n
        BY <1>4, <3>1
      <3> QED BY <1>1, <3>2
    <2> QED BY <2>0, <2>1, <2>2, <2>3
  <1>9. ShownBehind'
    BY <1>2, <1>8, ZenonT(30) DEF ShownBehind, At
  <1> QED BY <1>7, <1>9

\* The follower's other steps: what it left is behind it.
LEMMA FollowMoves ==
  ASSUME IInv, FollowOpen \/ FollowCompare \/ FollowReopen \/ (FollowRead /\ ffile = 0)
  PROVE  ShownBehind' /\ FollowedOnce'
  <1>0. shown' = shown /\ path' = path /\ data' = data
    BY DEF FollowOpen, FollowCompare, FollowReopen, FollowRead
  <1>1. ASSUME NEW k \in 1 .. Len(shown)
        PROVE  \E f, i \in Nat : /\ At(f, i, shown[k])
                                 /\ IF f = ffile' THEN i <= offset' ELSE f # path[0]
    <2>1. PICK f \in Nat, i \in Nat : /\ At(f, i, shown[k])
                                      /\ IF f = ffile THEN i <= offset ELSE f # path[0]
      BY DEF IInv, ShownBehind
    <2>2. f \in 1 .. Len(data) /\ f # 0
      BY <2>1 DEF At
    <2>3. CASE ffile' = ffile /\ offset' = offset
      BY <2>1, <2>3
    <2>4. CASE FollowOpen /\ ffile = 0
      BY <2>1, <2>2, <2>4 DEF FollowOpen
    <2>5. CASE FollowReopen
      <3>1. path[0] # ffile /\ ffile' = path[0]
        BY <2>5 DEF FollowReopen, IInv, Steps
      <3> QED BY <2>1, <3>1
    <2> QED BY <2>3, <2>4, <2>5 DEF FollowOpen, FollowCompare, FollowRead
  <1>2. ShownBehind'
    BY <1>0, <1>1 DEF ShownBehind, At
  <1> QED BY <1>0, <1>2 DEF IInv, FollowedOnce

\* Nothing a line or a name depends on has changed.
LEMMA StillWritten ==
  ASSUME IInv, UNCHANGED <<path, data, todo, line>>
  PROVE  WrittenOnce' /\ OneName'
  BY DEF IInv, WrittenOnce, OneName, At

LEMMA NextIInv ==
  ASSUME IInv, Next
  PROVE  IInv'
  <1>1. CASE \E w \in Writers : \/ \E l \in Lines : Take(w, l)
                                \/ Check(w) \/ Remove(w) \/ Shift(w) \/ Open(w) \/ AppendLine(w)
                                \/ WriteFails(w)
    <2> PICK w \in Writers : \/ \E l \in Lines : Take(w, l)
                             \/ Check(w) \/ Remove(w) \/ Shift(w) \/ Open(w) \/ AppendLine(w)
                             \/ WriteFails(w)
      BY <1>1
    <2>1. TypeOK' /\ Steps'
      BY WriterTyped
    <2>2. WrittenOnce' /\ \A l : \A f, i \in Nat : At(f, i, l) => At(f, i, l)'
      BY <2>1, WriterWritten
    <2>3. Moves
      BY WriterMoves
    <2>4. UNCHANGED <<followVars, metricVars>>
      BY DEF Take, Check, Remove, Shift, Open, AppendLine, WriteFails, Return
    <2>5. OneName' /\ CountedBehind' /\ ShownBehind'
      BY <2>2, <2>3, <2>4, MovesKeepNames, MovesKeepBehind
    <2>6. CountedOnce' /\ FollowedOnce'
      BY <2>4 DEF IInv, CountedOnce, FollowedOnce, Distinct, followVars, metricVars
    <2> QED BY <2>1, <2>2, <2>5, <2>6 DEF IInv
  <1>2. CASE Follow
    <2>1. TypeOK' /\ Steps'
      BY <1>2, ReaderTyped
    <2>2. UNCHANGED <<path, data, writerVars, metricVars>>
      BY <1>2 DEF Follow, FollowOpen, FollowCompare, FollowReopen, FollowRead
    <2>3. WrittenOnce' /\ OneName'
      BY <2>2, StillWritten DEF writerVars
    <2>4. CountedBehind' /\ CountedOnce'
      BY <2>2 DEF IInv, CountedBehind, CountedOnce, Distinct, At, metricVars
    <2>5. ShownBehind' /\ FollowedOnce'
      BY <1>2, FollowReads, FollowMoves DEF Follow
    <2> QED BY <2>1, <2>3, <2>4, <2>5 DEF IInv
  <1>3. CASE MetricsBegin \/ MetricsRead
    <2>1. TypeOK' /\ Steps'
      BY <1>3, ReaderTyped
    <2>2. UNCHANGED <<path, data, writerVars, followVars>>
      BY <1>3 DEF MetricsBegin, MetricsRead
    <2>3. WrittenOnce' /\ OneName'
      BY <2>2, StillWritten DEF writerVars
    <2>4. ShownBehind' /\ FollowedOnce'
      <3>1. ShownBehind'
        BY <2>2, SMTT(30) DEF IInv, ShownBehind, At, followVars
      <3>2. FollowedOnce'
        BY <2>2 DEF IInv, FollowedOnce, Distinct, followVars
      <3> QED BY <3>1, <3>2
    <2>5. CASE MetricsBegin
      <3>1. Len(counted') = 0
        BY <2>5, EmptySeq DEF MetricsBegin
      <3>2. CountedBehind' /\ CountedOnce'
        BY <3>1 DEF CountedBehind, CountedOnce, Distinct
      <3> QED BY <2>1, <2>3, <2>4, <3>2 DEF IInv
    <2>6. CASE MetricsRead
      BY <2>1, <2>3, <2>4, <2>6, MetricsReads DEF IInv
    <2> QED BY <1>3, <2>5, <2>6
  <1> QED BY <1>1, <1>2, <1>3 DEF Next

LEMMA StutterIInv ==
  ASSUME IInv, UNCHANGED vars
  PROVE  IInv'
  <1> USE DEF vars, writerVars, followVars, metricVars
  <1>1. TypeOK'
    BY DEF IInv, TypeOK
  <1>2. Steps'
    BY DEF IInv, Steps
  <1>3. WrittenOnce' /\ OneName'
    BY StillWritten
  <1>4. CountedBehind' /\ CountedOnce'
    BY DEF IInv, CountedBehind, CountedOnce, Distinct, At
  <1>5. ShownBehind' /\ FollowedOnce'
    BY DEF IInv, ShownBehind, FollowedOnce, Distinct, At
  <1> QED BY <1>1, <1>2, <1>3, <1>4, <1>5 DEF IInv

-----------------------------------------------------------------------------
(* The invariant holds throughout, for any number of processes that write, *)
(* rotate, follow and count the log at once.                               *)
THEOREM Invariance == Spec => []IInv
  <1>1. Init => IInv
    BY InitIInv
  <1>2. IInv /\ [Next]_vars => IInv'
    BY NextIInv, StutterIInv
  <1> QED BY <1>1, <1>2, PTL DEF Spec

(* Every name a rotation leaves is free or names a file that exists, and   *)
(* every writer appends to a file it opened.                               *)
THEOREM TypeCorrect == Spec => []TypeOK
  <1>1. IInv => TypeOK
    BY DEF IInv
  <1> QED BY <1>1, Invariance, PTL

(* pentect log returns no line twice: read_new's offset belongs to the     *)
(* file it reads, and a file it left never gets the path back.             *)
THEOREM NothingFollowedTwice == Spec => []FollowedOnce
  <1>1. IInv => FollowedOnce
    BY DEF IInv
  <1> QED BY <1>1, Invariance, PTL

(* One metrics report counts no line twice, although the generations are   *)
(* renamed while read_metrics opens them one after another.                *)
THEOREM NothingCountedTwice == Spec => []CountedOnce
  <1>1. IInv => CountedOnce
    BY DEF IInv
  <1> QED BY <1>1, Invariance, PTL

-----------------------------------------------------------------------------
(* The size of a file                                                      *)

LEMMA BoundFinite ==
  ASSUME NEW S \in SUBSET Writers
  PROVE  /\ IsFiniteSet(S)
         /\ Cardinality(S) \in Nat /\ Cardinality(Writers) \in Nat
         /\ Cardinality(S) <= Cardinality(Writers)
  BY WritersAssumption, FS_Subset, FS_CardinalityType

\* A file that does not grow keeps its room while nobody else is bound for it.
LEMMA RoomKept ==
  ASSUME RoomLeft, TypeOK, ~failed,
         NEW f \in 1 .. Len(data), Len(data'[f]) = Len(data[f]),
         Bound(f)' \subseteq Bound(f)
  PROVE  Len(data'[f]) + Cardinality(Bound(f)') < MaxSize + Cardinality(Writers)
  <1>1. Len(data[f]) + Cardinality(Bound(f)) < MaxSize + Cardinality(Writers)
    BY DEF RoomLeft
  <1>2. Bound(f) \in SUBSET Writers /\ Bound(f)' \in SUBSET Bound(f)
    BY DEF Bound
  <1> DEFINE S == Bound(f)  T == Bound(f)'
  <1>3. S \in SUBSET Writers /\ T \in SUBSET S /\ T \in SUBSET Writers
    BY <1>2
  <1> HIDE DEF S, T
  <1>4. Cardinality(T) <= Cardinality(S) /\ Cardinality(T) \in Nat /\ Cardinality(S) \in Nat
        /\ Cardinality(Writers) \in Nat
    BY <1>3, BoundFinite, FS_Subset
  <1>5. Len(data[f]) \in Nat
    BY FilesTyped
  <1>6. Len(data[f]) + Cardinality(S) < MaxSize + Cardinality(Writers)
    BY <1>1 DEF S
  <1>7. Len(data[f]) + Cardinality(T) < MaxSize + Cardinality(Writers)
    BY <1>4, <1>5, <1>6, RotationAssumption
  <1> QED BY <1>7 DEF T

\* A file below the limit has room for everyone.
LEMMA RoomBelow ==
  ASSUME NEW f, Len(data'[f]) \in Nat, Len(data'[f]) < MaxSize
  PROVE  Len(data'[f]) + Cardinality(Bound(f)') < MaxSize + Cardinality(Writers)
  <1> DEFINE T == Bound(f)'
  <1>1. T \in SUBSET Writers
    BY DEF Bound
  <1> HIDE DEF T
  <1>2. Cardinality(T) \in Nat /\ Cardinality(Writers) \in Nat
        /\ Cardinality(T) <= Cardinality(Writers)
    BY <1>1, BoundFinite
  <1>3. Len(data'[f]) + Cardinality(T) < MaxSize + Cardinality(Writers)
    BY <1>2, RotationAssumption
  <1> QED BY <1>3 DEF T

\* The append uses up the place of its writer.
LEMMA AppendRoom ==
  ASSUME IInv, RoomLeft, ~failed, NEW w \in Writers, AppendLine(w)
  PROVE  RoomLeft'
  <1> USE DEF IInv
  <1>0. /\ pc[w] = "append" /\ pc' = [pc EXCEPT ![w] = "idle"]
        /\ opened' = [opened EXCEPT ![w] = 0] /\ path' = path
        /\ data' = [data EXCEPT ![opened[w]] = Append(@, line[w])]
    BY DEF AppendLine, Return, Step
  <1>1. opened[w] \in 1 .. Len(data) /\ line[w] \in Lines
    BY <1>0, FilesTyped DEF TypeOK, Steps
  <1>2. Len(data') = Len(data)
    BY <1>0, AppendLines DEF Appended
  <1>3. \A f \in 1 .. Len(data) : f # opened[w] => data'[f] = data[f]
    BY <1>0, <1>1 DEF TypeOK
  <1>4. Len(data'[opened[w]]) = Len(data[opened[w]]) + 1
    <2>1. data'[opened[w]] = Append(data[opened[w]], line[w])
      <3>1. DOMAIN data = 1 .. Len(data)
        BY LenProperties DEF TypeOK
      <3> QED BY <1>0, <1>1, <3>1
    <2> QED BY <2>1, <1>1, FilesTyped, AppendProperties
  <1>5. ASSUME NEW f \in 1 .. Len(data)
        PROVE  Bound(f)' = Bound(f) \ {w}
    BY <1>0 DEF Bound, TypeOK
  <1>6. SUFFICES ASSUME NEW f \in 1 .. Len(data)
                 PROVE  Len(data'[f]) + Cardinality(Bound(f)') < MaxSize + Cardinality(Writers)
    BY <1>2 DEF RoomLeft
  <1>7. CASE f # opened[w]
    BY <1>3, <1>5, <1>7, RoomKept
  <1>8. CASE f = opened[w]
    <2> DEFINE S == Bound(f)
    <2>1. w \in S /\ S \in SUBSET Writers
      BY <1>0, <1>8 DEF Bound
    <2>2. Bound(f)' = S \ {w}
      BY <1>5
    <2>3. Len(data[f]) + Cardinality(S) < MaxSize + Cardinality(Writers)
      BY DEF RoomLeft
    <2> HIDE DEF S
    <2>4. /\ Cardinality(S \ {w}) = Cardinality(S) - 1
          /\ Cardinality(S) \in Nat /\ Cardinality(Writers) \in Nat
      BY <2>1, BoundFinite, FS_RemoveElement
    <2>5. Len(data[f]) \in Nat
      BY FilesTyped
    <2> QED BY <2>2, <2>3, <2>4, <2>5, <1>4, <1>8, RotationAssumption
  <1> QED BY <1>7, <1>8

\* What the rename that ends the loop leaves.
LEMMA ShiftPath ==
  ASSUME IInv, NEW w \in Writers, Shift(w), ~failed'
  PROVE  /\ ~failed
         /\ data' = data /\ opened' = opened
         /\ path'[0] = 0 \/ (path'[0] = path[0] /\ gen[w] # 1)
         /\ pc' = [pc EXCEPT ![w] = IF gen[w] = 1 THEN "open" ELSE "shift"]
         /\ pc[w] = "shift"
  <1> USE DEF IInv
  <1>0. gen[w] \in 1 .. Rotations /\ gen[w] \in Generations /\ gen[w] - 1 \in Generations
        /\ 0 \in Generations
    BY RotationAssumption DEF Shift, TypeOK, Steps, Generations
  <1>1. /\ path' = IF path[gen[w] - 1] = 0 THEN path
                   ELSE [path EXCEPT ![gen[w]] = path[gen[w] - 1], ![gen[w] - 1] = 0]
        /\ failed' = failed
    BY DEF Shift
  <1>2. path \in [Generations -> 0 .. Len(data)]
    BY DEF TypeOK
  <1>3. gen[w] = 1 => path'[0] = 0
    <2> SUFFICES ASSUME gen[w] = 1 PROVE path'[0] = 0
      OBVIOUS
    <2>1. gen[w] - 1 = 0
      OBVIOUS
    <2> HIDE DEF IInv
    <2>2. path' = IF path[0] = 0 THEN path ELSE [path EXCEPT ![gen[w]] = path[0], ![0] = 0]
      BY <1>1, <2>1
    <2> QED BY <1>0, <1>2, <2>2
  <1>4. gen[w] # 1 => path'[0] = path[0]
    BY <1>0, <1>1, <1>2
  <1> QED BY <1>1, <1>3, <1>4 DEF Shift, Step

LEMMA NextRoom ==
  ASSUME IInv, RoomLeft, Next
  PROVE  RoomLeft'
  <1> SUFFICES ASSUME ~failed' PROVE RoomLeft'
    BY DEF RoomLeft
  <1> USE DEF IInv
  <1>a. Len(data) \in Nat /\ \A f \in 1 .. Len(data) : Len(data[f]) \in Nat
    BY FilesTyped
  <1>b. ASSUME ~failed, data' = data, \A f \in 1 .. Len(data) : Bound(f)' \subseteq Bound(f)
        PROVE  RoomLeft'
    BY <1>b, RoomKept DEF RoomLeft
  <1>1. ASSUME NEW w \in Writers, \E l \in Lines : Take(w, l) PROVE RoomLeft'
    <2> PICK l \in Lines : Take(w, l)
      BY <1>1
    <2>1. ~failed /\ data' = data /\ path' = path /\ opened' = opened
          /\ pc' = [pc EXCEPT ![w] = "check"]
      BY DEF Take, Step
    <2> QED BY <2>1, <1>b DEF Bound, TypeOK
  <1>2. ASSUME NEW w \in Writers, Check(w) PROVE RoomLeft'
    <2>1. ~failed /\ data' = data /\ path' = path /\ opened' = opened
      BY <1>2 DEF Check
    <2>2. CASE NeedsRotation
      <3>1. pc' = [pc EXCEPT ![w] = "remove"]
        BY <1>2, <2>2 DEF Check, Step
      <3> QED BY <2>1, <3>1, <1>b DEF Bound, TypeOK
    <2>3. CASE ~NeedsRotation
      <3>1. pc' = [pc EXCEPT ![w] = "open"]
        BY <1>2, <2>3 DEF Check, Step
      <3>2. \A f \in 1 .. Len(data) : f = path[0] => Len(data[f]) < MaxSize
        BY <2>3, <1>a, RotationAssumption DEF NeedsRotation, Size
      <3>3. \A f \in 1 .. Len(data) : f # path[0] => Bound(f)' \subseteq Bound(f)
        BY <2>1, <3>1 DEF Bound, TypeOK
      <3>4. ASSUME NEW f \in 1 .. Len(data)
            PROVE  Len(data'[f]) + Cardinality(Bound(f)') < MaxSize + Cardinality(Writers)
        <4>1. CASE f = path[0]
          BY <4>1, <2>1, <3>2, <1>a, RoomBelow
        <4>2. CASE f # path[0]
          BY <4>2, <2>1, <3>3, RoomKept
        <4> QED BY <4>1, <4>2
      <3> QED BY <3>4, <2>1 DEF RoomLeft
    <2> QED BY <2>2, <2>3
  <1>3. ASSUME NEW w \in Writers, Remove(w) PROVE RoomLeft'
    <2>1. ~failed /\ data' = data /\ opened' = opened /\ pc' = [pc EXCEPT ![w] = "shift"]
      BY <1>3 DEF Remove, Step
    <2>2. path'[0] = path[0]
      BY <1>3, RotationAssumption DEF Remove, TypeOK, Generations
    <2> QED BY <2>1, <2>2, <1>b DEF Bound, TypeOK
  <1>4. ASSUME NEW w \in Writers, Shift(w) PROVE RoomLeft'
    <2>1. /\ ~failed
          /\ data' = data /\ opened' = opened
          /\ path'[0] = 0 \/ (path'[0] = path[0] /\ gen[w] # 1)
          /\ pc' = [pc EXCEPT ![w] = IF gen[w] = 1 THEN "open" ELSE "shift"]
          /\ pc[w] = "shift"
      BY <1>4, ShiftPath
    <2>2. ASSUME NEW f \in 1 .. Len(data) PROVE Bound(f)' \subseteq Bound(f)
      <3>1. ASSUME NEW v \in Writers, v \in Bound(f)' PROVE v \in Bound(f)
        <4>1. f # 0
          OBVIOUS
        <4>2. \/ pc'[v] = "open" /\ path'[0] = f
              \/ pc'[v] = "append" /\ opened'[v] = f
          BY <3>1 DEF Bound
        <4>3. CASE v = w
          BY <4>1, <4>2, <4>3, <2>1 DEF TypeOK
        <4>4. CASE v # w
          BY <4>1, <4>2, <4>4, <2>1 DEF TypeOK, Bound
        <4> QED BY <4>3, <4>4
      <3> QED BY <3>1 DEF Bound
    <2> QED BY <2>1, <2>2, <1>b
  <1>5. ASSUME NEW w \in Writers, Open(w) PROVE RoomLeft'
    <2>0. ~failed /\ pc[w] = "open" /\ pc' = [pc EXCEPT ![w] = "append"]
      BY <1>5 DEF Open, Step
    <2>1. CASE path[0] = 0
      <3>1. /\ data' = Append(data, <<>>)
            /\ path' = [path EXCEPT ![0] = Len(data) + 1]
            /\ opened' = [opened EXCEPT ![w] = Len(data) + 1]
        BY <1>5, <2>1 DEF Open
      <3>2. path'[0] = Len(data) + 1
        BY <3>1, RotationAssumption DEF TypeOK, Generations
      <3>3. /\ Len(data') = Len(data) + 1
            /\ \A f \in 1 .. Len(data) : data'[f] = data[f]
            /\ data'[Len(data) + 1] = <<>>
        BY <3>1, EmptySeq, AppendProperties DEF TypeOK
      <3>4. ASSUME NEW f \in 1 .. Len(data)
            PROVE  Len(data'[f]) + Cardinality(Bound(f)') < MaxSize + Cardinality(Writers)
        <4>1. Bound(f)' \subseteq Bound(f)
          <5>1. f # Len(data) + 1
            BY <1>a
          <5> HIDE DEF IInv
          <5>2. pc \in [Writers -> {"idle", "check", "remove", "shift", "open", "append"}]
                /\ opened \in [Writers -> 0 .. Len(data)]
            BY DEF TypeOK, IInv
          <5> QED BY <2>0, <3>1, <3>2, <5>1, <5>2 DEF Bound
        <4> QED BY <2>0, <3>3, <4>1, RoomKept
      <3>n. PICK n : n = Len(data) + 1
        OBVIOUS
      <3>5. Len(data'[n]) = 0
        BY <3>n, <3>3, EmptySeq
      <3>6. Len(data'[n]) + Cardinality(Bound(n)') < MaxSize + Cardinality(Writers)
        BY <3>5, RoomBelow, RotationAssumption
      <3>7. \A f \in 1 .. Len(data') : f \in 1 .. Len(data) \/ f = n
        BY <3>n, <3>3, <1>a
      <3> QED BY <3>4, <3>6, <3>7 DEF RoomLeft
    <2>2. CASE path[0] # 0
      <3>1. data' = data /\ path' = path /\ opened' = [opened EXCEPT ![w] = path[0]]
        BY <1>5, <2>2 DEF Open
      <3> QED BY <2>0, <3>1, <1>b DEF Bound, TypeOK
    <2> QED BY <2>1, <2>2
  <1>6. ASSUME NEW w \in Writers, AppendLine(w) PROVE RoomLeft'
    <2>1. ~failed
      BY <1>6 DEF AppendLine, Return
    <2> QED BY <1>6, <2>1, AppendRoom
  <1>7. ASSUME NEW w \in Writers, WriteFails(w) PROVE RoomLeft'
    <2>1. /\ ~failed /\ data' = data /\ path' = path /\ opened' = [opened EXCEPT ![w] = 0]
          /\ pc' = [pc EXCEPT ![w] = "idle"]
      BY <1>7 DEF WriteFails, Return, Step
    <2> QED BY <2>1, <1>b DEF Bound, TypeOK
  <1>8. CASE UNCHANGED <<path, data, writerVars>>
    BY <1>8, <1>b DEF Bound, writerVars
  <1>9. Follow \/ MetricsBegin \/ MetricsRead => UNCHANGED <<path, data, writerVars>>
    BY DEF Follow, FollowOpen, FollowCompare, FollowReopen, FollowRead, MetricsBegin, MetricsRead
  <1> QED BY <1>1, <1>2, <1>3, <1>4, <1>5, <1>6, <1>7, <1>8, <1>9 DEF Next

-----------------------------------------------------------------------------
(* What a rotation costs                                                   *)

LEMMA NextUndisturbed ==
  ASSUME IInv, Undisturbed, Next
  PROVE  Undisturbed'
  <1> USE RotationAssumption DEF IInv
  <1>0. /\ pc \in [Writers -> {"idle", "check", "remove", "shift", "open", "append"}]
        /\ clean \in [Writers -> BOOLEAN]
        /\ gen \in [Writers -> Generations]
        /\ path \in [Generations -> 0 .. Len(data)]
        /\ 0 \in Generations /\ Rotations \in Generations
    BY DEF TypeOK, Generations
  <1>a. ASSUME NEW w \in Writers,
               pc'[w] \notin {"remove", "shift"},
               \A v \in Writers \ {w} : pc'[v] = pc[v] /\ gen'[v] = gen[v],
               \A v \in Writers : clean'[v] => clean[v],
               \A g \in Generations \ {0} : path'[g] = path[g]
        PROVE  Undisturbed'
    <2> SUFFICES ASSUME NEW v \in Writers, clean'[v]
                 PROVE  /\ \A u \in Writers \ {v} : pc'[u] \notin {"remove", "shift"}
                        /\ pc'[v] = "shift" => gen'[v] = Rotations \/ path'[gen'[v]] = 0
      BY DEF Undisturbed
    <2>1. /\ \A u \in Writers \ {v} : pc[u] \notin {"remove", "shift"}
          /\ pc[v] = "shift" => gen[v] = Rotations \/ path[gen[v]] = 0
      BY <1>a DEF Undisturbed
    <2>2. pc[v] = "shift" => gen[v] \in Generations \ {0}
      BY <1>0 DEF Steps
    <2> HIDE DEF IInv
    <2>3. \A u \in Writers \ {v} : pc'[u] \notin {"remove", "shift"}
      BY <1>a, <2>1
    <2>4. pc'[v] = "shift" => gen'[v] = Rotations \/ path'[gen'[v]] = 0
      BY <1>a, <2>1, <2>2
    <2> QED BY <2>3, <2>4
  <1>1. ASSUME NEW w \in Writers, \E l \in Lines : Take(w, l) PROVE Undisturbed'
    <2> PICK l \in Lines : Take(w, l)
      BY <1>1
    <2>1. pc' = [pc EXCEPT ![w] = "check"] /\ UNCHANGED <<gen, clean, path>>
      BY DEF Take, Step
    <2> QED BY <1>0, <1>a, <2>1
  <1>2. ASSUME NEW w \in Writers, Check(w) PROVE Undisturbed'
    <2>1. CASE NeedsRotation
      <3>1. /\ pc' = [pc EXCEPT ![w] = "remove"]
            /\ \A v \in Writers : clean'[v] => /\ v = w
                                               /\ \A u \in Writers \ {w} :
                                                     pc[u] \notin {"remove", "shift"}
        BY <1>2, <2>1 DEF Check, Step
      <3> HIDE DEF IInv
      <3> QED BY <1>0, <3>1 DEF Undisturbed
    <2>2. CASE ~NeedsRotation
      <3>1. pc' = [pc EXCEPT ![w] = "open"] /\ UNCHANGED <<gen, clean, path>>
        BY <1>2, <2>2 DEF Check, Step
      <3> QED BY <1>0, <1>a, <3>1
    <2> QED BY <2>1, <2>2
  <1>3. ASSUME NEW w \in Writers, Remove(w) PROVE Undisturbed'
    <2>1. /\ pc' = [pc EXCEPT ![w] = "shift"] /\ pc[w] = "remove"
          /\ UNCHANGED <<gen, clean>>
      BY <1>3 DEF Remove, Step
    <2>2. gen[w] = Rotations
      BY <2>1 DEF Steps
    <2>3. \A u \in Writers \ {w} : ~clean[u]
      BY <2>1 DEF Undisturbed
    <2> HIDE DEF IInv
    <2>4. clean[w] => \A u \in Writers \ {w} : pc'[u] \notin {"remove", "shift"}
      BY <1>0, <2>1 DEF Undisturbed
    <2> QED BY <1>0, <2>1, <2>2, <2>3, <2>4 DEF Undisturbed
  <1>4. ASSUME NEW w \in Writers, Shift(w) PROVE Undisturbed'
    <2>0. gen[w] \in 1 .. Rotations /\ gen[w] \in Generations /\ gen[w] - 1 \in Generations
      BY <1>4 DEF Shift, TypeOK, Steps, Generations
    <2>1. /\ pc' = [pc EXCEPT ![w] = IF gen[w] = 1 THEN "open" ELSE "shift"]
          /\ pc[w] = "shift"
          /\ gen' = [gen EXCEPT ![w] = gen[w] - 1]
      BY <1>4 DEF Shift, Step
    <2>2. \A u \in Writers \ {w} : ~clean[u]
      BY <2>1 DEF Undisturbed
    <2>3. \A u \in Writers : clean'[u] => clean[u]
      BY <1>4, <1>0 DEF Shift
    <2>4. clean'[w] => path'[gen[w] - 1] = 0
      <3> HIDE DEF IInv
      <3> QED BY <1>4, <1>0, <2>0 DEF Shift
    <2> HIDE DEF IInv
    <2>5. clean[w] => \A u \in Writers \ {w} : pc'[u] \notin {"remove", "shift"}
      BY <1>0, <2>1 DEF Undisturbed
    <2>6. gen'[w] = gen[w] - 1
      BY <1>0, <2>1
    <2> QED BY <2>2, <2>3, <2>4, <2>5, <2>6 DEF Undisturbed
  <1>5. ASSUME NEW w \in Writers, Open(w) PROVE Undisturbed'
    <2>1. pc' = [pc EXCEPT ![w] = "append"] /\ UNCHANGED <<gen, clean>>
      BY <1>5 DEF Open, Step
    <2>2. \A g \in Generations \ {0} : path'[g] = path[g]
      BY <1>5, <1>0 DEF Open
    <2> QED BY <1>0, <1>a, <2>1, <2>2
  <1>6. ASSUME NEW w \in Writers, AppendLine(w) \/ WriteFails(w) PROVE Undisturbed'
    <2>1. /\ pc' = [pc EXCEPT ![w] = "idle"] /\ gen' = [gen EXCEPT ![w] = 0]
          /\ clean' = [clean EXCEPT ![w] = FALSE] /\ path' = path
      BY <1>6 DEF AppendLine, WriteFails, Return, Step
    <2> QED BY <1>0, <1>a, <2>1
  <1>7. CASE UNCHANGED <<path, data, writerVars>>
    BY <1>7 DEF Undisturbed, writerVars
  <1>8. Follow \/ MetricsBegin \/ MetricsRead => UNCHANGED <<path, data, writerVars>>
    BY DEF Follow, FollowOpen, FollowCompare, FollowReopen, FollowRead, MetricsBegin, MetricsRead
  <1> QED BY <1>1, <1>2, <1>3, <1>4, <1>5, <1>6, <1>7, <1>8 DEF Next

\* A name that a step takes away was the oldest, or the rotation was disturbed.
LEMMA NextOldestOnly ==
  ASSUME IInv, Undisturbed, Next, NEW f \in Named(path) \ Named(path')
  PROVE  f = path[Rotations] \/ \E w \in Writers : pc[w] = "shift" /\ ~clean[w]
  <1> USE RotationAssumption
  <1>0. /\ path \in [Generations -> 0 .. Len(data)]
        /\ 0 \in Generations /\ Rotations \in Generations
    BY DEF IInv, TypeOK, Generations
  <1>1. PICK h \in Generations : path[h] = f /\ f # 0
    BY DEF Named
  <1>2. \A g \in Generations : path'[g] # f
    BY <1>1 DEF Named
  <1>3. path' # path
    BY <1>1, <1>2
  <1>4. PICK w \in Writers : Remove(w) \/ Shift(w) \/ Open(w)
    <2>1. \A w \in Writers : /\ \A l \in Lines : Take(w, l) => path' = path
                             /\ Check(w) => path' = path
                             /\ AppendLine(w) \/ WriteFails(w) => path' = path
      BY DEF Take, Check, AppendLine, WriteFails, Return
    <2>2. Follow \/ MetricsBegin \/ MetricsRead => path' = path
      BY DEF Follow, FollowOpen, FollowCompare, FollowReopen, FollowRead, MetricsBegin,
             MetricsRead
    <2> QED BY <1>3, <2>1, <2>2 DEF Next
  <1>5. CASE Remove(w)
    <2>1. path' = [path EXCEPT ![Rotations] = 0]
      BY <1>3, <1>5 DEF Remove
    <2> QED BY <1>0, <1>1, <1>2, <2>1
  <1>6. CASE Shift(w)
    <2>0. gen[w] \in Generations /\ gen[w] - 1 \in Generations /\ gen[w] # gen[w] - 1
      <3>1. pc[w] = "shift"
        BY <1>6 DEF Shift
      <3>2. gen[w] \in Generations
        BY DEF IInv, TypeOK
      <3>3. gen[w] >= 1
        BY <3>1 DEF IInv, Steps
      <3> QED BY <3>2, <3>3 DEF Generations
    <2>1. path' = [path EXCEPT ![gen[w]] = path[gen[w] - 1], ![gen[w] - 1] = 0]
      BY <1>3, <1>6 DEF Shift
    <2>2. h = gen[w]
      <3>1. h # gen[w] - 1
        BY <1>0, <1>1, <1>2, <2>0, <2>1
      <3>2. h # gen[w] => path'[h] = path[h]
        BY <1>0, <2>0, <2>1, <3>1
      <3> QED BY <1>1, <1>2, <3>2
    <2>3. pc[w] = "shift"
      BY <1>6 DEF Shift
    <2> QED BY <1>1, <2>2, <2>3 DEF Undisturbed
  <1>7. CASE Open(w)
    <2>1. path[0] = 0 /\ path' = [path EXCEPT ![0] = Len(data) + 1]
      BY <1>3, <1>7 DEF Open
    <2> QED BY <1>0, <1>1, <1>2, <2>1
  <1> QED BY <1>4, <1>5, <1>6, <1>7

(* What SizeBounded and OldestOnly rest on holds throughout.               *)
THEOREM RotationInvariance == Spec => []RotationInv
  <1>1. Init => RotationInv
    <2> SUFFICES ASSUME Init PROVE RotationInv
      OBVIOUS
    <2>1. Len(data) = 0
      BY EmptySeq DEF Init
    <2>2. RoomLeft
      BY <2>1 DEF RoomLeft
    <2>3. Undisturbed
      BY DEF Init, Undisturbed
    <2> QED BY <2>2, <2>3 DEF RotationInv
  <1>2. IInv /\ RotationInv /\ [Next]_vars => RotationInv'
    <2> SUFFICES ASSUME IInv, RotationInv, [Next]_vars PROVE RotationInv'
      OBVIOUS
    <2>1. CASE Next
      BY <2>1, NextRoom, NextUndisturbed DEF RotationInv
    <2>2. CASE UNCHANGED vars
      <3>1. RoomLeft'
        <4>1. \A f \in 1 .. Len(data) : Bound(f)' = Bound(f)
          BY <2>2 DEF Bound, vars, writerVars
        <4> QED BY <2>2, <4>1 DEF RotationInv, RoomLeft, vars, writerVars
      <3>2. Undisturbed'
        BY <2>2 DEF RotationInv, Undisturbed, vars, writerVars
      <3> QED BY <3>1, <3>2 DEF RotationInv
    <2> QED BY <2>1, <2>2
  <1> QED BY <1>1, <1>2, Invariance, PTL DEF Spec

(* As long as renames succeed, writers that check the size before each     *)
(* other's append exceed LOG_MAX_BYTES by at most one batch each.          *)
THEOREM FilesStayBounded == Spec => []SizeBounded
  <1>1. IInv /\ RotationInv => SizeBounded
    <2> SUFFICES ASSUME IInv, RotationInv, ~failed, NEW f \in 1 .. Len(data)
                 PROVE  Len(data[f]) < MaxSize + Cardinality(Writers)
      BY DEF SizeBounded
    <2> DEFINE S == Bound(f)
    <2>1. S \in SUBSET Writers
      BY DEF Bound
    <2>2. Len(data[f]) + Cardinality(S) < MaxSize + Cardinality(Writers)
      BY DEF RotationInv, RoomLeft
    <2>3. Len(data[f]) \in Nat
      BY FilesTyped DEF IInv
    <2> HIDE DEF S
    <2>4. Cardinality(S) \in Nat /\ Cardinality(Writers) \in Nat
      BY <2>1, BoundFinite
    <2> QED BY <2>2, <2>3, <2>4, RotationAssumption
  <1> QED BY <1>1, Invariance, RotationInvariance, PTL

(* A rotation that no other process overlapped, and whose renames all      *)
(* succeeded, takes the name of the oldest generation and of no other.     *)
THEOREM RotationCostsOldest == Spec => OldestOnly
  <1>1. IInv /\ RotationInv /\ [Next]_vars =>
          [\A f \in Named(path) \ Named(path') :
              f = path[Rotations] \/ \E w \in Writers : pc[w] = "shift" /\ ~clean[w]]_vars
    BY NextOldestOnly DEF RotationInv
  <1> QED BY <1>1, Invariance, RotationInvariance, PTL DEF Spec, OldestOnly
=============================================================================
