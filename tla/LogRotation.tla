----------------------------- MODULE LogRotation -----------------------------
(***************************************************************************)
(* pentect.log and its older generations, shared by every Pentect process. *)
(* A writer checks the size, shifts the generations one rename at a time,  *)
(* opens the path and appends; nothing locks the files, so writers overlap *)
(* anywhere.  `pentect log` follows the path, and `pentect metrics` reads  *)
(* all generations from the oldest.                                        *)
(*                                                                         *)
(* A file is its identity (a number) and its lines; a path names a file or *)
(* nothing.  A batch is one line, so sizes are counted in lines.           *)
(***************************************************************************)
EXTENDS Naturals, Sequences, FiniteSets

CONSTANTS
    Writers,     \* the writer threads, one per process
    Lines,       \* the lines to be written, each once
    MaxSize,     \* LOG_MAX_BYTES
    Rotations,   \* LOG_ROTATIONS
    None

ASSUME RotationAssumption ==
    /\ MaxSize \in Nat \ {0}
    /\ Rotations \in Nat \ {0}
    /\ None \notin Lines
ASSUME WritersAssumption == IsFiniteSet(Writers)

Generations == 0 .. Rotations   \* 0 is pentect.log itself

VARIABLES
    path,      \* the file each generation's path names, or 0
    data,      \* the lines of every file ever created
    todo,      \* lines nobody has taken yet
    pc,        \* each writer's step
    line,      \* the line it is writing
    gen,       \* the generation its rotation loop is at
    opened,    \* the file it opened
    clean,     \* ghost: no other rotation overlapped its own, no rename failed
    failed,    \* ghost: a rename has failed
    fstep,     \* the follower's step in read_new
    ffile,     \* LifecycleSource.file, 0 for None
    offset,    \* LifecycleSource.offset
    shown,     \* ghost: every line read_new returned, in order
    mgen,      \* the generation read_metrics opens next, or Rotations + 1
    counted    \* ghost: every line it aggregated, in order

writerVars == <<todo, pc, line, gen, opened, clean, failed>>
followVars == <<fstep, ffile, offset, shown>>
metricVars == <<mgen, counted>>
vars == <<path, data, writerVars, followVars, metricVars>>

Init ==
    /\ path = [g \in Generations |-> 0]
    /\ data = <<>>
    /\ todo = Lines
    /\ pc = [w \in Writers |-> "idle"]
    /\ line = [w \in Writers |-> None]
    /\ gen = [w \in Writers |-> 0]
    /\ opened = [w \in Writers |-> 0]
    /\ clean = [w \in Writers |-> FALSE]
    /\ failed = FALSE
    /\ fstep = "open" /\ ffile = 0 /\ offset = 0 /\ shown = <<>>
    /\ mgen = Rotations + 1 /\ counted = <<>>

TypeOK ==
    /\ path \in [Generations -> 0 .. Len(data)]
    /\ data \in Seq(Seq(Lines))
    /\ todo \subseteq Lines
    /\ pc \in [Writers -> {"idle", "check", "remove", "shift", "open", "append"}]
    /\ line \in [Writers -> Lines \cup {None}]
    /\ gen \in [Writers -> Generations]
    /\ opened \in [Writers -> 0 .. Len(data)]
    /\ clean \in [Writers -> BOOLEAN]
    /\ failed \in BOOLEAN
    /\ fstep \in {"open", "compare", "reopen", "read"}
    /\ ffile \in 0 .. Len(data)
    /\ offset \in Nat
    /\ shown \in Seq(Lines)
    /\ mgen \in 0 .. Rotations + 1
    /\ counted \in Seq(Lines)

Size(f) == IF f = 0 THEN 0 ELSE Len(data[f])
Step(w, next) == pc' = [pc EXCEPT ![w] = next]

-----------------------------------------------------------------------------
(* write_batch and rotate_log_if_needed                                    *)

\* flush_batch hands a batch to write_batch.
Take(w, l) ==
    /\ pc[w] = "idle" /\ l \in todo
    /\ todo' = todo \ {l}
    /\ line' = [line EXCEPT ![w] = l]
    /\ Step(w, "check")
    /\ UNCHANGED <<path, data, gen, opened, clean, failed, followVars, metricVars>>

\* Mutant: the incoming batch is forgotten.
NeedsRotationLate == Size(path[0]) > MaxSize

\* Rotate only when the batch does not fit.
NeedsRotation == Size(path[0]) + 1 > MaxSize

\* Mutant: the loop starts one generation too low.
CheckShort(w) ==
    /\ pc[w] = "check"
    /\ IF NeedsRotation
       THEN /\ Step(w, "remove")
            /\ gen' = [gen EXCEPT ![w] = Rotations - 1]
            /\ clean' = [v \in Writers |-> /\ v = w
                                           /\ \A u \in Writers \ {w} :
                                                 pc[u] \notin {"remove", "shift"}]
       ELSE /\ Step(w, "open")
            /\ UNCHANGED <<gen, clean>>
    /\ UNCHANGED <<path, data, todo, line, opened, failed, followVars, metricVars>>

Check(w) ==
    /\ pc[w] = "check"
    /\ IF NeedsRotation
       THEN /\ Step(w, "remove")
            /\ gen' = [gen EXCEPT ![w] = Rotations]
            /\ clean' = [v \in Writers |-> /\ v = w
                                           /\ \A u \in Writers \ {w} :
                                                 pc[u] \notin {"remove", "shift"}]
       ELSE /\ Step(w, "open")
            /\ UNCHANGED <<gen, clean>>
    /\ UNCHANGED <<path, data, todo, line, opened, failed, followVars, metricVars>>

\* The oldest generation is removed first; an error is ignored.
Remove(w) ==
    /\ pc[w] = "remove"
    /\ path' \in {path, [path EXCEPT ![Rotations] = 0]}
    /\ Step(w, "shift")
    /\ UNCHANGED <<data, todo, line, gen, opened, clean, failed, followVars, metricVars>>

\* One pass of the loop: the younger file takes the older name and replaces
\* whatever has it.  A rename may fail and is then left undone.
Shift(w) ==
    /\ pc[w] = "shift"
    /\ LET g == gen[w]
       IN /\ \/ /\ path' = IF path[g - 1] = 0 THEN path
                           ELSE [path EXCEPT ![g] = path[g - 1], ![g - 1] = 0]
                /\ UNCHANGED <<clean, failed>>
             \/ /\ path[g - 1] # 0
                /\ clean' = [clean EXCEPT ![w] = FALSE]
                /\ failed' = TRUE
                /\ UNCHANGED path
          /\ gen' = [gen EXCEPT ![w] = g - 1]
          /\ Step(w, IF g = 1 THEN "open" ELSE "shift")
    /\ UNCHANGED <<data, todo, line, opened, followVars, metricVars>>

\* The path is opened for appending and created when it is not there.
Open(w) ==
    /\ pc[w] = "open"
    /\ IF path[0] = 0
       THEN /\ data' = Append(data, <<>>)
            /\ path' = [path EXCEPT ![0] = Len(data) + 1]
            /\ opened' = [opened EXCEPT ![w] = Len(data) + 1]
       ELSE /\ opened' = [opened EXCEPT ![w] = path[0]]
            /\ UNCHANGED <<path, data>>
    /\ Step(w, "append")
    /\ UNCHANGED <<todo, line, gen, clean, failed, followVars, metricVars>>

\* write_batch returns; what it held is gone.
Return(w) ==
    /\ Step(w, "idle")
    /\ line' = [line EXCEPT ![w] = None]
    /\ opened' = [opened EXCEPT ![w] = 0]
    /\ gen' = [gen EXCEPT ![w] = 0]
    /\ clean' = [clean EXCEPT ![w] = FALSE]
    /\ UNCHANGED <<path, todo, failed, followVars, metricVars>>

\* The line goes to the file that was opened, whatever names it now.
AppendLine(w) ==
    /\ pc[w] = "append"
    /\ data' = [data EXCEPT ![opened[w]] = Append(@, line[w])]
    /\ Return(w)

\* The directory, the open or the write fails: the batch is dropped.
WriteFails(w) ==
    /\ pc[w] \in {"check", "open", "append"}
    /\ data' = data
    /\ Return(w)

-----------------------------------------------------------------------------
(* pentect log: LifecycleSource::read_new on the path                      *)

LinesAfter(f, n) == SubSeq(data[f], n + 1, Len(data[f]))

FollowOpen ==
    /\ fstep = "open"
    /\ ffile' = IF ffile = 0 THEN path[0] ELSE ffile
    /\ fstep' = "compare"
    /\ UNCHANGED <<path, data, writerVars, offset, shown, metricVars>>

\* Mutant: the file is recognised by its length.
ReplacedBySize == ffile # 0 /\ path[0] # 0 /\ Size(path[0]) # offset

\* same_file_identity: a path that names nothing counts as the same file.
Replaced == ffile # 0 /\ path[0] # 0 /\ path[0] # ffile

FollowCompare ==
    /\ fstep = "compare"
    /\ fstep' = IF Replaced THEN "reopen" ELSE "read"
    /\ UNCHANGED <<path, data, writerVars, ffile, offset, shown, metricVars>>

\* Mutant: the offset of the old file is kept.
FollowReopenKeepsOffset ==
    /\ fstep = "reopen"
    /\ ffile' = path[0]
    /\ fstep' = "read"
    /\ UNCHANGED <<path, data, writerVars, offset, shown, metricVars>>

FollowReopen ==
    /\ fstep = "reopen"
    /\ ffile' = path[0]
    /\ offset' = 0
    /\ fstep' = "read"
    /\ UNCHANGED <<path, data, writerVars, shown, metricVars>>

FollowRead ==
    /\ fstep = "read"
    /\ fstep' = "open"
    /\ IF ffile = 0
       THEN UNCHANGED <<offset, shown>>
       ELSE LET from == IF Len(data[ffile]) < offset THEN 0 ELSE offset
            IN /\ shown' = shown \o LinesAfter(ffile, from)
               /\ offset' = Len(data[ffile])
    /\ UNCHANGED <<path, data, writerVars, ffile, metricVars>>

-----------------------------------------------------------------------------
(* pentect metrics: read_metrics                                           *)

MetricsBegin ==
    /\ mgen = Rotations + 1
    /\ mgen' = Rotations
    /\ counted' = <<>>
    /\ UNCHANGED <<path, data, writerVars, followVars>>

\* Mutant: the generations are read from the youngest.
MetricsReadUp ==
    /\ mgen \in Generations
    /\ LET g == Rotations - mgen
       IN counted' = IF path[g] = 0 THEN counted ELSE counted \o data[path[g]]
    /\ mgen' = IF mgen = 0 THEN Rotations + 1 ELSE mgen - 1
    /\ UNCHANGED <<path, data, writerVars, followVars>>

\* aggregate_metrics_file of one generation; a missing file is skipped.
MetricsRead ==
    /\ mgen \in Generations
    /\ counted' = IF path[mgen] = 0 THEN counted ELSE counted \o data[path[mgen]]
    /\ mgen' = IF mgen = 0 THEN Rotations + 1 ELSE mgen - 1
    /\ UNCHANGED <<path, data, writerVars, followVars>>

Follow == FollowOpen \/ FollowCompare \/ FollowReopen \/ FollowRead

Next ==
    \/ \E w \in Writers : \/ \E l \in Lines : Take(w, l)
                          \/ Check(w) \/ Remove(w) \/ Shift(w) \/ Open(w)
                          \/ AppendLine(w) \/ WriteFails(w)
    \/ Follow
    \/ MetricsBegin \/ MetricsRead

\* The follower polls for ever; nothing else is promised to go on.
Spec == Init /\ [][Next]_vars /\ WF_vars(Follow)

-----------------------------------------------------------------------------
Distinct(s) == \A i, j \in 1 .. Len(s) : i # j => s[i] # s[j]

(* Writers that checked the size before each other's append exceed the     *)
(* limit of a file by at most one batch each, as long as renames succeed.  *)
SizeBounded ==
    ~failed => \A f \in 1 .. Len(data) : Len(data[f]) < MaxSize + Cardinality(Writers)

(* The follower returns no line twice, however the file is rotated under   *)
(* it: files only move to older names, so a replaced path is a new file.   *)
FollowedOnce == Distinct(shown)

(* One metrics report counts no line twice although generations move while *)
(* it reads: it reads from the oldest to the youngest, against the         *)
(* direction of the renames.                                               *)
CountedOnce == Distinct(counted)

(* A rotation costs the oldest generation only, no other file loses its    *)
(* name, unless another process rotated during it or a rename failed.      *)
Named(p) == {p[g] : g \in Generations} \ {0}
OldestOnly ==
    [][\A f \in Named(path) \ Named(path') :
          f = path[Rotations] \/ \E w \in Writers : pc[w] = "shift" /\ ~clean[w]]_vars

(* Once the writers are done, the follower has returned every line of the  *)
(* file that the path names, through however many rotations it got there.  *)
CaughtUp ==
    path[0] # 0 => \A i \in 1 .. Len(data[path[0]]) :
                      \E j \in 1 .. Len(shown) : shown[j] = data[path[0]][i]
FollowerCatchesUp == <>[]CaughtUp

-----------------------------------------------------------------------------
(* The inductive invariant behind FollowedOnce and CountedOnce             *)

At(f, i, l) == /\ f \in 1 .. Len(data)
               /\ i \in 1 .. Len(data[f])
               /\ data[f][i] = l

\* What a step of the loop has established for the next one.
Steps ==
    /\ \A w \in Writers : /\ pc[w] = "shift" => gen[w] >= 1
                          /\ pc[w] = "remove" => gen[w] = Rotations
                          /\ pc[w] = "append" => opened[w] >= 1
                          /\ pc[w] # "idle" => line[w] \in Lines
                          /\ pc[w] = "idle" => line[w] = None
    /\ fstep = "reopen" => ffile # 0 /\ path[0] # ffile
    /\ ffile = 0 => offset = 0
    /\ ffile # 0 => offset <= Len(data[ffile])

\* A line is still to be taken, in one writer's hands, or at one place of one
\* file.
WrittenOnce ==
    /\ \A l \in todo : \A f, i \in Nat : ~At(f, i, l)
    /\ \A w \in Writers : /\ line[w] \notin todo
                          /\ \A f, i \in Nat : ~At(f, i, line[w])
    /\ \A w, v \in Writers : line[w] = line[v] /\ line[w] # None => w = v
    /\ \A l \in Lines : \A f, g, i, j \in Nat : At(f, i, l) /\ At(g, j, l) => f = g /\ i = j

\* A file has at most one name.
OneName == \A g, h \in Generations : path[g] = path[h] /\ path[g] # 0 => g = h

\* A line that was counted is in no file that is still to be read.
CountedBehind ==
    \A k \in 1 .. Len(counted) :
        \E f, i \in Nat : /\ At(f, i, counted[k])
                          /\ mgen \in Generations => \A g \in 0 .. mgen : path[g] # f

\* A line that was shown is before the offset or in a file that the follower
\* has left and the path does not name.
ShownBehind ==
    \A k \in 1 .. Len(shown) :
        \E f, i \in Nat : /\ At(f, i, shown[k])
                          /\ IF f = ffile THEN i <= offset ELSE f # path[0]

IInv == /\ TypeOK /\ Steps /\ WrittenOnce /\ OneName
        /\ CountedBehind /\ ShownBehind
        /\ CountedOnce /\ FollowedOnce
-----------------------------------------------------------------------------
(* The invariant behind SizeBounded and OldestOnly                         *)

\* The writers that will append to file f unless they fail.
Bound(f) == {w \in Writers : \/ pc[w] = "open" /\ path[0] = f
                             \/ pc[w] = "append" /\ opened[w] = f}

\* A file has room, above the limit, for every writer that is bound for it.
RoomLeft ==
    ~failed => \A f \in 1 .. Len(data) :
                  Len(data[f]) + Cardinality(Bound(f)) < MaxSize + Cardinality(Writers)

\* A rotation that nothing disturbed is alone, and the name its next rename
\* takes is free unless it is the oldest.
Undisturbed ==
    \A w \in Writers : clean[w] =>
        /\ \A u \in Writers \ {w} : pc[u] \notin {"remove", "shift"}
        /\ pc[w] = "shift" => gen[w] = Rotations \/ path[gen[w]] = 0

RotationInv == RoomLeft /\ Undisturbed
=============================================================================
