----------------------------- MODULE FileGroup -----------------------------
(***************************************************************************)
(* The anonymous-namespace FileGroup of dataio/private/dataio/             *)
(* I3FrameSequence.cxx: several files read as one sequence of frames.  All *)
(* its members hold the group's mutex for the whole call, so each is one   *)
(* atomic operator here.  A group is a record                              *)
(*   files    - the FileStructs: a FrameFile record with has_size          *)
(*   capacity - capacity of the std::vector holding them; growing it       *)
(*              copies every FileStruct, and so every I3File               *)
(* last_frames is the current frame and its dependencies at the moment     *)
(* has_size was set, which is the end of the file.                         *)
(***************************************************************************)
EXTENDS Integers, Sequences, SequencesExt, FrameFile

NewFileStruct(data) == [data |-> data, pos |-> 0, frameno |-> 0, size |-> 0, has_size |-> FALSE]

LastFrames(f) == CurrentAndDeps([f EXCEPT !.pos = Len(f.data)])

\* The growth of std::vector in libstdc++: an exhausted vector doubles.
Grown(capacity) == IF capacity = 0 THEN 1 ELSE 2 * capacity

\* The constructor from a list of paths: nothing has been read when the
\* vector grows, so the copies are harmless and only the capacity remains.
NewGroup(datas) ==
  [files    |-> [i \in DOMAIN datas |-> NewFileStruct(datas[i])],
   capacity |-> FoldLeft(LAMBDA cap, i : IF cap < i THEN Grown(cap) ELSE cap,
                         0, [i \in DOMAIN datas |-> i])]

\* add: emplace_back.  If a copy fails the old vector is left untouched.
AddToGroup(g, data) ==
  LET grows  == Len(g.files) = g.capacity
      copies == [i \in DOMAIN g.files |-> FileCopy(g.files[i])]
  IN  IF ~grows
      THEN [ok |-> TRUE, group |-> [g EXCEPT !.files = Append(@, NewFileStruct(data))]]
      ELSE IF \E i \in DOMAIN copies : ~copies[i].ok
      THEN [ok |-> FALSE, group |-> g]
      ELSE [ok |-> TRUE,
            group |-> [files |-> Append([i \in DOMAIN copies |-> copies[i].file],
                                        NewFileStruct(data)),
                       capacity |-> Grown(g.capacity)]]

ClearGroup(g) == [g EXCEPT !.files = <<>>]

RemoveLastFile(g) == [g EXCEPT !.files = Front(@)]

(***************************************************************************)
(* get_frame, as a fold over the files.  The accumulator carries the files *)
(* already visited, the index relative to the current file, the parents of *)
(* the local mixer and the outcome once one of the files settled it.       *)
(***************************************************************************)
Search(index) == [files |-> <<>>, index |-> index, parents |-> <<>>,
                  done |-> FALSE, ok |-> TRUE, frames |-> <<>>]

Visited(acc, f) == [acc EXCEPT !.files = Append(@, f)]

\* log_fatal or a failed i3_assert while looking into file f.
Failed(acc, f) == [Visited(acc, f) EXCEPT !.done = TRUE, !.ok = FALSE]

\* The current frame of f is the one: mix its dependencies over the parents.
WithParents(parents, frames) ==
  Append(GetMixedFrames(Mixed(parents, TRUE, frames), TRUE, Last(frames).stop), Last(frames))

Found(acc, f) ==
  [Visited(acc, f) EXCEPT !.done = TRUE,
                          !.frames = WithParents(acc.parents, CurrentAndDeps(f))]

\* Mutant of Beyond: the parents in the files passed by are forgotten.
BeyondUnmixed(acc, f) ==
  IF f.size > acc.index
  THEN Failed(acc, f)
  ELSE [Visited(acc, f) EXCEPT !.index = @ - f.size]

\* The index lies beyond f: mix its last frames and go on with the next file.
Beyond(acc, f) ==
  IF f.size > acc.index
  THEN Failed(acc, f)
  ELSE [Visited(acc, f) EXCEPT !.index = @ - f.size,
                               !.parents = Mixed(acc.parents, TRUE, LastFrames(f))]

\* A file whose size is known: skip it, pass beyond it, or seek in it and pop.
SearchSized(acc, f) ==
  IF f.size = 0 THEN Visited(acc, f)
  ELSE IF f.size <= acc.index THEN Beyond(acc, f)
  ELSE CHOOSE r \in {IF p.ok THEN Found(acc, p.file) ELSE Failed(acc, p.file) :
                       p \in {FileSeekAndPop(f, acc.index)}} : TRUE

\* A file not read to its end so far: rewind if the index lies behind, then
\* read on up to the index or to the end of the file.
ReadTowards(f, index) ==
  IF index < f.frameno - 1
  THEN FileReadAtMost(FileRewind(f), index + 1)
  ELSE FileReadAtMost(f, index + 1 - f.frameno)

\* Mutant of SearchUnsized: the size counts as known once a frame is found.
SearchUnsizedEarly(acc, f) ==
  CHOOSE r \in {IF acc.index = g.frameno - 1 THEN Found(acc, [g EXCEPT !.has_size = TRUE])
                 ELSE IF g.size = 0 THEN Visited(acc, [g EXCEPT !.has_size = TRUE])
                 ELSE Beyond(acc, [g EXCEPT !.has_size = TRUE]) :
                  g \in {ReadTowards(f, acc.index)}} : TRUE

SearchUnsized(acc, f) ==
  CHOOSE r \in {IF acc.index = g.frameno - 1 THEN Found(acc, g)
                 ELSE IF g.size = 0 THEN Visited(acc, [g EXCEPT !.has_size = TRUE])
                 ELSE Beyond(acc, [g EXCEPT !.has_size = TRUE]) :
                  g \in {ReadTowards(f, acc.index)}} : TRUE

SearchFile(acc, f) == IF acc.done THEN Visited(acc, f)
                      ELSE IF f.has_size THEN SearchSized(acc, f)
                      ELSE SearchUnsized(acc, f)

Searching == INSTANCE SeqFold WITH Op <- SearchFile

GetFrame(g, index) ==
  CHOOSE r \in {[ok |-> end.ok, frames |-> end.frames,
                 group |-> [g EXCEPT !.files = end.files]] :
                 end \in {Searching!Fold(Search(index), g.files)}} : TRUE

CountFile(acc, f) ==
  IF acc.open THEN [size |-> acc.size + f.size, open |-> f.has_size] ELSE acc

Counting == INSTANCE SeqFold WITH Op <- CountFile

\* get_cur_size: the sizes up to and including the first unfinished file.
GetCurSize(g) == Counting!Fold([size |-> 0, open |-> TRUE], g.files).size

AddSize(sum, f) == sum + f.size

Summing == INSTANCE SeqFold WITH Op <- AddSize

\* get_size: the sum of the sizes, or -1 while any of them is unknown.
GetSize(g) ==
  IF \E i \in DOMAIN g.files : ~g.files[i].has_size
  THEN -1
  ELSE Summing!Fold(0, g.files)
=============================================================================
