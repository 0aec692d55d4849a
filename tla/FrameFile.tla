----------------------------- MODULE FrameFile -----------------------------
(***************************************************************************)
(* dataio::I3File in read mode with mixing disabled, the way FileGroup     *)
(* uses it (dataio/private/dataio/I3File.cxx).  A file is a record         *)
(*   data    - the frames stored in the file                               *)
(*   pos     - how many of them the input stream has really delivered      *)
(*   frameno - frameno_, the program's own count of frames read            *)
(*   size    - size_, the largest frameno_ ever seen                       *)
(* pos and frameno are kept apart because the copy constructor and the     *)
(* seek arithmetic let them drift from each other.  curr_frame_ is the     *)
(* frame at pos and the mixer cache_ holds the dependencies of the first   *)
(* pos frames, since close() resets it; both are therefore operators.      *)
(***************************************************************************)
EXTENDS Integers, Sequences, FrameMixing

\* A freshly opened file: nothing read (an empty or missing file has no data).
OpenFile(data) == [data |-> data, pos |-> 0, frameno |-> 0, size |-> 0]

FileMore(f) == f.pos < Len(f.data)

FileRewind(f) == [f EXCEPT !.pos = 0, !.frameno = 0]

\* Load n further frames; every load counts frameno_ up and raises size_.
FileRead(f, n) ==
  [f EXCEPT !.pos = @ + n, !.frameno = @ + n,
            !.size = IF n > 0 /\ f.frameno + n > @ THEN f.frameno + n ELSE @]

FileReadAtMost(f, n) ==
  FileRead(f, IF n <= Len(f.data) - f.pos THEN n ELSE Len(f.data) - f.pos)

\* The outcome of an operation that may end in log_fatal half way.
Outcome(ok, f) == [ok |-> ok, file |-> f]

\* pop_frame without a stream: fatal at the end of the file.
FilePop(f) == IF FileMore(f) THEN Outcome(TRUE, FileRead(f, 1))
                             ELSE Outcome(FALSE, f)

\* skip_frames: loads as many as there are, fatal if there were too few.
SkipFrames(f, n) == Outcome(n <= Len(f.data) - f.pos, FileReadAtMost(f, n))

\* seek: note the "- 1", which leaves the stream one frame short of the index
\* unless the index is the next frame already.
FileSeek(f, index) ==
  LET g == IF index < f.frameno THEN FileRewind(f) ELSE f
      s == SkipFrames(g, index - g.frameno - 1)
  IN  IF index = g.frameno THEN Outcome(TRUE, g)
                           ELSE Outcome(s.ok /\ FileMore(s.file), s.file)

FileSeekAndPop(f, index) ==
  CHOOSE r \in {IF s.ok THEN FilePop(s.file) ELSE s : s \in {FileSeek(f, index)}} : TRUE

\* The copy constructor: reopens the path and skips frameno_ frames, counting
\* them on top of the frameno_ it has copied.
FileCopy(f) == SkipFrames([f EXCEPT !.pos = 0], f.frameno)

\* get_current_frame_and_deps: the parents of the current frame and itself.
CurrentAndDeps(f) ==
  IF f.pos = 0
  THEN <<>>
  ELSE LET read == SubSeq(f.data, 1, f.pos)
           curr == f.data[f.pos]
       IN  Append(GetMixedFrames(ParentsAfter(TRUE, read), TRUE, curr.stop), curr)
=============================================================================
