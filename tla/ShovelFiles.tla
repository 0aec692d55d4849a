---------------------------- MODULE ShovelFiles ----------------------------
(***************************************************************************)
(* raw::File and raw::FileGroup of steamshovel (private/shovelio/File.cpp, *)
(* private/shovelio/FileGroup.cpp): random access to the frames of several *)
(* files.  A file is a record                                              *)
(*   data     - the frames in it                                           *)
(*   type     - "Seekable", "MultiPass", "SinglePass" or "Empty"           *)
(*   pos      - pos_, in frames (bytes for a seekable file)                *)
(*   has_size - whether size_ is known; it is Len(data) then               *)
(* and a group a record of the files and the current one, counted from 1;  *)
(* positions in the group count through all its files.  The stream of a    *)
(* file that has met its end is reopened before it is moved back, which    *)
(* makes no difference to what is read.                                    *)
(***************************************************************************)
EXTENDS Integers, Sequences, SequencesExt, FrameMixing, Eager

OpenFile(data, type) == [data |-> data, type |-> type, pos |-> 0,
                         has_size |-> type \in {"Seekable", "Empty"}]

NoFiles == [files |-> <<>>, current |-> 1]

AddFileTo(g, file) == [g EXCEPT !.files = Append(@, file)]

CloseLastOf(g) ==
  LET rest == Front(g.files)
  IN  [files |-> rest,
       current |-> IF g.current > Len(rest) THEN Len(rest) + 1 ELSE g.current]

HasSize(g) == \A i \in DOMAIN g.files : g.files[i].has_size

\* The size of the first n files.
SizeOf(g, n) == FoldLeft(LAMBDA sum, f : sum + Len(f.data), 0, SubSeq(g.files, 1, n))

GetSize(g) == SizeOf(g, Len(g.files))

CurrentStreamPos(g) ==
  SizeOf(g, g.current - 1) +
    IF g.current \in DOMAIN g.files THEN g.files[g.current].pos ELSE 0

\* What a read of the frame after the first n leaves behind: the position,
\* and the size once the end is in sight.
MovedTo(f, n) ==
  IF n < Len(f.data)
  THEN [f EXCEPT !.pos = n + 1, !.has_size = @ \/ n + 1 = Len(f.data)]
  ELSE [f EXCEPT !.pos = Len(f.data), !.has_size = TRUE]

\* Reads return whether they found a frame, and the group.
Failed(g) == [ok |-> FALSE, group |-> g]
FrameRead(g) == g.files[g.current].data[g.files[g.current].pos]

\* The files that Next does not pass by: those not at their ends, and one it must
\* not read fast.
Stops(g, fast) ==
  {i \in DOMAIN g.files :
     /\ i >= g.current
     /\ \/ g.files[i].pos < Len(g.files[i].data)
        \/ fast /\ g.files[i].type = "SinglePass"}

First(indices) == CHOOSE i \in indices : \A j \in indices : i <= j

NextFrame(g, fast) ==
  IF Stops(g, fast) = {} THEN Failed([g EXCEPT !.current = Len(g.files) + 1])
  ELSE With(First(Stops(g, fast)), LAMBDA i :
         IF fast /\ g.files[i].type = "SinglePass"
         THEN Failed([g EXCEPT !.current = i])
         ELSE [ok |-> TRUE,
               group |-> [files |-> [g.files EXCEPT ![i] = MovedTo(@, @.pos)],
                          current |-> i]])

\* The files that may hold the position, by what is known of their sizes.
Reaching(g, pos) ==
  {i \in DOMAIN g.files : ~g.files[i].has_size \/ pos < SizeOf(g, i)}

\* Moving file i of the group to a position in it.
MoveFile(g, i, f, at) ==
  IF f.type = "SinglePass" /\ (f.pos > at \/ (f.has_size /\ at >= Len(f.data)))
  THEN Failed([g EXCEPT !.current = i])
  ELSE [ok |-> at < Len(f.data),
        group |-> [files |-> [g.files EXCEPT ![i] = MovedTo(f, at)], current |-> i]]

AtStreamPos(g, pos) ==
  With(Reaching(g, pos), LAMBDA reaching :
    IF reaching = {} THEN Failed([g EXCEPT !.current = Len(g.files) + 1])
    ELSE With(First(reaching), LAMBDA i :
           With(pos - SizeOf(g, i - 1), LAMBDA at : MoveFile(g, i, g.files[i], at))))
=============================================================================
