------------------------- MODULE FrameSequenceSpec -------------------------
(***************************************************************************)
(* What dataio::I3FrameSequence promises (dataio/public/dataio/            *)
(* I3FrameSequence.h): "access multiple files as if it was one large       *)
(* sequence of frames".  The state is the list of open files, a position   *)
(* and the answer to the last call.                                        *)
(***************************************************************************)
EXTENDS Integers, Sequences, SequencesExt, FrameMixing

CONSTANTS FileData,      \* the contents of files a client may open
          InitialFiles,  \* the files given to the constructor
          StreamArgs,    \* stream arguments of pop_frame; AnyStream is None
          Fatal          \* what a call answers that ends in log_fatal

VARIABLES files,   \* the open files, each the sequence of its frames
          pos,     \* the index of the next frame
          answer   \* the call last returned from, with its result

specVars == <<files, pos, answer>>

AnyStream == "None"

Matches(stream, frame) == stream = AnyStream \/ frame.stop = stream

JoinFile(frames, file) == frames \o file

Joining == INSTANCE SeqFold WITH Op <- JoinFile

\* The frames of all files, one after the other.
Joined(fs) == Joining!Fold(<<>>, fs)

\* The frame at an index of a sequence of files, preceded by its parents in
\* the order in which they appeared; empty beyond the end.
FramesAt(fs, index) ==
  LET all == Joined(fs)
  IN  IF index >= Len(all)
      THEN <<>>
      ELSE LET frame == all[index + 1]
               seen  == ParentsAfter(TRUE, SubSeq(all, 1, index + 1))
           IN  Append(GetMixedFrames(seen, TRUE, frame.stop), frame)

Length(fs) == Len(Joined(fs))

SpecInit == /\ files = InitialFiles
            /\ pos = 0
            /\ answer = [op |-> "done"]

SpecAdd(data) == /\ files' = Append(files, data)
                 /\ answer' = [op |-> "done"]
                 /\ UNCHANGED pos

SpecClose == /\ files' = <<>>
             /\ pos' = 0
             /\ answer' = [op |-> "close"]

SpecRewind == /\ pos' = 0
              /\ answer' = [op |-> "done"]
              /\ UNCHANGED files

SpecSeek == /\ pos' \in Nat
            /\ answer' = [op |-> "done"]
            /\ UNCHANGED files

SpecMore == /\ answer' = [op |-> "more", index |-> pos, value |-> pos < Length(files)]
            /\ UNCHANGED <<files, pos>>

\* The next frame of the stream, or log_fatal with the sequence exhausted.
SpecPop(stream) ==
  LET all  == Joined(files)
      next == {i \in pos .. Len(all) - 1 : Matches(stream, all[i + 1])}
      i    == CHOOSE i \in next : \A j \in next : i <= j
  IN  /\ IF next # {}
         THEN /\ pos' = i + 1
              /\ answer' = [op |-> "pop", index |-> i, value |-> FramesAt(files, i)]
         ELSE /\ pos' = IF pos > Len(all) THEN pos ELSE Len(all)
              /\ answer' = [op |-> "pop", index |-> pos', value |-> Fatal]
      /\ UNCHANGED files

\* get_current_frame_and_deps: the frame before the position, if still at hand.
SpecCurrent ==
  /\ \E value \in {Fatal, IF pos = 0 THEN <<>> ELSE FramesAt(files, pos - 1)} :
       answer' = [op |-> "current", index |-> pos - 1, value |-> value]
  /\ UNCHANGED <<files, pos>>

SpecNext == \/ \E data \in FileData : SpecAdd(data)
            \/ SpecClose
            \/ SpecRewind
            \/ SpecSeek
            \/ SpecMore
            \/ \E stream \in StreamArgs : SpecPop(stream)
            \/ SpecCurrent

Spec == SpecInit /\ [][SpecNext]_specVars
=============================================================================
