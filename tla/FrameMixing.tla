---------------------------- MODULE FrameMixing ----------------------------
(***************************************************************************)
(* I3FrameMixer (icetray/private/icetray/I3FrameMixing.cxx): the cache of  *)
(* parent frames that every outbox of a module, every I3File and every     *)
(* FileGroup keeps, and the mixing of parents into later frames.           *)
(*                                                                         *)
(* A frame is a record with at least a field stop, its stream.  The cache  *)
(* is a sequence of frames with at most one frame per stream.  Everything  *)
(* here is a pure operator of the cache; the modules that own a mixer keep *)
(* it in their own state.                                                  *)
(***************************************************************************)
EXTENDS Naturals, Sequences, SequencesExt

\* Streams whose frames are never parents: TrayInfo and Physics.
Immiscible == {"I", "P"}

HasStop(parents, stop) == \E i \in DOMAIN parents : parents[i].stop = stop

KeepOther(acc, parent) ==
  IF parent.stop = acc.stop THEN acc ELSE [acc EXCEPT !.kept = Append(@, parent)]

Sifting == INSTANCE SeqFold WITH Op <- KeepOther

\* The parents that are not of the given stream, in cache order.
Others(parents, stop) == Sifting!Fold([stop |-> stop, kept |-> <<>>], parents).kept

\* UpdateDependenciesImpl: remember the frame as the latest of its stream.
\* With order tracking its entry moves to the end, without it is overwritten
\* where it is.
UpdateDependencies(parents, trackOrder, frame) ==
  IF frame.stop \in Immiscible
  THEN parents
  ELSE IF trackOrder \/ ~HasStop(parents, frame.stop)
       THEN Append(Others(parents, frame.stop), frame)
       ELSE [i \in DOMAIN parents |->
               IF parents[i].stop = frame.stop THEN frame ELSE parents[i]]

\* GetMixedFrames: with order tracking the parents seen before the entry of
\* the stream, otherwise all parents but that entry.
GetMixedFrames(parents, trackOrder, stop) ==
  IF trackOrder /\ HasStop(parents, stop)
  THEN SubSeq(parents, 1, SelectInSeq(parents, LAMBDA p : p.stop = stop) - 1)
  ELSE Others(parents, stop)

\* One more frame; the mixer knows whether its cache tracks the order.
KeepParent(mixer, frame) ==
  [mixer EXCEPT !.parents = UpdateDependencies(@, mixer.ordered, frame)]

Keeping == INSTANCE SeqFold WITH Op <- KeepParent

\* The cache after it has seen further frames, and after seeing only them.
Mixed(parents, trackOrder, frames) ==
  Keeping!Fold([ordered |-> trackOrder, parents |-> parents], frames).parents

ParentsAfter(trackOrder, frames) == Mixed(<<>>, trackOrder, frames)
=============================================================================
