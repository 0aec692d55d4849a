----------------------------- MODULE FrameFlow -----------------------------
(***************************************************************************)
(* The boxes between the modules of a tray (the frame handling of          *)
(* icetray/private/icetray/I3Module.cxx).  A flow is a record              *)
(*   target - outboxes_: the module each outbox is connected to            *)
(*   inbox  - inbox_: the outbox whose fifo a module reads                 *)
(*   fifo   - the fifo of each outbox, oldest frame first                  *)
(*   mixer  - cachemap_: the parent cache of each outbox                   *)
(*   heap   - the I3Frame objects; fifos hold references (indices) to      *)
(*            them, so that two outboxes may share one frame               *)
(* A frame has its stream, an identity standing for its own keys, and the  *)
(* set of the frames whose keys have been mixed into it.  An outbox is a   *)
(* pair of a module and the outbox's name.                                 *)
(***************************************************************************)
EXTENDS Integers, Sequences, SequencesExt, FrameMixing

CONSTANTS Modules,   \* the modules a program may add
          OutBoxes,  \* their outboxes, in the order of the map outboxes_
          None       \* no module, no outbox

Boxes == UNION {{<<m, b>> : b \in ToSet(OutBoxes[m])} : m \in Modules}

\* Module names are not box names, and a module has an outbox only once.
ASSUME FrameFlowAssumption ==
  /\ None \notin Modules \cup Boxes
  /\ OutBoxes \in [Modules -> Seq(STRING)]
  /\ \A m \in Modules : \A i, j \in DOMAIN OutBoxes[m] :
       OutBoxes[m][i] = OutBoxes[m][j] => i = j

NoFlow == [target |-> [x \in Boxes |-> None], inbox |-> [m \in Modules |-> None],
           fifo |-> [x \in Boxes |-> <<>>], mixer |-> [x \in Boxes |-> <<>>],
           heap |-> <<>>]

\* What a frame is apart from the keys mixed into it.
Native(frame) == [stop |-> frame.stop, id |-> frame.id]

Natives == [stop : STRING, id : Nat]

FrameTypeOK(frame) ==
  /\ Native(frame) \in Natives
  /\ frame = [stop |-> frame.stop, id |-> frame.id, mixed |-> frame.mixed]

\* Types; the references in the fifos are to frames there are.
FlowTypeOK(fl) ==
  /\ fl = [target |-> fl.target, inbox |-> fl.inbox, fifo |-> fl.fifo,
           mixer |-> fl.mixer, heap |-> fl.heap]
  /\ fl.target \in [Boxes -> Modules \cup {None}]
  /\ fl.inbox \in [Modules -> Boxes \cup {None}]
  /\ Len(fl.heap) \in Nat
  /\ fl.heap = [r \in 1 .. Len(fl.heap) |-> fl.heap[r]]
  /\ \A r \in 1 .. Len(fl.heap) : FrameTypeOK(fl.heap[r])
  /\ fl.fifo \in [Boxes -> Seq(1 .. Len(fl.heap))]
  /\ fl.mixer = [x \in Boxes |-> fl.mixer[x]]

HasInBox(fl, m) == fl.inbox[m] # None

\* The target reads this fifo from now on, whatever it was connected to.
ConnectOutBox(fl, m, box, to) ==
  [fl EXCEPT !.target[<<m, box>>] = to, !.inbox[to] = <<m, box>>]

\* The references waiting in a module's inbox.
Waiting(fl, m) == IF HasInBox(fl, m) THEN fl.fifo[fl.inbox[m]] ELSE <<>>

PeekFrame(fl, m) == Head(Waiting(fl, m))

PopFrame(fl, m) == [fl EXCEPT !.fifo[fl.inbox[m]] = Tail(@)]

\* A new frame object; its reference is the last of the heap.
NewFrame(fl, frame) == [fl EXCEPT !.heap = Append(@, frame)]

Ids(frames) == {frames[i].id : i \in DOMAIN frames}

\* Mutant of SyncCache: the keys mixed before are not purged.
SyncCacheUnpurged(fl, x, ref) ==
  LET frame   == fl.heap[ref]
      parents == UpdateDependencies(fl.mixer[x], FALSE, Native(frame))
  IN  [fl EXCEPT !.mixer[x] = parents,
                 !.heap[ref].mixed =
                   @ \cup Ids(GetMixedFrames(parents, FALSE, frame.stop))]

\* SyncCache and I3FrameMixer::Mix: purge the frame of what was mixed into
\* it, remember it as a parent, and merge the other parents.
SyncCache(fl, x, ref) ==
  LET frame   == fl.heap[ref]
      parents == UpdateDependencies(fl.mixer[x], FALSE, Native(frame))
  IN  [fl EXCEPT !.mixer[x] = parents,
                 !.heap[ref].mixed = Ids(GetMixedFrames(parents, FALSE, frame.stop))]

\* PushFrame to one outbox, provided it goes somewhere.
PushFrame(fl, x, ref) ==
  IF fl.target[x] = None THEN fl
  ELSE [SyncCache(fl, x, ref) EXCEPT !.fifo[x] = Append(@, ref)]

\* One push for each outbox of a module.
ToEach(m, ref) == [k \in DOMAIN OutBoxes[m] |-> [box |-> <<m, OutBoxes[m][k]>>, ref |-> ref]]

PushTo(fl, push) == PushFrame(fl, push.box, push.ref)
Pushing == INSTANCE SeqFold WITH Op <- PushTo

\* PushFrame to all outboxes: they share the frame, each mixes into it.
PushToAll(fl, m, ref) == Pushing!Fold(fl, ToEach(m, ref))

PushOn(fl, push) == PushToAll(fl, push.mod, push.ref)
PushingOn == INSTANCE SeqFold WITH Op <- PushOn

\* All frames of a queue to all outboxes.
PushEach(fl, m, refs) ==
  PushingOn!Fold(fl, [i \in DOMAIN refs |-> [mod |-> m, ref |-> refs[i]]])

CopyTo(fl, push) == PushFrame(NewFrame(fl, fl.heap[push.ref]), push.box, Len(fl.heap) + 1)
Copying == INSTANCE SeqFold WITH Op <- CopyTo

\* Fork::Process: a copy of the frame for each outbox.
PushCopies(fl, m, ref) == Copying!Fold(fl, ToEach(m, ref))
=============================================================================
