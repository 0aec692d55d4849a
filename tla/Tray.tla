-------------------------------- MODULE Tray --------------------------------
(***************************************************************************)
(* I3Tray: adding and connecting modules, Configure and Execute            *)
(* (icetray/private/icetray/I3Tray.cxx), and the depth-first walk of       *)
(* I3Module::Do that moves frames from module to module                    *)
(* (icetray/private/icetray/I3Module.cxx).  Everything runs on one thread; *)
(* what interleaves with it are the signals that ask Execute to stop.      *)
(*                                                                         *)
(* Do calls itself through the outboxes, so its calls are kept on an       *)
(* explicit stack.  What one module's Process or Finish does is one step.  *)
(***************************************************************************)
EXTENDS FrameFlow, FiniteSets

CONSTANTS Kind,           \* the class of each module
          Wires,          \* bound: the <<from, box, to>> given to ConnectBoxes
          WiredOrder,     \* bound: the order of the modules of a program that does so
          Counts,         \* bound: arguments of Execute; Forever is no argument
          Script,         \* the streams of the frames in the reader's files
          FilterStreams,  \* the streams a filter function fires on
          Faulty,         \* the modules that may throw at any time
          Moves           \* bound: whether the program calls MoveModule

Forever == -1

Kinds == {"reader", "base", "filter", "fork", "packet", "trash"}

\* A reader has the outbox its constructor adds, and there is one at most;
\* the connections asked for are between outboxes and modules.
ASSUME TrayAssumption ==
  /\ Kind \in [Modules -> Kinds]
  /\ \A m \in Modules : Kind[m] = "reader" => OutBoxes[m] = <<"OutBox">>
  /\ \A m, n \in Modules : Kind[m] = "reader" /\ Kind[n] = "reader" => m = n
  /\ \A w \in Wires : w = <<w[1], w[2], w[3]>> /\ <<w[1], w[2]>> \in Boxes /\ w[3] \in Modules
  /\ Counts \subseteq Nat \cup {Forever}
  /\ Script \in Seq(STRING)

VARIABLES
  order,                 \* modules_in_order
  boxes_connected,       \* whether ConnectBoxes was called
  configure_called,
  execute_called,
  suspension_requested,  \* set by a module
  global_suspension,     \* global_suspension_requested, set by a signal
  interrupted,           \* SIGINT came: the next one ends the process
  phase,                 \* where Execute is: not running, looping, finishing
  left,                  \* iterations of the loop left
  driving,               \* driving_module
  result,                \* how Execute ended
  stack,                 \* the calls of Do, innermost last
  flow,                  \* the boxes between the modules
  queue,                 \* queue_ of each packet module
  read,                  \* how many frames the reader has pushed
  seen,                  \* history: the frames each module took from its inbox
  finished               \* history: how often Finish ran on each module

setup == <<order, boxes_connected, configure_called, execute_called, driving>>
signals == <<global_suspension, interrupted>>
history == <<seen, finished>>
vars == <<setup, suspension_requested, signals, phase, left, result, stack,
          flow, queue, read, history>>

Init == /\ order = <<>>
        /\ boxes_connected = FALSE
        /\ configure_called = FALSE
        /\ execute_called = FALSE
        /\ suspension_requested = FALSE
        /\ global_suspension = FALSE
        /\ interrupted = FALSE
        /\ phase = "idle"
        /\ left = 0
        /\ driving = None
        /\ result = "none"
        /\ stack = <<>>
        /\ flow = NoFlow
        /\ queue = [m \in Modules |-> <<>>]
        /\ read = 0
        /\ seen = [m \in Modules |-> <<>>]
        /\ finished = [m \in Modules |-> 0]

-----------------------------------------------------------------------------
(* Setting the tray up.  Calls that log_fatal leave the tray as it is and   *)
(* are not actions, except for what they change before they fail.  The      *)
(* wiring is of no interest any more once Execute has been called, which    *)
(* happens once.                                                            *)

\* Once boxes are connected explicitly the order only decides which module is
\* looked at first; a single order will do.
WithinBound(connected, modules) == connected => IsPrefix(modules, WiredOrder)

AddModule(m) ==
  /\ phase = "idle"
  /\ ~configure_called
  /\ m \notin ToSet(order)
  /\ order' = Append(order, m)
  /\ WithinBound(boxes_connected, order')
  /\ UNCHANGED <<boxes_connected, configure_called, execute_called, driving,
                 suspension_requested, signals, phase, left, result, stack,
                 flow, queue, read, history>>

Place(modules, m) == CHOOSE i \in DOMAIN modules : modules[i] = m

\* Erase, find the anchor again and insert.  Without an anchor, because it
\* was the module itself, the module goes to the end.
Moved(m, anchor, after) ==
  LET rest == RemoveAt(order, Place(order, m))
  IN  IF anchor = m
      THEN Append(rest, m)
      ELSE InsertAt(rest, Place(rest, anchor) + (IF after THEN 1 ELSE 0), m)

MoveModule(m, anchor, after) ==
  /\ Moves
  /\ phase = "idle"
  /\ ~execute_called
  /\ {m, anchor} \subseteq ToSet(order)
  /\ order' = Moved(m, anchor, after)
  /\ WithinBound(boxes_connected, order')
  /\ UNCHANGED <<boxes_connected, configure_called, execute_called, driving,
                 suspension_requested, signals, phase, left, result, stack,
                 flow, queue, read, history>>

\* The flag is set even if one of the modules turns out not to exist.
ConnectBoxes(from, box, to) ==
  /\ phase = "idle"
  /\ ~execute_called
  /\ boxes_connected' = TRUE
  /\ WithinBound(TRUE, order)
  /\ flow' = IF {from, to} \subseteq ToSet(order)
             THEN ConnectOutBox(flow, from, box, to) ELSE flow
  /\ UNCHANGED <<order, configure_called, execute_called, driving,
                 suspension_requested, signals, phase, left, result, stack,
                 queue, read, history>>

-----------------------------------------------------------------------------
(* Configure, called by Execute.                                            *)

HasOutBox(m, box) == box \in ToSet(OutBoxes[m])

\* How many modules of the straight line get connected to their successor:
\* all but the last, or those before the first one without an "OutBox".
Connectable == {i \in 1 .. Len(order) - 1 : \A j \in 1 .. i : HasOutBox(order[j], "OutBox")}

Line == {<<order[i], "OutBox", order[i + 1]>> : i \in Connectable}

\* What Line's calls of ConnectOutBox do together.
InALine ==
  [flow EXCEPT
     !.target = [x \in Boxes |-> IF \E w \in Line : x = <<w[1], w[2]>>
                                 THEN (CHOOSE w \in Line : x = <<w[1], w[2]>>)[3] ELSE @[x]],
     !.inbox  = [m \in Modules |-> IF \E w \in Line : m = w[3]
                                   THEN LET w == CHOOSE v \in Line : m = v[3]
                                        IN  <<w[1], w[2]>>
                                   ELSE @[m]]]

Connected == IF boxes_connected THEN flow ELSE InALine

Inboxless(fl) == {m \in ToSet(order) : ~HasInBox(fl, m)}

\* No module, a gap in the line, or not exactly one module without an inbox.
ConfigureFails(fl) ==
  \/ order = <<>>
  \/ ~boxes_connected /\ Connectable # 1 .. Len(order) - 1
  \/ \A m \in Modules : Inboxless(fl) # {m}

\* A second call is ignored, also after a first that failed.
Execute(count) ==
  /\ phase = "idle"
  /\ ~execute_called
  /\ execute_called' = TRUE
  /\ configure_called' = (order # <<>>)
  /\ flow' = Connected
  /\ IF ConfigureFails(flow')
     THEN /\ result' = "fatal"
          /\ UNCHANGED <<phase, left, driving>>
     ELSE /\ phase' = "looping"
          /\ left' = count
          /\ driving' \in Inboxless(flow')
          /\ UNCHANGED result
  /\ UNCHANGED <<order, boxes_connected, suspension_requested, signals, stack,
                 queue, read, history>>

-----------------------------------------------------------------------------
(* The loop of Execute.                                                     *)

Call(m, op) == [mod |-> m, op |-> op, box |-> 0]

\* Mutant of KeepLooping: the signal's flag is not looked at.
KeepLoopingOn == left # 0 /\ ~suspension_requested

KeepLooping == left # 0 /\ ~suspension_requested /\ ~global_suspension

Dispatch ==
  /\ phase = "looping"
  /\ stack = <<>>
  /\ KeepLooping
  /\ left' = IF left = Forever THEN left ELSE left - 1
  /\ stack' = <<Call(driving, "process")>>
  /\ UNCHANGED <<setup, suspension_requested, signals, phase, result, flow,
                 queue, read, history>>

BeginFinish ==
  /\ phase = "looping"
  /\ stack = <<>>
  /\ ~KeepLooping
  /\ phase' = "finishing"
  /\ stack' = <<Call(driving, "finish")>>
  /\ UNCHANGED <<setup, suspension_requested, signals, left, result, flow,
                 queue, read, history>>

\* With a signal seen by now the caller gets a sigint_exception.
Return ==
  /\ phase = "finishing"
  /\ stack = <<>>
  /\ phase' = "idle"
  /\ result' = IF global_suspension THEN "sigint" ELSE "returned"
  /\ UNCHANGED <<setup, suspension_requested, signals, left, stack, flow,
                 queue, read, history>>

\* Modules that cannot do without a frame, and a reader that finds one.
Misplaced(m) == IF Waiting(flow, m) = <<>> THEN Kind[m] \in {"filter", "fork", "packet"}
                                          ELSE Kind[m] = "reader"

\* A module throws; nobody up to the caller of Execute catches it.  (Fork
\* without a frame dereferences a null pointer, which ends the run as well.)
Throw ==
  /\ stack # <<>>
  /\ LET top == Last(stack)
     IN  /\ top.box = 0
         /\ top.mod \in Faulty \/ (top.op = "process" /\ Misplaced(top.mod))
  /\ phase' = "idle"
  /\ result' = "fatal"
  /\ stack' = <<>>
  /\ UNCHANGED <<setup, suspension_requested, signals, left, flow, queue,
                 read, history>>

-----------------------------------------------------------------------------
(* Do on module m: first its own Process or Finish, then one look after     *)
(* the other at each outbox in turn.                                        *)

Looking(box) == [stack EXCEPT ![Len(stack)].box = box]

\* m, of the class kind, is about to process.
Processing(m, kind) == /\ stack # <<>>
                       /\ Last(stack) = Call(m, "process")
                       /\ Kind[m] = kind
                       /\ stack' = Looking(1)
                       /\ UNCHANGED <<setup, signals, phase, left, result, finished>>

\* m takes the frame at the head of its inbox, which leaves the boxes as fl.
Taking(m, fl) == /\ Waiting(flow, m) # <<>>
                 /\ flow' = fl
                 /\ seen' = [seen EXCEPT ![m] =
                               Append(@, Native(flow.heap[PeekFrame(flow, m)]))]

\* I3Reader: the next frame, or, at the end of the files, suspension.
ReadFrame(m) ==
  /\ Processing(m, "reader")
  /\ Waiting(flow, m) = <<>>
  /\ read < Len(Script)
  /\ read' = read + 1
  /\ flow' = LET frame == [stop |-> Script[read'], id |-> read', mixed |-> {}]
             IN  PushFrame(NewFrame(flow, frame), <<m, "OutBox">>, Len(flow.heap) + 1)
  /\ UNCHANGED <<suspension_requested, queue, seen>>

RequestSuspension(m) ==
  /\ Processing(m, "reader")
  /\ Waiting(flow, m) = <<>>
  /\ suspension_requested' = TRUE
  /\ UNCHANGED <<flow, queue, read, seen>>

\* I3Module itself, and a filter function that keeps the frame.
PassOn(m) ==
  /\ \/ Processing(m, "base")
     \/ Processing(m, "filter")
  /\ Taking(m, PushToAll(PopFrame(flow, m), m, PeekFrame(flow, m)))
  /\ UNCHANGED <<suspension_requested, queue, read>>

\* TrashCan, and a filter function that returns false.
Drop(m) ==
  /\ \/ Processing(m, "trash")
     \/ /\ Processing(m, "filter")
        /\ Waiting(flow, m) # <<>>
        /\ flow.heap[PeekFrame(flow, m)].stop \in FilterStreams
  /\ Taking(m, PopFrame(flow, m))
  /\ UNCHANGED <<suspension_requested, queue, read>>

\* Fork: hands on copies.
Copy(m) ==
  /\ Processing(m, "fork")
  /\ Taking(m, PushCopies(PopFrame(flow, m), m, PeekFrame(flow, m)))
  /\ UNCHANGED <<suspension_requested, queue, read>>

\* The first two without a frame to process, as the driving module.
NothingToDo(m) ==
  /\ \/ Processing(m, "base")
     \/ Processing(m, "trash")
  /\ Waiting(flow, m) = <<>>
  /\ UNCHANGED <<suspension_requested, flow, queue, read, seen>>

\* I3PacketModule: physics frames join the packet, a DAQ frame begins a new
\* one, anything else ends it and is passed on behind it.
Pack(m) ==
  LET ref == PeekFrame(flow, m)
      stop == flow.heap[ref].stop
      flushed == PushEach(PopFrame(flow, m), m, queue[m])
  IN  /\ Processing(m, "packet")
      /\ Waiting(flow, m) # <<>>
      /\ \/ /\ stop = "P"
            /\ Taking(m, PopFrame(flow, m))
            /\ queue' = [queue EXCEPT ![m] = Append(@, ref)]
         \/ /\ stop = "Q"
            /\ Taking(m, flushed)
            /\ queue' = [queue EXCEPT ![m] = <<ref>>]
         \/ /\ stop \notin {"Q", "P"}
            /\ Taking(m, PushToAll(flushed, m, ref))
            /\ queue' = [queue EXCEPT ![m] = <<>>]
      /\ UNCHANGED <<suspension_requested, read>>

\* Mutant of FinishModule: the packet module does not flush its queue.
FinishUnflushed(m) ==
  /\ stack # <<>>
  /\ Last(stack) = Call(m, "finish")
  /\ stack' = Looking(1)
  /\ finished' = [finished EXCEPT ![m] = @ + 1]
  /\ UNCHANGED <<setup, suspension_requested, signals, phase, left, result,
                 read, seen, flow, queue>>

\* Finish: a packet module pushes what it still holds.
FinishModule(m) ==
  /\ stack # <<>>
  /\ Last(stack) = Call(m, "finish")
  /\ stack' = Looking(1)
  /\ flow' = PushEach(flow, m, queue[m])
  /\ queue' = [queue EXCEPT ![m] = <<>>]
  /\ finished' = [finished EXCEPT ![m] = @ + 1]
  /\ UNCHANGED <<setup, suspension_requested, signals, phase, left, result,
                 read, seen>>

\* The innermost call is looking at one of its outboxes.
AtBox(x) == LET top == Last(stack)
            IN  /\ stack # <<>>
                /\ top.box \in DOMAIN OutBoxes[top.mod]
                /\ x = <<top.mod, OutBoxes[top.mod][top.box]>>

Elsewhere == UNCHANGED <<setup, suspension_requested, signals, phase, left,
                         result, flow, queue, read, history>>

Filled(x) == flow.target[x] # None /\ flow.fifo[x] # <<>>

\* Mutant of Drain: "if" where the code says "while".
DrainOnce(x) ==
  /\ AtBox(x)
  /\ Filled(x)
  /\ stack' = Append(Looking(Last(stack).box + 1), Call(flow.target[x], "process"))
  /\ Elsewhere

\* Frames are waiting: the next module processes, and then look again.
Drain(x) ==
  /\ AtBox(x)
  /\ Filled(x)
  /\ stack' = Append(stack, Call(flow.target[x], "process"))
  /\ Elsewhere

\* Nothing is waiting: on to the next outbox,
NextBox(x) ==
  /\ AtBox(x)
  /\ ~Filled(x)
  /\ flow.target[x] = None \/ Last(stack).op = "process"
  /\ stack' = Looking(Last(stack).box + 1)
  /\ Elsewhere

\* Mutant of FinishNext: the finishing module forgets its other outboxes.
FinishFirstOnly(x) ==
  /\ AtBox(x)
  /\ ~Filled(x)
  /\ flow.target[x] # None
  /\ Last(stack).op = "finish"
  /\ stack' = Append(Front(stack), Call(flow.target[x], "finish"))
  /\ Elsewhere

\* Mutant of FinishNext: finishes the next module again and again.
FinishNextAgain(x) ==
  /\ AtBox(x)
  /\ ~Filled(x)
  /\ flow.target[x] # None
  /\ Last(stack).op = "finish"
  /\ stack' = Append(stack, Call(flow.target[x], "finish"))
  /\ Elsewhere

\* but if this module has finished, the next one finishes first.
FinishNext(x) ==
  /\ AtBox(x)
  /\ ~Filled(x)
  /\ flow.target[x] # None
  /\ Last(stack).op = "finish"
  /\ stack' = Append(Looking(Last(stack).box + 1), Call(flow.target[x], "finish"))
  /\ Elsewhere

\* No outbox left.
DoReturns ==
  /\ stack # <<>>
  /\ Last(stack).box = Len(OutBoxes[Last(stack).mod]) + 1
  /\ stack' = Front(stack)
  /\ Elsewhere

-----------------------------------------------------------------------------
(* Signals, as long as Execute has its handlers installed.                  *)

Interrupt ==
  /\ phase # "idle"
  /\ ~interrupted
  /\ global_suspension' = TRUE
  /\ interrupted' = TRUE
  /\ UNCHANGED <<setup, suspension_requested, phase, left, result, stack, flow,
                 queue, read, history>>

\* die_messily: the process exits with Execute half way through.
InterruptAgain ==
  /\ phase # "idle"
  /\ interrupted
  /\ phase' = "idle"
  /\ result' = "exited"
  /\ stack' = <<>>
  /\ UNCHANGED <<setup, suspension_requested, signals, left, flow, queue, read,
                 history>>

Terminate ==
  /\ phase # "idle"
  /\ global_suspension' = TRUE
  /\ UNCHANGED <<setup, suspension_requested, interrupted, phase, left, result,
                 stack, flow, queue, read, history>>

-----------------------------------------------------------------------------

Setup == \/ \E m \in Modules : AddModule(m)
         \/ \E m, anchor \in Modules, after \in BOOLEAN : MoveModule(m, anchor, after)
         \/ \E w \in Wires : ConnectBoxes(w[1], w[2], w[3])
         \/ \E count \in Counts : Execute(count)

Do == \/ \E m \in Modules : \/ ReadFrame(m)
                            \/ RequestSuspension(m)
                            \/ PassOn(m)
                            \/ Drop(m)
                            \/ Copy(m)
                            \/ NothingToDo(m)
                            \/ Pack(m)
                            \/ FinishModule(m)
      \/ \E x \in Boxes : Drain(x) \/ NextBox(x) \/ FinishNext(x)
      \/ DoReturns

Running == Dispatch \/ BeginFinish \/ Return \/ Throw \/ Do

Signal == Interrupt \/ InterruptAgain \/ Terminate

Next == Setup \/ Running \/ Signal

\* The thread inside of Execute keeps running.
Spec == Init /\ [][Next]_vars /\ WF_vars(Running)
-----------------------------------------------------------------------------
(* Properties.                                                              *)

CallType == [mod : Modules, op : {"process", "finish"}, box : Nat]

\* Types, with every module at most once in the order the tray runs them in
\* and every reference in a fifo one to a frame there is.
TypeOK ==
  /\ order \in Seq(Modules)
  /\ \A i, j \in DOMAIN order : order[i] = order[j] => i = j
  /\ boxes_connected \in BOOLEAN /\ configure_called \in BOOLEAN
  /\ execute_called \in BOOLEAN /\ suspension_requested \in BOOLEAN
  /\ global_suspension \in BOOLEAN /\ interrupted \in BOOLEAN
  /\ phase \in {"idle", "looping", "finishing"}
  /\ left \in Nat \cup {Forever}
  /\ driving \in Modules \cup {None}
  /\ phase # "idle" => driving # None
  /\ result \in {"none", "returned", "sigint", "fatal", "exited"}
  /\ stack \in Seq(CallType)
  /\ FlowTypeOK(flow)
  /\ queue \in [Modules -> Seq(1 .. Len(flow.heap))]
  /\ read \in 0 .. Len(Script)
  /\ seen \in [Modules -> Seq(Natives)]
  /\ finished \in [Modules -> Nat]

\* Execute came to its end, be it because of a signal.
Ended == result \in {"returned", "sigint"}

\* "Once all queues are cleared, I3Tray.Finish is called"
\* (icetray/resources/docs/icetray_quick_reference.rst): whenever the loop of
\* Execute decides whether to go on, no module has a frame waiting.
QueuesCleared ==
  phase # "idle" /\ stack = <<>> => \A m \in Modules : Waiting(flow, m) = <<>>

\* What a module that drops nothing has handed on or still holds.
Lossless == {"reader", "base", "fork", "packet"}
Emitted(m) == IF Kind[m] = "reader"
              THEN [i \in 1 .. read |-> [stop |-> Script[i], id |-> i]]
              ELSE seen[m]

Neighbours == {e \in Modules \X Modules :
                 /\ flow.inbox[e[2]] # None
                 /\ flow.inbox[e[2]][1] = e[1]
                 /\ Kind[e[1]] \in Lossless}

\* Every module sees the frames in the order in which the module before it
\* saw them, none twice and none left out, also through a packet module that
\* holds frames back and on every branch behind a fork; and when Execute has
\* ended it has seen all of them.
FramesFlowInOrder ==
  \A e \in Neighbours :
    /\ IsPrefix(seen[e[2]], Emitted(e[1]))
    /\ Ended => seen[e[2]] = Emitted(e[1])

\* "Every frame shall contain all of the keys from the most closely preceding
\* frame of every other stream which is not immiscible" and none but those
\* (icetray/resources/docs/classes/i3frame.rst): what is mixed into a frame
\* waiting for a module are the latest frames that module has seen.
MixedFromLatest ==
  \A m \in Modules :
    \A k \in DOMAIN Waiting(flow, m) :
      LET ahead == [i \in 1 .. k |-> Native(flow.heap[Waiting(flow, m)[i]])]
          known == ParentsAfter(FALSE, seen[m] \o ahead)
          frame == flow.heap[Waiting(flow, m)[k]]
      IN  frame.mixed = Ids(GetMixedFrames(known, FALSE, frame.stop))

\* "call every module's Finish() function" (icetray/private/icetray/
\* I3Tray.cxx): once Execute has ended, each module has finished just once.
EveryModuleFinishes ==
  Ended => \A m \in ToSet(order) : finished[m] = 1

\* A module that has finished is never called again: its Finish comes after
\* the last frame for it, those the modules before it pushed in their own
\* Finish included.
FinishIsLast ==
  [][\A m \in Modules :
       finished[m] > 0 => seen'[m] = seen[m] /\ finished'[m] = finished[m]]_vars

\* Execute comes back once a module or a signal has asked it to.
SuspensionEnds ==
  phase # "idle" /\ (suspension_requested \/ global_suspension) ~> phase = "idle"
=============================================================================
