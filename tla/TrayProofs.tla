------------------------------ MODULE TrayProofs ------------------------------
(***************************************************************************)
(* Proofs about Tray: for trays of any size, wired in any way the theorems *)
(* allow, reading any number of frames, with throwing modules and signals  *)
(* at any time.  The first part is about the operators of FrameFlow, whose *)
(* loops over outboxes and over queues are folds (SeqFold), reasoned about *)
(* by induction over their states.                                         *)
(***************************************************************************)
EXTENDS Tray, SequenceTheorems, TLAPS

BoxesOf(m) == {x \in Boxes : x[1] = m}

\* What the frames behind a sequence of references are.
NativesOf(fl, refs) == [i \in DOMAIN refs |-> Native(fl.heap[refs[i]])]

\* g is fl after frames that are as ns have been handed to those of the
\* outboxes xs that go somewhere.
HandedTo(fl, g, xs, ns) ==
  /\ FlowTypeOK(g)
  /\ g.target = fl.target
  /\ g.inbox = fl.inbox
  /\ Len(fl.heap) <= Len(g.heap)
  /\ \A r \in 1 .. Len(fl.heap) : Native(g.heap[r]) = Native(fl.heap[r])
  /\ \A x \in Boxes :
       NativesOf(g, g.fifo[x]) =
         IF x \in xs /\ fl.target[x] # None THEN NativesOf(fl, fl.fifo[x]) \o ns
                                            ELSE NativesOf(fl, fl.fifo[x])

-----------------------------------------------------------------------------
(* Sequences.                                                               *)

\* Append to any sequence, whatever its elements are.
LEMMA AppendAny ==
  ASSUME NEW s, Len(s) \in Nat, s = [i \in 1 .. Len(s) |-> s[i]], NEW e
  PROVE  /\ Len(Append(s, e)) = Len(s) + 1
         /\ Append(s, e) = [i \in 1 .. Len(s) + 1 |-> Append(s, e)[i]]
         /\ \A i \in 1 .. Len(s) : Append(s, e)[i] = s[i]
         /\ Append(s, e)[Len(s) + 1] = e
<1> DEFINE S == {s[i] : i \in 1 .. Len(s)} \cup {e}
<1>1. s \in Seq(S)
  <2>1. s \in [1 .. Len(s) -> S]
    OBVIOUS
  <2> QED BY <2>1
<1>2. e \in S
  OBVIOUS
<1> HIDE DEF S
<1>3. Append(s, e) \in Seq(S) /\ Len(Append(s, e)) = Len(s) + 1
  BY <1>1, <1>2
<1>4. Append(s, e) \in [1 .. Len(s) + 1 -> S]
  BY <1>3, LenProperties
<1>5. Append(s, e) = [i \in 1 .. Len(s) + 1 |-> Append(s, e)[i]]
  BY <1>4
<1>6. (\A i \in 1 .. Len(s) : Append(s, e)[i] = s[i]) /\ Append(s, e)[Len(s) + 1] = e
  BY <1>1, <1>2, AppendProperties
<1> QED BY <1>3, <1>5, <1>6

LEMMA NativesOfTypes ==
  ASSUME NEW fl, FlowTypeOK(fl), NEW refs \in Seq(1 .. Len(fl.heap))
  PROVE  /\ NativesOf(fl, refs) \in Seq(Natives)
         /\ Len(NativesOf(fl, refs)) = Len(refs)
         /\ \A i \in 1 .. Len(refs) : NativesOf(fl, refs)[i] = Native(fl.heap[refs[i]])
<1>1. \A r \in 1 .. Len(fl.heap) : Native(fl.heap[r]) \in Natives
  BY DEF FlowTypeOK, FrameTypeOK
<1>2. NativesOf(fl, refs) \in [1 .. Len(refs) -> Natives]
  BY <1>1 DEF NativesOf
<1> QED BY <1>2 DEF NativesOf

\* References keep their meaning when the flow's old frames keep their keys.
LEMMA NativesOfKept ==
  ASSUME NEW fl, NEW g, FlowTypeOK(fl), FlowTypeOK(g), Len(fl.heap) <= Len(g.heap),
         \A r \in 1 .. Len(fl.heap) : Native(g.heap[r]) = Native(fl.heap[r]),
         NEW refs \in Seq(1 .. Len(fl.heap))
  PROVE  /\ NativesOf(g, refs) = NativesOf(fl, refs)
         /\ refs \in Seq(1 .. Len(g.heap))
<1>1. refs \in Seq(1 .. Len(g.heap))
  BY DEF FlowTypeOK
<1>2. ASSUME NEW i \in DOMAIN refs
      PROVE  Native(g.heap[refs[i]]) = Native(fl.heap[refs[i]])
  <2>1. refs[i] \in 1 .. Len(fl.heap)
    OBVIOUS
  <2> QED BY <2>1
<1> QED BY <1>1, <1>2 DEF NativesOf

LEMMA NativesOfAppend ==
  ASSUME NEW fl, FlowTypeOK(fl), NEW refs \in Seq(1 .. Len(fl.heap)), NEW ref \in 1 .. Len(fl.heap)
  PROVE  NativesOf(fl, Append(refs, ref)) =
           NativesOf(fl, refs) \o <<Native(fl.heap[ref])>>
<1> DEFINE t == Append(refs, ref)
<1>1. /\ t \in Seq(1 .. Len(fl.heap)) /\ Len(t) = Len(refs) + 1
      /\ \A i \in 1 .. Len(refs) : t[i] = refs[i]
      /\ t[Len(refs) + 1] = ref
  OBVIOUS
<1>0. Len(refs) \in Nat
  OBVIOUS
<1> HIDE DEF t
<1> DEFINE a == NativesOf(fl, t)
           b == NativesOf(fl, refs)
           n == <<Native(fl.heap[ref])>>
<1>2. a \in Seq(Natives) /\ Len(a) = Len(refs) + 1
  BY <1>1, NativesOfTypes
<1>3. b \in Seq(Natives) /\ Len(b) = Len(refs)
  BY NativesOfTypes
<1>4. Native(fl.heap[ref]) \in Natives
  BY DEF FlowTypeOK, FrameTypeOK
<1>10. \A i \in 1 .. Len(t) : a[i] = Native(fl.heap[t[i]])
  BY <1>1, NativesOfTypes
<1>11. \A i \in 1 .. Len(refs) : b[i] = Native(fl.heap[refs[i]])
  BY NativesOfTypes
<1>5. \A i \in 1 .. Len(refs) : a[i] = b[i]
  BY <1>0, <1>1, <1>10, <1>11, SMTT(30)
<1>6. a[Len(refs) + 1] = Native(fl.heap[ref])
  BY <1>0, <1>1, NativesOfTypes
<1> HIDE DEF a, b
<1>7. b \o n \in Seq(Natives) /\ Len(b \o n) = Len(refs) + 1
  BY <1>3, <1>4
<1>8. \A i \in 1 .. Len(refs) + 1 : (b \o n)[i] = a[i]
  BY <1>3, <1>4, <1>5, <1>6
<1>9. a = b \o n
  BY <1>2, <1>7, <1>8, SeqEqual
<1> QED BY <1>9 DEF a, b, t

-----------------------------------------------------------------------------
(* One frame.                                                               *)

LEMMA NewFrameEffect ==
  ASSUME NEW fl, FlowTypeOK(fl), NEW frame, FrameTypeOK(frame)
  PROVE  LET g == NewFrame(fl, frame)
         IN  /\ FlowTypeOK(g)
             /\ g.target = fl.target /\ g.inbox = fl.inbox
             /\ g.fifo = fl.fifo /\ g.mixer = fl.mixer
             /\ Len(g.heap) = Len(fl.heap) + 1
             /\ \A r \in 1 .. Len(fl.heap) : g.heap[r] = fl.heap[r]
             /\ g.heap[Len(fl.heap) + 1] = frame
<1> DEFINE g == NewFrame(fl, frame)
<1> DEFINE heap == Append(fl.heap, frame)
<1>0. g = [fl EXCEPT !.heap = heap]
  BY DEF NewFrame
<1>00. fl = [target |-> fl.target, inbox |-> fl.inbox, fifo |-> fl.fifo,
             mixer |-> fl.mixer, heap |-> fl.heap]
  BY DEF FlowTypeOK
<1> HIDE DEF g, heap
<1>1. /\ g.target = fl.target /\ g.inbox = fl.inbox
      /\ g.fifo = fl.fifo /\ g.mixer = fl.mixer
      /\ g.heap = heap
      /\ g = [target |-> g.target, inbox |-> g.inbox, fifo |-> g.fifo,
              mixer |-> g.mixer, heap |-> g.heap]
  BY <1>0, <1>00
<1>2. /\ Len(fl.heap) \in Nat
      /\ fl.heap = [r \in 1 .. Len(fl.heap) |-> fl.heap[r]]
  BY DEF FlowTypeOK
<1>3. /\ Len(g.heap) = Len(fl.heap) + 1
      /\ g.heap = [r \in 1 .. Len(fl.heap) + 1 |-> g.heap[r]]
      /\ \A r \in 1 .. Len(fl.heap) : g.heap[r] = fl.heap[r]
      /\ g.heap[Len(fl.heap) + 1] = frame
  BY <1>1, <1>2, AppendAny DEF heap
<1>4. ASSUME NEW r \in 1 .. Len(g.heap)
      PROVE  FrameTypeOK(g.heap[r])
  <2>1. CASE r \in 1 .. Len(fl.heap)
    BY <1>3, <2>1 DEF FlowTypeOK
  <2>2. CASE r = Len(fl.heap) + 1
    BY <1>3, <2>2
  <2> QED BY <1>2, <1>3, <2>1, <2>2
<1>5. g.fifo \in [Boxes -> Seq(1 .. Len(g.heap))]
  <2>1. fl.fifo \in [Boxes -> Seq(1 .. Len(fl.heap))]
    BY DEF FlowTypeOK
  <2>2. 1 .. Len(fl.heap) \subseteq 1 .. Len(g.heap)
    BY <1>2, <1>3
  <2>3. ASSUME NEW x \in Boxes
        PROVE  fl.fifo[x] \in Seq(1 .. Len(g.heap))
    <3>1. fl.fifo[x] \in Seq(1 .. Len(fl.heap))
      BY <2>1
    <3> QED BY <2>2, <3>1, SeqMonotonic
  <2> QED BY <1>1, <2>1, <2>3
<1>6. FlowTypeOK(g)
  <2>1. /\ fl.target \in [Boxes -> Modules \cup {None}]
        /\ fl.inbox \in [Modules -> Boxes \cup {None}]
        /\ fl.mixer = [x \in Boxes |-> fl.mixer[x]]
    BY DEF FlowTypeOK
  <2> QED BY <1>1, <1>2, <1>3, <1>4, <1>5, <2>1 DEF FlowTypeOK
<1> QED BY <1>1, <1>3, <1>6 DEF g

\* What a push to one connected outbox changes, and what it leaves alone.
LEMMA PushFrameEffect ==
  ASSUME NEW fl, FlowTypeOK(fl), NEW x \in Boxes, fl.target[x] # None,
         NEW ref \in 1 .. Len(fl.heap)
  PROVE  LET g == PushFrame(fl, x, ref)
         IN  /\ FlowTypeOK(g)
             /\ g.target = fl.target /\ g.inbox = fl.inbox
             /\ \A y \in Boxes : y # x => g.fifo[y] = fl.fifo[y] /\ g.mixer[y] = fl.mixer[y]
             /\ g.fifo[x] = Append(fl.fifo[x], ref)
             /\ g.mixer[x] = UpdateDependencies(fl.mixer[x], FALSE, Native(fl.heap[ref]))
             /\ Len(g.heap) = Len(fl.heap)
             /\ \A r \in 1 .. Len(fl.heap) :
                  /\ Native(g.heap[r]) = Native(fl.heap[r])
                  /\ r # ref => g.heap[r] = fl.heap[r]
             /\ g.heap[ref].mixed = Ids(GetMixedFrames(g.mixer[x], FALSE, fl.heap[ref].stop))
<1> DEFINE g == PushFrame(fl, x, ref)
           parents == UpdateDependencies(fl.mixer[x], FALSE, Native(fl.heap[ref]))
           mixed == Ids(GetMixedFrames(parents, FALSE, fl.heap[ref].stop))
<1> HIDE DEF parents, mixed
<1>1. g = [fl EXCEPT !.mixer[x] = parents, !.heap[ref].mixed = mixed,
                     !.fifo[x] = Append(@, ref)]
  BY DEF PushFrame, SyncCache, parents, mixed
<1>2. /\ fl = [target |-> fl.target, inbox |-> fl.inbox, fifo |-> fl.fifo,
               mixer |-> fl.mixer, heap |-> fl.heap]
      /\ Len(fl.heap) \in Nat
      /\ fl.heap = [r \in 1 .. Len(fl.heap) |-> fl.heap[r]]
      /\ fl.mixer = [y \in Boxes |-> fl.mixer[y]]
      /\ fl.fifo \in [Boxes -> Seq(1 .. Len(fl.heap))]
      /\ fl.target \in [Boxes -> Modules \cup {None}]
      /\ fl.inbox \in [Modules -> Boxes \cup {None}]
      /\ \A r \in 1 .. Len(fl.heap) : FrameTypeOK(fl.heap[r])
  BY DEF FlowTypeOK
<1> HIDE DEF g
<1>3. /\ g = [target |-> g.target, inbox |-> g.inbox, fifo |-> g.fifo,
              mixer |-> g.mixer, heap |-> g.heap]
      /\ g.target = fl.target /\ g.inbox = fl.inbox
      /\ g.fifo = [fl.fifo EXCEPT ![x] = Append(@, ref)]
      /\ g.mixer = [fl.mixer EXCEPT ![x] = parents]
      /\ g.heap = [fl.heap EXCEPT ![ref].mixed = mixed]
  BY <1>1, <1>2
<1>4. \A y \in Boxes : y # x => g.fifo[y] = fl.fifo[y] /\ g.mixer[y] = fl.mixer[y]
  BY <1>2, <1>3
<1>5. g.fifo[x] = Append(fl.fifo[x], ref) /\ g.mixer[x] = parents
  BY <1>2, <1>3
<1>6. /\ g.heap = [r \in 1 .. Len(fl.heap) |-> g.heap[r]]
      /\ \A r \in 1 .. Len(fl.heap) : r # ref => g.heap[r] = fl.heap[r]
      /\ g.heap[ref] = [fl.heap[ref] EXCEPT !.mixed = mixed]
  BY <1>2, <1>3
<1>7. g.heap[ref] = [stop |-> fl.heap[ref].stop, id |-> fl.heap[ref].id, mixed |-> mixed]
  BY <1>2, <1>6 DEF FrameTypeOK
<1>8. \A r \in 1 .. Len(fl.heap) : Native(g.heap[r]) = Native(fl.heap[r])
  BY <1>6, <1>7 DEF Native
<1>9. Len(g.heap) = Len(fl.heap)
  <2> DEFINE S == {g.heap[r] : r \in 1 .. Len(fl.heap)}
  <2>1. g.heap \in [1 .. Len(fl.heap) -> S]
    BY <1>6
  <2> QED BY <1>2, <2>1
<1>10. \A r \in 1 .. Len(g.heap) : FrameTypeOK(g.heap[r])
  BY <1>2, <1>6, <1>7, <1>8, <1>9 DEF FrameTypeOK
<1>11. g.fifo \in [Boxes -> Seq(1 .. Len(g.heap))]
  BY <1>2, <1>3, <1>9
<1>12. g.mixer = [y \in Boxes |-> g.mixer[y]]
  BY <1>2, <1>3
<1>13. FlowTypeOK(g)
  BY <1>2, <1>3, <1>6, <1>9, <1>10, <1>11, <1>12 DEF FlowTypeOK
<1>14. g.heap[ref].mixed = Ids(GetMixedFrames(g.mixer[x], FALSE, fl.heap[ref].stop))
  BY <1>5, <1>7 DEF mixed
<1> QED BY <1>3, <1>4, <1>5, <1>6, <1>8, <1>9, <1>13, <1>14 DEF g, parents

-----------------------------------------------------------------------------
(* Frames handed to several outboxes, and several frames.                   *)

LEMMA PushFrameHands ==
  ASSUME NEW fl, FlowTypeOK(fl), NEW x \in Boxes, NEW ref \in 1 .. Len(fl.heap)
  PROVE  HandedTo(fl, PushFrame(fl, x, ref), {x}, <<Native(fl.heap[ref])>>)
<1> DEFINE g == PushFrame(fl, x, ref)
           ns == <<Native(fl.heap[ref])>>
<1>0. Len(fl.heap) \in Nat /\ fl.fifo \in [Boxes -> Seq(1 .. Len(fl.heap))]
  BY DEF FlowTypeOK
<1>1. CASE fl.target[x] = None
  <2>1. g = fl
    BY <1>1 DEF PushFrame
  <2> HIDE DEF g
  <2> QED BY <1>0, <1>1, <2>1 DEF HandedTo, g
<1>2. CASE fl.target[x] # None
  <2>1. /\ FlowTypeOK(g)
        /\ g.target = fl.target /\ g.inbox = fl.inbox
        /\ \A y \in Boxes : y # x => g.fifo[y] = fl.fifo[y]
        /\ g.fifo[x] = Append(fl.fifo[x], ref)
        /\ Len(g.heap) = Len(fl.heap)
        /\ \A r \in 1 .. Len(fl.heap) : Native(g.heap[r]) = Native(fl.heap[r])
    BY <1>2, PushFrameEffect, ZenonT(60)
  <2> HIDE DEF g
  <2>2. ASSUME NEW y \in Boxes
        PROVE  /\ y # x => NativesOf(g, g.fifo[y]) = NativesOf(fl, fl.fifo[y])
               /\ y = x => NativesOf(g, g.fifo[y]) = NativesOf(fl, fl.fifo[y]) \o ns
    <3>1. fl.fifo[y] \in Seq(1 .. Len(fl.heap))
      BY <1>0
    <3>2. CASE y # x
      <4>1. NativesOf(g, fl.fifo[y]) = NativesOf(fl, fl.fifo[y])
        BY <1>0, <2>1, <3>1, NativesOfKept
      <4>2. g.fifo[y] = fl.fifo[y]
        BY <2>1, <3>2
      <4> QED BY <3>2, <4>1, <4>2
    <3>3. CASE y = x
      <4>0. Append(fl.fifo[x], ref) \in Seq(1 .. Len(fl.heap))
        BY <3>1, <3>3, AppendProperties
      <4>1. g.fifo[y] \in Seq(1 .. Len(fl.heap))
        BY <2>1, <3>3, <4>0
      <4>2. NativesOf(g, g.fifo[y]) = NativesOf(fl, g.fifo[y])
        <5>1. PICK refs : refs = g.fifo[y]
          OBVIOUS
        <5>2. refs \in Seq(1 .. Len(fl.heap)) /\ Len(fl.heap) <= Len(g.heap)
          BY <1>0, <2>1, <4>1, <5>1
        <5>3. NativesOf(g, refs) = NativesOf(fl, refs)
          BY <2>1, <5>2, NativesOfKept
        <5> QED BY <5>1, <5>3
      <4>3. NativesOf(fl, g.fifo[y]) = NativesOf(fl, fl.fifo[y]) \o ns
        BY <2>1, <3>1, <3>3, NativesOfAppend
      <4> QED BY <3>3, <4>2, <4>3
    <3> QED BY <3>2, <3>3
  <2> HIDE DEF ns
  <2>3. HandedTo(fl, g, {x}, ns)
    <3>1. ASSUME NEW y \in Boxes
          PROVE  NativesOf(g, g.fifo[y]) =
                   IF y \in {x} /\ fl.target[y] # None THEN NativesOf(fl, fl.fifo[y]) \o ns
                                                      ELSE NativesOf(fl, fl.fifo[y])
      BY <1>2, <2>2
    <3> QED BY <1>0, <2>1, <3>1 DEF HandedTo
  <2> QED BY <2>3 DEF g, ns
<1> QED BY <1>1, <1>2

LEMMA HandedToNone ==
  ASSUME NEW fl, FlowTypeOK(fl), NEW xs, NEW ns
  PROVE  HandedTo(fl, fl, {}, ns) /\ HandedTo(fl, fl, xs, <<>>)
<1>1. Len(fl.heap) \in Nat /\ fl.fifo \in [Boxes -> Seq(1 .. Len(fl.heap))]
  BY DEF FlowTypeOK
<1>2. ASSUME NEW x \in Boxes
      PROVE  NativesOf(fl, fl.fifo[x]) \o <<>> = NativesOf(fl, fl.fifo[x])
  <2>1. fl.fifo[x] \in Seq(1 .. Len(fl.heap))
    BY <1>1
  <2>2. NativesOf(fl, fl.fifo[x]) \in Seq(Natives)
    BY <2>1, NativesOfTypes
  <2> QED BY <2>2, ConcatEmptySeq
<1> QED BY <1>1, <1>2 DEF HandedTo

\* The same frames to more outboxes.
LEMMA HandedToMore ==
  ASSUME NEW fl, NEW g, NEW h, NEW xs, NEW ys, NEW ns, FlowTypeOK(fl),
         HandedTo(fl, g, xs, ns), HandedTo(g, h, ys, ns), xs \cap ys = {}
  PROVE  HandedTo(fl, h, xs \cup ys, ns)
<1>1. Len(fl.heap) \in Nat /\ Len(g.heap) \in Nat /\ Len(h.heap) \in Nat
  BY DEF HandedTo, FlowTypeOK
<1>2. /\ FlowTypeOK(h)
      /\ h.target = fl.target /\ h.inbox = fl.inbox
      /\ Len(fl.heap) <= Len(h.heap)
      /\ \A r \in 1 .. Len(fl.heap) : Native(h.heap[r]) = Native(fl.heap[r])
  BY <1>1 DEF HandedTo
<1>3. ASSUME NEW x \in Boxes
      PROVE  NativesOf(h, h.fifo[x]) =
               IF x \in xs \cup ys /\ fl.target[x] # None THEN NativesOf(fl, fl.fifo[x]) \o ns
                                                         ELSE NativesOf(fl, fl.fifo[x])
  <2>1. NativesOf(g, g.fifo[x]) =
          IF x \in xs /\ fl.target[x] # None THEN NativesOf(fl, fl.fifo[x]) \o ns
                                             ELSE NativesOf(fl, fl.fifo[x])
    BY DEF HandedTo
  <2>2. NativesOf(h, h.fifo[x]) =
          IF x \in ys /\ fl.target[x] # None THEN NativesOf(g, g.fifo[x]) \o ns
                                             ELSE NativesOf(g, g.fifo[x])
    BY DEF HandedTo
  <2> QED BY <2>1, <2>2
<1> QED BY <1>2, <1>3 DEF HandedTo

\* More frames to the same outboxes.
LEMMA HandedToAgain ==
  ASSUME NEW fl, NEW g, NEW h, NEW xs, NEW ns \in Seq(Natives), NEW os \in Seq(Natives),
         FlowTypeOK(fl), HandedTo(fl, g, xs, ns), HandedTo(g, h, xs, os)
  PROVE  HandedTo(fl, h, xs, ns \o os)
<1>1. Len(fl.heap) \in Nat /\ Len(g.heap) \in Nat /\ Len(h.heap) \in Nat
  BY DEF HandedTo, FlowTypeOK
<1>2. /\ FlowTypeOK(h)
      /\ h.target = fl.target /\ h.inbox = fl.inbox
      /\ Len(fl.heap) <= Len(h.heap)
      /\ \A r \in 1 .. Len(fl.heap) : Native(h.heap[r]) = Native(fl.heap[r])
  BY <1>1 DEF HandedTo
<1>3. ASSUME NEW x \in Boxes
      PROVE  NativesOf(h, h.fifo[x]) =
               IF x \in xs /\ fl.target[x] # None THEN NativesOf(fl, fl.fifo[x]) \o (ns \o os)
                                                  ELSE NativesOf(fl, fl.fifo[x])
  <2>1. NativesOf(g, g.fifo[x]) =
          IF x \in xs /\ fl.target[x] # None THEN NativesOf(fl, fl.fifo[x]) \o ns
                                             ELSE NativesOf(fl, fl.fifo[x])
    BY DEF HandedTo
  <2>2. NativesOf(h, h.fifo[x]) =
          IF x \in xs /\ fl.target[x] # None THEN NativesOf(g, g.fifo[x]) \o os
                                             ELSE NativesOf(g, g.fifo[x])
    BY DEF HandedTo
  <2>3. fl.fifo[x] \in Seq(1 .. Len(fl.heap))
    BY DEF FlowTypeOK
  <2>4. NativesOf(fl, fl.fifo[x]) \in Seq(Natives)
    BY <2>3, NativesOfTypes
  <2>5. (NativesOf(fl, fl.fifo[x]) \o ns) \o os = NativesOf(fl, fl.fifo[x]) \o (ns \o os)
    BY <2>4, ConcatAssociative
  <2> QED BY <2>1, <2>2, <2>5
<1> QED BY <1>2, <1>3 DEF HandedTo

\* What a module pushes to all its outboxes all of them get.
LEMMA PushToAllHands ==
  ASSUME NEW fl, FlowTypeOK(fl), NEW m \in Modules, NEW ref \in 1 .. Len(fl.heap)
  PROVE  HandedTo(fl, PushToAll(fl, m, ref), BoxesOf(m), <<Native(fl.heap[ref])>>)
<1> DEFINE n == Len(OutBoxes[m])
           First(i) == {<<m, OutBoxes[m][k]>> : k \in 1 .. i}
           ns == <<Native(fl.heap[ref])>>
<1>1. /\ n \in Nat /\ DOMAIN OutBoxes[m] = 1 .. n
      /\ \A i, j \in 1 .. n : OutBoxes[m][i] = OutBoxes[m][j] => i = j
  BY FrameFlowAssumption
<1>2. BoxesOf(m) = First(n)
  BY <1>1 DEF BoxesOf, Boxes, ToSet
<1>3. /\ Len(ToEach(m, ref)) = n
      /\ \A k \in 1 .. n : ToEach(m, ref)[k] = [box |-> <<m, OutBoxes[m][k]>>, ref |-> ref]
  BY <1>1 DEF ToEach
<1>4. PICK f : /\ f[0] = fl
               /\ \A i \in 1 .. n : f[i] = PushTo(f[i - 1], ToEach(m, ref)[i])
               /\ PushToAll(fl, m, ref) = f[n]
  BY <1>1, <1>3, Pushing!FoldStates DEF PushToAll
<1> DEFINE T == {i \in 0 .. n : HandedTo(fl, f[i], First(i), ns)}
<1> HIDE DEF n
<1>5. 0 \in T
  <2>1. First(0) = {}
    OBVIOUS
  <2>2. HandedTo(fl, f[0], First(0), ns)
    BY <1>4, <2>1, HandedToNone
  <2> QED BY <1>1, <2>2
<1>6. ASSUME NEW i \in 0 .. n - 1, i \in T
      PROVE  i + 1 \in T
  <2> DEFINE x == <<m, OutBoxes[m][i + 1]>>
  <2>1. i + 1 \in 1 .. n /\ (i + 1) - 1 = i
    BY <1>1
  <2>2. x \in Boxes
    BY <1>1, <2>1 DEF Boxes, ToSet
  <2>3. f[i + 1] = PushFrame(f[i], x, ref)
    BY <1>3, <1>4, <2>1, SMTT(30) DEF PushTo
  <2>4. HandedTo(fl, f[i], First(i), ns)
    BY <1>6
  <2>5. /\ FlowTypeOK(f[i]) /\ ref \in 1 .. Len(f[i].heap)
        /\ Native(f[i].heap[ref]) = Native(fl.heap[ref])
    <3>1. Len(f[i].heap) \in Nat /\ Len(fl.heap) \in Nat
      BY <2>4 DEF HandedTo, FlowTypeOK
    <3> QED BY <2>4, <3>1 DEF HandedTo
  <2>6. HandedTo(f[i], f[i + 1], {x}, ns)
    BY <2>2, <2>3, <2>5, PushFrameHands
  <2>7. First(i) \cap {x} = {} /\ First(i + 1) = First(i) \cup {x}
    BY <1>1, <2>1, SMTT(30)
  <2>8. HandedTo(fl, f[i + 1], First(i + 1), ns)
    BY <2>4, <2>6, <2>7, HandedToMore
  <2> QED BY <2>1, <2>8
<1> HIDE DEF T
<1>7. 0 .. n \subseteq T
  BY <1>1, <1>5, <1>6, Pushing!NatIndUpTo
<1>8. n \in T
  BY <1>1, <1>7
<1>9. HandedTo(fl, f[n], First(n), ns)
  BY <1>8 DEF T
<1> QED BY <1>2, <1>4, <1>9

\* PushEach goes through the states in f.
PushesThrough(f, fl, m, refs) ==
  /\ f[0] = fl
  /\ \A i \in 1 .. Len(refs) : f[i] = PushToAll(f[i - 1], m, refs[i])
  /\ PushEach(fl, m, refs) = f[Len(refs)]

LEMMA PushEachStates ==
  ASSUME NEW fl, NEW m, NEW refs, Len(refs) \in Nat, DOMAIN refs = 1 .. Len(refs)
  PROVE  \E f : PushesThrough(f, fl, m, refs)
<1> DEFINE n == Len(refs)
           pushes == [i \in DOMAIN refs |-> [mod |-> m, ref |-> refs[i]]]
<1>1. Len(pushes) = n /\ \A i \in 1 .. n : pushes[i] = [mod |-> m, ref |-> refs[i]]
  OBVIOUS
<1>2. PushEach(fl, m, refs) = PushingOn!Fold(fl, pushes)
  BY DEF PushEach
<1> HIDE DEF pushes
<1>3. Len(pushes) \in Nat
  BY <1>1
<1>4. PICK f : /\ f[0] = fl
               /\ \A i \in 1 .. Len(pushes) : f[i] = PushOn(f[i - 1], pushes[i])
               /\ PushingOn!Fold(fl, pushes) = f[Len(pushes)]
  BY <1>3, PushingOn!FoldStates
<1>5. ASSUME NEW i \in 1 .. n
      PROVE  f[i] = PushToAll(f[i - 1], m, refs[i])
  <2>1. pushes[i].mod = m /\ pushes[i].ref = refs[i]
    <3>1. PICK r : r = refs[i]
      OBVIOUS
    <3>2. pushes[i] = [mod |-> m, ref |-> r]
      BY <1>1, <3>1
    <3> QED BY <3>1, <3>2
  <2>2. f[i] = PushOn(f[i - 1], pushes[i])
    BY <1>1, <1>4
  <2> QED BY <2>1, <2>2 DEF PushOn
<1>6. PushesThrough(f, fl, m, refs)
  BY <1>1, <1>2, <1>4, <1>5 DEF PushesThrough
<1> QED BY <1>6

\* What a module pushes one by one all its outboxes get in that order.
LEMMA PushEachHands ==
  ASSUME NEW fl, FlowTypeOK(fl), NEW m \in Modules, NEW refs \in Seq(1 .. Len(fl.heap))
  PROVE  HandedTo(fl, PushEach(fl, m, refs), BoxesOf(m), NativesOf(fl, refs))
<1> DEFINE n == Len(refs)
<1>1. n \in Nat /\ DOMAIN refs = 1 .. n
  OBVIOUS
<1>2. PICK f : PushesThrough(f, fl, m, refs)
  BY <1>1, PushEachStates
<1>3. /\ f[0] = fl
      /\ \A i \in 1 .. n : f[i] = PushToAll(f[i - 1], m, refs[i])
      /\ PushEach(fl, m, refs) = f[n]
  BY <1>2 DEF PushesThrough
<1> DEFINE Some(i) == SubSeq(refs, 1, i)
           T == {i \in 0 .. n : HandedTo(fl, f[i], BoxesOf(m), NativesOf(fl, Some(i)))}
<1>4. \A i \in 0 .. n : Some(i) \in Seq(1 .. Len(fl.heap))
  BY <1>1
<1>5. Some(0) = <<>> /\ Some(n) = refs
  BY <1>1
<1>6. \A i \in 0 .. n - 1 : Some(i + 1) = Append(Some(i), refs[i + 1])
  BY <1>1
<1> HIDE DEF n, Some
<1>7. 0 \in T
  <2>1. NativesOf(fl, Some(0)) = <<>>
    <3>1. Some(0) \in Seq(1 .. Len(fl.heap)) /\ Len(Some(0)) = 0
      BY <1>1, <1>4, <1>5
    <3>2. NativesOf(fl, Some(0)) \in Seq(Natives) /\ Len(NativesOf(fl, Some(0))) = 0
      BY <3>1, NativesOfTypes
    <3> QED BY <3>2, EmptySeq
  <2>2. HandedTo(fl, fl, BoxesOf(m), NativesOf(fl, Some(0)))
    BY <2>1, HandedToNone
  <2>3. HandedTo(fl, f[0], BoxesOf(m), NativesOf(fl, Some(0)))
    BY <1>3, <2>2
  <2> QED BY <1>1, <2>3
<1>8. ASSUME NEW i \in 0 .. n - 1, i \in T
      PROVE  i + 1 \in T
  <2> DEFINE ref == refs[i + 1]
             ns == NativesOf(fl, Some(i))
  <2>1. i + 1 \in 1 .. n /\ (i + 1) - 1 = i /\ i \in 0 .. n
    BY <1>1
  <2>2. ref \in 1 .. Len(fl.heap)
    BY <1>1, <2>1, ElementOfSeq DEF n
  <2>3. f[i + 1] = PushToAll(f[i], m, ref)
    BY <1>3, <2>1
  <2>4. HandedTo(fl, f[i], BoxesOf(m), ns)
    BY <1>8
  <2>5. /\ FlowTypeOK(f[i]) /\ ref \in 1 .. Len(f[i].heap)
        /\ Native(f[i].heap[ref]) = Native(fl.heap[ref])
    <3>1. Len(f[i].heap) \in Nat /\ Len(fl.heap) \in Nat
      BY <2>4 DEF HandedTo, FlowTypeOK
    <3> QED BY <2>2, <2>4, <3>1, SMTT(30) DEF HandedTo
  <2>6. HandedTo(f[i], f[i + 1], BoxesOf(m), <<Native(fl.heap[ref])>>)
    BY <2>3, <2>5, PushToAllHands
  <2>7. NativesOf(fl, Some(i + 1)) = ns \o <<Native(fl.heap[ref])>>
    BY <1>4, <1>6, <2>1, <2>2, NativesOfAppend
  <2>8. ns \in Seq(Natives) /\ <<Native(fl.heap[ref])>> \in Seq(Natives)
    <3>1. Native(fl.heap[ref]) \in Natives
      BY <2>2 DEF FlowTypeOK, FrameTypeOK
    <3>2. ns \in Seq(Natives)
      BY <1>4, <2>1, NativesOfTypes
    <3> QED BY <3>1, <3>2
  <2>9. HandedTo(fl, f[i + 1], BoxesOf(m), NativesOf(fl, Some(i + 1)))
    <3> HIDE DEF ns, ref
    <3>1. HandedTo(fl, f[i + 1], BoxesOf(m), ns \o <<Native(fl.heap[ref])>>)
      BY <2>4, <2>6, <2>8, HandedToAgain
    <3> QED BY <2>7, <3>1
  <2> QED BY <2>1, <2>9
<1> HIDE DEF T
<1>9. 0 .. n \subseteq T
  BY <1>1, <1>7, <1>8, Pushing!NatIndUpTo
<1>10. n \in T
  BY <1>1, <1>9
<1>11. HandedTo(fl, f[n], BoxesOf(m), NativesOf(fl, Some(n)))
  BY <1>10 DEF T
<1> QED BY <1>3, <1>5, <1>11

\* A copy of the frame to one outbox.
LEMMA CopyHands ==
  ASSUME NEW fl, FlowTypeOK(fl), NEW x \in Boxes, NEW frame, FrameTypeOK(frame)
  PROVE  HandedTo(fl, PushFrame(NewFrame(fl, frame), x, Len(fl.heap) + 1),
                  {x}, <<Native(frame)>>)
<1> DEFINE g == NewFrame(fl, frame)
           new == Len(fl.heap) + 1
           h == PushFrame(g, x, new)
           ns == <<Native(frame)>>
<1>1. /\ FlowTypeOK(g)
      /\ g.target = fl.target /\ g.inbox = fl.inbox /\ g.fifo = fl.fifo
      /\ Len(g.heap) = new
      /\ \A r \in 1 .. Len(fl.heap) : g.heap[r] = fl.heap[r]
      /\ g.heap[new] = frame
  BY NewFrameEffect
<1>2. Len(fl.heap) \in Nat /\ fl.fifo \in [Boxes -> Seq(1 .. Len(fl.heap))]
  BY DEF FlowTypeOK
<1> HIDE DEF g
<1>3. HandedTo(fl, g, {}, ns)
  <2>1. \A r \in 1 .. Len(fl.heap) : Native(g.heap[r]) = Native(fl.heap[r])
    BY <1>1
  <2>2. ASSUME NEW y \in Boxes
        PROVE  NativesOf(g, g.fifo[y]) = NativesOf(fl, fl.fifo[y])
    <3>1. fl.fifo[y] \in Seq(1 .. Len(fl.heap))
      BY <1>2
    <3> QED BY <1>1, <1>2, <2>1, <3>1, NativesOfKept, SMTT(30)
  <2> HIDE DEF ns
  <2> QED BY <1>1, <1>2, <2>1, <2>2 DEF HandedTo
<1>4. HandedTo(g, h, {x}, ns)
  <2>1. new \in 1 .. Len(g.heap)
    BY <1>1, <1>2
  <2> HIDE DEF new
  <2> QED BY <1>1, <2>1, PushFrameHands
<1> HIDE DEF ns, h
<1>5. HandedTo(fl, h, {} \cup {x}, ns)
  BY <1>3, <1>4, HandedToMore
<1>6. HandedTo(fl, h, {x}, ns)
  BY <1>5
<1> QED BY <1>6 DEF h, g, ns

\* Copies of a frame to all outboxes.
LEMMA PushCopiesHands ==
  ASSUME NEW fl, FlowTypeOK(fl), NEW m \in Modules, NEW ref \in 1 .. Len(fl.heap)
  PROVE  HandedTo(fl, PushCopies(fl, m, ref), BoxesOf(m), <<Native(fl.heap[ref])>>)
<1> DEFINE n == Len(OutBoxes[m])
           First(i) == {<<m, OutBoxes[m][k]>> : k \in 1 .. i}
           ns == <<Native(fl.heap[ref])>>
<1>1. /\ n \in Nat /\ DOMAIN OutBoxes[m] = 1 .. n
      /\ \A i, j \in 1 .. n : OutBoxes[m][i] = OutBoxes[m][j] => i = j
  BY FrameFlowAssumption
<1>2. BoxesOf(m) = First(n)
  BY <1>1 DEF BoxesOf, Boxes, ToSet
<1>3. /\ Len(ToEach(m, ref)) = n
      /\ \A k \in 1 .. n : ToEach(m, ref)[k] = [box |-> <<m, OutBoxes[m][k]>>, ref |-> ref]
  BY <1>1 DEF ToEach
<1>4. PICK f : /\ f[0] = fl
               /\ \A i \in 1 .. n : f[i] = CopyTo(f[i - 1], ToEach(m, ref)[i])
               /\ PushCopies(fl, m, ref) = f[n]
  BY <1>1, <1>3, Copying!FoldStates DEF PushCopies
<1> DEFINE T == {i \in 0 .. n : HandedTo(fl, f[i], First(i), ns)}
<1> HIDE DEF n
<1>5. 0 \in T
  <2>1. First(0) = {}
    OBVIOUS
  <2>2. HandedTo(fl, f[0], First(0), ns)
    BY <1>4, <2>1, HandedToNone
  <2> QED BY <1>1, <2>2
<1>6. ASSUME NEW i \in 0 .. n - 1, i \in T
      PROVE  i + 1 \in T
  <2> DEFINE x == <<m, OutBoxes[m][i + 1]>>
             frame == f[i].heap[ref]
  <2>1. i + 1 \in 1 .. n /\ (i + 1) - 1 = i
    BY <1>1
  <2>2. x \in Boxes
    BY <1>1, <2>1 DEF Boxes, ToSet
  <2>3. f[i + 1] = PushFrame(NewFrame(f[i], frame), x, Len(f[i].heap) + 1)
    <3>1. ToEach(m, ref)[i + 1] = [box |-> x, ref |-> ref]
      BY <1>3, <2>1
    <3>2. f[i + 1] = CopyTo(f[i], [box |-> x, ref |-> ref])
      BY <1>4, <2>1, <3>1
    <3> QED BY <3>2 DEF CopyTo
  <2>4. HandedTo(fl, f[i], First(i), ns)
    BY <1>6
  <2>5. /\ FlowTypeOK(f[i]) /\ FrameTypeOK(frame)
        /\ Native(frame) = Native(fl.heap[ref])
    <3>1. Len(f[i].heap) \in Nat /\ Len(fl.heap) \in Nat
      BY <2>4 DEF HandedTo, FlowTypeOK
    <3>2. FlowTypeOK(f[i]) /\ ref \in 1 .. Len(f[i].heap) /\ Native(frame) = Native(fl.heap[ref])
      BY <2>4, <3>1 DEF HandedTo
    <3>3. \A r \in 1 .. Len(f[i].heap) : FrameTypeOK(f[i].heap[r])
      BY <3>2 DEF FlowTypeOK
    <3> QED BY <3>2, <3>3
  <2>6. HandedTo(f[i], f[i + 1], {x}, ns)
    BY <2>2, <2>3, <2>5, CopyHands
  <2>7. First(i) \cap {x} = {} /\ First(i + 1) = First(i) \cup {x}
    BY <1>1, <2>1
  <2>8. HandedTo(fl, f[i + 1], First(i + 1), ns)
    BY <2>4, <2>6, <2>7, HandedToMore
  <2> QED BY <2>1, <2>8
<1> HIDE DEF T
<1>7. 0 .. n \subseteq T
  BY <1>1, <1>5, <1>6, Pushing!NatIndUpTo
<1>8. n \in T
  BY <1>1, <1>7
<1>9. HandedTo(fl, f[n], First(n), ns)
  BY <1>8 DEF T
<1> QED BY <1>2, <1>4, <1>9

\* The head of a module's inbox is taken out, and nothing else changes.
LEMMA PopFrameEffect ==
  ASSUME NEW fl, FlowTypeOK(fl), NEW m \in Modules, Waiting(fl, m) # <<>>
  PROVE  LET g == PopFrame(fl, m)
             x == fl.inbox[m]
         IN  /\ FlowTypeOK(g)
             /\ x \in Boxes /\ fl.fifo[x] # <<>>
             /\ PeekFrame(fl, m) = fl.fifo[x][1] /\ PeekFrame(fl, m) \in 1 .. Len(fl.heap)
             /\ g.target = fl.target /\ g.inbox = fl.inbox
             /\ g.mixer = fl.mixer /\ g.heap = fl.heap
             /\ g.fifo[x] = Tail(fl.fifo[x])
             /\ \A y \in Boxes : y # x => g.fifo[y] = fl.fifo[y]
<1> DEFINE g == PopFrame(fl, m)
           x == fl.inbox[m]
           rest == Tail(fl.fifo[x])
<1>1. /\ fl = [target |-> fl.target, inbox |-> fl.inbox, fifo |-> fl.fifo,
               mixer |-> fl.mixer, heap |-> fl.heap]
      /\ fl.fifo \in [Boxes -> Seq(1 .. Len(fl.heap))]
      /\ fl.inbox \in [Modules -> Boxes \cup {None}]
  BY DEF FlowTypeOK
<1>2. x \in Boxes /\ fl.fifo[x] # <<>> /\ Waiting(fl, m) = fl.fifo[x]
  BY <1>1 DEF Waiting, HasInBox
<1>3. fl.fifo[x] \in Seq(1 .. Len(fl.heap))
  BY <1>1, <1>2
<1>4. /\ rest \in Seq(1 .. Len(fl.heap))
      /\ Head(fl.fifo[x]) = fl.fifo[x][1]
      /\ fl.fifo[x][1] \in 1 .. Len(fl.heap)
  <2> DEFINE q == fl.fifo[x]
  <2>1. q \in Seq(1 .. Len(fl.heap)) /\ q # <<>>
    BY <1>2, <1>3
  <2> HIDE DEF q
  <2>2. Tail(q) \in Seq(1 .. Len(fl.heap)) /\ Head(q) = q[1] /\ q[1] \in 1 .. Len(fl.heap)
    BY <2>1
  <2> QED BY <2>2 DEF q
<1>5. g = [fl EXCEPT !.fifo[x] = rest]
  BY DEF PopFrame
<1> HIDE DEF g, rest, x
<1>6. /\ g = [target |-> g.target, inbox |-> g.inbox, fifo |-> g.fifo,
              mixer |-> g.mixer, heap |-> g.heap]
      /\ g.target = fl.target /\ g.inbox = fl.inbox
      /\ g.mixer = fl.mixer /\ g.heap = fl.heap
      /\ g.fifo = [fl.fifo EXCEPT ![x] = rest]
  BY <1>1, <1>5
<1>7. g.fifo \in [Boxes -> Seq(1 .. Len(g.heap))]
  BY <1>1, <1>4, <1>6
<1>8. FlowTypeOK(g)
  BY <1>6, <1>7 DEF FlowTypeOK
<1>9. g.fifo[x] = rest /\ \A y \in Boxes : y # x => g.fifo[y] = fl.fifo[y]
  BY <1>1, <1>2, <1>6
<1>10. PeekFrame(fl, m) = fl.fifo[x][1]
  BY <1>2, <1>4 DEF PeekFrame
<1> QED BY <1>2, <1>4, <1>6, <1>8, <1>9, <1>10 DEF g, x, rest

-----------------------------------------------------------------------------
(* What is mixed into the frames that are waiting.                          *)

\* Every reference is in one place only.
Once(fl) ==
  \A x, y \in Boxes : \A j \in DOMAIN fl.fifo[x], k \in DOMAIN fl.fifo[y] :
    fl.fifo[x][j] = fl.fifo[y][k] => x = y /\ j = k

\* The references in the fifos.
Refs(fl) == UNION {ToSet(fl.fifo[x]) : x \in Boxes}

\* The first k frames waiting in an outbox.
Foremost(fl, x, k) == [i \in 1 .. k |-> Native(fl.heap[fl.fifo[x][i]])]

\* The parents known once these have followed the frames of past.
Known(fl, past, x, k) == ParentsAfter(FALSE, past \o Foremost(fl, x, k))

\* Into each frame of an outbox, from which past has been taken, the latest of
\* those before it are mixed, and those before the next one are in the cache.
BoxMixed(fl, past, x) ==
  /\ fl.mixer[x] = Known(fl, past, x, Len(fl.fifo[x]))
  /\ \A k \in DOMAIN fl.fifo[x] :
       LET frame == fl.heap[fl.fifo[x][k]]
       IN  frame.mixed = Ids(GetMixedFrames(Known(fl, past, x, k), FALSE, frame.stop))

FlowMixed(fl, past) ==
  /\ FlowTypeOK(fl) /\ Once(fl) /\ past \in [Boxes -> Seq(Natives)]
  /\ \A x \in Boxes : fl.target[x] # None => BoxMixed(fl, past[x], x)

LEMMA ParentsAfterNone == ParentsAfter(FALSE, <<>>) = <<>>
BY Keeping!FoldEmpty DEF ParentsAfter, Mixed

LEMMA ParentsAfterAppend ==
  ASSUME NEW s \in Seq(Natives), NEW n \in Natives
  PROVE  ParentsAfter(FALSE, Append(s, n)) =
           UpdateDependencies(ParentsAfter(FALSE, s), FALSE, n)
<1>0. PICK ordered : ordered = FALSE
  OBVIOUS
<1> DEFINE none == [ordered |-> ordered, parents |-> <<>>]
           Kept(t) == Keeping!Fold(none, t).parents
           T == {t \in Seq(Natives) :
                   Keeping!Fold(none, t) = [ordered |-> ordered, parents |-> Kept(t)]}
<1>1. \A t \in Seq(Natives) : \A y \in Natives :
        Keeping!Fold(none, Append(t, y)) = KeepParent(Keeping!Fold(none, t), y)
  BY Keeping!FoldAppend
<1>2. ASSUME NEW k, NEW y
      PROVE  KeepParent([ordered |-> ordered, parents |-> k], y) =
               [ordered |-> ordered, parents |-> UpdateDependencies(k, ordered, y)]
  BY DEF KeepParent
<1>3. <<>> \in T
  <2>1. Keeping!Fold(none, <<>>) = none
    BY Keeping!FoldEmpty
  <2> QED BY <2>1
<1>4. ASSUME NEW t \in T, NEW y \in Natives
      PROVE  Append(t, y) \in T
  <2> DEFINE k == UpdateDependencies(Kept(t), ordered, y)
  <2>1. Keeping!Fold(none, Append(t, y)) = KeepParent([ordered |-> ordered, parents |-> Kept(t)], y)
    BY <1>1
  <2>2. Keeping!Fold(none, Append(t, y)) = [ordered |-> ordered, parents |-> k]
    BY <1>2, <2>1
  <2> HIDE DEF k, none
  <2>3. Append(t, y) \in Seq(Natives)
    OBVIOUS
  <2> QED BY <2>2, <2>3
<1>5. Seq(Natives) \subseteq T
  BY <1>3, <1>4, Sifting!SeqInd
<1>6. Keeping!Fold(none, Append(s, n)) = KeepParent([ordered |-> ordered, parents |-> Kept(s)], n)
  BY <1>1, <1>5
<1>7. KeepParent([ordered |-> ordered, parents |-> Kept(s)], n) =
        [ordered |-> ordered, parents |-> UpdateDependencies(Kept(s), ordered, n)]
  BY <1>2
<1> HIDE DEF Kept
<1>8. Keeping!Fold(none, Append(s, n)).parents = UpdateDependencies(Kept(s), ordered, n)
  BY <1>6, <1>7
<1> QED BY <1>0, <1>8 DEF ParentsAfter, Mixed, Kept

LEMMA ForemostTypes ==
  ASSUME NEW fl, FlowTypeOK(fl), NEW x \in Boxes, NEW k \in 0 .. Len(fl.fifo[x])
  PROVE  /\ Foremost(fl, x, k) \in Seq(Natives) /\ Len(Foremost(fl, x, k)) = k
         /\ \A i \in 1 .. k : Foremost(fl, x, k)[i] = Native(fl.heap[fl.fifo[x][i]])
<1>1. fl.fifo[x] \in Seq(1 .. Len(fl.heap)) /\ Len(fl.fifo[x]) \in Nat
  BY DEF FlowTypeOK
<1>2. ASSUME NEW i \in 1 .. k
      PROVE  Native(fl.heap[fl.fifo[x][i]]) \in Natives
  <2>1. fl.fifo[x][i] \in 1 .. Len(fl.heap)
    BY <1>1, ElementOfSeq, SMTT(30)
  <2> QED BY <2>1 DEF FlowTypeOK, FrameTypeOK
<1>3. Foremost(fl, x, k) \in [1 .. k -> Natives]
  BY <1>2 DEF Foremost
<1>4. k \in Nat
  BY <1>1
<1>5. Foremost(fl, x, k) \in Seq(Natives) /\ Len(Foremost(fl, x, k)) = k
  BY <1>3, <1>4
<1>6. \A i \in 1 .. k : Foremost(fl, x, k)[i] = Native(fl.heap[fl.fifo[x][i]])
  BY DEF Foremost
<1> QED BY <1>5, <1>6

LEMMA SameForemost ==
  ASSUME NEW fl, NEW g, NEW x, NEW k,
         \A i \in 1 .. k : Native(g.heap[g.fifo[x][i]]) = Native(fl.heap[fl.fifo[x][i]])
  PROVE  Foremost(g, x, k) = Foremost(fl, x, k)
BY DEF Foremost

\* A concatenation: its first part and its second.
LEMMA ConcatParts ==
  ASSUME NEW s \in Seq(Natives), NEW t \in Seq(Natives)
  PROVE  /\ s \o t \in Seq(Natives) /\ Len(s \o t) = Len(s) + Len(t)
         /\ \A i \in 1 .. Len(s) : (s \o t)[i] = s[i]
         /\ \A i \in Len(s) + 1 .. Len(s) + Len(t) : (s \o t)[i] = t[i - Len(s)]
<1>1. Len(s) \in Nat /\ Len(t) \in Nat
  OBVIOUS
<1> DEFINE u == s \o t
<1>2. /\ u \in Seq(Natives) /\ Len(u) = Len(s) + Len(t)
      /\ \A i \in 1 .. Len(s) + Len(t) : u[i] = IF i <= Len(s) THEN s[i] ELSE t[i - Len(s)]
  BY ConcatProperties
<1> HIDE DEF u
<1>3. \A i \in 1 .. Len(s) : u[i] = s[i]
  BY <1>1, <1>2
<1>4. \A i \in Len(s) + 1 .. Len(s) + Len(t) : u[i] = t[i - Len(s)]
  BY <1>1, <1>2
<1> QED BY <1>2, <1>3, <1>4 DEF u

LEMMA KnownMore ==
  ASSUME NEW fl, FlowTypeOK(fl), NEW x \in Boxes, NEW k \in Nat, k < Len(fl.fifo[x]),
         NEW p \in Seq(Natives)
  PROVE  Known(fl, p, x, k + 1) =
           UpdateDependencies(Known(fl, p, x, k), FALSE, Native(fl.heap[fl.fifo[x][k + 1]]))
<1> DEFINE n == Native(fl.heap[fl.fifo[x][k + 1]])
           s == Foremost(fl, x, k)
           t == Foremost(fl, x, k + 1)
<1>0. fl.fifo[x] \in Seq(1 .. Len(fl.heap)) /\ Len(fl.fifo[x]) \in Nat
  BY DEF FlowTypeOK
<1>1. k \in Nat /\ k \in 0 .. Len(fl.fifo[x]) /\ k + 1 \in 0 .. Len(fl.fifo[x])
  BY <1>0
<1>2. /\ s \in Seq(Natives) /\ Len(s) = k
      /\ \A i \in 1 .. k : s[i] = Native(fl.heap[fl.fifo[x][i]])
  BY <1>1, ForemostTypes
<1>3. /\ t \in Seq(Natives) /\ Len(t) = k + 1
      /\ \A i \in 1 .. k + 1 : t[i] = Native(fl.heap[fl.fifo[x][i]])
  BY <1>1, ForemostTypes
<1>4. n \in Natives
  BY <1>1, <1>3, ElementOfSeq
<1> DEFINE u == Append(p \o s, n)
           v == p \o t
<1> DEFINE w == p \o s
<1> HIDE DEF s, t
<1>5. /\ w \in Seq(Natives) /\ Len(w) = Len(p) + k
      /\ \A i \in 1 .. Len(p) : w[i] = p[i]
      /\ \A i \in Len(p) + 1 .. Len(p) + k : w[i] = s[i - Len(p)]
  <2>1. /\ w \in Seq(Natives) /\ Len(w) = Len(p) + Len(s)
        /\ \A i \in 1 .. Len(p) : w[i] = p[i]
        /\ \A i \in Len(p) + 1 .. Len(p) + Len(s) : w[i] = s[i - Len(p)]
    BY <1>2, ConcatParts
  <2> HIDE DEF w
  <2> QED BY <1>2, <2>1
<1>6. /\ v \in Seq(Natives) /\ Len(v) = Len(p) + (k + 1)
      /\ \A i \in 1 .. Len(p) : v[i] = p[i]
      /\ \A i \in Len(p) + 1 .. Len(p) + (k + 1) : v[i] = t[i - Len(p)]
  <2>1. /\ v \in Seq(Natives) /\ Len(v) = Len(p) + Len(t)
        /\ \A i \in 1 .. Len(p) : v[i] = p[i]
        /\ \A i \in Len(p) + 1 .. Len(p) + Len(t) : v[i] = t[i - Len(p)]
    BY <1>3, ConcatParts
  <2> HIDE DEF v
  <2> QED BY <1>3, <2>1
<1> HIDE DEF w
<1>7. /\ u \in Seq(Natives) /\ Len(u) = Len(p) + k + 1
      /\ \A i \in 1 .. Len(p) + k : u[i] = w[i]
      /\ u[Len(p) + k + 1] = n
  BY <1>4, <1>5, AppendProperties DEF w
<1> HIDE DEF u, v, n, s, t
<1>8. ASSUME NEW i \in 1 .. Len(p) + k + 1
      PROVE  u[i] = v[i]
  <2>0. Len(p) \in Nat
    OBVIOUS
  <2>1. CASE i \in 1 .. Len(p)
    BY <1>1, <1>5, <1>6, <1>7, <2>0, <2>1 DEF w
  <2>2. CASE i \in Len(p) + 1 .. Len(p) + k
    <3>1. i - Len(p) \in 1 .. k
      BY <1>1, <2>0, <2>2
    <3>2. s[i - Len(p)] = t[i - Len(p)]
      BY <1>1, <1>2, <1>3, <3>1
    <3>3. u[i] = s[i - Len(p)]
      BY <1>1, <1>5, <1>7, <2>0, <2>2 DEF w
    <3>4. v[i] = t[i - Len(p)]
      BY <1>1, <1>6, <2>0, <2>2
    <3> QED BY <3>2, <3>3, <3>4
  <2>3. CASE i = Len(p) + k + 1
    <3>1. v[i] = t[i - Len(p)]
      BY <1>1, <1>6, <2>0, <2>3
    <3>2. i - Len(p) = k + 1
      BY <1>1, <2>0, <2>3
    <3>3. t[k + 1] = n
      BY <1>1, <1>3 DEF n
    <3> QED BY <1>7, <2>3, <3>1, <3>2, <3>3
  <2> QED BY <1>1, <2>0, <2>1, <2>2, <2>3
<1>9. u = v
  BY <1>6, <1>7, <1>8, SeqEqual
<1>10. ParentsAfter(FALSE, u) = UpdateDependencies(ParentsAfter(FALSE, w), FALSE, n)
  BY <1>4, <1>5, ParentsAfterAppend DEF u, w
<1> QED BY <1>9, <1>10 DEF Known, s, t, n, v, w

\* Where the frames in front are the same, the same is known.
LEMMA SameKnown ==
  ASSUME NEW fl, NEW g, NEW x, NEW k, NEW p, Foremost(g, x, k) = Foremost(fl, x, k)
  PROVE  Known(g, p, x, k) = Known(fl, p, x, k)
BY DEF Known

\* An outbox whose fifo, frames and cache are left alone.
LEMMA SameBoxMixed ==
  ASSUME NEW fl, NEW g, FlowTypeOK(fl), NEW x \in Boxes, NEW p, BoxMixed(fl, p, x),
         g.fifo[x] = fl.fifo[x], g.mixer[x] = fl.mixer[x],
         \A k \in DOMAIN fl.fifo[x] : g.heap[fl.fifo[x][k]] = fl.heap[fl.fifo[x][k]]
  PROVE  BoxMixed(g, p, x)
<1>1. DOMAIN fl.fifo[x] = 1 .. Len(fl.fifo[x]) /\ Len(fl.fifo[x]) \in Nat
  BY DEF FlowTypeOK
<1>2. ASSUME NEW k \in 0 .. Len(fl.fifo[x])
      PROVE  Known(g, p, x, k) = Known(fl, p, x, k)
  <2>1. \A i \in 1 .. k : i \in DOMAIN fl.fifo[x]
    BY <1>1
  <2>2. Foremost(g, x, k) = Foremost(fl, x, k)
    BY <2>1, SameForemost
  <2> QED BY <2>2, SameKnown
<1>3. g.mixer[x] = Known(g, p, x, Len(g.fifo[x]))
  <2>1. Len(fl.fifo[x]) \in 0 .. Len(fl.fifo[x])
    BY <1>1
  <2>2. Known(g, p, x, Len(fl.fifo[x])) = Known(fl, p, x, Len(fl.fifo[x]))
    BY <1>2, <2>1
  <2>3. fl.mixer[x] = Known(fl, p, x, Len(fl.fifo[x]))
    BY DEF BoxMixed
  <2> QED BY <2>2, <2>3
<1>4. ASSUME NEW k \in DOMAIN g.fifo[x]
      PROVE  LET frame == g.heap[g.fifo[x][k]]
             IN  frame.mixed = Ids(GetMixedFrames(Known(g, p, x, k), FALSE, frame.stop))
  <2>1. k \in DOMAIN fl.fifo[x] /\ k \in 0 .. Len(fl.fifo[x])
    BY <1>1
  <2>2. Known(g, p, x, k) = Known(fl, p, x, k)
    BY <1>2, <2>1
  <2>3. g.heap[g.fifo[x][k]] = fl.heap[fl.fifo[x][k]]
    BY <2>1
  <2>4. fl.heap[fl.fifo[x][k]].mixed =
          Ids(GetMixedFrames(Known(fl, p, x, k), FALSE, fl.heap[fl.fifo[x][k]].stop))
    BY <2>1 DEF BoxMixed
  <2> QED BY <2>2, <2>3, <2>4
<1> QED BY <1>3, <1>4 DEF BoxMixed

\* A reference that is nowhere yet is pushed.
LEMMA PushMixes ==
  ASSUME NEW fl, NEW past, FlowMixed(fl, past), NEW x \in Boxes,
         NEW ref \in 1 .. Len(fl.heap), ref \notin Refs(fl)
  PROVE  LET g == PushFrame(fl, x, ref)
         IN  /\ FlowMixed(g, past)
             /\ Refs(g) \subseteq Refs(fl) \cup {ref}
             /\ Len(g.heap) = Len(fl.heap)
<1>1. FlowTypeOK(fl) /\ Once(fl) /\ past \in [Boxes -> Seq(Natives)] /\ Len(fl.heap) \in Nat
  BY DEF FlowMixed, FlowTypeOK
<1>2. CASE fl.target[x] = None
  BY <1>1, <1>2 DEF PushFrame
<1>3. CASE fl.target[x] # None
  <2> DEFINE g == PushFrame(fl, x, ref)
             q == fl.fifo[x]
             n == Len(q)
  <2>1. /\ FlowTypeOK(g)
        /\ g.target = fl.target /\ g.inbox = fl.inbox
        /\ \A y \in Boxes : y # x => g.fifo[y] = fl.fifo[y] /\ g.mixer[y] = fl.mixer[y]
        /\ g.fifo[x] = Append(fl.fifo[x], ref)
        /\ g.mixer[x] = UpdateDependencies(fl.mixer[x], FALSE, Native(fl.heap[ref]))
        /\ Len(g.heap) = Len(fl.heap)
        /\ \A r \in 1 .. Len(fl.heap) :
             /\ Native(g.heap[r]) = Native(fl.heap[r])
             /\ r # ref => g.heap[r] = fl.heap[r]
        /\ g.heap[ref].mixed = Ids(GetMixedFrames(g.mixer[x], FALSE, fl.heap[ref].stop))
    BY <1>1, <1>3, PushFrameEffect
  <2> HIDE DEF g
  <2>2. ASSUME NEW y \in Boxes, NEW k \in DOMAIN fl.fifo[y]
        PROVE  /\ fl.fifo[y][k] \in 1 .. Len(fl.heap) /\ fl.fifo[y][k] # ref
               /\ g.heap[fl.fifo[y][k]] = fl.heap[fl.fifo[y][k]]
    <3>1. fl.fifo[y][k] \in Refs(fl)
      BY DEF Refs, ToSet
    <3>2. fl.fifo[y] \in Seq(1 .. Len(fl.heap))
      BY <1>1 DEF FlowTypeOK
    <3>3. fl.fifo[y][k] \in 1 .. Len(fl.heap)
      BY <3>2
    <3> QED BY <2>1, <3>1, <3>3
  <2>3. /\ q \in Seq(1 .. Len(fl.heap)) /\ n \in Nat /\ DOMAIN q = 1 .. n
        /\ Len(g.fifo[x]) = n + 1 /\ DOMAIN g.fifo[x] = 1 .. n + 1
        /\ \A k \in 1 .. n : g.fifo[x][k] = q[k]
        /\ g.fifo[x][n + 1] = ref
    <3>1. q \in Seq(1 .. Len(fl.heap))
      BY <1>1 DEF FlowTypeOK
    <3> HIDE DEF q
    <3>2. /\ Append(q, ref) \in Seq(1 .. Len(fl.heap)) /\ Len(Append(q, ref)) = n + 1
          /\ \A k \in 1 .. n : Append(q, ref)[k] = q[k]
          /\ Append(q, ref)[n + 1] = ref
      BY <3>1, AppendProperties
    <3>3. g.fifo[x] = Append(q, ref)
      BY <2>1 DEF q
    <3> QED BY <3>1, <3>2, <3>3
  <2>4. Once(g)
    <3> SUFFICES ASSUME NEW y \in Boxes, NEW z \in Boxes,
                        NEW j \in DOMAIN g.fifo[y], NEW k \in DOMAIN g.fifo[z],
                        g.fifo[y][j] = g.fifo[z][k]
                 PROVE  y = z /\ j = k
      BY DEF Once
    <3>1. ASSUME NEW w \in Boxes, NEW i \in DOMAIN g.fifo[w]
          PROVE  \/ i \in DOMAIN fl.fifo[w] /\ g.fifo[w][i] = fl.fifo[w][i] /\ g.fifo[w][i] # ref
                 \/ w = x /\ i = n + 1 /\ g.fifo[w][i] = ref
      <4>1. CASE w # x
        BY <2>1, <2>2, <4>1
      <4>2. CASE w = x
        <5>1. CASE i \in 1 .. n
          <6>1. i \in DOMAIN fl.fifo[x] /\ g.fifo[x][i] = fl.fifo[x][i]
            BY <2>3, <5>1
          <6> QED BY <2>2, <4>2, <6>1
        <5>2. CASE i = n + 1
          BY <2>3, <4>2, <5>2
        <5>3. i \in 1 .. n \/ i = n + 1
          <6>1. i \in 1 .. n + 1
            BY <2>3, <4>2
          <6> HIDE DEF n
          <6> QED BY <2>3, <6>1
        <5> QED BY <5>1, <5>2, <5>3
      <4> QED BY <4>1, <4>2
    <3> HIDE DEF n
    <3>2. \/ j \in DOMAIN fl.fifo[y] /\ g.fifo[y][j] = fl.fifo[y][j] /\ g.fifo[y][j] # ref
          \/ y = x /\ j = n + 1 /\ g.fifo[y][j] = ref
      BY <3>1
    <3>3. \/ k \in DOMAIN fl.fifo[z] /\ g.fifo[z][k] = fl.fifo[z][k] /\ g.fifo[z][k] # ref
          \/ z = x /\ k = n + 1 /\ g.fifo[z][k] = ref
      BY <3>1
    <3> QED BY <1>1, <3>2, <3>3 DEF Once
  <2>5. Refs(g) \subseteq Refs(fl) \cup {ref}
    <3> SUFFICES ASSUME NEW y \in Boxes, NEW k \in DOMAIN g.fifo[y]
                 PROVE  g.fifo[y][k] \in Refs(fl) \cup {ref}
      BY DEF Refs, ToSet
    <3>1. ASSUME NEW i \in DOMAIN fl.fifo[y]
          PROVE  fl.fifo[y][i] \in Refs(fl)
      BY DEF Refs, ToSet
    <3>2. CASE y # x
      BY <2>1, <3>1, <3>2
    <3>3. CASE y = x
      <4>1. CASE k \in 1 .. n
        <5>1. k \in DOMAIN fl.fifo[y] /\ g.fifo[y][k] = fl.fifo[y][k]
          BY <2>3, <3>3, <4>1
        <5> QED BY <3>1, <5>1
      <4>2. CASE k = n + 1
        BY <2>3, <3>3, <4>2
      <4>3. k \in 1 .. n \/ k = n + 1
        <5>1. k \in 1 .. n + 1
          BY <2>3, <3>3
        <5> HIDE DEF n
        <5> QED BY <2>3, <5>1
      <4> QED BY <4>1, <4>2, <4>3
    <3> QED BY <3>2, <3>3
  <2>6. ASSUME NEW y \in Boxes, g.target[y] # None, y # x
        PROVE  BoxMixed(g, past[y], y)
    <3>1. BoxMixed(fl, past[y], y)
      BY <2>1, <2>6 DEF FlowMixed
    <3>2. g.fifo[y] = fl.fifo[y] /\ g.mixer[y] = fl.mixer[y]
      BY <2>1, <2>6
    <3> QED BY <1>1, <2>2, <3>1, <3>2, SameBoxMixed
  <2>7. BoxMixed(g, past[x], x)
    <3> DEFINE p == past[x]
    <3>1. p \in Seq(Natives) /\ BoxMixed(fl, p, x)
      BY <1>1, <1>3 DEF FlowMixed
    <3> HIDE DEF p
    <3>2. ASSUME NEW k \in 0 .. n
          PROVE  Known(g, p, x, k) = Known(fl, p, x, k)
      <4>1. ASSUME NEW i \in 1 .. k
            PROVE  Native(g.heap[g.fifo[x][i]]) = Native(fl.heap[fl.fifo[x][i]])
        <5>1. i \in 1 .. n
          BY <2>3
        <5>2. g.fifo[x][i] = fl.fifo[x][i]
          BY <2>3, <5>1
        <5>3. fl.fifo[x][i] \in 1 .. Len(fl.heap)
          BY <2>2, <2>3, <5>1
        <5> QED BY <2>1, <5>2, <5>3
      <4> QED BY <4>1, SameForemost, SameKnown
    <3>3. Native(g.heap[g.fifo[x][n + 1]]) = Native(fl.heap[ref])
      BY <2>1, <2>3
    <3>4. Known(g, p, x, n + 1) = g.mixer[x]
      <4>1. n \in Nat /\ n < Len(g.fifo[x]) /\ n \in 0 .. n
        BY <2>3
      <4>2. Known(g, p, x, n + 1) =
              UpdateDependencies(Known(g, p, x, n), FALSE, Native(g.heap[g.fifo[x][n + 1]]))
        <5> HIDE DEF n
        <5>1. FlowTypeOK(g)
          BY <2>1
        <5> QED BY <3>1, <4>1, <5>1, KnownMore
      <4>3. Known(g, p, x, n) = fl.mixer[x]
        BY <3>1, <3>2, <4>1 DEF BoxMixed
      <4> QED BY <2>1, <3>3, <4>2, <4>3
    <3>5. ASSUME NEW k \in DOMAIN g.fifo[x]
          PROVE  g.heap[g.fifo[x][k]].mixed =
                   Ids(GetMixedFrames(Known(g, p, x, k), FALSE, g.heap[g.fifo[x][k]].stop))
      <4>1. CASE k \in 1 .. n
        <5>1. k \in 0 .. n /\ k \in DOMAIN fl.fifo[x] /\ g.fifo[x][k] = fl.fifo[x][k]
          BY <2>3, <4>1
        <5>2. g.heap[g.fifo[x][k]] = fl.heap[fl.fifo[x][k]]
          BY <2>2, <5>1
        <5>3. Known(g, p, x, k) = Known(fl, p, x, k)
          BY <3>2, <5>1
        <5> QED BY <3>1, <5>1, <5>2, <5>3 DEF BoxMixed
      <4>2. CASE k = n + 1
        <5>1. g.heap[ref].stop = fl.heap[ref].stop
          BY <2>1 DEF Native
        <5>2. g.fifo[x][k] = ref
          BY <2>3, <4>2
        <5>3. Known(g, p, x, k) = g.mixer[x]
          BY <3>4, <4>2
        <5> HIDE DEF n
        <5> QED BY <2>1, <5>1, <5>2, <5>3
      <4>3. k \in 1 .. n \/ k = n + 1
        <5>1. k \in 1 .. n + 1
          BY <2>3
        <5> HIDE DEF n
        <5> QED BY <2>3, <5>1
      <4> QED BY <4>1, <4>2, <4>3
    <3>6. g.mixer[x] = Known(g, p, x, Len(g.fifo[x]))
      BY <2>3, <3>4
    <3>7. BoxMixed(g, p, x)
      BY <3>5, <3>6 DEF BoxMixed
    <3> QED BY <3>7 DEF p
  <2>8. FlowMixed(g, past)
    BY <1>1, <1>3, <2>1, <2>4, <2>6, <2>7 DEF FlowMixed
  <2> QED BY <2>1, <2>5, <2>8 DEF g
<1> QED BY <1>2, <1>3

LEMMA NewFrameMixes ==
  ASSUME NEW fl, NEW past, FlowMixed(fl, past), NEW frame, FrameTypeOK(frame)
  PROVE  LET g == NewFrame(fl, frame)
         IN  FlowMixed(g, past) /\ Refs(g) = Refs(fl)
<1> DEFINE g == NewFrame(fl, frame)
<1>0. FlowTypeOK(fl) /\ Once(fl) /\ past \in [Boxes -> Seq(Natives)]
  BY DEF FlowMixed
<1>1. /\ FlowTypeOK(g)
      /\ g.target = fl.target /\ g.fifo = fl.fifo /\ g.mixer = fl.mixer
      /\ \A r \in 1 .. Len(fl.heap) : g.heap[r] = fl.heap[r]
  BY <1>0, NewFrameEffect
<1> HIDE DEF g
<1>2. Once(g) /\ Refs(g) = Refs(fl)
  BY <1>0, <1>1 DEF Once, Refs
<1>3. ASSUME NEW x \in Boxes, g.target[x] # None
      PROVE  BoxMixed(g, past[x], x)
  <2>1. BoxMixed(fl, past[x], x)
    BY <1>1, <1>3 DEF FlowMixed
  <2>2. ASSUME NEW k \in DOMAIN fl.fifo[x]
        PROVE  g.heap[fl.fifo[x][k]] = fl.heap[fl.fifo[x][k]]
    <3>1. fl.fifo[x] \in Seq(1 .. Len(fl.heap))
      BY <1>0 DEF FlowTypeOK
    <3>2. fl.fifo[x][k] \in 1 .. Len(fl.heap)
      BY <3>1
    <3> QED BY <1>1, <3>2
  <2> QED BY <1>0, <1>1, <2>1, <2>2, SameBoxMixed
<1>4. FlowMixed(g, past)
  BY <1>0, <1>1, <1>2, <1>3 DEF FlowMixed
<1> QED BY <1>2, <1>4 DEF g

\* The first of a sequence goes over to the end of the one before it.
LEMMA AppendFirst ==
  ASSUME NEW p \in Seq(Natives), NEW a \in Seq(Natives), NEW b \in Seq(Natives), NEW h \in Natives,
         Len(a) = Len(b) + 1, a[1] = h, \A i \in 1 .. Len(b) : a[i + 1] = b[i]
  PROVE  Append(p, h) \o b = p \o a
<1> DEFINE q == Append(p, h)
           u == q \o b
           v == p \o a
<1>0. Len(p) \in Nat /\ Len(a) \in Nat /\ Len(b) \in Nat
  OBVIOUS
<1>1. /\ q \in Seq(Natives) /\ Len(q) = Len(p) + 1
      /\ \A i \in 1 .. Len(p) : q[i] = p[i]
      /\ q[Len(p) + 1] = h
  BY AppendProperties
<1> HIDE DEF q
<1>2. /\ u \in Seq(Natives) /\ Len(u) = Len(q) + Len(b)
      /\ \A i \in 1 .. Len(q) : u[i] = q[i]
      /\ \A i \in Len(q) + 1 .. Len(q) + Len(b) : u[i] = b[i - Len(q)]
  BY <1>1, ConcatParts
<1>3. /\ v \in Seq(Natives) /\ Len(v) = Len(p) + Len(a)
      /\ \A i \in 1 .. Len(p) : v[i] = p[i]
      /\ \A i \in Len(p) + 1 .. Len(p) + Len(a) : v[i] = a[i - Len(p)]
  BY ConcatParts
<1> HIDE DEF u, v
<1>4. Len(u) = Len(v)
  BY <1>0, <1>1, <1>2, <1>3
<1>5. ASSUME NEW i \in 1 .. Len(u)
      PROVE  u[i] = v[i]
  <2>1. CASE i \in 1 .. Len(p)
    BY <1>0, <1>1, <1>2, <1>3, <2>1
  <2>2. CASE i = Len(p) + 1
    <3>1. v[i] = a[i - Len(p)] /\ i - Len(p) = 1
      BY <1>0, <1>3, <2>2
    <3>2. i \in 1 .. Len(q) /\ u[i] = q[i]
      BY <1>0, <1>1, <1>2, <2>2
    <3> QED BY <1>1, <2>2, <3>1, <3>2
  <2>3. CASE i \in Len(p) + 2 .. Len(p) + Len(a)
    <3>1. i \in Len(q) + 1 .. Len(q) + Len(b) /\ i \in Len(p) + 1 .. Len(p) + Len(a)
      BY <1>0, <1>1, <2>3
    <3>2. u[i] = b[i - Len(q)] /\ v[i] = a[i - Len(p)]
      BY <1>2, <1>3, <3>1
    <3>3. i - Len(q) \in 1 .. Len(b) /\ i - Len(p) = (i - Len(q)) + 1
      BY <1>0, <1>1, <2>3
    <3> QED BY <3>2, <3>3
  <2>4. \/ i \in 1 .. Len(p)
        \/ i = Len(p) + 1
        \/ i \in Len(p) + 2 .. Len(p) + Len(a)
    BY <1>0, <1>3, <1>4
  <2> QED BY <2>1, <2>2, <2>3, <2>4
<1>6. u = v
  BY <1>2, <1>3, <1>4, <1>5, SeqEqual
<1> QED BY <1>6 DEF u, v, q

\* What is taken from an outbox goes over to its past.
LEMMA PopMixes ==
  ASSUME NEW fl, NEW past, FlowMixed(fl, past), NEW m \in Modules, Waiting(fl, m) # <<>>
  PROVE  LET g == PopFrame(fl, m)
             ref == PeekFrame(fl, m)
         IN  /\ FlowMixed(g, [past EXCEPT ![fl.inbox[m]] = Append(@, Native(fl.heap[ref]))])
             /\ Refs(g) \subseteq Refs(fl)
             /\ ref \in Refs(fl) /\ ref \notin Refs(g)
<1> DEFINE g == PopFrame(fl, m)
           x == fl.inbox[m]
           ref == PeekFrame(fl, m)
           q == fl.fifo[x]
           n == Len(q) - 1
           h == Native(fl.heap[ref])
           after == [past EXCEPT ![x] = Append(@, h)]
<1>0. FlowTypeOK(fl) /\ Once(fl) /\ past \in [Boxes -> Seq(Natives)]
  BY DEF FlowMixed
<1>1. /\ FlowTypeOK(g)
      /\ x \in Boxes /\ q # <<>>
      /\ ref = q[1] /\ ref \in 1 .. Len(fl.heap)
      /\ g.target = fl.target /\ g.inbox = fl.inbox
      /\ g.mixer = fl.mixer /\ g.heap = fl.heap
      /\ g.fifo[x] = Tail(q)
      /\ \A y \in Boxes : y # x => g.fifo[y] = fl.fifo[y]
  BY <1>0, PopFrameEffect
<1> HIDE DEF g, x, ref
<1>2. /\ q \in Seq(1 .. Len(fl.heap)) /\ n \in Nat /\ DOMAIN q = 1 .. n + 1
      /\ Len(g.fifo[x]) = n /\ DOMAIN g.fifo[x] = 1 .. n
      /\ \A k \in 1 .. n : g.fifo[x][k] = q[k + 1]
  <2>1. q \in Seq(1 .. Len(fl.heap)) /\ q # <<>>
    BY <1>0, <1>1 DEF FlowTypeOK
  <2> HIDE DEF q
  <2>2. /\ Tail(q) \in Seq(1 .. Len(fl.heap)) /\ Len(Tail(q)) = n
        /\ \A k \in 1 .. n : Tail(q)[k] = q[k + 1]
        /\ n \in Nat /\ DOMAIN q = 1 .. n + 1
    BY <2>1, HeadTailProperties
  <2> QED BY <1>1, <2>1, <2>2
<1>3. h \in Natives
  BY <1>0, <1>1 DEF FlowTypeOK, FrameTypeOK
<1> HIDE DEF n, h
<1>4. ASSUME NEW y \in Boxes, NEW k \in DOMAIN g.fifo[y]
      PROVE  \E j \in DOMAIN fl.fifo[y] :
               /\ fl.fifo[y][j] = g.fifo[y][k]
               /\ IF y = x THEN j = k + 1 ELSE j = k
  <2>1. CASE y = x
    <3>1. k + 1 \in DOMAIN q /\ q[k + 1] = g.fifo[x][k]
      BY <1>2, <2>1
    <3> QED BY <2>1, <3>1
  <2>2. CASE y # x
    BY <1>1, <2>2
  <2> QED BY <2>1, <2>2
<1>5. Once(g)
  <2> SUFFICES ASSUME NEW y \in Boxes, NEW z \in Boxes,
                      NEW j \in DOMAIN g.fifo[y], NEW k \in DOMAIN g.fifo[z],
                      g.fifo[y][j] = g.fifo[z][k]
               PROVE  y = z /\ j = k
    BY DEF Once
  <2>1. PICK i \in DOMAIN fl.fifo[y] : /\ fl.fifo[y][i] = g.fifo[y][j]
                                       /\ IF y = x THEN i = j + 1 ELSE i = j
    BY <1>4
  <2>2. PICK l \in DOMAIN fl.fifo[z] : /\ fl.fifo[z][l] = g.fifo[z][k]
                                       /\ IF z = x THEN l = k + 1 ELSE l = k
    BY <1>4
  <2>3. y = z /\ i = l
    BY <1>0, <2>1, <2>2 DEF Once
  <2>4. CASE y = x
    BY <1>2, <2>1, <2>2, <2>3, <2>4
  <2> QED BY <2>1, <2>2, <2>3, <2>4
<1>6. /\ Refs(g) \subseteq Refs(fl)
      /\ ref \in Refs(fl) /\ ref \notin Refs(g)
  <2>1. ref \in Refs(fl)
    <3>1. 1 \in DOMAIN q
      BY <1>2
    <3> QED BY <1>1, <3>1 DEF Refs, ToSet
  <2>2. ASSUME NEW y \in Boxes, NEW k \in DOMAIN g.fifo[y]
        PROVE  g.fifo[y][k] \in Refs(fl) /\ g.fifo[y][k] # ref
    <3>1. PICK j \in DOMAIN fl.fifo[y] : /\ fl.fifo[y][j] = g.fifo[y][k]
                                         /\ IF y = x THEN j = k + 1 ELSE j = k
      BY <1>4
    <3>2. fl.fifo[y][j] \in Refs(fl)
      BY DEF Refs, ToSet
    <3>3. g.fifo[y][k] # ref
      <4> SUFFICES ASSUME g.fifo[y][k] = ref PROVE FALSE
        OBVIOUS
      <4>1. 1 \in DOMAIN fl.fifo[x] /\ fl.fifo[x][1] = fl.fifo[y][j]
        BY <1>1, <1>2, <3>1
      <4>2. y = x /\ j = 1
        BY <1>0, <1>1, <4>1 DEF Once
      <4>3. j = k + 1 /\ k \in 1 .. n
        BY <1>2, <3>1, <4>2
      <4> QED BY <1>2, <4>2, <4>3
    <3> QED BY <3>1, <3>2, <3>3
  <2> QED BY <2>1, <2>2 DEF Refs, ToSet
<1>7. ASSUME NEW y \in Boxes, g.target[y] # None, y # x
      PROVE  BoxMixed(g, after[y], y)
  <2>1. BoxMixed(fl, past[y], y)
    BY <1>1, <1>7 DEF FlowMixed
  <2>2. after[y] = past[y]
    BY <1>0, <1>7
  <2>3. BoxMixed(g, past[y], y)
    BY <1>0, <1>1, <1>7, <2>1, SameBoxMixed
  <2> QED BY <2>2, <2>3
<1>8. ASSUME g.target[x] # None
      PROVE  BoxMixed(g, after[x], x)
  <2> DEFINE p == past[x]
             r == Append(p, h)
  <2>1. p \in Seq(Natives) /\ BoxMixed(fl, p, x) /\ after[x] = r
    BY <1>0, <1>1, <1>8 DEF FlowMixed
  <2> HIDE DEF p
  <2>2. ASSUME NEW k \in 0 .. n
        PROVE  Known(g, r, x, k) = Known(fl, p, x, k + 1)
    <3> DEFINE a == Foremost(fl, x, k + 1)
               b == Foremost(g, x, k)
    <3>0. k \in Nat /\ k + 1 \in 0 .. Len(fl.fifo[x]) /\ k \in 0 .. Len(g.fifo[x])
      BY <1>2 DEF n
    <3>1. /\ a \in Seq(Natives) /\ Len(a) = k + 1
          /\ \A i \in 1 .. k + 1 : a[i] = Native(fl.heap[q[i]])
      BY <1>0, <1>1, <3>0, ForemostTypes
    <3>2. /\ b \in Seq(Natives) /\ Len(b) = k
          /\ \A i \in 1 .. k : b[i] = Native(g.heap[g.fifo[x][i]])
      BY <1>1, <3>0, ForemostTypes
    <3> HIDE DEF a, b
    <3>3. a[1] = h
      BY <1>1, <3>0, <3>1 DEF h
    <3>4. ASSUME NEW i \in 1 .. Len(b)
          PROVE  a[i + 1] = b[i]
      <4>0. k \in Nat /\ n \in Nat /\ k <= n /\ i \in 1 .. k
        <5>1. n \in Nat
          BY <1>2
        <5> HIDE DEF n
        <5> QED BY <3>0, <3>2, <5>1
      <4>1. i \in 1 .. k /\ i \in 1 .. n /\ i + 1 \in 1 .. k + 1
        <5> HIDE DEF n
        <5> QED BY <4>0
      <4>2. a[i + 1] = Native(fl.heap[q[i + 1]])
        BY <3>1, <4>1
      <4>3. b[i] = Native(g.heap[g.fifo[x][i]])
        BY <3>2, <4>1
      <4>4. g.fifo[x][i] = q[i + 1]
        BY <1>2, <4>1
      <4> QED BY <1>1, <4>2, <4>3, <4>4
    <3>5. r \o b = p \o a
      BY <1>3, <2>1, <3>1, <3>2, <3>3, <3>4, AppendFirst, ZenonT(60)
    <3> QED BY <3>5 DEF Known, a, b
  <2> HIDE DEF r
  <2>3. g.mixer[x] = Known(g, r, x, Len(g.fifo[x]))
    <3>1. Len(g.fifo[x]) = n /\ n \in 0 .. n /\ Len(fl.fifo[x]) = n + 1
      BY <1>2 DEF n
    <3>2. Known(g, r, x, n) = Known(fl, p, x, n + 1)
      BY <2>2, <3>1
    <3>3. fl.mixer[x] = Known(fl, p, x, Len(fl.fifo[x]))
      BY <2>1 DEF BoxMixed
    <3> QED BY <1>1, <3>1, <3>2, <3>3
  <2>4. ASSUME NEW k \in DOMAIN g.fifo[x]
        PROVE  LET frame == g.heap[g.fifo[x][k]]
               IN  frame.mixed = Ids(GetMixedFrames(Known(g, r, x, k), FALSE, frame.stop))
    <3>1. k \in 0 .. n /\ k + 1 \in DOMAIN q /\ g.fifo[x][k] = q[k + 1]
      BY <1>2, SMTT(30)
    <3>2. Known(g, r, x, k) = Known(fl, p, x, k + 1)
      BY <2>2, <3>1
    <3>3. fl.heap[q[k + 1]].mixed =
            Ids(GetMixedFrames(Known(fl, p, x, k + 1), FALSE, fl.heap[q[k + 1]].stop))
      BY <2>1, <3>1 DEF BoxMixed
    <3> QED BY <1>1, <3>1, <3>2, <3>3
  <2>5. BoxMixed(g, r, x)
    BY <2>3, <2>4 DEF BoxMixed
  <2> QED BY <2>1, <2>5
<1>9. after \in [Boxes -> Seq(Natives)]
  <2>1. past[x] \in Seq(Natives)
    BY <1>0, <1>1
  <2>2. Append(past[x], h) \in Seq(Natives)
    BY <1>3, <2>1, AppendProperties
  <2> QED BY <1>0, <2>2
<1> HIDE DEF after
<1>10. FlowMixed(g, after)
  BY <1>1, <1>5, <1>7, <1>8, <1>9 DEF FlowMixed
<1> QED BY <1>6, <1>10 DEF g, x, ref, after, h

LEMMA RefsTypes ==
  ASSUME NEW fl, FlowTypeOK(fl)
  PROVE  Refs(fl) \subseteq 1 .. Len(fl.heap)
<1> SUFFICES ASSUME NEW x \in Boxes, NEW k \in DOMAIN fl.fifo[x]
             PROVE  fl.fifo[x][k] \in 1 .. Len(fl.heap)
  BY DEF Refs, ToSet
<1>1. fl.fifo[x] \in Seq(1 .. Len(fl.heap))
  BY DEF FlowTypeOK
<1> QED BY <1>1

\* A new frame, pushed to one outbox.
LEMMA CopyMixes ==
  ASSUME NEW fl, NEW past, FlowMixed(fl, past), NEW x \in Boxes, NEW frame, FrameTypeOK(frame)
  PROVE  LET g == PushFrame(NewFrame(fl, frame), x, Len(fl.heap) + 1)
         IN  /\ FlowMixed(g, past)
             /\ Refs(g) \subseteq Refs(fl) \cup {Len(fl.heap) + 1}
             /\ Len(g.heap) = Len(fl.heap) + 1
<1> DEFINE g == NewFrame(fl, frame)
           new == Len(fl.heap) + 1
           h == PushFrame(g, x, new)
<1>0. FlowTypeOK(fl) /\ Len(fl.heap) \in Nat
  BY DEF FlowMixed, FlowTypeOK
<1>1. FlowMixed(g, past) /\ Refs(g) = Refs(fl)
  BY NewFrameMixes
<1>2. Len(g.heap) = new
  BY <1>0, NewFrameEffect
<1>3. new \in 1 .. Len(g.heap) /\ new \notin Refs(g)
  BY <1>0, <1>1, <1>2, RefsTypes
<1> HIDE DEF g, new
<1>4. FlowMixed(h, past) /\ Refs(h) \subseteq Refs(g) \cup {new} /\ Len(h.heap) = Len(g.heap)
  BY <1>1, <1>3, PushMixes
<1> QED BY <1>1, <1>2, <1>4 DEF g, new

\* A module with one outbox pushes what is nowhere else.
LEMMA PushToAllMixes ==
  ASSUME NEW fl, NEW past, FlowMixed(fl, past), NEW m \in Modules, Len(OutBoxes[m]) <= 1,
         NEW ref \in 1 .. Len(fl.heap), ref \notin Refs(fl)
  PROVE  LET g == PushToAll(fl, m, ref)
         IN  /\ FlowMixed(g, past)
             /\ Refs(g) \subseteq Refs(fl) \cup {ref}
             /\ Len(g.heap) = Len(fl.heap)
<1> DEFINE g == PushToAll(fl, m, ref)
<1>1. Len(OutBoxes[m]) \in Nat /\ DOMAIN OutBoxes[m] = 1 .. Len(OutBoxes[m])
  BY FrameFlowAssumption
<1>2. /\ Len(ToEach(m, ref)) = Len(OutBoxes[m])
      /\ \A k \in 1 .. Len(OutBoxes[m]) :
           ToEach(m, ref)[k] = [box |-> <<m, OutBoxes[m][k]>>, ref |-> ref]
  BY <1>1 DEF ToEach
<1>3. CASE Len(OutBoxes[m]) = 0
  <2>1. g = fl
    BY <1>2, <1>3, Pushing!FoldEmpty DEF PushToAll
  <2> QED BY <2>1
<1>4. CASE Len(OutBoxes[m]) = 1
  <2> DEFINE x == <<m, OutBoxes[m][1]>>
  <2>1. x \in Boxes
    BY <1>1, <1>4 DEF Boxes, ToSet
  <2>2. PICK f : /\ f[0] = fl
                 /\ \A i \in 1 .. Len(ToEach(m, ref)) : f[i] = PushTo(f[i - 1], ToEach(m, ref)[i])
                 /\ PushToAll(fl, m, ref) = f[Len(ToEach(m, ref))]
    BY <1>1, <1>2, Pushing!FoldStates DEF PushToAll
  <2>3. Len(ToEach(m, ref)) = 1 /\ ToEach(m, ref)[1] = [box |-> x, ref |-> ref]
    BY <1>2, <1>4
  <2>4. g = f[1] /\ f[1] = PushTo(f[0], ToEach(m, ref)[1])
    <3>1. 1 \in 1 .. Len(ToEach(m, ref)) /\ 1 - 1 = 0
      BY <2>3
    <3>2. f[1] = PushTo(f[1 - 1], ToEach(m, ref)[1])
      BY <2>2, <3>1
    <3> QED BY <2>2, <2>3, <3>1, <3>2
  <2>5. g = PushFrame(fl, x, ref)
    BY <2>2, <2>3, <2>4 DEF PushTo
  <2> HIDE DEF g, x
  <2> QED BY <2>1, <2>5, PushMixes DEF g
<1>5. Len(OutBoxes[m]) = 0 \/ Len(OutBoxes[m]) = 1
  <2>1. \A k \in Nat : k <= 1 => k = 0 \/ k = 1
    OBVIOUS
  <2> QED BY <1>1, <2>1
<1> QED BY <1>3, <1>4, <1>5

\* The same of a queue.
LEMMA PushEachMixes ==
  ASSUME NEW fl, NEW past, FlowMixed(fl, past), NEW m \in Modules, Len(OutBoxes[m]) <= 1,
         NEW refs \in Seq(1 .. Len(fl.heap)),
         \A i \in DOMAIN refs : refs[i] \notin Refs(fl),
         \A i, j \in DOMAIN refs : refs[i] = refs[j] => i = j
  PROVE  LET g == PushEach(fl, m, refs)
         IN  /\ FlowMixed(g, past)
             /\ Refs(g) \subseteq Refs(fl) \cup ToSet(refs)
             /\ Len(g.heap) = Len(fl.heap)
<1> DEFINE n == Len(refs)
<1>1. n \in Nat /\ DOMAIN refs = 1 .. n
  OBVIOUS
<1>2. PICK f : PushesThrough(f, fl, m, refs)
  BY <1>1, PushEachStates
<1>3. /\ f[0] = fl
      /\ \A i \in 1 .. n : f[i] = PushToAll(f[i - 1], m, refs[i])
      /\ PushEach(fl, m, refs) = f[n]
  BY <1>2 DEF PushesThrough
<1> DEFINE Pushed(i) == /\ FlowMixed(f[i], past)
                        /\ Len(f[i].heap) = Len(fl.heap)
                        /\ \A r \in Refs(f[i]) : r \in Refs(fl) \/ \E j \in 1 .. i : r = refs[j]
           T == {i \in 0 .. n : Pushed(i)}
<1> HIDE DEF n
<1>4. 0 \in T
  BY <1>1, <1>3
<1>5. ASSUME NEW i \in 0 .. n - 1, i \in T
      PROVE  i + 1 \in T
  <2> DEFINE ref == refs[i + 1]
  <2>1. i + 1 \in 1 .. n /\ (i + 1) - 1 = i
    BY <1>1
  <2>2. ref \in 1 .. Len(fl.heap)
    BY <1>1, <2>1, ElementOfSeq DEF n
  <2>3. f[i + 1] = PushToAll(f[i], m, ref)
    BY <1>3, <2>1
  <2>4. Pushed(i)
    BY <1>5
  <2>5. ref \in 1 .. Len(f[i].heap) /\ ref \notin Refs(f[i])
    <3>1. ASSUME NEW j \in 1 .. i
          PROVE  refs[j] # ref
      <4>1. j \in 1 .. n /\ j # i + 1
        BY <1>1
      <4> QED BY <1>1, <2>1, <4>1
    <3>2. ref \notin Refs(fl)
      BY <1>1, <2>1
    <3> HIDE DEF ref
    <3> QED BY <2>2, <2>4, <3>1, <3>2
  <2> HIDE DEF ref
  <2>6. /\ FlowMixed(f[i + 1], past)
        /\ Refs(f[i + 1]) \subseteq Refs(f[i]) \cup {ref}
        /\ Len(f[i + 1].heap) = Len(f[i].heap)
    <3>1. FlowMixed(f[i], past)
      BY <2>4
    <3> QED BY <2>3, <2>5, <3>1, PushToAllMixes
  <2>7. ASSUME NEW r \in Refs(f[i + 1])
        PROVE  r \in Refs(fl) \/ \E j \in 1 .. i + 1 : r = refs[j]
    <3>1. CASE r = ref
      <4>1. i + 1 \in 1 .. i + 1
        BY <2>1
      <4> QED BY <3>1, <4>1 DEF ref
    <3>2. CASE r \in Refs(f[i])
      <4>1. \A j \in 1 .. i : j \in 1 .. i + 1
        BY <2>1
      <4> QED BY <2>4, <3>2, <4>1
    <3> QED BY <2>6, <3>1, <3>2
  <2>8. Pushed(i + 1)
    BY <2>4, <2>6, <2>7
  <2> HIDE DEF Pushed
  <2> QED BY <2>1, <2>8
<1> HIDE DEF T
<1>6. 0 .. n \subseteq T
  BY <1>1, <1>4, <1>5, Pushing!NatIndUpTo
<1>7. n \in T
  BY <1>1, <1>6
<1>8. Pushed(n)
  BY <1>7 DEF T
<1>9. Refs(f[n]) \subseteq Refs(fl) \cup ToSet(refs)
  BY <1>1, <1>8 DEF ToSet
<1> QED BY <1>3, <1>8, <1>9

\* Each outbox gets a copy of its own.
LEMMA PushCopiesMixes ==
  ASSUME NEW fl, NEW past, FlowMixed(fl, past), NEW m \in Modules, NEW ref \in 1 .. Len(fl.heap)
  PROVE  LET g == PushCopies(fl, m, ref)
         IN  /\ FlowMixed(g, past)
             /\ \A r \in Refs(g) : r \in Refs(fl) \/ r > Len(fl.heap)
<1> DEFINE n == Len(OutBoxes[m])
<1>0. FlowTypeOK(fl) /\ Len(fl.heap) \in Nat
  BY DEF FlowMixed, FlowTypeOK
<1>1. n \in Nat /\ DOMAIN OutBoxes[m] = 1 .. n
  BY FrameFlowAssumption
<1>2. /\ Len(ToEach(m, ref)) = n
      /\ \A k \in 1 .. n : ToEach(m, ref)[k] = [box |-> <<m, OutBoxes[m][k]>>, ref |-> ref]
  BY <1>1 DEF ToEach
<1>3. PICK f : /\ f[0] = fl
               /\ \A i \in 1 .. n : f[i] = CopyTo(f[i - 1], ToEach(m, ref)[i])
               /\ PushCopies(fl, m, ref) = f[n]
  BY <1>1, <1>2, Copying!FoldStates DEF PushCopies
<1> DEFINE Copied(i) == /\ FlowMixed(f[i], past)
                        /\ Len(fl.heap) <= Len(f[i].heap)
                        /\ \A r \in Refs(f[i]) : r \in Refs(fl) \/ r > Len(fl.heap)
           T == {i \in 0 .. n : Copied(i)}
<1> HIDE DEF n
<1>4. 0 \in T
  BY <1>0, <1>1, <1>3
<1>5. ASSUME NEW i \in 0 .. n - 1, i \in T
      PROVE  i + 1 \in T
  <2> DEFINE x == <<m, OutBoxes[m][i + 1]>>
             frame == f[i].heap[ref]
             new == Len(f[i].heap) + 1
  <2>1. i + 1 \in 1 .. n /\ (i + 1) - 1 = i
    BY <1>1
  <2>2. x \in Boxes
    BY <1>1, <2>1 DEF Boxes, ToSet
  <2>3. f[i + 1] = PushFrame(NewFrame(f[i], frame), x, new)
    <3>1. ToEach(m, ref)[i + 1] = [box |-> x, ref |-> ref]
      BY <1>2, <2>1
    <3>2. f[i + 1] = CopyTo(f[i], [box |-> x, ref |-> ref])
      BY <1>3, <2>1, <3>1
    <3> QED BY <3>2 DEF CopyTo
  <2>4. Copied(i)
    BY <1>5
  <2>5. FlowTypeOK(f[i]) /\ Len(f[i].heap) \in Nat
    BY <2>4 DEF FlowMixed, FlowTypeOK
  <2>6. FrameTypeOK(frame)
    <3>1. ref \in 1 .. Len(f[i].heap)
      BY <1>0, <2>4, <2>5
    <3> QED BY <2>5, <3>1 DEF FlowTypeOK
  <2>7. /\ FlowMixed(f[i + 1], past)
        /\ Refs(f[i + 1]) \subseteq Refs(f[i]) \cup {new}
        /\ Len(f[i + 1].heap) = new
    <3>1. FlowMixed(f[i], past)
      BY <2>4
    <3> HIDE DEF frame, x
    <3> QED BY <2>2, <2>3, <2>6, <3>1, CopyMixes
  <2>8. new > Len(fl.heap) /\ Len(fl.heap) <= new
    BY <1>0, <2>4, <2>5
  <2> HIDE DEF new
  <2>9. Copied(i + 1)
    BY <2>4, <2>7, <2>8
  <2> HIDE DEF Copied
  <2> QED BY <2>1, <2>9
<1> HIDE DEF T
<1>6. 0 .. n \subseteq T
  BY <1>1, <1>4, <1>5, Copying!NatIndUpTo
<1>7. n \in T
  BY <1>1, <1>6
<1>8. Copied(n)
  BY <1>7 DEF T
<1> QED BY <1>3, <1>8

-----------------------------------------------------------------------------
(* The stack of calls.                                                      *)

Top == stack[Len(stack)]

LEMMA LastIsTop ==
  ASSUME stack \in Seq(CallType), stack # <<>>
  PROVE  /\ Len(stack) \in Nat \ {0} /\ Last(stack) = Top /\ Top \in CallType
         /\ DOMAIN stack = 1 .. Len(stack)
BY DEF Last, Top

\* The innermost call looks at another box.
LEMMA LookingEffect ==
  ASSUME stack \in Seq(CallType), stack # <<>>, NEW b \in Nat
  PROVE  LET s == Looking(b)
         IN  /\ s \in Seq(CallType) /\ Len(s) = Len(stack) /\ DOMAIN s = DOMAIN stack
             /\ \A i \in 1 .. Len(stack) - 1 : s[i] = stack[i]
             /\ s[Len(stack)] = [mod |-> Top.mod, op |-> Top.op, box |-> b]
<1> DEFINE n == Len(stack)
           top == [Top EXCEPT !.box = b]
<1>1. n \in Nat \ {0} /\ Top \in CallType
  BY LastIsTop
<1>2. top = [mod |-> Top.mod, op |-> Top.op, box |-> b] /\ top \in CallType
  BY <1>1 DEF CallType
<1>3. Looking(b) = [stack EXCEPT ![n] = top]
  BY DEF Looking, Top
<1> HIDE DEF top
<1> QED BY <1>1, <1>2, <1>3, ExceptSeq

\* A call is made.
LEMMA CallEffect ==
  ASSUME NEW s \in Seq(CallType), NEW m \in Modules, NEW op \in {"process", "finish"}
  PROVE  LET t == Append(s, Call(m, op))
         IN  /\ t \in Seq(CallType) /\ Len(t) = Len(s) + 1
             /\ \A i \in 1 .. Len(s) : t[i] = s[i]
             /\ t[Len(s) + 1] = [mod |-> m, op |-> op, box |-> 0]
<1>1. Call(m, op) \in CallType /\ Call(m, op) = [mod |-> m, op |-> op, box |-> 0]
  BY DEF Call, CallType
<1> QED BY <1>1, AppendProperties

\* A call returns.
LEMMA FrontEffect ==
  ASSUME stack \in Seq(CallType), stack # <<>>
  PROVE  /\ Front(stack) \in Seq(CallType) /\ Len(Front(stack)) = Len(stack) - 1
         /\ \A i \in 1 .. Len(stack) - 1 : Front(stack)[i] = stack[i]
<1>1. Front(stack) = SubSeq(stack, 1, Len(stack) - 1)
  BY DEF Front
<1> DEFINE k == Len(stack) - 1
           t == SubSeq(stack, 1, k)
<1>2. k \in Nat /\ Len(stack) = k + 1
  BY LastIsTop
<1>3. \A i \in 1 .. k : stack[i] \in CallType
  BY <1>2, ElementOfSeq
<1> HIDE DEF k
<1>4. /\ t \in Seq(CallType)
      /\ Len(t) = IF 1 <= k THEN k - 1 + 1 ELSE 0
      /\ \A i \in 1 .. k - 1 + 1 : t[i] = stack[1 + i - 1]
  BY <1>2, <1>3, SubSeqProperties
<1> HIDE DEF t
<1>5. Len(t) = k
  BY <1>2, <1>4
<1>6. \A i \in 1 .. k : t[i] = stack[i]
  BY <1>2, <1>4
<1> QED BY <1>1, <1>2, <1>4, <1>5, <1>6 DEF t, k

-----------------------------------------------------------------------------
(* What a module's own Process or Finish does.                              *)

Held(m) == NativesOf(flow, queue[m])

\* Module m takes the frames taken from its inbox, which leaves the boxes as
\* g, and hands ns to its outboxes; what it holds back changes accordingly,
\* given what it has taken or read.
OwnStep(m, g, taken, given, ns) ==
  /\ UNCHANGED <<setup, signals, phase, left, result>>
  /\ suspension_requested' \in {suspension_requested, TRUE}
  /\ stack # <<>> /\ Top.mod = m /\ Top.box = 0 /\ stack' = Looking(1)
  /\ \/ g = flow /\ taken = <<>> /\ seen' = seen
     \/ /\ Waiting(flow, m) # <<>>
        /\ g = PopFrame(flow, m)
        /\ taken = <<Native(flow.heap[PeekFrame(flow, m)])>>
        /\ seen' = [seen EXCEPT ![m] = Append(@, Native(flow.heap[PeekFrame(flow, m)]))]
        /\ Top.op = "process"
  /\ given \in Seq(Natives) /\ ns \in Seq(Natives)
  /\ HandedTo(g, flow', BoxesOf(m), ns)
  /\ queue' = [k \in Modules |-> queue'[k]]
  /\ \A n \in Modules : queue'[n] \in Seq(1 .. Len(flow'.heap)) /\ (n # m => queue'[n] = queue[n])
  /\ \/ read' = read /\ given = taken
     \/ /\ Kind[m] = "reader" /\ read < Len(Script) /\ read' = read + 1
        /\ given = <<[stop |-> Script[read'], id |-> read']>>
  /\ Kind[m] = "reader" => taken = <<>>
  /\ Kind[m] \in Lossless /\ (Kind[m] # "packet" => queue[m] = <<>>) =>
       Held(m) \o given = ns \o Held(m)'
  /\ Kind[m] # "packet" /\ queue[m] = <<>> => queue'[m] = <<>>
  /\ Top.op = "process" => finished' = finished
  /\ Top.op = "finish" => /\ finished' = [finished EXCEPT ![m] = @ + 1]
                          /\ seen' = seen /\ queue'[m] = <<>>

LEMMA NativesOfNone ==
  ASSUME NEW fl
  PROVE  NativesOf(fl, <<>>) = <<>>
BY DEF NativesOf

LEMMA EmptyConcat ==
  ASSUME NEW ns \in Seq(Natives)
  PROVE  <<>> \o ns = ns /\ ns \o <<>> = ns
BY ConcatEmptySeq

LEMMA ProcessingFacts ==
  ASSUME TypeOK, NEW m \in Modules, NEW kind, Processing(m, kind)
  PROVE  /\ Kind[m] = kind /\ UNCHANGED <<setup, signals, phase, left, result, finished>>
         /\ stack # <<>> /\ Top.mod = m /\ Top.op = "process" /\ Top.box = 0
         /\ stack' = Looking(1)
<1>1. Last(stack) = Top
  BY LastIsTop DEF Processing, TypeOK
<1> QED BY <1>1 DEF Processing, Call

\* What is taken and what it leaves.
LEMMA TakingFacts ==
  ASSUME TypeOK, NEW m \in Modules, Waiting(flow, m) # <<>>
  PROVE  LET g == PopFrame(flow, m)
             ref == PeekFrame(flow, m)
             n == Native(flow.heap[ref])
         IN  /\ FlowTypeOK(g) /\ g.heap = flow.heap
             /\ ref \in 1 .. Len(flow.heap) /\ n \in Natives
             /\ \A k \in Modules : queue[k] \in Seq(1 .. Len(g.heap))
             /\ Held(m) = NativesOf(g, queue[m]) /\ Held(m) \in Seq(Natives)
<1>1. FlowTypeOK(flow) /\ \A k \in Modules : queue[k] \in Seq(1 .. Len(flow.heap))
  BY DEF TypeOK
<1>2. /\ FlowTypeOK(PopFrame(flow, m)) /\ PopFrame(flow, m).heap = flow.heap
      /\ PeekFrame(flow, m) \in 1 .. Len(flow.heap)
  BY <1>1, PopFrameEffect
<1>3. Native(flow.heap[PeekFrame(flow, m)]) \in Natives
  BY <1>1, <1>2 DEF FlowTypeOK, FrameTypeOK
<1>4. Held(m) = NativesOf(PopFrame(flow, m), queue[m])
  BY <1>2 DEF Held, NativesOf
<1>5. Held(m) \in Seq(Natives)
  BY <1>1, NativesOfTypes DEF Held
<1> QED BY <1>1, <1>2, <1>3, <1>4, <1>5

LEMMA ReadFrameStep ==
  ASSUME TypeOK, NEW m \in Modules, ReadFrame(m)
  PROVE  LET ns == <<[stop |-> Script[read'], id |-> read']>>
         IN  OwnStep(m, flow, <<>>, ns, ns)
<1> DEFINE n == [stop |-> Script[read'], id |-> read']
           frame == [stop |-> Script[read'], id |-> read', mixed |-> {}]
           x == <<m, "OutBox">>
<1>1. /\ Kind[m] = "reader" /\ UNCHANGED <<setup, signals, phase, left, result, finished>>
      /\ suspension_requested' \in {suspension_requested, TRUE}
      /\ stack # <<>> /\ Top.mod = m /\ Top.op = "process" /\ Top.box = 0
      /\ stack' = Looking(1)
  BY ProcessingFacts DEF ReadFrame
<1>2. read < Len(Script) /\ read' = read + 1 /\ seen' = seen /\ queue' = queue
  BY DEF ReadFrame
<1>3. FlowTypeOK(flow) /\ \A k \in Modules : queue[k] \in Seq(1 .. Len(flow.heap))
  BY DEF TypeOK
<1>4. FrameTypeOK(frame) /\ Native(frame) = n /\ n \in Natives
  <2>1. read' \in 1 .. Len(Script) /\ read' \in Nat
    BY <1>2, TrayAssumption DEF TypeOK
  <2>2. Script[read'] \in STRING
    BY <2>1, TrayAssumption, ElementOfSeq
  <2> QED BY <2>1, <2>2 DEF FrameTypeOK, Native, Natives
<1>5. BoxesOf(m) = {x} /\ x \in Boxes
  BY <1>1, TrayAssumption DEF BoxesOf, Boxes, ToSet
<1>6. HandedTo(flow, flow', BoxesOf(m), <<n>>)
  <2>1. flow' = PushFrame(NewFrame(flow, frame), x, Len(flow.heap) + 1)
    BY DEF ReadFrame
  <2> HIDE DEF frame
  <2> QED BY <1>3, <1>4, <1>5, <2>1, CopyHands
<1>7. \A k \in Modules : queue[k] \in Seq(1 .. Len(flow'.heap))
  BY <1>3, <1>6, NativesOfKept DEF HandedTo
<1>8. queue[m] = <<>> => Held(m) \o <<n>> = <<n>> \o Held(m)'
  <2>1. queue[m] = <<>> => Held(m) = <<>> /\ Held(m)' = <<>>
    BY <1>2, NativesOfNone DEF Held
  <2>2. <<n>> \in Seq(Natives)
    BY <1>4
  <2> QED BY <2>1, <2>2, EmptyConcat
<1>9. queue' = [k \in Modules |-> queue'[k]] /\ <<n>> \in Seq(Natives)
  BY <1>2, <1>4 DEF TypeOK
<1> HIDE DEF n
<1>10. OwnStep(m, flow, <<>>, <<n>>, <<n>>)
  BY <1>1, <1>2, <1>6, <1>7, <1>8, <1>9 DEF OwnStep, n
<1> QED BY <1>10 DEF n

LEMMA NothingStep ==
  ASSUME TypeOK, NEW m \in Modules, RequestSuspension(m) \/ NothingToDo(m)
  PROVE  OwnStep(m, flow, <<>>, <<>>, <<>>)
<1>1. /\ UNCHANGED <<setup, signals, phase, left, result, finished>>
      /\ suspension_requested' \in {suspension_requested, TRUE}
      /\ stack # <<>> /\ Top.mod = m /\ Top.op = "process" /\ Top.box = 0
      /\ stack' = Looking(1)
      /\ Kind[m] \in {"reader", "base", "trash"}
  BY ProcessingFacts DEF RequestSuspension, NothingToDo
<1>2. flow' = flow /\ queue' = queue /\ read' = read /\ seen' = seen
  BY DEF RequestSuspension, NothingToDo
<1>3. FlowTypeOK(flow) /\ \A k \in Modules : queue[k] \in Seq(1 .. Len(flow.heap))
  BY DEF TypeOK
<1>4. HandedTo(flow, flow', BoxesOf(m), <<>>)
  BY <1>2, <1>3, HandedToNone
<1>5. queue[m] = <<>> => Held(m) \o <<>> = <<>> \o Held(m)'
  <2>1. queue[m] = <<>> => Held(m) = <<>> /\ Held(m)' = <<>>
    BY <1>2, NativesOfNone DEF Held
  <2> QED BY <2>1
<1>6. queue' = [k \in Modules |-> queue'[k]] /\ <<>> \in Seq(Natives)
  BY <1>2 DEF TypeOK
<1> QED BY <1>1, <1>2, <1>3, <1>4, <1>5, <1>6 DEF OwnStep

LEMMA PassOnStep ==
  ASSUME TypeOK, NEW m \in Modules, PassOn(m)
  PROVE  LET ns == <<Native(flow.heap[PeekFrame(flow, m)])>>
         IN  OwnStep(m, PopFrame(flow, m), ns, ns, ns)
<1> DEFINE n == Native(flow.heap[PeekFrame(flow, m)])
           g == PopFrame(flow, m)
<1>1. /\ UNCHANGED <<setup, signals, phase, left, result, finished>>
      /\ suspension_requested' \in {suspension_requested, TRUE}
      /\ stack # <<>> /\ Top.mod = m /\ Top.op = "process" /\ Top.box = 0
      /\ stack' = Looking(1)
      /\ Kind[m] \in {"base", "filter"}
  BY ProcessingFacts DEF PassOn
<1>2. /\ Waiting(flow, m) # <<>>
      /\ flow' = PushToAll(g, m, PeekFrame(flow, m))
      /\ queue' = queue /\ read' = read
      /\ seen' = [seen EXCEPT ![m] = Append(@, n)]
  BY DEF PassOn, Taking
<1>3. /\ FlowTypeOK(g) /\ g.heap = flow.heap
      /\ PeekFrame(flow, m) \in 1 .. Len(flow.heap) /\ n \in Natives
      /\ \A k \in Modules : queue[k] \in Seq(1 .. Len(g.heap))
      /\ Held(m) = NativesOf(g, queue[m])
  BY <1>2, TakingFacts
<1>4. HandedTo(g, flow', BoxesOf(m), <<n>>)
  <2> HIDE DEF g
  <2>1. n = Native(g.heap[PeekFrame(flow, m)])
    BY <1>3
  <2> QED BY <1>2, <1>3, <2>1, PushToAllHands
<1>5. \A k \in Modules : queue'[k] \in Seq(1 .. Len(flow'.heap))
  BY <1>2, <1>3, <1>4, NativesOfKept DEF HandedTo
<1>6. queue[m] = <<>> => Held(m) \o <<n>> = <<n>> \o Held(m)'
  <2>1. queue[m] = <<>> => Held(m) = <<>> /\ Held(m)' = <<>>
    BY <1>2, NativesOfNone DEF Held
  <2>2. <<n>> \in Seq(Natives)
    BY <1>3
  <2> QED BY <2>1, <2>2, EmptyConcat
<1>7. queue' = [k \in Modules |-> queue'[k]] /\ <<n>> \in Seq(Natives)
  BY <1>2, <1>3 DEF TypeOK
<1>8. OwnStep(m, g, <<n>>, <<n>>, <<n>>)
  BY <1>1, <1>2, <1>4, <1>5, <1>6, <1>7 DEF OwnStep
<1> QED BY <1>8

LEMMA DropStep ==
  ASSUME TypeOK, NEW m \in Modules, Drop(m)
  PROVE  LET ns == <<Native(flow.heap[PeekFrame(flow, m)])>>
         IN  OwnStep(m, PopFrame(flow, m), ns, ns, <<>>)
<1> DEFINE n == Native(flow.heap[PeekFrame(flow, m)])
           g == PopFrame(flow, m)
<1>1. /\ UNCHANGED <<setup, signals, phase, left, result, finished>>
      /\ suspension_requested' \in {suspension_requested, TRUE}
      /\ stack # <<>> /\ Top.mod = m /\ Top.op = "process" /\ Top.box = 0
      /\ stack' = Looking(1)
      /\ Kind[m] \in {"trash", "filter"}
  BY ProcessingFacts DEF Drop
<1>2. /\ Waiting(flow, m) # <<>>
      /\ flow' = g
      /\ queue' = queue /\ read' = read
      /\ seen' = [seen EXCEPT ![m] = Append(@, n)]
  BY DEF Drop, Taking
<1>3. /\ FlowTypeOK(g) /\ n \in Natives
      /\ \A k \in Modules : queue[k] \in Seq(1 .. Len(g.heap))
  BY <1>2, TakingFacts
<1>4. HandedTo(g, flow', BoxesOf(m), <<>>)
  BY <1>2, <1>3, HandedToNone
<1>5. queue' = [k \in Modules |-> queue'[k]] /\ <<n>> \in Seq(Natives) /\ <<>> \in Seq(Natives)
  BY <1>2, <1>3 DEF TypeOK
<1>6. Kind[m] \notin Lossless
  BY <1>1 DEF Lossless
<1>7. OwnStep(m, g, <<n>>, <<n>>, <<>>)
  BY <1>1, <1>2, <1>3, <1>4, <1>5, <1>6 DEF OwnStep
<1> QED BY <1>7

LEMMA CopyStep ==
  ASSUME TypeOK, NEW m \in Modules, Copy(m)
  PROVE  LET ns == <<Native(flow.heap[PeekFrame(flow, m)])>>
         IN  OwnStep(m, PopFrame(flow, m), ns, ns, ns)
<1> DEFINE n == Native(flow.heap[PeekFrame(flow, m)])
           g == PopFrame(flow, m)
<1>1. /\ UNCHANGED <<setup, signals, phase, left, result, finished>>
      /\ suspension_requested' \in {suspension_requested, TRUE}
      /\ stack # <<>> /\ Top.mod = m /\ Top.op = "process" /\ Top.box = 0
      /\ stack' = Looking(1)
      /\ Kind[m] = "fork"
  BY ProcessingFacts DEF Copy
<1>2. /\ Waiting(flow, m) # <<>>
      /\ flow' = PushCopies(g, m, PeekFrame(flow, m))
      /\ queue' = queue /\ read' = read
      /\ seen' = [seen EXCEPT ![m] = Append(@, n)]
  BY DEF Copy, Taking
<1>3. /\ FlowTypeOK(g) /\ g.heap = flow.heap
      /\ PeekFrame(flow, m) \in 1 .. Len(flow.heap) /\ n \in Natives
      /\ \A k \in Modules : queue[k] \in Seq(1 .. Len(g.heap))
      /\ Held(m) = NativesOf(g, queue[m])
  BY <1>2, TakingFacts
<1>4. HandedTo(g, flow', BoxesOf(m), <<n>>)
  <2> HIDE DEF g
  <2>1. n = Native(g.heap[PeekFrame(flow, m)])
    BY <1>3
  <2> QED BY <1>2, <1>3, <2>1, PushCopiesHands
<1>5. \A k \in Modules : queue'[k] \in Seq(1 .. Len(flow'.heap))
  BY <1>2, <1>3, <1>4, NativesOfKept DEF HandedTo
<1>6. queue[m] = <<>> => Held(m) \o <<n>> = <<n>> \o Held(m)'
  <2>1. queue[m] = <<>> => Held(m) = <<>> /\ Held(m)' = <<>>
    BY <1>2, NativesOfNone DEF Held
  <2>2. <<n>> \in Seq(Natives)
    BY <1>3
  <2> QED BY <2>1, <2>2, EmptyConcat
<1>7. queue' = [k \in Modules |-> queue'[k]] /\ <<n>> \in Seq(Natives)
  BY <1>2, <1>3 DEF TypeOK
<1>8. OwnStep(m, g, <<n>>, <<n>>, <<n>>)
  BY <1>1, <1>2, <1>4, <1>5, <1>6, <1>7 DEF OwnStep
<1> QED BY <1>8

LEMMA PackStep ==
  ASSUME TypeOK, NEW m \in Modules, Pack(m)
  PROVE  LET taken == <<Native(flow.heap[PeekFrame(flow, m)])>>
         IN  \E ns \in Seq(Natives) : OwnStep(m, PopFrame(flow, m), taken, taken, ns)
<1> DEFINE ref == PeekFrame(flow, m)
           stop == flow.heap[ref].stop
           n == Native(flow.heap[ref])
           g == PopFrame(flow, m)
           flushed == PushEach(g, m, queue[m])
<1>1. /\ UNCHANGED <<setup, signals, phase, left, result, finished>>
      /\ suspension_requested' \in {suspension_requested, TRUE}
      /\ stack # <<>> /\ Top.mod = m /\ Top.op = "process" /\ Top.box = 0
      /\ stack' = Looking(1)
      /\ Kind[m] = "packet"
  BY ProcessingFacts DEF Pack
<1>2. /\ Waiting(flow, m) # <<>> /\ read' = read
      /\ seen' = [seen EXCEPT ![m] = Append(@, n)]
      /\ \/ flow' = g /\ queue' = [queue EXCEPT ![m] = Append(@, ref)]
         \/ flow' = flushed /\ queue' = [queue EXCEPT ![m] = <<ref>>]
         \/ flow' = PushToAll(flushed, m, ref) /\ queue' = [queue EXCEPT ![m] = <<>>]
  BY DEF Pack, Taking
<1>3. /\ FlowTypeOK(g) /\ g.heap = flow.heap
      /\ ref \in 1 .. Len(flow.heap) /\ n \in Natives
      /\ \A k \in Modules : queue[k] \in Seq(1 .. Len(g.heap))
      /\ Held(m) = NativesOf(g, queue[m]) /\ Held(m) \in Seq(Natives)
  BY <1>2, TakingFacts
<1>4. queue = [k \in Modules |-> queue[k]]
  BY DEF TypeOK
<1> HIDE DEF g, ref
<1>5. n = Native(g.heap[ref])
  BY <1>3
<1>6. HandedTo(g, flushed, BoxesOf(m), Held(m))
  BY <1>3, PushEachHands
<1> HIDE DEF n, flushed
\* What is left to show of each of the three cases.
<1>7. ASSUME NEW ns \in Seq(Natives), HandedTo(g, flow', BoxesOf(m), ns),
             NEW q \in Seq(1 .. Len(flow'.heap)), queue' = [queue EXCEPT ![m] = q],
             Held(m) \o <<n>> = ns \o NativesOf(flow', q)
      PROVE  OwnStep(m, g, <<n>>, <<n>>, ns)
  <2>1. ASSUME NEW k \in Modules
        PROVE  queue'[k] \in Seq(1 .. Len(flow'.heap)) /\ (k # m => queue'[k] = queue[k])
    <3>1. queue[k] \in Seq(1 .. Len(flow'.heap))
      BY <1>3, <1>7, NativesOfKept DEF HandedTo
    <3> QED BY <1>4, <1>7, <3>1
  <2>2. Held(m)' = NativesOf(flow', q)
    BY <1>4, <1>7 DEF Held
  <2>3. <<n>> \in Seq(Natives)
    BY <1>3 DEF n
  <2>4. queue' = [k \in Modules |-> queue'[k]]
    BY <1>4, <1>7
  <2> QED BY <1>1, <1>2, <1>7, <2>1, <2>2, <2>3, <2>4 DEF OwnStep, g, n, ref
<1>8. CASE flow' = g /\ queue' = [queue EXCEPT ![m] = Append(@, ref)]
  <2>1. HandedTo(g, flow', BoxesOf(m), <<>>)
    BY <1>3, <1>8, HandedToNone
  <2>2. Append(queue[m], ref) \in Seq(1 .. Len(flow'.heap))
    BY <1>3, <1>8, AppendProperties
  <2>3. NativesOf(flow', Append(queue[m], ref)) = Held(m) \o <<n>>
    BY <1>3, <1>5, <1>8, NativesOfAppend
  <2>4. Held(m) \o <<n>> = <<>> \o NativesOf(flow', Append(queue[m], ref))
    <3>1. NativesOf(flow', Append(queue[m], ref)) \in Seq(Natives)
      BY <1>3, <1>8, <2>2, NativesOfTypes
    <3> QED BY <2>3, <3>1, EmptyConcat
  <2>5. <<>> \in Seq(Natives)
    OBVIOUS
  <2>6. OwnStep(m, g, <<n>>, <<n>>, <<>>)
    BY <1>7, <1>8, <2>1, <2>2, <2>4, <2>5
  <2> QED BY <2>5, <2>6 DEF g, n, ref
<1>9. CASE flow' = flushed /\ queue' = [queue EXCEPT ![m] = <<ref>>]
  <2>1. HandedTo(g, flow', BoxesOf(m), Held(m))
    BY <1>6, <1>9
  <2>2. ref \in 1 .. Len(flow'.heap) /\ FlowTypeOK(flow') /\ Native(flow'.heap[ref]) = n
    <3>1. Len(flow.heap) \in Nat /\ Len(flow'.heap) \in Nat
      BY <1>3, <2>1 DEF HandedTo, FlowTypeOK
    <3> QED BY <1>3, <1>5, <2>1, <3>1 DEF HandedTo
  <2>3. <<ref>> \in Seq(1 .. Len(flow'.heap)) /\ NativesOf(flow', <<ref>>) = <<n>>
    <3>1. <<ref>> \in Seq(1 .. Len(flow'.heap))
      BY <2>2
    <3>2. NativesOf(flow', <<ref>>) = <<Native(flow'.heap[ref])>>
      BY DEF NativesOf
    <3> QED BY <2>2, <3>1, <3>2
  <2>4. OwnStep(m, g, <<n>>, <<n>>, Held(m))
    BY <1>3, <1>7, <1>9, <2>1, <2>3
  <2> QED BY <1>3, <2>4 DEF g, n, ref
<1>10. CASE flow' = PushToAll(flushed, m, ref) /\ queue' = [queue EXCEPT ![m] = <<>>]
  <2> DEFINE ns == Held(m) \o <<n>>
  <2>1. ref \in 1 .. Len(flushed.heap) /\ FlowTypeOK(flushed) /\ Native(flushed.heap[ref]) = n
    <3>1. Len(flow.heap) \in Nat /\ Len(flushed.heap) \in Nat
      BY <1>3, <1>6 DEF HandedTo, FlowTypeOK
    <3>2. ref \in 1 .. Len(g.heap)
      BY <1>3
    <3>3. FlowTypeOK(flushed) /\ Len(g.heap) <= Len(flushed.heap)
          /\ Native(flushed.heap[ref]) = Native(g.heap[ref])
      BY <1>6, <3>2 DEF HandedTo
    <3> QED BY <1>3, <1>5, <3>1, <3>2, <3>3
  <2>2. HandedTo(flushed, flow', BoxesOf(m), <<n>>)
    BY <1>10, <2>1, PushToAllHands
  <2>3. <<n>> \in Seq(Natives) /\ ns \in Seq(Natives) /\ <<>> \in Seq(1 .. Len(flow'.heap))
    <3>1. <<n>> \in Seq(Natives) /\ <<>> \in Seq(1 .. Len(flow'.heap))
      BY <1>3 DEF n
    <3> QED BY <1>3, <3>1, ConcatProperties
  <2>4. HandedTo(g, flow', BoxesOf(m), ns)
    BY <1>3, <1>6, <2>2, <2>3, HandedToAgain
  <2>5. ns = ns \o NativesOf(flow', <<>>)
    BY <2>3, NativesOfNone, EmptyConcat
  <2> HIDE DEF ns
  <2>6. OwnStep(m, g, <<n>>, <<n>>, ns)
    BY <1>7, <1>10, <2>3, <2>4, <2>5 DEF ns
  <2> QED BY <2>3, <2>6 DEF g, n, ref
<1> QED BY <1>2, <1>8, <1>9, <1>10 DEF g, n, ref, flushed

LEMMA FinishModuleStep ==
  ASSUME TypeOK, NEW m \in Modules, FinishModule(m)
  PROVE  \E ns \in Seq(Natives) : OwnStep(m, flow, <<>>, <<>>, ns)
<1>1. /\ UNCHANGED <<setup, signals, phase, left, result>>
      /\ suspension_requested' \in {suspension_requested, TRUE}
      /\ stack # <<>> /\ Top.mod = m /\ Top.op = "finish" /\ Top.box = 0
      /\ stack' = Looking(1)
      /\ flow' = PushEach(flow, m, queue[m])
      /\ queue' = [queue EXCEPT ![m] = <<>>]
      /\ finished' = [finished EXCEPT ![m] = @ + 1]
      /\ read' = read /\ seen' = seen
  <2>1. stack # <<>> => Last(stack) = Top
    BY LastIsTop DEF TypeOK
  <2> QED BY <2>1 DEF FinishModule, Call
<1>2. /\ FlowTypeOK(flow) /\ queue = [k \in Modules |-> queue[k]]
      /\ \A k \in Modules : queue[k] \in Seq(1 .. Len(flow.heap))
  BY DEF TypeOK
<1>3. Held(m) \in Seq(Natives)
  BY <1>2, NativesOfTypes DEF Held
<1>4. HandedTo(flow, flow', BoxesOf(m), Held(m))
  BY <1>1, <1>2, PushEachHands DEF Held
<1>5. ASSUME NEW k \in Modules
      PROVE  queue'[k] \in Seq(1 .. Len(flow'.heap)) /\ (k # m => queue'[k] = queue[k])
  <2>1. queue[k] \in Seq(1 .. Len(flow'.heap))
    BY <1>2, <1>4, NativesOfKept DEF HandedTo
  <2>2. <<>> \in Seq(1 .. Len(flow'.heap))
    OBVIOUS
  <2> QED BY <1>1, <1>2, <2>1, <2>2
<1>6. queue'[m] = <<>> /\ queue' = [k \in Modules |-> queue'[k]]
  BY <1>1, <1>2
<1>7. Held(m) \o <<>> = Held(m) \o Held(m)'
  BY <1>6, NativesOfNone DEF Held
<1>8. <<>> \in Seq(Natives)
  OBVIOUS
<1>9. OwnStep(m, flow, <<>>, <<>>, Held(m))
  BY <1>1, <1>3, <1>4, <1>5, <1>6, <1>7, <1>8 DEF OwnStep
<1> QED BY <1>3, <1>9

-----------------------------------------------------------------------------
(* The order of the modules.                                                *)

Distinct(s) == \A i, j \in DOMAIN s : s[i] = s[j] => i = j

LEMMA SubSeqEffect ==
  ASSUME NEW S, NEW s \in Seq(S), NEW i \in Nat \ {0}, NEW k \in Int, k >= i - 1, k <= Len(s)
  PROVE  /\ SubSeq(s, i, k) \in Seq(S) /\ Len(SubSeq(s, i, k)) = k - i + 1
         /\ \A j \in 1 .. k - i + 1 : SubSeq(s, i, k)[j] = s[i + j - 1]
<1>1. \A j \in i .. k : s[j] \in S
  BY ElementOfSeq
<1>2. /\ SubSeq(s, i, k) \in Seq(S)
      /\ Len(SubSeq(s, i, k)) = IF i <= k THEN k - i + 1 ELSE 0
      /\ \A j \in 1 .. k - i + 1 : SubSeq(s, i, k)[j] = s[i + j - 1]
  BY <1>1, SubSeqProperties, SMTT(30)
<1>3. (IF i <= k THEN k - i + 1 ELSE 0) = k - i + 1
  OBVIOUS
<1> QED BY <1>2, <1>3

LEMMA RemoveAtEffect ==
  ASSUME NEW S, NEW s \in Seq(S), NEW i \in 1 .. Len(s)
  PROVE  LET r == RemoveAt(s, i)
         IN  /\ r \in Seq(S) /\ Len(r) = Len(s) - 1
             /\ \A j \in 1 .. Len(s) - 1 : r[j] = IF j < i THEN s[j] ELSE s[j + 1]
<1> DEFINE a == SubSeq(s, 1, i - 1)
           b == SubSeq(s, i + 1, Len(s))
<1>1. Len(s) \in Nat /\ i \in Nat \ {0} /\ i <= Len(s)
  OBVIOUS
<1>2. a \in Seq(S) /\ Len(a) = i - 1 /\ \A j \in 1 .. i - 1 : a[j] = s[j]
  BY <1>1, SubSeqEffect
<1>3. b \in Seq(S) /\ Len(b) = Len(s) - i /\ \A j \in 1 .. Len(s) - i : b[j] = s[i + j]
  BY <1>1, SubSeqEffect
<1> HIDE DEF a, b
<1>4. /\ a \o b \in Seq(S) /\ Len(a \o b) = Len(s) - 1
      /\ \A j \in 1 .. Len(s) - 1 : (a \o b)[j] = IF j <= Len(a) THEN a[j] ELSE b[j - Len(a)]
  <2>1. Len(a) + Len(b) = Len(s) - 1
    BY <1>1, <1>2, <1>3
  <2>2. /\ a \o b \in Seq(S) /\ Len(a \o b) = Len(a) + Len(b)
        /\ \A j \in 1 .. Len(a) + Len(b) : (a \o b)[j] = IF j <= Len(a) THEN a[j] ELSE b[j - Len(a)]
    BY <1>2, <1>3, ConcatProperties
  <2> QED BY <2>1, <2>2
<1>5. ASSUME NEW j \in 1 .. Len(s) - 1
      PROVE  (a \o b)[j] = IF j < i THEN s[j] ELSE s[j + 1]
  <2>1. CASE j < i
    <3>1. j \in 1 .. i - 1 /\ j <= Len(a)
      BY <1>1, <1>2, <2>1
    <3> QED BY <1>2, <1>4, <2>1, <3>1
  <2>2. CASE ~(j < i)
    <3>1. j - Len(a) \in 1 .. Len(s) - i /\ ~(j <= Len(a)) /\ i + (j - Len(a)) = j + 1
      BY <1>1, <1>2, <2>2
    <3>2. b[j - Len(a)] = s[j + 1]
      BY <1>3, <3>1
    <3> QED BY <1>4, <2>2, <3>1, <3>2
  <2> QED BY <2>1, <2>2
<1> QED BY <1>4, <1>5 DEF RemoveAt, a, b

LEMMA InsertAtEffect ==
  ASSUME NEW S, NEW s \in Seq(S), NEW i \in 1 .. Len(s) + 1, NEW e \in S
  PROVE  LET r == InsertAt(s, i, e)
         IN  /\ r \in Seq(S) /\ Len(r) = Len(s) + 1
             /\ \A j \in 1 .. Len(s) + 1 :
                  r[j] = IF j < i THEN s[j] ELSE IF j = i THEN e ELSE s[j - 1]
<1> DEFINE a == SubSeq(s, 1, i - 1)
           b == SubSeq(s, i, Len(s))
           c == a \o <<e>>
<1>1. Len(s) \in Nat /\ i \in Nat \ {0} /\ i <= Len(s) + 1
  OBVIOUS
<1>2. a \in Seq(S) /\ Len(a) = i - 1 /\ \A j \in 1 .. i - 1 : a[j] = s[j]
  BY <1>1, SubSeqEffect
<1>3. b \in Seq(S) /\ Len(b) = Len(s) - i + 1 /\ \A j \in 1 .. Len(s) - i + 1 : b[j] = s[i + j - 1]
  BY <1>1, SubSeqEffect
<1> HIDE DEF a, b
<1>4. /\ c \in Seq(S) /\ Len(c) = i
      /\ \A j \in 1 .. i : c[j] = IF j <= Len(a) THEN a[j] ELSE e
  BY <1>1, <1>2
<1> HIDE DEF c
<1>5. /\ c \o b \in Seq(S) /\ Len(c \o b) = Len(s) + 1
      /\ \A j \in 1 .. Len(s) + 1 : (c \o b)[j] = IF j <= Len(c) THEN c[j] ELSE b[j - Len(c)]
  <2>1. Len(c) + Len(b) = Len(s) + 1
    BY <1>1, <1>3, <1>4
  <2>2. /\ c \o b \in Seq(S) /\ Len(c \o b) = Len(c) + Len(b)
        /\ \A j \in 1 .. Len(c) + Len(b) : (c \o b)[j] = IF j <= Len(c) THEN c[j] ELSE b[j - Len(c)]
    BY <1>3, <1>4, ConcatProperties
  <2> QED BY <2>1, <2>2
<1>6. ASSUME NEW j \in 1 .. Len(s) + 1
      PROVE  (c \o b)[j] = IF j < i THEN s[j] ELSE IF j = i THEN e ELSE s[j - 1]
  <2>1. CASE j < i
    <3>1. j \in 1 .. i - 1 /\ j \in 1 .. i /\ j <= Len(a) /\ j <= Len(c)
      BY <1>1, <1>2, <1>4, <2>1
    <3>2. (c \o b)[j] = c[j] /\ c[j] = a[j] /\ a[j] = s[j]
      BY <1>2, <1>4, <1>5, <3>1
    <3> QED BY <2>1, <3>2
  <2>2. CASE j = i
    <3>1. j \in 1 .. i /\ ~(j <= Len(a)) /\ j <= Len(c) /\ ~(j < i)
      BY <1>1, <1>2, <1>4, <2>2
    <3>2. (c \o b)[j] = c[j] /\ c[j] = e
      BY <1>4, <1>5, <3>1
    <3> QED BY <2>2, <3>1, <3>2
  <2>3. CASE j > i
    <3>1. /\ ~(j <= Len(c)) /\ ~(j < i) /\ j # i
          /\ j - Len(c) \in 1 .. Len(s) - i + 1
          /\ i + (j - Len(c)) - 1 = j - 1
      BY <1>1, <1>4, <2>3
    <3>2. (c \o b)[j] = b[j - Len(c)]
      BY <1>5, <3>1
    <3>3. b[j - Len(c)] = s[j - 1]
      BY <1>3, <3>1
    <3> QED BY <3>1, <3>2, <3>3
  <2>4. j < i \/ j = i \/ j > i
    BY <1>1
  <2> QED BY <2>1, <2>2, <2>3, <2>4
<1> QED BY <1>5, <1>6 DEF InsertAt, a, b, c

LEMMA PlaceIs ==
  ASSUME NEW s, NEW m, m \in ToSet(s)
  PROVE  Place(s, m) \in DOMAIN s /\ s[Place(s, m)] = m
BY DEF Place, ToSet

\* Moving a module keeps all modules, each once.
LEMMA MovedEffect ==
  ASSUME order \in Seq(Modules), Distinct(order),
         NEW m \in ToSet(order), NEW anchor \in ToSet(order), NEW after \in BOOLEAN
  PROVE  LET s == Moved(m, anchor, after)
         IN  s \in Seq(Modules) /\ Distinct(s) /\ ToSet(s) = ToSet(order)
<1> DEFINE p == Place(order, m)
           rest == RemoveAt(order, p)
           k == Place(rest, anchor) + (IF after THEN 1 ELSE 0)
           s == Moved(m, anchor, after)
<1>1. /\ Len(order) \in Nat /\ DOMAIN order = 1 .. Len(order)
      /\ p \in 1 .. Len(order) /\ order[p] = m /\ m \in Modules
  BY PlaceIs, ElementOfSeq, SMTT(30)
<1>2. /\ rest \in Seq(Modules) /\ Len(rest) = Len(order) - 1
      /\ \A j \in 1 .. Len(order) - 1 : rest[j] = IF j < p THEN order[j] ELSE order[j + 1]
  BY <1>1, RemoveAtEffect
<1> HIDE DEF p, rest
<1>3. DOMAIN rest = 1 .. Len(order) - 1
  BY <1>2
<1> DEFINE up(j) == IF j < p THEN j ELSE j + 1
<1>9. \A j \in DOMAIN rest : up(j) \in DOMAIN order /\ up(j) # p /\ rest[j] = order[up(j)]
  BY <1>1, <1>2, <1>3
<1>10. \A i, j \in DOMAIN rest : up(i) = up(j) => i = j
  BY <1>1, <1>3
<1>4. Distinct(rest) /\ \A j \in DOMAIN rest : rest[j] # m
  <2> HIDE DEF up
  <2> QED BY <1>1, <1>9, <1>10 DEF Distinct
<1>5. ToSet(rest) = ToSet(order) \ {m}
  <2>1. ASSUME NEW x \in ToSet(rest)
        PROVE  x \in ToSet(order) \ {m}
    <3>1. PICK j \in DOMAIN rest : rest[j] = x
      BY DEF ToSet
    <3>2. up(j) \in DOMAIN order /\ order[up(j)] = x /\ x # m
      BY <1>4, <1>9, <3>1
    <3> HIDE DEF up
    <3> QED BY <3>2 DEF ToSet
  <2>2. ASSUME NEW x \in ToSet(order), x # m
        PROVE  x \in ToSet(rest)
    <3>1. PICK i \in 1 .. Len(order) : order[i] = x
      BY <1>1 DEF ToSet
    <3>2. i # p
      BY <1>1, <2>2, <3>1
    <3>3. CASE i < p
      <4>1. i \in DOMAIN rest /\ rest[i] = x
        BY <1>1, <1>2, <1>3, <3>1, <3>3
      <4> QED BY <4>1 DEF ToSet
    <3>4. CASE i > p
      <4>1. i - 1 \in DOMAIN rest /\ rest[i - 1] = x
        BY <1>1, <1>2, <1>3, <3>1, <3>4
      <4> QED BY <4>1 DEF ToSet
    <3> QED BY <1>1, <3>2, <3>3, <3>4
  <2> QED BY <2>1, <2>2
\* Inserting m anywhere into the rest.
<1>6. ASSUME NEW i \in 1 .. Len(rest) + 1, NEW r \in Seq(Modules), Len(r) = Len(rest) + 1,
             \A j \in 1 .. Len(rest) + 1 :
               r[j] = IF j < i THEN rest[j] ELSE IF j = i THEN m ELSE rest[j - 1]
      PROVE  Distinct(r) /\ ToSet(r) = ToSet(order)
  <2>1. DOMAIN r = 1 .. Len(rest) + 1 /\ Len(rest) \in Nat
    BY <1>2, <1>6
  <2> DEFINE down(j) == IF j < i THEN j ELSE j - 1
  <2>6. \A j \in DOMAIN r : j # i => down(j) \in DOMAIN rest /\ r[j] = rest[down(j)]
    BY <1>2, <1>3, <1>6, <2>1
  <2>7. \A h, j \in DOMAIN r : h # i /\ j # i /\ down(h) = down(j) => h = j
    BY <2>1
  <2>8. r[i] = m /\ i \in DOMAIN r
    BY <1>6, <2>1
  <2>2. Distinct(r)
    <3> HIDE DEF down
    <3> QED BY <1>4, <2>6, <2>7, <2>8 DEF Distinct
  <2>3. ASSUME NEW x \in ToSet(r)
        PROVE  x = m \/ x \in ToSet(rest)
    <3>1. PICK j \in 1 .. Len(rest) + 1 : r[j] = x
      BY <2>1 DEF ToSet
    <3>2. CASE j = i
      BY <1>6, <3>1, <3>2
    <3>3. CASE j < i
      <4>1. j \in DOMAIN rest /\ rest[j] = x
        BY <1>2, <1>3, <1>6, <3>1, <3>3
      <4> QED BY <4>1 DEF ToSet
    <3>4. CASE j > i
      <4>1. j - 1 \in DOMAIN rest /\ rest[j - 1] = x
        BY <1>2, <1>3, <1>6, <3>1, <3>4
      <4> QED BY <4>1 DEF ToSet
    <3> QED BY <3>2, <3>3, <3>4
  <2>4. m \in ToSet(r)
    BY <1>6, <2>1 DEF ToSet
  <2>5. ASSUME NEW x \in ToSet(rest)
        PROVE  x \in ToSet(r)
    <3>1. PICK j \in 1 .. Len(rest) : rest[j] = x
      BY <1>2, <1>3 DEF ToSet
    <3>2. CASE j < i
      <4>1. j \in DOMAIN r /\ r[j] = x
        BY <1>6, <2>1, <3>1, <3>2
      <4> QED BY <4>1 DEF ToSet
    <3>3. CASE j >= i
      <4>1. j + 1 \in DOMAIN r /\ r[j + 1] = x
        BY <1>6, <2>1, <3>1, <3>3
      <4> QED BY <4>1 DEF ToSet
    <3> QED BY <3>2, <3>3
  <2> QED BY <1>1, <1>5, <2>2, <2>3, <2>4, <2>5 DEF ToSet
<1>7. CASE anchor = m
  <2>1. s = Append(rest, m)
    BY <1>7 DEF Moved, rest, p
  <2>2. /\ s \in Seq(Modules) /\ Len(s) = Len(rest) + 1 /\ Len(rest) \in Nat
        /\ \A j \in 1 .. Len(rest) + 1 :
             s[j] = IF j < Len(rest) + 1 THEN rest[j]
                    ELSE IF j = Len(rest) + 1 THEN m ELSE rest[j - 1]
        /\ Len(rest) + 1 \in 1 .. Len(rest) + 1
    <3>1. rest \in Seq(Modules) /\ m \in Modules /\ Len(rest) \in Nat
      BY <1>1, <1>2
    <3>2. /\ Append(rest, m) \in Seq(Modules) /\ Len(Append(rest, m)) = Len(rest) + 1
          /\ \A j \in 1 .. Len(rest) : Append(rest, m)[j] = rest[j]
          /\ Append(rest, m)[Len(rest) + 1] = m
      BY <3>1, AppendProperties
    <3> QED BY <2>1, <3>1, <3>2
  <2> HIDE DEF s
  <2>3. Distinct(s) /\ ToSet(s) = ToSet(order)
    BY <1>6, <2>2
  <2> QED BY <2>2, <2>3 DEF s
<1>8. CASE anchor # m
  <2>1. s = InsertAt(rest, k, m)
    BY <1>8 DEF Moved, rest, p
  <2>2. k \in 1 .. Len(rest) + 1
    <3>1. anchor \in ToSet(rest)
      BY <1>5, <1>8
    <3>2. Place(rest, anchor) \in 1 .. Len(rest)
      BY <1>2, <1>3, <3>1, PlaceIs
    <3> QED BY <1>2, <3>2
  <2> HIDE DEF k
  <2>3. /\ s \in Seq(Modules) /\ Len(s) = Len(rest) + 1
        /\ \A j \in 1 .. Len(rest) + 1 :
             s[j] = IF j < k THEN rest[j] ELSE IF j = k THEN m ELSE rest[j - 1]
    <3>1. rest \in Seq(Modules) /\ m \in Modules
      BY <1>1, <1>2
    <3> DEFINE r == InsertAt(rest, k, m)
    <3>2. r \in Seq(Modules)
      BY <2>2, <3>1, InsertAtEffect
    <3>3. Len(r) = Len(rest) + 1
      BY <2>2, <3>1, InsertAtEffect
    <3>4. ASSUME NEW j \in 1 .. Len(rest) + 1
          PROVE  r[j] = IF j < k THEN rest[j] ELSE IF j = k THEN m ELSE rest[j - 1]
      BY <2>2, <3>1, InsertAtEffect
    <3> QED BY <2>1, <3>2, <3>3, <3>4
  <2> HIDE DEF s
  <2>4. Distinct(s) /\ ToSet(s) = ToSet(order)
    BY <1>6, <2>2, <2>3
  <2> QED BY <2>3, <2>4 DEF s
<1> QED BY <1>7, <1>8

-----------------------------------------------------------------------------
(* Types.                                                                   *)

Own(m) == \/ ReadFrame(m)
          \/ RequestSuspension(m)
          \/ PassOn(m)
          \/ Drop(m)
          \/ Copy(m)
          \/ NothingToDo(m)
          \/ Pack(m)
          \/ FinishModule(m)

LEMMA OwnSteps ==
  ASSUME TypeOK, NEW m \in Modules, Own(m)
  PROVE  \E g, taken, given, ns : OwnStep(m, g, taken, given, ns)
BY ReadFrameStep, NothingStep, PassOnStep, DropStep, CopyStep, PackStep, FinishModuleStep DEF Own

LEMMA OwnStepTypes ==
  ASSUME TypeOK, NEW m \in Modules, NEW g, NEW taken, NEW given, NEW ns,
         OwnStep(m, g, taken, given, ns)
  PROVE  TypeOK'
<1>1. stack' \in Seq(CallType)
  BY LookingEffect DEF OwnStep, TypeOK
<1>2. FlowTypeOK(flow')
  BY DEF OwnStep, HandedTo
<1>3. queue' \in [Modules -> Seq(1 .. Len(flow'.heap))]
  <2>1. queue' = [k \in Modules |-> queue'[k]]
    BY DEF OwnStep
  <2>2. \A k \in Modules : queue'[k] \in Seq(1 .. Len(flow'.heap))
    BY DEF OwnStep
  <2> QED BY <2>1, <2>2
<1>4. read' \in 0 .. Len(Script)
  BY TrayAssumption, SMTT(30) DEF OwnStep, TypeOK
<1>5. seen' \in [Modules -> Seq(Natives)]
  <2>1. seen \in [Modules -> Seq(Natives)]
    BY DEF TypeOK
  <2>2. CASE seen' = seen
    BY <2>1, <2>2
  <2>3. CASE seen' # seen
    <3> DEFINE n == Native(flow.heap[PeekFrame(flow, m)])
    <3>1. Waiting(flow, m) # <<>> /\ seen' = [seen EXCEPT ![m] = Append(@, n)]
      BY <2>3 DEF OwnStep
    <3>2. n \in Natives
      BY <3>1, TakingFacts
    <3> HIDE DEF n
    <3>3. Append(seen[m], n) \in Seq(Natives)
      BY <2>1, <3>2
    <3> QED BY <2>1, <3>1, <3>3
  <2> QED BY <2>2, <2>3
<1>6. finished' \in [Modules -> Nat]
  <2>1. finished' = finished \/ finished' = [finished EXCEPT ![m] = @ + 1]
    <3>1. Top.op \in {"process", "finish"}
      BY LastIsTop DEF OwnStep, TypeOK, CallType
    <3> QED BY <3>1 DEF OwnStep
  <2>2. finished \in [Modules -> Nat]
    BY DEF TypeOK
  <2> QED BY <2>1, <2>2
<1>7. /\ UNCHANGED <<order, boxes_connected, configure_called, execute_called, driving,
                    global_suspension, interrupted, phase, left, result>>
      /\ suspension_requested' \in {suspension_requested, TRUE}
  BY DEF OwnStep, setup, signals
<1>8. /\ order' \in Seq(Modules)
      /\ \A i, j \in DOMAIN order' : order'[i] = order'[j] => i = j
      /\ boxes_connected' \in BOOLEAN /\ configure_called' \in BOOLEAN
      /\ execute_called' \in BOOLEAN
      /\ global_suspension' \in BOOLEAN /\ interrupted' \in BOOLEAN
      /\ phase' \in {"idle", "looping", "finishing"}
      /\ left' \in Nat \cup {Forever}
      /\ driving' \in Modules \cup {None}
      /\ phase' # "idle" => driving' # None
      /\ result' \in {"none", "returned", "sigint", "fatal", "exited"}
  BY <1>7 DEF TypeOK
<1>9. suspension_requested' \in BOOLEAN
  <2>1. suspension_requested \in BOOLEAN
    BY DEF TypeOK
  <2> QED BY <1>7, <2>1
<1> QED BY <1>1, <1>2, <1>3, <1>4, <1>5, <1>6, <1>8, <1>9 DEF TypeOK

LEMMA TypeInit == Init => TypeOK
<1> SUFFICES ASSUME Init PROVE TypeOK
  OBVIOUS
<1>1. FlowTypeOK(flow)
  <2>1. flow = NoFlow
    BY DEF Init
  <2>2. flow.heap = <<>> /\ Len(flow.heap) = 0
    BY <2>1 DEF NoFlow
  <2>3. flow.heap = [r \in 1 .. Len(flow.heap) |-> flow.heap[r]]
    BY <2>2
  <2>4. \A r \in 1 .. Len(flow.heap) : FrameTypeOK(flow.heap[r])
    BY <2>2
  <2>5. flow.fifo \in [Boxes -> Seq(1 .. Len(flow.heap))]
    BY <2>1 DEF NoFlow
  <2>6. /\ flow = [target |-> flow.target, inbox |-> flow.inbox, fifo |-> flow.fifo,
                   mixer |-> flow.mixer, heap |-> flow.heap]
        /\ flow.target \in [Boxes -> Modules \cup {None}]
        /\ flow.inbox \in [Modules -> Boxes \cup {None}]
        /\ flow.mixer = [x \in Boxes |-> flow.mixer[x]]
    BY <2>1 DEF NoFlow
  <2> QED BY <2>2, <2>3, <2>4, <2>5, <2>6 DEF FlowTypeOK
<1>2. /\ order \in Seq(Modules)
      /\ \A i, j \in DOMAIN order : order[i] = order[j] => i = j
      /\ stack \in Seq(CallType)
  BY DEF Init
<1>3. queue \in [Modules -> Seq(1 .. Len(flow.heap))]
  BY DEF Init
<1>4. read \in 0 .. Len(Script)
  BY TrayAssumption DEF Init
<1>5. seen \in [Modules -> Seq(Natives)] /\ finished \in [Modules -> Nat]
  BY DEF Init
<1>6. /\ boxes_connected \in BOOLEAN /\ configure_called \in BOOLEAN
      /\ execute_called \in BOOLEAN /\ suspension_requested \in BOOLEAN
      /\ global_suspension \in BOOLEAN /\ interrupted \in BOOLEAN
      /\ phase \in {"idle", "looping", "finishing"}
      /\ left \in Nat \cup {Forever}
      /\ driving \in Modules \cup {None}
      /\ phase # "idle" => driving # None
      /\ result \in {"none", "returned", "sigint", "fatal", "exited"}
  BY DEF Init
<1> QED BY <1>1, <1>2, <1>3, <1>4, <1>5, <1>6 DEF TypeOK

\* The connections.
LEMMA ConnectOutBoxEffect ==
  ASSUME NEW fl, FlowTypeOK(fl), NEW from, NEW box, <<from, box>> \in Boxes, NEW to \in Modules
  PROVE  LET g == ConnectOutBox(fl, from, box, to)
         IN  /\ FlowTypeOK(g) /\ g.fifo = fl.fifo /\ g.mixer = fl.mixer /\ g.heap = fl.heap
             /\ g.target = [fl.target EXCEPT ![<<from, box>>] = to]
             /\ g.inbox = [fl.inbox EXCEPT ![to] = <<from, box>>]
<1> DEFINE g == ConnectOutBox(fl, from, box, to)
           x == <<from, box>>
<1>1. /\ fl = [target |-> fl.target, inbox |-> fl.inbox, fifo |-> fl.fifo,
               mixer |-> fl.mixer, heap |-> fl.heap]
      /\ fl.target \in [Boxes -> Modules \cup {None}]
      /\ fl.inbox \in [Modules -> Boxes \cup {None}]
  BY DEF FlowTypeOK
<1>2. g = [fl EXCEPT !.target[x] = to, !.inbox[to] = x]
  BY DEF ConnectOutBox
<1> HIDE DEF g, x
<1>3. /\ g = [target |-> g.target, inbox |-> g.inbox, fifo |-> g.fifo,
              mixer |-> g.mixer, heap |-> g.heap]
      /\ g.fifo = fl.fifo /\ g.mixer = fl.mixer /\ g.heap = fl.heap
      /\ g.target = [fl.target EXCEPT ![x] = to]
      /\ g.inbox = [fl.inbox EXCEPT ![to] = x]
  BY <1>1, <1>2
<1>4. x \in Boxes
  BY DEF x
<1>5. /\ g.target \in [Boxes -> Modules \cup {None}]
      /\ g.inbox \in [Modules -> Boxes \cup {None}]
  BY <1>1, <1>3, <1>4
<1>6. FlowTypeOK(g)
  BY <1>3, <1>5 DEF FlowTypeOK
<1> QED BY <1>3, <1>6 DEF g, x

\* A line of modules: each is connected to the one behind it.
LEMMA InALineEffect ==
  ASSUME TypeOK
  PROVE  LET g == InALine
         IN  /\ FlowTypeOK(g) /\ g.fifo = flow.fifo /\ g.mixer = flow.mixer /\ g.heap = flow.heap
             /\ \A i \in Connectable : /\ <<order[i], "OutBox">> \in Boxes /\ order[i + 1] \in Modules
                                       /\ g.target[<<order[i], "OutBox">>] = order[i + 1]
                                       /\ g.inbox[order[i + 1]] = <<order[i], "OutBox">>
             /\ \A x \in Boxes : (\A i \in Connectable : x # <<order[i], "OutBox">>) =>
                                  g.target[x] = flow.target[x]
             /\ \A m \in Modules : (\A i \in Connectable : m # order[i + 1]) =>
                                    g.inbox[m] = flow.inbox[m]
<1> DEFINE g == InALine
           t == [x \in Boxes |-> IF \E w \in Line : x = <<w[1], w[2]>>
                                 THEN (CHOOSE w \in Line : x = <<w[1], w[2]>>)[3] ELSE flow.target[x]]
           b == [m \in Modules |-> IF \E w \in Line : m = w[3]
                                   THEN LET w == CHOOSE v \in Line : m = v[3]
                                        IN  <<w[1], w[2]>>
                                   ELSE flow.inbox[m]]
<1>1. FlowTypeOK(flow) /\ order \in Seq(Modules) /\ Distinct(order)
  BY DEF TypeOK, Distinct
<1>2. /\ flow = [target |-> flow.target, inbox |-> flow.inbox, fifo |-> flow.fifo,
                 mixer |-> flow.mixer, heap |-> flow.heap]
      /\ flow.target \in [Boxes -> Modules \cup {None}]
      /\ flow.inbox \in [Modules -> Boxes \cup {None}]
  BY <1>1 DEF FlowTypeOK
<1>3. g = [flow EXCEPT !.target = t, !.inbox = b]
  BY DEF InALine
<1>4. /\ Len(order) \in Nat /\ DOMAIN order = 1 .. Len(order)
      /\ \A i \in DOMAIN order : order[i] \in Modules
  BY <1>1
<1>5. \A i \in Connectable : /\ i \in DOMAIN order /\ i + 1 \in DOMAIN order /\ i \in Int
                             /\ <<order[i], "OutBox">> \in Boxes
  <2>1. ASSUME NEW i \in Connectable
        PROVE  i \in 1 .. Len(order) - 1 /\ HasOutBox(order[i], "OutBox")
    BY <1>4 DEF Connectable
  <2> QED BY <1>4, <2>1 DEF HasOutBox, Boxes
<1>6. ASSUME NEW w \in Line
      PROVE  \E i \in Connectable : w = <<order[i], "OutBox", order[i + 1]>>
  BY DEF Line
<1>7. ASSUME NEW i \in Connectable
      PROVE  <<order[i], "OutBox", order[i + 1]>> \in Line
  BY DEF Line
<1>8. ASSUME NEW i \in Connectable
      PROVE  t[<<order[i], "OutBox">>] = order[i + 1]
  <2> DEFINE x == <<order[i], "OutBox">>
             w == CHOOSE v \in Line : x = <<v[1], v[2]>>
  <2>1. w \in Line /\ x = <<w[1], w[2]>>
    <3>1. \E v \in Line : x = <<v[1], v[2]>>
      BY <1>7
    <3> QED BY <3>1
  <2> HIDE DEF w
  <2>2. PICK j \in Connectable : w = <<order[j], "OutBox", order[j + 1]>>
    BY <1>6, <2>1
  <2>3. order[j] = order[i]
    BY <2>1, <2>2
  <2>4. j = i
    BY <1>1, <1>5, <2>3 DEF Distinct
  <2>5. w[3] = order[i + 1]
    BY <2>2, <2>4
  <2>6. t[x] = w[3]
    BY <1>5, <2>1 DEF w
  <2> QED BY <2>5, <2>6
<1>9. ASSUME NEW i \in Connectable
      PROVE  b[order[i + 1]] = <<order[i], "OutBox">>
  <2> DEFINE m == order[i + 1]
             w == CHOOSE v \in Line : m = v[3]
  <2>1. w \in Line /\ m = w[3]
    <3>1. \E v \in Line : m = v[3]
      BY <1>7
    <3> QED BY <3>1
  <2> HIDE DEF w
  <2>2. PICK j \in Connectable : w = <<order[j], "OutBox", order[j + 1]>>
    BY <1>6, <2>1
  <2>3. order[j + 1] = order[i + 1]
    BY <2>1, <2>2
  <2>4. j + 1 = i + 1
    BY <1>1, <1>5, <2>3 DEF Distinct
  <2>5. j = i
    <3>1. i \in Int /\ j \in Int
      BY <1>5
    <3> QED BY <2>4, <3>1
  <2>6. b[m] = <<w[1], w[2]>>
    BY <1>4, <1>5, <2>1 DEF w
  <2> QED BY <2>2, <2>5, <2>6
<1>10. ASSUME NEW x \in Boxes, \A i \in Connectable : x # <<order[i], "OutBox">>
       PROVE  t[x] = flow.target[x]
  <2>1. ~ \E w \in Line : x = <<w[1], w[2]>>
    BY <1>6, <1>10
  <2> QED BY <2>1
<1>11. ASSUME NEW m \in Modules, \A i \in Connectable : m # order[i + 1]
       PROVE  b[m] = flow.inbox[m]
  <2>1. ~ \E w \in Line : m = w[3]
    BY <1>6, <1>11
  <2> QED BY <2>1
<1>12. t \in [Boxes -> Modules \cup {None}]
  <2>1. ASSUME NEW x \in Boxes
        PROVE  t[x] \in Modules \cup {None}
    <3> HIDE DEF t
    <3>1. CASE \A i \in Connectable : x # <<order[i], "OutBox">>
      BY <1>2, <1>10, <3>1
    <3>2. CASE \E i \in Connectable : x = <<order[i], "OutBox">>
      BY <1>4, <1>5, <1>8, <3>2
    <3> QED BY <3>1, <3>2
  <2> QED BY <2>1
<1>13. b \in [Modules -> Boxes \cup {None}]
  <2>1. ASSUME NEW m \in Modules
        PROVE  b[m] \in Boxes \cup {None}
    <3> HIDE DEF b
    <3>1. CASE \A i \in Connectable : m # order[i + 1]
      BY <1>2, <1>11, <3>1
    <3>2. CASE \E i \in Connectable : m = order[i + 1]
      BY <1>5, <1>9, <3>2
    <3> QED BY <3>1, <3>2
  <2> QED BY <2>1
<1> HIDE DEF t, b, g
<1>14. /\ g = [target |-> g.target, inbox |-> g.inbox, fifo |-> g.fifo,
               mixer |-> g.mixer, heap |-> g.heap]
       /\ g.target = t /\ g.inbox = b
       /\ g.fifo = flow.fifo /\ g.mixer = flow.mixer /\ g.heap = flow.heap
  BY <1>2, <1>3
<1>15. FlowTypeOK(g)
  BY <1>1, <1>12, <1>13, <1>14 DEF FlowTypeOK
<1>16. \A i \in Connectable : order[i + 1] \in Modules
  BY <1>4, <1>5
<1> QED BY <1>5, <1>8, <1>9, <1>10, <1>11, <1>14, <1>15, <1>16 DEF g

LEMMA TypeNext == TypeOK /\ [Next]_vars => TypeOK'
<1> SUFFICES ASSUME TypeOK, [Next]_vars PROVE TypeOK'
  OBVIOUS
<1> DEFINE SetUpTypes ==
             /\ order \in Seq(Modules) /\ Distinct(order)
             /\ boxes_connected \in BOOLEAN /\ configure_called \in BOOLEAN
             /\ execute_called \in BOOLEAN /\ driving \in Modules \cup {None}
             /\ phase # "idle" => driving # None
           RunTypes ==
             /\ suspension_requested \in BOOLEAN
             /\ global_suspension \in BOOLEAN /\ interrupted \in BOOLEAN
             /\ phase \in {"idle", "looping", "finishing"} /\ left \in Nat \cup {Forever}
             /\ result \in {"none", "returned", "sigint", "fatal", "exited"}
           FrameTypes ==
             /\ queue \in [Modules -> Seq(1 .. Len(flow.heap))]
             /\ read \in 0 .. Len(Script)
             /\ seen \in [Modules -> Seq(Natives)] /\ finished \in [Modules -> Nat]
<1>1. /\ SetUpTypes /\ RunTypes /\ FrameTypes
      /\ stack \in Seq(CallType) /\ FlowTypeOK(flow)
  BY DEF TypeOK, Distinct
<1>2. SetUpTypes' /\ RunTypes' /\ FrameTypes' /\ stack' \in Seq(CallType) /\ FlowTypeOK(flow') => TypeOK'
  BY DEF TypeOK, Distinct
<1>3. ASSUME NEW m \in Modules, AddModule(m)
      PROVE  TypeOK'
  <2>1. order' \in Seq(Modules) /\ Distinct(order')
    <3>1. order' = Append(order, m) /\ m \notin ToSet(order)
      BY <1>3 DEF AddModule
    <3>2. DOMAIN order = 1 .. Len(order) /\ Len(order) \in Nat
      BY <1>1
    <3>3. \A i \in DOMAIN order : order[i] # m
      BY <3>1 DEF ToSet
    <3>4. /\ order' \in Seq(Modules) /\ DOMAIN order' = 1 .. Len(order) + 1
          /\ \A i \in DOMAIN order : order'[i] = order[i]
          /\ order'[Len(order) + 1] = m
      BY <1>1, <3>1, <3>2
    <3>5. \A i \in DOMAIN order' : i \in DOMAIN order \/ i = Len(order) + 1
      BY <3>2, <3>4
    <3>6. Distinct(order')
      BY <1>1, <3>3, <3>4, <3>5 DEF Distinct
    <3> QED BY <3>4, <3>6
  <2>2. UNCHANGED <<boxes_connected, configure_called, execute_called, driving,
                    suspension_requested, signals, phase, left, result, stack,
                    flow, queue, read, history>>
    BY <1>3 DEF AddModule
  <2> QED BY <1>1, <1>2, <2>1, <2>2 DEF signals, history
<1>4. ASSUME NEW m \in Modules, NEW anchor \in Modules, NEW after \in BOOLEAN,
             MoveModule(m, anchor, after)
      PROVE  TypeOK'
  <2>1. order' \in Seq(Modules) /\ Distinct(order')
    BY <1>1, <1>4, MovedEffect DEF MoveModule
  <2>2. UNCHANGED <<boxes_connected, configure_called, execute_called, driving,
                    suspension_requested, signals, phase, left, result, stack,
                    flow, queue, read, history>>
    BY <1>4 DEF MoveModule
  <2> QED BY <1>1, <1>2, <2>1, <2>2 DEF signals, history
<1>5. ASSUME NEW w \in Wires, ConnectBoxes(w[1], w[2], w[3])
      PROVE  TypeOK'
  <2>1. FlowTypeOK(flow') /\ flow'.heap = flow.heap
    <3>1. <<w[1], w[2]>> \in Boxes /\ w[3] \in Modules
      BY TrayAssumption
    <3>2. flow' = ConnectOutBox(flow, w[1], w[2], w[3]) \/ flow' = flow
      BY <1>5 DEF ConnectBoxes
    <3>3. FlowTypeOK(flow)
      BY <1>1
    <3> HIDE DEF SetUpTypes, RunTypes, FrameTypes
    <3>4. FlowTypeOK(ConnectOutBox(flow, w[1], w[2], w[3]))
      BY <3>1, <3>3, ConnectOutBoxEffect
    <3>5. ConnectOutBox(flow, w[1], w[2], w[3]).heap = flow.heap
      <4>1. flow = [target |-> flow.target, inbox |-> flow.inbox, fifo |-> flow.fifo,
                    mixer |-> flow.mixer, heap |-> flow.heap]
        BY <3>3 DEF FlowTypeOK
      <4> QED BY <4>1 DEF ConnectOutBox
    <3> QED BY <3>2, <3>3, <3>4, <3>5
  <2>2. /\ boxes_connected' = TRUE
        /\ UNCHANGED <<order, configure_called, execute_called, driving,
                       suspension_requested, signals, phase, left, result, stack,
                       queue, read, history>>
    BY <1>5 DEF ConnectBoxes
  <2> QED BY <1>1, <1>2, <2>1, <2>2 DEF signals, history
<1>6. ASSUME NEW count \in Counts, Execute(count)
      PROVE  TypeOK'
  <2>1. FlowTypeOK(flow') /\ flow'.heap = flow.heap
    <3>1. flow' = flow \/ flow' = InALine
      BY <1>6 DEF Execute, Connected
    <3> QED BY <1>1, <3>1, InALineEffect
  <2>2. /\ phase' \in {"idle", "looping", "finishing"} /\ left' \in Nat \cup {Forever}
        /\ result' \in {"none", "returned", "sigint", "fatal", "exited"}
        /\ driving' \in Modules \cup {None}
        /\ phase' # "idle" => driving' # None
    <3>1. \/ result' = "fatal" /\ UNCHANGED <<phase, left, driving>>
          \/ phase' = "looping" /\ left' = count /\ driving' \in ToSet(order) /\ result' = result
      BY <1>6 DEF Execute, Inboxless
    <3>2. ToSet(order) \subseteq Modules /\ None \notin Modules
      BY <1>1, FrameFlowAssumption DEF ToSet
    <3>3. phase = "idle"
      BY <1>6 DEF Execute
    <3> QED BY <1>1, <3>1, <3>2, <3>3, TrayAssumption
  <2>3. execute_called' \in BOOLEAN /\ configure_called' \in BOOLEAN
    BY <1>6 DEF Execute
  <2>4. UNCHANGED <<order, boxes_connected, suspension_requested, signals, stack,
                    queue, read, history>>
    BY <1>6 DEF Execute
  <2> QED BY <1>1, <1>2, <2>1, <2>2, <2>3, <2>4 DEF signals, history
<1>7. ASSUME NEW m \in Modules, Own(m)
      PROVE  TypeOK'
  BY <1>7, OwnSteps, OwnStepTypes
<1>8. CASE Dispatch \/ BeginFinish
  <2>1. \E op \in {"process", "finish"} : stack' = <<Call(driving, op)>>
    BY <1>8 DEF Dispatch, BeginFinish
  <2>2. driving \in Modules
    BY <1>1, <1>8 DEF Dispatch, BeginFinish
  <2>3. stack' \in Seq(CallType)
    <3>1. PICK op \in {"process", "finish"} : stack' = <<Call(driving, op)>>
      BY <2>1
    <3>2. Call(driving, op) \in CallType
      BY <2>2 DEF Call, CallType
    <3> QED BY <3>1, <3>2
  <2>4. left' \in Nat \cup {Forever}
    BY <1>1, <1>8 DEF Dispatch, BeginFinish, KeepLooping, Forever
  <2>5. /\ phase' \in {"looping", "finishing"} /\ phase # "idle"
        /\ UNCHANGED <<setup, suspension_requested, signals, result, flow,
                       queue, read, history>>
    BY <1>8 DEF Dispatch, BeginFinish
  <2> QED BY <1>1, <1>2, <2>3, <2>4, <2>5 DEF setup, signals, history
<1>9. CASE Return \/ Throw \/ InterruptAgain
  <2>1. /\ phase' = "idle" /\ (stack' = <<>> \/ stack' = stack)
        /\ result' \in {"none", "returned", "sigint", "fatal", "exited"}
        /\ UNCHANGED <<setup, suspension_requested, signals, left, flow,
                       queue, read, history>>
    BY <1>9 DEF Return, Throw, InterruptAgain
  <2>2. stack' \in Seq(CallType)
    <3>1. stack \in Seq(CallType)
      BY <1>1
    <3>2. stack' = <<>> \/ stack' = stack
      BY <2>1
    <3>3. <<>> \in Seq(CallType)
      OBVIOUS
    <3> QED BY <3>1, <3>2, <3>3
  <2> QED BY <1>1, <1>2, <2>1, <2>2 DEF setup, signals, history
<1>10. ASSUME NEW x \in Boxes, Drain(x) \/ NextBox(x) \/ FinishNext(x)
       PROVE  TypeOK'
  <2>1. stack # <<>> /\ Last(stack) = Top /\ Top \in CallType /\ Top.box \in Nat
    <3>1. stack # <<>>
      BY <1>10 DEF Drain, NextBox, FinishNext, AtBox
    <3> QED BY <1>1, <3>1, LastIsTop DEF CallType
  <2>2. \E s \in Seq(CallType), op \in {"process", "finish"} :
          stack' = s \/ (flow.target[x] # None /\ stack' = Append(s, Call(flow.target[x], op)))
    <3>0. Top.box + 1 \in Nat
      BY <2>1
    <3>1. Looking(Top.box + 1) \in Seq(CallType)
      BY <1>1, <2>1, <3>0, LookingEffect
    <3> QED BY <1>1, <1>10, <2>1, <3>1 DEF Drain, NextBox, FinishNext, Filled
  <2>3. flow.target[x] # None => flow.target[x] \in Modules
    BY <1>1 DEF FlowTypeOK
  <2>4. stack' \in Seq(CallType)
    <3>1. PICK s \in Seq(CallType), op \in {"process", "finish"} :
            stack' = s \/ (flow.target[x] # None /\ stack' = Append(s, Call(flow.target[x], op)))
      BY <2>2
    <3>2. CASE stack' = s
      BY <3>2
    <3>3. CASE flow.target[x] # None /\ stack' = Append(s, Call(flow.target[x], op))
      <4>1. Call(flow.target[x], op) \in CallType
        BY <2>3, <3>3 DEF Call, CallType
      <4> QED BY <3>3, <4>1, AppendProperties
    <3> QED BY <3>1, <3>2, <3>3
  <2>5. UNCHANGED <<setup, suspension_requested, signals, phase, left,
                    result, flow, queue, read, history>>
    BY <1>10 DEF Drain, NextBox, FinishNext, Elsewhere
  <2> QED BY <1>1, <1>2, <2>4, <2>5 DEF setup, signals, history
<1>11. CASE DoReturns
  <2>1. stack' \in Seq(CallType)
    BY <1>1, <1>11, FrontEffect DEF DoReturns
  <2>2. UNCHANGED <<setup, suspension_requested, signals, phase, left,
                    result, flow, queue, read, history>>
    BY <1>11 DEF DoReturns, Elsewhere
  <2> QED BY <1>1, <1>2, <2>1, <2>2 DEF setup, signals, history
<1>12. CASE Interrupt \/ Terminate
  <2>1. global_suspension' = TRUE /\ (interrupted' = TRUE \/ interrupted' = interrupted)
    BY <1>12 DEF Interrupt, Terminate
  <2>2. UNCHANGED <<setup, suspension_requested, phase, left, result, stack,
                    flow, queue, read, history>>
    BY <1>12 DEF Interrupt, Terminate
  <2>3. interrupted' \in BOOLEAN
    BY <1>1, <2>1
  <2> QED BY <1>1, <1>2, <2>1, <2>2, <2>3 DEF setup, signals, history
<1>13. CASE UNCHANGED vars
  BY <1>1, <1>2, <1>13 DEF vars, setup, signals, history
<1> QED
  BY <1>3, <1>4, <1>5, <1>6, <1>7, <1>8, <1>9, <1>10, <1>11, <1>12, <1>13
  DEF Next, Setup, Running, Do, Own, Signal

\* The types hold, whatever the tray and however it is used: in particular
\* there is a frame behind every reference in a fifo or a queue.
THEOREM TypeSafety == Spec => []TypeOK
<1>1. Init => TypeOK
  BY TypeInit
<1>2. TypeOK /\ [Next]_vars => TypeOK'
  BY TypeNext
<1> QED BY <1>1, <1>2, PTL DEF Spec
-----------------------------------------------------------------------------
(* The looks at the outboxes.                                               *)

\* The innermost call looks at outbox x: it calls the module x goes to, stays
\* if it found frames there and goes on to the next outbox if it did not.
Calling(x) == Filled(x) \/ (flow.target[x] # None /\ Top.op = "finish")

BoxStep(x) ==
  /\ Elsewhere
  /\ stack # <<>> /\ Top.mod = x[1]
  /\ Top.box \in DOMAIN OutBoxes[x[1]] /\ OutBoxes[x[1]][Top.box] = x[2]
  /\ stack' \in Seq(CallType)
  /\ Len(stack') = IF Calling(x) THEN Len(stack) + 1 ELSE Len(stack)
  /\ \A i \in 1 .. Len(stack) - 1 : stack'[i] = stack[i]
  /\ stack'[Len(stack)] = [mod |-> Top.mod, op |-> Top.op,
                           box |-> IF Filled(x) THEN Top.box ELSE Top.box + 1]
  /\ Calling(x) => stack'[Len(stack) + 1] =
                     [mod |-> flow.target[x],
                      op |-> IF Filled(x) THEN "process" ELSE "finish", box |-> 0]

LEMMA BoxSteps ==
  ASSUME TypeOK, NEW x \in Boxes, Drain(x) \/ NextBox(x) \/ FinishNext(x)
  PROVE  BoxStep(x)
<1>1. stack \in Seq(CallType)
  BY DEF TypeOK
<1>2. /\ stack # <<>> /\ Elsewhere /\ Last(stack) = Top
      /\ Top.box \in DOMAIN OutBoxes[Top.mod] /\ x = <<Top.mod, OutBoxes[Top.mod][Top.box]>>
  <2>1. stack # <<>> /\ Elsewhere
    BY DEF Drain, NextBox, FinishNext, AtBox
  <2>2. Last(stack) = Top
    BY <1>1, <2>1, LastIsTop
  <2> QED BY <2>1, <2>2 DEF Drain, NextBox, FinishNext, AtBox
<1>3. Top.mod = x[1] /\ Top.box \in DOMAIN OutBoxes[x[1]] /\ OutBoxes[x[1]][Top.box] = x[2]
  BY <1>2
<1>4. Top \in CallType /\ Len(stack) \in Nat \ {0}
  BY <1>1, <1>2, LastIsTop
<1>5. Top = [mod |-> Top.mod, op |-> Top.op, box |-> Top.box] /\ Top.box + 1 \in Nat
  BY <1>4 DEF CallType
<1>6. flow.target[x] # None => flow.target[x] \in Modules
  BY DEF TypeOK, FlowTypeOK
<1> DEFINE n == Len(stack)
           s == Looking(Top.box + 1)
<1>7. /\ s \in Seq(CallType) /\ Len(s) = n
      /\ \A i \in 1 .. n - 1 : s[i] = stack[i]
      /\ s[n] = [mod |-> Top.mod, op |-> Top.op, box |-> Top.box + 1]
  BY <1>1, <1>2, <1>5, LookingEffect
<1> HIDE DEF s
<1>8. ASSUME NEW t \in Seq(CallType), Len(t) = n, NEW op \in {"process", "finish"},
             flow.target[x] # None, stack' = Append(t, Call(flow.target[x], op))
      PROVE  /\ stack' \in Seq(CallType) /\ Len(stack') = n + 1
             /\ \A i \in 1 .. n : stack'[i] = t[i]
             /\ stack'[n + 1] = [mod |-> flow.target[x], op |-> op, box |-> 0]
  <2>1. /\ Call(flow.target[x], op) = [mod |-> flow.target[x], op |-> op, box |-> 0]
        /\ Call(flow.target[x], op) \in CallType
    BY <1>6, <1>8 DEF Call, CallType
  <2> QED BY <1>8, <2>1, AppendProperties
<1>9. CASE Drain(x)
  <2>1. Filled(x) /\ stack' = Append(stack, Call(flow.target[x], "process"))
    BY <1>9 DEF Drain
  <2>2. /\ stack' \in Seq(CallType) /\ Len(stack') = n + 1
        /\ \A i \in 1 .. n : stack'[i] = stack[i]
        /\ stack'[n + 1] = [mod |-> flow.target[x], op |-> "process", box |-> 0]
    BY <1>1, <1>8, <2>1 DEF Filled
  <2>3. stack'[n] = Top
    BY <1>4, <2>2 DEF Top
  <2> QED BY <1>2, <1>3, <1>4, <1>5, <2>1, <2>2, <2>3 DEF BoxStep, Calling
<1>10. CASE NextBox(x)
  <2>1. ~Filled(x) /\ ~Calling(x) /\ stack' = s
    BY <1>2, <1>10, SMTT(30) DEF NextBox, s, Calling
  <2> QED BY <1>2, <1>3, <1>4, <1>7, <2>1 DEF BoxStep
<1>11. CASE FinishNext(x)
  <2>1. /\ ~Filled(x) /\ flow.target[x] # None /\ Top.op = "finish"
        /\ stack' = Append(s, Call(flow.target[x], "finish"))
    BY <1>2, <1>11 DEF FinishNext, s
  <2>2. /\ stack' \in Seq(CallType) /\ Len(stack') = n + 1
        /\ \A i \in 1 .. n : stack'[i] = s[i]
        /\ stack'[n + 1] = [mod |-> flow.target[x], op |-> "finish", box |-> 0]
    BY <1>7, <1>8, <2>1
  <2>3. stack'[n] = s[n] /\ \A i \in 1 .. n - 1 : stack'[i] = stack[i]
    BY <1>4, <1>7, <2>2
  <2> QED BY <1>2, <1>3, <1>4, <1>7, <2>1, <2>2, <2>3 DEF BoxStep, Calling
<1> QED BY <1>9, <1>10, <1>11

-----------------------------------------------------------------------------
(* What a module's own step does to the frames under way.                   *)

Travelling(x) == NativesOf(flow, flow.fifo[x])

LEMMA TravellingTypes ==
  ASSUME TypeOK, NEW x \in Boxes
  PROVE  /\ Travelling(x) \in Seq(Natives) /\ Len(Travelling(x)) = Len(flow.fifo[x])
         /\ flow.fifo[x] \in Seq(1 .. Len(flow.heap))
         /\ Travelling(x) = <<>> <=> flow.fifo[x] = <<>>
<1>1. FlowTypeOK(flow) /\ flow.fifo[x] \in Seq(1 .. Len(flow.heap))
  BY DEF TypeOK, FlowTypeOK
<1>2. Travelling(x) \in Seq(Natives) /\ Len(Travelling(x)) = Len(flow.fifo[x])
  BY <1>1, NativesOfTypes DEF Travelling
<1> QED BY <1>1, <1>2

\* The frame a module takes is the first one of its inbox.
LEMMA PoppedTravel ==
  ASSUME TypeOK, NEW m \in Modules, Waiting(flow, m) # <<>>
  PROVE  LET g == PopFrame(flow, m)
             taken == <<Native(flow.heap[PeekFrame(flow, m)])>>
         IN  /\ \A x \in Boxes : NativesOf(g, g.fifo[x]) \in Seq(Natives)
             /\ \A x \in Boxes : x # flow.inbox[m] => NativesOf(g, g.fifo[x]) = Travelling(x)
             /\ Travelling(flow.inbox[m]) = taken \o NativesOf(g, g.fifo[flow.inbox[m]])
<1> DEFINE g == PopFrame(flow, m)
           y == flow.inbox[m]
           ref == PeekFrame(flow, m)
           n == Native(flow.heap[ref])
<1>1. FlowTypeOK(flow)
  BY DEF TypeOK
<1>2. /\ FlowTypeOK(g) /\ y \in Boxes /\ flow.fifo[y] # <<>>
      /\ ref = flow.fifo[y][1] /\ ref \in 1 .. Len(flow.heap)
      /\ g.heap = flow.heap /\ g.fifo[y] = Tail(flow.fifo[y])
      /\ \A x \in Boxes : x # y => g.fifo[x] = flow.fifo[x]
  BY <1>1, PopFrameEffect
<1> HIDE DEF g, y, ref
<1>3. ASSUME NEW x \in Boxes
      PROVE  NativesOf(g, g.fifo[x]) \in Seq(Natives)
  <2>1. g.fifo[x] \in Seq(1 .. Len(g.heap))
    BY <1>2 DEF FlowTypeOK
  <2> QED BY <1>2, <2>1, NativesOfTypes
<1>4. \A fl, refs : fl.heap = flow.heap => NativesOf(fl, refs) = NativesOf(flow, refs)
  BY DEF NativesOf
<1>5. \A x \in Boxes : x # y => NativesOf(g, g.fifo[x]) = Travelling(x)
  BY <1>2, <1>4 DEF Travelling
<1>6. Travelling(y) = <<n>> \o NativesOf(g, g.fifo[y])
  <2> DEFINE q == flow.fifo[y]
             r == Tail(q)
             a == NativesOf(flow, q)
             b == NativesOf(flow, r)
  <2>1. q \in Seq(1 .. Len(flow.heap)) /\ q # <<>>
    BY <1>1, <1>2 DEF FlowTypeOK
  <2>2. /\ r \in Seq(1 .. Len(flow.heap)) /\ Len(r) = Len(q) - 1
        /\ \A i \in 1 .. Len(q) - 1 : r[i] = q[i + 1]
        /\ Len(q) \in Nat \ {0}
    <3> DEFINE T == 1 .. Len(flow.heap)
    <3> HIDE DEF T, q
    <3>1. q \in Seq(T) /\ q # <<>>
      BY <2>1 DEF T
    <3>2. /\ r \in Seq(T) /\ Len(r) = Len(q) - 1
          /\ \A i \in 1 .. Len(r) : r[i] = q[i + 1]
      BY <3>1, HeadTailProperties
    <3>3. Len(q) \in Nat \ {0}
      BY <3>1
    <3> QED BY <3>2, <3>3 DEF T
  <2> HIDE DEF q, r
  <2>3. /\ a \in Seq(Natives) /\ Len(a) = Len(q)
        /\ \A i \in 1 .. Len(q) : a[i] = Native(flow.heap[q[i]])
    BY <1>1, <2>1, NativesOfTypes
  <2>4. /\ b \in Seq(Natives) /\ Len(b) = Len(q) - 1
        /\ \A i \in 1 .. Len(q) - 1 : b[i] = Native(flow.heap[r[i]])
    BY <1>1, <2>2, NativesOfTypes
  <2> DEFINE o == <<n>>
  <2>5. o \in Seq(Natives) /\ Len(o) = 1 /\ o[1] = n
    <3>1. n \in Natives
      BY <1>1, <1>2 DEF FlowTypeOK, FrameTypeOK
    <3> QED BY <3>1
  <2> HIDE DEF a, b, o
  <2>6. /\ o \o b \in Seq(Natives) /\ Len(o \o b) = Len(q)
        /\ \A i \in 1 .. Len(q) : (o \o b)[i] = IF i <= 1 THEN o[i] ELSE b[i - 1]
    <3>1. /\ o \o b \in Seq(Natives) /\ Len(o \o b) = Len(o) + Len(b)
          /\ \A i \in 1 .. Len(o) + Len(b) : (o \o b)[i] = IF i <= Len(o) THEN o[i] ELSE b[i - Len(o)]
      BY <2>4, <2>5, ConcatProperties
    <3>2. Len(o) + Len(b) = Len(q)
      BY <2>2, <2>4, <2>5
    <3> QED BY <2>5, <3>1, <3>2
  <2>7. \A i \in 1 .. Len(q) : (o \o b)[i] = a[i]
    <3>1. ASSUME NEW i \in 1 .. Len(q)
          PROVE  (o \o b)[i] = a[i]
      <4>1. CASE i = 1
        BY <1>2, <2>3, <2>5, <2>6, <4>1 DEF o, q
      <4>2. CASE i # 1
        <5>1. i - 1 \in 1 .. Len(q) - 1 /\ i - 1 + 1 = i /\ ~(i <= 1)
          BY <2>2, <4>2
        <5>2. (o \o b)[i] = Native(flow.heap[r[i - 1]]) /\ r[i - 1] = q[i]
          BY <2>2, <2>4, <2>6, <5>1
        <5> QED BY <2>3, <5>2
      <4> QED BY <4>1, <4>2
    <3> QED BY <3>1
  <2>8. o \o b = a
    BY <2>3, <2>6, <2>7, SeqEqual
  <2>9. g.fifo[y] = r
    BY <1>2 DEF q, r
  <2> QED BY <1>2, <1>4, <2>8, <2>9 DEF a, b, o, q, Travelling
<1> QED BY <1>3, <1>5, <1>6 DEF g, y, ref

\* Frames leave the inbox at the front and join the outboxes at the end.
Flows(x, m, taken, ns, rest) ==
  /\ Travelling(x) = IF x = flow.inbox[m] THEN taken \o rest ELSE rest
  /\ Travelling(x)' = IF x[1] = m /\ flow.target[x] # None THEN rest \o ns ELSE rest

LEMMA OwnTravels ==
  ASSUME TypeOK, TypeOK', NEW m \in Modules, NEW g, NEW taken, NEW given, NEW ns,
         OwnStep(m, g, taken, given, ns)
  PROVE  /\ flow'.target = flow.target /\ flow'.inbox = flow.inbox
         /\ taken \in Seq(Natives) /\ seen'[m] = seen[m] \o taken
         /\ \A k \in Modules : k # m => seen'[k] = seen[k]
         /\ \A x \in Boxes : \E rest \in Seq(Natives) : Flows(x, m, taken, ns, rest)
<1>1. /\ HandedTo(g, flow', BoxesOf(m), ns)
      /\ \/ g = flow /\ taken = <<>> /\ seen' = seen
         \/ /\ Waiting(flow, m) # <<>>
            /\ g = PopFrame(flow, m)
            /\ taken = <<Native(flow.heap[PeekFrame(flow, m)])>>
            /\ seen' = [seen EXCEPT ![m] = Append(@, Native(flow.heap[PeekFrame(flow, m)]))]
  BY DEF OwnStep
<1>2. FlowTypeOK(flow) /\ seen \in [Modules -> Seq(Natives)]
  BY DEF TypeOK
<1>3. g.target = flow.target /\ g.inbox = flow.inbox
  BY <1>1, <1>2, PopFrameEffect
<1>4. /\ taken \in Seq(Natives) /\ seen'[m] = seen[m] \o taken
      /\ \A k \in Modules : k # m => seen'[k] = seen[k]
  <2>1. CASE taken = <<>> /\ seen' = seen
    <3>1. seen[m] \in Seq(Natives)
      BY <1>2
    <3> QED BY <2>1, <3>1, EmptyConcat
  <2>2. CASE ~(taken = <<>> /\ seen' = seen)
    <3> DEFINE n == Native(flow.heap[PeekFrame(flow, m)])
    <3>1. /\ Waiting(flow, m) # <<>> /\ taken = <<n>>
          /\ seen' = [seen EXCEPT ![m] = Append(@, n)]
      BY <1>1, <2>2
    <3>2. n \in Natives
      BY <3>1, TakingFacts
    <3> HIDE DEF n
    <3>3. seen[m] \in Seq(Natives) /\ Append(seen[m], n) = seen[m] \o <<n>>
      BY <1>2, <3>2
    <3> QED BY <1>2, <3>1, <3>2, <3>3
  <2> QED BY <2>1, <2>2
<1>5. ASSUME NEW x \in Boxes
      PROVE  /\ NativesOf(g, g.fifo[x]) \in Seq(Natives)
             /\ Travelling(x) = IF x = flow.inbox[m] THEN taken \o NativesOf(g, g.fifo[x])
                                                      ELSE NativesOf(g, g.fifo[x])
  <2>1. CASE g = flow /\ taken = <<>>
    <3>1. Travelling(x) \in Seq(Natives) /\ Travelling(x) = NativesOf(g, g.fifo[x])
      BY <2>1, TravellingTypes DEF Travelling
    <3>2. <<>> \o NativesOf(g, g.fifo[x]) = NativesOf(g, g.fifo[x])
      BY <3>1, EmptyConcat
    <3> QED BY <2>1, <3>1, <3>2
  <2>2. CASE ~(g = flow /\ taken = <<>>)
    <3>1. /\ Waiting(flow, m) # <<>> /\ g = PopFrame(flow, m)
          /\ taken = <<Native(flow.heap[PeekFrame(flow, m)])>>
      BY <1>1, <2>2
    <3> QED BY <3>1, PoppedTravel
  <2> QED BY <2>1, <2>2
<1>6. ASSUME NEW x \in Boxes
      PROVE  /\ (x \in BoxesOf(m)) = (x[1] = m)
             /\ Travelling(x)' = IF x \in BoxesOf(m) /\ flow.target[x] # None
                                 THEN NativesOf(g, g.fifo[x]) \o ns ELSE NativesOf(g, g.fifo[x])
  BY <1>1, <1>3 DEF HandedTo, Travelling, BoxesOf
<1>7. flow'.target = flow.target /\ flow'.inbox = flow.inbox
  BY <1>1, <1>3 DEF HandedTo
<1>8. ASSUME NEW x \in Boxes
      PROVE  \E rest \in Seq(Natives) : Flows(x, m, taken, ns, rest)
  <2> DEFINE r == NativesOf(g, g.fifo[x])
  <2>1. r \in Seq(Natives) /\ Travelling(x) = IF x = flow.inbox[m] THEN taken \o r ELSE r
    BY <1>5
  <2>2. Travelling(x)' = IF x[1] = m /\ flow.target[x] # None THEN r \o ns ELSE r
    BY <1>6
  <2> HIDE DEF r
  <2>3. Flows(x, m, taken, ns, r)
    BY <2>1, <2>2 DEF Flows
  <2> QED BY <2>1, <2>3
<1> QED BY <1>4, <1>7, <1>8

-----------------------------------------------------------------------------
(* The steps, sorted by what they do.                                       *)

\* Modules are added, moved and connected.
SetUpStep ==
  /\ phase = "idle"
  /\ flow'.fifo = flow.fifo /\ flow'.mixer = flow.mixer /\ flow'.heap = flow.heap
  /\ order' # order => ~configure_called
  /\ ToSet(order) \subseteq ToSet(order')
  /\ boxes_connected => boxes_connected'
  /\ \/ flow' = flow
     \/ /\ ~execute_called /\ boxes_connected'
        /\ \E w \in Wires : /\ {w[1], w[3]} \subseteq ToSet(order)
                            /\ flow' = ConnectOutBox(flow, w[1], w[2], w[3])
  /\ UNCHANGED <<configure_called, execute_called, driving, suspension_requested,
                 signals, phase, left, result, stack, queue, read, history>>

\* Execute calls the driving module.
StartStep ==
  /\ phase = "looping" /\ stack = <<>>
  /\ UNCHANGED <<setup, suspension_requested, signals, result, flow, queue, read, history>>
  /\ \/ phase' = "looping" /\ stack' = <<[mod |-> driving, op |-> "process", box |-> 0]>>
     \/ phase' = "finishing" /\ stack' = <<[mod |-> driving, op |-> "finish", box |-> 0]>>

\* The innermost call returns.
ReturnStep ==
  /\ Elsewhere
  /\ stack # <<>> /\ Top.box = Len(OutBoxes[Top.mod]) + 1
  /\ stack' \in Seq(CallType) /\ Len(stack') = Len(stack) - 1
  /\ \A i \in 1 .. Len(stack) - 1 : stack'[i] = stack[i]

\* Execute ends.
EndStep ==
  /\ phase # "idle" /\ phase' = "idle" /\ stack' = <<>>
  /\ Ended' => phase = "finishing" /\ stack = <<>>
  /\ result' # "none"
  /\ UNCHANGED <<setup, suspension_requested, signals, left, flow, queue, read, history>>

\* A signal comes, or nothing happens.
WatchStep ==
  UNCHANGED <<setup, suspension_requested, phase, left, result, stack, flow, queue, read, history>>

\* There are calls only while Execute runs and a result only at its end.
StackIdle ==
  /\ configure_called => execute_called
  /\ phase = "idle" => stack = <<>>
  /\ phase # "idle" => execute_called /\ result = "none"

LEMMA NextSteps ==
  ASSUME TypeOK, StackIdle, [Next]_vars
  PROVE  \/ SetUpStep
         \/ \E count \in Counts : Execute(count)
         \/ StartStep
         \/ \E m \in Modules : Own(m) /\ \E g, taken, given, ns : OwnStep(m, g, taken, given, ns)
         \/ \E x \in Boxes : BoxStep(x)
         \/ ReturnStep
         \/ EndStep
         \/ WatchStep
<1>1. stack \in Seq(CallType)
  BY DEF TypeOK
<1>2. CASE \/ \E m \in Modules : AddModule(m)
           \/ \E m, anchor \in Modules, after \in BOOLEAN : MoveModule(m, anchor, after)
           \/ \E w \in Wires : ConnectBoxes(w[1], w[2], w[3])
  <2>1. ASSUME NEW m \in Modules, AddModule(m)
        PROVE  SetUpStep
    <3>1. ToSet(order) \subseteq ToSet(order')
      <4>1. /\ order \in Seq(Modules) /\ order' = Append(order, m)
            /\ DOMAIN order = 1 .. Len(order) /\ Len(order) \in Nat
        BY <2>1 DEF AddModule, TypeOK
      <4>2. DOMAIN order' = 1 .. Len(order) + 1 /\ \A i \in 1 .. Len(order) : order'[i] = order[i]
        BY <4>1, AppendProperties
      <4> QED BY <4>1, <4>2 DEF ToSet
    <3> QED BY <2>1, <3>1 DEF AddModule, SetUpStep, signals, history
  <2>2. ASSUME NEW m \in Modules, NEW anchor \in Modules, NEW after \in BOOLEAN,
               MoveModule(m, anchor, after)
        PROVE  SetUpStep
    <3>1. ToSet(order) \subseteq ToSet(order')
      <4>1. order \in Seq(Modules) /\ Distinct(order)
        BY DEF TypeOK, Distinct
      <4>2. m \in ToSet(order) /\ anchor \in ToSet(order) /\ order' = Moved(m, anchor, after)
        BY <2>2 DEF MoveModule
      <4>3. ToSet(Moved(m, anchor, after)) = ToSet(order)
        BY <4>1, <4>2, MovedEffect
      <4> QED BY <4>2, <4>3
    <3> QED BY <2>2, <3>1 DEF MoveModule, SetUpStep, StackIdle, signals, history
  <2>3. ASSUME NEW w \in Wires, ConnectBoxes(w[1], w[2], w[3])
        PROVE  SetUpStep
    <3>1. <<w[1], w[2]>> \in Boxes /\ w[3] \in Modules /\ FlowTypeOK(flow)
      BY TrayAssumption DEF TypeOK
    <3>2. CASE {w[1], w[3]} \subseteq ToSet(order)
      <4>0. flow' = ConnectOutBox(flow, w[1], w[2], w[3])
        BY <2>3, <3>2 DEF ConnectBoxes
      <4>1. flow = [target |-> flow.target, inbox |-> flow.inbox, fifo |-> flow.fifo,
                    mixer |-> flow.mixer, heap |-> flow.heap]
        BY <3>1 DEF FlowTypeOK
      <4>2. flow'.fifo = flow.fifo /\ flow'.mixer = flow.mixer /\ flow'.heap = flow.heap
        BY <4>0, <4>1 DEF ConnectOutBox
      <4> QED BY <2>3, <3>2, <4>0, <4>2 DEF ConnectBoxes, SetUpStep, signals, history
    <3>3. CASE ~({w[1], w[3]} \subseteq ToSet(order))
      BY <2>3, <3>3 DEF ConnectBoxes, SetUpStep, signals, history
    <3> QED BY <3>2, <3>3
  <2> QED BY <1>2, <2>1, <2>2, <2>3
<1>3. CASE Dispatch \/ BeginFinish
  BY <1>3 DEF Dispatch, BeginFinish, StartStep, Call
<1>4. CASE DoReturns
  <2>1. stack # <<>> /\ Last(stack) = Top
    BY <1>1, <1>4, LastIsTop DEF DoReturns
  <2> QED BY <1>1, <1>4, <2>1, FrontEffect DEF DoReturns, ReturnStep
<1>5. CASE Return \/ Throw \/ InterruptAgain
  <2>1. /\ phase # "idle" /\ phase' = "idle" /\ stack' = <<>>
        /\ result' # "none"
        /\ Ended' => phase = "finishing" /\ stack = <<>>
    BY <1>5 DEF Return, Throw, InterruptAgain, Ended, StackIdle
  <2> QED BY <1>5, <2>1 DEF Return, Throw, InterruptAgain, EndStep
<1>6. CASE Interrupt \/ Terminate \/ UNCHANGED vars
  BY <1>6 DEF Interrupt, Terminate, vars, setup, signals, history, WatchStep
<1>7. ASSUME NEW m \in Modules, Own(m)
      PROVE  \E g, taken, given, ns : OwnStep(m, g, taken, given, ns)
  BY <1>7, OwnSteps
<1>8. ASSUME NEW x \in Boxes, Drain(x) \/ NextBox(x) \/ FinishNext(x)
      PROVE  BoxStep(x)
  BY <1>8, BoxSteps
<1> QED
  BY <1>2, <1>3, <1>4, <1>5, <1>6, <1>7, <1>8
  DEF Next, Setup, Running, Do, Own, Signal

-----------------------------------------------------------------------------
(* Whenever Execute's loop decides whether to go on, nothing is waiting: an  *)
(* outbox with frames in it is one that a call on the stack will look at.    *)

\* Nothing has happened before Execute is called.
Untouched ==
  ~execute_called => /\ result = "none" /\ read = 0
                     /\ \A x \in Boxes : flow.fifo[x] = <<>>
                     /\ \A m \in Modules : queue[m] = <<>> /\ seen[m] = <<>> /\ finished[m] = 0

\* Call c has still to look at outbox x.
Ahead(c, x) ==
  \E k \in DOMAIN OutBoxes[x[1]] : c.mod = x[1] /\ OutBoxes[x[1]][k] = x[2] /\ c.box <= k

FifosOK ==
  \A x \in Boxes : flow.fifo[x] # <<>> =>
    /\ flow.target[x] # None
    /\ ~Ended
    /\ phase # "idle" => \E i \in DOMAIN stack : Ahead(stack[i], x)

RunOK == StackIdle /\ Untouched /\ FifosOK

LEMMA RunInit == Init => RunOK
<1> SUFFICES ASSUME Init PROVE RunOK
  OBVIOUS
<1>1. \A x \in Boxes : flow.fifo[x] = <<>>
  BY DEF Init, NoFlow
<1>2. StackIdle
  BY DEF Init, StackIdle
<1>3. Untouched
  BY <1>1 DEF Init, Untouched
<1> QED BY <1>1, <1>2, <1>3 DEF RunOK, FifosOK

LEMMA BoxFacts ==
  ASSUME NEW x \in Boxes
  PROVE  /\ x = <<x[1], x[2]>> /\ x[1] \in Modules
         /\ \E k \in DOMAIN OutBoxes[x[1]] : OutBoxes[x[1]][k] = x[2]
         /\ OutBoxes[x[1]] \in Seq(STRING)
         /\ DOMAIN OutBoxes[x[1]] = 1 .. Len(OutBoxes[x[1]]) /\ Len(OutBoxes[x[1]]) \in Nat
         /\ \A k, l \in DOMAIN OutBoxes[x[1]] : OutBoxes[x[1]][k] = OutBoxes[x[1]][l] => k = l
<1>1. PICK m \in Modules : \E b \in ToSet(OutBoxes[m]) : x = <<m, b>>
  BY DEF Boxes
<1>2. PICK b \in ToSet(OutBoxes[m]) : x = <<m, b>>
  BY <1>1
<1>3. x[1] = m /\ x[2] = b
  BY <1>2
<1> QED BY <1>2, <1>3, FrameFlowAssumption DEF ToSet

LEMMA StackFacts ==
  ASSUME TypeOK
  PROVE  /\ Len(stack) \in Nat /\ DOMAIN stack = 1 .. Len(stack)
         /\ stack # <<>> => Len(stack) \in 1 .. Len(stack) /\ Len(stack) >= 1
         /\ \A i \in 1 .. Len(stack) : /\ stack[i] \in CallType
                                       /\ stack[i].mod \in Modules /\ stack[i].box \in Nat
                                       /\ stack[i].op \in {"process", "finish"}
<1>1. stack \in Seq(CallType)
  BY DEF TypeOK
<1>2. \A i \in 1 .. Len(stack) : stack[i] \in CallType
  BY <1>1
<1> QED BY <1>1, <1>2 DEF CallType

LEMMA RunNext ==
  ASSUME TypeOK, TypeOK', RunOK, [Next]_vars
  PROVE  RunOK'
<1>1. StackIdle /\ Untouched /\ FifosOK
  BY DEF RunOK
<1>2. CASE SetUpStep
  <2>1. StackIdle'
    BY <1>1, <1>2 DEF SetUpStep, StackIdle
  <2>2. Untouched'
    BY <1>1, <1>2 DEF SetUpStep, Untouched, history
  <2>3. ASSUME NEW x \in Boxes, flow'.fifo[x] # <<>>
        PROVE  flow'.target[x] # None /\ ~Ended' /\ phase' = "idle"
    <3>1. flow' = flow
      BY <1>1, <1>2, <2>3 DEF SetUpStep, Untouched
    <3> QED BY <1>1, <1>2, <2>3, <3>1 DEF SetUpStep, FifosOK, Ended
  <2> QED BY <2>1, <2>2, <2>3 DEF RunOK, FifosOK
<1>3. ASSUME NEW count \in Counts, Execute(count)
      PROVE  RunOK'
  <2>1. flow'.fifo = flow.fifo
    <3>1. flow' = flow \/ flow' = InALine
      BY <1>3 DEF Execute, Connected
    <3> QED BY <3>1, InALineEffect
  <2>2. StackIdle'
    BY <1>1, <1>3 DEF Execute, StackIdle, Untouched
  <2>3. \A x \in Boxes : flow'.fifo[x] = <<>>
    BY <1>1, <1>3, <2>1 DEF Execute, Untouched
  <2>4. execute_called'
    BY <1>3 DEF Execute
  <2> QED BY <2>2, <2>3, <2>4 DEF RunOK, Untouched, FifosOK
<1>4. CASE StartStep
  <2>1. /\ phase # "idle" /\ phase' # "idle" /\ execute_called' = execute_called
        /\ configure_called' = configure_called
        /\ result' = result /\ flow' = flow /\ stack = <<>>
    BY <1>4 DEF StartStep, setup
  <2>2. StackIdle' /\ Untouched'
    BY <1>1, <2>1 DEF StackIdle, Untouched
  <2>3. \A x \in Boxes : flow.fifo[x] = <<>>
    BY <1>1, <2>1 DEF FifosOK
  <2> QED BY <2>1, <2>2, <2>3 DEF RunOK, FifosOK
<1>5. ASSUME NEW m \in Modules, NEW g, NEW taken, NEW given, NEW ns, OwnStep(m, g, taken, given, ns)
      PROVE  RunOK'
  <2>1. /\ stack # <<>> /\ Top.mod = m /\ Top.box = 0 /\ stack' = Looking(1)
        /\ phase' = phase /\ result' = result /\ execute_called' = execute_called
        /\ configure_called' = configure_called
    BY <1>5 DEF OwnStep, setup
  <2>2. phase # "idle" /\ execute_called /\ result = "none"
    BY <1>1, <2>1 DEF StackIdle
  <2>3. StackIdle' /\ Untouched'
    BY <1>1, <2>1, <2>2 DEF StackIdle, Untouched
  <2>4. /\ Len(stack) \in Nat /\ DOMAIN stack = 1 .. Len(stack) /\ Len(stack) >= 1
        /\ DOMAIN stack' = DOMAIN stack
        /\ \A i \in 1 .. Len(stack) - 1 : stack'[i] = stack[i]
        /\ stack'[Len(stack)].mod = m /\ stack'[Len(stack)].box = 1
    <3>1. stack \in Seq(CallType)
      BY DEF TypeOK
    <3>2. /\ DOMAIN stack' = DOMAIN stack
          /\ \A i \in 1 .. Len(stack) - 1 : stack'[i] = stack[i]
          /\ stack'[Len(stack)] = [mod |-> Top.mod, op |-> Top.op, box |-> 1]
      BY <2>1, <3>1, LookingEffect
    <3> QED BY <2>1, <3>2, StackFacts
  <2>5. ASSUME NEW x \in Boxes, flow'.fifo[x] # <<>>
        PROVE  flow.target[x] # None /\ \E i \in DOMAIN stack' : Ahead(stack'[i], x)
    <3>1. PICK k \in DOMAIN OutBoxes[x[1]] : OutBoxes[x[1]][k] = x[2] /\ k \in Nat /\ 1 <= k
      BY BoxFacts
    <3>2. CASE x[1] = m /\ flow.target[x] # None
      <4>1. Ahead(stack'[Len(stack)], x)
        BY <2>4, <3>1, <3>2 DEF Ahead
      <4> QED BY <2>4, <3>2, <4>1
    <3>3. CASE ~(x[1] = m /\ flow.target[x] # None)
      <4>0. PICK rest \in Seq(Natives) : Flows(x, m, taken, ns, rest)
        BY <1>5, OwnTravels
      <4>9. taken \in Seq(Natives)
        BY <1>5, OwnTravels
      <4>1. /\ Travelling(x) = IF x = flow.inbox[m] THEN taken \o rest ELSE rest
            /\ Travelling(x)' = rest /\ taken \in Seq(Natives)
        BY <3>3, <4>0, <4>9 DEF Flows
      <4>2. flow.fifo[x] # <<>>
        <5>1. SUFFICES ASSUME flow.fifo[x] = <<>> PROVE FALSE
          OBVIOUS
        <5>2. Travelling(x) = <<>>
          BY <5>1, TravellingTypes
        <5>3. rest = <<>>
          <6>1. taken \o rest = <<>> => rest = <<>>
            BY <4>1, ConcatEqualIffEmpty
          <6> QED BY <4>1, <5>2, <6>1
        <5>4. Travelling(x)' = <<>>
          BY <4>1, <5>3
        <5>5. NativesOf(flow', flow'.fifo[x]) \in Seq(Natives) /\ Len(NativesOf(flow', flow'.fifo[x])) = Len(flow'.fifo[x])
              /\ flow'.fifo[x] \in Seq(1 .. Len(flow'.heap))
          <6>1. FlowTypeOK(flow') /\ flow'.fifo[x] \in Seq(1 .. Len(flow'.heap))
            BY DEF TypeOK, FlowTypeOK
          <6> QED BY <6>1, NativesOfTypes
        <5> QED BY <2>5, <5>4, <5>5 DEF Travelling
      <4>3. PICK i \in DOMAIN stack : Ahead(stack[i], x)
        BY <1>1, <2>2, <4>2 DEF FifosOK
      <4>4. flow.target[x] # None
        BY <1>1, <4>2 DEF FifosOK
      <4>5. i # Len(stack)
        BY <2>1, <3>3, <4>3, <4>4 DEF Ahead, Top
      <4>6. i \in 1 .. Len(stack) - 1
        BY <2>4, <4>5
      <4> QED BY <2>4, <4>3, <4>4, <4>6
    <3> QED BY <3>2, <3>3
  <2>6. flow'.target = flow.target
    BY <1>5, OwnTravels
  <2> QED BY <1>1, <2>1, <2>2, <2>3, <2>5, <2>6 DEF RunOK, FifosOK, Ended
<1>6. ASSUME NEW y \in Boxes, BoxStep(y)
      PROVE  RunOK'
  <2>1. /\ stack # <<>> /\ flow' = flow /\ phase' = phase /\ result' = result
        /\ execute_called' = execute_called /\ configure_called' = configure_called
        /\ read' = read /\ queue' = queue /\ seen' = seen /\ finished' = finished
    BY <1>6 DEF BoxStep, Elsewhere, setup, history
  <2>2. phase # "idle" /\ execute_called /\ result = "none"
    BY <1>1, <2>1 DEF StackIdle
  <2>3. StackIdle' /\ Untouched'
    BY <1>1, <2>1, <2>2 DEF StackIdle, Untouched
  <2>4. /\ Len(stack) \in Nat /\ DOMAIN stack = 1 .. Len(stack) /\ Len(stack) >= 1
        /\ DOMAIN stack \subseteq DOMAIN stack'
        /\ \A i \in 1 .. Len(stack) - 1 : stack'[i] = stack[i]
        /\ stack'[Len(stack)].mod = Top.mod /\ Top.mod = y[1]
        /\ stack'[Len(stack)].box = IF Filled(y) THEN Top.box ELSE Top.box + 1
    <3>1. Len(stack) \in Nat /\ Len(stack) >= 1 /\ DOMAIN stack = 1 .. Len(stack)
      BY <2>1, StackFacts
    <3>2. DOMAIN stack' = 1 .. Len(stack')
      BY <1>6 DEF BoxStep
    <3> QED BY <1>6, <3>1, <3>2 DEF BoxStep
  <2>5. ASSUME NEW x \in Boxes, flow.fifo[x] # <<>>
        PROVE  \E i \in DOMAIN stack' : Ahead(stack'[i], x)
    <3>1. PICK i \in DOMAIN stack : Ahead(stack[i], x)
      BY <1>1, <2>2, <2>5 DEF FifosOK
    <3>2. CASE i # Len(stack)
      <4>1. i \in 1 .. Len(stack) - 1
        BY <2>4, <3>2
      <4> QED BY <2>4, <3>1, <4>1
    <3>3. CASE i = Len(stack)
      <4>1. PICK k \in DOMAIN OutBoxes[x[1]] :
              Top.mod = x[1] /\ OutBoxes[x[1]][k] = x[2] /\ Top.box <= k
        BY <3>1, <3>3 DEF Ahead, Top
      <4>2. Top.box = k => x = y
        <5>1. x = <<x[1], x[2]>> /\ y = <<y[1], y[2]>>
          BY BoxFacts
        <5>2. x[1] = y[1] /\ (Top.box = k => x[2] = y[2])
          BY <1>6, <4>1 DEF BoxStep
        <5> QED BY <5>1, <5>2
      <4>3. flow.target[x] # None
        BY <1>1, <2>5 DEF FifosOK
      <4>4. Top.box = k => Filled(y)
        BY <2>5, <4>2, <4>3 DEF Filled
      <4>5. Top.box \in Nat /\ k \in Nat
        BY <2>1, <2>4, StackFacts, BoxFacts DEF Top
      <4>6. stack'[Len(stack)].box <= k
        BY <2>4, <4>1, <4>4, <4>5
      <4>7. Ahead(stack'[Len(stack)], x)
        BY <2>4, <4>1, <4>6 DEF Ahead
      <4> QED BY <2>4, <4>7
    <3> QED BY <3>2, <3>3
  <2> QED BY <1>1, <2>1, <2>3, <2>5 DEF RunOK, FifosOK, Ended
<1>7. CASE ReturnStep
  <2>1. /\ stack # <<>> /\ flow' = flow /\ phase' = phase /\ result' = result
        /\ execute_called' = execute_called /\ configure_called' = configure_called
        /\ read' = read /\ queue' = queue /\ seen' = seen /\ finished' = finished
    BY <1>7 DEF ReturnStep, Elsewhere, setup, history
  <2>2. phase # "idle" /\ execute_called /\ result = "none"
    BY <1>1, <2>1 DEF StackIdle
  <2>3. StackIdle' /\ Untouched'
    BY <1>1, <2>1, <2>2 DEF StackIdle, Untouched
  <2>4. /\ Len(stack) \in Nat /\ DOMAIN stack = 1 .. Len(stack) /\ Len(stack) >= 1
        /\ DOMAIN stack' = 1 .. Len(stack) - 1
        /\ \A i \in 1 .. Len(stack) - 1 : stack'[i] = stack[i]
        /\ Top.box = Len(OutBoxes[Top.mod]) + 1
    <3>1. Len(stack) \in Nat /\ Len(stack) >= 1 /\ DOMAIN stack = 1 .. Len(stack)
      BY <2>1, StackFacts
    <3>2. DOMAIN stack' = 1 .. Len(stack')
      BY <1>7 DEF ReturnStep
    <3> QED BY <1>7, <3>1, <3>2 DEF ReturnStep
  <2>5. ASSUME NEW x \in Boxes, flow.fifo[x] # <<>>
        PROVE  \E i \in DOMAIN stack' : Ahead(stack'[i], x)
    <3>1. PICK i \in DOMAIN stack : Ahead(stack[i], x)
      BY <1>1, <2>2, <2>5 DEF FifosOK
    <3>2. i # Len(stack)
      <4>1. SUFFICES ASSUME i = Len(stack) PROVE FALSE
        OBVIOUS
      <4>2. PICK k \in DOMAIN OutBoxes[x[1]] : Top.mod = x[1] /\ Top.box <= k
        BY <3>1, <4>1 DEF Ahead, Top
      <4>3. k \in 1 .. Len(OutBoxes[x[1]]) /\ Len(OutBoxes[x[1]]) \in Nat
        BY <4>2, BoxFacts
      <4> QED BY <2>4, <4>2, <4>3
    <3> QED BY <2>4, <3>1, <3>2
  <2> QED BY <1>1, <2>1, <2>3, <2>5 DEF RunOK, FifosOK, Ended
<1>8. CASE EndStep
  <2>1. /\ phase # "idle" /\ phase' = "idle" /\ stack' = <<>> /\ (Ended' => stack = <<>>)
        /\ flow' = flow /\ execute_called' = execute_called /\ configure_called' = configure_called
    BY <1>8 DEF EndStep, setup
  <2>2. StackIdle' /\ Untouched'
    BY <1>1, <2>1 DEF StackIdle, Untouched
  <2>3. ASSUME NEW x \in Boxes, flow.fifo[x] # <<>>
        PROVE  flow.target[x] # None /\ ~Ended'
    BY <1>1, <2>1, <2>3 DEF FifosOK
  <2> QED BY <2>1, <2>2, <2>3 DEF RunOK, FifosOK
<1>9. CASE WatchStep
  BY <1>1, <1>9 DEF WatchStep, RunOK, StackIdle, Untouched, FifosOK, Ended, setup, history
<1> QED BY <1>1, <1>2, <1>3, <1>4, <1>5, <1>6, <1>7, <1>8, <1>9, NextSteps

\* "Once all queues are cleared, I3Tray.Finish is called": whenever no call of
\* Do is running, and the loop of Execute decides whether to go on, every frame
\* ever pushed has been taken by the module it was pushed to.  This is so for
\* every tray, wired in any way, also if modules throw or signals come.
THEOREM QueuesClearedAlways == Spec => []QueuesCleared
<1>1. TypeOK /\ RunOK => QueuesCleared
  <2> SUFFICES ASSUME TypeOK, RunOK, phase # "idle", stack = <<>>, NEW m \in Modules
               PROVE  Waiting(flow, m) = <<>>
    BY DEF QueuesCleared
  <2>1. \A x \in Boxes : flow.fifo[x] = <<>>
    BY DEF RunOK, FifosOK
  <2>2. flow.inbox[m] # None => flow.inbox[m] \in Boxes
    BY DEF TypeOK, FlowTypeOK
  <2> QED BY <2>1, <2>2 DEF Waiting, HasInBox
<1>2. Init => RunOK
  BY RunInit
<1>3. TypeOK /\ TypeOK' /\ RunOK /\ [Next]_vars => RunOK'
  BY RunNext
<1> QED BY <1>1, <1>2, <1>3, TypeSafety, PTL DEF Spec

-----------------------------------------------------------------------------
(* Trees: what ConnectBoxes may be asked for without making a loop or giving *)
(* a module two inboxes.  A line is a tree.                                  *)

WiredAsTree ==
  /\ \A v, w \in Wires : (v[1] = w[1] /\ v[2] = w[2]) \/ v[3] = w[3] => v = w
  /\ \E rank \in [Modules -> Nat] : \A w \in Wires : rank[w[1]] < rank[w[3]]

\* Execute has begun and not failed.
Busy == phase # "idle" \/ Ended

Mutual ==
  /\ \A x \in Boxes : flow.target[x] # None =>
       /\ flow.inbox[flow.target[x]] = x
       /\ x[1] \in ToSet(order) /\ flow.target[x] \in ToSet(order)
  /\ \A m \in Modules : flow.inbox[m] # None => flow.target[flow.inbox[m]] = m

Ranks(rank) ==
  /\ rank \in [Modules -> Nat]
  /\ \A x \in Boxes : flow.target[x] # None => rank[x[1]] < rank[flow.target[x]]

\* The modules are connected as a tree, when Execute runs with the driving
\* module as its root.
TreeOK ==
  /\ Mutual
  /\ \E rank : Ranks(rank)
  /\ ~execute_called =>
       \A x \in Boxes : flow.target[x] # None =>
         boxes_connected /\ <<x[1], x[2], flow.target[x]>> \in Wires
  /\ Busy => /\ configure_called /\ driving \in ToSet(order)
             /\ \A m \in ToSet(order) : flow.inbox[m] = None <=> m = driving

LEMMA TreeInit == Init => TreeOK
<1> SUFFICES ASSUME Init PROVE TreeOK
  OBVIOUS
<1>1. /\ \A x \in Boxes : flow.target[x] = None
      /\ \A m \in Modules : flow.inbox[m] = None
  BY DEF Init, NoFlow
<1>2. Mutual
  BY <1>1 DEF Mutual
<1>3. Ranks([m \in Modules |-> 0])
  BY <1>1 DEF Ranks
<1>4. ~Busy
  BY DEF Init, Busy, Ended
<1> QED BY <1>1, <1>2, <1>3, <1>4 DEF TreeOK

\* One more wire of a tree.
LEMMA ConnectKeepsTree ==
  ASSUME WiredAsTree, TypeOK, TreeOK, ~execute_called, boxes_connected',
         NEW w \in Wires, {w[1], w[3]} \subseteq ToSet(order),
         flow' = ConnectOutBox(flow, w[1], w[2], w[3]),
         ToSet(order) \subseteq ToSet(order')
  PROVE  /\ Mutual'
         /\ \E rank : Ranks(rank)'
         /\ \A x \in Boxes : flow'.target[x] # None => <<x[1], x[2], flow'.target[x]>> \in Wires
<1> DEFINE y == <<w[1], w[2]>>
           c == w[3]
<1>1. w = <<w[1], w[2], w[3]>> /\ y \in Boxes /\ c \in Modules /\ c # None
      /\ y[1] = w[1] /\ y[2] = w[2]
  BY TrayAssumption, FrameFlowAssumption
<1>2. /\ flow.target \in [Boxes -> Modules \cup {None}]
      /\ flow.inbox \in [Modules -> Boxes \cup {None}]
      /\ flow = [target |-> flow.target, inbox |-> flow.inbox, fifo |-> flow.fifo,
                 mixer |-> flow.mixer, heap |-> flow.heap]
  BY DEF TypeOK, FlowTypeOK
<1>3. /\ flow'.target = [flow.target EXCEPT ![y] = c]
      /\ flow'.inbox = [flow.inbox EXCEPT ![c] = y]
  BY <1>2 DEF ConnectOutBox
<1>4. ASSUME NEW x \in Boxes, flow'.target[x] # None
      PROVE  <<x[1], x[2], flow'.target[x]>> \in Wires
  <2>1. CASE x = y
    <3>1. flow'.target[x] = c
      BY <1>1, <1>2, <1>3, <2>1
    <3> QED BY <1>1, <2>1, <3>1
  <2>2. CASE x # y
    BY <1>2, <1>3, <1>4, <2>2 DEF TreeOK
  <2> QED BY <2>1, <2>2
<1>5. ASSUME NEW x \in Boxes, x # y
      PROVE  flow'.target[x] = flow.target[x] /\ flow'.target[x] # c
  <2>1. flow'.target[x] = flow.target[x]
    BY <1>2, <1>3, <1>5
  <2>2. ASSUME flow'.target[x] = c PROVE FALSE
    <3> DEFINE v == <<x[1], x[2], c>>
    <3>1. v \in Wires /\ v[1] = x[1] /\ v[2] = x[2] /\ v[3] = w[3]
      BY <1>1, <1>4, <2>2
    <3> HIDE DEF v
    <3>2. v = w
      BY <3>1 DEF WiredAsTree
    <3>3. x = <<x[1], x[2]>>
      BY BoxFacts
    <3> QED BY <1>5, <3>1, <3>2, <3>3
  <2> QED BY <2>1, <2>2
<1>6. ASSUME NEW x \in Boxes, flow'.target[x] # None
      PROVE  /\ flow'.inbox[flow'.target[x]] = x
             /\ x[1] \in ToSet(order)' /\ flow'.target[x] \in ToSet(order)'
  <2>1. CASE x = y
    <3>1. flow'.target[x] = c
      BY <1>1, <1>2, <1>3, <2>1
    <3> QED BY <1>1, <1>2, <1>3, <2>1, <3>1
  <2>2. CASE x # y
    <3>1. flow'.target[x] = flow.target[x] /\ flow.target[x] # c /\ flow.target[x] # None
      BY <1>5, <1>6, <2>2
    <3>2. /\ flow.inbox[flow.target[x]] = x
          /\ x[1] \in ToSet(order) /\ flow.target[x] \in ToSet(order)
      BY <3>1 DEF TreeOK, Mutual
    <3>3. flow.target[x] \in Modules
      BY <1>2, <3>1
    <3>4. flow'.inbox[flow.target[x]] = flow.inbox[flow.target[x]]
      BY <1>2, <1>3, <3>1, <3>3
    <3> QED BY <3>1, <3>2, <3>4
  <2> QED BY <2>1, <2>2
<1>7. ASSUME NEW m \in Modules, flow'.inbox[m] # None
      PROVE  flow'.target[flow'.inbox[m]] = m
  <2>1. CASE m = c
    BY <1>1, <1>2, <1>3, <2>1
  <2>2. CASE m # c
    <3>1. flow'.inbox[m] = flow.inbox[m]
      BY <1>2, <1>3, <2>2
    <3>2. flow.inbox[m] \in Boxes /\ flow.target[flow.inbox[m]] = m
      BY <1>2, <1>7, <3>1 DEF TreeOK, Mutual
    <3>3. flow.inbox[m] # y
      <4>1. ASSUME flow.inbox[m] = y PROVE FALSE
        <5> DEFINE v == <<w[1], w[2], m>>
        <5>1. flow.target[y] = m /\ m # None
          BY <3>2, <4>1, FrameFlowAssumption
        <5>2. v \in Wires /\ v[1] = w[1] /\ v[2] = w[2] /\ v[3] = m
          BY <1>1, <5>1 DEF TreeOK
        <5> HIDE DEF v
        <5>3. v = w
          BY <5>2 DEF WiredAsTree
        <5> QED BY <2>2, <5>2, <5>3
      <4> QED BY <4>1
    <3> QED BY <1>5, <3>1, <3>2, <3>3
  <2> QED BY <2>1, <2>2
<1>8. \E rank : Ranks(rank)'
  <2>1. PICK rank \in [Modules -> Nat] : \A v \in Wires : rank[v[1]] < rank[v[3]]
    BY DEF WiredAsTree
  <2>2. ASSUME NEW x \in Boxes, flow'.target[x] # None
        PROVE  rank[x[1]] < rank[flow'.target[x]]
    <3> DEFINE v == <<x[1], x[2], flow'.target[x]>>
    <3>1. v \in Wires /\ v[1] = x[1] /\ v[3] = flow'.target[x]
      BY <1>4, <2>2
    <3> HIDE DEF v
    <3>2. rank[v[1]] < rank[v[3]]
      BY <2>1, <3>1
    <3> QED BY <3>1, <3>2
  <2>3. Ranks(rank)'
    BY <2>1, <2>2 DEF Ranks
  <2> QED BY <2>3
<1> QED BY <1>4, <1>6, <1>7, <1>8 DEF Mutual

\* Nothing is connected and the modules are put in a line.
LEMMA LineIsTree ==
  ASSUME TypeOK, TreeOK, ~execute_called, ~boxes_connected, flow' = InALine, order' = order
  PROVE  Mutual' /\ \E rank : Ranks(rank)'
<1>1. /\ \A x \in Boxes : flow.target[x] = None
      /\ \A m \in Modules : flow.inbox[m] = None
  <2>1. \A x \in Boxes : flow.target[x] = None
    BY DEF TreeOK
  <2>2. ASSUME NEW m \in Modules, flow.inbox[m] # None
        PROVE  FALSE
    <3>1. flow.inbox[m] \in Boxes /\ flow.target[flow.inbox[m]] = m /\ m # None
      BY <2>2, FrameFlowAssumption, SMTT(30) DEF TreeOK, Mutual, TypeOK, FlowTypeOK
    <3> QED BY <2>1, <3>1
  <2> QED BY <2>1, <2>2
<1>2. /\ order \in Seq(Modules) /\ Distinct(order) /\ Len(order) \in Nat
      /\ DOMAIN order = 1 .. Len(order) /\ \A i \in DOMAIN order : order[i] \in Modules
  BY DEF TypeOK, Distinct
<1>3. ASSUME NEW i \in Connectable
      PROVE  i \in DOMAIN order /\ i + 1 \in DOMAIN order /\ i \in Int
  <2>1. i \in 1 .. Len(order) - 1
    BY DEF Connectable
  <2> QED BY <1>2, <2>1
<1>4. ASSUME NEW i \in Connectable
      PROVE  /\ <<order[i], "OutBox">> \in Boxes /\ order[i + 1] \in Modules
             /\ flow'.target[<<order[i], "OutBox">>] = order[i + 1]
             /\ flow'.inbox[order[i + 1]] = <<order[i], "OutBox">>
  <2>1. <<order[i], "OutBox">> \in Boxes /\ order[i + 1] \in Modules
    BY InALineEffect
  <2>2. flow'.target[<<order[i], "OutBox">>] = order[i + 1]
    BY InALineEffect
  <2>3. flow'.inbox[order[i + 1]] = <<order[i], "OutBox">>
    BY InALineEffect
  <2> QED BY <2>1, <2>2, <2>3
<1>5. ASSUME NEW x \in Boxes, flow'.target[x] # None
      PROVE  \E i \in Connectable : x = <<order[i], "OutBox">> /\ flow'.target[x] = order[i + 1]
  <2>1. ASSUME \A i \in Connectable : x # <<order[i], "OutBox">> PROVE FALSE
    <3>1. flow'.target[x] = flow.target[x]
      BY <2>1, InALineEffect
    <3> QED BY <1>1, <1>5, <3>1
  <2> QED BY <1>4, <2>1
<1>6. ASSUME NEW m \in Modules, flow'.inbox[m] # None
      PROVE  \E i \in Connectable : m = order[i + 1] /\ flow'.inbox[m] = <<order[i], "OutBox">>
  <2>1. ASSUME \A i \in Connectable : m # order[i + 1] PROVE FALSE
    <3>1. flow'.inbox[m] = flow.inbox[m]
      BY <2>1, InALineEffect
    <3> QED BY <1>1, <1>6, <3>1
  <2> QED BY <1>4, <2>1
<1>7. Mutual'
  <2>1. ASSUME NEW x \in Boxes, flow'.target[x] # None
        PROVE  /\ flow'.inbox[flow'.target[x]] = x
               /\ x[1] \in ToSet(order) /\ flow'.target[x] \in ToSet(order)
    <3>1. PICK i \in Connectable : x = <<order[i], "OutBox">> /\ flow'.target[x] = order[i + 1]
      BY <1>5, <2>1
    <3>2. x[1] = order[i]
      BY <3>1
    <3> QED BY <1>3, <1>4, <3>1, <3>2 DEF ToSet
  <2>2. ASSUME NEW m \in Modules, flow'.inbox[m] # None
        PROVE  flow'.target[flow'.inbox[m]] = m
    BY <1>4, <1>6, <2>2
  <2> QED BY <2>1, <2>2 DEF Mutual
<1>8. \E rank : Ranks(rank)'
  <2> DEFINE rank == [m \in Modules |-> IF m \in ToSet(order) THEN Place(order, m) ELSE 0]
  <2>1. rank \in [Modules -> Nat]
    <3>1. ASSUME NEW m \in Modules, m \in ToSet(order)
          PROVE  Place(order, m) \in Nat
      BY <1>2, <3>1, PlaceIs
    <3> QED BY <3>1
  <2>2. ASSUME NEW i \in DOMAIN order
        PROVE  rank[order[i]] = i
    <3>1. order[i] \in ToSet(order)
      BY DEF ToSet
    <3>2. Place(order, order[i]) \in DOMAIN order /\ order[Place(order, order[i])] = order[i]
      BY <3>1, PlaceIs
    <3>3. Place(order, order[i]) = i
      <4>1. \A j \in DOMAIN order : order[j] = order[i] => j = i
        BY <1>2 DEF Distinct
      <4> QED BY <3>2, <4>1
    <3>4. order[i] \in Modules
      BY <1>2
    <3> QED BY <3>1, <3>3, <3>4
  <2> HIDE DEF rank
  <2>3. ASSUME NEW x \in Boxes, flow'.target[x] # None
        PROVE  rank[x[1]] < rank[flow'.target[x]]
    <3>1. PICK i \in Connectable : x = <<order[i], "OutBox">> /\ flow'.target[x] = order[i + 1]
      BY <1>5, <2>3
    <3>2. rank[order[i]] = i /\ rank[order[i + 1]] = i + 1 /\ i \in Int
      BY <1>3, <2>2
    <3>3. x[1] = order[i]
      BY <3>1
    <3> QED BY <3>1, <3>2, <3>3
  <2>4. PICK r \in [Modules -> Nat] :
          \A x \in Boxes : flow'.target[x] # None => r[x[1]] < r[flow'.target[x]]
    BY <2>1, <2>3
  <2>5. Ranks(r)'
    BY <2>4 DEF Ranks
  <2> QED BY <2>5
<1> QED BY <1>7, <1>8

LEMMA TreeSame ==
  ASSUME TreeOK, flow'.target = flow.target, flow'.inbox = flow.inbox, order' = order,
         boxes_connected' = boxes_connected, configure_called' = configure_called,
         execute_called' = execute_called, driving' = driving, Busy' => Busy
  PROVE  TreeOK'
<1>1. Mutual'
  BY DEF TreeOK, Mutual
<1>2. \E rank : Ranks(rank)'
  <2>1. PICK rank : Ranks(rank)
    BY DEF TreeOK
  <2>2. Ranks(rank)'
    BY <2>1 DEF Ranks
  <2> QED BY <2>2
<1> QED BY <1>1, <1>2 DEF TreeOK

LEMMA TreeNext ==
  ASSUME WiredAsTree, TypeOK, TypeOK', RunOK, TreeOK, [Next]_vars
  PROVE  TreeOK'
<1>1. StackIdle /\ Untouched
  BY DEF RunOK
<1>2. CASE SetUpStep
  <2>1. /\ phase = "idle" /\ phase' = phase /\ result' = result
        /\ configure_called' = configure_called /\ execute_called' = execute_called
        /\ driving' = driving /\ ToSet(order) \subseteq ToSet(order')
        /\ boxes_connected => boxes_connected'
        /\ order' # order => ~configure_called
    BY <1>2 DEF SetUpStep
  <2>2. Busy' = Busy
    BY <2>1 DEF Busy, Ended
  <2>3. CASE flow' = flow
    <3>1. Mutual'
      <4>1. ASSUME NEW x \in Boxes, flow'.target[x] # None
            PROVE  /\ flow'.inbox[flow'.target[x]] = x
                   /\ x[1] \in ToSet(order') /\ flow'.target[x] \in ToSet(order')
        BY <2>1, <2>3, <4>1 DEF TreeOK, Mutual
      <4> QED BY <2>3, <4>1 DEF TreeOK, Mutual
    <3>2. \E rank : Ranks(rank)'
      <4>1. PICK rank : Ranks(rank)
        BY DEF TreeOK
      <4>2. Ranks(rank)'
        BY <2>3, <4>1 DEF Ranks
      <4> QED BY <4>2
    <3>3. ~execute_called => \A x \in Boxes : flow.target[x] # None =>
            boxes_connected' /\ <<x[1], x[2], flow.target[x]>> \in Wires
      BY <2>1 DEF TreeOK
    <3>4. Busy => order' = order
      BY <2>1 DEF TreeOK
    <3> QED BY <2>1, <2>2, <2>3, <3>1, <3>2, <3>3, <3>4 DEF TreeOK
  <2>4. CASE flow' # flow
    <3>1. /\ ~execute_called /\ boxes_connected'
          /\ \E w \in Wires : /\ {w[1], w[3]} \subseteq ToSet(order)
                              /\ flow' = ConnectOutBox(flow, w[1], w[2], w[3])
      BY <1>2, <2>4 DEF SetUpStep
    <3>2. PICK w \in Wires : /\ {w[1], w[3]} \subseteq ToSet(order)
                             /\ flow' = ConnectOutBox(flow, w[1], w[2], w[3])
      BY <3>1
    <3>3. /\ Mutual'
          /\ \E rank : Ranks(rank)'
          /\ \A x \in Boxes : flow'.target[x] # None => <<x[1], x[2], flow'.target[x]>> \in Wires
      BY <2>1, <3>1, <3>2, ConnectKeepsTree
    <3>4. ~Busy'
      BY <1>1, <2>1, <3>1 DEF Busy, Ended, Untouched
    <3> QED BY <3>1, <3>3, <3>4 DEF TreeOK
  <2> QED BY <2>3, <2>4
<1>3. ASSUME NEW count \in Counts, Execute(count)
      PROVE  TreeOK'
  <2>1. /\ phase = "idle" /\ ~execute_called /\ execute_called' /\ order' = order
        /\ boxes_connected' = boxes_connected /\ flow' = Connected
        /\ configure_called' = (order # <<>>) /\ result = "none"
    BY <1>1, <1>3 DEF Execute, Untouched
  <2>2. Mutual' /\ \E rank : Ranks(rank)'
    <3>1. CASE boxes_connected
      <4>1. flow' = flow
        BY <2>1, <3>1 DEF Connected
      <4>2. Mutual'
        BY <2>1, <4>1 DEF TreeOK, Mutual
      <4>3. PICK rank : Ranks(rank)
        BY DEF TreeOK
      <4>4. Ranks(rank)'
        BY <4>1, <4>3 DEF Ranks
      <4> QED BY <4>2, <4>4
    <3>2. CASE ~boxes_connected
      <4>1. flow' = InALine
        BY <2>1, <3>2 DEF Connected
      <4> QED BY <2>1, <3>2, <4>1, LineIsTree
    <3> QED BY <3>1, <3>2
  <2>3. Busy' => /\ configure_called' /\ driving' \in ToSet(order)
                 /\ \A m \in ToSet(order) : flow'.inbox[m] = None <=> m = driving'
    <3>1. SUFFICES ASSUME Busy'
                   PROVE  /\ configure_called' /\ driving' \in ToSet(order)
                          /\ \A m \in ToSet(order) : flow'.inbox[m] = None <=> m = driving'
      OBVIOUS
    <3>2. ~ConfigureFails(flow') /\ driving' \in Inboxless(flow')
      <4>1. ConfigureFails(flow') => result' = "fatal" /\ phase' = "idle"
        BY <1>3, <2>1 DEF Execute
      <4> QED BY <1>3, <3>1, <4>1 DEF Execute, Busy, Ended
    <3>3. order # <<>> /\ \E m \in Modules : Inboxless(flow') = {m}
      BY <3>2 DEF ConfigureFails
    <3>4. driving' \in ToSet(order) /\ Inboxless(flow') = {driving'}
      BY <3>2, <3>3 DEF Inboxless
    <3>5. \A m \in ToSet(order) : flow'.inbox[m] = None <=> m \in Inboxless(flow')
      BY DEF Inboxless, HasInBox
    <3> QED BY <2>1, <3>3, <3>4, <3>5
  <2> QED BY <2>1, <2>2, <2>3 DEF TreeOK
<1>4. CASE StartStep
  <2>1. flow' = flow /\ UNCHANGED setup /\ phase = "looping"
    BY <1>4 DEF StartStep
  <2> QED BY <2>1, TreeSame DEF setup, Busy
<1>5. ASSUME NEW m \in Modules, NEW g, NEW taken, NEW given, NEW ns, OwnStep(m, g, taken, given, ns)
      PROVE  TreeOK'
  <2>1. flow'.target = flow.target /\ flow'.inbox = flow.inbox
    BY <1>5, OwnTravels
  <2>2. UNCHANGED setup /\ phase' = phase /\ result' = result
    BY <1>5 DEF OwnStep
  <2> QED BY <2>1, <2>2, TreeSame DEF setup, Busy, Ended
<1>6. CASE ReturnStep \/ \E x \in Boxes : BoxStep(x)
  <2>1. flow' = flow /\ UNCHANGED setup /\ phase' = phase /\ result' = result
    BY <1>6 DEF ReturnStep, BoxStep, Elsewhere
  <2> QED BY <2>1, TreeSame DEF setup, Busy, Ended
<1>7. CASE EndStep
  <2>1. flow' = flow /\ UNCHANGED setup /\ phase # "idle"
    BY <1>7 DEF EndStep
  <2> QED BY <2>1, TreeSame DEF setup, Busy
<1>8. CASE WatchStep
  <2>1. flow' = flow /\ UNCHANGED setup /\ phase' = phase /\ result' = result
    BY <1>8 DEF WatchStep
  <2> QED BY <2>1, TreeSame DEF setup, Busy, Ended
<1> QED BY <1>1, <1>2, <1>3, <1>4, <1>5, <1>6, <1>7, <1>8, NextSteps

-----------------------------------------------------------------------------
(* The calls on the stack follow the connections.                           *)

\* Call d comes from the outbox c is looking at, or has just left to let the
\* module behind it finish.
CalledFrom(fl, c, d) ==
  LET b == IF d.op = "process" THEN c.box ELSE c.box - 1
  IN  /\ c.op = "process" => d.op = "process"
      /\ b \in DOMAIN OutBoxes[c.mod]
      /\ fl.target[<<c.mod, OutBoxes[c.mod][b]>>] = d.mod

StackOK ==
  /\ stack # <<>> => stack[1].mod = driving
  /\ phase = "looping" => \A i \in DOMAIN stack : stack[i].op = "process"
  /\ \A i \in 1 .. Len(stack) - 1 : CalledFrom(flow, stack[i], stack[i + 1])

LEMMA StackInit == Init => StackOK
BY DEF Init, StackOK

\* How the stack changes in a step of a module.
LEMMA OwnStack ==
  ASSUME TypeOK, NEW m \in Modules, NEW g, NEW taken, NEW given, NEW ns,
         OwnStep(m, g, taken, given, ns)
  PROVE  /\ Len(stack) \in Nat /\ Len(stack) >= 1
         /\ DOMAIN stack = 1 .. Len(stack) /\ DOMAIN stack' = 1 .. Len(stack)
         /\ \A i \in 1 .. Len(stack) - 1 : stack'[i] = stack[i]
         /\ stack[Len(stack)].mod = m /\ stack[Len(stack)].box = 0
         /\ stack'[Len(stack)] = [mod |-> m, op |-> stack[Len(stack)].op, box |-> 1]
         /\ Len(stack') = Len(stack)
<1>1. stack # <<>> /\ Top.mod = m /\ Top.box = 0 /\ stack' = Looking(1) /\ stack \in Seq(CallType)
  BY DEF OwnStep, TypeOK
<1>2. /\ Len(stack') = Len(stack) /\ DOMAIN stack' = DOMAIN stack
      /\ \A i \in 1 .. Len(stack) - 1 : stack'[i] = stack[i]
      /\ stack'[Len(stack)] = [mod |-> Top.mod, op |-> Top.op, box |-> 1]
  BY <1>1, LookingEffect
<1> QED BY <1>1, <1>2, StackFacts DEF Top

LEMMA BoxStack ==
  ASSUME TypeOK, NEW x \in Boxes, BoxStep(x)
  PROVE  /\ Len(stack) \in Nat /\ Len(stack) >= 1 /\ DOMAIN stack = 1 .. Len(stack)
         /\ DOMAIN stack' = IF Calling(x) THEN 1 .. Len(stack) + 1 ELSE 1 .. Len(stack)
         /\ Top = stack[Len(stack)] /\ Top.box \in Nat /\ Top.box >= 1 /\ Top.mod = x[1]
         /\ Top.box \in DOMAIN OutBoxes[x[1]] /\ OutBoxes[x[1]][Top.box] = x[2]
         /\ \A i \in 1 .. Len(stack) - 1 : stack'[i] = stack[i]
         /\ stack'[Len(stack)] = [mod |-> Top.mod, op |-> Top.op,
                                  box |-> IF Filled(x) THEN Top.box ELSE Top.box + 1]
         /\ Calling(x) => stack'[Len(stack) + 1] =
                            [mod |-> flow.target[x],
                             op |-> IF Filled(x) THEN "process" ELSE "finish", box |-> 0]
<1>1. Len(stack) \in Nat /\ Len(stack) >= 1 /\ DOMAIN stack = 1 .. Len(stack)
  BY StackFacts DEF BoxStep
<1>2. DOMAIN stack' = 1 .. Len(stack')
  BY DEF BoxStep
<1>3. Top.box \in DOMAIN OutBoxes[x[1]] /\ DOMAIN OutBoxes[x[1]] = 1 .. Len(OutBoxes[x[1]])
      /\ Len(OutBoxes[x[1]]) \in Nat
  BY BoxFacts DEF BoxStep
<1>4. Top.box \in Nat /\ Top.box >= 1
  BY <1>3
<1> QED BY <1>1, <1>2, <1>4 DEF BoxStep, Top

LEMMA StackNext ==
  ASSUME TypeOK, TypeOK', RunOK, StackOK, [Next]_vars
  PROVE  StackOK'
<1>1. StackIdle
  BY DEF RunOK
<1>2. CASE SetUpStep
  <2>1. phase' = "idle" /\ stack' = <<>>
    BY <1>1, <1>2 DEF SetUpStep, StackIdle
  <2> QED BY <2>1 DEF StackOK
<1>3. ASSUME NEW count \in Counts, Execute(count)
      PROVE  StackOK'
  <2>1. stack' = <<>>
    BY <1>1, <1>3 DEF Execute, StackIdle
  <2> QED BY <2>1 DEF StackOK
<1>4. CASE StartStep
  <2>1. /\ driving' = driving
        /\ \/ phase' = "looping" /\ stack' = <<[mod |-> driving, op |-> "process", box |-> 0]>>
           \/ phase' = "finishing" /\ stack' = <<[mod |-> driving, op |-> "finish", box |-> 0]>>
    BY <1>4 DEF StartStep, setup
  <2>2. Len(stack') = 1 /\ DOMAIN stack' = {1} /\ stack'[1].mod = driving
        /\ (phase' = "looping" => stack'[1].op = "process")
    BY <2>1
  <2>3. 1 .. Len(stack') - 1 = {}
    BY <2>2
  <2> QED BY <2>1, <2>2, <2>3 DEF StackOK
<1>5. ASSUME NEW m \in Modules, NEW g, NEW taken, NEW given, NEW ns, OwnStep(m, g, taken, given, ns)
      PROVE  StackOK'
  <2>1. flow'.target = flow.target /\ phase' = phase /\ driving' = driving
    BY <1>5, OwnTravels, ZenonT(60) DEF OwnStep, setup
  <2> DEFINE n == Len(stack)
  <2>2. /\ n \in Nat /\ n >= 1 /\ DOMAIN stack = 1 .. n /\ DOMAIN stack' = 1 .. n /\ Len(stack') = n
        /\ \A i \in 1 .. n - 1 : stack'[i] = stack[i]
        /\ stack'[n].mod = stack[n].mod /\ stack'[n].op = stack[n].op
    <3>1. n \in Nat /\ n >= 1 /\ DOMAIN stack = 1 .. n /\ DOMAIN stack' = 1 .. n /\ Len(stack') = n
      BY <1>5, OwnStack
    <3>2. \A i \in 1 .. n - 1 : stack'[i] = stack[i]
      BY <1>5, OwnStack
    <3>3. stack[n].mod = m /\ stack'[n] = [mod |-> m, op |-> stack[n].op, box |-> 1]
      BY <1>5, OwnStack
    <3> QED BY <3>1, <3>2, <3>3
  <2> HIDE DEF n
  <2>3. \A i \in 1 .. n : stack'[i].mod = stack[i].mod /\ stack'[i].op = stack[i].op
    BY <2>2
  <2>4. stack # <<>>
    BY <1>5 DEF OwnStep
  <2>5. stack'[1].mod = driving
    BY <2>2, <2>3, <2>4 DEF StackOK
  <2>6. phase' = "looping" => \A i \in DOMAIN stack' : stack'[i].op = "process"
    BY <2>1, <2>2, <2>3 DEF StackOK
  <2>7. ASSUME NEW i \in 1 .. n - 1
        PROVE  CalledFrom(flow', stack'[i], stack'[i + 1])
    <3>1. CalledFrom(flow, stack[i], stack[i + 1])
      BY <2>7 DEF StackOK, n
    <3>2. /\ stack'[i] = stack[i]
          /\ stack'[i + 1].mod = stack[i + 1].mod /\ stack'[i + 1].op = stack[i + 1].op
      BY <2>2, <2>3
    <3> QED BY <2>1, <3>1, <3>2 DEF CalledFrom
  <2> QED BY <2>1, <2>2, <2>5, <2>6, <2>7 DEF StackOK
<1>6. ASSUME NEW x \in Boxes, BoxStep(x)
      PROVE  StackOK'
  <2>1. flow' = flow /\ phase' = phase /\ driving' = driving
    BY <1>6 DEF BoxStep, Elsewhere, setup
  <2> DEFINE n == Len(stack)
  <2>2. /\ n \in Nat /\ n >= 1 /\ DOMAIN stack = 1 .. n
        /\ DOMAIN stack' = (IF Calling(x) THEN 1 .. n + 1 ELSE 1 .. n)
        /\ Len(stack') = (IF Calling(x) THEN n + 1 ELSE n)
        /\ Top = stack[n] /\ Top.box \in Nat /\ Top.box >= 1 /\ Top.mod = x[1]
        /\ Top.box \in DOMAIN OutBoxes[x[1]] /\ OutBoxes[x[1]][Top.box] = x[2]
        /\ \A i \in 1 .. n - 1 : stack'[i] = stack[i]
        /\ stack'[n] = [mod |-> Top.mod, op |-> Top.op,
                        box |-> IF Filled(x) THEN Top.box ELSE Top.box + 1]
        /\ Calling(x) => stack'[n + 1] =
                           [mod |-> flow.target[x],
                            op |-> IF Filled(x) THEN "process" ELSE "finish", box |-> 0]
    BY <1>6, BoxStack DEF BoxStep
  <2> HIDE DEF n
  <2>3. \A i \in 1 .. n : stack'[i].mod = stack[i].mod /\ stack'[i].op = stack[i].op
    BY <2>2
  <2>4. stack # <<>>
    BY <1>6 DEF BoxStep
  <2>5. stack'[1].mod = driving
    BY <2>2, <2>3, <2>4 DEF StackOK
  <2>6. ASSUME phase = "looping", NEW i \in DOMAIN stack'
        PROVE  stack'[i].op = "process"
    <3>1. \A j \in 1 .. n : stack[j].op = "process"
      BY <2>2, <2>6 DEF StackOK
    <3>2. Calling(x) => stack'[n + 1].op = "process"
      BY <2>2, <3>1 DEF Calling
    <3> QED BY <2>2, <2>3, <3>1, <3>2
  <2>7. ASSUME NEW i \in 1 .. n - 1
        PROVE  CalledFrom(flow', stack'[i], stack'[i + 1])
    <3>1. CalledFrom(flow, stack[i], stack[i + 1])
      BY <2>7 DEF StackOK, n
    <3>2. /\ stack'[i] = stack[i]
          /\ stack'[i + 1].mod = stack[i + 1].mod /\ stack'[i + 1].op = stack[i + 1].op
      BY <2>2, <2>3
    <3> QED BY <2>1, <3>1, <3>2 DEF CalledFrom
  <2>8. Calling(x) => CalledFrom(flow', stack'[n], stack'[n + 1])
    <3>1. SUFFICES ASSUME Calling(x) PROVE CalledFrom(flow', stack'[n], stack'[n + 1])
      OBVIOUS
    <3>2. x = <<x[1], x[2]>>
      BY BoxFacts
    <3>3. flow.target[<<Top.mod, OutBoxes[Top.mod][Top.box]>>] = flow.target[x]
      BY <2>2, <3>2
    <3>4. CASE Filled(x)
      <4>1. /\ stack'[n] = [mod |-> Top.mod, op |-> Top.op, box |-> Top.box]
            /\ stack'[n + 1] = [mod |-> flow.target[x], op |-> "process", box |-> 0]
        BY <2>2, <3>1, <3>4
      <4> QED BY <2>1, <2>2, <3>3, <4>1 DEF CalledFrom
    <3>5. CASE ~Filled(x)
      <4>1. /\ stack'[n] = [mod |-> Top.mod, op |-> "finish", box |-> Top.box + 1]
            /\ stack'[n + 1] = [mod |-> flow.target[x], op |-> "finish", box |-> 0]
        BY <2>2, <3>1, <3>5 DEF Calling
      <4>2. Top.box + 1 - 1 = Top.box
        BY <2>2
      <4> QED BY <2>1, <2>2, <3>3, <4>1, <4>2 DEF CalledFrom
    <3> QED BY <3>4, <3>5
  <2>9. \A i \in 1 .. Len(stack') - 1 : CalledFrom(flow', stack'[i], stack'[i + 1])
    BY <2>2, <2>7, <2>8
  <2> QED BY <2>1, <2>5, <2>6, <2>9 DEF StackOK
<1>7. CASE ReturnStep
  <2>1. flow' = flow /\ phase' = phase /\ driving' = driving
    BY <1>7 DEF ReturnStep, Elsewhere, setup
  <2> DEFINE n == Len(stack)
  <2>2. /\ n \in Nat /\ n >= 1 /\ DOMAIN stack = 1 .. n /\ stack # <<>>
        /\ DOMAIN stack' = 1 .. n - 1 /\ Len(stack') = n - 1
        /\ \A i \in 1 .. n - 1 : stack'[i] = stack[i]
    <3>1. DOMAIN stack' = 1 .. Len(stack')
      BY <1>7 DEF ReturnStep
    <3> QED BY <1>7, <3>1, StackFacts DEF ReturnStep
  <2> HIDE DEF n
  <2>3. stack' # <<>> => stack'[1].mod = driving
    BY <2>2 DEF StackOK
  <2>4. phase = "looping" => \A i \in DOMAIN stack' : stack'[i].op = "process"
    BY <2>2 DEF StackOK
  <2>5. ASSUME NEW i \in 1 .. n - 1 - 1
        PROVE  CalledFrom(flow', stack'[i], stack'[i + 1])
    <3>1. CalledFrom(flow, stack[i], stack[i + 1])
      BY <2>2, <2>5 DEF StackOK, n
    <3>2. stack'[i] = stack[i] /\ stack'[i + 1] = stack[i + 1]
      BY <2>2
    <3> QED BY <2>1, <3>1, <3>2 DEF CalledFrom
  <2> QED BY <2>1, <2>2, <2>3, <2>4, <2>5 DEF StackOK
<1>8. CASE EndStep
  <2>1. phase' = "idle" /\ stack' = <<>>
    BY <1>8 DEF EndStep
  <2> QED BY <2>1 DEF StackOK
<1>9. CASE WatchStep
  BY <1>9 DEF WatchStep, StackOK, CalledFrom, setup
<1> QED BY <1>1, <1>2, <1>3, <1>4, <1>5, <1>6, <1>7, <1>8, <1>9, NextSteps

\* Along the stack the modules get further from the root: none is called
\* while it is being called.
LEMMA StackDistinct ==
  ASSUME TypeOK, TreeOK, StackOK, NEW i \in DOMAIN stack, NEW j \in DOMAIN stack,
         stack[i].mod = stack[j].mod
  PROVE  i = j
<1> DEFINE n == Len(stack)
<1>1. n \in Nat /\ DOMAIN stack = 1 .. n /\ \A k \in 1 .. n : stack[k].mod \in Modules
  BY StackFacts
<1>2. PICK rank : Ranks(rank)
  BY DEF TreeOK
<1>3. rank \in [Modules -> Nat]
  BY <1>2 DEF Ranks
<1>4. ASSUME NEW k \in 1 .. n - 1
      PROVE  rank[stack[k].mod] < rank[stack[k + 1].mod]
  <2>1. CalledFrom(flow, stack[k], stack[k + 1])
    BY DEF StackOK
  <2>2. PICK b \in DOMAIN OutBoxes[stack[k].mod] :
          flow.target[<<stack[k].mod, OutBoxes[stack[k].mod][b]>>] = stack[k + 1].mod
    BY <2>1 DEF CalledFrom
  <2> DEFINE x == <<stack[k].mod, OutBoxes[stack[k].mod][b]>>
  <2>3. x \in Boxes /\ x[1] = stack[k].mod
    BY <1>1 DEF Boxes, ToSet
  <2>4. k + 1 \in 1 .. n
    BY <1>1
  <2>5. stack[k + 1].mod # None
    BY <1>1, <2>4, FrameFlowAssumption
  <2> HIDE DEF x
  <2>6. flow.target[x] = stack[k + 1].mod
    BY <2>2 DEF x
  <2> QED BY <1>2, <2>3, <2>5, <2>6 DEF Ranks
<1> HIDE DEF n
<1>5. ASSUME NEW a \in 1 .. n, NEW b \in 1 .. n, a < b
      PROVE  rank[stack[a].mod] < rank[stack[b].mod]
  <2> DEFINE T == {d \in Nat : a + 1 + d <= n => rank[stack[a].mod] < rank[stack[a + 1 + d].mod]}
  <2>1. 0 \in T
    BY <1>1, <1>4
  <2>2. ASSUME NEW d \in T PROVE d + 1 \in T
    <3>1. SUFFICES ASSUME a + 1 + (d + 1) <= n
                   PROVE  rank[stack[a].mod] < rank[stack[a + 1 + (d + 1)].mod]
      OBVIOUS
    <3> DEFINE e == a + 1 + d
    <3>2. e \in 1 .. n - 1 /\ e \in 1 .. n /\ e + 1 \in 1 .. n /\ a + 1 + (d + 1) = e + 1
      BY <1>1, <3>1
    <3>3. rank[stack[a].mod] < rank[stack[e].mod]
      BY <1>1, <3>1
    <3> HIDE DEF e
    <3>4. rank[stack[e].mod] < rank[stack[e + 1].mod]
      BY <1>4, <3>2
    <3>5. rank[stack[a].mod] \in Nat /\ rank[stack[e].mod] \in Nat /\ rank[stack[e + 1].mod] \in Nat
      BY <1>1, <1>3, <3>2
    <3>6. rank[stack[a].mod] < rank[stack[e + 1].mod]
      BY <3>3, <3>4, <3>5
    <3> QED BY <3>2, <3>6
  <2> HIDE DEF T
  <2>3. T = Nat
    <3>1. T \in SUBSET Nat
      BY DEF T
    <3> QED BY <2>1, <2>2, <3>1, Pushing!NatInd
  <2>4. b - a - 1 \in T /\ a + 1 + (b - a - 1) = b
    BY <1>1, <1>5, <2>3
  <2> QED BY <1>1, <2>4 DEF T
<1>6. rank[stack[i].mod] \in Nat
  BY <1>1, <1>3
<1> QED BY <1>1, <1>5, <1>6

-----------------------------------------------------------------------------
(* Finishing: a module's Finish begins when the module before it has        *)
(* finished and left the outbox between them behind, and never again.       *)

\* Finish has been called on module t,
Begun(t) ==
  finished[t] = 1 \/ \E i \in DOMAIN stack : stack[i].mod = t /\ stack[i].op = "finish"

\* and the module with outbox x has finished and gone past x.
Passed(x) == finished[x[1]] = 1 /\ \A i \in DOMAIN stack : ~Ahead(stack[i], x)

FinishedOf(c) == IF c.op = "finish" /\ c.box # 0 THEN 1 ELSE 0

FinishOK ==
  /\ \A m \in Modules : finished[m] \in {0, 1}
  /\ phase = "looping" => \A m \in Modules : finished[m] = 0
  /\ \A i \in DOMAIN stack : finished[stack[i].mod] = FinishedOf(stack[i])
  /\ Busy => \A x \in Boxes : flow.target[x] # None => (Begun(flow.target[x]) <=> Passed(x))
  /\ phase = "finishing" \/ Ended => Begun(driving)

LEMMA FinishInit == Init => FinishOK
BY DEF Init, FinishOK, Busy, Ended

\* A module's own step.
LEMMA FinishOwn ==
  ASSUME TypeOK, StackIdle, TreeOK, StackOK, FinishOK,
         NEW m \in Modules, NEW g, NEW taken, NEW given, NEW ns,
         OwnStep(m, g, taken, given, ns)
  PROVE  FinishOK'
<1> DEFINE n == Len(stack)
<1>1. n \in Nat /\ n >= 1 /\ DOMAIN stack = 1 .. n /\ DOMAIN stack' = 1 .. n
  BY OwnStack
<1>2. \A i \in 1 .. n - 1 : stack'[i] = stack[i]
  BY OwnStack
<1>3. /\ stack[n].mod = m /\ stack[n].box = 0
      /\ stack'[n] = [mod |-> m, op |-> stack[n].op, box |-> 1]
  BY OwnStack
<1>4. stack[n].op \in {"process", "finish"} /\ Top = stack[n]
  BY <1>1, StackFacts DEF Top
<1>5. /\ flow'.target = flow.target /\ phase' = phase /\ driving' = driving /\ Busy' = Busy
      /\ Ended' = Ended
  <2>1. flow'.target = flow.target
    BY OwnTravels, OwnStepTypes
  <2> QED BY <2>1 DEF OwnStep, setup, Busy, Ended
<1>6. \A i \in 1 .. n - 1 : stack[i].mod # m
  <2> SUFFICES ASSUME NEW i \in 1 .. n - 1, stack[i].mod = m PROVE FALSE
    OBVIOUS
  <2>1. i \in DOMAIN stack /\ n \in DOMAIN stack /\ stack[i].mod = stack[n].mod
    BY <1>1, <1>3
  <2>2. i = n
    BY <2>1, StackDistinct
  <2> QED BY <1>1, <2>2
<1>7. finished[m] = 0
  BY <1>1, <1>3 DEF FinishOK, FinishedOf
<1>8. /\ \A k \in Modules : k # m => finished'[k] = finished[k]
      /\ finished'[m] = IF stack[n].op = "finish" THEN 1 ELSE 0
  <2>1. finished \in [Modules -> Nat]
    BY DEF TypeOK
  <2> QED BY <1>4, <1>7, <2>1 DEF OwnStep
<1> HIDE DEF n
<1>9. \A k \in Modules : finished'[k] \in {0, 1}
  BY <1>8 DEF FinishOK
<1>10. ASSUME phase' = "looping", NEW k \in Modules
       PROVE  finished'[k] = 0
  <2>1. stack[n].op = "process"
    BY <1>1, <1>5, <1>10 DEF StackOK
  <2> QED BY <1>5, <1>8, <1>10, <2>1 DEF FinishOK
<1>11. ASSUME NEW i \in DOMAIN stack'
       PROVE  finished'[stack'[i].mod] = FinishedOf(stack'[i])
  <2>1. CASE i = n
    BY <1>3, <1>4, <1>8, <2>1 DEF FinishedOf
  <2>2. CASE i # n
    <3>1. i \in 1 .. n - 1 /\ i \in DOMAIN stack
      BY <1>1, <2>2
    <3>2. stack'[i] = stack[i] /\ stack[i].mod # m /\ stack[i].mod \in Modules
      BY <1>2, <1>6, <3>1, StackFacts
    <3>3. finished[stack[i].mod] = FinishedOf(stack[i])
      BY <3>1 DEF FinishOK
    <3> QED BY <1>8, <3>2, <3>3
  <2> QED BY <2>1, <2>2
<1>12. ASSUME NEW t \in Modules
       PROVE  Begun(t)' <=> Begun(t)
  <2>1. \A i \in 1 .. n : stack'[i].mod = stack[i].mod /\ stack'[i].op = stack[i].op
    BY <1>1, <1>2, <1>3
  <2>2. CASE t = m /\ stack[n].op = "finish"
    <3>1. Begun(t)
      BY <1>1, <1>3, <2>2 DEF Begun
    <3>2. finished'[t] = 1
      BY <1>8, <2>2
    <3> QED BY <3>1, <3>2 DEF Begun
  <2>3. CASE ~(t = m /\ stack[n].op = "finish")
    <3>1. finished'[t] = finished[t]
      BY <1>7, <1>8, <2>3
    <3> QED BY <1>1, <2>1, <3>1 DEF Begun
  <2> QED BY <2>2, <2>3
<1>13. ASSUME NEW x \in Boxes
       PROVE  Passed(x)' <=> Passed(x)
  <2>1. x[1] \in Modules
    BY BoxFacts
  <2>2. CASE x[1] = m
    <3>1. ~Passed(x)
      BY <1>7, <2>2 DEF Passed
    <3>2. PICK k \in DOMAIN OutBoxes[x[1]] : OutBoxes[x[1]][k] = x[2]
      BY BoxFacts
    <3>3. 1 <= k
      BY <3>2, BoxFacts
    <3>4. Ahead(stack'[n], x)
      BY <1>3, <2>2, <3>2, <3>3 DEF Ahead
    <3>5. ~Passed(x)'
      BY <1>1, <3>4 DEF Passed, Ahead
    <3> QED BY <3>1, <3>5
  <2>3. CASE x[1] # m
    <3>1. finished'[x[1]] = finished[x[1]]
      BY <1>8, <2>1, <2>3
    <3>2. ~Ahead(stack[n], x) /\ ~Ahead(stack'[n], x)
      BY <1>3, <2>3 DEF Ahead
    <3>3. \A i \in 1 .. n : Ahead(stack'[i], x) <=> Ahead(stack[i], x)
      <4> SUFFICES ASSUME NEW i \in 1 .. n PROVE Ahead(stack'[i], x) <=> Ahead(stack[i], x)
        OBVIOUS
      <4>1. i = n \/ i \in 1 .. n - 1
        BY <1>1
      <4> QED BY <1>2, <3>2, <4>1
    <3> QED BY <1>1, <3>1, <3>3 DEF Passed, Ahead
  <2> QED BY <2>2, <2>3
<1>14. ASSUME Busy', NEW x \in Boxes, flow'.target[x] # None
       PROVE  Begun(flow.target[x])' <=> Passed(x)'
  <2>1. flow.target[x] \in Modules /\ flow'.target[x] = flow.target[x]
    BY <1>5, <1>14 DEF TypeOK, FlowTypeOK
  <2>2. PICK t \in Modules : t = flow.target[x]
    BY <2>1
  <2>3. Begun(t) <=> Passed(x)
    BY <1>5, <1>14, <2>1, <2>2 DEF FinishOK
  <2>4. Begun(t)' <=> Passed(x)'
    BY <1>12, <1>13, <2>3
  <2>5. Begun(t)' <=> Begun(flow.target[x])'
    BY <2>1, <2>2 DEF Begun
  <2> QED BY <2>4, <2>5
<1>15. ASSUME phase' = "finishing" \/ Ended'
       PROVE  Begun(driving)'
  <2>1. Begun(driving)
    BY <1>5, <1>15 DEF FinishOK
  <2>2. driving \in Modules
    <3>1. phase # "idle"
      BY <1>1 DEF StackIdle, OwnStep
    <3> QED BY <3>1 DEF TypeOK
  <2>3. PICK t \in Modules : t = driving
    BY <2>2
  <2>4. Begun(t)'
    BY <1>12, <2>1, <2>3
  <2> QED BY <1>5, <2>3, <2>4 DEF Begun
<1> QED BY <1>9, <1>10, <1>11, <1>14, <1>15 DEF FinishOK

\* A look at an outbox.
LEMMA FinishBox ==
  ASSUME TypeOK, StackIdle, TreeOK, StackOK, FinishOK, NEW x \in Boxes, BoxStep(x)
  PROVE  FinishOK'
<1> DEFINE n == Len(stack)
<1>0. PICK t : t = flow.target[x]
  OBVIOUS
<1>1. n \in Nat /\ n >= 1 /\ DOMAIN stack = 1 .. n
      /\ DOMAIN stack' = IF Calling(x) THEN 1 .. n + 1 ELSE 1 .. n
  BY BoxStack
<1>2. \A i \in 1 .. n - 1 : stack'[i] = stack[i]
  BY BoxStack
<1>3. /\ Top = stack[n] /\ Top.box \in Nat /\ Top.box >= 1 /\ Top.mod = x[1]
      /\ Top.box \in DOMAIN OutBoxes[x[1]] /\ OutBoxes[x[1]][Top.box] = x[2]
  BY BoxStack
<1>4. stack'[n] = [mod |-> Top.mod, op |-> Top.op,
                   box |-> IF Filled(x) THEN Top.box ELSE Top.box + 1]
  BY BoxStack
<1>5. Calling(x) => stack'[n + 1] = [mod |-> t, op |-> IF Filled(x) THEN "process" ELSE "finish",
                                     box |-> 0]
  BY <1>0, BoxStack
<1>6. Top.op \in {"process", "finish"}
  BY <1>1, <1>3, StackFacts
<1>7. /\ flow' = flow /\ phase' = phase /\ driving' = driving /\ Busy' = Busy /\ Ended' = Ended
      /\ finished' = finished /\ Busy
  BY DEF BoxStep, Elsewhere, setup, history, Busy, Ended, StackIdle
<1>8. Calling(x) => t # None /\ t \in Modules
  BY <1>0 DEF Calling, Filled, TypeOK, FlowTypeOK
<1>9. t # None => t # x[1]
  <2> SUFFICES ASSUME t # None PROVE t # x[1]
    OBVIOUS
  <2>1. PICK rank : Ranks(rank)
    BY DEF TreeOK
  <2>2. rank[x[1]] < rank[t] /\ rank[t] \in Nat
    BY <1>0, <2>1 DEF Ranks, TypeOK, FlowTypeOK
  <2> QED BY <2>2
<1>10. \A i \in 1 .. n - 1 : stack[i].mod # x[1]
  <2> SUFFICES ASSUME NEW i \in 1 .. n - 1, stack[i].mod = x[1] PROVE FALSE
    OBVIOUS
  <2>1. i \in DOMAIN stack /\ n \in DOMAIN stack /\ stack[i].mod = stack[n].mod
    BY <1>1, <1>3
  <2>2. i = n
    BY <2>1, StackDistinct
  <2> QED BY <1>1, <2>2
<1>11. finished[x[1]] = IF Top.op = "finish" THEN 1 ELSE 0
  <2>1. finished[stack[n].mod] = FinishedOf(stack[n])
    BY <1>1 DEF FinishOK
  <2> QED BY <1>3, <2>1 DEF FinishedOf
<1>12. Ahead(Top, x) /\ ~Passed(x)
  <2>1. Ahead(Top, x)
    BY <1>3 DEF Ahead
  <2> QED BY <1>1, <1>3, <2>1 DEF Passed
\* A module that is called has not begun to finish.
<1>13. Calling(x) => ~Begun(t) /\ finished[t] = 0
  <2>1. Calling(x) => ~Begun(t)
    BY <1>0, <1>7, <1>8, <1>12 DEF FinishOK
  <2> QED BY <1>8, <2>1 DEF FinishOK, Begun
<1> HIDE DEF n
\* Nothing changes for the other outboxes,
<1>14. ASSUME NEW y \in Boxes, y # x
       PROVE  Passed(y)' <=> Passed(y)
  <2>1. \A i \in 1 .. n : Ahead(stack'[i], y) <=> Ahead(stack[i], y)
    <3>1. ASSUME NEW k \in DOMAIN OutBoxes[y[1]], y[1] = x[1], OutBoxes[y[1]][k] = y[2]
          PROVE  k # Top.box /\ k \in Int
      <4>1. x = <<x[1], x[2]>> /\ y = <<y[1], y[2]>>
        BY BoxFacts
      <4>2. DOMAIN OutBoxes[y[1]] = 1 .. Len(OutBoxes[y[1]])
        BY BoxFacts
      <4> QED BY <1>3, <1>14, <3>1, <4>1, <4>2
    <3>2. Ahead(stack'[n], y) <=> Ahead(stack[n], y)
      <4>1. stack'[n].mod = Top.mod /\ stack'[n].box = IF Filled(x) THEN Top.box ELSE Top.box + 1
        BY <1>4
      <4>2. ASSUME NEW k \in DOMAIN OutBoxes[y[1]], y[1] = x[1], OutBoxes[y[1]][k] = y[2]
            PROVE  stack'[n].box <= k <=> stack[n].box <= k
        <5>1. k # Top.box /\ k \in Int
          BY <3>1, <4>2
        <5> QED BY <1>3, <4>1, <5>1
      <4> QED BY <1>3, <4>1, <4>2 DEF Ahead
    <3> SUFFICES ASSUME NEW i \in 1 .. n PROVE Ahead(stack'[i], y) <=> Ahead(stack[i], y)
      OBVIOUS
    <3>3. i = n \/ i \in 1 .. n - 1
      BY <1>1
    <3> QED BY <1>2, <3>2, <3>3
  <2>2. CASE ~Calling(x)
    BY <1>1, <1>7, <2>1, <2>2 DEF Passed, Ahead
  <2>3. CASE Calling(x)
    <3>1. CASE y[1] = t
      <4>1. finished[y[1]] = 0 /\ finished'[y[1]] = 0
        BY <1>7, <1>13, <2>3, <3>1
      <4> QED BY <4>1 DEF Passed
    <3>2. CASE y[1] # t
      <4>1. ~Ahead(stack'[n + 1], y)
        BY <1>5, <2>3, <3>2 DEF Ahead
      <4>2. \A i \in 1 .. n + 1 : i = n + 1 \/ i \in 1 .. n
        BY <1>1
      <4>3. 1 .. n \subseteq 1 .. n + 1
        BY <1>1
      <4> QED BY <1>1, <1>7, <2>1, <2>3, <4>1, <4>2, <4>3 DEF Passed, Ahead
    <3> QED BY <3>1, <3>2
  <2> QED BY <2>2, <2>3
\* or for the other modules.
<1>15. ASSUME NEW u \in Modules, Calling(x) /\ ~Filled(x) => u # t
       PROVE  Begun(u)' <=> Begun(u)
  <2>1. \A i \in 1 .. n : stack'[i].mod = stack[i].mod /\ stack'[i].op = stack[i].op
    BY <1>1, <1>2, <1>3, <1>4
  <2>2. CASE ~Calling(x)
    BY <1>1, <1>7, <2>1, <2>2 DEF Begun
  <2>3. CASE Calling(x)
    <3>1. ~(stack'[n + 1].mod = u /\ stack'[n + 1].op = "finish")
      BY <1>5, <1>15, <2>3
    <3>2. \A i \in 1 .. n + 1 : i = n + 1 \/ i \in 1 .. n
      BY <1>1
    <3>3. 1 .. n \subseteq 1 .. n + 1
      BY <1>1
    <3> QED BY <1>1, <1>7, <2>1, <2>3, <3>1, <3>2, <3>3 DEF Begun
  <2> QED BY <2>2, <2>3
\* When the module behind x is called to finish, x has just been passed.
<1>16. ASSUME t # None, ~Filled(x)
       PROVE  Begun(t)' <=> Passed(x)'
  <2>1. CASE Top.op = "process"
    <3>1. ~Calling(x)
      BY <1>6, <1>16, <2>1 DEF Calling
    <3>2. ~Passed(x)'
      BY <1>7, <1>11, <2>1 DEF Passed
    <3>3. ~Begun(t)
      BY <1>0, <1>7, <1>12, <1>16 DEF FinishOK
    <3>4. t \in Modules
      BY <1>0, <1>16 DEF TypeOK, FlowTypeOK
    <3>5. ~Begun(t)'
      BY <1>15, <3>1, <3>3, <3>4
    <3> QED BY <3>2, <3>5
  <2>2. CASE Top.op = "finish"
    <3>1. Calling(x)
      BY <1>0, <1>16, <2>2 DEF Calling
    <3>2. n + 1 \in 1 .. n + 1
      BY <1>1
    <3>3. Begun(t)'
      BY <1>1, <1>5, <1>16, <3>1, <3>2 DEF Begun
    <3>4. finished'[x[1]] = 1
      BY <1>7, <1>11, <2>2
    <3>5. \A i \in 1 .. n - 1 : ~Ahead(stack'[i], x)
      BY <1>2, <1>10 DEF Ahead
    <3>6. ~Ahead(stack'[n], x)
      <4>1. stack'[n].box = Top.box + 1
        BY <1>4, <1>16
      <4>2. ASSUME NEW k \in DOMAIN OutBoxes[x[1]], OutBoxes[x[1]][k] = x[2]
            PROVE  ~(stack'[n].box <= k)
        <5>1. k = Top.box
          <6>1. \A j, l \in DOMAIN OutBoxes[x[1]] : OutBoxes[x[1]][j] = OutBoxes[x[1]][l] => j = l
            BY BoxFacts
          <6> QED BY <1>3, <4>2, <6>1
        <5> QED BY <1>3, <4>1, <5>1
      <4> QED BY <4>2 DEF Ahead
    <3>7. ~Ahead(stack'[n + 1], x)
      BY <1>5, <1>9, <1>16, <3>1 DEF Ahead
    <3>8. \A i \in 1 .. n + 1 : i = n + 1 \/ i = n \/ i \in 1 .. n - 1
      BY <1>1
    <3>9. Passed(x)'
      BY <1>1, <3>1, <3>4, <3>5, <3>6, <3>7, <3>8 DEF Passed, Ahead
    <3> QED BY <3>3, <3>9
  <2> QED BY <1>6, <2>1, <2>2
<1>17. ASSUME t # None, Filled(x)
       PROVE  ~Begun(t)' /\ ~Passed(x)'
  <2>1. Calling(x) /\ t \in Modules
    BY <1>8, <1>17 DEF Calling
  <2>2. ~Begun(t)'
    BY <1>13, <1>15, <1>17, <2>1
  <2>3. stack'[n] = Top
    <3>1. Top = [mod |-> Top.mod, op |-> Top.op, box |-> Top.box]
      BY <1>1, <1>3, StackFacts DEF CallType
    <3> QED BY <1>4, <1>17, <3>1
  <2>4. n \in DOMAIN stack'
    BY <1>1
  <2>5. ~Passed(x)'
    BY <1>12, <2>3, <2>4 DEF Passed, Ahead
  <2> QED BY <2>2, <2>5
<1>18. \A k \in Modules : finished'[k] \in {0, 1}
  BY <1>7 DEF FinishOK
<1>19. phase' = "looping" => \A k \in Modules : finished'[k] = 0
  BY <1>7 DEF FinishOK
<1>20. ASSUME NEW i \in DOMAIN stack'
       PROVE  finished'[stack'[i].mod] = FinishedOf(stack'[i])
  <2>1. CASE i \in 1 .. n - 1
    <3>1. i \in DOMAIN stack /\ stack'[i] = stack[i]
      BY <1>1, <1>2, <2>1
    <3> QED BY <1>7, <3>1 DEF FinishOK
  <2>2. CASE i = n
    <3>1. stack'[n].mod = x[1] /\ stack'[n].op = Top.op /\ stack'[n].box # 0
      BY <1>3, <1>4
    <3> QED BY <1>6, <1>7, <1>11, <2>2, <3>1 DEF FinishedOf
  <2>3. CASE Calling(x) /\ i = n + 1
    BY <1>5, <1>7, <1>13, <2>3 DEF FinishedOf
  <2> QED BY <1>1, <2>1, <2>2, <2>3
<1>21. ASSUME NEW y \in Boxes, flow'.target[y] # None
       PROVE  Begun(flow.target[y])' <=> Passed(y)'
  <2>1. flow'.target[y] = flow.target[y] /\ flow.target[y] # None /\ flow.target[y] \in Modules
    BY <1>7, <1>21 DEF TypeOK, FlowTypeOK
  <2>2. PICK u \in Modules : u = flow.target[y]
    BY <2>1
  <2>3. Begun(flow.target[y])' <=> Begun(u)'
    BY <2>1, <2>2 DEF Begun
  <2>4. CASE y # x
    <3>1. Begun(u) <=> Passed(y)
      BY <1>7, <2>1, <2>2 DEF FinishOK
    <3>2. ~(Calling(x) /\ u = t)
      <4>1. flow.inbox[u] = y
        BY <2>1, <2>2 DEF TreeOK, Mutual
      <4>2. t # None => flow.inbox[t] = x
        BY <1>0 DEF TreeOK, Mutual
      <4> QED BY <1>8, <2>4, <4>1, <4>2
    <3>3. Begun(u)' <=> Begun(u)
      BY <1>15, <3>2
    <3>4. Passed(y)' <=> Passed(y)
      BY <1>14, <2>4
    <3> QED BY <2>3, <3>1, <3>3, <3>4
  <2>5. CASE y = x
    <3>1. u = t /\ t # None
      BY <1>0, <2>1, <2>2, <2>5
    <3>2. Begun(u)' <=> Passed(x)'
      BY <1>16, <1>17, <3>1
    <3> QED BY <2>3, <2>5, <3>2
  <2> QED BY <2>4, <2>5
<1>22. ASSUME phase' = "finishing" \/ Ended'
       PROVE  Begun(driving)'
  <2>1. Begun(driving)
    BY <1>7, <1>22 DEF FinishOK
  <2>2. \A i \in 1 .. n : stack'[i].mod = stack[i].mod /\ stack'[i].op = stack[i].op
    BY <1>1, <1>2, <1>3, <1>4
  <2>3. 1 .. n \subseteq DOMAIN stack'
    BY <1>1
  <2> QED BY <1>1, <1>7, <2>1, <2>2, <2>3 DEF Begun
<1> QED BY <1>18, <1>19, <1>20, <1>21, <1>22 DEF FinishOK

LEMMA FinishReturn ==
  ASSUME TypeOK, StackIdle, FinishOK, ReturnStep
  PROVE  FinishOK'
<1> DEFINE n == Len(stack)
<1>1. n \in Nat /\ n >= 1 /\ DOMAIN stack = 1 .. n /\ DOMAIN stack' = 1 .. n - 1
  <2>1. DOMAIN stack' = 1 .. Len(stack')
    BY DEF ReturnStep
  <2> QED BY <2>1, StackFacts DEF ReturnStep
<1>2. \A i \in 1 .. n - 1 : stack'[i] = stack[i]
  BY DEF ReturnStep
<1>3. Top = stack[n] /\ Top.mod \in Modules /\ Top.box = Len(OutBoxes[Top.mod]) + 1
  BY <1>1, StackFacts DEF ReturnStep, Top
<1>4. /\ flow' = flow /\ phase' = phase /\ driving' = driving /\ Busy' = Busy /\ Ended' = Ended
      /\ finished' = finished /\ Busy
  BY DEF ReturnStep, Elsewhere, setup, history, Busy, Ended, StackIdle
<1>5. finished[Top.mod] = FinishedOf(Top) /\ Top.box # 0
  <2>1. finished[stack[n].mod] = FinishedOf(stack[n])
    BY <1>1 DEF FinishOK
  <2>2. Len(OutBoxes[Top.mod]) \in Nat
    BY <1>3, FrameFlowAssumption
  <2> QED BY <1>3, <2>1, <2>2
<1> HIDE DEF n
<1>6. \A i \in 1 .. n : i = n \/ i \in 1 .. n - 1
  BY <1>1
<1>7. 1 .. n - 1 \subseteq 1 .. n
  BY <1>1
<1>8. ASSUME NEW t \in Modules
      PROVE  Begun(t)' <=> Begun(t)
  <2>1. CASE t = Top.mod /\ Top.op = "finish"
    <3>1. finished[t] = 1
      BY <1>5, <2>1 DEF FinishedOf
    <3> QED BY <1>4, <3>1 DEF Begun
  <2>2. CASE ~(t = Top.mod /\ Top.op = "finish")
    BY <1>1, <1>2, <1>3, <1>4, <1>6, <1>7, <2>2 DEF Begun
  <2> QED BY <2>1, <2>2
<1>9. ASSUME NEW x \in Boxes
      PROVE  Passed(x)' <=> Passed(x)
  <2>1. ~Ahead(Top, x)
    <3>1. SUFFICES ASSUME Ahead(Top, x) PROVE FALSE
      OBVIOUS
    <3>2. Top.mod = x[1]
      BY <3>1 DEF Ahead
    <3>3. PICK k \in DOMAIN OutBoxes[x[1]] : Top.box <= k
      BY <3>1 DEF Ahead
    <3>4. DOMAIN OutBoxes[x[1]] = 1 .. Len(OutBoxes[x[1]]) /\ Len(OutBoxes[x[1]]) \in Nat
      BY BoxFacts
    <3> QED BY <1>3, <3>2, <3>3, <3>4
  <2> QED BY <1>1, <1>2, <1>3, <1>4, <1>6, <1>7, <2>1 DEF Passed, Ahead
<1>10. ASSUME NEW x \in Boxes, flow'.target[x] # None
       PROVE  Begun(flow.target[x])' <=> Passed(x)'
  <2>1. flow.target[x] \in Modules
    BY <1>4, <1>10 DEF TypeOK, FlowTypeOK
  <2>2. PICK t \in Modules : t = flow.target[x]
    BY <2>1
  <2>3. Begun(t) <=> Passed(x)
    BY <1>4, <1>10, <2>2 DEF FinishOK
  <2>4. Begun(flow.target[x])' <=> Begun(t)'
    BY <1>4, <2>2 DEF Begun
  <2> QED BY <1>8, <1>9, <2>3, <2>4
<1>11. ASSUME phase' = "finishing" \/ Ended'
       PROVE  Begun(driving)'
  <2>1. Begun(driving)
    BY <1>4, <1>11 DEF FinishOK
  <2>2. driving \in Modules
    BY DEF TypeOK, ReturnStep, StackIdle
  <2>3. PICK t \in Modules : t = driving
    BY <2>2
  <2>4. Begun(t)'
    BY <1>8, <2>1, <2>3
  <2> QED BY <1>4, <2>3, <2>4 DEF Begun
<1>12. \A i \in DOMAIN stack' : finished'[stack'[i].mod] = FinishedOf(stack'[i])
  BY <1>1, <1>2, <1>4, <1>7 DEF FinishOK
<1> QED BY <1>4, <1>10, <1>11, <1>12 DEF FinishOK

LEMMA FinishNextStep ==
  ASSUME TypeOK, TypeOK', RunOK, TreeOK, TreeOK', StackOK, FinishOK, [Next]_vars
  PROVE  FinishOK'
<1>1. StackIdle /\ Untouched
  BY DEF RunOK
<1>2. CASE SetUpStep
  <2>1. /\ phase = "idle" /\ phase' = phase /\ Ended' = Ended /\ Busy' = Busy
        /\ stack' = stack /\ stack = <<>> /\ finished' = finished /\ driving' = driving
    BY <1>1, <1>2 DEF SetUpStep, Ended, Busy, StackIdle, history
  <2>2. CASE Busy
    <3>1. Ended /\ result # "none"
      BY <2>1, <2>2 DEF Busy, Ended
    <3>2. flow' = flow
      BY <1>1, <1>2, <3>1 DEF SetUpStep, Untouched
    <3> QED BY <2>1, <3>2 DEF FinishOK, Begun, Passed, Ahead
  <2>3. CASE ~Busy
    <3>1. ~Busy' /\ ~Ended' /\ phase' = "idle" /\ DOMAIN stack' = {}
      BY <2>1, <2>3 DEF Busy
    <3> QED BY <2>1, <3>1 DEF FinishOK
  <2> QED BY <2>2, <2>3
<1>3. ASSUME NEW count \in Counts, Execute(count)
      PROVE  FinishOK'
  <2>1. /\ \A m \in Modules : finished[m] = 0 /\ finished'[m] = 0
        /\ stack' = <<>> /\ phase' # "finishing" /\ ~Ended'
    <3>1. result = "none" /\ \A m \in Modules : finished[m] = 0
      BY <1>1, <1>3 DEF Execute, Untouched
    <3> QED BY <1>1, <1>3, <3>1 DEF Execute, StackIdle, Ended, history
  <2>2. ASSUME NEW x \in Boxes
        PROVE  ~Passed(x)'
    <3>1. x[1] \in Modules
      BY BoxFacts
    <3> QED BY <2>1, <3>1 DEF Passed
  <2>3. \A t \in Modules : ~Begun(t)'
    BY <2>1 DEF Begun
  <2>4. ASSUME NEW x \in Boxes, flow'.target[x] # None
        PROVE  ~Begun(flow.target[x])'
    <3>1. flow'.target[x] \in Modules
      BY <2>4 DEF TypeOK, FlowTypeOK
    <3> QED BY <2>1, <3>1 DEF Begun
  <2> QED BY <2>1, <2>2, <2>4 DEF FinishOK
<1>4. CASE StartStep
  <2>1. /\ flow' = flow /\ finished' = finished /\ driving' = driving
        /\ \A m \in Modules : finished[m] = 0
        /\ ~Ended' /\ phase = "looping"
    BY <1>1, <1>4 DEF StartStep, setup, history, FinishOK, StackIdle, Ended
  <2>2. driving \in Modules
    BY <2>1 DEF TypeOK
  <2>3. ASSUME NEW x \in Boxes
        PROVE  ~Passed(x)'
    <3>1. x[1] \in Modules
      BY BoxFacts
    <3> QED BY <2>1, <3>1 DEF Passed
  <2>4. ASSUME NEW x \in Boxes, flow'.target[x] # None
        PROVE  flow.target[x] \in Modules /\ flow.target[x] # driving
    <3>1. flow.target[x] \in Modules /\ flow.inbox[flow.target[x]] = x /\ flow.target[x] \in ToSet(order)
      BY <2>1, <2>4 DEF TreeOK, Mutual, TypeOK, FlowTypeOK
    <3>2. flow.inbox[driving] = None /\ x # None
      <4>1. Busy
        BY <2>1 DEF Busy
      <4> QED BY <4>1, FrameFlowAssumption DEF TreeOK
    <3> QED BY <3>1, <3>2
  <2>5. CASE phase' = "looping" /\ stack' = <<[mod |-> driving, op |-> "process", box |-> 0]>>
    <3>1. DOMAIN stack' = {1} /\ stack'[1] = [mod |-> driving, op |-> "process", box |-> 0]
      BY <2>5
    <3>2. ASSUME NEW x \in Boxes, flow'.target[x] # None
          PROVE  ~Begun(flow.target[x])'
      BY <2>1, <2>4, <3>1, <3>2 DEF Begun
    <3> QED BY <2>1, <2>2, <2>3, <2>5, <3>1, <3>2 DEF FinishOK, FinishedOf
  <2>6. CASE phase' = "finishing" /\ stack' = <<[mod |-> driving, op |-> "finish", box |-> 0]>>
    <3>1. DOMAIN stack' = {1} /\ stack'[1] = [mod |-> driving, op |-> "finish", box |-> 0]
      BY <2>6
    <3>2. ASSUME NEW x \in Boxes, flow'.target[x] # None
          PROVE  ~Begun(flow.target[x])'
      BY <2>1, <2>4, <3>1, <3>2 DEF Begun
    <3>3. Begun(driving)'
      BY <2>1, <3>1 DEF Begun
    <3> QED BY <2>1, <2>2, <2>3, <2>6, <3>1, <3>2, <3>3 DEF FinishOK, FinishedOf
  <2> QED BY <1>4, <2>5, <2>6 DEF StartStep
<1>5. ASSUME NEW m \in Modules, NEW g, NEW taken, NEW given, NEW ns, OwnStep(m, g, taken, given, ns)
      PROVE  FinishOK'
  BY <1>1, <1>5, FinishOwn
<1>6. ASSUME NEW x \in Boxes, BoxStep(x)
      PROVE  FinishOK'
  BY <1>1, <1>6, FinishBox
<1>7. CASE ReturnStep
  BY <1>1, <1>7, FinishReturn
<1>8. CASE EndStep
  <2>1. /\ flow' = flow /\ finished' = finished /\ driving' = driving /\ phase' = "idle"
        /\ stack' = <<>> /\ DOMAIN stack' = {} /\ Busy' = Ended'
        /\ Ended' => phase = "finishing" /\ stack = <<>> /\ Busy
    BY <1>8 DEF EndStep, setup, history, Busy, Ended
  <2>2. CASE ~Ended'
    BY <2>1, <2>2 DEF FinishOK
  <2>3. CASE Ended'
    <3>1. stack' = stack /\ Begun(driving) /\ Busy
      BY <2>1, <2>3 DEF FinishOK
    <3> QED BY <2>1, <3>1 DEF FinishOK, Begun, Passed, Ahead
  <2> QED BY <2>2, <2>3
<1>9. CASE WatchStep
  <2>1. /\ flow' = flow /\ finished' = finished /\ driving' = driving /\ phase' = phase
        /\ stack' = stack /\ Busy' = Busy /\ Ended' = Ended
    BY <1>9 DEF WatchStep, setup, history, Busy, Ended
  <2> QED BY <2>1 DEF FinishOK, Begun, Passed, Ahead
<1> QED BY <1>1, <1>2, <1>3, <1>4, <1>5, <1>6, <1>7, <1>8, <1>9, NextSteps

\* What holds in a tray wired as a tree.
TreeRunOK == RunOK /\ TreeOK /\ StackOK /\ FinishOK

THEOREM TreeRunAlways ==
  ASSUME WiredAsTree
  PROVE  Spec => []TreeRunOK
<1>1. Init => TreeRunOK
  BY RunInit, TreeInit, StackInit, FinishInit DEF TreeRunOK
<1>2. TypeOK /\ TypeOK' /\ TreeRunOK /\ [Next]_vars => TreeRunOK'
  <2> SUFFICES ASSUME TypeOK, TypeOK', TreeRunOK, [Next]_vars PROVE TreeRunOK'
    OBVIOUS
  <2>1. RunOK' /\ TreeOK' /\ StackOK'
    BY RunNext, TreeNext, StackNext DEF TreeRunOK
  <2>2. FinishOK'
    BY <2>1, FinishNextStep DEF TreeRunOK
  <2> QED BY <2>1, <2>2 DEF TreeRunOK
<1> QED BY <1>1, <1>2, TypeSafety, PTL DEF Spec

\* When Execute has ended every module has finished: a first one that has not
\* would be behind a module that has, which would have called it.
LEMMA AllFinished ==
  ASSUME TypeOK, TreeRunOK, Ended, NEW m \in ToSet(order)
  PROVE  finished[m] = 1
<1>1. stack = <<>> /\ DOMAIN stack = {} /\ Busy
  BY DEF TreeRunOK, RunOK, StackIdle, Ended, Busy
<1>2. PICK rank : Ranks(rank)
  BY DEF TreeRunOK, TreeOK
<1>3. ToSet(order) \subseteq Modules
  BY DEF TypeOK, ToSet
<1> DEFINE T == {rank[k] : k \in {j \in ToSet(order) : finished[j] # 1}}
<1> SUFFICES ASSUME finished[m] # 1 PROVE FALSE
  OBVIOUS
<1>4. T \in SUBSET Nat /\ T # {}
  BY <1>2, <1>3 DEF Ranks
<1>5. PICK r \in T : \A s \in T : r <= s
  BY <1>4, Pushing!NatMin
<1>6. PICK k \in ToSet(order) : finished[k] # 1 /\ rank[k] = r
  BY <1>5
<1>7. k \in Modules
  BY <1>3
<1>8. k # driving
  BY <1>1, <1>6 DEF TreeRunOK, FinishOK, Begun
<1> DEFINE x == flow.inbox[k]
<1>9. x # None
  BY <1>1, <1>8 DEF TreeRunOK, TreeOK
<1>10. x \in Boxes /\ flow.target[x] = k /\ k # None
  BY <1>7, <1>9, FrameFlowAssumption DEF TypeOK, FlowTypeOK, TreeRunOK, TreeOK, Mutual
<1> HIDE DEF x
<1>11. x[1] \in ToSet(order) /\ rank[x[1]] < rank[k]
  BY <1>2, <1>10 DEF TreeRunOK, TreeOK, Mutual, Ranks
<1>12. finished[x[1]] = 1
  <2> SUFFICES ASSUME finished[x[1]] # 1 PROVE FALSE
    OBVIOUS
  <2>1. rank[x[1]] \in T
    BY <1>11
  <2>2. rank[x[1]] \in Nat /\ rank[k] \in Nat
    BY <1>2, <1>3, <1>7, <1>11 DEF Ranks
  <2> QED BY <1>5, <1>6, <1>11, <2>1, <2>2
<1>13. Passed(x)
  BY <1>1, <1>12 DEF Passed
<1>14. Begun(k)
  BY <1>1, <1>10, <1>13 DEF TreeRunOK, FinishOK
<1> QED BY <1>1, <1>6, <1>14 DEF Begun

\* "call every module's Finish() function": once Execute has ended each module
\* of the tray has finished, and just once, in every tray wired as a tree.
THEOREM EveryModuleFinishesAlways ==
  ASSUME WiredAsTree
  PROVE  Spec => []EveryModuleFinishes
<1>1. TypeOK /\ TreeRunOK => EveryModuleFinishes
  BY AllFinished DEF EveryModuleFinishes
<1> QED BY <1>1, TypeSafety, TreeRunAlways, PTL

\* A module that has finished takes no frame and does not finish again.
THEOREM FinishIsLastAlways ==
  ASSUME WiredAsTree
  PROVE  Spec => FinishIsLast
<1> DEFINE Still == \A m \in Modules :
                     finished[m] > 0 => seen'[m] = seen[m] /\ finished'[m] = finished[m]
<1>1. TypeOK /\ TypeOK' /\ TreeRunOK /\ [Next]_vars => Still
  <2> SUFFICES ASSUME TypeOK, TypeOK', TreeRunOK, [Next]_vars PROVE Still
    OBVIOUS
  <2>1. ASSUME UNCHANGED history
        PROVE  Still
    BY <2>1 DEF history
  <2>2. ASSUME NEW m \in Modules, NEW g, NEW taken, NEW given, NEW ns,
               OwnStep(m, g, taken, given, ns)
        PROVE  Still
    <3>1. finished[m] = 0
      <4>1. stack # <<>> /\ Top.mod = m /\ Top.box = 0 /\ Len(stack) \in DOMAIN stack
        BY <2>2, StackFacts DEF OwnStep
      <4> QED BY <4>1 DEF TreeRunOK, FinishOK, FinishedOf, Top
    <3>2. \A k \in Modules : k # m => seen'[k] = seen[k]
      BY <2>2, OwnTravels
    <3>3. \A k \in Modules : k # m => finished'[k] = finished[k]
      <4>1. Top.op \in {"process", "finish"}
        BY <2>2, StackFacts DEF OwnStep, Top
      <4> QED BY <2>2, <4>1 DEF OwnStep, TypeOK
    <3> QED BY <3>1, <3>2, <3>3
  <2>3. StackIdle
    BY DEF TreeRunOK, RunOK
  <2>4. (\E count \in Counts : Execute(count)) => UNCHANGED history
    BY DEF Execute
  <2>5. (\E x \in Boxes : BoxStep(x)) => UNCHANGED history
    BY DEF BoxStep, Elsewhere
  <2> HIDE DEF Still
  <2> QED BY <2>1, <2>2, <2>3, <2>4, <2>5, NextSteps
          DEF SetUpStep, StartStep, ReturnStep, Elsewhere, EndStep, WatchStep
<1> QED BY <1>1, TypeSafety, TreeRunAlways, PTL DEF Spec, FinishIsLast

-----------------------------------------------------------------------------
(* The frames in order: what a module has handed on is what the module      *)
(* behind it has seen, then what travels between them, then what it holds   *)
(* back itself.                                                             *)

\* Concatenation by another name, which the provers do not look into.
Then(s, t) == s \o t

LEMMA ThenTypes == \A s, t \in Seq(Natives) : Then(s, t) \in Seq(Natives)
BY ConcatProperties DEF Then

LEMMA ThenAssoc ==
  \A s, t, u \in Seq(Natives) : Then(Then(s, t), u) = Then(s, Then(t, u))
BY ConcatAssociative DEF Then

LEMMA Regroup ==
  ASSUME NEW a \in Seq(Natives), NEW b \in Seq(Natives), NEW c \in Seq(Natives),
         NEW d \in Seq(Natives)
  PROVE  /\ Then(Then(a, Then(b, c)), d) = Then(a, Then(b, Then(c, d)))
         /\ Then(a, Then(Then(b, c), d)) = Then(Then(a, b), Then(c, d))
BY ThenTypes, ThenAssoc

FlowOrderOK ==
  /\ \A m \in Modules : Kind[m] # "packet" \/ finished[m] = 1 => queue[m] = <<>>
  /\ \A x \in Boxes : flow.target[x] # None /\ Kind[x[1]] \in Lossless =>
       Emitted(x[1]) = Then(seen[flow.target[x]], Then(Travelling(x), Held(x[1])))

LEMMA HeldTypes ==
  ASSUME TypeOK, NEW m \in Modules
  PROVE  Held(m) \in Seq(Natives)
<1>1. FlowTypeOK(flow) /\ queue[m] \in Seq(1 .. Len(flow.heap))
  BY DEF TypeOK
<1> QED BY <1>1, NativesOfTypes DEF Held

LEMMA EmittedTypes ==
  ASSUME TypeOK, NEW m \in Modules
  PROVE  Emitted(m) \in Seq(Natives)
<1>1. seen[m] \in Seq(Natives)
  BY DEF TypeOK
<1>2. read \in Nat /\ read \in 0 .. Len(Script)
  BY TrayAssumption DEF TypeOK
<1>3. ASSUME NEW i \in 1 .. read
      PROVE  [stop |-> Script[i], id |-> i] \in Natives
  <2>1. i \in 1 .. Len(Script) /\ i \in Nat
    BY <1>2, TrayAssumption
  <2>2. Script[i] \in STRING
    BY <2>1, TrayAssumption, ElementOfSeq
  <2> QED BY <2>1, <2>2 DEF Natives
<1>4. [i \in 1 .. read |-> [stop |-> Script[i], id |-> i]] \in Seq(Natives)
  BY <1>2, <1>3
<1> QED BY <1>1, <1>4 DEF Emitted

\* One more frame read.
LEMMA OneMoreRead ==
  ASSUME TypeOK, read < Len(Script)
  PROVE  LET n == [stop |-> Script[read + 1], id |-> read + 1]
         IN  [i \in 1 .. read + 1 |-> [stop |-> Script[i], id |-> i]] =
               [i \in 1 .. read |-> [stop |-> Script[i], id |-> i]] \o <<n>>
<1> DEFINE F(i) == [stop |-> Script[i], id |-> i]
           s == [i \in 1 .. read |-> F(i)]
           t == [i \in 1 .. read + 1 |-> F(i)]
           S == {F(i) : i \in 1 .. read + 1}
<1>1. read \in Nat
  BY TrayAssumption DEF TypeOK
<1>2. s \in Seq(S) /\ t \in Seq(S) /\ F(read + 1) \in S
  BY <1>1
<1>3. Len(s) = read /\ Len(t) = read + 1
  BY <1>1
<1>4. \A i \in 1 .. read : s[i] = F(i)
  OBVIOUS
<1>5. \A i \in 1 .. read + 1 : t[i] = F(i)
  OBVIOUS
<1> HIDE DEF s, t, S, F
<1> DEFINE u == s \o <<F(read + 1)>>
<1>6. <<F(read + 1)>> \in Seq(S) /\ Len(<<F(read + 1)>>) = 1 /\ <<F(read + 1)>>[1] = F(read + 1)
  BY <1>2
<1>7. u \in Seq(S) /\ Len(u) = read + 1
  BY <1>2, <1>3, <1>6, ConcatProperties
<1>8. \A i \in 1 .. read + 1 : u[i] = IF i <= read THEN s[i] ELSE <<F(read + 1)>>[i - read]
  <2> DEFINE v == <<F(read + 1)>>
  <2>1. v \in Seq(S) /\ Len(v) = 1
    BY <1>6
  <2> HIDE DEF v
  <2>2. \A i \in 1 .. Len(s) + Len(v) : (s \o v)[i] = IF i <= Len(s) THEN s[i] ELSE v[i - Len(s)]
    BY <1>2, <2>1, ConcatProperties
  <2> QED BY <1>3, <2>1, <2>2 DEF v
<1>9. \A i \in 1 .. read + 1 : u[i] = t[i]
  <2> SUFFICES ASSUME NEW i \in 1 .. read + 1 PROVE u[i] = t[i]
    OBVIOUS
  <2>1. CASE i <= read
    <3>1. i \in 1 .. read
      BY <1>1, <2>1
    <3>2. u[i] = s[i]
      BY <1>8, <2>1
    <3> QED BY <1>4, <1>5, <3>1, <3>2
  <2>2. CASE i = read + 1
    <3>1. i - read = 1 /\ ~(i <= read)
      BY <1>1, <2>2
    <3>2. u[i] = <<F(read + 1)>>[1]
      BY <1>8, <3>1
    <3>3. t[i] = F(read + 1)
      BY <1>5, <2>2
    <3> QED BY <1>6, <3>2, <3>3
  <2>3. i <= read \/ i = read + 1
    BY <1>1
  <2> QED BY <2>1, <2>2, <2>3
<1> HIDE DEF u
<1>10. u = t
  BY <1>2, <1>3, <1>7, <1>9, SeqEqual
<1> QED BY <1>10 DEF u, t, s, F

LEMMA EmittedOwn ==
  ASSUME TypeOK, TypeOK', NEW m \in Modules, NEW g, NEW taken, NEW given, NEW ns,
         OwnStep(m, g, taken, given, ns)
  PROVE  /\ Emitted(m)' = Emitted(m) \o given
         /\ \A k \in Modules : k # m => Emitted(k)' = Emitted(k)
<1>1. seen'[m] = seen[m] \o taken /\ taken \in Seq(Natives)
  BY OwnTravels
<1>2. \A k \in Modules : k # m => seen'[k] = seen[k]
  BY OwnTravels
<1>3. Kind[m] # "reader" => read' = read /\ given = taken
  BY DEF OwnStep
<1>4. ASSUME NEW k \in Modules, k # m
      PROVE  Emitted(k)' = Emitted(k)
  <2>1. CASE Kind[k] = "reader"
    <3>1. Kind[m] # "reader"
      BY <1>4, <2>1, TrayAssumption
    <3> QED BY <1>3, <2>1, <3>1 DEF Emitted
  <2>2. CASE Kind[k] # "reader"
    BY <1>2, <1>4, <2>2 DEF Emitted
  <2> QED BY <2>1, <2>2
<1>5. CASE Kind[m] # "reader"
  BY <1>1, <1>3, <1>4, <1>5 DEF Emitted
<1>6. CASE Kind[m] = "reader"
  <2>1. taken = <<>>
    BY <1>6 DEF OwnStep
  <2>2. CASE read' = read /\ given = taken
    <3>1. Emitted(m)' = Emitted(m)
      BY <1>6, <2>2 DEF Emitted
    <3>2. Emitted(m) \o <<>> = Emitted(m)
      BY EmittedTypes, EmptyConcat
    <3> QED BY <1>4, <2>1, <2>2, <3>1, <3>2
  <2>3. CASE ~(read' = read /\ given = taken)
    <3>1. /\ read < Len(Script) /\ read' = read + 1
          /\ given = <<[stop |-> Script[read'], id |-> read']>>
      BY <2>3 DEF OwnStep
    <3>2. [i \in 1 .. read' |-> [stop |-> Script[i], id |-> i]] =
            [i \in 1 .. read |-> [stop |-> Script[i], id |-> i]] \o given
      BY <3>1, OneMoreRead
    <3>3. Emitted(m)' = Emitted(m) \o given
      BY <1>6, <3>2 DEF Emitted
    <3> QED BY <1>4, <3>3
  <2> QED BY <2>2, <2>3
<1> QED BY <1>5, <1>6

\* What stays in an outbox while a module takes frames from it or adds some.
Stays(x, m, taken, ns, rest) ==
  /\ Travelling(x) = IF x = flow.inbox[m] THEN Then(taken, rest) ELSE rest
  /\ Travelling(x)' = IF x[1] = m /\ flow.target[x] # None THEN Then(rest, ns) ELSE rest

LEMMA OwnStays ==
  ASSUME TypeOK, TypeOK', NEW m \in Modules, NEW g, NEW taken, NEW given, NEW ns,
         OwnStep(m, g, taken, given, ns), NEW x \in Boxes
  PROVE  \E rest \in Seq(Natives) : Stays(x, m, taken, ns, rest)
<1>0. PICK rest \in Seq(Natives) : Flows(x, m, taken, ns, rest)
  BY OwnTravels
<1>1. Stays(x, m, taken, ns, rest)
  BY <1>0 DEF Flows, Stays, Then
<1> QED BY <1>1

LEMMA FlowOrderOwn ==
  ASSUME TypeOK, TypeOK', TreeRunOK, FlowOrderOK,
         NEW m \in Modules, NEW g, NEW taken, NEW given, NEW ns,
         OwnStep(m, g, taken, given, ns)
  PROVE  FlowOrderOK'
<1>1. /\ flow'.target = flow.target
      /\ taken \in Seq(Natives) /\ seen'[m] = seen[m] \o taken
  BY OwnTravels
<1>2. \A k \in Modules : k # m => seen'[k] = seen[k]
  BY OwnTravels
<1>3. Emitted(m)' = Emitted(m) \o given
  BY EmittedOwn
<1>4. \A k \in Modules : k # m => Emitted(k)' = Emitted(k)
  BY EmittedOwn
<1>5. /\ given \in Seq(Natives) /\ ns \in Seq(Natives)
      /\ \A k \in Modules : k # m => queue'[k] = queue[k]
  BY DEF OwnStep
<1>6. Top.op \in {"process", "finish"}
  BY StackFacts DEF OwnStep, Top
<1>7. finished[m] = 0
  <2>1. stack # <<>> /\ Top.mod = m /\ Top.box = 0 /\ Len(stack) \in DOMAIN stack
    BY StackFacts DEF OwnStep
  <2> QED BY <2>1 DEF TreeRunOK, FinishOK, FinishedOf, Top
<1>8. ASSUME NEW k \in Modules, k # m
      PROVE  Held(k)' = Held(k) /\ finished'[k] = finished[k]
  <2>1. FlowTypeOK(flow) /\ FlowTypeOK(flow') /\ queue[k] \in Seq(1 .. Len(flow.heap))
    BY DEF TypeOK
  <2>2. /\ Len(flow.heap) <= Len(flow'.heap)
        /\ \A r \in 1 .. Len(flow.heap) : Native(flow'.heap[r]) = Native(flow.heap[r])
    <3>1. g.heap = flow.heap
      <4>1. CASE g = flow
        BY <4>1
      <4>2. CASE g = PopFrame(flow, m)
        BY <4>2, <2>1 DEF PopFrame, FlowTypeOK
      <4> QED BY <4>1, <4>2 DEF OwnStep
    <3> QED BY <3>1 DEF OwnStep, HandedTo
  <2>3. NativesOf(flow', queue[k]) = NativesOf(flow, queue[k])
    BY <2>1, <2>2, NativesOfKept
  <2>4. finished'[k] = finished[k]
    BY <1>6, <1>8 DEF OwnStep, TypeOK
  <2> QED BY <1>5, <1>8, <2>3, <2>4 DEF Held
<1>9. ASSUME NEW k \in Modules, Kind[k] # "packet" \/ finished'[k] = 1
      PROVE  queue'[k] = <<>>
  <2>1. CASE k # m
    BY <1>5, <1>8, <1>9, <2>1 DEF FlowOrderOK
  <2>2. CASE k = m /\ Kind[m] # "packet"
    BY <2>2 DEF OwnStep, FlowOrderOK
  <2>3. CASE k = m /\ finished'[m] = 1
    <3>1. Top.op = "finish"
      BY <1>6, <1>7, <2>3 DEF OwnStep
    <3> QED BY <2>3, <3>1 DEF OwnStep
  <2> QED BY <1>9, <2>1, <2>2, <2>3
<1>10. ASSUME NEW x \in Boxes, flow'.target[x] # None, Kind[x[1]] \in Lossless
       PROVE  Emitted(x[1])' = Then(seen'[flow'.target[x]], Then(Travelling(x)', Held(x[1])'))
  <2>1. PICK t \in Modules : t = flow.target[x]
    BY <1>1, <1>10 DEF TypeOK, FlowTypeOK
  <2>2. flow.inbox[t] = x /\ t # x[1] /\ t # None
    <3>1. t # None /\ flow.inbox[t] = x
      BY <1>1, <1>10, <2>1 DEF TreeRunOK, TreeOK, Mutual
    <3>2. PICK rank : Ranks(rank)
      BY DEF TreeRunOK, TreeOK
    <3>3. rank[x[1]] < rank[t] /\ rank[t] \in Nat
      BY <2>1, <3>1, <3>2 DEF Ranks
    <3> QED BY <3>1, <3>3
  <2>3. x = flow.inbox[m] <=> t = m
    <3>1. x # None
      BY FrameFlowAssumption
    <3> QED BY <2>1, <2>2, <3>1 DEF TreeRunOK, TreeOK, Mutual
  <2>4. Emitted(x[1]) = Then(seen[t], Then(Travelling(x), Held(x[1])))
    BY <2>1, <2>2, <1>10 DEF FlowOrderOK
  <2>0. PICK rest \in Seq(Natives) : Stays(x, m, taken, ns, rest)
    BY OwnStays
  <2>5. /\ Travelling(x) = IF x = flow.inbox[m] THEN Then(taken, rest) ELSE rest
        /\ Travelling(x)' = IF x[1] = m /\ flow.target[x] # None THEN Then(rest, ns) ELSE rest
    BY <2>0 DEF Stays
  <2>6. x[1] \in Modules
    BY BoxFacts
  <2>7. seen[t] \in Seq(Natives) /\ Held(x[1]) \in Seq(Natives) /\ Held(x[1])' \in Seq(Natives)
    <3>1. PICK k \in Modules : k = x[1]
      BY <2>6
    <3>2. Held(k)' \in Seq(Natives) /\ Held(k) \in Seq(Natives)
      <4>1. FlowTypeOK(flow') /\ queue'[k] \in Seq(1 .. Len(flow'.heap))
        BY DEF TypeOK
      <4> QED BY <4>1, NativesOfTypes, HeldTypes DEF Held
    <3> QED BY <3>1, <3>2 DEF TypeOK
  <2>8. Emitted(x[1])' = Then(seen'[t], Then(Travelling(x)', Held(x[1])'))
    <3> PICK a \in Seq(Natives) : a = seen[t]
      BY <2>7
    <3> PICK h \in Seq(Natives) : h = Held(x[1])
      BY <2>7
    <3> PICK hh \in Seq(Natives) : hh = Held(x[1])'
      BY <2>7
    <3>1. CASE x[1] = m
      <4>1. Travelling(x) = rest /\ Travelling(x)' = Then(rest, ns) /\ seen'[t] = a
        BY <1>2, <2>1, <2>2, <2>3, <2>5, <3>1
      <4>2. Then(h, given) = Then(ns, hh)
        <5>1. Held(m) \o given = ns \o Held(m)'
          BY <1>10, <3>1 DEF OwnStep, FlowOrderOK
        <5> QED BY <3>1, <5>1 DEF Then
      <4>3. Emitted(x[1])' = Then(Then(a, Then(rest, h)), given)
        <5>1. Emitted(x[1]) = Then(a, Then(rest, h))
          BY <2>4, <4>1
        <5>2. Emitted(m)' = Then(Emitted(m), given)
          BY <1>3 DEF Then
        <5> QED BY <3>1, <5>1, <5>2
      <4>4. Then(Then(a, Then(rest, h)), given) = Then(a, Then(rest, Then(h, given)))
        <5>1. given \in Seq(Natives)
          BY <1>5
        <5> QED BY <5>1, Regroup
      <4>5. Then(rest, Then(ns, hh)) = Then(Then(rest, ns), hh)
        BY <1>5, ThenAssoc
      <4> QED BY <4>1, <4>2, <4>3, <4>4, <4>5
    <3>2. CASE x[1] # m /\ t = m
      <4>1. Travelling(x) = Then(taken, rest) /\ Travelling(x)' = rest
        BY <2>3, <2>5, <3>2
      <4>2. Emitted(x[1])' = Emitted(x[1]) /\ Held(x[1])' = Held(x[1])
        BY <1>4, <1>8, <2>6, <3>2
      <4>3. Then(a, Then(Then(taken, rest), h)) = Then(Then(a, taken), Then(rest, h))
        BY <1>1, Regroup
      <4>4. seen'[t] = Then(a, taken)
        BY <1>1, <3>2 DEF Then
      <4> QED BY <2>4, <4>1, <4>2, <4>3, <4>4
    <3>3. CASE x[1] # m /\ t # m
      <4>1. Travelling(x) = rest /\ Travelling(x)' = rest /\ seen'[t] = seen[t]
        BY <1>2, <2>3, <2>5, <3>3
      <4>2. Emitted(x[1])' = Emitted(x[1]) /\ Held(x[1])' = Held(x[1])
        BY <1>4, <1>8, <2>6, <3>3
      <4> QED BY <2>4, <4>1, <4>2
    <3> QED BY <3>1, <3>2, <3>3
  <2> QED BY <1>1, <2>1, <2>8
<1> QED BY <1>9, <1>10 DEF FlowOrderOK

LEMMA FlowOrderInit == Init => FlowOrderOK
<1> SUFFICES ASSUME Init PROVE FlowOrderOK
  OBVIOUS
<1>1. \A x \in Boxes : flow.target[x] = None
  BY DEF Init, NoFlow
<1>2. \A m \in Modules : queue[m] = <<>>
  BY DEF Init
<1> QED BY <1>1, <1>2 DEF FlowOrderOK

\* Nothing has been read, taken or pushed, or none of that changes.
LEMMA FlowOrderSame ==
  ASSUME TypeOK, FlowOrderOK, flow'.target = flow.target, flow'.fifo = flow.fifo,
         flow'.heap = flow.heap, queue' = queue, read' = read, seen' = seen, finished' = finished
  PROVE  FlowOrderOK'
<1>1. ASSUME NEW x \in Boxes, flow'.target[x] # None, Kind[x[1]] \in Lossless
      PROVE  Emitted(x[1])' = Then(seen'[flow'.target[x]], Then(Travelling(x)', Held(x[1])'))
  <2>1. Emitted(x[1]) = Then(seen[flow.target[x]], Then(Travelling(x), Held(x[1])))
    BY <1>1 DEF FlowOrderOK
  <2>2. Travelling(x)' = Travelling(x) /\ Held(x[1])' = Held(x[1])
    BY DEF Travelling, Held, NativesOf
  <2>3. Emitted(x[1])' = Emitted(x[1])
    BY DEF Emitted
  <2> QED BY <2>1, <2>2, <2>3
<1> QED BY <1>1 DEF FlowOrderOK

LEMMA FlowOrderUntouched ==
  ASSUME TypeOK, TypeOK', Untouched, ~execute_called,
         flow'.fifo = flow.fifo, queue' = queue, read' = read, seen' = seen, finished' = finished
  PROVE  FlowOrderOK'
<1>1. \A m \in Modules : queue'[m] = <<>> /\ seen'[m] = <<>>
  BY DEF Untouched
<1>2. \A x \in Boxes : flow'.fifo[x] = <<>>
  BY DEF Untouched
<1>3. read' = 0
  BY DEF Untouched
<1>4. ASSUME NEW x \in Boxes, flow'.target[x] # None
      PROVE  Emitted(x[1])' = Then(seen'[flow'.target[x]], Then(Travelling(x)', Held(x[1])'))
  <2>1. PICK k \in Modules : k = x[1]
    BY BoxFacts
  <2>2. Emitted(k)' = <<>>
    BY <1>1, <1>3, <2>1 DEF Emitted
  <2>3. Held(k)' = <<>>
    BY <1>1, NativesOfNone DEF Held
  <2>4. Travelling(x)' = <<>>
    BY <1>2, NativesOfNone DEF Travelling
  <2>5. seen'[flow'.target[x]] = <<>>
    BY <1>1, <1>4 DEF TypeOK, FlowTypeOK
  <2>6. Then(<<>>, Then(<<>>, <<>>)) = <<>>
    BY DEF Then
  <2> QED BY <2>1, <2>2, <2>3, <2>4, <2>5, <2>6
<1> QED BY <1>1, <1>4 DEF FlowOrderOK

LEMMA FlowOrderNext ==
  ASSUME TypeOK, TypeOK', TreeRunOK, FlowOrderOK, [Next]_vars
  PROVE  FlowOrderOK'
<1>1. StackIdle /\ Untouched
  BY DEF TreeRunOK, RunOK
<1>2. CASE SetUpStep
  <2>1. CASE flow' = flow
    BY <1>2, <2>1, FlowOrderSame DEF SetUpStep, history
  <2>2. CASE flow' # flow
    BY <1>1, <1>2, <2>2, FlowOrderUntouched DEF SetUpStep, history
  <2> QED BY <2>1, <2>2
<1>3. ASSUME NEW count \in Counts, Execute(count)
      PROVE  FlowOrderOK'
  <2>1. flow = [target |-> flow.target, inbox |-> flow.inbox, fifo |-> flow.fifo,
                mixer |-> flow.mixer, heap |-> flow.heap]
    BY DEF TypeOK, FlowTypeOK
  <2>2. flow'.fifo = flow.fifo
    BY <1>3, <2>1 DEF Execute, Connected, InALine
  <2> QED BY <1>1, <1>3, <2>2, FlowOrderUntouched DEF Execute, history
<1>4. ASSUME NEW m \in Modules, NEW g, NEW taken, NEW given, NEW ns, OwnStep(m, g, taken, given, ns)
      PROVE  FlowOrderOK'
  BY <1>4, FlowOrderOwn
<1>5. ASSUME NEW x \in Boxes, BoxStep(x)
      PROVE  FlowOrderOK'
  BY <1>5, FlowOrderSame DEF BoxStep, Elsewhere, history
<1>6. CASE StartStep
  BY <1>6, FlowOrderSame DEF StartStep, history
<1>7. CASE ReturnStep
  BY <1>7, FlowOrderSame DEF ReturnStep, Elsewhere, history
<1>8. CASE EndStep
  BY <1>8, FlowOrderSame DEF EndStep, history
<1>9. CASE WatchStep
  BY <1>9, FlowOrderSame DEF WatchStep, history
<1> QED BY <1>1, <1>2, <1>3, <1>4, <1>5, <1>6, <1>7, <1>8, <1>9, NextSteps

\* Between a module and the next one frames are neither lost, nor doubled, nor
\* overtaken.
THEOREM FlowOrderAlways ==
  ASSUME WiredAsTree
  PROVE  Spec => []FlowOrderOK
<1>1. Init => FlowOrderOK
  BY FlowOrderInit
<1>2. TypeOK /\ TypeOK' /\ TreeRunOK /\ FlowOrderOK /\ [Next]_vars => FlowOrderOK'
  BY FlowOrderNext
<1> QED BY <1>1, <1>2, TypeSafety, TreeRunAlways, PTL DEF Spec

\* A sequence is a prefix of what it begins.
LEMMA ThenPrefix ==
  ASSUME NEW s \in Seq(Natives), NEW t \in Seq(Natives)
  PROVE  IsPrefix(s, Then(s, t))
<1>1. PICK u \in Seq(Natives) : u = Then(s, t)
  BY ThenTypes
<1>2. Len(u) = Len(s) + Len(t) /\ Len(s) \in Nat /\ Len(t) \in Nat
  BY <1>1, ConcatProperties DEF Then
<1>3. \A i \in 1 .. Len(s) : u[i] = s[i]
  BY <1>1, <1>2, ConcatProperties DEF Then
<1>4. SubSeq(u, 1, Len(s)) = SubSeq(s, 1, Len(s))
  BY <1>2, <1>3
<1> QED BY <1>1, <1>2, <1>4 DEF IsPrefix

\* Every module of a tray wired as a tree sees the frames the module before it
\* handed on in the same order, none twice and none left out, also through a
\* packet module that holds frames back and on every branch behind a fork, and
\* has seen all of them when Execute has ended.
THEOREM FramesFlowInOrderAlways ==
  ASSUME WiredAsTree
  PROVE  Spec => []FramesFlowInOrder
<1>1. TypeOK /\ TreeRunOK /\ FlowOrderOK => FramesFlowInOrder
  <2> SUFFICES ASSUME TypeOK, TreeRunOK, FlowOrderOK, NEW e \in Neighbours
               PROVE  /\ IsPrefix(seen[e[2]], Emitted(e[1]))
                      /\ Ended => seen[e[2]] = Emitted(e[1])
    BY DEF FramesFlowInOrder
  <2>1. /\ e[1] \in Modules /\ e[2] \in Modules /\ flow.inbox[e[2]] # None
        /\ flow.inbox[e[2]][1] = e[1] /\ Kind[e[1]] \in Lossless
    BY DEF Neighbours
  <2> DEFINE x == flow.inbox[e[2]]
  <2>2. x \in Boxes /\ x[1] = e[1] /\ flow.target[x] = e[2] /\ e[2] # None
    <3>1. x \in Boxes
      BY <2>1 DEF TypeOK, FlowTypeOK
    <3>2. flow.target[x] = e[2]
      BY <2>1 DEF TreeRunOK, TreeOK, Mutual
    <3> QED BY <2>1, <3>1, <3>2, FrameFlowAssumption
  <2> HIDE DEF x
  <2>3. Emitted(e[1]) = Then(seen[e[2]], Then(Travelling(x), Held(e[1])))
    BY <2>1, <2>2 DEF FlowOrderOK
  <2>4. seen[e[2]] \in Seq(Natives) /\ Travelling(x) \in Seq(Natives) /\ Held(e[1]) \in Seq(Natives)
    BY <2>1, <2>2, TravellingTypes, HeldTypes DEF TypeOK
  <2>5. IsPrefix(seen[e[2]], Emitted(e[1]))
    <3>1. PICK t \in Seq(Natives) : t = Then(Travelling(x), Held(e[1]))
      BY <2>4, ThenTypes
    <3> QED BY <2>3, <2>4, <3>1, ThenPrefix
  <2>6. ASSUME Ended
        PROVE  seen[e[2]] = Emitted(e[1])
    <3>1. flow.fifo[x] = <<>>
      BY <2>2, <2>6 DEF TreeRunOK, RunOK, FifosOK
    <3>2. e[1] \in ToSet(order)
      BY <2>2 DEF TreeRunOK, TreeOK, Mutual
    <3>3. queue[e[1]] = <<>>
      BY <2>1, <2>6, <3>2, AllFinished DEF FlowOrderOK
    <3>4. Travelling(x) = <<>> /\ Held(e[1]) = <<>>
      BY <3>1, <3>3, NativesOfNone DEF Travelling, Held
    <3>5. Then(<<>>, <<>>) = <<>>
      BY DEF Then
    <3>6. Then(seen[e[2]], <<>>) = seen[e[2]]
      BY <2>4, EmptyConcat DEF Then
    <3> QED BY <2>3, <3>4, <3>5, <3>6
  <2> QED BY <2>5, <2>6
<1> QED BY <1>1, TypeSafety, TreeRunAlways, FlowOrderAlways, PTL

-----------------------------------------------------------------------------
(* What is mixed into the frames that wait, and what each outbox's mixer      *)
(* will mix into the next one.                                               *)

\* Two outboxes share a frame only as copies: more than one outbox is a fork's.
OnlyForksBranch == \A m \in Modules : Kind[m] # "fork" => Len(OutBoxes[m]) <= 1

\* What the modules behind the outboxes have taken.
PastOf(target, taken) ==
  [x \in Boxes |-> IF target[x] = None THEN <<>> ELSE taken[target[x]]]

\* A frame held back is neither in an outbox nor held back a second time.
Apart(fl, qs) ==
  /\ \A m, n \in Modules : \A i \in DOMAIN qs[m], j \in DOMAIN qs[n] :
       qs[m][i] = qs[n][j] => m = n /\ i = j
  /\ \A m \in Modules : \A i \in DOMAIN qs[m] : qs[m][i] \notin Refs(fl)

MixOK == /\ FlowMixed(flow, PastOf(flow.target, seen))
         /\ Apart(flow, queue)
         /\ ~execute_called => \A x \in Boxes : flow.mixer[x] = <<>>

\* Nothing anywhere.
LEMMA EmptyMixed ==
  ASSUME NEW fl, FlowTypeOK(fl), NEW past \in [Boxes -> Seq(Natives)],
         \A x \in Boxes : fl.fifo[x] = <<>> /\ fl.mixer[x] = <<>> /\ past[x] = <<>>
  PROVE  FlowMixed(fl, past)
<1>1. ASSUME NEW x \in Boxes
      PROVE  BoxMixed(fl, past[x], x)
  <2>1. fl.fifo[x] = <<>> /\ fl.mixer[x] = <<>> /\ past[x] = <<>> /\ Len(fl.fifo[x]) = 0
    OBVIOUS
  <2>2. past[x] \o Foremost(fl, x, 0) = <<>>
    <3>1. Foremost(fl, x, 0) = <<>>
      BY DEF Foremost
    <3> QED BY <2>1, <3>1
  <2>3. Known(fl, past[x], x, Len(fl.fifo[x])) = <<>>
    BY <2>1, <2>2, ParentsAfterNone DEF Known
  <2>4. \A k \in DOMAIN fl.fifo[x] : FALSE
    BY <2>1
  <2> QED BY <2>1, <2>3, <2>4 DEF BoxMixed
<1>2. Once(fl)
  BY DEF Once
<1> QED BY <1>1, <1>2 DEF FlowMixed

LEMMA NothingApart ==
  ASSUME NEW fl, NEW qs, \A m \in Modules : qs[m] = <<>>
  PROVE  Apart(fl, qs)
BY DEF Apart

\* Module m holds back other frames: some of those it held and some that were
\* in the outboxes; the outboxes get new ones and some that it held.
Exchange(fl, g, qs, rs, m) ==
  /\ \A n \in Modules : n # m => rs[n] = qs[n]
  /\ \A i, j \in DOMAIN rs[m] : rs[m][i] = rs[m][j] => i = j
  /\ \A i \in DOMAIN rs[m] :
       /\ rs[m][i] \notin Refs(g)
       /\ rs[m][i] \in Refs(fl) \/ \E j \in DOMAIN qs[m] : rs[m][i] = qs[m][j]
  /\ \A r \in Refs(g) : \/ r \in Refs(fl)
                         \/ r > Len(fl.heap)
                         \/ \E j \in DOMAIN qs[m] : r = qs[m][j]

LEMMA ExchangeApart ==
  ASSUME NEW fl, NEW g, NEW qs, NEW rs, NEW m \in Modules, Apart(fl, qs),
         \A n \in Modules : \A i \in DOMAIN qs[n] : qs[n][i] \in 1 .. Len(fl.heap),
         Len(fl.heap) \in Nat,
         Exchange(fl, g, qs, rs, m)
  PROVE  Apart(g, rs)
<1>1. ASSUME NEW n \in Modules, n # m, NEW i \in DOMAIN rs[m], NEW j \in DOMAIN qs[n], rs[m][i] = qs[n][j]
      PROVE  FALSE
  BY <1>1 DEF Apart, Exchange
<1>2. ASSUME NEW k \in Modules, NEW n \in Modules, NEW i \in DOMAIN rs[k], NEW j \in DOMAIN rs[n],
             rs[k][i] = rs[n][j]
      PROVE  k = n /\ i = j
  <2>1. CASE k = m /\ n = m
    BY <1>2, <2>1 DEF Exchange
  <2>2. CASE k = m /\ n # m
    BY <1>1, <1>2, <2>2 DEF Exchange
  <2>3. CASE k # m /\ n = m
    BY <1>1, <1>2, <2>3 DEF Exchange
  <2>4. CASE k # m /\ n # m
    BY <1>2, <2>4 DEF Apart, Exchange
  <2> QED BY <2>1, <2>2, <2>3, <2>4
<1>3. ASSUME NEW n \in Modules, NEW i \in DOMAIN rs[n]
      PROVE  rs[n][i] \notin Refs(g)
  <2>1. CASE n = m
    BY <2>1 DEF Exchange
  <2>2. CASE n # m
    <3>1. i \in DOMAIN qs[n] /\ rs[n][i] = qs[n][i]
      BY <2>2 DEF Exchange
    <3>2. qs[n][i] \in 1 .. Len(fl.heap) /\ qs[n][i] \notin Refs(fl)
      BY <3>1 DEF Apart
    <3>3. \A j \in DOMAIN qs[m] : qs[n][i] # qs[m][j]
      BY <2>2, <3>1 DEF Apart
    <3>4. ~(qs[n][i] > Len(fl.heap))
      BY <3>2
    <3> QED BY <3>1, <3>2, <3>3, <3>4 DEF Exchange
  <2> QED BY <2>1, <2>2
<1> QED BY <1>2, <1>3 DEF Apart

LEMMA MixTypes ==
  ASSUME TypeOK, MixOK, NEW m \in Modules
  PROVE  /\ FlowMixed(flow, PastOf(flow.target, seen)) /\ Apart(flow, queue)
         /\ FlowTypeOK(flow) /\ Len(flow.heap) \in Nat
         /\ queue[m] \in Seq(1 .. Len(flow.heap))
         /\ \A n \in Modules : \A i \in DOMAIN queue[n] : queue[n][i] \in 1 .. Len(flow.heap)
         /\ \A i \in DOMAIN queue[m] : queue[m][i] \notin Refs(flow)
         /\ \A i, j \in DOMAIN queue[m] : queue[m][i] = queue[m][j] => i = j
<1>1. FlowTypeOK(flow) /\ Len(flow.heap) \in Nat
  BY DEF TypeOK, FlowTypeOK
<1>2. \A n \in Modules : queue[n] \in Seq(1 .. Len(flow.heap))
  BY DEF TypeOK
<1>3. ASSUME NEW n \in Modules, NEW i \in DOMAIN queue[n]
      PROVE  queue[n][i] \in 1 .. Len(flow.heap)
  <2>1. queue[n] \in Seq(1 .. Len(flow.heap))
    BY <1>2
  <2> QED BY <2>1
<1> QED BY <1>1, <1>2, <1>3 DEF MixOK, Apart

\* What a module takes becomes part of the past of its inbox.
LEMMA TakenMixes ==
  ASSUME TypeOK, TreeRunOK, MixOK, NEW m \in Modules, Waiting(flow, m) # <<>>
  PROVE  LET g == PopFrame(flow, m)
             ref == PeekFrame(flow, m)
             after == [seen EXCEPT ![m] = Append(@, Native(flow.heap[ref]))]
         IN  /\ FlowMixed(g, PastOf(flow.target, after))
             /\ Refs(g) \subseteq Refs(flow)
             /\ ref \in Refs(flow) /\ ref \notin Refs(g)
             /\ g.heap = flow.heap /\ ref \in 1 .. Len(flow.heap)
<1> DEFINE g == PopFrame(flow, m)
           ref == PeekFrame(flow, m)
           n == Native(flow.heap[ref])
           after == [seen EXCEPT ![m] = Append(@, n)]
           past == PastOf(flow.target, seen)
           x == flow.inbox[m]
<1>0. FlowMixed(flow, past) /\ FlowTypeOK(flow) /\ seen \in [Modules -> Seq(Natives)] /\ Mutual
  BY DEF MixOK, TypeOK, TreeRunOK, TreeOK
<1>1. /\ FlowMixed(g, [past EXCEPT ![x] = Append(@, n)])
      /\ Refs(g) \subseteq Refs(flow)
      /\ ref \in Refs(flow) /\ ref \notin Refs(g)
  <2> HIDE DEF past
  <2> QED BY <1>0, PopMixes
<1>2. x \in Boxes /\ g.heap = flow.heap /\ ref \in 1 .. Len(flow.heap)
  BY <1>0, PopFrameEffect
<1>3. x # None /\ flow.target[x] = m /\ m # None
  BY <1>0, <1>2, FrameFlowAssumption DEF Mutual
<1> HIDE DEF n
<1>4. ASSUME NEW y \in Boxes
      PROVE  PastOf(flow.target, after)[y] = [past EXCEPT ![x] = Append(@, n)][y]
  <2>1. PastOf(flow.target, after)[y] =
          IF flow.target[y] = None THEN <<>> ELSE after[flow.target[y]]
    BY DEF PastOf
  <2>2. past[y] = IF flow.target[y] = None THEN <<>> ELSE seen[flow.target[y]]
    BY DEF PastOf
  <2>3. [past EXCEPT ![x] = Append(@, n)][y] = IF y = x THEN Append(past[x], n) ELSE past[y]
    BY <1>2 DEF PastOf
  <2>4. flow.target[y] \in Modules \cup {None}
    BY <1>0 DEF FlowTypeOK
  <2> HIDE DEF past
  <2>5. CASE y = x
    <3>1. after[m] = Append(seen[m], n)
      BY <1>0
    <3> HIDE DEF after
    <3> QED BY <1>3, <2>1, <2>2, <2>3, <2>5, <3>1
  <2>6. CASE y # x
    <3>1. flow.target[y] # m
      BY <1>0, <1>3, <2>6 DEF Mutual
    <3>2. flow.target[y] # None => after[flow.target[y]] = seen[flow.target[y]]
      BY <1>0, <2>4, <3>1
    <3> HIDE DEF after
    <3> QED BY <2>1, <2>2, <2>3, <2>6, <3>2
  <2> QED BY <2>5, <2>6
<1>5. PastOf(flow.target, after) = [past EXCEPT ![x] = Append(@, n)]
  <2>1. DOMAIN [past EXCEPT ![x] = Append(@, n)] = Boxes
    BY DEF PastOf
  <2>2. [past EXCEPT ![x] = Append(@, n)] = [y \in Boxes |-> [past EXCEPT ![x] = Append(@, n)][y]]
    BY <2>1
  <2>3. PastOf(flow.target, after) = [y \in Boxes |-> PastOf(flow.target, after)[y]]
    BY DEF PastOf
  <2> HIDE DEF past, after
  <2> QED BY <1>4, <2>2, <2>3
<1> QED BY <1>1, <1>2, <1>5 DEF n

\* The outboxes and what is held back after a step of a module.
MixKept == /\ FlowMixed(flow', PastOf(flow.target, seen'))
           /\ Apart(flow', queue')

LEMMA NothingMixes ==
  ASSUME TypeOK, MixOK, NEW m \in Modules, RequestSuspension(m) \/ NothingToDo(m)
  PROVE  MixKept
<1>1. flow' = flow /\ queue' = queue /\ seen' = seen
  BY DEF RequestSuspension, NothingToDo
<1> QED BY <1>1 DEF MixKept, MixOK

LEMMA ReadMixes ==
  ASSUME TypeOK, MixOK, NEW m \in Modules, ReadFrame(m)
  PROVE  MixKept
<1> DEFINE frame == [stop |-> Script[read'], id |-> read', mixed |-> {}]
           x == <<m, "OutBox">>
           past == PastOf(flow.target, seen)
           new == Len(flow.heap) + 1
<1>1. read < Len(Script) /\ read' = read + 1 /\ seen' = seen /\ queue' = queue /\ Kind[m] = "reader"
  BY DEF ReadFrame, Processing
<1>2. FrameTypeOK(frame)
  <2>1. read' \in 1 .. Len(Script) /\ read' \in Nat
    BY <1>1, TrayAssumption DEF TypeOK
  <2>2. Script[read'] \in STRING
    BY <2>1, TrayAssumption, ElementOfSeq
  <2> QED BY <2>1, <2>2 DEF FrameTypeOK, Native, Natives
<1>3. x \in Boxes
  BY <1>1, TrayAssumption DEF Boxes, ToSet
<1>4. flow' = PushFrame(NewFrame(flow, frame), x, new)
  BY DEF ReadFrame
<1>5. FlowMixed(flow, past) /\ Apart(flow, queue) /\ Len(flow.heap) \in Nat
  BY MixTypes
<1> HIDE DEF frame, x, past
<1>6. FlowMixed(flow', past) /\ Refs(flow') \subseteq Refs(flow) \cup {new}
  BY <1>2, <1>3, <1>4, <1>5, CopyMixes
<1>7. \A r \in Refs(flow') : r \in Refs(flow) \/ r > Len(flow.heap)
  BY <1>5, <1>6
<1>8. \A i \in DOMAIN queue[m] : queue[m][i] \notin Refs(flow')
  <2> TAKE i \in DOMAIN queue[m]
  <2>1. queue[m][i] \in 1 .. Len(flow.heap) /\ queue[m][i] \notin Refs(flow)
    BY MixTypes
  <2> QED BY <1>5, <1>7, <2>1
<1>9. Apart(flow', queue)
  <2>1. \A n \in Modules : \A i \in DOMAIN queue[n] : queue[n][i] \in 1 .. Len(flow.heap)
    BY MixTypes
  <2>2. \A i, j \in DOMAIN queue[m] : queue[m][i] = queue[m][j] => i = j
    BY MixTypes
  <2>3. Exchange(flow, flow', queue, queue, m)
    BY <1>7, <1>8, <2>2 DEF Exchange
  <2> QED BY <1>5, <2>1, <2>3, ExchangeApart
<1> QED BY <1>1, <1>6, <1>9 DEF MixKept, past

\* A module takes a frame and holds back some of what it held or the one taken;
\* the outboxes become g, with others that it held or with new ones in them.
LEMMA TakenApart ==
  ASSUME TypeOK, TreeRunOK, MixOK, NEW m \in Modules, Waiting(flow, m) # <<>>, NEW g,
         NEW held, \A n \in Modules : n # m => held[n] = queue[n],
         \A i, j \in DOMAIN held[m] : held[m][i] = held[m][j] => i = j,
         \A i \in DOMAIN held[m] :
           /\ held[m][i] \notin Refs(g)
           /\ held[m][i] = PeekFrame(flow, m) \/ \E j \in DOMAIN queue[m] : held[m][i] = queue[m][j],
         \A r \in Refs(g) : \/ r \in Refs(flow)
                            \/ r > Len(flow.heap)
                            \/ \E j \in DOMAIN queue[m] : r = queue[m][j]
  PROVE  Apart(g, held)
<1>1. PeekFrame(flow, m) \in Refs(flow)
  BY TakenMixes
<1>2. /\ Apart(flow, queue) /\ Len(flow.heap) \in Nat
      /\ \A n \in Modules : \A i \in DOMAIN queue[n] : queue[n][i] \in 1 .. Len(flow.heap)
  BY MixTypes
<1>3. Exchange(flow, g, queue, held, m)
  BY <1>1 DEF Exchange
<1> QED BY <1>2, <1>3, ExchangeApart

LEMMA DropMixes ==
  ASSUME TypeOK, TreeRunOK, MixOK, NEW m \in Modules, Drop(m)
  PROVE  MixKept
<1>1. /\ Waiting(flow, m) # <<>>
      /\ flow' = PopFrame(flow, m)
      /\ seen' = [seen EXCEPT ![m] = Append(@, Native(flow.heap[PeekFrame(flow, m)]))]
      /\ queue' = queue
  BY DEF Drop, Taking
<1>2. FlowMixed(flow', PastOf(flow.target, seen')) /\ Refs(flow') \subseteq Refs(flow)
  BY <1>1, TakenMixes
<1>3. /\ \A i, j \in DOMAIN queue[m] : queue[m][i] = queue[m][j] => i = j
      /\ \A i \in DOMAIN queue[m] : queue[m][i] \notin Refs(flow)
  BY MixTypes
<1>4. Apart(flow', queue)
  BY <1>1, <1>2, <1>3, TakenApart
<1> QED BY <1>1, <1>2, <1>4 DEF MixKept

LEMMA PassOnMixes ==
  ASSUME TypeOK, TreeRunOK, MixOK, OnlyForksBranch, NEW m \in Modules, PassOn(m)
  PROVE  MixKept
<1> DEFINE g == PopFrame(flow, m)
           ref == PeekFrame(flow, m)
<1>1. /\ Waiting(flow, m) # <<>>
      /\ flow' = PushToAll(g, m, ref)
      /\ seen' = [seen EXCEPT ![m] = Append(@, Native(flow.heap[ref]))]
      /\ queue' = queue
      /\ Len(OutBoxes[m]) <= 1
  BY DEF PassOn, Processing, Taking, OnlyForksBranch
<1>2. /\ FlowMixed(g, PastOf(flow.target, seen')) /\ Refs(g) \subseteq Refs(flow)
      /\ ref \in Refs(flow) /\ ref \notin Refs(g) /\ ref \in 1 .. Len(g.heap)
  BY <1>1, TakenMixes
<1>3. /\ \A i, j \in DOMAIN queue[m] : queue[m][i] = queue[m][j] => i = j
      /\ \A i \in DOMAIN queue[m] : queue[m][i] \notin Refs(flow)
  BY MixTypes
<1> HIDE DEF g
<1>4. /\ FlowMixed(flow', PastOf(flow.target, seen'))
      /\ Refs(flow') \subseteq Refs(g) \cup {ref}
  <2> PICK p : p = PastOf(flow.target, seen')
    OBVIOUS
  <2> HIDE DEF ref
  <2>1. FlowMixed(PushToAll(g, m, ref), p) /\ Refs(PushToAll(g, m, ref)) \subseteq Refs(g) \cup {ref}
    BY <1>1, <1>2, PushToAllMixes
  <2> QED BY <1>1, <2>1
<1>5. Refs(flow') \subseteq Refs(flow)
  BY <1>2, <1>4
<1>6. Apart(flow', queue)
  BY <1>1, <1>3, <1>5, TakenApart
<1> QED BY <1>1, <1>4, <1>6 DEF MixKept

LEMMA ForkMixes ==
  ASSUME TypeOK, TreeRunOK, MixOK, NEW m \in Modules, Copy(m)
  PROVE  MixKept
<1> DEFINE g == PopFrame(flow, m)
           ref == PeekFrame(flow, m)
<1>1. /\ Waiting(flow, m) # <<>>
      /\ flow' = PushCopies(g, m, ref)
      /\ seen' = [seen EXCEPT ![m] = Append(@, Native(flow.heap[ref]))]
      /\ queue' = queue
  BY DEF Copy, Taking
<1>2. /\ FlowMixed(g, PastOf(flow.target, seen')) /\ Refs(g) \subseteq Refs(flow)
      /\ ref \in 1 .. Len(g.heap) /\ g.heap = flow.heap
  BY <1>1, TakenMixes
<1>3. /\ Len(flow.heap) \in Nat
      /\ \A i, j \in DOMAIN queue[m] : queue[m][i] = queue[m][j] => i = j
      /\ \A i \in DOMAIN queue[m] : /\ queue[m][i] \notin Refs(flow)
                                    /\ queue[m][i] \in 1 .. Len(flow.heap)
  BY MixTypes
<1> HIDE DEF g, ref
<1>4. /\ FlowMixed(flow', PastOf(flow.target, seen'))
      /\ \A r \in Refs(flow') : r \in Refs(g) \/ r > Len(g.heap)
  <2> PICK p : p = PastOf(flow.target, seen')
    OBVIOUS
  <2>1. /\ FlowMixed(PushCopies(g, m, ref), p)
        /\ \A r \in Refs(PushCopies(g, m, ref)) : r \in Refs(g) \/ r > Len(g.heap)
    BY <1>2, PushCopiesMixes
  <2> QED BY <1>1, <2>1
<1>5. \A r \in Refs(flow') : r \in Refs(flow) \/ r > Len(flow.heap)
  BY <1>2, <1>4
<1>6. \A i \in DOMAIN queue[m] : queue[m][i] \notin Refs(flow')
  <2> TAKE i \in DOMAIN queue[m]
  <2>1. queue[m][i] \in 1 .. Len(flow.heap) /\ queue[m][i] \notin Refs(flow)
    BY <1>3
  <2> QED BY <1>3, <1>5, <2>1
<1>7. Apart(flow', queue)
  BY <1>1, <1>3, <1>5, <1>6, TakenApart
<1> QED BY <1>1, <1>4, <1>7 DEF MixKept

\* A packet module that has taken a frame pushes what it held.
LEMMA FlushedMixes ==
  ASSUME TypeOK, TreeRunOK, MixOK, NEW m \in Modules, Waiting(flow, m) # <<>>,
         Len(OutBoxes[m]) <= 1, NEW p,
         p = PastOf(flow.target, [seen EXCEPT ![m] = Append(@, Native(flow.heap[PeekFrame(flow, m)]))])
  PROVE  LET g == PushEach(PopFrame(flow, m), m, queue[m])
             ref == PeekFrame(flow, m)
         IN  /\ FlowMixed(g, p)
             /\ \A r \in Refs(g) : r \in Refs(flow) \/ \E j \in DOMAIN queue[m] : r = queue[m][j]
             /\ ref \in 1 .. Len(g.heap) /\ ref \notin Refs(g) /\ ref \in Refs(flow)
<1> DEFINE g == PopFrame(flow, m)
           ref == PeekFrame(flow, m)
           h == PushEach(g, m, queue[m])
<1>1. /\ FlowMixed(g, p) /\ Refs(g) \subseteq Refs(flow)
      /\ ref \in Refs(flow) /\ ref \notin Refs(g)
      /\ g.heap = flow.heap /\ ref \in 1 .. Len(flow.heap)
  BY TakenMixes
<1>2. /\ queue[m] \in Seq(1 .. Len(flow.heap))
      /\ \A i \in DOMAIN queue[m] : queue[m][i] \notin Refs(flow)
      /\ \A i, j \in DOMAIN queue[m] : queue[m][i] = queue[m][j] => i = j
  BY MixTypes
<1> HIDE DEF g, ref
<1>3. \A i \in DOMAIN queue[m] : queue[m][i] \notin Refs(g) /\ queue[m][i] # ref
  BY <1>1, <1>2
<1>4. /\ FlowMixed(h, p)
      /\ Refs(h) \subseteq Refs(g) \cup ToSet(queue[m])
      /\ Len(h.heap) = Len(g.heap)
  <2>1. queue[m] \in Seq(1 .. Len(g.heap))
    BY <1>1, <1>2
  <2>2. \A i \in DOMAIN queue[m] : queue[m][i] \notin Refs(g)
    BY <1>3
  <2>3. FlowMixed(g, p)
    BY <1>1
  <2>4. \A i, j \in DOMAIN queue[m] : queue[m][i] = queue[m][j] => i = j
    BY <1>2
  <2> PICK q : q = queue[m]
    OBVIOUS
  <2>5. /\ FlowMixed(PushEach(g, m, q), p)
        /\ Refs(PushEach(g, m, q)) \subseteq Refs(g) \cup ToSet(q)
        /\ Len(PushEach(g, m, q).heap) = Len(g.heap)
    <3>1. q \in Seq(1 .. Len(g.heap))
      BY <2>1
    <3>2. \A i \in DOMAIN q : q[i] \notin Refs(g)
      BY <2>2
    <3>3. \A i, j \in DOMAIN q : q[i] = q[j] => i = j
      BY <2>4
    <3> QED BY <2>3, <3>1, <3>2, <3>3, PushEachMixes
  <2> QED BY <2>5
<1> HIDE DEF h
<1>5. ASSUME NEW r \in Refs(h)
      PROVE  \/ r \in Refs(g)
             \/ \E j \in DOMAIN queue[m] : r = queue[m][j]
  BY <1>4 DEF ToSet
<1>6. ref \notin Refs(h)
  BY <1>1, <1>3, <1>5
<1>7. ref \in 1 .. Len(h.heap)
  BY <1>1, <1>4
<1>8. \A r \in Refs(h) : r \in Refs(flow) \/ \E j \in DOMAIN queue[m] : r = queue[m][j]
  BY <1>1, <1>5
<1> QED BY <1>1, <1>4, <1>6, <1>7, <1>8 DEF g, ref, h

LEMMA PackMixes ==
  ASSUME TypeOK, TreeRunOK, MixOK, OnlyForksBranch, NEW m \in Modules, Pack(m)
  PROVE  MixKept
<1> DEFINE g == PopFrame(flow, m)
           ref == PeekFrame(flow, m)
           stop == flow.heap[ref].stop
           h == PushEach(g, m, queue[m])
           p == PastOf(flow.target, [seen EXCEPT ![m] = Append(@, Native(flow.heap[ref]))])
<1>1. /\ Waiting(flow, m) # <<>> /\ Len(OutBoxes[m]) <= 1
      /\ seen' = [seen EXCEPT ![m] = Append(@, Native(flow.heap[ref]))]
      /\ \/ flow' = g /\ queue' = [queue EXCEPT ![m] = Append(@, ref)]
         \/ flow' = h /\ queue' = [queue EXCEPT ![m] = <<ref>>]
         \/ flow' = PushToAll(h, m, ref) /\ queue' = [queue EXCEPT ![m] = <<>>]
  BY DEF Pack, Processing, Taking, OnlyForksBranch
<1>2. /\ FlowMixed(g, p) /\ Refs(g) \subseteq Refs(flow)
      /\ ref \in Refs(flow) /\ ref \notin Refs(g) /\ ref \in 1 .. Len(flow.heap)
  BY <1>1, TakenMixes
<1>3. /\ FlowMixed(h, p)
      /\ \A r \in Refs(h) : r \in Refs(flow) \/ \E j \in DOMAIN queue[m] : r = queue[m][j]
      /\ ref \in 1 .. Len(h.heap) /\ ref \notin Refs(h)
  BY <1>1, FlushedMixes
<1>4. /\ queue[m] \in Seq(1 .. Len(flow.heap))
      /\ \A i \in DOMAIN queue[m] : queue[m][i] \notin Refs(flow)
      /\ \A i, j \in DOMAIN queue[m] : queue[m][i] = queue[m][j] => i = j
  BY MixTypes
<1>5. p = PastOf(flow.target, seen')
  BY <1>1
<1> HIDE DEF g, h, p
<1>6. CASE flow' = g /\ queue' = [queue EXCEPT ![m] = Append(@, ref)]
  <2>1. (\A n \in Modules : n # m => queue'[n] = queue[n]) /\ queue'[m] = Append(queue[m], ref)
    BY <1>6 DEF TypeOK
  <2> HIDE DEF ref
  <2> PICK q : q = queue'[m]
    OBVIOUS
  <2>2. /\ DOMAIN q = 1 .. Len(queue[m]) + 1 /\ q[Len(queue[m]) + 1] = ref
        /\ DOMAIN queue[m] = 1 .. Len(queue[m])
        /\ \A i \in 1 .. Len(queue[m]) : q[i] = queue[m][i]
    <3>1. Append(queue[m], ref) \in Seq(1 .. Len(flow.heap))
      BY <1>2, <1>4, AppendProperties
    <3> QED BY <1>2, <1>4, <2>1, <3>1, AppendProperties
  <2>3. ASSUME NEW i \in DOMAIN q
        PROVE  \/ i \in DOMAIN queue[m] /\ q[i] = queue[m][i]
               \/ i = Len(queue[m]) + 1 /\ q[i] = ref
    <3>1. i \in 1 .. Len(queue[m]) \/ i = Len(queue[m]) + 1
      BY <1>4, <2>2
    <3> QED BY <2>2, <3>1
  <2>4. \A i \in DOMAIN q : /\ q[i] \notin Refs(flow')
                            /\ q[i] = ref \/ \E j \in DOMAIN queue[m] : q[i] = queue[m][j]
    BY <1>2, <1>4, <1>6, <2>3
  <2>5. \A i, j \in DOMAIN q : q[i] = q[j] => i = j
    BY <1>2, <1>4, <2>3
  <2>6. Refs(flow') \subseteq Refs(flow)
    BY <1>2, <1>6
  <2>7. Exchange(flow, flow', queue, queue', m)
    <3>1. \A r \in Refs(flow') : r \in Refs(flow)
      BY <2>6
    <3>2. \A i \in DOMAIN q : /\ q[i] \notin Refs(flow')
                              /\ q[i] \in Refs(flow) \/ \E j \in DOMAIN queue[m] : q[i] = queue[m][j]
      BY <1>2, <2>4
    <3> QED BY <2>1, <2>5, <3>1, <3>2 DEF Exchange
  <2>8. Apart(flow', queue')
    <3>1. /\ Apart(flow, queue) /\ Len(flow.heap) \in Nat
          /\ \A n \in Modules : \A i \in DOMAIN queue[n] : queue[n][i] \in 1 .. Len(flow.heap)
      BY MixTypes
    <3> QED BY <2>7, <3>1, ExchangeApart
  <2> QED BY <1>2, <1>5, <1>6, <2>8 DEF MixKept
<1>7. CASE flow' = h /\ queue' = [queue EXCEPT ![m] = <<ref>>]
  <2>1. (\A n \in Modules : n # m => queue'[n] = queue[n]) /\ queue'[m] = <<ref>>
    BY <1>7 DEF TypeOK
  <2> HIDE DEF ref
  <2>2. DOMAIN queue'[m] = {1} /\ queue'[m][1] = ref
    BY <2>1
  <2>3. \A i \in DOMAIN queue'[m] : /\ queue'[m][i] \notin Refs(flow')
                                    /\ queue'[m][i] = ref
    BY <1>3, <1>7, <2>2
  <2>4. \A i, j \in DOMAIN queue'[m] : queue'[m][i] = queue'[m][j] => i = j
    BY <2>2
  <2>5. \A r \in Refs(flow') : r \in Refs(flow) \/ \E j \in DOMAIN queue[m] : r = queue[m][j]
    BY <1>3, <1>7
  <2>6. Apart(flow', queue')
    BY <1>1, <2>1, <2>3, <2>4, <2>5, TakenApart DEF ref
  <2> QED BY <1>3, <1>5, <1>7, <2>6 DEF MixKept
<1>8. CASE flow' = PushToAll(h, m, ref) /\ queue' = [queue EXCEPT ![m] = <<>>]
  <2>1. (\A n \in Modules : n # m => queue'[n] = queue[n]) /\ queue'[m] = <<>>
    BY <1>8 DEF TypeOK
  <2> HIDE DEF ref
  <2>2. FlowMixed(flow', p) /\ Refs(flow') \subseteq Refs(h) \cup {ref}
    BY <1>1, <1>3, <1>8, PushToAllMixes
  <2>3. \A r \in Refs(flow') : r \in Refs(flow) \/ \E j \in DOMAIN queue[m] : r = queue[m][j]
    BY <1>2, <1>3, <2>2
  <2>4. \A i \in DOMAIN queue'[m] : FALSE
    BY <2>1
  <2>5. Apart(flow', queue')
    BY <1>1, <2>1, <2>3, <2>4, TakenApart
  <2> QED BY <1>5, <2>2, <2>5 DEF MixKept
<1> QED BY <1>1, <1>6, <1>7, <1>8

LEMMA FinishMixes ==
  ASSUME TypeOK, TypeOK', MixOK, FlowOrderOK, OnlyForksBranch, NEW m \in Modules, FinishModule(m)
  PROVE  MixKept
<1>1. /\ flow' = PushEach(flow, m, queue[m]) /\ seen' = seen
      /\ queue' = [queue EXCEPT ![m] = <<>>]
  BY DEF FinishModule
<1>2. (\A n \in Modules : n # m => queue'[n] = queue[n]) /\ queue'[m] = <<>>
  BY <1>1 DEF TypeOK
<1>3. /\ FlowMixed(flow, PastOf(flow.target, seen)) /\ Apart(flow, queue)
      /\ Len(flow.heap) \in Nat
      /\ queue[m] \in Seq(1 .. Len(flow.heap))
      /\ \A n \in Modules : \A i \in DOMAIN queue[n] : queue[n][i] \in 1 .. Len(flow.heap)
      /\ \A i \in DOMAIN queue[m] : queue[m][i] \notin Refs(flow)
      /\ \A i, j \in DOMAIN queue[m] : queue[m][i] = queue[m][j] => i = j
  BY MixTypes
<1>4. /\ FlowMixed(flow', PastOf(flow.target, seen))
      /\ \A r \in Refs(flow') : r \in Refs(flow) \/ \E j \in DOMAIN queue[m] : r = queue[m][j]
  <2>1. CASE queue[m] = <<>>
    <3>1. [i \in DOMAIN queue[m] |-> [mod |-> m, ref |-> queue[m][i]]] = <<>>
      BY <2>1
    <3>2. Len(<<>>) = 0
      OBVIOUS
    <3>3. PushEach(flow, m, queue[m]) = flow
      BY <3>1, <3>2, PushingOn!FoldEmpty DEF PushEach
    <3> QED BY <1>1, <1>3, <3>3
  <2>2. CASE queue[m] # <<>>
    <3>1. Len(OutBoxes[m]) <= 1
      BY <2>2 DEF FlowOrderOK, OnlyForksBranch
    <3> PICK p : p = PastOf(flow.target, seen)
      OBVIOUS
    <3> PICK q : q = queue[m]
      OBVIOUS
    <3>2. /\ FlowMixed(PushEach(flow, m, q), p)
          /\ Refs(PushEach(flow, m, q)) \subseteq Refs(flow) \cup ToSet(q)
      BY <1>3, <3>1, PushEachMixes
    <3>3. FlowMixed(flow', p) /\ \A r \in Refs(flow') : r \in Refs(flow) \/ r \in ToSet(q)
      BY <1>1, <3>2
    <3> QED BY <3>3 DEF ToSet
  <2> QED BY <2>1, <2>2
<1>5. Exchange(flow, flow', queue, queue', m)
  BY <1>2, <1>4 DEF Exchange
<1>6. Apart(flow', queue')
  BY <1>3, <1>5, ExchangeApart
<1> QED BY <1>1, <1>4, <1>6 DEF MixKept

LEMMA MixInit == Init => MixOK
<1> SUFFICES ASSUME Init PROVE MixOK
  OBVIOUS
<1>1. TypeOK
  BY TypeInit
<1>2. FlowTypeOK(flow)
  BY <1>1 DEF TypeOK
<1>3. \A x \in Boxes : flow.fifo[x] = <<>> /\ flow.mixer[x] = <<>> /\ flow.target[x] = None
  BY DEF Init, NoFlow
<1>4. /\ PastOf(flow.target, seen) \in [Boxes -> Seq(Natives)]
      /\ \A x \in Boxes : PastOf(flow.target, seen)[x] = <<>>
  BY <1>3 DEF PastOf
<1>5. FlowMixed(flow, PastOf(flow.target, seen))
  BY <1>2, <1>3, <1>4, EmptyMixed
<1>6. Apart(flow, queue)
  BY NothingApart DEF Init
<1> QED BY <1>3, <1>5, <1>6 DEF MixOK

\* As long as nothing has been read the wiring may change.
LEMMA MixUntouched ==
  ASSUME TypeOK, TypeOK', Untouched, MixOK, ~execute_called,
         flow'.fifo = flow.fifo, flow'.mixer = flow.mixer, queue' = queue, seen' = seen
  PROVE  MixOK'
<1>1. /\ \A x \in Boxes : flow'.fifo[x] = <<>> /\ flow'.mixer[x] = <<>>
      /\ \A m \in Modules : queue'[m] = <<>> /\ seen'[m] = <<>>
  BY DEF Untouched, MixOK
<1>2. PICK fl : fl = flow'
  OBVIOUS
<1>3. PICK past : past = PastOf(flow'.target, seen')
  OBVIOUS
<1>4. FlowTypeOK(fl)
  BY <1>2 DEF TypeOK
<1>5. past \in [Boxes -> Seq(Natives)] /\ \A x \in Boxes : past[x] = <<>>
  <2>1. ASSUME NEW x \in Boxes
        PROVE  past[x] = <<>>
    <3>1. fl.target[x] \in Modules \cup {None}
      BY <1>4 DEF FlowTypeOK
    <3>2. past[x] = IF fl.target[x] = None THEN <<>> ELSE seen'[fl.target[x]]
      BY <1>2, <1>3 DEF PastOf
    <3> QED BY <1>1, <3>1, <3>2
  <2>2. past = [x \in Boxes |-> past[x]]
    BY <1>3 DEF PastOf
  <2>3. <<>> \in Seq(Natives)
    OBVIOUS
  <2>4. \A x \in Boxes : past[x] \in Seq(Natives)
    BY <2>1, <2>3
  <2> HIDE DEF Natives
  <2> QED BY <2>1, <2>2, <2>4
<1>6. FlowMixed(fl, past)
  BY <1>1, <1>2, <1>4, <1>5, EmptyMixed
<1>7. Apart(flow', queue')
  BY <1>1, NothingApart
<1> QED BY <1>1, <1>2, <1>3, <1>6, <1>7 DEF MixOK

LEMMA MixSame ==
  ASSUME MixOK, flow' = flow, queue' = queue, seen' = seen,
         execute_called' = execute_called
  PROVE  MixOK'
BY DEF MixOK

LEMMA MixOwn ==
  ASSUME TypeOK, TypeOK', TreeRunOK, FlowOrderOK, MixOK, OnlyForksBranch,
         NEW m \in Modules, Own(m)
  PROVE  MixOK'
<1>1. MixKept
  BY ReadMixes, NothingMixes, PassOnMixes, DropMixes, ForkMixes, PackMixes, FinishMixes DEF Own
<1>2. PICK g, taken, given, ns : OwnStep(m, g, taken, given, ns)
  BY OwnSteps
<1>3. flow'.target = flow.target
  BY <1>2, OwnTravels
<1>4. execute_called'
  BY <1>2 DEF OwnStep, setup, TreeRunOK, RunOK, StackIdle
<1> QED BY <1>1, <1>3, <1>4 DEF MixKept, MixOK

LEMMA MixNext ==
  ASSUME TypeOK, TypeOK', TreeRunOK, FlowOrderOK, MixOK, OnlyForksBranch, [Next]_vars
  PROVE  MixOK'
<1>1. StackIdle /\ Untouched
  BY DEF TreeRunOK, RunOK
<1>2. CASE SetUpStep
  <2>1. CASE flow' = flow
    BY <1>2, <2>1, MixSame DEF SetUpStep, history
  <2>2. CASE flow' # flow
    BY <1>1, <1>2, <2>2, MixUntouched DEF SetUpStep, history
  <2> QED BY <2>1, <2>2
<1>3. ASSUME NEW count \in Counts, Execute(count)
      PROVE  MixOK'
  <2>1. flow = [target |-> flow.target, inbox |-> flow.inbox, fifo |-> flow.fifo,
                mixer |-> flow.mixer, heap |-> flow.heap]
    BY DEF TypeOK, FlowTypeOK
  <2>2. flow'.fifo = flow.fifo /\ flow'.mixer = flow.mixer
    BY <1>3, <2>1 DEF Execute, Connected, InALine
  <2> QED BY <1>1, <1>3, <2>2, MixUntouched DEF Execute, history
<1>4. ASSUME NEW m \in Modules, Own(m)
      PROVE  MixOK'
  BY <1>4, MixOwn
<1>5. ASSUME NEW x \in Boxes, BoxStep(x)
      PROVE  MixOK'
  BY <1>5, MixSame DEF BoxStep, Elsewhere, setup, history
<1>6. CASE StartStep
  BY <1>6, MixSame DEF StartStep, setup, history
<1>7. CASE ReturnStep
  BY <1>7, MixSame DEF ReturnStep, Elsewhere, setup, history
<1>8. CASE EndStep
  BY <1>8, MixSame DEF EndStep, setup, history
<1>9. CASE WatchStep
  BY <1>9, MixSame DEF WatchStep, setup, history
<1> QED BY <1>1, <1>2, <1>3, <1>4, <1>5, <1>6, <1>7, <1>8, <1>9, NextSteps

\* Into every frame that waits for a module of a tray wired as a tree the keys
\* of the latest frames of the other streams that the module has seen are
\* mixed, and no others.
THEOREM MixedFromLatestAlways ==
  ASSUME WiredAsTree, OnlyForksBranch
  PROVE  Spec => []MixedFromLatest
<1>1. TypeOK /\ TreeRunOK /\ MixOK => MixedFromLatest
  <2> SUFFICES ASSUME TypeOK, TreeRunOK, MixOK, NEW m \in Modules, NEW k \in DOMAIN Waiting(flow, m)
               PROVE  LET ahead == [i \in 1 .. k |-> Native(flow.heap[Waiting(flow, m)[i]])]
                          known == ParentsAfter(FALSE, seen[m] \o ahead)
                          frame == flow.heap[Waiting(flow, m)[k]]
                      IN  frame.mixed = Ids(GetMixedFrames(known, FALSE, frame.stop))
    BY DEF MixedFromLatest
  <2> DEFINE x == flow.inbox[m]
  <2>1. x # None
    BY DEF Waiting, HasInBox
  <2>2. x \in Boxes /\ flow.target[x] = m /\ m # None /\ Waiting(flow, m) = flow.fifo[x]
    BY <2>1, FrameFlowAssumption DEF TypeOK, FlowTypeOK, TreeRunOK, TreeOK, Mutual, Waiting, HasInBox
  <2>3. PastOf(flow.target, seen)[x] = seen[m]
    BY <2>2 DEF PastOf
  <2> HIDE DEF x
  <2>4. BoxMixed(flow, seen[m], x)
    BY <2>2, <2>3 DEF MixOK, FlowMixed
  <2>5. k \in DOMAIN flow.fifo[x]
    BY <2>2
  <2>6. flow.heap[flow.fifo[x][k]].mixed =
          Ids(GetMixedFrames(Known(flow, seen[m], x, k), FALSE, flow.heap[flow.fifo[x][k]].stop))
    BY <2>4, <2>5 DEF BoxMixed
  <2> QED BY <2>2, <2>6 DEF Known, Foremost
<1>2. Init => MixOK
  BY MixInit
<1>3. TypeOK /\ TypeOK' /\ TreeRunOK /\ FlowOrderOK /\ MixOK /\ [Next]_vars => MixOK'
  BY MixNext
<1> QED BY <1>1, <1>2, <1>3, TypeSafety, TreeRunAlways, FlowOrderAlways, PTL DEF Spec
=============================================================================
