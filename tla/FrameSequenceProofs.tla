------------------------ MODULE FrameSequenceProofs ------------------------
(***************************************************************************)
(* Safety of the two threads of FrameSequence, for any files and any number *)
(* of frames read ahead.  The first part is sequential: get_frame of        *)
(* FileGroup, for any number of files of any content: asked for the next    *)
(* frame it finds that frame, with the parents that reading all files from  *)
(* the first frame on would mix into it, although it mixes only what each   *)
(* file passed by shows at its end.  The second part holds for any calls    *)
(* and is about how tasks, futures and the cache are kept; the third is     *)
(* about a client that reads in order, for which all of this behaves like   *)
(* one sequence of frames (FrameSequenceSpec).                              *)
(***************************************************************************)
EXTENDS FrameSequence, SequenceTheorems, TLAPS

-----------------------------------------------------------------------------
(* The mixer, with the order tracked: sequences of parents.                 *)

LEMMA OthersNone ==
  ASSUME NEW stop
  PROVE  Others(<<>>, stop) = <<>>
BY Sifting!FoldEmpty DEF Others

\* One parent more is one other more, or none.
LEMMA OthersAppend ==
  ASSUME NEW p \in Seq(Frames), NEW y \in Frames, NEW stop
  PROVE  Others(Append(p, y), stop) =
           IF y.stop = stop THEN Others(p, stop) ELSE Append(Others(p, stop), y)
<1> DEFINE start == [stop |-> stop, kept |-> <<>>]
           T == {s \in Seq(Frames) :
                   Sifting!Fold(start, s) =
                     [stop |-> stop, kept |-> Sifting!Fold(start, s).kept]}
<1>1. \A s \in Seq(Frames) : \A x \in Frames :
        Sifting!Fold(start, Append(s, x)) = KeepOther(Sifting!Fold(start, s), x)
  BY Sifting!FoldAppend
<1>2. <<>> \in T
  <2>1. Sifting!Fold(start, <<>>) = start
    BY Sifting!FoldEmpty
  <2> QED BY <2>1
<1>3. ASSUME NEW s \in T, NEW x \in Frames
      PROVE  Append(s, x) \in T
  <2> DEFINE kept == Sifting!Fold(start, s).kept
  <2>1. Sifting!Fold(start, Append(s, x)) = KeepOther([stop |-> stop, kept |-> kept], x)
    BY <1>1
  <2> HIDE DEF kept
  <2>2. PICK k : KeepOther([stop |-> stop, kept |-> kept], x) = [stop |-> stop, kept |-> k]
    BY DEF KeepOther
  <2> HIDE DEF start
  <2>3. Sifting!Fold(start, Append(s, x)) =
          [stop |-> stop, kept |-> Sifting!Fold(start, Append(s, x)).kept]
    BY <2>1, <2>2
  <2>4. Append(s, x) \in Seq(Frames)
    OBVIOUS
  <2> QED BY <2>3, <2>4
<1>4. Seq(Frames) \subseteq T
  BY <1>2, <1>3, Sifting!SeqInd
<1>5. Sifting!Fold(start, p) = [stop |-> stop, kept |-> Others(p, stop)]
  BY <1>4 DEF Others
<1>6. Sifting!Fold(start, Append(p, y)).kept = Others(Append(p, y), stop)
  BY DEF Others
<1> HIDE DEF start
<1>7. KeepOther([stop |-> stop, kept |-> Others(p, stop)], y).kept =
        IF y.stop = stop THEN Others(p, stop) ELSE Append(Others(p, stop), y)
  BY DEF KeepOther
<1> QED BY <1>1, <1>5, <1>6, <1>7

LEMMA OthersSeq ==
  ASSUME NEW stop
  PROVE  \A p \in Seq(Frames) : Others(p, stop) \in Seq(Frames)
<1> DEFINE T == {s \in Seq(Frames) : Others(s, stop) \in Seq(Frames)}
<1>1. <<>> \in T
  <2>1. <<>> \in Seq(Frames)
    OBVIOUS
  <2> QED BY <2>1, OthersNone, Zenon
<1>2. ASSUME NEW s \in T, NEW x \in Frames
      PROVE  Append(s, x) \in T
  <2>1. Append(s, x) \in Seq(Frames) /\ Append(Others(s, stop), x) \in Seq(Frames)
    OBVIOUS
  <2> QED BY <2>1, OthersAppend
<1> QED BY <1>1, <1>2, Sifting!SeqInd

\* Leaving out two streams, the order makes no difference.
LEMMA OthersCommute ==
  ASSUME NEW a, NEW b
  PROVE  \A p \in Seq(Frames) : Others(Others(p, a), b) = Others(Others(p, b), a)
<1> DEFINE T == {s \in Seq(Frames) : Others(Others(s, a), b) = Others(Others(s, b), a)}
<1>1. <<>> \in T
  BY OthersNone
<1>2. ASSUME NEW s \in T, NEW x \in Frames
      PROVE  Append(s, x) \in T
  <2>1. /\ Append(s, x) \in Seq(Frames)
        /\ Others(s, a) \in Seq(Frames) /\ Others(s, b) \in Seq(Frames)
    BY OthersSeq
  <2>2. Others(Append(Others(s, a), x), b) =
          IF x.stop = b THEN Others(Others(s, a), b) ELSE Append(Others(Others(s, a), b), x)
    BY <2>1, OthersAppend
  <2>3. Others(Append(Others(s, b), x), a) =
          IF x.stop = a THEN Others(Others(s, b), a) ELSE Append(Others(Others(s, b), a), x)
    BY <2>1, OthersAppend
  <2>4. Others(Append(s, x), a) = IF x.stop = a THEN Others(s, a) ELSE Append(Others(s, a), x)
    BY OthersAppend
  <2>5. Others(Append(s, x), b) = IF x.stop = b THEN Others(s, b) ELSE Append(Others(s, b), x)
    BY OthersAppend
  <2>6. Others(Others(Append(s, x), a), b) = Others(Others(Append(s, x), b), a)
    BY <2>2, <2>3, <2>4, <2>5
  <2> QED BY <2>1, <2>6
<1> QED BY <1>1, <1>2, Sifting!SeqInd

\* Nothing is left to leave out a second time.
LEMMA OthersAgain ==
  ASSUME NEW a
  PROVE  \A p \in Seq(Frames) : Others(Others(p, a), a) = Others(p, a)
<1> DEFINE T == {s \in Seq(Frames) : Others(Others(s, a), a) = Others(s, a)}
<1>1. <<>> \in T
  BY OthersNone
<1>2. ASSUME NEW s \in T, NEW x \in Frames
      PROVE  Append(s, x) \in T
  <2>1. Append(s, x) \in Seq(Frames) /\ Others(s, a) \in Seq(Frames)
    BY OthersSeq
  <2>2. Others(Append(Others(s, a), x), a) =
          IF x.stop = a THEN Others(Others(s, a), a) ELSE Append(Others(Others(s, a), a), x)
    BY <2>1, OthersAppend
  <2>3. Others(Append(s, x), a) = IF x.stop = a THEN Others(s, a) ELSE Append(Others(s, a), x)
    BY OthersAppend
  <2>4. Others(Others(Append(s, x), a), a) = Others(Append(s, x), a)
    BY <2>2, <2>3
  <2> QED BY <2>1, <2>4
<1> QED BY <1>1, <1>2, Sifting!SeqInd

\* The parents kept are none of TrayInfo or Physics.
Miscible(p) == \A i \in DOMAIN p : p[i].stop \notin Immiscible

\* Leaving out a stream that is not there changes nothing.
LEMMA OthersAll ==
  ASSUME NEW stop
  PROVE  \A p \in Seq(Frames) : (\A i \in DOMAIN p : p[i].stop # stop) => Others(p, stop) = p
<1> DEFINE T == {s \in Seq(Frames) :
                   (\A i \in DOMAIN s : s[i].stop # stop) => Others(s, stop) = s}
<1>1. <<>> \in T
  BY OthersNone
<1>2. ASSUME NEW s \in T, NEW x \in Frames
      PROVE  Append(s, x) \in T
  <2>1. Append(s, x) \in Seq(Frames)
    OBVIOUS
  <2>2. ASSUME \A i \in DOMAIN Append(s, x) : Append(s, x)[i].stop # stop
        PROVE  Others(Append(s, x), stop) = Append(s, x)
    <3>1. \A i \in DOMAIN s : i \in DOMAIN Append(s, x) /\ Append(s, x)[i] = s[i]
      OBVIOUS
    <3>2. Len(s) + 1 \in DOMAIN Append(s, x) /\ Append(s, x)[Len(s) + 1] = x
      OBVIOUS
    <3>3. Others(s, stop) = s /\ x.stop # stop
      BY <2>2, <3>1, <3>2
    <3> QED BY <3>3, OthersAppend
  <2> QED BY <2>1, <2>2
<1> QED BY <1>1, <1>2, Sifting!SeqInd

\* None of the stream is left, and nothing new comes in.
LEMMA OthersStops ==
  ASSUME NEW stop
  PROVE  \A p \in Seq(Frames) :
           \A i \in DOMAIN Others(p, stop) :
             /\ Others(p, stop)[i].stop # stop
             /\ \E j \in DOMAIN p : Others(p, stop)[i] = p[j]
<1> DEFINE Fine(s, o) == \A i \in DOMAIN o : o[i].stop # stop /\ \E j \in DOMAIN s : o[i] = s[j]
           T == {s \in Seq(Frames) : Fine(s, Others(s, stop))}
<1>1. <<>> \in T
  BY OthersNone
<1>2. ASSUME NEW s \in T, NEW x \in Frames
      PROVE  Append(s, x) \in T
  <2> DEFINE o == Others(s, stop)
             t == Append(s, x)
             u == Append(o, x)
  <2>1. t \in Seq(Frames) /\ o \in Seq(Frames) /\ Fine(s, o)
    BY OthersSeq
  <2>2. /\ \A j \in DOMAIN s : j \in DOMAIN t /\ t[j] = s[j]
        /\ Len(s) + 1 \in DOMAIN t /\ t[Len(s) + 1] = x
    OBVIOUS
  <2> HIDE DEF o
  <2>3. \A i \in DOMAIN u : (i \in DOMAIN o /\ u[i] = o[i]) \/ u[i] = x
    BY <2>1
  <2>4. Others(t, stop) = IF x.stop = stop THEN o ELSE u
    BY OthersAppend DEF o
  <2> HIDE DEF t, u
  <2>5. ASSUME x.stop = stop
        PROVE  Fine(t, Others(t, stop))
    <3>1. Fine(t, o)
      BY <2>1, <2>2
    <3> QED BY <2>4, <2>5, <3>1
  <2>6. ASSUME x.stop # stop
        PROVE  Fine(t, Others(t, stop))
    <3>1. Fine(t, u)
      BY <2>1, <2>2, <2>3, <2>6
    <3> QED BY <2>4, <2>6, <3>1
  <2>7. t \in T
    BY <2>1, <2>5, <2>6
  <2> QED BY <2>7 DEF t
<1>3. Seq(Frames) \subseteq T
  BY <1>1, <1>2, Sifting!SeqInd
<1> QED BY <1>3

-----------------------------------------------------------------------------
(* What the mixer remembers of a sequence of frames.                        *)

LEMMA MixedNone ==
  ASSUME NEW ordered, NEW p
  PROVE  Mixed(p, ordered, <<>>) = p
BY Keeping!FoldEmpty DEF Mixed

LEMMA MixedMore ==
  ASSUME NEW ordered, NEW p, NEW s \in Seq(Frames), NEW x \in Frames
  PROVE  Mixed(p, ordered, Append(s, x)) = UpdateDependencies(Mixed(p, ordered, s), ordered, x)
<1> DEFINE start == [ordered |-> ordered, parents |-> p]
           Kept(t) == Keeping!Fold(start, t).parents
           T == {t \in Seq(Frames) :
                   Keeping!Fold(start, t) = [ordered |-> ordered, parents |-> Kept(t)]}
<1>1. \A t \in Seq(Frames) : \A y \in Frames :
        Keeping!Fold(start, Append(t, y)) = KeepParent(Keeping!Fold(start, t), y)
  BY Keeping!FoldAppend
<1>2. ASSUME NEW k, NEW y
      PROVE  KeepParent([ordered |-> ordered, parents |-> k], y) =
               [ordered |-> ordered, parents |-> UpdateDependencies(k, ordered, y)]
  BY DEF KeepParent
<1>3. <<>> \in T
  <2>1. Keeping!Fold(start, <<>>) = start
    BY Keeping!FoldEmpty
  <2> QED BY <2>1
<1>4. ASSUME NEW t \in T, NEW y \in Frames
      PROVE  Append(t, y) \in T
  <2>1. Keeping!Fold(start, Append(t, y)) = KeepParent([ordered |-> ordered, parents |-> Kept(t)], y)
    BY <1>1
  <2> DEFINE k == UpdateDependencies(Kept(t), ordered, y)
  <2>2. Keeping!Fold(start, Append(t, y)) = [ordered |-> ordered, parents |-> k]
    BY <1>2, <2>1
  <2> HIDE DEF k, start
  <2>3. Append(t, y) \in Seq(Frames)
    OBVIOUS
  <2> QED BY <2>2, <2>3
<1>5. Seq(Frames) \subseteq T
  BY <1>3, <1>4, Sifting!SeqInd
<1>6. Keeping!Fold(start, Append(s, x)) = KeepParent([ordered |-> ordered, parents |-> Kept(s)], x)
  BY <1>1, <1>5
<1>7. KeepParent([ordered |-> ordered, parents |-> Kept(s)], x) =
        [ordered |-> ordered, parents |-> UpdateDependencies(Kept(s), ordered, x)]
  BY <1>2
<1> HIDE DEF Kept
<1>8. Keeping!Fold(start, Append(s, x)).parents = UpdateDependencies(Kept(s), ordered, x)
  BY <1>6, <1>7
<1> QED BY <1>8 DEF Mixed, Kept

LEMMA MixedAppend ==
  ASSUME NEW p, NEW s \in Seq(Frames), NEW x \in Frames
  PROVE  Mixed(p, TRUE, Append(s, x)) = UpdateDependencies(Mixed(p, TRUE, s), TRUE, x)
BY MixedMore

\* Mixing further frames in keeps a mixer's cache a sequence of parents.
LEMMA MixedTypes ==
  ASSUME NEW p \in Seq(Frames), Miscible(p)
  PROVE  \A s \in Seq(Frames) : Mixed(p, TRUE, s) \in Seq(Frames) /\ Miscible(Mixed(p, TRUE, s))
<1> DEFINE T == {s \in Seq(Frames) :
                   Mixed(p, TRUE, s) \in Seq(Frames) /\ Miscible(Mixed(p, TRUE, s))}
<1>1. <<>> \in T
  <2>1. <<>> \in Seq(Frames)
    OBVIOUS
  <2> QED BY <2>1, MixedNone, Zenon
<1>2. ASSUME NEW s \in T, NEW x \in Frames
      PROVE  Append(s, x) \in T
  <2> DEFINE m == Mixed(p, TRUE, s)
             o == Others(m, x.stop)
  <2>1. m \in Seq(Frames) /\ Miscible(m)
    OBVIOUS
  <2>2. o \in Seq(Frames) /\ \A i \in DOMAIN o : \E j \in DOMAIN m : o[i] = m[j]
    BY <2>1, OthersSeq, OthersStops
  <2>3. Mixed(p, TRUE, Append(s, x)) = UpdateDependencies(m, TRUE, x)
    <3>1. s \in Seq(Frames)
      OBVIOUS
    <3> QED BY <3>1, MixedAppend
  <2> HIDE DEF o, m
  <2>4. Miscible(o)
    BY <2>1, <2>2 DEF Miscible
  <2>5. x.stop \notin Immiscible => Append(o, x) \in Seq(Frames) /\ Miscible(Append(o, x))
    BY <2>2, <2>4 DEF Miscible
  <2>6. UpdateDependencies(m, TRUE, x) = IF x.stop \in Immiscible THEN m ELSE Append(o, x)
    BY DEF UpdateDependencies, o
  <2>7. Append(s, x) \in Seq(Frames)
    OBVIOUS
  <2>8. UpdateDependencies(m, TRUE, x) \in Seq(Frames) /\ Miscible(UpdateDependencies(m, TRUE, x))
    BY <2>1, <2>5, <2>6
  <2> QED BY <2>3, <2>7, <2>8, Zenon
<1> QED BY <1>1, <1>2, Sifting!SeqInd

\* Mixing in a concatenation is mixing in its parts.
LEMMA MixedConcat ==
  ASSUME NEW p, NEW s \in Seq(Frames)
  PROVE  \A t \in Seq(Frames) : Mixed(p, TRUE, s \o t) = Mixed(Mixed(p, TRUE, s), TRUE, t)
<1> DEFINE T == {t \in Seq(Frames) : Mixed(p, TRUE, s \o t) = Mixed(Mixed(p, TRUE, s), TRUE, t)}
<1>1. <<>> \in T
  <2>1. s \o <<>> = s /\ <<>> \in Seq(Frames)
    OBVIOUS
  <2> QED BY <2>1, MixedNone, Zenon
<1>2. ASSUME NEW t \in T, NEW x \in Frames
      PROVE  Append(t, x) \in T
  <2>1. /\ s \o t \in Seq(Frames) /\ Append(t, x) \in Seq(Frames)
        /\ s \o Append(t, x) = Append(s \o t, x)
    OBVIOUS
  <2>2. Mixed(p, TRUE, Append(s \o t, x)) = UpdateDependencies(Mixed(p, TRUE, s \o t), TRUE, x)
    BY <2>1, MixedAppend
  <2>3. Mixed(Mixed(p, TRUE, s), TRUE, Append(t, x)) =
          UpdateDependencies(Mixed(Mixed(p, TRUE, s), TRUE, t), TRUE, x)
    <3>1. t \in Seq(Frames)
      OBVIOUS
    <3> QED BY <3>1, MixedAppend
  <2>4. Mixed(p, TRUE, s \o t) = Mixed(Mixed(p, TRUE, s), TRUE, t)
    OBVIOUS
  <2>5. Mixed(p, TRUE, s \o Append(t, x)) = Mixed(Mixed(p, TRUE, s), TRUE, Append(t, x))
    BY <2>1, <2>2, <2>3, <2>4, Zenon
  <2> QED BY <2>1, <2>5, Zenon
<1> QED BY <1>1, <1>2, Sifting!SeqInd

\* UpdateDependencies and Others: of the stream of the frame, and of another.
LEMMA UpdateOthers ==
  ASSUME NEW p \in Seq(Frames), NEW x \in Frames, NEW stop
  PROVE  Others(UpdateDependencies(p, TRUE, x), stop) =
           IF x.stop = stop THEN Others(p, stop) ELSE UpdateDependencies(Others(p, stop), TRUE, x)
<1> DEFINE o == Others(p, x.stop)
<1>1. o \in Seq(Frames)
  BY OthersSeq
<1>2. Others(Append(o, x), stop) = IF x.stop = stop THEN Others(o, stop) ELSE Append(Others(o, stop), x)
  BY <1>1, OthersAppend
<1>3. Others(o, stop) = Others(Others(p, stop), x.stop)
  BY OthersCommute
<1>4. x.stop = stop => Others(o, stop) = Others(p, stop)
  BY OthersAgain
<1> HIDE DEF o
<1>5. UpdateDependencies(p, TRUE, x) = IF x.stop \in Immiscible THEN p ELSE Append(o, x)
  BY DEF UpdateDependencies, o
<1>6. UpdateDependencies(Others(p, stop), TRUE, x) =
        IF x.stop \in Immiscible THEN Others(p, stop) ELSE Append(Others(Others(p, stop), x.stop), x)
  BY DEF UpdateDependencies
<1>7. CASE x.stop \in Immiscible
  BY <1>5, <1>6, <1>7
<1>8. CASE x.stop \notin Immiscible
  BY <1>2, <1>3, <1>4, <1>5, <1>6, <1>8
<1> QED BY <1>7, <1>8

\* Frames of a stream make no difference to what is kept of the others.
LEMMA MixedOthers ==
  ASSUME NEW p \in Seq(Frames), Miscible(p), NEW stop
  PROVE  \A s \in Seq(Frames) :
           Others(Mixed(p, TRUE, Others(s, stop)), stop) = Others(Mixed(p, TRUE, s), stop)
<1> DEFINE L(s) == Mixed(p, TRUE, Others(s, stop))
           R(s) == Mixed(p, TRUE, s)
           T == {s \in Seq(Frames) : Others(L(s), stop) = Others(R(s), stop)}
<1>1. <<>> \in T
  <2>1. <<>> \in Seq(Frames)
    OBVIOUS
  <2> QED BY <2>1, OthersNone, Zenon
<1>2. \A s \in Seq(Frames) : \A x \in Frames :
        Others(Append(s, x), stop) = IF x.stop = stop THEN Others(s, stop) ELSE Append(Others(s, stop), x)
  BY OthersAppend
<1>3. \A s \in Seq(Frames) : L(s) \in Seq(Frames) /\ R(s) \in Seq(Frames)
  BY OthersSeq, MixedTypes
<1>4. \A s \in Seq(Frames) : \A x \in Frames : R(Append(s, x)) = UpdateDependencies(R(s), TRUE, x)
  BY MixedAppend
<1>5. \A s \in Seq(Frames) : \A x \in Frames :
        x.stop # stop => L(Append(s, x)) = UpdateDependencies(L(s), TRUE, x)
  <2>1. ASSUME NEW o \in Seq(Frames), NEW x \in Frames
        PROVE  R(Append(o, x)) = UpdateDependencies(R(o), TRUE, x)
    BY <1>4
  <2> HIDE DEF R
  <2>2. \A s \in Seq(Frames) : L(s) = R(Others(s, stop))
    BY DEF R
  <2> HIDE DEF L
  <2> SUFFICES ASSUME NEW s \in Seq(Frames), NEW x \in Frames, x.stop # stop
               PROVE  L(Append(s, x)) = UpdateDependencies(L(s), TRUE, x)
    OBVIOUS
  <2>3. Append(s, x) \in Seq(Frames) /\ Others(s, stop) \in Seq(Frames)
    BY OthersSeq
  <2>4. Others(Append(s, x), stop) = Append(Others(s, stop), x)
    BY <1>2
  <2> QED BY <2>1, <2>2, <2>3, <2>4
<1>6. \A s \in Seq(Frames) : \A x \in Frames : x.stop = stop => L(Append(s, x)) = L(s)
  BY <1>2
<1> HIDE DEF L, R
<1>7. ASSUME NEW s \in Seq(Frames), NEW x \in Frames
      PROVE  /\ Append(s, x) \in Seq(Frames)
             /\ Others(R(Append(s, x)), stop) =
                  IF x.stop = stop THEN Others(R(s), stop)
                  ELSE UpdateDependencies(Others(R(s), stop), TRUE, x)
             /\ x.stop # stop =>
                  Others(L(Append(s, x)), stop) = UpdateDependencies(Others(L(s), stop), TRUE, x)
  <2>1. R(s) \in Seq(Frames) /\ L(s) \in Seq(Frames) /\ Append(s, x) \in Seq(Frames)
    BY <1>3
  <2>2. Others(UpdateDependencies(R(s), TRUE, x), stop) =
          IF x.stop = stop THEN Others(R(s), stop)
          ELSE UpdateDependencies(Others(R(s), stop), TRUE, x)
    BY <2>1, UpdateOthers
  <2>3. x.stop # stop => Others(UpdateDependencies(L(s), TRUE, x), stop) =
                           UpdateDependencies(Others(L(s), stop), TRUE, x)
    BY <2>1, UpdateOthers
  <2> QED BY <2>1, <2>2, <2>3, <1>4, <1>5
<1>8. ASSUME NEW s \in T, NEW x \in Frames
      PROVE  Append(s, x) \in T
  <2>1. s \in Seq(Frames) /\ Others(L(s), stop) = Others(R(s), stop)
    OBVIOUS
  <2>2. CASE x.stop = stop
    <3>1. Others(L(Append(s, x)), stop) = Others(L(s), stop)
      BY <2>1, <2>2, <1>6
    <3>2. Others(R(Append(s, x)), stop) = Others(R(s), stop) /\ Append(s, x) \in Seq(Frames)
      BY <2>1, <2>2, <1>7
    <3> QED BY <2>1, <3>1, <3>2
  <2>3. CASE x.stop # stop
    <3>1. /\ Append(s, x) \in Seq(Frames)
          /\ Others(L(Append(s, x)), stop) = UpdateDependencies(Others(L(s), stop), TRUE, x)
          /\ Others(R(Append(s, x)), stop) = UpdateDependencies(Others(R(s), stop), TRUE, x)
      BY <2>1, <2>3, <1>7
    <3> QED BY <2>1, <3>1
  <2> QED BY <2>2, <2>3
<1>9. Seq(Frames) \subseteq T
  BY <1>1, <1>8, Sifting!SeqInd
<1> QED BY <1>9 DEF L, R

\* Mixing in what a mixer remembers of some frames is mixing in the frames.
LEMMA MixedRemembered ==
  ASSUME NEW p \in Seq(Frames), Miscible(p)
  PROVE  \A s \in Seq(Frames) : Mixed(p, TRUE, ParentsAfter(TRUE, s)) = Mixed(p, TRUE, s)
<1> DEFINE K(s) == ParentsAfter(TRUE, s)
           M(s) == Mixed(p, TRUE, s)
           T == {s \in Seq(Frames) : M(K(s)) = M(s)}
<1>1. <<>> \in T
  <2>1. <<>> \in Seq(Frames)
    OBVIOUS
  <2>2. K(<<>>) = <<>>
    BY MixedNone DEF ParentsAfter
  <2> QED BY <2>1, <2>2, Zenon
<1>2. \A s \in Seq(Frames) : K(s) \in Seq(Frames) /\ M(s) \in Seq(Frames)
  <2>1. <<>> \in Seq(Frames) /\ Miscible(<<>>)
    BY DEF Miscible
  <2> QED BY <2>1, MixedTypes DEF ParentsAfter
<1>3. \A s \in Seq(Frames) : \A x \in Frames : K(Append(s, x)) = UpdateDependencies(K(s), TRUE, x)
  BY MixedAppend DEF ParentsAfter
<1>4. \A s \in Seq(Frames) : \A x \in Frames : M(Append(s, x)) = UpdateDependencies(M(s), TRUE, x)
  BY MixedAppend
<1>5. \A s \in Seq(Frames) : \A stop : Others(M(Others(s, stop)), stop) = Others(M(s), stop)
  BY MixedOthers
<1> HIDE DEF K, M
<1>6. ASSUME NEW s \in T, NEW x \in Frames
      PROVE  Append(s, x) \in T
  <2>1. s \in Seq(Frames) /\ Append(s, x) \in Seq(Frames) /\ M(K(s)) = M(s)
    OBVIOUS
  <2>2. CASE x.stop \in Immiscible
    <3>1. K(Append(s, x)) = K(s) /\ M(Append(s, x)) = M(s)
      BY <2>1, <2>2, <1>3, <1>4 DEF UpdateDependencies
    <3> QED BY <2>1, <3>1
  <2>3. CASE x.stop \notin Immiscible
    <3> DEFINE o == Others(K(s), x.stop)
    <3>1. K(Append(s, x)) = Append(o, x)
      BY <2>1, <2>3, <1>3 DEF UpdateDependencies
    <3>2. o \in Seq(Frames) /\ M(o) \in Seq(Frames)
      BY <2>1, <1>2, OthersSeq
    <3>3. M(Append(o, x)) = Append(Others(M(o), x.stop), x)
      BY <2>3, <3>2, <1>4 DEF UpdateDependencies
    <3>4. Others(M(o), x.stop) = Others(M(K(s)), x.stop)
      BY <2>1, <1>2, <1>5
    <3>5. M(Append(s, x)) = Append(Others(M(s), x.stop), x)
      BY <2>1, <2>3, <1>4 DEF UpdateDependencies
    <3> HIDE DEF o
    <3>6. M(K(Append(s, x))) = M(Append(s, x))
      BY <2>1, <3>1, <3>3, <3>4, <3>5
    <3> QED BY <2>1, <3>6
  <2> QED BY <2>2, <2>3
<1>7. Seq(Frames) \subseteq T
  BY <1>1, <1>6, Sifting!SeqInd
<1> QED BY <1>7 DEF K, M

-----------------------------------------------------------------------------
(* What is shown of a frame: its parents, in order, and the frame itself.   *)

ShownAfter(before, x) == Append(Others(ParentsAfter(TRUE, before), x.stop), x)

LEMMA ParentsTypes ==
  ASSUME NEW s \in Seq(Frames)
  PROVE  ParentsAfter(TRUE, s) \in Seq(Frames) /\ Miscible(ParentsAfter(TRUE, s))
<1>1. <<>> \in Seq(Frames) /\ Miscible(<<>>)
  BY DEF Miscible
<1> QED BY <1>1, MixedTypes DEF ParentsAfter

LEMMA ShownTypes ==
  ASSUME NEW s \in Seq(Frames), NEW x \in Frames
  PROVE  /\ Others(ParentsAfter(TRUE, s), x.stop) \in Seq(Frames)
         /\ ShownAfter(s, x) \in Seq(Frames)
         /\ ShownAfter(s, x) # <<>>
         /\ Last(ShownAfter(s, x)) = x
<1> DEFINE o == Others(ParentsAfter(TRUE, s), x.stop)
<1>1. o \in Seq(Frames)
  BY ParentsTypes, OthersSeq
<1> HIDE DEF o
<1>2. Append(o, x) \in Seq(Frames) /\ Append(o, x) # <<>> /\ Last(Append(o, x)) = x
  BY <1>1 DEF Last
<1> QED BY <1>1, <1>2 DEF ShownAfter, o

\* The parents mixed into a frame just seen are the others seen before.
LEMMA MixedInto ==
  ASSUME NEW p \in Seq(Frames), Miscible(p), NEW x \in Frames
  PROVE  GetMixedFrames(UpdateDependencies(p, TRUE, x), TRUE, x.stop) = Others(p, x.stop)
<1> DEFINE o == Others(p, x.stop)
           u == Append(o, x)
<1>1. o \in Seq(Frames) /\ \A i \in DOMAIN o : o[i].stop # x.stop
  BY OthersSeq, OthersStops
<1>2. CASE x.stop \in Immiscible
  <2>1. UpdateDependencies(p, TRUE, x) = p
    BY <1>2 DEF UpdateDependencies
  <2>2. ~HasStop(p, x.stop)
    BY <1>2 DEF HasStop, Miscible
  <2> QED BY <2>1, <2>2 DEF GetMixedFrames
<1>3. CASE x.stop \notin Immiscible
  <2>1. UpdateDependencies(p, TRUE, x) = u
    BY <1>3 DEF UpdateDependencies
  <2> HIDE DEF o
  <2>2. /\ Len(u) = Len(o) + 1 /\ DOMAIN u = 1 .. Len(o) + 1 /\ u[Len(o) + 1] = x
        /\ \A i \in 1 .. Len(o) : u[i] = o[i]
        /\ SubSeq(u, 1, Len(o)) = o
        /\ Len(o) \in Nat /\ DOMAIN o = 1 .. Len(o)
    BY <1>1
  <2> HIDE DEF u
  <2>3. HasStop(u, x.stop)
    BY <2>2 DEF HasStop
  <2>4. {i \in 1 .. Len(u) : u[i].stop = x.stop} = {Len(u)}
    BY <1>1, <2>2
  <2>5. SelectInSeq(u, LAMBDA y : y.stop = x.stop) = Len(u)
    <3>1. SelectInSeq(u, LAMBDA y : y.stop = x.stop) = Min({Len(u)})
      BY <2>4 DEF SelectInSeq
    <3> QED BY <2>2, <3>1 DEF Min
  <2>6. GetMixedFrames(u, TRUE, x.stop) = SubSeq(u, 1, Len(u) - 1)
    BY <2>3, <2>5 DEF GetMixedFrames
  <2>7. Len(u) - 1 = Len(o)
    BY <2>2
  <2> QED BY <2>1, <2>2, <2>6, <2>7 DEF o
<1> QED BY <1>2, <1>3

\* get_current_frame_and_deps of a file that has delivered pos frames.
LEMMA CurrentShows ==
  ASSUME NEW f, f.data \in Seq(Frames), f.pos \in 1 .. Len(f.data)
  PROVE  CurrentAndDeps(f) = ShownAfter(SubSeq(f.data, 1, f.pos - 1), f.data[f.pos])
<1> DEFINE s == SubSeq(f.data, 1, f.pos - 1)
           x == f.data[f.pos]
           k == ParentsAfter(TRUE, s)
<1>1. f.pos - 1 \in Nat /\ f.pos - 1 < Len(f.data) /\ (f.pos - 1) + 1 = f.pos /\ f.pos # 0
  OBVIOUS
<1>2. s \in Seq(Frames) /\ x \in Frames /\ SubSeq(f.data, 1, f.pos) = Append(s, x)
  BY <1>1, Sifting!SeqParts
<1>3. CurrentAndDeps(f) =
        Append(GetMixedFrames(ParentsAfter(TRUE, SubSeq(f.data, 1, f.pos)), TRUE, x.stop), x)
  BY <1>1 DEF CurrentAndDeps
<1> HIDE DEF s, x
<1>4. ParentsAfter(TRUE, Append(s, x)) = UpdateDependencies(k, TRUE, x)
  BY <1>2, MixedAppend DEF ParentsAfter
<1>5. k \in Seq(Frames) /\ Miscible(k)
  BY <1>2, ParentsTypes
<1> HIDE DEF k
<1>6. GetMixedFrames(UpdateDependencies(k, TRUE, x), TRUE, x.stop) = Others(k, x.stop)
  BY <1>2, <1>5, MixedInto
<1> QED BY <1>2, <1>3, <1>4, <1>6 DEF ShownAfter, s, x, k

\* What the local mixer has of the frame a file shows, on top of the parents
\* in the files passed by.
LEMMA MixerHas ==
  ASSUME NEW before \in Seq(Frames), NEW s \in Seq(Frames), NEW x \in Frames
  PROVE  \E q \in Seq(Frames) :
           /\ Miscible(q)
           /\ Mixed(ParentsAfter(TRUE, before), TRUE, ShownAfter(s, x)) =
                UpdateDependencies(q, TRUE, x)
           /\ Others(q, x.stop) = Others(ParentsAfter(TRUE, before \o s), x.stop)
           /\ x.stop \in Immiscible => q = ParentsAfter(TRUE, before \o s)
<1> DEFINE p == ParentsAfter(TRUE, before)
           k == ParentsAfter(TRUE, s)
           o == Others(k, x.stop)
           q == Mixed(p, TRUE, o)
<1>1. p \in Seq(Frames) /\ Miscible(p) /\ k \in Seq(Frames) /\ Miscible(k)
  BY ParentsTypes
<1>2. Mixed(p, TRUE, k) = ParentsAfter(TRUE, before \o s)
  <2>1. Mixed(p, TRUE, k) = Mixed(p, TRUE, s)
    BY <1>1, MixedRemembered
  <2>2. Mixed(<<>>, TRUE, before \o s) = Mixed(Mixed(<<>>, TRUE, before), TRUE, s)
    BY MixedConcat
  <2> QED BY <2>1, <2>2 DEF ParentsAfter
<1> HIDE DEF p, k
<1>3. o \in Seq(Frames)
  BY <1>1, OthersSeq
<1>4. Others(Mixed(p, TRUE, o), x.stop) = Others(Mixed(p, TRUE, k), x.stop)
  BY <1>1, MixedOthers
<1>5. x.stop \in Immiscible => o = k
  BY <1>1, OthersAll DEF Miscible
<1> HIDE DEF o
<1>6. q \in Seq(Frames) /\ Miscible(q)
  BY <1>1, <1>3, MixedTypes
<1>7. Mixed(p, TRUE, Append(o, x)) = UpdateDependencies(q, TRUE, x)
  BY <1>3, MixedAppend
<1>8. Others(q, x.stop) = Others(ParentsAfter(TRUE, before \o s), x.stop)
  BY <1>2, <1>4
<1>9. x.stop \in Immiscible => q = ParentsAfter(TRUE, before \o s)
  BY <1>2, <1>5
<1>10. Mixed(p, TRUE, ShownAfter(s, x)) = UpdateDependencies(q, TRUE, x)
  BY <1>7 DEF ShownAfter, o, k
<1> HIDE DEF q
<1> QED BY <1>6, <1>8, <1>9, <1>10 DEF p

\* get_frame mixes the parents that a file's own mixer shows over those of the
\* files before: the frame is shown with the parents in all files up to it,
THEOREM WithParentsShows ==
  ASSUME NEW before \in Seq(Frames), NEW s \in Seq(Frames), NEW x \in Frames
  PROVE  WithParents(ParentsAfter(TRUE, before), ShownAfter(s, x)) = ShownAfter(before \o s, x)
<1>1. PICK q \in Seq(Frames) :
           /\ Miscible(q)
           /\ Mixed(ParentsAfter(TRUE, before), TRUE, ShownAfter(s, x)) =
                UpdateDependencies(q, TRUE, x)
           /\ Others(q, x.stop) = Others(ParentsAfter(TRUE, before \o s), x.stop)
  BY MixerHas
<1>2. Last(ShownAfter(s, x)) = x
  BY ShownTypes
<1>3. GetMixedFrames(UpdateDependencies(q, TRUE, x), TRUE, x.stop) = Others(q, x.stop)
  BY <1>1, MixedInto
<1> QED BY <1>1, <1>2, <1>3 DEF WithParents, ShownAfter

\* and a file passed by leaves the parents that are in it, although only those
\* of its last frame are mixed in.
LEMMA LastFramesMix ==
  ASSUME NEW before \in Seq(Frames), NEW s \in Seq(Frames), NEW x \in Frames
  PROVE  Mixed(ParentsAfter(TRUE, before), TRUE, ShownAfter(s, x)) =
           ParentsAfter(TRUE, before \o Append(s, x))
<1>1. PICK q \in Seq(Frames) :
           /\ Miscible(q)
           /\ Mixed(ParentsAfter(TRUE, before), TRUE, ShownAfter(s, x)) =
                UpdateDependencies(q, TRUE, x)
           /\ Others(q, x.stop) = Others(ParentsAfter(TRUE, before \o s), x.stop)
           /\ x.stop \in Immiscible => q = ParentsAfter(TRUE, before \o s)
  BY MixerHas
<1>2. before \o Append(s, x) = Append(before \o s, x) /\ before \o s \in Seq(Frames)
  OBVIOUS
<1> DEFINE k == ParentsAfter(TRUE, before \o s)
<1>3. ParentsAfter(TRUE, Append(before \o s, x)) = UpdateDependencies(k, TRUE, x)
  BY <1>2, MixedAppend DEF ParentsAfter
<1> HIDE DEF k
<1>4. UpdateDependencies(q, TRUE, x) = UpdateDependencies(k, TRUE, x)
  BY <1>1 DEF UpdateDependencies, k
<1> QED BY <1>1, <1>2, <1>3, <1>4

-----------------------------------------------------------------------------
(* All files as one sequence.                                               *)

\* The frames of the first n files.
FirstFrames(fs, n) == Promise!Joined(SubSeq(fs, 1, n))

LEMMA FirstFramesNone ==
  ASSUME NEW fs
  PROVE  FirstFrames(fs, 0) = <<>>
<1>1. SubSeq(fs, 1, 0) = <<>>
  OBVIOUS
<1> QED BY <1>1, Promise!Joining!FoldEmpty DEF FirstFrames, Promise!Joined

LEMMA FirstFramesMore ==
  ASSUME NEW fs \in Seq(Seq(Frames)), NEW n \in Nat, n < Len(fs)
  PROVE  FirstFrames(fs, n + 1) = FirstFrames(fs, n) \o fs[n + 1]
<1> DEFINE s == SubSeq(fs, 1, n)
<1>1. s \in Seq(Seq(Frames)) /\ fs[n + 1] \in Seq(Frames) /\ SubSeq(fs, 1, n + 1) = Append(s, fs[n + 1])
  BY Sifting!SeqParts
<1> HIDE DEF s
<1>2. Promise!Joined(Append(s, fs[n + 1])) = Promise!Joined(s) \o fs[n + 1]
  BY <1>1, Promise!Joining!FoldAppend DEF Promise!Joined, Promise!JoinFile
<1> QED BY <1>1, <1>2 DEF FirstFrames, s

LEMMA FirstFramesAll ==
  ASSUME NEW fs \in Seq(Seq(Frames))
  PROVE  FirstFrames(fs, Len(fs)) = Promise!Joined(fs)
<1>1. SubSeq(fs, 1, Len(fs)) = fs
  OBVIOUS
<1> QED BY <1>1 DEF FirstFrames

LEMMA FirstFramesTypes ==
  ASSUME NEW fs \in Seq(Seq(Frames))
  PROVE  \A n \in 0 .. Len(fs) : FirstFrames(fs, n) \in Seq(Frames)
<1> DEFINE T == {n \in 0 .. Len(fs) : FirstFrames(fs, n) \in Seq(Frames)}
<1>1. 0 \in T
  <2>1. <<>> \in Seq(Frames) /\ 0 \in 0 .. Len(fs)
    OBVIOUS
  <2> QED BY <2>1, FirstFramesNone
<1>2. \A n \in 0 .. Len(fs) - 1 : n \in T => n + 1 \in T
  <2> SUFFICES ASSUME NEW n \in 0 .. Len(fs) - 1, FirstFrames(fs, n) \in Seq(Frames)
               PROVE  FirstFrames(fs, n + 1) \in Seq(Frames) /\ n + 1 \in 0 .. Len(fs)
    OBVIOUS
  <2>1. n \in Nat /\ n < Len(fs) /\ fs[n + 1] \in Seq(Frames) /\ n + 1 \in 0 .. Len(fs)
    OBVIOUS
  <2>2. FirstFrames(fs, n) \o fs[n + 1] \in Seq(Frames)
    BY <2>1
  <2> QED BY <2>1, <2>2, FirstFramesMore
<1>3. Len(fs) \in Nat
  OBVIOUS
<1> HIDE DEF T
<1>4. 0 .. Len(fs) \subseteq T
  BY <1>1, <1>2, <1>3, Sifting!NatIndUpTo
<1> QED BY <1>4 DEF T

Begins(s, t) == Len(s) <= Len(t) /\ \A k \in 1 .. Len(s) : t[k] = s[k]

\* The frames of all files begin with those of the first ones.
LEMMA FirstFramesBegin ==
  ASSUME NEW fs \in Seq(Seq(Frames)), NEW m \in 0 .. Len(fs)
  PROVE  \A n \in m .. Len(fs) : Begins(FirstFrames(fs, m), FirstFrames(fs, n))
<1> DEFINE F(n) == FirstFrames(fs, n)
           T == {d \in 0 .. Len(fs) - m : Begins(F(m), F(m + d))}
<1>1. \A n \in 0 .. Len(fs) : F(n) \in Seq(Frames) /\ Len(F(n)) \in Nat
  BY FirstFramesTypes
<1>2. \A n \in 0 .. Len(fs) - 1 : F(n + 1) = F(n) \o fs[n + 1] /\ fs[n + 1] \in Seq(Frames)
  BY FirstFramesMore
<1> HIDE DEF F
<1>3. Len(fs) \in Nat /\ Len(fs) - m \in Nat
  OBVIOUS
<1>4. 0 \in T
  BY <1>1, <1>3 DEF Begins
<1>5. \A d \in 0 .. Len(fs) - m - 1 : d \in T => d + 1 \in T
  <2> SUFFICES ASSUME NEW d \in 0 .. Len(fs) - m - 1, Begins(F(m), F(m + d))
               PROVE  d + 1 \in 0 .. Len(fs) - m /\ Begins(F(m), F(m + (d + 1)))
    OBVIOUS
  <2>1. m + d \in 0 .. Len(fs) - 1 /\ m + (d + 1) = (m + d) + 1 /\ d + 1 \in 0 .. Len(fs) - m
    BY <1>3
  <2> DEFINE s == F(m + d)
             t == fs[(m + d) + 1]
  <2>2. s \in Seq(Frames) /\ t \in Seq(Frames) /\ F((m + d) + 1) = s \o t
    <3>1. s \in Seq(Frames)
      BY <1>1, <1>3, <2>1
    <3> QED BY <1>2, <2>1, <3>1
  <2>3. F(m) \in Seq(Frames) /\ Begins(F(m), s)
    BY <1>1
  <2> HIDE DEF s, t
  <2>4. Begins(s, s \o t)
    BY <2>2 DEF Begins
  <2>5. Begins(F(m), s \o t)
    BY <2>2, <2>3, <2>4 DEF Begins
  <2> QED BY <2>1, <2>2, <2>5
<1> HIDE DEF T
<1>6. 0 .. Len(fs) - m \subseteq T
  BY <1>3, <1>4, <1>5, Sifting!NatIndUpTo
<1>7. ASSUME NEW n \in m .. Len(fs)
      PROVE  Begins(F(m), F(n))
  <2>1. n - m \in 0 .. Len(fs) - m /\ m + (n - m) = n
    BY <1>3
  <2> QED BY <2>1, <1>6 DEF T
<1> QED BY <1>7 DEF F

\* A concatenation: its first part and its second.
LEMMA ConcatFrames ==
  ASSUME NEW s \in Seq(Frames), NEW t \in Seq(Frames)
  PROVE  /\ s \o t \in Seq(Frames) /\ Len(s \o t) = Len(s) + Len(t)
         /\ \A i \in 1 .. Len(s) : (s \o t)[i] = s[i]
         /\ \A i \in 1 .. Len(t) : (s \o t)[Len(s) + i] = t[i]
OBVIOUS

\* Place k (from 0) of t in a sequence that goes on with t after s.
Placed(s, t, all, k) ==
  /\ Len(s) + k < Len(all)
  /\ SubSeq(all, 1, Len(s) + k) = s \o SubSeq(t, 1, k)
  /\ all[Len(s) + k + 1] = t[k + 1]

LEMMA Split ==
  ASSUME NEW s \in Seq(Frames), NEW t \in Seq(Frames), NEW all \in Seq(Frames),
         Begins(s \o t, all), NEW k \in Nat, k < Len(t)
  PROVE  Placed(s, t, all, k)
<1> DEFINE u == s \o t
<1>1. Len(u) = Len(s) + Len(t) /\ Len(s) \in Nat /\ Len(t) \in Nat /\ Len(all) \in Nat
  OBVIOUS
<1>2. (\A i \in 1 .. Len(s) : u[i] = s[i]) /\ \A i \in 1 .. Len(t) : u[Len(s) + i] = t[i]
  OBVIOUS
<1> HIDE DEF u
<1>3. Len(u) <= Len(all) /\ \A i \in 1 .. Len(u) : all[i] = u[i]
  BY DEF Begins, u
<1>4. Len(s) + k < Len(all)
  BY <1>1, <1>3
<1>5. all[Len(s) + k + 1] = t[k + 1]
  <2>1. k + 1 \in 1 .. Len(t) /\ Len(s) + k + 1 = Len(s) + (k + 1) /\ Len(s) + (k + 1) \in 1 .. Len(u)
    BY <1>1
  <2> QED BY <1>2, <1>3, <2>1
<1> DEFINE a == SubSeq(all, 1, Len(s) + k)
           c == SubSeq(t, 1, k)
           b == s \o c
<1>6. /\ a \in Seq(Frames) /\ Len(a) = Len(s) + k
      /\ \A i \in 1 .. Len(s) + k : a[i] = all[i]
  BY <1>1, <1>4
<1>7. c \in Seq(Frames) /\ Len(c) = k /\ \A i \in 1 .. k : c[i] = t[i]
  BY <1>1
<1> HIDE DEF c
<1>8. /\ b \in Seq(Frames) /\ Len(b) = Len(s) + k
      /\ (\A i \in 1 .. Len(s) : b[i] = s[i]) /\ \A i \in 1 .. k : b[Len(s) + i] = c[i]
  BY <1>7, ConcatFrames
<1> HIDE DEF a, b
<1>9. ASSUME NEW i \in 1 .. Len(s) + k
      PROVE  a[i] = b[i]
  <2>1. a[i] = u[i]
    BY <1>1, <1>3, <1>6
  <2>2. CASE i \in 1 .. Len(s)
    BY <1>2, <1>8, <2>1, <2>2
  <2>3. CASE i \notin 1 .. Len(s)
    <3>1. i - Len(s) \in 1 .. k /\ i - Len(s) \in 1 .. Len(t) /\ Len(s) + (i - Len(s)) = i
      BY <1>1, <2>3
    <3> QED BY <1>2, <1>7, <1>8, <2>1, <3>1
  <2> QED BY <2>2, <2>3
<1>10. a = b
  BY <1>6, <1>8, <1>9, SeqEqual
<1> QED BY <1>4, <1>5, <1>10 DEF a, b, c, Placed

\* The frame k of file n among all frames, and those before it.
LEMMA FrameOfFile ==
  ASSUME NEW fs \in Seq(Seq(Frames)), NEW n \in 0 .. Len(fs) - 1,
         NEW k \in Nat, k < Len(fs[n + 1])
  PROVE  Placed(FirstFrames(fs, n), fs[n + 1], Promise!Joined(fs), k)
<1> DEFINE before == FirstFrames(fs, n)
           frames == Promise!Joined(fs)
           t == fs[n + 1]
<1>1. Len(fs) \in Nat /\ n \in 0 .. Len(fs) /\ n + 1 \in 0 .. Len(fs) /\ Len(fs) \in n + 1 .. Len(fs)
      /\ n \in Nat /\ n < Len(fs) /\ Len(fs) \in 0 .. Len(fs)
  OBVIOUS
<1>2. frames = FirstFrames(fs, Len(fs)) /\ frames \in Seq(Frames) /\ before \in Seq(Frames)
  BY <1>1, FirstFramesAll, FirstFramesTypes
<1>3. FirstFrames(fs, n + 1) = before \o t /\ t \in Seq(Frames)
  BY <1>1, FirstFramesMore
<1>4. Begins(before \o t, frames)
  BY <1>1, <1>2, <1>3, FirstFramesBegin
<1> HIDE DEF before, frames, t
<1>5. k < Len(t)
  BY DEF t
<1>6. Placed(before, t, frames, k)
  BY <1>2, <1>3, <1>4, <1>5, Split
<1> QED BY <1>6 DEF before, frames, t

-----------------------------------------------------------------------------
(* One file.                                                                *)

Files == [data : Seq(Frames), pos : Nat, frameno : Nat, size : Nat, has_size : BOOLEAN]

\* The program's count is how much the stream has delivered, the size the most
\* it has ever been, and known only when that is all there is.
FileOK(f) ==
  /\ f \in Files
  /\ f.frameno = f.pos
  /\ f.pos <= f.size
  /\ f.size <= Len(f.data)
  /\ f.has_size => f.size = Len(f.data)

\* The file after reading: n frames delivered.
ReadTo(f, g, n) ==
  /\ FileOK(g)
  /\ g.data = f.data
  /\ g.has_size = f.has_size
  /\ g.frameno = n

LEMMA NewFileOK ==
  ASSUME NEW data \in Seq(Frames)
  PROVE  FileOK(NewFileStruct(data)) /\ NewFileStruct(data).data = data
BY DEF FileOK, Files, NewFileStruct

LEMMA FileReadOK ==
  ASSUME NEW f, FileOK(f), NEW n \in 0 .. Len(f.data) - f.pos
  PROVE  ReadTo(f, FileRead(f, n), f.pos + n)
<1> DEFINE g == FileRead(f, n)
           pos == f.pos + n
           count == f.frameno + n
           size == IF n > 0 /\ f.frameno + n > f.size THEN f.frameno + n ELSE f.size
<1>1. f \in Files /\ Len(f.data) \in Nat /\ f.pos \in Nat /\ f.frameno = f.pos /\ f.size \in Nat
      /\ n \in Nat
  BY DEF FileOK, Files
<1>2. pos \in Nat /\ count = pos /\ pos <= size /\ size \in Nat /\ size <= Len(f.data)
      /\ (f.has_size => size = Len(f.data))
  BY <1>1 DEF FileOK
<1>3. g = [f EXCEPT !.pos = pos, !.frameno = count, !.size = size]
  BY DEF FileRead
<1> HIDE DEF pos, count, size, g
<1>4. [f EXCEPT !.pos = pos, !.frameno = count, !.size = size] \in Files
  BY <1>1, <1>2 DEF Files
<1>5. /\ g \in Files /\ g.data = f.data /\ g.pos = pos /\ g.frameno = count
      /\ g.size = size /\ g.has_size = f.has_size
  BY <1>1, <1>3, <1>4 DEF Files
<1> QED BY <1>2, <1>5 DEF ReadTo, FileOK, g, pos

LEMMA FileRewindOK ==
  ASSUME NEW f, FileOK(f)
  PROVE  ReadTo(f, FileRewind(f), 0) /\ FileRewind(f).pos = 0
<1> DEFINE g == FileRewind(f)
<1>1. f \in Files /\ Len(f.data) \in Nat
  BY DEF FileOK, Files
<1>2. g \in Files
  BY <1>1 DEF FileRewind, Files
<1>3. g.data = f.data /\ g.pos = 0 /\ g.frameno = 0 /\ g.size = f.size /\ g.has_size = f.has_size
  BY <1>1 DEF FileRewind, Files
<1> HIDE DEF g
<1> QED BY <1>1, <1>2, <1>3 DEF ReadTo, FileOK, g, Files

\* Reading on in a file whose end was not seen, from wherever it stands, leads
\* to the frame or to the end.
LEMMA ReadTowardsOK ==
  ASSUME NEW f, FileOK(f), NEW k \in Nat
  PROVE  ReadTo(f, ReadTowards(f, k), IF k < Len(f.data) THEN k + 1 ELSE Len(f.data))
<1>1. f.pos \in Nat /\ f.frameno = f.pos /\ f.pos <= Len(f.data) /\ Len(f.data) \in Nat
  BY DEF FileOK, Files
<1>2. CASE k < f.frameno - 1
  <2> DEFINE g == FileRewind(f)
  <2>1. FileOK(g) /\ g.pos = 0 /\ g.data = f.data /\ g.has_size = f.has_size
    BY FileRewindOK DEF ReadTo
  <2>2. ReadTowards(f, k) = FileReadAtMost(g, k + 1)
    BY <1>2 DEF ReadTowards
  <2> HIDE DEF g
  <2>3. k + 1 <= Len(g.data) - g.pos /\ k + 1 \in 0 .. Len(g.data) - g.pos /\ g.pos + (k + 1) = k + 1
    BY <1>1, <1>2, <2>1
  <2>4. ReadTowards(f, k) = FileRead(g, k + 1)
    BY <2>2, <2>3 DEF FileReadAtMost
  <2>5. ReadTo(g, FileRead(g, k + 1), k + 1)
    BY <2>1, <2>3, FileReadOK
  <2> QED BY <1>1, <1>2, <2>1, <2>4, <2>5 DEF ReadTo
<1>3. CASE ~(k < f.frameno - 1)
  <2> DEFINE n == IF k + 1 - f.frameno <= Len(f.data) - f.pos
                  THEN k + 1 - f.frameno ELSE Len(f.data) - f.pos
  <2>1. ReadTowards(f, k) = FileRead(f, n)
    BY <1>3 DEF ReadTowards, FileReadAtMost
  <2>2. n \in 0 .. Len(f.data) - f.pos /\ f.pos + n = IF k < Len(f.data) THEN k + 1 ELSE Len(f.data)
    BY <1>1, <1>3
  <2> HIDE DEF n
  <2>3. ReadTo(f, FileRead(f, n), f.pos + n)
    BY <2>2, FileReadOK
  <2> QED BY <2>1, <2>2, <2>3
<1> QED BY <1>2, <1>3

\* seek and pop_frame find the next frame of the file, and the first one.
LEMMA SeekAndPopOK ==
  ASSUME NEW f, FileOK(f), NEW k \in Nat, k < Len(f.data), k \in {0, f.frameno}
  PROVE  \E g : FileSeekAndPop(f, k) = Outcome(TRUE, g) /\ ReadTo(f, g, k + 1)
<1>1. f.pos \in Nat /\ f.frameno = f.pos /\ f.pos <= Len(f.data) /\ Len(f.data) \in Nat
  BY DEF FileOK, Files
<1> DEFINE g == IF k < f.frameno THEN FileRewind(f) ELSE f
<1>2. ReadTo(f, g, k) /\ g.pos = k
  BY <1>1, FileRewindOK DEF ReadTo, FileOK
<1>3. FileSeek(f, k) = Outcome(TRUE, g)
  BY <1>2 DEF FileSeek, ReadTo
<1> HIDE DEF g
<1>4. FilePop(g) = Outcome(TRUE, FileRead(g, 1))
  BY <1>1, <1>2 DEF FilePop, FileMore, ReadTo
<1>5. FileSeekAndPop(f, k) = Outcome(TRUE, FileRead(g, 1))
  <2>1. Outcome(TRUE, g).ok /\ Outcome(TRUE, g).file = g
    BY DEF Outcome
  <2>2. \A s : FileSeek(f, k) = s => FileSeekAndPop(f, k) = IF s.ok THEN FilePop(s.file) ELSE s
    BY DEF FileSeekAndPop
  <2>3. FileSeekAndPop(f, k) = FilePop(g)
    BY <1>3, <2>1, <2>2
  <2> QED BY <1>4, <2>3
<1>6. ReadTo(g, FileRead(g, 1), k + 1)
  <2>1. FileOK(g) /\ 1 \in 0 .. Len(g.data) - g.pos /\ g.pos + 1 = k + 1
    BY <1>1, <1>2 DEF ReadTo
  <2> QED BY <2>1, FileReadOK
<1>7. ReadTo(f, FileRead(g, 1), k + 1)
  BY <1>2, <1>6 DEF ReadTo
<1> QED BY <1>5, <1>7

-----------------------------------------------------------------------------
(* One file of the search.                                                  *)

Accs == [files : Seq(Files), index : Int, parents : Seq(Frames), done : BOOLEAN, ok : BOOLEAN,
         frames : Seq(Frames)]

\* Of the accumulator after file g was looked into, what is always the same.
Leaves(acc, r, g) == r \in Accs /\ r.files = Append(acc.files, g) /\ r.ok = acc.ok

LEMMA VisitedIs ==
  ASSUME NEW acc \in Accs, NEW g \in Files
  PROVE  /\ Leaves(acc, Visited(acc, g), g)
         /\ Visited(acc, g).index = acc.index /\ Visited(acc, g).parents = acc.parents
         /\ Visited(acc, g).done = acc.done /\ Visited(acc, g).frames = acc.frames
<1>1. acc.files \in Seq(Files) /\ Append(acc.files, g) \in Seq(Files)
  BY DEF Accs
<1>2. Visited(acc, g) \in Accs
  <2> DEFINE all == Append(acc.files, g)
  <2>1. Visited(acc, g) = [acc EXCEPT !.files = all]
    BY DEF Visited
  <2>2. all \in Seq(Files)
    BY <1>1
  <2> HIDE DEF all
  <2>3. [acc EXCEPT !.files = all] \in Accs
    BY <2>2 DEF Accs
  <2> QED BY <2>1, <2>3
<1>3. Visited(acc, g).files = Append(acc.files, g) /\ Visited(acc, g).ok = acc.ok
  BY DEF Visited, Accs
<1> QED BY <1>2, <1>3 DEF Visited, Accs, Leaves

LEMMA FoundIs ==
  ASSUME NEW acc \in Accs, NEW g \in Files, NEW frames \in Seq(Frames),
         WithParents(acc.parents, CurrentAndDeps(g)) = frames
  PROVE  /\ Leaves(acc, Found(acc, g), g)
         /\ Found(acc, g).done /\ Found(acc, g).frames = frames
<1> DEFINE v == Visited(acc, g)
<1>1. Leaves(acc, v, g)
  BY VisitedIs
<1>2. Found(acc, g) = [v EXCEPT !.done = TRUE, !.frames = frames]
  BY DEF Found
<1> HIDE DEF v
<1>3. PICK d \in BOOLEAN : d = TRUE
  OBVIOUS
<1>4. [v EXCEPT !.done = d, !.frames = frames] \in Accs
  BY <1>1 DEF Accs, Leaves
<1>5. Found(acc, g) = [v EXCEPT !.done = d, !.frames = frames]
  BY <1>2, <1>3
<1> QED BY <1>1, <1>3, <1>4, <1>5 DEF Leaves, Accs

LEMMA BeyondIs ==
  ASSUME NEW acc \in Accs, NEW g \in Files, g.size <= acc.index,
         NEW parents \in Seq(Frames), Mixed(acc.parents, TRUE, LastFrames(g)) = parents
  PROVE  /\ Leaves(acc, Beyond(acc, g), g)
         /\ Beyond(acc, g).done = acc.done
         /\ Beyond(acc, g).index = acc.index - g.size
         /\ Beyond(acc, g).parents = parents
         /\ Beyond(acc, g).frames = acc.frames
<1> DEFINE v == Visited(acc, g)
           index == acc.index - g.size
<1>1. /\ Leaves(acc, v, g) /\ v.index = acc.index /\ v.done = acc.done
      /\ v.frames = acc.frames
  BY VisitedIs
<1>2. acc.index \in Int /\ g.size \in Int
  BY DEF Accs, Files
<1>3. Beyond(acc, g) = [v EXCEPT !.index = index, !.parents = parents]
  <2>1. ~(g.size > acc.index)
    BY <1>2
  <2>2. Beyond(acc, g) = [v EXCEPT !.index = v.index - g.size, !.parents = parents]
    BY <2>1 DEF Beyond
  <2> QED BY <1>1, <2>2, Zenon
<1>4. index \in Int
  BY <1>2
<1> HIDE DEF v, index
<1>5. [v EXCEPT !.index = index, !.parents = parents] \in Accs
  BY <1>1, <1>4 DEF Accs, Leaves
<1> QED BY <1>1, <1>3, <1>4, <1>5 DEF Leaves, Accs, index

\* A file whose end was seen.
LEMMA SizeKnown ==
  ASSUME NEW f, FileOK(f), f.frameno = Len(f.data)
  PROVE  LET g == [f EXCEPT !.has_size = TRUE]
         IN  FileOK(g) /\ g.data = f.data /\ g.size = Len(f.data)
<1> DEFINE g == [f EXCEPT !.has_size = TRUE]
<1>1. f \in Files /\ f.size = Len(f.data)
  BY DEF FileOK, Files
<1>2. PICK known \in BOOLEAN : known = TRUE
  OBVIOUS
<1>3. [f EXCEPT !.has_size = known] \in Files
  BY <1>1 DEF Files
<1>4. g \in Files
  BY <1>2, <1>3
<1>5. g.data = f.data /\ g.size = f.size /\ g.pos = f.pos /\ g.frameno = f.frameno
  BY <1>1 DEF Files
<1> HIDE DEF g
<1> QED BY <1>1, <1>4, <1>5 DEF FileOK, g

LEMMA LastFramesShow ==
  ASSUME NEW f \in Files, f.data # <<>>
  PROVE  LastFrames(f) = ShownAfter(SubSeq(f.data, 1, Len(f.data) - 1), f.data[Len(f.data)])
<1> DEFINE g == [f EXCEPT !.pos = Len(f.data)]
<1>1. f.data \in Seq(Frames) /\ Len(f.data) \in 1 .. Len(f.data)
  BY DEF Files
<1>2. g.data = f.data /\ g.pos = Len(f.data)
  BY DEF Files
<1> HIDE DEF g
<1>3. CurrentAndDeps(g) = ShownAfter(SubSeq(g.data, 1, g.pos - 1), g.data[g.pos])
  BY <1>1, <1>2, CurrentShows
<1> QED BY <1>2, <1>3 DEF LastFrames, g

\* The local mixer after a file with frames was passed by,
LEMMA PassedParents ==
  ASSUME NEW before \in Seq(Frames), NEW f \in Files, f.data # <<>>
  PROVE  Mixed(ParentsAfter(TRUE, before), TRUE, LastFrames(f)) =
           ParentsAfter(TRUE, before \o f.data)
<1> DEFINE n == Len(f.data) - 1
           s == SubSeq(f.data, 1, n)
           x == f.data[n + 1]
<1>1. f.data \in Seq(Frames) /\ n \in Nat /\ n < Len(f.data) /\ n + 1 = Len(f.data)
  BY DEF Files
<1>2. s \in Seq(Frames) /\ x \in Frames /\ SubSeq(f.data, 1, n + 1) = Append(s, x)
  BY <1>1, Sifting!SeqParts
<1>3. SubSeq(f.data, 1, Len(f.data)) = f.data
  BY <1>1
<1>4. LastFrames(f) = ShownAfter(s, x)
  BY <1>1, LastFramesShow
<1>5. f.data = Append(s, x)
  BY <1>1, <1>2, <1>3
<1> HIDE DEF n, s, x
<1> QED BY <1>2, <1>4, <1>5, LastFramesMix

\* and what is returned for a frame of the file just read.
LEMMA FoundFrames ==
  ASSUME NEW before \in Seq(Frames), NEW f, FileOK(f), NEW k \in Nat, k < Len(f.data),
         f.frameno = k + 1
  PROVE  /\ WithParents(ParentsAfter(TRUE, before), CurrentAndDeps(f)) =
              ShownAfter(before \o SubSeq(f.data, 1, k), f.data[k + 1])
         /\ ShownAfter(before \o SubSeq(f.data, 1, k), f.data[k + 1]) \in Seq(Frames)
<1> DEFINE s == SubSeq(f.data, 1, k)
           x == f.data[k + 1]
<1>1. f.data \in Seq(Frames) /\ f.pos = k + 1 /\ f.pos \in 1 .. Len(f.data) /\ f.pos - 1 = k
  BY DEF FileOK, Files
<1>2. s \in Seq(Frames) /\ x \in Frames
  BY <1>1, Sifting!SeqParts
<1>3. CurrentAndDeps(f) = ShownAfter(s, x)
  BY <1>1, CurrentShows
<1> HIDE DEF s, x
<1>4. before \o s \in Seq(Frames)
  BY <1>2
<1>5. WithParents(ParentsAfter(TRUE, before), ShownAfter(s, x)) = ShownAfter(before \o s, x)
  BY <1>2, WithParentsShows
<1>6. ShownAfter(before \o s, x) \in Seq(Frames)
  BY <1>2, <1>4, ShownTypes
<1> QED BY <1>3, <1>5, <1>6 DEF s, x

\* Looking for a frame beyond a file: its parents are mixed in, and it was
\* read to its end.
Passes(acc, r, f, g, before) ==
  /\ Leaves(acc, r, g)
  /\ FileOK(g)
  /\ g.data = f.data
  /\ ~r.done
  /\ r.frames = acc.frames
  /\ r.index = acc.index - Len(f.data)
  /\ r.parents = ParentsAfter(TRUE, before \o f.data)

LEMMA BeyondPasses ==
  ASSUME NEW acc \in Accs, ~acc.done, NEW before \in Seq(Frames),
         acc.parents = ParentsAfter(TRUE, before), NEW f, NEW g, FileOK(g), g.data = f.data,
         g.size = Len(f.data), acc.index >= Len(f.data), f.data # <<>>
  PROVE  Passes(acc, Beyond(acc, g), f, g, before)
<1> DEFINE parents == ParentsAfter(TRUE, before \o f.data)
<1>1. g \in Files /\ acc.index \in Int /\ g.size \in Nat /\ f.data \in Seq(Frames)
  BY DEF FileOK, Files, Accs
<1>2. Mixed(acc.parents, TRUE, LastFrames(g)) = parents
  BY <1>1, PassedParents
<1>3. parents \in Seq(Frames)
  <2>1. before \o f.data \in Seq(Frames)
    BY <1>1
  <2> QED BY <2>1, ParentsTypes
<1> HIDE DEF parents
<1>4. /\ Leaves(acc, Beyond(acc, g), g)
      /\ Beyond(acc, g).done = acc.done
      /\ Beyond(acc, g).index = acc.index - g.size
      /\ Beyond(acc, g).parents = parents
      /\ Beyond(acc, g).frames = acc.frames
  <2>1. g.size <= acc.index
    BY <1>1
  <2> QED BY <1>1, <1>2, <1>3, <2>1, BeyondIs
<1> QED BY <1>4 DEF Passes, parents

LEMMA EmptyPasses ==
  ASSUME NEW acc \in Accs, ~acc.done, NEW before \in Seq(Frames),
         acc.parents = ParentsAfter(TRUE, before), NEW f, NEW g, FileOK(g), g.data = f.data,
         f.data = <<>>
  PROVE  Passes(acc, Visited(acc, g), f, g, before)
<1>1. g \in Files /\ acc.index \in Int /\ Len(f.data) = 0 /\ before \o f.data = before
  BY DEF FileOK, Accs
<1>2. /\ Leaves(acc, Visited(acc, g), g)
      /\ Visited(acc, g).index = acc.index /\ Visited(acc, g).parents = acc.parents
      /\ Visited(acc, g).done = acc.done /\ Visited(acc, g).frames = acc.frames
  BY <1>1, VisitedIs
<1> QED BY <1>1, <1>2 DEF Passes

LEMMA SearchPasses ==
  ASSUME NEW acc \in Accs, ~acc.done, NEW before \in Seq(Frames),
         acc.parents = ParentsAfter(TRUE, before), NEW f, FileOK(f),
         acc.index >= Len(f.data)
  PROVE  \E g : Passes(acc, SearchFile(acc, f), f, g, before)
<1>1. acc.index \in Nat /\ f \in Files /\ f.data \in Seq(Frames) /\ Len(f.data) \in Nat
      /\ f.has_size \in BOOLEAN
  BY DEF Accs, FileOK, Files
<1>2. f.data = <<>> <=> Len(f.data) = 0
  BY <1>1
<1>3. CASE f.has_size
  <2>1. f.size = Len(f.data) /\ ~(f.size > acc.index) /\ f.size <= acc.index
    BY <1>1, <1>3 DEF FileOK
  <2>2. SearchFile(acc, f) = IF f.data = <<>> THEN Visited(acc, f) ELSE Beyond(acc, f)
    BY <1>2, <1>3, <2>1 DEF SearchFile, SearchSized
  <2> QED BY <2>1, <2>2, BeyondPasses, EmptyPasses
<1>4. CASE ~f.has_size
  <2> DEFINE g == ReadTowards(f, acc.index)
             h == [g EXCEPT !.has_size = TRUE]
  <2>1. FileOK(g) /\ g.data = f.data /\ g.frameno = Len(f.data)
    <3>1. ReadTo(f, g, IF acc.index < Len(f.data) THEN acc.index + 1 ELSE Len(f.data))
      BY <1>1, ReadTowardsOK
    <3>2. ~(acc.index < Len(f.data))
      BY <1>1
    <3> QED BY <3>1, <3>2 DEF ReadTo
  <2>2. ~(acc.index = g.frameno - 1) /\ g.size = Len(f.data)
    BY <1>1, <2>1 DEF FileOK, Files
  <2>3. SearchFile(acc, f) = IF acc.index = g.frameno - 1 THEN Found(acc, g)
                             ELSE IF g.size = 0 THEN Visited(acc, h) ELSE Beyond(acc, h)
    BY <1>4 DEF SearchFile, SearchUnsized
  <2> HIDE DEF g
  <2>4. FileOK(h) /\ h.data = f.data /\ h.size = Len(f.data)
    BY <2>1, SizeKnown
  <2> HIDE DEF h
  <2>5. SearchFile(acc, f) = IF f.data = <<>> THEN Visited(acc, h) ELSE Beyond(acc, h)
    BY <1>2, <2>2, <2>3
  <2> QED BY <2>4, <2>5, BeyondPasses, EmptyPasses
<1> QED BY <1>1, <1>3, <1>4

\* A file whose size is known can give the next frame and the first one only,
\* and serves to be passed by.
Serves(f, index) == f.has_size => \/ index <= 0
                                  \/ index = f.frameno
                                  \/ index >= Len(f.data)

\* Looking for a frame of the file: it is found, and the file gives the next.
Finds(acc, r, f, g, before) ==
  /\ Leaves(acc, r, g)
  /\ FileOK(g)
  /\ g.data = f.data
  /\ r.done
  /\ r.frames = ShownAfter(before \o SubSeq(f.data, 1, acc.index), f.data[acc.index + 1])
  /\ g.frameno = acc.index + 1

LEMMA FoundFinds ==
  ASSUME NEW acc \in Accs, ~acc.done, acc.index \in Nat, NEW before \in Seq(Frames),
         acc.parents = ParentsAfter(TRUE, before), NEW f, acc.index < Len(f.data),
         NEW g, FileOK(g), g.data = f.data, g.frameno = acc.index + 1
  PROVE  Finds(acc, Found(acc, g), f, g, before)
<1> DEFINE frames == ShownAfter(before \o SubSeq(f.data, 1, acc.index), f.data[acc.index + 1])
<1>1. frames \in Seq(Frames) /\ WithParents(acc.parents, CurrentAndDeps(g)) = frames
  BY FoundFrames
<1>2. g \in Files
  BY DEF FileOK
<1> HIDE DEF frames
<1>3. Leaves(acc, Found(acc, g), g) /\ Found(acc, g).done /\ Found(acc, g).frames = frames
  BY <1>1, <1>2, FoundIs
<1> QED BY <1>3 DEF Finds, frames

LEMMA SearchFinds ==
  ASSUME NEW acc \in Accs, ~acc.done, acc.index \in Nat, NEW before \in Seq(Frames),
         acc.parents = ParentsAfter(TRUE, before), NEW f, FileOK(f),
         acc.index < Len(f.data), Serves(f, acc.index)
  PROVE  \E g : Finds(acc, SearchFile(acc, f), f, g, before)
<1>1. f \in Files /\ f.data \in Seq(Frames) /\ Len(f.data) \in Nat /\ f.has_size \in BOOLEAN
  BY DEF FileOK, Files
<1>2. CASE f.has_size
  <2>1. acc.index \in {0, f.frameno}
    BY <1>1, <1>2 DEF Serves
  <2>2. PICK g : FileSeekAndPop(f, acc.index) = Outcome(TRUE, g) /\ ReadTo(f, g, acc.index + 1)
    BY <2>1, SeekAndPopOK
  <2>3. f.size # 0 /\ ~(f.size <= acc.index)
    BY <1>1, <1>2 DEF FileOK
  <2>4. \A p : FileSeekAndPop(f, acc.index) = p =>
                 SearchFile(acc, f) = IF p.ok THEN Found(acc, p.file) ELSE Failed(acc, p.file)
    BY <1>2, <2>3 DEF SearchFile, SearchSized
  <2>5. Outcome(TRUE, g).ok /\ Outcome(TRUE, g).file = g
    BY DEF Outcome
  <2>6. SearchFile(acc, f) = Found(acc, g)
    BY <2>2, <2>4, <2>5
  <2>7. FileOK(g) /\ g.data = f.data /\ g.frameno = acc.index + 1
    BY <2>2 DEF ReadTo
  <2>8. Finds(acc, Found(acc, g), f, g, before)
    BY <2>7, FoundFinds
  <2> QED BY <2>6, <2>8
<1>3. CASE ~f.has_size
  <2> DEFINE g == ReadTowards(f, acc.index)
  <2>1. FileOK(g) /\ g.data = f.data /\ g.frameno = acc.index + 1
    BY <1>1, ReadTowardsOK DEF ReadTo
  <2>2. acc.index = g.frameno - 1
    BY <2>1
  <2>3. SearchFile(acc, f) = Found(acc, g)
    BY <1>3, <2>2 DEF SearchFile, SearchUnsized
  <2> HIDE DEF g
  <2>4. Finds(acc, Found(acc, g), f, g, before)
    BY <2>1, FoundFinds
  <2> QED BY <2>3, <2>4
<1> QED BY <1>1, <1>2, <1>3

-----------------------------------------------------------------------------
(* All files.                                                               *)

\* The mixer of the promise is the mixer of the program.
LEMMA SameGetMixed ==
  ASSUME NEW parents, NEW ordered, NEW stop
  PROVE  Promise!GetMixedFrames(parents, ordered, stop) = GetMixedFrames(parents, ordered, stop)
BY DEF Promise!GetMixedFrames, GetMixedFrames, Promise!HasStop, HasStop,
       Promise!SelectInSeq, SelectInSeq, Promise!Min, Min,
       Promise!Others, Others, Promise!Sifting!Fold, Sifting!Fold, Promise!Sifting!After,
       Sifting!After, Promise!KeepOther, KeepOther

LEMMA SameParents ==
  ASSUME NEW ordered, NEW frames
  PROVE  Promise!ParentsAfter(ordered, frames) = ParentsAfter(ordered, frames)
BY DEF Promise!ParentsAfter, ParentsAfter, Promise!Mixed, Mixed, Promise!Keeping!Fold,
       Keeping!Fold, Promise!Keeping!After, Keeping!After, Promise!KeepParent, KeepParent,
       Promise!UpdateDependencies, UpdateDependencies, Promise!Immiscible, Immiscible,
       Promise!HasStop, HasStop,
       Promise!Others, Others, Promise!Sifting!Fold, Sifting!Fold, Promise!Sifting!After,
       Sifting!After, Promise!KeepOther, KeepOther

\* What the promise shows at an index, as get_frame shows it.
LEMMA FramesAtShow ==
  ASSUME NEW fs \in Seq(Seq(Frames)), NEW index \in Nat
  PROVE  LET all == Promise!Joined(fs)
         IN  Promise!FramesAt(fs, index) =
               IF index < Len(all) THEN ShownAfter(SubSeq(all, 1, index), all[index + 1])
               ELSE <<>>
<1> DEFINE all == Promise!Joined(fs)
           s == SubSeq(all, 1, index)
           x == all[index + 1]
           k == ParentsAfter(TRUE, s)
<1>1. all \in Seq(Frames) /\ Len(all) \in Nat
  <2>1. Len(fs) \in 0 .. Len(fs)
    OBVIOUS
  <2>2. all \in Seq(Frames)
    BY <2>1, FirstFramesAll, FirstFramesTypes
  <2> QED BY <2>2
<1>2. CASE ~(index < Len(all))
  <2>1. index >= Len(all)
    BY <1>1, <1>2
  <2>2. Promise!FramesAt(fs, index) = <<>>
    BY <2>1 DEF Promise!FramesAt
  <2> QED BY <1>2, <2>2
<1>3. CASE index < Len(all)
  <2>1. Promise!FramesAt(fs, index) =
          Append(GetMixedFrames(ParentsAfter(TRUE, SubSeq(all, 1, index + 1)), TRUE, x.stop), x)
    <3>1. ~(index >= Len(all))
      BY <1>1, <1>3
    <3> QED BY <3>1, SameGetMixed, SameParents DEF Promise!FramesAt
  <2> HIDE DEF all
  <2>2. s \in Seq(Frames) /\ x \in Frames /\ SubSeq(all, 1, index + 1) = Append(s, x)
    BY <1>1, <1>3, Sifting!SeqParts
  <2> HIDE DEF s, x
  <2>3. ParentsAfter(TRUE, Append(s, x)) = UpdateDependencies(k, TRUE, x)
    BY <2>2, MixedAppend DEF ParentsAfter
  <2>4. k \in Seq(Frames) /\ Miscible(k)
    BY <2>2, ParentsTypes
  <2> HIDE DEF k
  <2>5. GetMixedFrames(UpdateDependencies(k, TRUE, x), TRUE, x.stop) = Others(k, x.stop)
    BY <2>2, <2>4, MixedInto
  <2>6. Promise!FramesAt(fs, index) = ShownAfter(s, x)
    BY <2>1, <2>2, <2>3, <2>5 DEF ShownAfter, k
  <2> QED BY <1>3, <2>6 DEF s, x, all
<1> QED BY <1>2, <1>3

\* The files of a group and what is in them.
Datas(files) == [i \in DOMAIN files |-> files[i].data]

FilesOK(files) == files \in Seq(Files) /\ \A i \in DOMAIN files : FileOK(files[i])

LEMMA DatasTypes ==
  ASSUME NEW files, FilesOK(files)
  PROVE  /\ Datas(files) \in Seq(Seq(Frames)) /\ Len(Datas(files)) = Len(files)
         /\ Len(files) \in Nat /\ DOMAIN files = 1 .. Len(files)
         /\ \A i \in 1 .. Len(files) : Datas(files)[i] = files[i].data
<1>1. Len(files) \in Nat /\ DOMAIN files = 1 .. Len(files)
  BY DEF FilesOK
<1>2. \A i \in 1 .. Len(files) : FileOK(files[i])
  BY <1>1 DEF FilesOK
<1>3. \A f : FileOK(f) => f.data \in Seq(Frames)
  BY DEF FileOK, Files
<1> QED BY <1>1, <1>2, <1>3 DEF Datas

\* The frames before file n + 1, and how many they are.
Before(files, n) == FirstFrames(Datas(files), n)

\* Each file of the group serves a request for the frame at an index.
AllServe(files, index) ==
  \A i \in DOMAIN files : Serves(files[i], index - Len(Before(files, i - 1)))

\* The search after n files.
Searched(acc, files, n, index) ==
  /\ acc \in Accs
  /\ acc.ok
  /\ Len(acc.files) = n
  /\ \A i \in 1 .. n : /\ FileOK(acc.files[i])
                       /\ acc.files[i].data = files[i].data
                       /\ Serves(acc.files[i], (index + 1) - Len(Before(files, i - 1)))
  /\ IF index < Len(Before(files, n))
     THEN acc.done /\ acc.frames = Promise!FramesAt(Datas(files), index)
     ELSE /\ ~acc.done
          /\ acc.frames = <<>>
          /\ acc.index = index - Len(Before(files, n))
          /\ acc.parents = ParentsAfter(TRUE, Before(files, n))

LEMMA BeforeNext ==
  ASSUME NEW files, FilesOK(files), NEW n \in 0 .. Len(files) - 1
  PROVE  /\ Before(files, n) \in Seq(Frames) /\ Len(Before(files, n)) \in Nat
         /\ files[n + 1].data \in Seq(Frames) /\ Len(files[n + 1].data) \in Nat
         /\ Before(files, n + 1) = Before(files, n) \o files[n + 1].data
         /\ Len(Before(files, n + 1)) = Len(Before(files, n)) + Len(files[n + 1].data)
<1> DEFINE ds == Datas(files)
           d == files[n + 1].data
           b == FirstFrames(ds, n)
<1>1. ds \in Seq(Seq(Frames)) /\ Len(ds) = Len(files) /\ Len(files) \in Nat
      /\ \A i \in 1 .. Len(files) : ds[i] = files[i].data
  BY DatasTypes
<1>2. n \in Nat /\ n < Len(ds) /\ n \in 0 .. Len(ds) /\ n + 1 \in 1 .. Len(ds) /\ ds[n + 1] = d
  BY <1>1
<1>3. d \in Seq(Frames)
  <2>1. ds[n + 1] \in Seq(Frames)
    BY <1>1, <1>2
  <2> QED BY <1>2, <2>1
<1> HIDE DEF ds, d
<1>4. b \in Seq(Frames)
  BY <1>1, <1>2, FirstFramesTypes
<1>5. FirstFrames(ds, n + 1) = b \o d
  BY <1>1, <1>2, FirstFramesMore
<1> HIDE DEF b
<1>6. Len(b \o d) = Len(b) + Len(d) /\ Len(b) \in Nat /\ Len(d) \in Nat
  BY <1>3, <1>4
<1> QED BY <1>3, <1>4, <1>5, <1>6 DEF Before, b, ds, d

\* The frame found in a file is the one that is promised.
LEMMA FoundIsPromised ==
  ASSUME NEW files, FilesOK(files), NEW n \in 0 .. Len(files) - 1, NEW k \in Nat,
         k < Len(files[n + 1].data)
  PROVE  Promise!FramesAt(Datas(files), Len(Before(files, n)) + k) =
           ShownAfter(Before(files, n) \o SubSeq(files[n + 1].data, 1, k), files[n + 1].data[k + 1])
<1> DEFINE ds == Datas(files)
           d == files[n + 1].data
           b == Before(files, n)
           all == Promise!Joined(ds)
           index == Len(b) + k
<1>1. ds \in Seq(Seq(Frames)) /\ Len(ds) = Len(files) /\ n \in 0 .. Len(ds) - 1 /\ ds[n + 1] = d
  BY DatasTypes
<1>2. b \in Seq(Frames) /\ Len(b) \in Nat /\ index \in Nat
  <2>1. Len(b) \in Nat
    BY BeforeNext
  <2> QED BY <2>1, BeforeNext
<1>3. Placed(b, d, all, k)
  <2>1. k < Len(ds[n + 1])
    BY <1>1
  <2> HIDE DEF ds, d
  <2>2. Placed(FirstFrames(ds, n), ds[n + 1], Promise!Joined(ds), k)
    BY <1>1, <2>1, FrameOfFile
  <2> QED BY <1>1, <2>2 DEF Before, ds
<1> HIDE DEF ds, d, b
<1>4. index < Len(all) /\ SubSeq(all, 1, index) = b \o SubSeq(d, 1, k) /\ all[index + 1] = d[k + 1]
  BY <1>3 DEF Placed
<1>5. Promise!FramesAt(ds, index) =
        IF index < Len(all) THEN ShownAfter(SubSeq(all, 1, index), all[index + 1]) ELSE <<>>
  BY <1>1, <1>2, FramesAtShow
<1> HIDE DEF all, index
<1>6. Promise!FramesAt(ds, index) = ShownAfter(b \o SubSeq(d, 1, k), d[k + 1])
  BY <1>4, <1>5
<1> QED BY <1>6 DEF index, b, d, ds

\* What every step of the search keeps.
LEMMA SearchedFiles ==
  ASSUME NEW acc, NEW files, FilesOK(files), NEW n \in 0 .. Len(files) - 1, NEW index \in Nat,
         Searched(acc, files, n, index), NEW r, NEW g, Leaves(acc, r, g), FileOK(g),
         g.data = files[n + 1].data, Serves(g, (index + 1) - Len(Before(files, n)))
  PROVE  /\ r \in Accs
         /\ r.ok
         /\ Len(r.files) = n + 1
         /\ \A i \in 1 .. n + 1 :
              /\ FileOK(r.files[i])
              /\ r.files[i].data = files[i].data
              /\ Serves(r.files[i], (index + 1) - Len(Before(files, i - 1)))
<1> DEFINE fs == acc.files
           gs == r.files
<1>1. acc \in Accs /\ r \in Accs /\ acc.ok /\ r.ok = acc.ok
  BY DEF Searched, Leaves
<1>2. fs \in Seq(Files) /\ Len(fs) = n /\ g \in Files /\ gs = Append(fs, g) /\ n \in Nat
  <2>1. Len(files) \in Nat
    BY DatasTypes
  <2> QED BY <1>1, <2>1 DEF Accs, Searched, Leaves, FileOK
<1>3. \A i \in 1 .. n : /\ FileOK(fs[i])
                        /\ fs[i].data = files[i].data
                        /\ Serves(fs[i], (index + 1) - Len(Before(files, i - 1)))
  BY DEF Searched
<1> HIDE DEF fs, gs
<1>4. Len(gs) = n + 1 /\ gs[n + 1] = g /\ \A i \in 1 .. n : gs[i] = fs[i]
  BY <1>2
<1>5. ASSUME NEW i \in 1 .. n + 1
      PROVE  /\ FileOK(gs[i])
             /\ gs[i].data = files[i].data
             /\ Serves(gs[i], (index + 1) - Len(Before(files, i - 1)))
  <2>1. CASE i \in 1 .. n
    BY <1>3, <1>4, <2>1
  <2>2. CASE i = n + 1
    <3>1. i - 1 = n
      BY <1>2, <2>2
    <3> QED BY <1>4, <2>2, <3>1
  <2> QED BY <1>2, <2>1, <2>2
<1> QED BY <1>1, <1>4, <1>5 DEF gs

\* One more file.
LEMMA SearchedStep ==
  ASSUME NEW files, FilesOK(files), NEW n \in 0 .. Len(files) - 1, NEW index \in Nat,
         AllServe(files, index), NEW acc, Searched(acc, files, n, index)
  PROVE  Searched(SearchFile(acc, files[n + 1]), files, n + 1, index)
<1> DEFINE f == files[n + 1]
           r == SearchFile(acc, f)
           before == Before(files, n)
           after == Before(files, n + 1)
           rel == index - Len(before)
<1>1. /\ before \in Seq(Frames) /\ Len(before) \in Nat /\ f.data \in Seq(Frames)
      /\ Len(f.data) \in Nat /\ after = before \o f.data
      /\ Len(after) = Len(before) + Len(f.data)
  BY BeforeNext
<1>2. Len(files) \in Nat /\ n + 1 \in DOMAIN files /\ (n + 1) - 1 = n
  BY DatasTypes
<1>3. FileOK(f) /\ f \in Files /\ Serves(f, rel)
  BY <1>2 DEF FilesOK, FileOK, AllServe
<1>4. acc \in Accs /\ rel \in Int /\ (index + 1) - Len(before) = rel + 1
  BY <1>1 DEF Searched
<1>5. IF index < Len(before)
      THEN acc.done /\ acc.frames = Promise!FramesAt(Datas(files), index)
      ELSE /\ ~acc.done /\ acc.frames = <<>> /\ acc.index = rel
           /\ acc.parents = ParentsAfter(TRUE, before)
  BY DEF Searched
<1> SUFFICES \E g : /\ Leaves(acc, r, g) /\ FileOK(g) /\ g.data = f.data /\ Serves(g, rel + 1)
                    /\ IF index < Len(after)
                       THEN r.done /\ r.frames = Promise!FramesAt(Datas(files), index)
                       ELSE /\ ~r.done /\ r.frames = <<>> /\ r.index = index - Len(after)
                            /\ r.parents = ParentsAfter(TRUE, after)
  <2>1. PICK g : /\ Leaves(acc, r, g) /\ FileOK(g) /\ g.data = f.data /\ Serves(g, rel + 1)
                 /\ IF index < Len(after)
                    THEN r.done /\ r.frames = Promise!FramesAt(Datas(files), index)
                    ELSE /\ ~r.done /\ r.frames = <<>> /\ r.index = index - Len(after)
                         /\ r.parents = ParentsAfter(TRUE, after)
    OBVIOUS
  <2> HIDE DEF r
  <2>2. Serves(g, (index + 1) - Len(Before(files, n)))
    BY <1>4, <2>1
  <2>3. /\ r \in Accs
        /\ r.ok
        /\ Len(r.files) = n + 1
        /\ \A i \in 1 .. n + 1 :
             /\ FileOK(r.files[i])
             /\ r.files[i].data = files[i].data
             /\ Serves(r.files[i], (index + 1) - Len(Before(files, i - 1)))
    BY <2>1, <2>2, SearchedFiles
  <2> QED BY <2>1, <2>3 DEF Searched, r
<1>6. CASE index < Len(before)
  <2>1. r = Visited(acc, f)
    BY <1>5, <1>6 DEF SearchFile
  <2>2. /\ Leaves(acc, Visited(acc, f), f)
        /\ Visited(acc, f).done = acc.done /\ Visited(acc, f).frames = acc.frames
    BY <1>3, <1>4, VisitedIs
  <2>3. index < Len(after) /\ rel + 1 <= 0
    BY <1>1, <1>6
  <2>4. Serves(f, rel + 1)
    BY <2>3 DEF Serves
  <2> HIDE DEF f, r, before, after, rel
  <2>5. r.done /\ r.frames = Promise!FramesAt(Datas(files), index)
    BY <1>5, <1>6, <2>1, <2>2
  <2>6. Leaves(acc, r, f)
    BY <2>1, <2>2
  <2> QED BY <1>3, <2>3, <2>4, <2>5, <2>6
<1>7. CASE ~(index < Len(before)) /\ index < Len(after)
  <2>1. rel \in Nat /\ rel < Len(f.data) /\ ~acc.done /\ acc.index = rel
        /\ acc.parents = ParentsAfter(TRUE, before) /\ index = Len(before) + rel
    <3>1. rel \in Nat /\ rel < Len(f.data) /\ index = Len(before) + rel
      <4> HIDE DEF before, after, f
      <4> QED BY <1>1, <1>7
    <3> HIDE DEF before, after, f, rel
    <3> QED BY <1>5, <1>7, <3>1
  <2>2. Promise!FramesAt(Datas(files), Len(before) + rel) =
          ShownAfter(before \o SubSeq(f.data, 1, rel), f.data[rel + 1])
    BY <2>1, FoundIsPromised
  <2> HIDE DEF f, before, after, rel
  <2>3. PICK g : Finds(acc, SearchFile(acc, f), f, g, before)
    <3>1. acc \in Accs /\ before \in Seq(Frames) /\ FileOK(f)
      BY <1>1, <1>3, <1>4
    <3>2. acc.index \in Nat /\ acc.index < Len(f.data) /\ Serves(f, acc.index)
      BY <1>3, <2>1
    <3> QED BY <2>1, <3>1, <3>2, SearchFinds
  <2> HIDE DEF r
  <2>4. /\ Leaves(acc, r, g) /\ FileOK(g) /\ g.data = f.data /\ r.done
        /\ r.frames = ShownAfter(before \o SubSeq(f.data, 1, rel), f.data[rel + 1])
        /\ g.frameno = rel + 1
    BY <2>1, <2>3 DEF Finds, r
  <2>5. r.frames = Promise!FramesAt(Datas(files), index)
    BY <2>1, <2>2, <2>4
  <2>6. Serves(g, rel + 1)
    BY <2>4 DEF Serves
  <2> QED BY <1>7, <2>4, <2>5, <2>6
<1>8. CASE ~(index < Len(before)) /\ ~(index < Len(after))
  <2>1. rel >= Len(f.data) /\ ~acc.done /\ acc.index = rel /\ acc.frames = <<>>
        /\ acc.parents = ParentsAfter(TRUE, before) /\ rel - Len(f.data) = index - Len(after)
        /\ rel + 1 >= Len(f.data)
    <3>1. rel >= Len(f.data) /\ rel - Len(f.data) = index - Len(after) /\ rel + 1 >= Len(f.data)
      <4> HIDE DEF before, after, f
      <4> QED BY <1>1, <1>8
    <3> HIDE DEF before, after, f, rel
    <3> QED BY <1>5, <1>8, <3>1
  <2> HIDE DEF f, before, after, rel
  <2>2. PICK g : Passes(acc, SearchFile(acc, f), f, g, before)
    <3>1. acc \in Accs /\ before \in Seq(Frames) /\ FileOK(f)
      BY <1>1, <1>3, <1>4
    <3>2. acc.index >= Len(f.data)
      BY <2>1
    <3> QED BY <2>1, <3>1, <3>2, SearchPasses
  <2> HIDE DEF r
  <2>3. /\ Leaves(acc, r, g) /\ FileOK(g) /\ g.data = f.data /\ ~r.done /\ r.frames = <<>>
        /\ r.index = index - Len(after) /\ r.parents = ParentsAfter(TRUE, after)
    BY <1>1, <2>1, <2>2 DEF Passes, r
  <2>4. Serves(g, rel + 1)
    BY <2>1, <2>3 DEF Serves
  <2> QED BY <1>8, <2>3, <2>4
<1> QED BY <1>6, <1>7, <1>8

\* get_frame of a group whose files serve the index: the frames promised, and
\* files that serve the index after it.
Gets(files, r, index) ==
  /\ r.ok
  /\ r.frames = Promise!FramesAt(Datas(files), index)
  /\ FilesOK(r.group.files)
  /\ Len(r.group.files) = Len(files)
  /\ Datas(r.group.files) = Datas(files)
  /\ AllServe(r.group.files, index + 1)

\* A group by its members.
IsGroup(g) == \E files, capacity : g = [files |-> files, capacity |-> capacity]

\* The group of the result is g with other files.
LEMMA GetFrameIs ==
  ASSUME NEW g, NEW files, g.files = files, NEW index,
         NEW end, Searching!Fold(Search(index), files) = end
  PROVE  GetFrame(g, index) = [ok |-> end.ok, frames |-> end.frames,
                               group |-> [g EXCEPT !.files = end.files]]
BY DEF GetFrame

LEMMA SearchedNone ==
  ASSUME NEW files, NEW index \in Nat
  PROVE  Searched(Search(index), files, 0, index)
<1>1. Before(files, 0) = <<>> /\ Len(<<>>) = 0 /\ ~(index < 0) /\ index = index - 0
  BY FirstFramesNone DEF Before
<1>2. ParentsAfter(TRUE, <<>>) = <<>>
  BY MixedNone DEF ParentsAfter
<1>3. Search(index) \in Accs
  <2>1. PICK no \in BOOLEAN, yes \in BOOLEAN : no = FALSE /\ yes = TRUE
    OBVIOUS
  <2>2. [files |-> <<>>, index |-> index, parents |-> <<>>, done |-> no, ok |-> yes,
         frames |-> <<>>] \in Accs
    BY DEF Accs
  <2> QED BY <2>1, <2>2 DEF Search
<1>4. Search(index).ok /\ ~Search(index).done
  BY DEF Search
<1>5. /\ Search(index).files = <<>> /\ Search(index).index = index
      /\ Search(index).parents = <<>> /\ Search(index).frames = <<>>
  BY DEF Search
<1> DEFINE s == Search(index)
           b == Before(files, 0)
<1>6. Len(s.files) = 0 /\ ~(index < Len(b)) /\ s.index = index - Len(b)
      /\ s.parents = ParentsAfter(TRUE, b)
  BY <1>1, <1>2, <1>5
<1>7. s \in Accs /\ s.ok /\ ~s.done /\ s.frames = <<>>
  BY <1>3, <1>4, <1>5
<1>8. \A i \in 1 .. 0 : FALSE
  OBVIOUS
<1> HIDE DEF s, b
<1>9. Searched(s, files, 0, index)
  BY <1>6, <1>7, <1>8, Zenon DEF Searched, b
<1> QED BY <1>9 DEF s

LEMMA SearchedAll ==
  ASSUME NEW files, FilesOK(files), NEW index \in Nat, AllServe(files, index)
  PROVE  Searched(Searching!Fold(Search(index), files), files, Len(files), index)
<1> DEFINE S(n) == Searching!Fold(Search(index), SubSeq(files, 1, n))
           T == {n \in 0 .. Len(files) : Searched(S(n), files, n, index)}
<1>1. files \in Seq(Files) /\ Len(files) \in Nat
  BY DatasTypes DEF FilesOK
<1>2. 0 \in T
  <2>1. SubSeq(files, 1, 0) = <<>>
    OBVIOUS
  <2>2. S(0) = Search(index)
    BY <2>1, Searching!FoldEmpty
  <2> HIDE DEF S
  <2> QED BY <1>1, <2>2, SearchedNone
<1>3. \A n \in 0 .. Len(files) - 1 : n \in T => n + 1 \in T
  <2> SUFFICES ASSUME NEW n \in 0 .. Len(files) - 1, Searched(S(n), files, n, index)
               PROVE  n + 1 \in 0 .. Len(files) /\ Searched(S(n + 1), files, n + 1, index)
    OBVIOUS
  <2>1. n \in Nat /\ n < Len(files) /\ n + 1 \in 0 .. Len(files)
    BY <1>1
  <2> DEFINE s == SubSeq(files, 1, n)
  <2>2. s \in Seq(Files) /\ files[n + 1] \in Files /\ SubSeq(files, 1, n + 1) = Append(s, files[n + 1])
    BY <1>1, <2>1, Sifting!SeqParts
  <2> HIDE DEF s
  <2>3. Searching!Fold(Search(index), Append(s, files[n + 1])) =
          SearchFile(Searching!Fold(Search(index), s), files[n + 1])
    BY <2>2, Searching!FoldAppend
  <2>4. S(n + 1) = SearchFile(S(n), files[n + 1])
    BY <2>2, <2>3 DEF s
  <2> HIDE DEF S
  <2> QED BY <2>1, <2>4, SearchedStep
<1> HIDE DEF T
<1>4. 0 .. Len(files) \subseteq T
  BY <1>1, <1>2, <1>3, Sifting!NatIndUpTo
<1>5. SubSeq(files, 1, Len(files)) = files
  BY <1>1
<1>6. Len(files) \in T
  BY <1>1, <1>4
<1> QED BY <1>5, <1>6 DEF T

(* What get_frame of a group gives (I3FileGroup::get_frame): when the files of
   the group serve the index, the frame with that index in the files read one
   after the other, with the frames mixed into it, or nothing past the end; and
   the group that is left serves the next index, so reading on never skips a
   frame or reads one twice. *)
THEOREM GetFrameGets ==
  ASSUME NEW g, IsGroup(g), FilesOK(g.files), NEW index \in Nat, AllServe(g.files, index)
  PROVE  Gets(g.files, GetFrame(g, index), index) /\ IsGroup(GetFrame(g, index).group)
<1> DEFINE files == g.files
           end == Searching!Fold(Search(index), files)
           ds == Datas(files)
           gs == end.files
<1>1. Searched(end, files, Len(files), index)
  BY SearchedAll
<1>2. GetFrame(g, index) = [ok |-> end.ok, frames |-> end.frames,
                            group |-> [g EXCEPT !.files = gs]]
  BY GetFrameIs
<1>3. ds \in Seq(Seq(Frames)) /\ Len(ds) = Len(files) /\ Len(files) \in Nat
      /\ DOMAIN files = 1 .. Len(files)
  BY DatasTypes
<1>4. Before(files, Len(files)) = Promise!Joined(ds)
  BY <1>3, FirstFramesAll DEF Before
<1>5. Promise!FramesAt(ds, index) =
        IF index < Len(Promise!Joined(ds))
        THEN ShownAfter(SubSeq(Promise!Joined(ds), 1, index), Promise!Joined(ds)[index + 1])
        ELSE <<>>
  BY <1>3, FramesAtShow
<1> HIDE DEF end
<1>6. end.ok /\ end.frames = Promise!FramesAt(ds, index)
  <2>1. index < Len(Promise!Joined(ds)) => end.frames = Promise!FramesAt(ds, index)
    BY <1>1, <1>4 DEF Searched
  <2>2. ~(index < Len(Promise!Joined(ds))) => end.frames = <<>>
    BY <1>1, <1>4 DEF Searched
  <2>3. end.ok
    BY <1>1 DEF Searched
  <2> HIDE DEF ds
  <2> QED BY <1>5, <2>1, <2>2, <2>3
<1>7. /\ gs \in Seq(Files) /\ Len(gs) = Len(files) /\ DOMAIN gs = DOMAIN files
      /\ \A i \in DOMAIN files :
           /\ FileOK(gs[i]) /\ gs[i].data = files[i].data
           /\ Serves(gs[i], (index + 1) - Len(Before(files, i - 1)))
  <2>1. gs \in Seq(Files)
    BY <1>1 DEF Searched, Accs
  <2>2. Len(gs) = Len(files)
    BY <1>1 DEF Searched
  <2>3. \A i \in 1 .. Len(files) :
          /\ FileOK(gs[i]) /\ gs[i].data = files[i].data
          /\ Serves(gs[i], (index + 1) - Len(Before(files, i - 1)))
    BY <1>1 DEF Searched
  <2>4. DOMAIN gs = 1 .. Len(gs)
    BY <2>1
  <2> QED BY <1>3, <2>1, <2>2, <2>3, <2>4
<1> HIDE DEF gs
<1>8. Datas(gs) = Datas(files)
  BY <1>7 DEF Datas
<1>9. AllServe(gs, index + 1)
  BY <1>7, <1>8 DEF AllServe, Before
<1>10. FilesOK(gs)
  BY <1>7 DEF FilesOK
<1> DEFINE h == [g EXCEPT !.files = gs]
<1>11. h.files = gs /\ IsGroup(h)
  <2>1. PICK fs, capacity : g = [files |-> fs, capacity |-> capacity]
    BY DEF IsGroup
  <2>2. h = [files |-> gs, capacity |-> capacity]
    BY <2>1
  <2> QED BY <2>2 DEF IsGroup
<1> HIDE DEF h
<1>12. /\ GetFrame(g, index).ok = end.ok /\ GetFrame(g, index).frames = end.frames
       /\ GetFrame(g, index).group = h
  BY <1>2 DEF h
<1> QED BY <1>6, <1>7, <1>8, <1>9, <1>10, <1>11, <1>12 DEF Gets, ds

-----------------------------------------------------------------------------
(* Which requests the files serve.                                          *)

\* Those for the first frame, wherever the files stand,
LEMMA ServeFirst ==
  ASSUME NEW files, FilesOK(files)
  PROVE  AllServe(files, 0)
<1> SUFFICES ASSUME NEW i \in DOMAIN files
             PROVE  Serves(files[i], 0 - Len(Before(files, i - 1)))
  BY DEF AllServe
<1>1. i - 1 \in 0 .. Len(files) - 1
  BY DatasTypes
<1>2. Len(Before(files, i - 1)) \in Nat
  BY <1>1, BeforeNext
<1>3. 0 - Len(Before(files, i - 1)) <= 0
  BY <1>2
<1> QED BY <1>3 DEF Serves

\* those for a frame beyond the end,
LEMMA ServeBeyond ==
  ASSUME NEW files, FilesOK(files), NEW index \in Nat,
         index >= Promise!Length(Datas(files))
  PROVE  AllServe(files, index)
<1> DEFINE ds == Datas(files)
           all == Promise!Joined(ds)
<1>1. ds \in Seq(Seq(Frames)) /\ Len(ds) = Len(files) /\ Len(files) \in Nat
      /\ DOMAIN files = 1 .. Len(files)
  BY DatasTypes
<1>2. all = FirstFrames(ds, Len(ds)) /\ index >= Len(all)
  BY <1>1, FirstFramesAll DEF Promise!Length
<1> HIDE DEF all
<1> SUFFICES ASSUME NEW i \in DOMAIN files
             PROVE  Serves(files[i], index - Len(Before(files, i - 1)))
  BY DEF AllServe
<1>3. i \in 0 .. Len(ds) /\ Len(ds) \in i .. Len(ds) /\ i - 1 \in 0 .. Len(files) - 1
      /\ (i - 1) + 1 = i /\ Len(ds) \in 0 .. Len(ds)
  BY <1>1
<1>4. /\ Len(Before(files, i - 1)) \in Nat /\ Len(files[i].data) \in Nat
      /\ Len(Before(files, i)) = Len(Before(files, i - 1)) + Len(files[i].data)
  <2> DEFINE n == i - 1
  <2>1. n \in 0 .. Len(files) - 1 /\ n + 1 = i
    BY <1>3
  <2> HIDE DEF n
  <2>2. /\ Len(Before(files, n)) \in Nat /\ Len(files[n + 1].data) \in Nat
        /\ Len(Before(files, n + 1)) = Len(Before(files, n)) + Len(files[n + 1].data)
    BY <2>1, BeforeNext
  <2> QED BY <2>1, <2>2 DEF n
<1>5. Len(Before(files, i)) <= Len(all)
  <2> HIDE DEF ds
  <2>1. Begins(FirstFrames(ds, i), FirstFrames(ds, Len(ds)))
    BY <1>1, <1>3, FirstFramesBegin
  <2> QED BY <1>2, <2>1 DEF Begins, Before, ds
<1>6. Len(all) \in Nat
  <2> HIDE DEF ds
  <2>1. all \in Seq(Frames)
    BY <1>1, <1>2, <1>3, FirstFramesTypes
  <2> QED BY <2>1
<1>7. index - Len(Before(files, i - 1)) >= Len(files[i].data)
  <2> DEFINE a == Len(Before(files, i - 1))
             b == Len(Before(files, i))
             d == Len(files[i].data)
  <2> HIDE DEF a, b, d
  <2>1. a \in Nat /\ d \in Nat /\ b = a + d /\ b <= Len(all)
    BY <1>4, <1>5 DEF a, b, d
  <2>2. index - a >= d
    BY <1>2, <1>6, <2>1
  <2> QED BY <2>2 DEF a, d
<1> QED BY <1>7 DEF Serves

\* and any while no file was read to its end.
LEMMA ServeUnread ==
  ASSUME NEW files, NEW index, \A i \in DOMAIN files : ~files[i].has_size
  PROVE  AllServe(files, index)
BY DEF AllServe, Serves

-----------------------------------------------------------------------------
(* Sizes.                                                                   *)

LEMMA GetSizeIs ==
  ASSUME NEW g, FilesOK(g.files)
  PROVE  GetSize(g) \in {-1, Promise!Length(Datas(g.files))}
<1> DEFINE files == g.files
           Sum(n) == Summing!Fold(0, SubSeq(files, 1, n))
           T == {n \in 0 .. Len(files) : Sum(n) = Len(Before(files, n))}
<1>1. files \in Seq(Files) /\ Len(files) \in Nat /\ DOMAIN files = 1 .. Len(files)
      /\ Datas(files) \in Seq(Seq(Frames)) /\ Len(Datas(files)) = Len(files)
  BY DatasTypes DEF FilesOK
<1>2. CASE \E i \in DOMAIN files : ~files[i].has_size
  BY <1>2 DEF GetSize
<1>3. CASE \A i \in DOMAIN files : files[i].has_size
  <2>1. ASSUME NEW n \in 0 .. Len(files) - 1
        PROVE  files[n + 1].size = Len(files[n + 1].data)
    <3>1. n + 1 \in DOMAIN files
      BY <1>1
    <3>2. FileOK(files[n + 1]) /\ files[n + 1].has_size
      BY <1>3, <3>1 DEF FilesOK
    <3> QED BY <3>2 DEF FileOK
  <2>2. 0 \in T
    <3>1. SubSeq(files, 1, 0) = <<>>
      OBVIOUS
    <3>2. Sum(0) = 0
      BY <3>1, Summing!FoldEmpty
    <3>3. Before(files, 0) = <<>>
      BY FirstFramesNone DEF Before
    <3> HIDE DEF Sum
    <3> QED BY <1>1, <3>2, <3>3
  <2>3. \A n \in 0 .. Len(files) - 1 : n \in T => n + 1 \in T
    <3> SUFFICES ASSUME NEW n \in 0 .. Len(files) - 1, Sum(n) = Len(Before(files, n))
                 PROVE  n + 1 \in 0 .. Len(files) /\ Sum(n + 1) = Len(Before(files, n + 1))
      OBVIOUS
    <3>1. n \in Nat /\ n < Len(files) /\ n + 1 \in 0 .. Len(files)
      BY <1>1
    <3> DEFINE s == SubSeq(files, 1, n)
               f == files[n + 1]
    <3>2. s \in Seq(Files) /\ f \in Files /\ SubSeq(files, 1, n + 1) = Append(s, f)
      BY <1>1, <3>1, Sifting!SeqParts
    <3>3. Len(Before(files, n + 1)) = Len(Before(files, n)) + Len(f.data)
      BY BeforeNext
    <3>4. f.size = Len(f.data)
      BY <2>1
    <3> HIDE DEF s, f
    <3>5. Summing!Fold(0, Append(s, f)) = Summing!Fold(0, s) + f.size
      BY <3>2, Summing!FoldAppend DEF AddSize
    <3>6. Sum(n + 1) = Sum(n) + f.size
      BY <3>2, <3>5 DEF s
    <3> HIDE DEF Sum
    <3> QED BY <3>1, <3>3, <3>4, <3>6
  <2> HIDE DEF T
  <2>4. Len(files) \in T
    <3>1. 0 .. Len(files) \subseteq T
      BY <1>1, <2>2, <2>3, Sifting!NatIndUpTo
    <3> QED BY <1>1, <3>1
  <2>5. Sum(Len(files)) = Len(Before(files, Len(files)))
    BY <2>4 DEF T
  <2>6. SubSeq(files, 1, Len(files)) = files
    BY <1>1
  <2>7. Before(files, Len(files)) = Promise!Joined(Datas(files))
    BY <1>1, FirstFramesAll DEF Before
  <2>8. GetSize(g) = Summing!Fold(0, files)
    BY <1>3 DEF GetSize
  <2> QED BY <2>5, <2>6, <2>7, <2>8 DEF Promise!Length
<1> QED BY <1>2, <1>3

LEMMA GetCurSizeIs ==
  ASSUME NEW g, FilesOK(g.files)
  PROVE  GetCurSize(g) \in Nat /\ GetCurSize(g) <= Promise!Length(Datas(g.files))
<1> DEFINE files == g.files
           start == [size |-> 0, open |-> TRUE]
           Acc(n) == Counting!Fold(start, SubSeq(files, 1, n))
           Fine(acc, n) == acc.size \in Nat /\ acc.size <= Len(Before(files, n))
           T == {n \in 0 .. Len(files) : Fine(Acc(n), n)}
<1>1. files \in Seq(Files) /\ Len(files) \in Nat /\ DOMAIN files = 1 .. Len(files)
      /\ Datas(files) \in Seq(Seq(Frames)) /\ Len(Datas(files)) = Len(files)
  BY DatasTypes DEF FilesOK
<1>2. 0 \in T
  <2>1. SubSeq(files, 1, 0) = <<>>
    OBVIOUS
  <2>2. Acc(0) = start
    BY <2>1, Counting!FoldEmpty
  <2>3. Before(files, 0) = <<>> /\ start.size = 0 /\ Len(<<>>) = 0
    BY FirstFramesNone DEF Before
  <2> HIDE DEF Acc, start
  <2> QED BY <1>1, <2>2, <2>3
<1>3. \A n \in 0 .. Len(files) - 1 : n \in T => n + 1 \in T
  <2> SUFFICES ASSUME NEW n \in 0 .. Len(files) - 1, Fine(Acc(n), n)
               PROVE  n + 1 \in 0 .. Len(files) /\ Fine(Acc(n + 1), n + 1)
    OBVIOUS
  <2>1. n \in Nat /\ n < Len(files) /\ n + 1 \in 0 .. Len(files) /\ n + 1 \in DOMAIN files
    BY <1>1
  <2> DEFINE s == SubSeq(files, 1, n)
             f == files[n + 1]
  <2>2. s \in Seq(Files) /\ f \in Files /\ SubSeq(files, 1, n + 1) = Append(s, f)
    BY <1>1, <2>1, Sifting!SeqParts
  <2>3. /\ Len(Before(files, n + 1)) = Len(Before(files, n)) + Len(f.data)
        /\ Len(Before(files, n)) \in Nat /\ Len(f.data) \in Nat
    BY BeforeNext
  <2>4. f.size <= Len(f.data) /\ f.size \in Nat
    <3>1. FileOK(f)
      BY <2>1 DEF FilesOK
    <3> QED BY <2>2, <3>1 DEF FileOK, Files
  <2> HIDE DEF s, f, start
  <2>5. Counting!Fold(start, Append(s, f)) = CountFile(Counting!Fold(start, s), f)
    BY <2>2, Counting!FoldAppend
  <2>6. Acc(n + 1) = CountFile(Acc(n), f)
    BY <2>2, <2>5 DEF s
  <2> HIDE DEF Acc
  <2>7. CountFile(Acc(n), f) \in {[size |-> Acc(n).size + f.size, open |-> f.has_size], Acc(n)}
    BY DEF CountFile
  <2>8. Acc(n + 1).size \in {Acc(n).size + f.size, Acc(n).size}
    BY <2>6, <2>7
  <2> DEFINE b == Len(Before(files, n))
             c == Len(Before(files, n + 1))
             d == Len(f.data)
             k == Acc(n).size
             m == Acc(n + 1).size
             size == f.size
  <2>9. k \in Nat /\ k <= b
    OBVIOUS
  <2>10. /\ c = b + d /\ b \in Nat /\ d \in Nat /\ size <= d /\ size \in Nat
         /\ m \in {k + size, k}
    BY <2>3, <2>4, <2>8
  <2> HIDE DEF b, c, d, k, m, size
  <2>11. m \in Nat /\ m <= c
    BY <2>9, <2>10
  <2> QED BY <2>1, <2>11 DEF c, m
<1> HIDE DEF T
<1>4. Len(files) \in T
  <2>1. 0 .. Len(files) \subseteq T
    BY <1>1, <1>2, <1>3, Sifting!NatIndUpTo
  <2> QED BY <1>1, <2>1
<1>5. Fine(Acc(Len(files)), Len(files))
  BY <1>4 DEF T
<1>6. SubSeq(files, 1, Len(files)) = files
  BY <1>1
<1>7. Before(files, Len(files)) = Promise!Joined(Datas(files))
  BY <1>1, FirstFramesAll DEF Before
<1> QED BY <1>5, <1>6, <1>7 DEF GetCurSize, Promise!Length

-----------------------------------------------------------------------------
(* The cache, for every size: the window stays a bounded interval, the     *)
(* vector last added is found again, and adding changes nothing else but   *)
(* by forgetting it.                                                       *)

\* first_index_ <= last_index_, frames_ holds one vector per index of the
\* window, and there are at most max_size_ of them.
CacheOK(c) == /\ c.first \in Nat
              /\ c.last \in Nat
              /\ c.first <= c.last
              /\ DOMAIN c.frames = Window(c)
              /\ c.last - c.first <= CacheSize

\* The window CacheAdd leaves behind.
AddedWindow(c, first, last, index) ==
  /\ first \in Nat
  /\ last \in Nat
  /\ first <= last
  /\ last - first <= CacheSize
  /\ CacheSize >= 1 => index \in first .. last - 1

\* Whichever end CacheAdd inserts at, it moves the window to one that is
\* bounded and, unless the cache has no room at all, contains the index.
LEMMA CacheAddMoves ==
  ASSUME NEW c, CacheOK(c), NEW index \in Nat, NEW value
  PROVE  \E first, last \in Nat : /\ AddedWindow(c, first, last, index)
                                  /\ CacheAdd(c, index, value)
                                       = Moved(c, first, last, index, value)
<1>1. CASE index >= c.last
  <2>1. CASE index + 1 - c.first > CacheSize
    <3>1. AddedWindow(c, index + 1 - CacheSize, index + 1, index)
      BY <1>1, <2>1, CacheSizeAssumption DEF CacheOK, AddedWindow
    <3>2. CacheAdd(c, index, value)
            = Moved(c, index + 1 - CacheSize, index + 1, index, value)
      BY <1>1, <2>1 DEF CacheAdd
    <3> QED BY <3>1, <3>2 DEF AddedWindow
  <2>2. CASE ~(index + 1 - c.first > CacheSize)
    <3>1. AddedWindow(c, c.first, index + 1, index)
      BY <1>1, <2>2, CacheSizeAssumption DEF CacheOK, AddedWindow
    <3>2. CacheAdd(c, index, value) = Moved(c, c.first, index + 1, index, value)
      BY <1>1, <2>2 DEF CacheAdd
    <3> QED BY <3>1, <3>2 DEF AddedWindow
  <2> QED BY <2>1, <2>2
<1>2. CASE ~(index >= c.last) /\ index < c.first
  <2>1. CASE c.last - index > CacheSize
    <3>1. AddedWindow(c, index, index + CacheSize, index)
      BY <1>2, <2>1, CacheSizeAssumption DEF CacheOK, AddedWindow
    <3>2. CacheAdd(c, index, value) = Moved(c, index, index + CacheSize, index, value)
      BY <1>2, <2>1 DEF CacheAdd
    <3> QED BY <3>1, <3>2 DEF AddedWindow
  <2>2. CASE ~(c.last - index > CacheSize)
    <3>1. AddedWindow(c, index, c.last, index)
      BY <1>2, <2>2, CacheSizeAssumption DEF CacheOK, AddedWindow
    <3>2. CacheAdd(c, index, value) = Moved(c, index, c.last, index, value)
      BY <1>2, <2>2 DEF CacheAdd
    <3> QED BY <3>1, <3>2 DEF AddedWindow
  <2> QED BY <2>1, <2>2
<1>3. CASE ~(index >= c.last) /\ ~(index < c.first)
  <2>1. AddedWindow(c, c.first, c.last, index)
    BY <1>3 DEF CacheOK, AddedWindow
  <2>2. CacheAdd(c, index, value) = Moved(c, c.first, c.last, index, value)
    BY <1>3 DEF CacheAdd
  <2> QED BY <2>1, <2>2 DEF AddedWindow
<1> QED BY <1>1, <1>2, <1>3

\* What Moved yields: the window asked for, with a vector for each index.
LEMMA MovedOK ==
  ASSUME NEW c, NEW first \in Nat, NEW last \in Nat, NEW index \in Nat, NEW value,
         AddedWindow(c, first, last, index)
  PROVE  CacheOK(Moved(c, first, last, index, value))
BY DEF Moved, AddedWindow, CacheOK, Window

\* FrameCache::add keeps the cache well formed and within max_size_, wherever
\* the index lies and whatever the size, zero included.
THEOREM CacheAddOK ==
  ASSUME NEW c, CacheOK(c), NEW index \in Nat, NEW value
  PROVE  CacheOK(CacheAdd(c, index, value))
<1>1. PICK first, last \in Nat :
        /\ AddedWindow(c, first, last, index)
        /\ CacheAdd(c, index, value) = Moved(c, first, last, index, value)
  BY CacheAddMoves
<1> QED BY <1>1, MovedOK

\* The vector just added is the one get returns, so that pop_frame finds its
\* frame again; only a cache of size zero forgets it at once.
THEOREM CacheRemembers ==
  ASSUME NEW c, CacheOK(c), NEW index \in Nat, NEW value, CacheSize >= 1
  PROVE  CacheGet(CacheAdd(c, index, value), index) = value
<1>1. PICK first, last \in Nat :
        /\ AddedWindow(c, first, last, index)
        /\ CacheAdd(c, index, value) = Moved(c, first, last, index, value)
  BY CacheAddMoves
<1>2. index \in first .. last - 1
  BY <1>1 DEF AddedWindow
<1> QED BY <1>1, <1>2 DEF CacheGet, Moved

\* Adding at one index never changes what another index holds, except that
\* it may be evicted: get never returns a vector added for another index.
THEOREM CacheAddElsewhere ==
  ASSUME NEW c, CacheOK(c), NEW index \in Nat, NEW value, NEW other \in Nat,
         other # index
  PROVE  CacheGet(CacheAdd(c, index, value), other) \in {CacheGet(c, other), NoFrames}
<1>1. PICK first, last \in Nat :
        /\ AddedWindow(c, first, last, index)
        /\ CacheAdd(c, index, value) = Moved(c, first, last, index, value)
  BY CacheAddMoves
<1>2. CASE other \in first .. last - 1
  BY <1>1, <1>2 DEF CacheGet, Moved
<1>3. CASE other \notin first .. last - 1
  <2>1. other < first \/ other >= last
    BY <1>3
  <2> QED BY <1>1, <2>1 DEF CacheGet, Moved
<1> QED BY <1>2, <1>3

-----------------------------------------------------------------------------
(* The queue of tasks.                                                      *)

Injective(q) == \A i, j \in DOMAIN q : q[i] = q[j] => i = j

\* Appending an index that was not queued keeps the queue free of duplicates.
LEMMA AppendFresh ==
  ASSUME NEW q \in Seq(Nat), Injective(q), NEW x \in Nat, x \notin ToSet(q)
  PROVE  /\ Append(q, x) \in Seq(Nat)
         /\ Injective(Append(q, x))
         /\ ToSet(Append(q, x)) = ToSet(q) \cup {x}
<1>1. Append(q, x) \in Seq(Nat)
  OBVIOUS
<1>2. DOMAIN Append(q, x) = DOMAIN q \cup {Len(q) + 1}
  OBVIOUS
<1>3. \A i \in DOMAIN q : Append(q, x)[i] = q[i] /\ q[i] # x
  BY DEF ToSet
<1>4. Append(q, x)[Len(q) + 1] = x
  OBVIOUS
<1>5. Injective(Append(q, x))
  BY <1>2, <1>3, <1>4 DEF Injective
<1>6. ToSet(Append(q, x)) = ToSet(q) \cup {x}
  BY <1>2, <1>3, <1>4 DEF ToSet
<1> QED BY <1>1, <1>5, <1>6

\* Taking the head off removes just that index from the queue.
LEMMA TailOfInjective ==
  ASSUME NEW q \in Seq(Nat), Injective(q), q # <<>>
  PROVE  /\ Tail(q) \in Seq(Nat)
         /\ Head(q) \in Nat
         /\ Injective(Tail(q))
         /\ Head(q) \notin ToSet(Tail(q))
         /\ ToSet(q) = ToSet(Tail(q)) \cup {Head(q)}
<1>1. Tail(q) \in Seq(Nat) /\ Head(q) \in Nat /\ Len(q) >= 1
  OBVIOUS
<1>2. DOMAIN Tail(q) = 1 .. Len(q) - 1 /\ DOMAIN q = 1 .. Len(q)
  OBVIOUS
<1>3. \A i \in DOMAIN Tail(q) : Tail(q)[i] = q[i + 1] /\ i + 1 \in DOMAIN q
  BY <1>1, <1>2
<1>4. Head(q) = q[1]
  OBVIOUS
<1>5. Injective(Tail(q))
  BY <1>2, <1>3 DEF Injective
<1>6. Head(q) \notin ToSet(Tail(q))
  BY <1>2, <1>3, <1>4, <1>1 DEF Injective, ToSet
<1>7. ToSet(q) = ToSet(Tail(q)) \cup {Head(q)}
  <2>1. ASSUME NEW i \in DOMAIN q
        PROVE  q[i] \in ToSet(Tail(q)) \cup {Head(q)}
    <3>1. CASE i = 1
      BY <3>1, <1>4
    <3>2. CASE i # 1
      <4>1. i - 1 \in DOMAIN Tail(q) /\ Tail(q)[i - 1] = q[i]
        BY <3>2, <2>1, <1>1, <1>2
      <4> QED BY <4>1 DEF ToSet
    <3> QED BY <3>1, <3>2
  <2>2. ToSet(Tail(q)) \cup {Head(q)} \subseteq ToSet(q)
    BY <1>1, <1>2, <1>3, <1>4 DEF ToSet
  <2> QED BY <2>1, <2>2 DEF ToSet
<1> QED BY <1>1, <1>5, <1>6, <1>7

-----------------------------------------------------------------------------
(* Types.  CacheInv adds to CacheTyped that the window never outgrows       *)
(* CacheSize: the two are inductive only together.                          *)

CacheInv == CacheOK(cache)

Types == TasksTyped /\ ClientTyped /\ CacheInv

LEMMA NoCallTyped == NoCall \in CallType
BY DEF NoCall, CallType

\* The prefetch loop begins with typed locals.
LEMMA BeginPrefetchTypes ==
  ASSUME NEW capped \in BOOLEAN, BeginPrefetch(capped)
  PROVE  pc' \in PcValues /\ call' \in CallType
BY DEF BeginPrefetch, NoCall, CallType, PcValues

\* Pushing a task keeps queue and futures typed.
LEMMA PushTypes ==
  ASSUME TasksTyped, NEW index \in Nat, Push(index), UNCHANGED running
  PROVE  TasksTyped'
<1>1. queue' \in Seq(Nat)
  BY DEF Push, TasksTyped
<1>2. DOMAIN futures' = DOMAIN futures \cup {index}
  BY DEF Push
<1>3. ASSUME NEW i \in DOMAIN futures'
      PROVE  futures'[i] = Pending \/ (i \in DOMAIN futures /\ futures'[i] = futures[i])
  BY <1>2 DEF Push
<1>4. Pending.ready \in BOOLEAN
  BY DEF Pending
<1>5. \A i \in DOMAIN futures' : futures'[i].ready \in BOOLEAN
  BY <1>3, <1>4 DEF TasksTyped
<1> QED BY <1>1, <1>2, <1>5 DEF TasksTyped

LEMMA AskForTypes ==
  ASSUME TasksTyped, frameno \in Nat, AskFor(frameno), UNCHANGED running
  PROVE  TasksTyped'
<1>1. CASE UNCHANGED <<queue, futures>>
  BY <1>1 DEF TasksTyped
<1>2. CASE Push(frameno)
  BY <1>2, PushTypes
<1> QED BY <1>1, <1>2 DEF AskFor

\* Taking a result out keeps the other futures.
LEMMA AfterGetTypes ==
  ASSUME TasksTyped, futures' = AfterGet, UNCHANGED <<queue, running>>
  PROVE  TasksTyped'
<1>1. DOMAIN futures' \subseteq DOMAIN futures
  BY DEF AfterGet, Without
<1>2. \A i \in DOMAIN futures' : futures'[i] = futures[i]
  BY DEF AfterGet, Without
<1> QED BY <1>1, <1>2 DEF TasksTyped

LEMMA DropTasksTypes ==
  ASSUME TasksTyped, DropTasks
  PROVE  TasksTyped'
<1>1. queue' \in Seq(Nat)
  BY DEF DropTasks
<1>2. running' \in [index : Nat \cup {-1}, live : BOOLEAN]
  BY DEF DropTasks, TasksTyped
<1>3. DOMAIN futures' = {}
  BY DEF DropTasks, NoFutures
<1> QED BY <1>1, <1>2, <1>3 DEF TasksTyped

LEMMA InitTypes == Init => Types
<1> SUFFICES ASSUME Init PROVE Types
  OBVIOUS
<1>1. TasksTyped
  <2>1. DOMAIN futures = {}
    BY DEF Init, NoFutures
  <2> QED BY <2>1 DEF Init, Idle, TasksTyped
<1>2. ClientTyped
  BY NoCallTyped DEF Init, ClientTyped, PcValues
<1>3. CacheInv
  BY CacheSizeAssumption DEF Init, EmptyCache, CacheInv, CacheOK, Window
<1> QED BY <1>1, <1>2, <1>3 DEF Types

\* The tasks and futures stay typed.
LEMMA StepTasksTyped == Types /\ [Next]_vars => TasksTyped'
<1> SUFFICES ASSUME Types, [Next]_vars PROVE TasksTyped'
  OBVIOUS
<1> USE DEF Types
<1>1. CASE UNCHANGED <<queue, running, futures>>
  BY <1>1 DEF TasksTyped
<1>2. CASE Close \/ CloseLastFile \/ Rewind
  BY <1>2, DropTasksTypes DEF Close, CloseLastFile, Rewind
<1>3. CASE MoreAsk \/ PopAsk
  BY <1>3, AskForTypes DEF MoreAsk, PopAsk, ClientTyped
<1>4. CASE MoreReturn \/ PopReceive \/ PopFatal
  BY <1>4, AfterGetTypes DEF MoreReturn, PopReceive, PopFatal
<1>5. CASE PrefetchStep
  <2>1. frameno + call.i \in Nat
    BY DEF ClientTyped, CallType
  <2>2. UNCHANGED running
    BY <1>5 DEF PrefetchStep
  <2>3. Push(frameno + call.i) \/ UNCHANGED <<queue, futures>>
    BY <1>5 DEF PrefetchStep
  <2> QED BY <2>1, <2>2, <2>3, PushTypes DEF TasksTyped
<1>6. CASE TakeTask
  <2>1. Tail(queue) \in Seq(Nat) /\ Head(queue) \in Nat
    BY <1>6 DEF TakeTask, TasksTyped
  <2> QED BY <1>6, <2>1 DEF TakeTask, Task, TasksTyped
<1>7. CASE RunTask
  <2>1. DOMAIN futures' = DOMAIN futures
    BY <1>7 DEF RunTask
  <2>2. ASSUME NEW i \in DOMAIN futures'
        PROVE  futures'[i].ready \in BOOLEAN
    <3>1. CASE futures'[i] = futures[i]
      BY <2>1, <3>1 DEF TasksTyped
    <3>2. CASE futures'[i] # futures[i]
      <4>1. PICK ok, frames : futures'[i] = Ready(ok, frames)
        BY <1>7, <2>1, <3>2 DEF RunTask
      <4> QED BY <4>1 DEF Ready
    <3> QED BY <3>1, <3>2
  <2>3. running' \in [index : Nat \cup {-1}, live : BOOLEAN]
    BY <1>7 DEF RunTask, Idle
  <2> QED BY <1>7, <2>1, <2>2, <2>3 DEF RunTask, TasksTyped
<1> QED BY <1>1, <1>2, <1>3, <1>4, <1>5, <1>6, <1>7
        DEF Next, Client, InCall, Worker, vars, AddFile, Current, Seek, MoreCached,
            PopFrame, PopCached

\* So do the position and the locals of the client's call.
LEMMA StepClientTyped == Types /\ [Next]_vars => ClientTyped'
<1> SUFFICES ASSUME Types, [Next]_vars PROVE ClientTyped'
  OBVIOUS
<1> USE DEF Types
<1>1. CASE UNCHANGED <<frameno, pc, call>>
  BY <1>1 DEF ClientTyped
<1>2. CASE \E data \in FileData : AddFile(data)
  <2>1. UNCHANGED frameno
    BY <1>2 DEF AddFile
  <2>2. BeginPrefetch(FALSE) \/ UNCHANGED <<pc, call>>
    BY <1>2 DEF AddFile
  <2> QED BY <2>1, <2>2, BeginPrefetchTypes DEF ClientTyped
<1>3. CASE Rewind
  BY <1>3, BeginPrefetchTypes DEF Rewind, ClientTyped
<1>4. CASE \E index \in 0 .. MaxIndex : Seek(index)
  <2>1. frameno' \in Nat
    BY <1>4 DEF Seek
  <2> QED BY <1>4, <2>1, BeginPrefetchTypes DEF Seek, ClientTyped
<1>5. CASE MoreAsk
  BY <1>5 DEF MoreAsk, NoCall, CallType, ClientTyped, PcValues
<1>6. CASE \E stream \in StreamArgs : PopFrame(stream)
  <2>1. PICK stream \in StreamArgs : PopFrame(stream)
    BY <1>6
  <2>2. call' = [arg |-> stream, from |-> frameno, own |-> FALSE, i |-> 0, capped |-> FALSE]
    BY <2>1 DEF PopFrame, NoCall
  <2>3. call' \in CallType
    BY <2>2 DEF CallType, ClientTyped
  <2> QED BY <2>1, <2>3 DEF PopFrame, ClientTyped, PcValues
<1>7. CASE PrefetchStep
  <2>1. call' \in CallType
    BY <1>7, NoCallTyped DEF PrefetchStep, CallType, ClientTyped
  <2> QED BY <1>7, <2>1 DEF PrefetchStep, ClientTyped, PcValues
<1>8. CASE MoreReturn \/ PopFatal
  BY <1>8, NoCallTyped DEF MoreReturn, PopFatal, ClientTyped, PcValues
<1>9. CASE PopCached \/ PopReceive
  <2>1. frameno' = frameno + 1
    BY <1>9 DEF PopCached, PopReceive, PopTake
  <2>2. CASE BeginPrefetch(FALSE)
    <3>1. pc' \in PcValues /\ call' \in CallType
      BY <2>2, BeginPrefetchTypes
    <3>2. frameno' \in Nat
      BY <2>1 DEF ClientTyped
    <3> QED BY <3>1, <3>2 DEF ClientTyped
  <2>3. CASE pc' = "pop" /\ UNCHANGED call
    BY <2>1, <2>3 DEF ClientTyped, PcValues
  <2> QED BY <1>9, <2>2, <2>3 DEF PopCached, PopReceive, PopTake
<1>10. CASE PopAsk
  <2>1. PICK own \in BOOLEAN : call' = [call EXCEPT !.own = own]
    BY <1>10, Zenon DEF PopAsk
  <2>2. call' \in CallType
    BY <2>1 DEF CallType, ClientTyped
  <2> QED BY <1>10, <2>2 DEF PopAsk, ClientTyped, PcValues
<1>11. CASE Close
  BY <1>11 DEF Close, ClientTyped
<1> QED BY <1>1, <1>2, <1>3, <1>4, <1>5, <1>6, <1>7, <1>8, <1>9, <1>10, <1>11
        DEF Next, Client, InCall, Worker, vars, CloseLastFile, Current, MoreCached,
            TakeTask, RunTask

\* So does the cache, by what is known of CacheAdd.
LEMMA StepCacheInv == Types /\ [Next]_vars => CacheInv'
<1> SUFFICES ASSUME Types, [Next]_vars PROVE CacheInv'
  OBVIOUS
<1>1. CASE UNCHANGED cache
  BY <1>1 DEF Types, CacheInv
<1>2. CASE cache' = EmptyCache
  BY <1>2, CacheSizeAssumption DEF EmptyCache, CacheInv, CacheOK, Window
<1>3. CASE MoreReturn \/ PopReceive
  <2>1. cache' \in {cache, CacheAdd(cache, frameno, futures[frameno].frames)}
    BY <1>3 DEF MoreReturn, PopReceive
  <2> QED BY <2>1, CacheAddOK DEF Types, ClientTyped, CacheInv
<1> QED BY <1>1, <1>2, <1>3
        DEF Next, Client, InCall, Worker, vars, AddFile, Close, CloseLastFile, Rewind,
            Current, Seek, MoreCached, MoreAsk, PopFrame, PrefetchStep, PopCached, PopAsk,
            PopFatal, TakeTask, RunTask

THEOREM AlwaysTypes == Spec => []Types
<1>1. Types /\ [Next]_vars => Types'
  BY StepTasksTyped, StepClientTyped, StepCacheInv DEF Types
<1> QED BY <1>1, InitTypes, PTL DEF Spec

\* The variables keep their types, among them that the frame cache always has
\* one vector for every index of its window.
THEOREM SequenceTypeOK == Spec => []TypeOK
<1>1. Types => TypeOK
  BY DEF Types, CacheInv, CacheOK, TypeOK, CacheTyped
<1> QED BY <1>1, AlwaysTypes, PTL

\* However a client jumps about, the frame cache never outgrows max_size_.
THEOREM SequenceCacheBounded == Spec => []CacheBounded
<1>1. Types => CacheBounded
  BY DEF Types, CacheInv, CacheOK, CacheBounded
<1> QED BY <1>1, AlwaysTypes, PTL

-----------------------------------------------------------------------------
(* Futures and tasks.                                                       *)

PendingAt == {i \in DOMAIN futures : ~futures[i].ready}

\* A task pushed for an index without a future keeps tasks and futures matched.
LEMMA PushMatches ==
  ASSUME TasksTyped, TasksMatchFutures, NEW index \in Nat, index \notin DOMAIN futures,
         Push(index), UNCHANGED running
  PROVE  TasksMatchFutures'
<1>1. index \notin Outstanding
  BY DEF TasksMatchFutures
<1>2. Injective(queue) /\ index \notin ToSet(queue)
  BY <1>1 DEF TasksMatchFutures, Injective, Outstanding
<1>3. /\ Injective(queue')
      /\ ToSet(queue') = ToSet(queue) \cup {index}
  BY <1>2, AppendFresh DEF Push, TasksTyped
<1>4. Outstanding' = Outstanding \cup {index}
  BY <1>3 DEF Outstanding
<1>5. PendingAt' = PendingAt \cup {index}
  <2>1. DOMAIN futures' = DOMAIN futures \cup {index}
    BY DEF Push
  <2>2. futures'[index] = Pending /\ ~Pending.ready
    BY <2>1 DEF Push, Pending
  <2>3. \A i \in DOMAIN futures : futures'[i] = futures[i]
    BY DEF Push
  <2> QED BY <2>1, <2>2, <2>3 DEF PendingAt
<1>6. running.live => running.index \notin ToSet(queue')
  BY <1>1, <1>3 DEF TasksMatchFutures, Outstanding
<1> QED BY <1>3, <1>4, <1>5, <1>6 DEF TasksMatchFutures, Injective, PendingAt

LEMMA AskForMatches ==
  ASSUME TasksTyped, TasksMatchFutures, frameno \in Nat, AskFor(frameno),
         UNCHANGED <<running, frameno>>
  PROVE  TasksMatchFutures' /\ frameno' \in DOMAIN futures'
<1>1. CASE frameno \in DOMAIN futures
  BY <1>1 DEF AskFor, TasksMatchFutures, Outstanding
<1>2. CASE frameno \notin DOMAIN futures
  <2>1. Push(frameno)
    BY <1>2 DEF AskFor
  <2>2. frameno \in DOMAIN futures'
    BY <2>1 DEF Push
  <2> QED BY <1>2, <2>1, <2>2, PushMatches
<1> QED BY <1>1, <1>2

\* clear() leaves neither a task nor a future behind.
LEMMA DropTasksMatches ==
  ASSUME TasksTyped, DropTasks
  PROVE  TasksMatchFutures'
<1>1. DOMAIN futures' = {} /\ queue' = <<>>
  BY DEF DropTasks, NoFutures
<1>2. ~running'.live
  BY DEF DropTasks, TasksTyped
<1>3. ToSet(queue') = {}
  BY <1>1 DEF ToSet
<1>4. Outstanding' = {}
  BY <1>2, <1>3 DEF Outstanding
<1> QED BY <1>1, <1>2, <1>4 DEF TasksMatchFutures

\* Only a future that is ready is taken out.
LEMMA AfterGetMatches ==
  ASSUME TasksMatchFutures, Answered, futures' = AfterGet, UNCHANGED <<queue, running>>
  PROVE  TasksMatchFutures'
<1>1. /\ DOMAIN futures' \subseteq DOMAIN futures
      /\ DOMAIN futures \ {frameno} \subseteq DOMAIN futures'
      /\ \A i \in DOMAIN futures' : futures'[i] = futures[i]
  BY DEF AfterGet, Without
<1>2. PendingAt' = PendingAt
  BY <1>1 DEF PendingAt, Answered
<1> QED BY <1>2 DEF TasksMatchFutures, Outstanding, PendingAt

\* The worker: a task stays outstanding until its future is ready.
LEMMA TakeTaskMatches ==
  ASSUME TasksTyped, TasksMatchFutures, TakeTask
  PROVE  TasksMatchFutures'
<1>1. /\ Injective(queue')
      /\ Head(queue) \notin ToSet(queue')
      /\ ToSet(queue) = ToSet(queue') \cup {Head(queue)}
  BY TailOfInjective DEF TakeTask, TasksTyped, TasksMatchFutures, Injective
<1>2. ~running.live /\ running'.live /\ running'.index = Head(queue)
  BY DEF TakeTask, Idle, Task
<1>3. Outstanding' = Outstanding
  BY <1>1, <1>2 DEF Outstanding
<1> QED BY <1>1, <1>2, <1>3 DEF TasksMatchFutures, Injective, TakeTask

LEMMA RunTaskMatches ==
  ASSUME TasksTyped, TasksMatchFutures, RunTask
  PROVE  TasksMatchFutures' /\ DOMAIN futures' = DOMAIN futures
<1>1. DOMAIN futures' = DOMAIN futures
  BY DEF RunTask
<1>2. ~running'.live /\ UNCHANGED queue
  BY DEF RunTask, Idle
<1>3. Outstanding' = ToSet(queue)
  BY <1>2 DEF Outstanding
<1>4. CASE ~running.live
  <2>1. UNCHANGED futures
    BY <1>4 DEF RunTask
  <2> QED BY <1>2, <1>3, <1>4, <2>1 DEF TasksMatchFutures, Outstanding
<1>5. CASE running.live
  <2>1. running.index \in DOMAIN futures
    BY <1>5 DEF TasksMatchFutures, Outstanding
  <2>2. PICK ok, frames :
          futures' = [futures EXCEPT ![running.index] = Ready(ok, frames)]
    BY <1>5 DEF RunTask
  <2>3. Ready(ok, frames).ready
    BY DEF Ready
  <2>4. PendingAt' = PendingAt \ {running.index}
    BY <2>1, <2>2, <2>3 DEF PendingAt
  <2>5. PendingAt = ToSet(queue) \cup {running.index} /\ running.index \notin ToSet(queue)
    BY <1>5 DEF TasksMatchFutures, Outstanding, PendingAt
  <2>6. PendingAt' = ToSet(queue)
    BY <2>4, <2>5
  <2> QED BY <1>1, <1>2, <1>3, <2>6 DEF TasksMatchFutures, PendingAt
<1> QED BY <1>1, <1>4, <1>5

LEMMA InitMatches == Init => NoOrphanedFuture
<1> SUFFICES ASSUME Init PROVE NoOrphanedFuture
  OBVIOUS
<1>1. DOMAIN futures = {} /\ ToSet(queue) = {} /\ ~running.live /\ DOMAIN queue = {}
  BY DEF Init, NoFutures, Idle, ToSet
<1>2. Outstanding = {}
  BY <1>1 DEF Outstanding
<1>3. pc \notin {"more", "popwait"}
  BY DEF Init
<1> QED BY <1>1, <1>2, <1>3 DEF NoOrphanedFuture, TasksMatchFutures, WaitsForAFuture

LEMMA StepMatches == Types /\ NoOrphanedFuture /\ [Next]_vars => NoOrphanedFuture'
<1> SUFFICES ASSUME Types, NoOrphanedFuture, [Next]_vars PROVE NoOrphanedFuture'
  OBVIOUS
<1> USE DEF Types, NoOrphanedFuture
<1>1. CASE UNCHANGED <<queue, running, futures>> /\ (UNCHANGED <<pc, frameno>> \/ pc' \notin {"more", "popwait"})
  BY <1>1 DEF TasksMatchFutures, Outstanding, WaitsForAFuture
<1>2. CASE DropTasks /\ pc' \notin {"more", "popwait"}
  BY <1>2, DropTasksMatches DEF WaitsForAFuture
<1>3. CASE MoreAsk \/ PopAsk
  BY <1>3, AskForMatches DEF MoreAsk, PopAsk, ClientTyped, WaitsForAFuture
<1>4. CASE MoreReturn \/ PopReceive \/ PopFatal
  <2>1. pc' \notin {"more", "popwait"}
    BY <1>4 DEF MoreReturn, PopReceive, PopFatal, PopTake, BeginPrefetch
  <2> QED BY <1>4, <2>1, AfterGetMatches
          DEF MoreReturn, PopReceive, PopFatal, WaitsForAFuture
<1>5. CASE PrefetchStep
  <2>1. pc' \notin {"more", "popwait"}
    BY <1>5 DEF PrefetchStep
  <2>2. CASE UNCHANGED <<queue, futures>>
    BY <1>5, <2>1, <2>2
       DEF PrefetchStep, TasksMatchFutures, Outstanding, WaitsForAFuture
  <2>3. CASE Push(frameno + call.i) /\ frameno + call.i \notin DOMAIN futures
    <3>1. frameno + call.i \in Nat
      BY DEF ClientTyped, CallType
    <3> QED BY <1>5, <2>1, <2>3, <3>1, PushMatches DEF PrefetchStep, WaitsForAFuture
  <2> QED BY <1>5, <2>2, <2>3 DEF PrefetchStep
<1>6. CASE TakeTask
  BY <1>6, TakeTaskMatches DEF TakeTask, WaitsForAFuture
<1>7. CASE RunTask
  BY <1>7, RunTaskMatches DEF RunTask, WaitsForAFuture
<1>8. CASE Close \/ CloseLastFile \/ Rewind
  <2>1. DropTasks /\ pc' \notin {"more", "popwait"}
    BY <1>8 DEF Close, CloseLastFile, Rewind, BeginPrefetch
  <2> QED BY <1>2, <2>1
<1>9. CASE \/ \E data \in FileData : AddFile(data)
           \/ \E index \in 0 .. MaxIndex : Seek(index)
           \/ \E stream \in StreamArgs : PopFrame(stream)
           \/ Current
           \/ MoreCached
           \/ PopCached
  <2>1. UNCHANGED <<queue, running, futures>>
    BY <1>9 DEF AddFile, Seek, PopFrame, Current, MoreCached, PopCached
  <2>2. pc' \notin {"more", "popwait"}
    BY <1>9 DEF AddFile, Seek, PopFrame, Current, MoreCached, PopCached, PopTake, BeginPrefetch
  <2> QED BY <1>1, <2>1, <2>2
<1>10. CASE UNCHANGED vars
  BY <1>1, <1>10 DEF vars
<1> QED BY <1>3, <1>4, <1>5, <1>6, <1>7, <1>8, <1>9, <1>10 DEF Next, Client, InCall, Worker

\* However calls and worker interleave, a pending future has exactly one task
\* that will fulfil it, no task is left for a future that was dropped, and a
\* blocked call waits for a future there is: the safety half of the claim
\* that every call returns.
THEOREM SequenceNoOrphanedFuture == Spec => []NoOrphanedFuture
<1>1. Types /\ NoOrphanedFuture /\ [Next]_vars => NoOrphanedFuture'
  BY StepMatches
<1> QED BY <1>1, InitMatches, AlwaysTypes, PTL DEF Spec

-----------------------------------------------------------------------------
(* The frame popped last.                                                   *)

\* PoppedIsCurrent from the moment pop_frame has its frame on, while it still
\* reads ahead: what PoppedIsCurrent lacks to be inductive.
PoppedInv ==
  pc \in {"idle", "prefetch"} /\ answer.op = "pop" /\ answer.value # Fatal
    => frameno = answer.index + 1 /\ CacheGet(cache, frameno - 1) = answer.value

LEMMA InitPopped == Init => PoppedInv
BY DEF Init, PoppedInv

\* Taking a frame the cache holds at frameno_ makes it the frame popped last.
LEMMA PopTakePops ==
  ASSUME NEW frames, frameno \in Nat, PopTake(frames), CacheGet(cache', frameno) = frames
  PROVE  PoppedInv'
<1>1. frameno' = frameno + 1 /\ frameno' - 1 = frameno
  BY DEF PopTake
<1>2. CASE pc' = "pop"
  BY <1>2 DEF PoppedInv
<1>3. CASE answer' = [op |-> "pop", index |-> frameno, value |-> frames]
  BY <1>1, <1>3 DEF PoppedInv
<1> QED BY <1>2, <1>3 DEF PopTake

LEMMA StepPopped ==
  ASSUME CacheSize >= 1
  PROVE  Types /\ PoppedInv /\ [Next]_vars => PoppedInv'
<1> SUFFICES ASSUME Types, PoppedInv, [Next]_vars PROVE PoppedInv'
  OBVIOUS
<1>1. CASE /\ UNCHANGED <<cache, frameno, answer>>
           /\ \/ pc \in {"idle", "prefetch"}
              \/ pc' \notin {"idle", "prefetch"}
  BY <1>1 DEF PoppedInv
<1>2. CASE answer'.op # "pop" \/ answer'.value = Fatal
  BY <1>2 DEF PoppedInv
<1>3. CASE PopCached
  BY <1>3, PopTakePops DEF PopCached, Types, ClientTyped
<1>4. CASE PopReceive
  <2>1. CacheGet(cache', frameno) = futures[frameno].frames
    BY <1>4, CacheRemembers DEF PopReceive, Types, ClientTyped, CacheInv
  <2> QED BY <1>4, <2>1, PopTakePops DEF PopReceive, Types, ClientTyped
<1>5. CASE \/ \E data \in FileData : AddFile(data)
           \/ Close
           \/ CloseLastFile
           \/ Rewind
           \/ Current
           \/ \E index \in 0 .. MaxIndex : Seek(index)
           \/ MoreCached
           \/ MoreReturn
           \/ PopFatal
  <2>1. CASE \E data \in FileData : AddFile(data)
    <3>1. answer' \in {[op |-> "done"], [op |-> "add", value |-> Fatal]}
      BY <2>1 DEF AddFile
    <3> QED BY <1>2, <3>1
  <2>2. CASE Current
    <3>1. answer'.op = "current"
      BY <2>2 DEF Current
    <3> QED BY <1>2, <3>1
  <2>3. CASE MoreCached \/ MoreReturn \/ PopFatal
    <3>1. \/ \E value : answer' = MoreAnswer(value)
          \/ answer' = [op |-> "pop", index |-> frameno, value |-> Fatal]
      BY <2>3 DEF MoreCached, MoreReturn, PopFatal
    <3> QED BY <1>2, <3>1 DEF MoreAnswer
  <2>4. CASE Close \/ CloseLastFile \/ Rewind \/ (\E index \in 0 .. MaxIndex : Seek(index))
    <3>1. answer' \in {[op |-> "done"], [op |-> "close"]}
      BY <2>4 DEF Close, CloseLastFile, Rewind, Seek
    <3>2. answer'.op # "pop"
      BY <3>1
    <3> QED BY <1>2, <3>2
  <2> QED BY <1>5, <2>1, <2>2, <2>3, <2>4
<1>6. CASE MoreAsk \/ PopAsk \/ (\E stream \in StreamArgs : PopFrame(stream)) \/ PrefetchStep
  BY <1>1, <1>6 DEF MoreAsk, PopAsk, PopFrame, PrefetchStep
<1>7. CASE Worker \/ UNCHANGED vars
  BY <1>7 DEF Worker, TakeTask, RunTask, vars, PoppedInv
<1> QED BY <1>3, <1>4, <1>5, <1>6, <1>7 DEF Next, Client, InCall

\* After pop_frame the frame it returned is still in the cache at frameno_ - 1,
\* whatever the worker and the read-ahead did meanwhile: get_mixed_frames and
\* get_current_frame_and_deps then succeed.  A cache of size zero keeps nothing.
THEOREM SequencePoppedIsCurrent ==
  ASSUME CacheSize >= 1
  PROVE  Spec => []PoppedIsCurrent
<1>1. Types /\ PoppedInv /\ [Next]_vars => PoppedInv'
  BY StepPopped
<1>2. PoppedInv => PoppedIsCurrent
  BY DEF PoppedInv, PoppedIsCurrent
<1> QED BY <1>1, <1>2, InitPopped, AlwaysTypes, PTL DEF Spec

-----------------------------------------------------------------------------
(* Reading in order.  Without seek, rewind and an add_file in the middle,   *)
(* the frames are asked for in order, the worker reads them in order, and   *)
(* get_frame finds what is promised.                                        *)

Orderly == Calls \subseteq {"more", "pop_frame", "close", "reopen", "current"}

GroupInv == IsGroup(group) /\ FilesOK(group.files)

\* Asked for the frame at an index when the one at a place is due.
InTurn(index, place) == IF place < Promise!Length(Data) THEN index = place
                                                        ELSE index >= Promise!Length(Data)

Busy == IF running.live THEN 1 ELSE 0

\* The files have delivered the frames before rd; the task that runs and the
\* queued ones ask for those that follow.  A task whose future was dropped
\* runs on into files that nobody has read yet.
ReadingFrom(rd) ==
  /\ rd \in 0 .. Promise!Length(Data)
  /\ AllServe(group.files, rd)
  /\ running.live => InTurn(running.index, rd)
  /\ \A k \in DOMAIN queue : InTurn(queue[k], rd + Busy + k - 1)
  /\ running # Idle /\ ~running.live
       => rd = 0 /\ \A i \in DOMAIN group.files : ~group.files[i].has_size

Held(i) == i \in DOMAIN futures \/ CacheGet(cache, i) # NoFrames

\* The frames before asked were asked for, and the client still holds those
\* from a place on.
Holds(place, asked) ==
  /\ place <= asked
  /\ place <= Promise!Length(Data)
  /\ \A i \in place .. Promise!Length(Data) - 1 : i < asked => Held(i)
  /\ \A i \in DOMAIN futures : i < asked \/ i >= Promise!Length(Data)
  /\ \A i \in Nat : CacheGet(cache, i) # NoFrames => i <= place /\ i < asked

HeldUpTo(asked) == Holds(frameno, asked)

\* Nor does the prefetch loop leave out any.
AskedUpTo(asked) ==
  /\ HeldUpTo(asked)
  /\ pc = "prefetch" => frameno + call.i <= asked \/ asked >= Promise!Length(Data)

Asked(rd) == rd + Busy + Len(queue)

Reading == \E rd \in Nat : ReadingFrom(rd) /\ AskedUpTo(Asked(rd))

\* All that was kept for the files closed is gone.
AfterClose ==
  answer.op = "close" =>
    /\ pc # "prefetch"
    /\ pc = "idle" => /\ group.files = <<>>
                      /\ frameno = 0
                      /\ queue = <<>>
                      /\ DOMAIN futures = {}
                      /\ cache = EmptyCache
                      /\ ~running.live

Coherent ==
  /\ \A i \in Nat : CacheGet(cache, i) # NoFrames
                      => CacheGet(cache, i) = Promise!FramesAt(Data, i)
  /\ FuturesCoherent

OrderInv == /\ GroupInv
            /\ Reading
            /\ AfterClose
            /\ Coherent
            /\ ~call.capped

\* All that the steps of an orderly client preserve.
Inv == Types /\ NoOrphanedFuture /\ OrderInv

LEMMA DataTypes ==
  ASSUME GroupInv
  PROVE  /\ Data = Datas(group.files)
         /\ Data \in Seq(Seq(Frames))
         /\ Promise!Joined(Data) \in Seq(Frames)
         /\ Promise!Length(Data) \in Nat
<1>1. Data = Datas(group.files)
  BY DEF Data, Datas
<1>2. Data \in Seq(Seq(Frames))
  BY <1>1, DatasTypes DEF GroupInv
<1> HIDE DEF Data
<1>3. Promise!Joined(Data) \in Seq(Frames)
  <2>1. Len(Data) \in 0 .. Len(Data)
    BY <1>2
  <2> QED BY <1>2, <2>1, FirstFramesAll, FirstFramesTypes
<1> QED BY <1>1, <1>2, <1>3 DEF Promise!Length

\* There is a frame at every index up to the end and none beyond.
LEMMA FramesAtEnd ==
  ASSUME GroupInv, NEW i \in Nat
  PROVE  /\ (Promise!FramesAt(Data, i) # NoFrames) <=> (i < Promise!Length(Data))
         /\ i < Promise!Length(Data) =>
              Last(Promise!FramesAt(Data, i)) = Promise!Joined(Data)[i + 1]
<1> DEFINE all == Promise!Joined(Data)
<1>1. Data \in Seq(Seq(Frames)) /\ all \in Seq(Frames) /\ Promise!Length(Data) = Len(all)
  BY DataTypes DEF Promise!Length
<1>2. Promise!FramesAt(Data, i) =
        IF i < Len(all) THEN ShownAfter(SubSeq(all, 1, i), all[i + 1]) ELSE <<>>
  BY <1>1, FramesAtShow
<1> HIDE DEF all, Data
<1>3. ASSUME i < Len(all)
      PROVE  /\ ShownAfter(SubSeq(all, 1, i), all[i + 1]) # <<>>
             /\ Last(ShownAfter(SubSeq(all, 1, i), all[i + 1])) = all[i + 1]
  <2>1. SubSeq(all, 1, i) \in Seq(Frames) /\ all[i + 1] \in Frames
    BY <1>1, <1>3, Sifting!SeqParts
  <2> QED BY <2>1, ShownTypes
<1> QED BY <1>1, <1>2, <1>3 DEF NoFrames, all

-----------------------------------------------------------------------------
(* Asking in order.                                                         *)

\* What is not held yet is asked for in turn.
LEMMA NotHeldInTurn ==
  ASSUME GroupInv, NEW asked \in Nat, HeldUpTo(asked), frameno \in Nat,
         NEW index \in Nat, frameno <= index, ~Held(index),
         index <= asked \/ asked >= Promise!Length(Data)
  PROVE  InTurn(index, asked)
<1> DEFINE n == Promise!Length(Data)
<1>1. n \in Nat
  BY DataTypes
<1>2. ~(index < n /\ index < asked)
  BY <1>1 DEF HeldUpTo, Holds
<1> HIDE DEF n
<1>3. CASE asked < n
  BY <1>1, <1>2, <1>3 DEF InTurn, n
<1>4. CASE ~(asked < n)
  BY <1>1, <1>2, <1>4 DEF InTurn, n
<1> QED BY <1>3, <1>4

\* A task pushed in turn is read in turn.
LEMMA PushReading ==
  ASSUME GroupInv, TasksTyped, NEW rd \in Nat, ReadingFrom(rd), NEW index \in Nat,
         InTurn(index, Asked(rd)), Push(index), UNCHANGED <<group, running>>
  PROVE  ReadingFrom(rd)' /\ Asked(rd)' = Asked(rd) + 1
<1> DEFINE q == queue
           r == queue'
<1>1. q \in Seq(Nat) /\ r = Append(q, index)
  BY DEF TasksTyped, Push
<1> HIDE DEF q, r
<1>2. /\ Len(r) = Len(q) + 1 /\ Len(q) \in Nat /\ DOMAIN r = 1 .. Len(q) + 1
      /\ r[Len(q) + 1] = index /\ DOMAIN q = 1 .. Len(q)
      /\ \A k \in DOMAIN q : r[k] = q[k]
  BY <1>1
<1>3. Busy \in Nat /\ Busy' = Busy
  BY DEF Busy
<1>4. Data' = Data /\ Promise!Length(Data)' = Promise!Length(Data)
  BY DEF Data
<1>5. ASSUME NEW k \in DOMAIN r
      PROVE  InTurn(r[k], rd + Busy + k - 1)
  <2>1. CASE k \in DOMAIN q
    BY <1>2, <2>1 DEF ReadingFrom, q
  <2>2. CASE k = Len(q) + 1
    <3>1. rd + Busy + k - 1 = Asked(rd)
      BY <1>2, <1>3, <2>2 DEF Asked, q
    <3> QED BY <1>2, <2>2, <3>1
  <2> QED BY <1>2, <2>1, <2>2
<1>6. Asked(rd)' = Asked(rd) + 1
  BY <1>2, <1>3 DEF Asked, q, r
<1>7. ReadingFrom(rd)'
  <2>1. (\A k \in DOMAIN queue : InTurn(queue[k], rd + Busy + k - 1))'
    BY <1>3, <1>4, <1>5 DEF InTurn, r
  <2>2. /\ (rd \in 0 .. Promise!Length(Data))'
        /\ AllServe(group.files, rd)'
        /\ (running.live => InTurn(running.index, rd))'
        /\ (running # Idle /\ ~running.live
             => rd = 0 /\ \A i \in DOMAIN group.files : ~group.files[i].has_size)'
    BY <1>4 DEF ReadingFrom, InTurn
  <2> QED BY <2>1, <2>2 DEF ReadingFrom
<1> QED BY <1>6, <1>7

LEMMA PushHeld ==
  ASSUME GroupInv, TasksTyped, NEW asked \in Nat, HeldUpTo(asked), frameno \in Nat,
         NEW index \in Nat, InTurn(index, asked), Push(index), UNCHANGED <<group, cache, frameno>>
  PROVE  HeldUpTo(asked + 1)'
<1> DEFINE n == Promise!Length(Data)
<1>1. n \in Nat /\ Promise!Length(Data)' = n
  <2>1. Data' = Data
    BY DEF Data
  <2> QED BY <2>1, DataTypes
<1> HIDE DEF n
<1>2. DOMAIN futures' = DOMAIN futures \cup {index}
  BY DEF Push
<1>3. (asked < n /\ index = asked) \/ (asked >= n /\ index >= n)
  BY <1>1 DEF InTurn, n
<1>4. /\ frameno <= asked /\ frameno <= n
      /\ \A i \in frameno .. n - 1 : i < asked => Held(i)
      /\ \A i \in DOMAIN futures : i < asked \/ i >= n
      /\ \A i \in Nat : CacheGet(cache, i) # NoFrames => i <= frameno /\ i < asked
  BY DEF HeldUpTo, Holds, n
<1>5. frameno' <= asked + 1 /\ frameno' <= n
  BY <1>1, <1>4
<1>6. \A i : Held(i) => Held(i)'
  BY <1>2 DEF Held
<1>7. ASSUME NEW i \in frameno .. n - 1, i < asked + 1
      PROVE  Held(i)'
  <2>1. CASE i < asked
    BY <1>4, <1>6, <2>1
  <2>2. CASE ~(i < asked)
    <3>1. i = asked /\ asked < n
      BY <1>1, <1>4, <1>7, <2>2
    <3>2. i = index
      BY <1>1, <1>3, <3>1
    <3> QED BY <1>2, <3>2 DEF Held
  <2> QED BY <2>1, <2>2
<1>8. ASSUME NEW i \in DOMAIN futures'
      PROVE  i < asked + 1 \/ i >= n
  <2>1. CASE i = index
    BY <1>1, <1>3, <2>1
  <2>2. CASE i \in DOMAIN futures /\ i < asked
    <3>1. i \in Nat
      BY <2>2 DEF TasksTyped
    <3> QED BY <2>2, <3>1
  <2>3. CASE i \in DOMAIN futures /\ i >= n
    BY <2>3
  <2> QED BY <1>2, <1>4, <2>1, <2>2, <2>3
<1>9. ASSUME NEW i \in Nat, CacheGet(cache, i)' # NoFrames
      PROVE  i <= frameno' /\ i < asked + 1
  BY <1>4, <1>9
<1> QED BY <1>1, <1>5, <1>7, <1>8, <1>9 DEF HeldUpTo, Holds

LEMMA PushCoherent ==
  ASSUME Coherent, NEW index, Push(index), UNCHANGED <<group, cache>>
  PROVE  Coherent'
<1>1. Data' = Data
  BY DEF Data
<1>2. FuturesCoherent'
  <2>1. ASSUME NEW i \in DOMAIN futures', futures'[i].ready
        PROVE  i \in DOMAIN futures /\ futures'[i] = futures[i]
    <3>1. futures'[i] # Pending
      BY <2>1 DEF Pending
    <3> QED BY <2>1, <3>1 DEF Push
  <2> QED BY <1>1, <2>1 DEF FuturesCoherent, Coherent
<1> QED BY <1>1, <1>2 DEF Coherent

\* Asking for the next frame, unless that was done.
LEMMA AskForKeeps ==
  ASSUME Types, GroupInv, Coherent, NEW rd \in Nat, ReadingFrom(rd), HeldUpTo(Asked(rd)),
         CacheGet(cache, frameno) = NoFrames, AskFor(frameno),
         UNCHANGED <<group, cache, running, frameno>>
  PROVE  ReadingFrom(rd)' /\ HeldUpTo(Asked(rd))' /\ Coherent' /\ GroupInv'
<1>1. Asked(rd) \in Nat /\ frameno \in Nat
  BY DEF Types, TasksTyped, ClientTyped, Asked, Busy
<1>2. CASE UNCHANGED <<queue, futures>>
  <2>1. Data' = Data
    BY DEF Data
  <2>2. ReadingFrom(rd)'
    BY <1>2, <2>1 DEF ReadingFrom, InTurn, Busy
  <2>3. HeldUpTo(Asked(rd))'
    BY <1>2, <2>1 DEF HeldUpTo, Holds, Asked, Held, Busy
  <2>4. Coherent' /\ GroupInv'
    BY <1>2, <2>1 DEF Coherent, FuturesCoherent, GroupInv
  <2> QED BY <2>2, <2>3, <2>4
<1>3. CASE frameno \notin DOMAIN futures /\ Push(frameno)
  <2>1. InTurn(frameno, Asked(rd))
    <3>1. ~Held(frameno)
      BY <1>3 DEF Held
    <3>2. frameno <= frameno /\ frameno <= Asked(rd)
      BY <1>1 DEF HeldUpTo, Holds
    <3> QED BY <1>1, <3>1, <3>2, NotHeldInTurn
  <2>2. ReadingFrom(rd)' /\ Asked(rd)' = Asked(rd) + 1
    BY <1>1, <1>3, <2>1, PushReading DEF Types
  <2>3. HeldUpTo(Asked(rd))'
    <3>1. PICK asked \in Nat : asked = Asked(rd)
      BY <1>1
    <3>2. HeldUpTo(asked) /\ InTurn(frameno, asked)
      BY <2>1, <3>1
    <3>3. HeldUpTo(asked + 1)'
      BY <1>1, <1>3, <3>2, PushHeld DEF Types
    <3>4. Asked(rd)' = asked + 1
      BY <2>2, <3>1
    <3> QED BY <3>3, <3>4 DEF HeldUpTo, Holds
  <2>4. Coherent' /\ GroupInv'
    BY <1>3, PushCoherent DEF GroupInv
  <2> QED BY <2>2, <2>3, <2>4
<1> QED BY <1>2, <1>3 DEF AskFor

-----------------------------------------------------------------------------
(* The worker reads in order.                                               *)

LEMMA TakeTaskOrder ==
  ASSUME Types, OrderInv, TakeTask
  PROVE  OrderInv'
<1>1. PICK rd \in Nat : ReadingFrom(rd) /\ AskedUpTo(Asked(rd))
  BY DEF OrderInv, Reading
<1> DEFINE q == queue
           r == queue'
<1>2. q \in Seq(Nat) /\ q # <<>> /\ r = Tail(q) /\ running' = Task(Head(q)) /\ running = Idle
  BY DEF TakeTask, Types, TasksTyped
<1> HIDE DEF q, r
<1>3. /\ Len(r) = Len(q) - 1 /\ Len(q) \in Nat /\ DOMAIN r = 1 .. Len(q) - 1
      /\ Head(q) = q[1] /\ 1 \in DOMAIN q /\ DOMAIN q = 1 .. Len(q)
      /\ \A k \in DOMAIN r : r[k] = q[k + 1]
  BY <1>2
<1>4. Busy = 0 /\ Busy' = 1 /\ running'.live /\ running'.index = q[1]
  BY <1>2, <1>3 DEF Busy, Idle, Task
<1>5. UNCHANGED <<group, cache, futures, frameno, pc, call, answer>>
  BY DEF TakeTask
<1>6. Data' = Data
  BY <1>5 DEF Data
<1>7. Asked(rd)' = Asked(rd)
  BY <1>3, <1>4 DEF Asked, q, r
<1>8. AskedUpTo(Asked(rd))'
  BY <1>1, <1>5, <1>6, <1>7 DEF AskedUpTo, HeldUpTo, Holds, Held
<1>9. ReadingFrom(rd)'
  <2>1. \A k \in DOMAIN q : InTurn(q[k], rd + k - 1)
    BY <1>1, <1>4 DEF ReadingFrom, q
  <2>2. InTurn(q[1], rd)
    BY <1>3, <2>1
  <2>3. ASSUME NEW k \in DOMAIN r
        PROVE  InTurn(r[k], rd + 1 + k - 1)
    <3>1. k + 1 \in DOMAIN q /\ rd + (k + 1) - 1 = rd + 1 + k - 1
      BY <1>3
    <3> QED BY <1>3, <2>1, <3>1
  <2>4. (\A k \in DOMAIN queue : InTurn(queue[k], rd + Busy + k - 1))'
    BY <1>4, <1>6, <2>3 DEF InTurn, r
  <2>5. (running.live => InTurn(running.index, rd))'
    BY <1>4, <1>6, <2>2 DEF InTurn
  <2>6. (rd \in 0 .. Promise!Length(Data))' /\ AllServe(group.files, rd)'
    BY <1>1, <1>5, <1>6 DEF ReadingFrom
  <2> QED BY <1>4, <2>4, <2>5, <2>6 DEF ReadingFrom
<1>10. GroupInv' /\ Coherent' /\ ~call'.capped
  BY <1>5, <1>6 DEF OrderInv, GroupInv, Coherent, FuturesCoherent
<1>11. AfterClose'
  BY <1>2, <1>5 DEF OrderInv, AfterClose, q
<1> QED BY <1>8, <1>9, <1>10, <1>11 DEF OrderInv, Reading

\* The files after get_frame, and what it found.
Delivers(rd, r) ==
  /\ Gets(group.files, r, running.index)
  /\ IsGroup(r.group)
  /\ rd \in 0 .. Promise!Length(Data)
  /\ AllServe(r.group.files, rd)

\* The task that runs finds what is promised, and the next one will.
LEMMA LiveTaskDelivers ==
  ASSUME GroupInv, NEW rd \in Nat, ReadingFrom(rd), running.live, running.index \in Nat
  PROVE  Delivers(IF rd < Promise!Length(Data) THEN rd + 1 ELSE rd,
                  GetFrame(group, running.index))
<1> DEFINE n == Promise!Length(Data)
           index == running.index
           r == GetFrame(group, index)
           next == IF rd < n THEN rd + 1 ELSE rd
<1>1. n \in Nat /\ n = Promise!Length(Datas(group.files)) /\ FilesOK(group.files) /\ IsGroup(group)
  BY DataTypes DEF GroupInv
<1>2. rd \in 0 .. n /\ AllServe(group.files, rd) /\ (IF rd < n THEN index = rd ELSE index >= n)
  BY DEF ReadingFrom, InTurn
<1> HIDE DEF n
<1>3. AllServe(group.files, index)
  <2>1. CASE rd < n
    BY <1>2, <2>1
  <2>2. CASE ~(rd < n)
    <3>1. index >= Promise!Length(Datas(group.files))
      BY <1>1, <1>2, <2>2
    <3> QED BY <1>1, <3>1, ServeBeyond
  <2> QED BY <2>1, <2>2
<1>4. Gets(group.files, r, index) /\ IsGroup(r.group)
  BY <1>1, <1>3, GetFrameGets
<1> HIDE DEF r
<1>5. AllServe(r.group.files, next)
  <2>1. FilesOK(r.group.files) /\ Datas(r.group.files) = Datas(group.files)
        /\ AllServe(r.group.files, index + 1)
    BY <1>4 DEF Gets
  <2>2. CASE rd < n
    BY <1>2, <2>1, <2>2
  <2>3. CASE ~(rd < n)
    <3>1. next \in Nat /\ next >= Promise!Length(Datas(r.group.files))
      BY <1>1, <1>2, <2>1, <2>3
    <3> QED BY <2>1, <3>1, ServeBeyond
  <2> QED BY <2>2, <2>3
<1>6. next \in 0 .. n
  BY <1>1, <1>2
<1> QED BY <1>4, <1>5, <1>6 DEF Delivers, n, r

\* A task nobody waits for leaves files from which reading can begin.
LEMMA DroppedTaskDelivers ==
  ASSUME GroupInv, NEW rd \in Nat, ReadingFrom(rd), ~running.live, running # Idle,
         running.index \in Nat
  PROVE  rd = 0 /\ Delivers(0, GetFrame(group, running.index))
<1> DEFINE r == GetFrame(group, running.index)
<1>1. FilesOK(group.files) /\ IsGroup(group)
  BY DEF GroupInv
<1>2. rd = 0 /\ AllServe(group.files, running.index)
  BY ServeUnread DEF ReadingFrom
<1>3. Gets(group.files, r, running.index) /\ IsGroup(r.group)
  BY <1>1, <1>2, GetFrameGets
<1> HIDE DEF r
<1>4. AllServe(r.group.files, 0)
  BY <1>3, ServeFirst DEF Gets
<1>5. 0 \in 0 .. Promise!Length(Data)
  BY DataTypes
<1> QED BY <1>2, <1>3, <1>4, <1>5 DEF Delivers, r

\* Past the end it makes no difference how many were asked for.
LEMMA HeldPastEnd ==
  ASSUME GroupInv, Coherent, NEW asked \in Nat, NEW other \in Nat, HeldUpTo(asked),
         asked >= Promise!Length(Data), other >= Promise!Length(Data), frameno \in Nat,
         TasksTyped
  PROVE  HeldUpTo(other)
<1> DEFINE n == Promise!Length(Data)
<1>1. n \in Nat
  BY DataTypes
<1>2. \A i \in Nat : CacheGet(cache, i) # NoFrames => i < n
  BY FramesAtEnd DEF Coherent
<1> HIDE DEF n
<1>3. /\ frameno <= n /\ asked >= n /\ other >= n
      /\ \A i \in frameno .. n - 1 : i < asked => Held(i)
      /\ \A i \in DOMAIN futures : i < asked \/ i >= n
      /\ \A i \in Nat : CacheGet(cache, i) # NoFrames => i <= frameno
  BY DEF HeldUpTo, Holds, n
<1>4. \A i \in frameno .. n - 1 : i < other => Held(i)
  BY <1>1, <1>3
<1>5. \A i \in Nat : CacheGet(cache, i) # NoFrames => i <= frameno /\ i < other
  BY <1>1, <1>2, <1>3
<1>6. \A i \in DOMAIN futures : i < other \/ i >= n
  <2> SUFFICES ASSUME NEW i \in DOMAIN futures, ~(i >= n) PROVE i < other
    OBVIOUS
  <2>1. i \in Nat
    BY DEF TasksTyped
  <2> QED BY <1>1, <1>3, <2>1
<1> QED BY <1>1, <1>3, <1>4, <1>5, <1>6 DEF HeldUpTo, Holds, n

\* The files keep their frames, and the index served next stays served.
LEMMA RunTaskFiles ==
  ASSUME GroupInv, RunTask, NEW rd \in Nat, Delivers(rd, GetFrame(group, running.index))
  PROVE  /\ GroupInv'
         /\ Data' = Data
         /\ Promise!Length(Data)' = Promise!Length(Data)
         /\ rd \in 0 .. Promise!Length(Data)
         /\ AllServe(group.files, rd)'
<1> DEFINE r == GetFrame(group, running.index)
<1>1. group' = r.group
  BY DEF RunTask
<1>2. Gets(group.files, r, running.index) /\ IsGroup(r.group) /\ AllServe(r.group.files, rd)
  BY DEF Delivers
<1> HIDE DEF r
<1>3. GroupInv'
  BY <1>1, <1>2 DEF GroupInv, Gets
<1>4. Data' = Data
  <2>1. Datas(group'.files) = Datas(group.files)
    BY <1>1, <1>2 DEF Gets
  <2> QED BY <1>1, <2>1 DEF Data, Datas
<1> QED BY <1>1, <1>2, <1>3, <1>4 DEF Delivers

\* A task delivers to the future it was pushed for, which is still pending.
LEMMA RunTaskFutures ==
  ASSUME Types, TasksMatchFutures, Coherent, GroupInv, RunTask, NEW rd \in Nat,
         Delivers(rd, GetFrame(group, running.index))
  PROVE  DOMAIN futures' = DOMAIN futures /\ Coherent'
<1> DEFINE r == GetFrame(group, running.index)
<1>1. Data' = Data
  BY RunTaskFiles
<1>2. futures' = IF running.live THEN [futures EXCEPT ![running.index] = Ready(r.ok, r.frames)]
                 ELSE futures
  BY DEF RunTask
<1>3. r.ok = TRUE /\ r.frames = Promise!FramesAt(Data, running.index)
  BY DataTypes DEF Delivers, Gets
<1>4. cache' = cache
  BY DEF RunTask
<1> HIDE DEF r
<1>5. ASSUME NEW i \in DOMAIN futures, futures'[i].ready
      PROVE  futures'[i].ok /\ futures'[i].frames = Promise!FramesAt(Data, i)
  <2>1. CASE running.live /\ i = running.index
    BY <1>2, <1>3, <2>1 DEF Ready
  <2>2. CASE ~(running.live /\ i = running.index)
    BY <1>2, <1>5, <2>2 DEF Coherent, FuturesCoherent
  <2> QED BY <2>1, <2>2
<1>6. DOMAIN futures' = DOMAIN futures
  BY <1>2
<1> QED BY <1>1, <1>4, <1>5, <1>6 DEF Coherent, FuturesCoherent

\* What is asked of the client stays as it is while only the worker moves.
LEMMA WorkerKeepsHeld ==
  ASSUME NEW asked, DOMAIN futures' = DOMAIN futures, Data' = Data,
         UNCHANGED <<cache, frameno, pc, call>>
  PROVE  /\ HeldUpTo(asked)' <=> HeldUpTo(asked)
         /\ AskedUpTo(asked)' <=> AskedUpTo(asked)
BY DEF AskedUpTo, HeldUpTo, Holds, Held

LEMMA RunTaskOrder ==
  ASSUME Types, NoOrphanedFuture, OrderInv, RunTask
  PROVE  OrderInv' /\ Data' = Data
<1> DEFINE n == Promise!Length(Data)
<1>1. PICK rd \in Nat : ReadingFrom(rd) /\ AskedUpTo(Asked(rd))
  BY DEF OrderInv, Reading
<1>2. n \in Nat /\ Len(queue) \in Nat /\ DOMAIN queue = 1 .. Len(queue)
  BY DataTypes DEF OrderInv, Types, TasksTyped
<1>3. running.index \in Nat
  <2>1. running \in [index : Nat \cup {-1}, live : BOOLEAN] /\ running # Idle
    BY DEF Types, TasksTyped, RunTask
  <2>2. CASE running.live
    <3>1. IF rd < n THEN running.index = rd ELSE running.index >= n
      BY <1>1, <2>2 DEF ReadingFrom, InTurn
    <3> QED BY <1>2, <2>1, <3>1
  <2>3. CASE ~running.live
    BY <2>1, <2>3 DEF Idle
  <2> QED BY <2>2, <2>3
<1>4. UNCHANGED <<cache, queue, frameno, pc, call, answer>> /\ running' = Idle
  BY DEF RunTask
<1>5. Busy' = 0
  BY <1>4 DEF Busy, Idle
<1>6. ~running'.live
  BY <1>4 DEF Idle
<1> HIDE DEF n
<1>7. CASE running.live
  <2>0. PICK next \in Nat : next = IF rd < n THEN rd + 1 ELSE rd
    OBVIOUS
  <2>1. next \in Nat /\ Delivers(next, GetFrame(group, running.index))
    BY <1>1, <1>3, <1>7, <2>0, LiveTaskDelivers DEF OrderInv, n
  <2>2. /\ GroupInv' /\ Data' = Data /\ Promise!Length(Data)' = n
        /\ next \in 0 .. n /\ AllServe(group.files, next)'
    BY <2>1, RunTaskFiles DEF OrderInv, n
  <2>3. DOMAIN futures' = DOMAIN futures /\ Coherent'
    BY <2>1, RunTaskFutures DEF OrderInv, NoOrphanedFuture
  <2>4. Busy = 1
    BY <1>7 DEF Busy
  <2>5. ASSUME NEW k \in DOMAIN queue
        PROVE  InTurn(queue[k], next + k - 1)
    <3>1. InTurn(queue[k], rd + 1 + k - 1)
      BY <1>1, <2>4 DEF ReadingFrom
    <3>2. CASE rd < n
      <4>1. next + k - 1 = rd + 1 + k - 1
        BY <3>2, <2>0
      <4> QED BY <3>1, <4>1
    <3>3. CASE ~(rd < n)
      <4>1. ~(rd + 1 + k - 1 < n) /\ ~(next + k - 1 < n)
        BY <1>2, <3>3, <2>0
      <4> QED BY <3>1, <4>1 DEF InTurn, n
    <3> QED BY <3>2, <3>3
  <2>6. ReadingFrom(next)'
    <3>1. (\A k \in DOMAIN queue : InTurn(queue[k], next + Busy + k - 1))'
      <4>1. ASSUME NEW k \in DOMAIN queue
            PROVE  InTurn(queue[k], next + 0 + k - 1)
        <5>1. next + 0 + k - 1 = next + k - 1
          BY <2>1
        <5> QED BY <2>5, <5>1
      <4> QED BY <1>4, <1>5, <2>2, <4>1 DEF InTurn, n
    <3> QED BY <1>4, <1>6, <2>2, <3>1 DEF ReadingFrom, n
  <2>7. PICK asked \in Nat : asked = Asked(rd)
    BY <1>2, <2>4 DEF Asked
  <2>8. AskedUpTo(asked)
    BY <1>1, <2>7
  <2>9. AskedUpTo(Asked(next))'
    <3>1. Asked(next)' = next + 0 + Len(queue)
      BY <1>4, <1>5 DEF Asked
    <3>2. asked = rd + 1 + Len(queue)
      BY <2>4, <2>7 DEF Asked
    <3>3. CASE rd < n
      <4>1. Asked(next)' = asked
        BY <1>2, <3>1, <3>2, <3>3, <2>0
      <4>2. AskedUpTo(asked)'
        BY <1>4, <2>2, <2>3, <2>8, WorkerKeepsHeld
      <4> QED BY <4>1, <4>2 DEF AskedUpTo, HeldUpTo, Holds
    <3>4. CASE ~(rd < n)
      <4>1. PICK other \in Nat : other = next + 0 + Len(queue)
        BY <1>2, <2>1
      <4>2. asked >= n /\ other >= n
        BY <1>2, <3>2, <3>4, <4>1, <2>0
      <4>3. HeldUpTo(other)
        BY <2>8, <4>2, HeldPastEnd DEF OrderInv, Types, ClientTyped, AskedUpTo, n
      <4>4. AskedUpTo(other)
        BY <4>2, <4>3 DEF AskedUpTo, n
      <4>5. AskedUpTo(other)'
        BY <1>4, <2>2, <2>3, <4>4, WorkerKeepsHeld
      <4> QED BY <3>1, <4>1, <4>5 DEF AskedUpTo, HeldUpTo, Holds
    <3> QED BY <3>3, <3>4
  <2>10. Reading'
    BY <2>1, <2>6, <2>9 DEF Reading
  <2>11. AfterClose'
    BY <1>4, <1>7 DEF AfterClose, OrderInv
  <2> QED BY <1>4, <2>2, <2>3, <2>10, <2>11 DEF OrderInv
<1>8. CASE ~running.live
  <2>1. rd = 0 /\ Delivers(0, GetFrame(group, running.index))
    BY <1>1, <1>3, <1>8, DroppedTaskDelivers DEF OrderInv, RunTask
  <2>2. /\ GroupInv' /\ Data' = Data /\ Promise!Length(Data)' = n
        /\ 0 \in 0 .. n /\ AllServe(group.files, 0)'
    BY <2>1, RunTaskFiles DEF OrderInv, n
  <2>3. DOMAIN futures' = DOMAIN futures /\ Coherent'
    BY <2>1, RunTaskFutures DEF OrderInv, NoOrphanedFuture
  <2>4. Busy = 0
    BY <1>8 DEF Busy
  <2>5. ReadingFrom(0)'
    <3>1. (\A k \in DOMAIN queue : InTurn(queue[k], 0 + Busy + k - 1))'
      BY <1>1, <1>4, <1>5, <2>1, <2>2, <2>4 DEF ReadingFrom, InTurn, n
    <3> QED BY <1>4, <1>6, <2>2, <3>1 DEF ReadingFrom, n
  <2>6. PICK asked \in Nat : asked = Asked(0)
    <3>1. Asked(0) = Len(queue)
      BY <1>2, <2>4 DEF Asked
    <3> QED BY <1>2, <3>1
  <2>7. AskedUpTo(Asked(0))'
    <3>1. Asked(0)' = asked
      BY <1>4, <1>5, <2>4, <2>6 DEF Asked
    <3>2. AskedUpTo(asked)'
      BY <1>1, <1>4, <2>1, <2>2, <2>3, <2>6, WorkerKeepsHeld
    <3> QED BY <3>1, <3>2 DEF AskedUpTo, HeldUpTo, Holds
  <2>8. Reading'
    BY <2>5, <2>7 DEF Reading
  <2>9. AfterClose'
    <3>1. group.files = <<>> => group'.files = <<>>
      <4>1. Len(group'.files) = Len(group.files) /\ group'.files \in Seq(Files)
        BY <2>1, <2>2 DEF Delivers, Gets, RunTask, GroupInv, FilesOK
      <4> QED BY <4>1
    <3> QED BY <1>4, <1>6, <2>3, <3>1 DEF AfterClose, OrderInv
  <2> QED BY <1>4, <2>2, <2>3, <2>8, <2>9 DEF OrderInv
<1> QED BY <1>7, <1>8

-----------------------------------------------------------------------------
(* The client reads in order.                                               *)

\* A step that leaves files and tasks alone.
LEMMA ClientKeepsReading ==
  ASSUME UNCHANGED <<group, queue, running>>
  PROVE  /\ Data' = Data
         /\ Promise!Length(Data)' = Promise!Length(Data)
         /\ GroupInv => GroupInv'
         /\ \A rd \in Nat : Asked(rd)' = Asked(rd)
         /\ \A rd \in Nat : ReadingFrom(rd) => ReadingFrom(rd)'
<1>1. Data' = Data /\ Promise!Length(Data)' = Promise!Length(Data)
  BY DEF Data
<1>2. ASSUME NEW rd \in Nat
      PROVE  Asked(rd)' = Asked(rd) /\ (ReadingFrom(rd) => ReadingFrom(rd)')
  BY <1>1 DEF Asked, Busy, ReadingFrom, InTurn
<1> QED BY <1>1, <1>2 DEF GroupInv

\* What the prefetch loop passes over is held already.
LEMMA PassedOver ==
  ASSUME GroupInv, TasksTyped, NEW asked \in Nat, HeldUpTo(asked), NEW index \in Nat, Held(index),
         index <= asked \/ asked >= Promise!Length(Data)
  PROVE  index + 1 <= asked \/ asked >= Promise!Length(Data)
<1>1. Promise!Length(Data) \in Nat
  BY DataTypes
<1> DEFINE n == Promise!Length(Data)
<1>2. index < asked \/ index >= n
  BY DEF Held, HeldUpTo, Holds
<1> HIDE DEF n
<1>3. index + 1 <= asked \/ asked >= n
  BY <1>1, <1>2 DEF n
<1> QED BY <1>3 DEF n

LEMMA PrefetchOrder ==
  ASSUME Types, OrderInv, PrefetchStep
  PROVE  OrderInv'
<1> DEFINE index == frameno + call.i
           n == Promise!Length(Data)
           pushes == CacheGet(cache, index) = NoFrames /\ index \notin DOMAIN futures
<1>1. PICK rd \in Nat : ReadingFrom(rd) /\ AskedUpTo(Asked(rd))
  BY DEF OrderInv, Reading
<1>2. frameno \in Nat /\ call.i \in Nat /\ index \in Nat /\ call \in CallType /\ TasksTyped
  BY DEF Types, ClientTyped, CallType
<1>3. n \in Nat /\ GroupInv /\ Coherent /\ ~call.capped
  BY DataTypes DEF OrderInv
<1>4. PICK asked \in Nat : asked = Asked(rd)
  BY <1>2 DEF Asked, Busy, TasksTyped
<1>5. HeldUpTo(asked) /\ (index <= asked \/ asked >= n)
  BY <1>1, <1>4 DEF AskedUpTo, PrefetchStep
<1>6. /\ UNCHANGED <<group, cache, running, frameno, answer>>
      /\ IF pushes THEN Push(index) ELSE UNCHANGED <<queue, futures>>
      /\ \/ pc' = "idle" /\ call' = NoCall
         \/ pc' = pc /\ call' = [call EXCEPT !.i = @ + 1]
  BY <1>3 DEF PrefetchStep
<1>7. pc' = "idle" \/ call'.i = call.i + 1
  BY <1>2, <1>6 DEF CallType
<1>8. ~call'.capped
  BY <1>2, <1>3, <1>6 DEF CallType, NoCall
<1>9. AfterClose'
  BY <1>6 DEF OrderInv, AfterClose, PrefetchStep
<1> HIDE DEF index, n, pushes
<1>10. ASSUME NEW rest \in Nat, HeldUpTo(rest)', index + 1 <= rest \/ rest >= n,
              Promise!Length(Data)' = n
       PROVE  AskedUpTo(rest)'
  <2>1. pc' = "prefetch" => frameno' + call'.i <= rest \/ rest >= n
    <3>1. CASE pc' = "idle"
      BY <3>1
    <3>2. CASE call'.i = call.i + 1
      <4>1. frameno' + call'.i = index + 1
        BY <1>2, <1>6, <3>2 DEF index
      <4> QED BY <1>10, <4>1
    <3> QED BY <1>7, <3>1, <3>2
  <2> QED BY <1>10, <2>1 DEF AskedUpTo
<1>11. CASE pushes
  <2>1. Push(index)
    BY <1>6, <1>11
  <2>2. InTurn(index, asked)
    <3>1. ~Held(index) /\ frameno <= index
      BY <1>2, <1>11 DEF Held, pushes, index
    <3> QED BY <1>2, <1>3, <1>5, <3>1, NotHeldInTurn DEF n
  <2>3. ReadingFrom(rd)' /\ Asked(rd)' = asked + 1
    <3>1. InTurn(index, Asked(rd))
      BY <1>4, <2>2
    <3> QED BY <1>1, <1>2, <1>3, <1>4, <1>6, <2>1, <3>1, PushReading
  <2>4. HeldUpTo(asked + 1)'
    BY <1>2, <1>3, <1>5, <1>6, <2>1, <2>2, PushHeld
  <2>5. Promise!Length(Data)' = n
    BY <1>6 DEF n, Data
  <2>6. PICK rest \in Nat : rest = asked + 1
    OBVIOUS
  <2>7. index + 1 <= rest \/ rest >= n
    BY <1>2, <1>3, <1>5, <2>6
  <2>8. HeldUpTo(rest)'
    BY <2>4, <2>6
  <2>9. AskedUpTo(rest)'
    BY <1>10, <2>5, <2>7, <2>8
  <2>10. Reading'
    BY <2>3, <2>6, <2>9 DEF Reading, AskedUpTo, HeldUpTo, Holds
  <2>11. Coherent' /\ GroupInv'
    BY <1>3, <1>6, <2>1, PushCoherent DEF GroupInv
  <2> QED BY <1>8, <1>9, <2>10, <2>11 DEF OrderInv
<1>12. CASE ~pushes
  <2>1. UNCHANGED <<queue, futures>>
    BY <1>6, <1>12
  <2>2. index + 1 <= asked \/ asked >= n
    <3>1. Held(index)
      BY <1>12 DEF Held, pushes
    <3> QED BY <1>2, <1>3, <1>5, <3>1, PassedOver DEF n
  <2>3. ReadingFrom(rd)' /\ Asked(rd)' = asked /\ Data' = Data /\ GroupInv'
    BY <1>1, <1>3, <1>4, <1>6, <2>1, ClientKeepsReading
  <2>4. HeldUpTo(asked)'
    BY <1>5, <1>6, <2>1, <2>3 DEF HeldUpTo, Holds, Held
  <2>5. AskedUpTo(asked)'
    BY <1>10, <2>2, <2>3, <2>4 DEF n
  <2>6. Reading'
    BY <2>3, <2>5 DEF Reading, AskedUpTo, HeldUpTo, Holds
  <2>7. Coherent'
    BY <1>3, <1>6, <2>1, <2>3 DEF Coherent, FuturesCoherent
  <2> QED BY <1>8, <1>9, <2>3, <2>6, <2>7 DEF OrderInv
<1> QED BY <1>11, <1>12

\* What the client receives is what the files hold at its position; a cache
\* that keeps it holds the frame on when the future is gone.
LEMMA ReceiveKeeps ==
  ASSUME CacheSize >= 1, Types, GroupInv, Coherent, NEW place \in Nat, place = frameno,
         NEW asked \in Nat, Holds(place, asked), Answered,
         LET got == futures[place]
         IN  cache' = IF got.ok /\ got.frames # NoFrames
                      THEN CacheAdd(cache, place, got.frames) ELSE cache,
         futures' = AfterGet, Data' = Data
  PROVE  /\ futures[place].ok /\ futures[place].frames = Promise!FramesAt(Data, place)
         /\ Coherent'
         /\ Holds(place, asked)'
<1> DEFINE n == Promise!Length(Data)
           frames == Promise!FramesAt(Data, place)
<1>1. futures[place].ok /\ futures[place].frames = frames /\ place \in DOMAIN futures
  BY DEF Answered, Coherent, FuturesCoherent
<1>2. n \in Nat /\ (frames # NoFrames <=> place < n) /\ Promise!Length(Data)' = n
  BY DataTypes, FramesAtEnd
<1>3. cache' = IF frames # NoFrames THEN CacheAdd(cache, place, frames) ELSE cache
  BY <1>1
<1>4. futures' = [i \in DOMAIN futures \ {place} |-> futures[i]]
  BY <1>1 DEF AfterGet, Without
<1> HIDE DEF frames
<1>5. ASSUME NEW i \in Nat, i # place
      PROVE  CacheGet(cache', i) \in {CacheGet(cache, i), NoFrames}
  <2>1. CASE frames # NoFrames
    BY <1>3, <1>5, <2>1, CacheAddElsewhere DEF Types, CacheInv
  <2>2. CASE frames = NoFrames
    BY <1>3, <2>2
  <2> QED BY <2>1, <2>2
<1>6. frames # NoFrames => CacheGet(cache', place) = frames
  BY <1>3, CacheRemembers DEF Types, CacheInv
<1>7. frames = NoFrames => CacheGet(cache', place) = CacheGet(cache, place)
  BY <1>3
<1>8. Coherent'
  <2>1. ASSUME NEW i \in Nat, CacheGet(cache', i) # NoFrames
        PROVE  CacheGet(cache', i) = Promise!FramesAt(Data, i)
    <3>1. CASE i # place
      BY <1>5, <2>1, <3>1 DEF Coherent
    <3>2. CASE i = place
      BY <1>6, <1>7, <2>1, <3>2 DEF Coherent, frames
    <3> QED BY <3>1, <3>2
  <2>2. FuturesCoherent'
    BY <1>4 DEF Coherent, FuturesCoherent
  <2> QED BY <2>1, <2>2 DEF Coherent
<1> HIDE DEF n
<1>9. /\ place <= asked /\ place <= n
      /\ \A i \in place .. n - 1 : i < asked => Held(i)
      /\ \A i \in DOMAIN futures : i < asked \/ i >= n
      /\ \A i \in Nat : CacheGet(cache, i) # NoFrames => i <= place /\ i < asked
  BY DEF Holds, n
<1>10. ASSUME NEW i \in place .. n - 1, i < asked
       PROVE  i \in DOMAIN futures' \/ CacheGet(cache', i) # NoFrames
  <2>1. CASE i = place
    BY <1>2, <1>6, <1>10, <2>1
  <2>2. CASE i # place
    <3>1. i \in DOMAIN futures
      BY <1>2, <1>9, <1>10, <2>2 DEF Held
    <3> QED BY <1>4, <2>2, <3>1
  <2> QED BY <2>1, <2>2
<1>11. ASSUME NEW i \in Nat, CacheGet(cache', i) # NoFrames
       PROVE  i <= place /\ i < asked
  <2>1. CASE i # place
    BY <1>5, <1>9, <1>11, <2>1
  <2>2. CASE i = place /\ frames # NoFrames
    <3>1. place < asked
      BY <1>1, <1>2, <1>9, <2>2
    <3> QED BY <2>2, <3>1
  <2>3. CASE i = place /\ frames = NoFrames
    BY <1>7, <1>9, <1>11, <2>3
  <2> QED BY <2>1, <2>2, <2>3
<1>12. \A i \in DOMAIN futures' : i < asked \/ i >= n
  BY <1>4, <1>9
<1>13. Holds(place, asked)'
  BY <1>2, <1>9, <1>10, <1>11, <1>12 DEF Holds, Held
<1> QED BY <1>1, <1>8, <1>13 DEF frames

LEMMA MoreReturnOrder ==
  ASSUME CacheSize >= 1, Types, OrderInv, MoreReturn
  PROVE  /\ OrderInv'
         /\ futures[frameno].ok
         /\ futures[frameno].frames = Promise!FramesAt(Data, frameno)
<1>1. PICK rd \in Nat : ReadingFrom(rd) /\ AskedUpTo(Asked(rd))
  BY DEF OrderInv, Reading
<1>2. PICK asked \in Nat : asked = Asked(rd)
  BY DEF Asked, Busy, Types, TasksTyped
<1>3. PICK place \in Nat : place = frameno
  BY DEF Types, ClientTyped
<1>4. /\ UNCHANGED <<group, queue, running, frameno>>
      /\ pc' = "idle" /\ call' = NoCall /\ answer'.op = "more"
  BY DEF MoreReturn, MoreAnswer
<1>5. GroupInv' /\ Data' = Data /\ ReadingFrom(rd)' /\ Asked(rd)' = asked
  BY <1>1, <1>2, <1>4, ClientKeepsReading DEF OrderInv
<1>6. Holds(place, asked)
  BY <1>1, <1>2, <1>3 DEF AskedUpTo, HeldUpTo
<1>7. /\ futures[place].ok /\ futures[place].frames = Promise!FramesAt(Data, place)
      /\ Coherent' /\ Holds(place, asked)'
  BY <1>3, <1>5, <1>6, ReceiveKeeps DEF MoreReturn, OrderInv
<1>8. AskedUpTo(asked)'
  BY <1>3, <1>4, <1>7 DEF AskedUpTo, HeldUpTo, Holds
<1>9. Reading'
  BY <1>5, <1>8 DEF Reading, AskedUpTo, HeldUpTo, Holds
<1> QED BY <1>3, <1>4, <1>5, <1>7, <1>9 DEF OrderInv, AfterClose, NoCall

\* There was no frame at the position: it is the end.
LEMMA PopFatalOrder ==
  ASSUME CacheSize >= 1, Types, OrderInv, PopFatal
  PROVE  OrderInv' /\ frameno = Promise!Length(Data)
<1>1. PICK rd \in Nat : ReadingFrom(rd) /\ AskedUpTo(Asked(rd))
  BY DEF OrderInv, Reading
<1>2. PICK asked \in Nat : asked = Asked(rd)
  BY DEF Asked, Busy, Types, TasksTyped
<1>3. PICK place \in Nat : place = frameno
  BY DEF Types, ClientTyped
<1>4. /\ UNCHANGED <<group, cache, queue, running, frameno>>
      /\ pc' = "idle" /\ call' = NoCall /\ answer'.op = "pop"
  BY DEF PopFatal
<1>5. GroupInv' /\ Data' = Data /\ ReadingFrom(rd)' /\ Asked(rd)' = asked
  BY <1>1, <1>2, <1>4, ClientKeepsReading DEF OrderInv
<1>6. Holds(place, asked)
  BY <1>1, <1>2, <1>3 DEF AskedUpTo, HeldUpTo
<1>7. ~(futures[place].ok /\ futures[place].frames # NoFrames)
  BY <1>3 DEF PopFatal
<1>8. /\ futures[place].ok /\ futures[place].frames = Promise!FramesAt(Data, place)
      /\ Coherent' /\ Holds(place, asked)'
  BY <1>3, <1>4, <1>5, <1>6, <1>7, ReceiveKeeps DEF PopFatal, OrderInv
<1>9. place = Promise!Length(Data)
  <2>1. ~(place < Promise!Length(Data)) /\ Promise!Length(Data) \in Nat
    BY <1>7, <1>8, FramesAtEnd, DataTypes DEF OrderInv
  <2>2. place <= Promise!Length(Data)
    BY <1>6 DEF Holds
  <2> QED BY <2>1, <2>2
<1>10. AskedUpTo(asked)'
  BY <1>3, <1>4, <1>8 DEF AskedUpTo, HeldUpTo, Holds
<1>11. Reading'
  BY <1>5, <1>10 DEF Reading, AskedUpTo, HeldUpTo, Holds
<1> QED BY <1>3, <1>4, <1>5, <1>8, <1>9, <1>11 DEF OrderInv, AfterClose, NoCall

\* Asking leaves everything else alone.
LEMMA AskOrder ==
  ASSUME Types, OrderInv, MoreAsk \/ PopAsk
  PROVE  OrderInv'
<1>1. PICK rd \in Nat : ReadingFrom(rd) /\ AskedUpTo(Asked(rd))
  BY DEF OrderInv, Reading
<1>2. /\ CacheGet(cache, frameno) = NoFrames /\ AskFor(frameno)
      /\ UNCHANGED <<group, cache, running, frameno, answer>>
      /\ pc' \in {"more", "popwait"}
  BY DEF MoreAsk, PopAsk
<1>3. ReadingFrom(rd)' /\ HeldUpTo(Asked(rd))' /\ Coherent' /\ GroupInv'
  BY <1>1, <1>2, AskForKeeps DEF OrderInv, AskedUpTo
<1>4. AskedUpTo(Asked(rd))'
  BY <1>2, <1>3 DEF AskedUpTo
<1>5. ~call'.capped
  <2>1. call \in CallType /\ ~call.capped
    BY DEF Types, ClientTyped, OrderInv
  <2>2. call' = [NoCall EXCEPT !.own = frameno \notin DOMAIN futures]
        \/ call' = [call EXCEPT !.own = frameno \notin DOMAIN futures]
    BY DEF MoreAsk, PopAsk
  <2> QED BY <2>1, <2>2 DEF CallType, NoCall
<1>6. AfterClose'
  BY <1>2 DEF AfterClose
<1>7. Reading'
  BY <1>3, <1>4 DEF Reading
<1> QED BY <1>3, <1>5, <1>6, <1>7 DEF OrderInv

\* Counting past a frame the cache holds.
LEMMA PopTakeKeeps ==
  ASSUME GroupInv, Data' = Data, NEW frames, PopTake(frames), frameno \in Nat, NEW asked \in Nat,
         NEW place \in Nat, place = frameno, Holds(place, asked)', Coherent',
         CacheGet(cache', frameno) # NoFrames, call \in CallType, ~call.capped, AfterClose,
         pc \in {"pop", "popwait"}
  PROVE  AskedUpTo(asked)' /\ AfterClose' /\ ~call'.capped
<1> DEFINE n == Promise!Length(Data)
<1>1. n \in Nat /\ place < n /\ Promise!Length(Data)' = n
  <2>1. CacheGet(cache', place) = Promise!FramesAt(Data, place)
    BY DEF Coherent
  <2> QED BY <2>1, DataTypes, FramesAtEnd
<1> HIDE DEF n
<1>2. /\ place <= asked /\ place <= n
      /\ \A i \in place .. n - 1 : i < asked => Held(i)'
      /\ \A i \in DOMAIN futures' : i < asked \/ i >= n
      /\ \A i \in Nat : CacheGet(cache', i) # NoFrames => i <= place /\ i < asked
  BY <1>1 DEF Holds
<1>3. place < asked
  BY <1>2
<1>4. Holds(place + 1, asked)'
  <2>1. \A i \in place + 1 .. n - 1 : i < asked => Held(i)'
    BY <1>1, <1>2
  <2>2. \A i \in Nat : CacheGet(cache', i) # NoFrames => i <= place + 1 /\ i < asked
    BY <1>2
  <2>3. place + 1 <= asked /\ place + 1 <= n
    BY <1>1, <1>3
  <2> QED BY <1>1, <1>2, <2>1, <2>2, <2>3 DEF Holds
<1>5. frameno' = place + 1
  BY DEF PopTake
<1>6. HeldUpTo(asked)'
  BY <1>4, <1>5 DEF HeldUpTo, Holds
<1>7. CASE BeginPrefetch(FALSE) /\ answer' = [op |-> "pop", index |-> frameno, value |-> frames]
  <2>1. call'.i = 0 /\ ~call'.capped /\ answer'.op = "pop"
    BY <1>7 DEF BeginPrefetch, NoCall
  <2>2. frameno' + call'.i <= asked
    BY <1>3, <1>5, <2>1
  <2> QED BY <1>6, <2>1, <2>2 DEF AskedUpTo, AfterClose
<1>8. CASE pc' = "pop" /\ UNCHANGED <<answer, call>>
  BY <1>6, <1>8 DEF AskedUpTo, AfterClose
<1> QED BY <1>7, <1>8 DEF PopTake

LEMMA PopTakeOrder ==
  ASSUME CacheSize >= 1, Types, OrderInv, PopCached \/ PopReceive
  PROVE  /\ OrderInv'
         /\ frameno < Promise!Length(Data)
         /\ PopTake(Promise!FramesAt(Data, frameno))
<1>1. PICK rd \in Nat : ReadingFrom(rd) /\ AskedUpTo(Asked(rd))
  BY DEF OrderInv, Reading
<1>2. PICK asked \in Nat : asked = Asked(rd)
  BY DEF Asked, Busy, Types, TasksTyped
<1>3. PICK place \in Nat : place = frameno
  BY DEF Types, ClientTyped
<1>4. UNCHANGED <<group, queue, running>> /\ pc \in {"pop", "popwait"}
  BY DEF PopCached, PopReceive
<1>5. GroupInv' /\ Data' = Data /\ ReadingFrom(rd)' /\ Asked(rd)' = asked
  BY <1>1, <1>2, <1>4, ClientKeepsReading DEF OrderInv
<1>6. Holds(place, asked)
  BY <1>1, <1>2, <1>3 DEF AskedUpTo, HeldUpTo
<1>7. /\ PopTake(Promise!FramesAt(Data, place))
      /\ CacheGet(cache', place) # NoFrames
      /\ Promise!FramesAt(Data, place) # NoFrames
      /\ Coherent' /\ Holds(place, asked)'
  <2>1. CASE PopCached
    <3>1. UNCHANGED <<cache, futures>> /\ CacheGet(cache, place) # NoFrames
          /\ PopTake(CacheGet(cache, place))
      BY <1>3, <2>1 DEF PopCached
    <3>2. CacheGet(cache, place) = Promise!FramesAt(Data, place)
      BY <3>1 DEF OrderInv, Coherent
    <3>3. Coherent' /\ Holds(place, asked)'
      BY <1>5, <1>6, <3>1 DEF OrderInv, Coherent, FuturesCoherent, Holds, Held
    <3> QED BY <3>1, <3>2, <3>3
  <2>2. CASE PopReceive
    <3>1. /\ Answered /\ futures[place].ok /\ futures[place].frames # NoFrames
          /\ cache' = CacheAdd(cache, place, futures[place].frames)
          /\ futures' = AfterGet /\ PopTake(futures[place].frames)
      BY <1>3, <2>2 DEF PopReceive
    <3>2. futures[place].frames = Promise!FramesAt(Data, place) /\ Coherent' /\ Holds(place, asked)'
      BY <1>3, <1>5, <1>6, <3>1, ReceiveKeeps DEF OrderInv
    <3>3. CacheGet(cache', place) = futures[place].frames
      BY <3>1, CacheRemembers DEF Types, CacheInv
    <3> QED BY <3>1, <3>2, <3>3
  <2> QED BY <2>1, <2>2
<1>8. AskedUpTo(asked)' /\ AfterClose' /\ ~call'.capped
  <2>1. frameno \in Nat /\ call \in CallType /\ ~call.capped /\ AfterClose
    BY DEF Types, ClientTyped, OrderInv
  <2>2. PopTake(Promise!FramesAt(Data, place)) /\ CacheGet(cache', frameno) # NoFrames
    BY <1>3, <1>7
  <2>3. GroupInv
    BY DEF OrderInv
  <2> QED BY <1>3, <1>4, <1>5, <1>7, <2>1, <2>2, <2>3, PopTakeKeeps
<1>9. Reading'
  BY <1>5, <1>8 DEF Reading, AskedUpTo, HeldUpTo, Holds
<1>10. frameno < Promise!Length(Data)
  BY <1>3, <1>7, FramesAtEnd DEF OrderInv
<1> QED BY <1>3, <1>5, <1>7, <1>8, <1>9, <1>10 DEF OrderInv

\* A call answered from the cache, a pop that begins, and no step at all.
LEMMA NothingMovesOrder ==
  ASSUME Types, OrderInv, UNCHANGED <<group, cache, queue, running, futures, frameno>>,
         ~call'.capped, AfterClose',
         pc' = "prefetch" => UNCHANGED <<pc, call>>
  PROVE  OrderInv'
<1>1. PICK rd \in Nat : ReadingFrom(rd) /\ AskedUpTo(Asked(rd))
  BY DEF OrderInv, Reading
<1>2. PICK asked \in Nat : asked = Asked(rd)
  BY DEF Asked, Busy, Types, TasksTyped
<1>3. GroupInv' /\ Data' = Data /\ ReadingFrom(rd)' /\ Asked(rd)' = asked
  BY <1>1, <1>2, ClientKeepsReading DEF OrderInv
<1>4. AskedUpTo(asked)'
  BY <1>1, <1>2, <1>3 DEF AskedUpTo, HeldUpTo, Holds, Held
<1>5. Reading'
  BY <1>3, <1>4 DEF Reading, AskedUpTo, HeldUpTo, Holds
<1>6. Coherent'
  BY <1>3 DEF OrderInv, Coherent, FuturesCoherent
<1> QED BY <1>3, <1>5, <1>6 DEF OrderInv

\* A sequence that begins: nothing is read, asked for or kept.
Fresh ==
  /\ GroupInv
  /\ \A i \in DOMAIN group.files : ~group.files[i].has_size
  /\ queue = <<>> /\ ~running.live /\ DOMAIN futures = {}
  /\ cache = EmptyCache /\ frameno = 0 /\ AfterClose
  /\ ~call.capped /\ (pc = "prefetch" => call.i = 0)

LEMMA FreshOrder == Fresh => OrderInv
<1> SUFFICES ASSUME Fresh PROVE OrderInv
  OBVIOUS
<1> USE DEF Fresh
<1>1. Promise!Length(Data) \in Nat
  BY DataTypes
<1>2. AllServe(group.files, 0)
  BY ServeFirst DEF GroupInv
<1>3. ReadingFrom(0)
  BY <1>1, <1>2 DEF ReadingFrom
<1>4. \A i \in Nat : CacheGet(cache, i) = NoFrames
  BY DEF CacheGet, EmptyCache
<1>5. Asked(0) = 0
  BY DEF Asked, Busy
<1>6. HeldUpTo(0)
  BY <1>1, <1>4 DEF HeldUpTo, Holds
<1>7. AskedUpTo(0)
  BY <1>6 DEF AskedUpTo
<1>8. Reading
  BY <1>3, <1>5, <1>7 DEF Reading
<1>9. Coherent
  BY <1>4 DEF Coherent, FuturesCoherent
<1> QED BY <1>8, <1>9 DEF OrderInv

LEMMA NoFilesOK == FilesOK(<<>>)
BY DEF FilesOK

LEMMA FreshFile ==
  ASSUME NEW data \in Seq(Frames)
  PROVE  FileOK(NewFileStruct(data)) /\ ~NewFileStruct(data).has_size
<1>1. ~NewFileStruct(data).has_size
  BY DEF NewFileStruct
<1> QED BY <1>1, NewFileOK

LEMMA OneFileOK ==
  ASSUME NEW file, FileOK(file)
  PROVE  FilesOK(<<file>>)
<1>1. file \in Files
  BY DEF FileOK
<1> HIDE DEF Files
<1> QED BY <1>1 DEF FilesOK

LEMMA CloseOrder ==
  ASSUME OrderInv, Close
  PROVE  OrderInv'
<1>1. group'.files = <<>> /\ IsGroup(group')
  BY DEF Close, ClearGroup, IsGroup, OrderInv, GroupInv
<1>2. GroupInv'
  BY <1>1, NoFilesOK DEF GroupInv
<1>3. ~running'.live
  BY DEF Close, DropTasks
<1>4. pc' = "idle" /\ queue' = <<>> /\ DOMAIN futures' = {} /\ cache' = EmptyCache
      /\ frameno' = 0 /\ ~call'.capped
  BY DEF Close, DropTasks, NoFutures, OrderInv
<1>5. AfterClose'
  BY <1>1, <1>3, <1>4 DEF AfterClose
<1>6. Fresh'
  BY <1>1, <1>2, <1>3, <1>4, <1>5 DEF Fresh
<1>7. (Fresh => OrderInv)'
  BY FreshOrder, PTL
<1> QED BY <1>6, <1>7

\* Files opened again after close() are read from the beginning.
LEMMA ReopenOrder ==
  ASSUME Orderly, Types, OrderInv, NEW data \in FileData, AddFile(data)
  PROVE  OrderInv' /\ group'.files = <<NewFileStruct(data)>> /\ group.files = <<>>
         /\ BeginPrefetch(FALSE) /\ answer' = [op |-> "done"]
<1>1. pc = "idle" /\ answer.op = "close"
  BY DEF AddFile, Orderly
<1>2. /\ group.files = <<>> /\ frameno = 0 /\ queue = <<>> /\ DOMAIN futures = {}
      /\ cache = EmptyCache /\ ~running.live
  BY <1>1 DEF OrderInv, AfterClose
<1>3. PICK files, capacity : group = [files |-> files, capacity |-> capacity]
  BY DEF OrderInv, GroupInv, IsGroup
<1>4. files = <<>>
  BY <1>2, <1>3
<1> DEFINE file == NewFileStruct(data)
           added == AddToGroup(group, data)
<1>5. added.ok /\ added.group.files = <<file>> /\ IsGroup(added.group)
  <2>1. [i \in DOMAIN group.files |-> FileCopy(group.files[i])] = <<>>
    BY <1>2
  <2>2. added = IF ~(Len(group.files) = group.capacity)
                THEN [ok |-> TRUE, group |-> [group EXCEPT !.files = Append(@, file)]]
                ELSE [ok |-> TRUE, group |-> [files |-> Append(<<>>, file),
                                              capacity |-> Grown(group.capacity)]]
    BY <1>2, <2>1 DEF AddToGroup
  <2>3. Append(<<>>, file) = <<file>>
    OBVIOUS
  <2> HIDE DEF file, added
  <2>4. CASE Len(group.files) = group.capacity
    BY <2>2, <2>3, <2>4 DEF IsGroup
  <2>5. CASE ~(Len(group.files) = group.capacity)
    <3>1. added.ok /\ added.group = [files |-> <<file>>, capacity |-> capacity]
      BY <1>3, <1>4, <2>2, <2>3, <2>5
    <3>2. added.group.files = <<file>>
      BY <3>1
    <3> QED BY <3>1, <3>2 DEF IsGroup
  <2> QED BY <2>4, <2>5
<1>6. /\ group' = added.group /\ BeginPrefetch(FALSE) /\ answer' = [op |-> "done"]
      /\ UNCHANGED <<cache, queue, running, futures, frameno>>
  BY <1>5 DEF AddFile
<1> HIDE DEF added
<1>7. FileOK(file) /\ ~file.has_size
  BY FilesAssumption, FreshFile
<1> HIDE DEF file
<1>8. group'.files = <<file>> /\ GroupInv'
  BY <1>5, <1>6, <1>7, OneFileOK DEF GroupInv
<1>9. \A i \in DOMAIN group'.files : ~group'.files[i].has_size
  BY <1>7, <1>8
<1>10. call'.i = 0 /\ ~call'.capped /\ AfterClose'
  BY <1>6 DEF BeginPrefetch, NoCall, AfterClose
<1>11. Fresh'
  BY <1>2, <1>6, <1>8, <1>9, <1>10 DEF Fresh
<1>12. (Fresh => OrderInv)'
  BY FreshOrder, PTL
<1> QED BY <1>2, <1>6, <1>8, <1>11, <1>12 DEF file

LEMMA InitOrder == Init => OrderInv
<1> SUFFICES ASSUME Init PROVE OrderInv
  OBVIOUS
<1>1. group.files = [i \in DOMAIN InitialFiles |-> NewFileStruct(InitialFiles[i])] /\ IsGroup(group)
  BY DEF Init, NewGroup, IsGroup
<1>2. InitialFiles \in Seq(Seq(Frames))
  BY FilesAssumption
<1>3. ASSUME NEW i \in DOMAIN InitialFiles
      PROVE  /\ FileOK(NewFileStruct(InitialFiles[i]))
             /\ ~NewFileStruct(InitialFiles[i]).has_size
  BY <1>2, FreshFile
<1>4. FilesOK(group.files)
  BY <1>1, <1>2, <1>3 DEF FilesOK, FileOK
<1>5. Fresh
  BY <1>1, <1>3, <1>4 DEF Fresh, GroupInv, Init, Idle, NoFutures, NoCall, AfterClose
<1> QED BY <1>5, FreshOrder

LEMMA StepOrder ==
  ASSUME CacheSize >= 1, Orderly
  PROVE  Inv /\ [Next]_vars => OrderInv'
<1> SUFFICES ASSUME Inv, [Next]_vars PROVE OrderInv'
  OBVIOUS
<1> USE DEF Inv
<1>1. CASE \E data \in FileData : AddFile(data)
  BY <1>1, ReopenOrder
<1>2. CASE Close
  BY <1>2, CloseOrder
<1>3. CASE CloseLastFile \/ Rewind \/ \E index \in 0 .. MaxIndex : Seek(index)
  BY <1>3 DEF CloseLastFile, Rewind, Seek, Orderly
<1>4. CASE Current \/ MoreCached \/ UNCHANGED vars
  <2>1. UNCHANGED <<group, cache, queue, running, futures, frameno, pc, call>>
    BY <1>4 DEF Current, MoreCached, vars
  <2>2. answer'.op \in {"current", "more"} \/ UNCHANGED answer
    BY <1>4 DEF Current, MoreCached, MoreAnswer, vars
  <2>3. AfterClose' /\ ~call'.capped
    BY <2>1, <2>2 DEF AfterClose, OrderInv
  <2> QED BY <2>1, <2>3, NothingMovesOrder
<1>5. CASE \E stream \in StreamArgs : PopFrame(stream)
  <2>1. /\ UNCHANGED <<group, cache, queue, running, futures, frameno, answer>>
        /\ pc' = "pop" /\ ~call'.capped
    BY <1>5 DEF PopFrame, NoCall
  <2>2. AfterClose'
    BY <2>1 DEF AfterClose
  <2> QED BY <2>1, <2>2, NothingMovesOrder
<1>6. CASE MoreAsk \/ PopAsk
  BY <1>6, AskOrder
<1>7. CASE MoreReturn
  BY <1>7, MoreReturnOrder
<1>8. CASE PopCached \/ PopReceive
  BY <1>8, PopTakeOrder
<1>9. CASE PopFatal
  BY <1>9, PopFatalOrder
<1>10. CASE PrefetchStep
  BY <1>10, PrefetchOrder
<1>11. CASE Worker
  BY <1>11, TakeTaskOrder, RunTaskOrder DEF Worker
<1> QED BY <1>1, <1>2, <1>3, <1>4, <1>5, <1>6, <1>7, <1>8, <1>9, <1>10, <1>11
        DEF Next, Client, InCall

LEMMA AlwaysInv ==
  ASSUME CacheSize >= 1, Orderly
  PROVE  Spec => []Inv
<1>1. Inv /\ [Next]_vars => OrderInv'
  BY StepOrder
<1> QED BY <1>1, InitOrder, AlwaysTypes, SequenceNoOrphanedFuture, PTL DEF Spec, Inv

\* Whatever the order in which the worker fetched and the client asked, the
\* cache holds at each index what the open files have there.
THEOREM SequenceCacheCoherent ==
  ASSUME CacheSize >= 1, Orderly
  PROVE  Spec => []CacheCoherent
<1>1. Inv => CacheCoherent
  <2> SUFFICES ASSUME Inv, NEW i \in Window(cache), CacheGet(cache, i) # NoFrames
               PROVE  CacheGet(cache, i) = Promise!FramesAt(Data, i)
    BY DEF CacheCoherent
  <2>1. i \in Nat
    BY DEF Inv, Types, CacheInv, CacheOK, Window
  <2> QED BY <2>1 DEF Inv, OrderInv, Coherent
<1> QED BY <1>1, AlwaysInv, PTL

\* So is every result delivered ahead of its use, "no frame here" included,
\* and no task ends in an exception.
THEOREM SequenceFuturesCoherent ==
  ASSUME CacheSize >= 1, Orderly
  PROVE  Spec => []FuturesCoherent
<1>1. Inv => FuturesCoherent
  BY DEF Inv, OrderInv, Coherent
<1> QED BY <1>1, AlwaysInv, PTL

\* get_size and get_cur_size tell the truth as far as they tell it.
THEOREM SequenceSizeCorrect ==
  ASSUME CacheSize >= 1, Orderly
  PROVE  Spec => []SizeCorrect
<1>1. Inv => SizeCorrect
  <2> SUFFICES ASSUME Inv PROVE SizeCorrect
    OBVIOUS
  <2>1. FilesOK(group.files) /\ Data = Datas(group.files)
    BY DataTypes DEF Inv, OrderInv, GroupInv
  <2> HIDE DEF Data
  <2> QED BY <2>1, GetSizeIs, GetCurSizeIs DEF SizeCorrect
<1> QED BY <1>1, AlwaysInv, PTL

-----------------------------------------------------------------------------
(* The two threads act as one sequence.                                     *)

\* While pop_frame looks for its stream, no frame it has passed is of it.
Looking ==
  pc \in {"pop", "popwait"} =>
    /\ call.arg \in StreamArgs
    /\ call.from <= frameno
    /\ \A i \in call.from .. frameno - 1 :
         ~Promise!Matches(call.arg, Promise!Joined(Data)[i + 1])

\* A frame whose stream is the one asked for is the first such frame.
LEMMA Popped ==
  ASSUME Inv, Looking, pc \in {"pop", "popwait"}, frameno < Promise!Length(Data),
         call.arg \in {AnyStream, Promise!Joined(Data)[frameno + 1].stop},
         frameno' = frameno + 1, pc' = "prefetch", Data' = Data,
         answer' = [op |-> "pop", index |-> frameno, value |-> Promise!FramesAt(Data, frameno)]
  PROVE  Promise!SpecPop(call.arg)
<1> DEFINE all == Promise!Joined(Data)
           from == call.from
           arg == call.arg
           next == {i \in from .. Len(all) - 1 : Promise!Matches(arg, all[i + 1])}
<1>1. all \in Seq(Frames) /\ Len(all) \in Nat /\ Promise!Length(Data) = Len(all)
  BY DataTypes DEF Inv, OrderInv, Promise!Length
<1>2. from \in Nat /\ frameno \in Nat /\ from <= frameno
  BY DEF Inv, Types, ClientTyped, CallType, Looking
<1>3. \A i \in from .. frameno - 1 : ~Promise!Matches(arg, all[i + 1])
  BY DEF Looking
<1>4. Promise!Matches(arg, all[frameno + 1])
  BY DEF Promise!Matches, Promise!AnyStream, AnyStream
<1>5. Position = from /\ Position' = frameno + 1
  BY DEF Position
<1> HIDE DEF all, from, arg
<1>6. frameno \in next
  BY <1>1, <1>2, <1>4 DEF all
<1>7. \A j \in next : frameno <= j
  <2> SUFFICES ASSUME NEW j \in next, ~(frameno <= j) PROVE FALSE
    OBVIOUS
  <2>1. j \in from .. frameno - 1
    BY <1>1, <1>2
  <2> QED BY <1>3, <2>1
<1>8. \A j \in next : j \in Int
  BY <1>1, <1>2
<1> HIDE DEF next
<1>9. (CHOOSE i \in next : \A j \in next : i <= j) = frameno
  <2>1. \A i \in next : (\A j \in next : i <= j) => i = frameno
    BY <1>2, <1>6, <1>7, <1>8
  <2> QED BY <1>6, <1>7, <2>1
<1>10. next # {}
  BY <1>6
<1> QED BY <1>5, <1>9, <1>10 DEF Promise!SpecPop, next, all, from, arg

\* No frame of the stream is left.
LEMMA PoppedFatal ==
  ASSUME Inv, Looking, pc = "popwait", frameno = Promise!Length(Data), frameno' = frameno,
         pc' = "idle", Data' = Data,
         answer' = [op |-> "pop", index |-> frameno, value |-> Fatal]
  PROVE  Promise!SpecPop(call.arg)
<1> DEFINE all == Promise!Joined(Data)
           from == call.from
           arg == call.arg
           next == {i \in from .. Len(all) - 1 : Promise!Matches(arg, all[i + 1])}
<1>1. Len(all) = frameno
  BY DEF Promise!Length
<1>2. from \in Nat /\ frameno \in Nat /\ from <= frameno
  BY DEF Inv, Types, ClientTyped, CallType, Looking
<1>3. \A i \in from .. frameno - 1 : ~Promise!Matches(arg, all[i + 1])
  BY DEF Looking
<1>4. Position = from /\ Position' = frameno
  BY DEF Position
<1> HIDE DEF all, from, arg
<1>5. next = {}
  BY <1>1, <1>3
<1> HIDE DEF next
<1>6. (IF from > Len(all) THEN from ELSE Len(all)) = frameno
  BY <1>1, <1>2
<1> QED BY <1>4, <1>5, <1>6 DEF Promise!SpecPop, next, all, from, arg

\* What a step of the sequence is of the promised one; most steps are none.
LEMMA PopTakeImplements ==
  ASSUME CacheSize >= 1, Inv, Looking, PopCached \/ PopReceive
  PROVE  /\ Looking'
         /\ \/ \E stream \in StreamArgs : Promise!SpecPop(stream)
            \/ UNCHANGED <<Data, Position, answer>>
<1> DEFINE frames == Promise!FramesAt(Data, frameno)
           all == Promise!Joined(Data)
<1>1. PopTake(frames) /\ frameno < Promise!Length(Data)
  BY PopTakeOrder DEF Inv
<1>2. Data' = Data
  BY DEF PopCached, PopReceive, Data
<1>3. Last(frames) = all[frameno + 1]
  BY <1>1, FramesAtEnd DEF Inv, OrderInv, Types, ClientTyped
<1>4. frameno \in Nat /\ call.from \in Nat /\ pc \in {"pop", "popwait"}
  BY DEF Inv, Types, ClientTyped, CallType, PopCached, PopReceive
<1>5. frameno' = frameno + 1
  BY <1>1 DEF PopTake
<1> HIDE DEF all, frames
<1>6. CASE call.arg \in {AnyStream, Last(frames).stop}
  <2>1. pc' = "prefetch" /\ answer' = [op |-> "pop", index |-> frameno, value |-> frames]
    BY <1>1, <1>6 DEF PopTake, BeginPrefetch
  <2>2. Promise!SpecPop(call.arg)
    BY <1>1, <1>2, <1>3, <1>4, <1>5, <1>6, <2>1, Popped DEF frames, all
  <2>3. call.arg \in StreamArgs
    BY <1>4 DEF Looking
  <2> QED BY <2>1, <2>2, <2>3 DEF Looking
<1>7. CASE ~(call.arg \in {AnyStream, Last(frames).stop})
  <2>1. pc' = "pop" /\ UNCHANGED <<answer, call>>
    BY <1>1, <1>7 DEF PopTake
  <2>2. UNCHANGED <<Data, Position, answer>>
    BY <1>2, <1>4, <2>1 DEF Position
  <2>3. ~Promise!Matches(call.arg, all[frameno + 1])
    BY <1>3, <1>7 DEF Promise!Matches, Promise!AnyStream, AnyStream
  <2>4. \A i \in call.from .. frameno - 1 : ~Promise!Matches(call.arg, all[i + 1])
    BY <1>4 DEF Looking, all
  <2>5. ASSUME NEW i \in call.from .. frameno + 1 - 1
        PROVE  ~Promise!Matches(call.arg, all[i + 1])
    <3>1. i = frameno \/ i \in call.from .. frameno - 1
      BY <1>4
    <3> QED BY <2>3, <2>4, <3>1
  <2>6. call.from <= frameno + 1 /\ call.arg \in StreamArgs
    BY <1>4 DEF Looking
  <2>7. Looking'
    <3>1. Promise!Joined(Data)' = Promise!Joined(Data)
      BY <1>2
    <3> QED BY <1>4, <1>5, <2>1, <2>5, <2>6, <3>1 DEF Looking, all
  <2> QED BY <2>2, <2>7
<1> QED BY <1>6, <1>7

\* A step during which the search, if there is one, stays where it is.
LEMMA SearchStays ==
  ASSUME Looking, Data' = Data, frameno' = frameno,
         pc' \in {"pop", "popwait"} => /\ pc \in {"pop", "popwait"}
                                       /\ call'.arg = call.arg /\ call'.from = call.from
  PROVE  Looking'
<1>1. Promise!Joined(Data)' = Promise!Joined(Data)
  OBVIOUS
<1> QED BY <1>1 DEF Looking

\* A step that the promised sequence does not see.
LEMMA Unseen ==
  ASSUME Looking, Data' = Data, UNCHANGED <<frameno, answer>>,
         pc' \in {"pop", "popwait"} <=> pc \in {"pop", "popwait"},
         pc \in {"pop", "popwait"} => call'.arg = call.arg /\ call'.from = call.from
  PROVE  Looking' /\ UNCHANGED <<Data, Position, answer>>
BY SearchStays DEF Position

LEMMA MoreImplements ==
  ASSUME CacheSize >= 1, Inv, MoreCached \/ MoreReturn
  PROVE  Promise!SpecMore /\ pc' = "idle" /\ Data' = Data
<1> DEFINE n == Promise!Length(Data)
<1>1. frameno \in Nat
  BY DEF Inv, Types, ClientTyped
<1>2. (Promise!FramesAt(Data, frameno) # NoFrames) <=> (frameno < n)
  BY <1>1, FramesAtEnd DEF Inv, OrderInv
<1>3. Data' = Data /\ Position = frameno /\ Position' = frameno /\ pc' = "idle"
  BY DEF Data, Position, MoreCached, MoreReturn
<1> HIDE DEF n
<1>4. answer' = [op |-> "more", index |-> frameno, value |-> frameno < n]
  <2>1. CASE MoreCached
    <3>1. CacheGet(cache, frameno) = Promise!FramesAt(Data, frameno)
      BY <1>1, <2>1 DEF MoreCached, Inv, OrderInv, Coherent
    <3>2. (frameno < n) = TRUE
      BY <1>2, <2>1, <3>1 DEF MoreCached
    <3> QED BY <2>1, <3>2 DEF MoreCached, MoreAnswer
  <2>2. CASE MoreReturn
    <3>1. futures[frameno].ok /\ futures[frameno].frames = Promise!FramesAt(Data, frameno)
      BY <2>2, MoreReturnOrder DEF Inv
    <3>2. answer' = MoreAnswer(Promise!FramesAt(Data, frameno) # NoFrames)
      BY <2>2, <3>1 DEF MoreReturn
    <3>3. (Promise!FramesAt(Data, frameno) # NoFrames) = (frameno < n)
      BY <1>2
    <3> QED BY <3>2, <3>3 DEF MoreAnswer
  <2> QED BY <2>1, <2>2
<1> QED BY <1>3, <1>4 DEF Promise!SpecMore, n

LEMMA CurrentImplements ==
  ASSUME Inv, Current
  PROVE  Promise!SpecCurrent /\ pc' = "idle" /\ Data' = Data
<1> DEFINE frames == CacheGet(cache, frameno - 1)
           value == IF frameno > 0 /\ frames = NoFrames THEN Fatal
                    ELSE IF frameno = 0 THEN <<>> ELSE frames
<1>1. frameno \in Nat
  BY DEF Inv, Types, ClientTyped
<1>2. UNCHANGED <<Data, Position>> /\ Position = frameno /\ pc' = "idle" /\ Data' = Data
  BY DEF Current, Data, Position
<1>3. answer' = [op |-> "current", index |-> frameno - 1, value |-> value]
  BY DEF Current
<1>4. value \in {Fatal, IF frameno = 0 THEN <<>> ELSE Promise!FramesAt(Data, frameno - 1)}
  <2>1. CASE frameno > 0 /\ frames # NoFrames
    <3>1. frameno - 1 \in Nat
      BY <1>1, <2>1
    <3>2. frames = Promise!FramesAt(Data, frameno - 1)
      BY <2>1, <3>1 DEF Inv, OrderInv, Coherent
    <3> QED BY <2>1, <3>2
  <2>2. CASE ~(frameno > 0 /\ frames # NoFrames)
    BY <1>1, <2>2
  <2> QED BY <2>1, <2>2
<1> HIDE DEF value
<1> QED BY <1>2, <1>3, <1>4 DEF Promise!SpecCurrent

LEMMA CloseImplements ==
  ASSUME Inv, Close
  PROVE  Promise!SpecClose /\ pc' = "idle"
<1>1. group'.files = <<>>
  BY DEF Close, ClearGroup, Inv, OrderInv, GroupInv, IsGroup
<1>2. Data' = <<>>
  BY <1>1 DEF Data
<1> QED BY <1>2 DEF Close, Promise!SpecClose, Position

LEMMA ReopenImplements ==
  ASSUME Orderly, Inv, NEW data \in FileData, AddFile(data)
  PROVE  Promise!SpecAdd(data) /\ pc' = "prefetch"
<1>1. /\ group'.files = <<NewFileStruct(data)>> /\ group.files = <<>>
      /\ BeginPrefetch(FALSE) /\ answer' = [op |-> "done"]
  BY ReopenOrder DEF Inv
<1>2. Data = <<>>
  BY <1>1 DEF Data
<1>3. Data' = <<data>>
  <2> DEFINE file == NewFileStruct(data)
  <2>1. file.data = data
    BY DEF NewFileStruct
  <2> HIDE DEF file
  <2>2. group'.files = <<file>>
    BY <1>1 DEF file
  <2> QED BY <2>1, <2>2 DEF Data
<1>4. pc = "idle" /\ pc' = "prefetch" /\ frameno' = frameno
  BY <1>1 DEF AddFile, BeginPrefetch
<1>5. Data' = Append(Data, data)
  BY <1>2, <1>3
<1>6. Position' = Position
  BY <1>4 DEF Position
<1> QED BY <1>1, <1>4, <1>5, <1>6 DEF Promise!SpecAdd

LEMMA StepImplements ==
  ASSUME CacheSize >= 1, Orderly, Inv, Looking, [Next]_vars
  PROVE  Looking' /\ [Promise!SpecNext]_(Promise!specVars)
<1> USE DEF Promise!SpecNext, Promise!specVars
<1>1. CASE \E data \in FileData : AddFile(data)
  <2>1. PICK data \in FileData : AddFile(data)
    BY <1>1
  <2>2. Promise!SpecAdd(data) /\ pc' = "prefetch"
    BY <2>1, ReopenImplements
  <2> QED BY <2>2 DEF Looking
<1>2. CASE Close
  BY <1>2, CloseImplements DEF Looking
<1>3. CASE CloseLastFile \/ Rewind \/ \E index \in 0 .. MaxIndex : Seek(index)
  BY <1>3 DEF CloseLastFile, Rewind, Seek, Orderly
<1>4. CASE Current
  BY <1>4, CurrentImplements DEF Looking
<1>5. CASE MoreCached \/ MoreReturn
  BY <1>5, MoreImplements DEF Looking
<1>6. CASE \E stream \in StreamArgs : PopFrame(stream)
  <2>1. PICK stream \in StreamArgs : PopFrame(stream)
    BY <1>6
  <2>2. call'.arg = stream /\ call'.from = frameno /\ frameno' = frameno /\ frameno \in Nat
        /\ pc = "idle" /\ pc' = "pop" /\ Data' = Data /\ answer' = answer
    BY <2>1 DEF PopFrame, NoCall, Inv, Types, ClientTyped, Data
  <2>3. Looking'
    BY <2>2 DEF Looking
  <2> QED BY <2>2, <2>3 DEF Position
<1>7. CASE PopCached \/ PopReceive
  BY <1>7, PopTakeImplements
<1>8. CASE PopFatal
  <2>1. frameno = Promise!Length(Data)
    BY <1>8, PopFatalOrder DEF Inv
  <2>2. /\ pc = "popwait" /\ pc' = "idle" /\ frameno' = frameno /\ Data' = Data
        /\ answer' = [op |-> "pop", index |-> frameno, value |-> Fatal]
    BY <1>8 DEF PopFatal, Data
  <2>3. Promise!SpecPop(call.arg) /\ call.arg \in StreamArgs
    BY <2>1, <2>2, PoppedFatal DEF Looking
  <2> QED BY <2>2, <2>3 DEF Looking
<1>9. CASE \/ MoreAsk \/ PopAsk \/ PrefetchStep
           \/ UNCHANGED vars
  <2>1. Data' = Data /\ UNCHANGED <<frameno, answer>>
    BY <1>9 DEF MoreAsk, PopAsk, PrefetchStep, vars, Data
  <2>2. pc' \in {"pop", "popwait"} <=> pc \in {"pop", "popwait"}
    BY <1>9 DEF MoreAsk, PopAsk, PrefetchStep, vars
  <2>3. call \in CallType
    BY DEF Inv, Types, ClientTyped
  <2>4. pc \in {"pop", "popwait"} => call'.arg = call.arg /\ call'.from = call.from
    BY <1>9, <2>3 DEF MoreAsk, PopAsk, PrefetchStep, vars, CallType
  <2> QED BY <2>1, <2>2, <2>4, Unseen
<1>10. CASE Worker
  <2>1. UNCHANGED <<frameno, answer, pc, call>>
    BY <1>10 DEF Worker, TakeTask, RunTask
  <2>2. Data' = Data
    <3>1. CASE TakeTask
      BY <3>1 DEF TakeTask, Data
    <3>2. CASE RunTask
      BY <3>2, RunTaskOrder DEF Inv
    <3> QED BY <1>10, <3>1, <3>2 DEF Worker
  <2> QED BY <2>1, <2>2, Unseen
<1> QED BY <1>1, <1>2, <1>3, <1>4, <1>5, <1>6, <1>7, <1>8, <1>9, <1>10 DEF Next, Client, InCall

LEMMA InitImplements == Init => Promise!SpecInit
<1> SUFFICES ASSUME Init PROVE Promise!SpecInit
  OBVIOUS
<1>1. group.files = [i \in DOMAIN InitialFiles |-> NewFileStruct(InitialFiles[i])]
  BY DEF Init, NewGroup
<1>2. Data = InitialFiles
  BY <1>1, FilesAssumption DEF Data, NewFileStruct
<1> QED BY <1>2 DEF Init, Promise!SpecInit, Position, NoCall

\* With the calls of an orderly client the two threads, the futures and the
\* cache cannot be told from one sequence of frames: pop_frame returns the
\* next frame of the stream with its parents, fails only when none is left,
\* and more() says whether there is a next frame.
THEOREM SequenceActsAsOne ==
  ASSUME CacheSize >= 1, Orderly
  PROVE  Spec => ActsAsOneSequence
<1>1. Inv /\ Looking /\ [Next]_vars => Looking' /\ [Promise!SpecNext]_(Promise!specVars)
  BY StepImplements
<1>2. Init => Looking
  BY DEF Init, Looking
<1> QED BY <1>1, <1>2, InitImplements, AlwaysInv, PTL DEF Spec, ActsAsOneSequence, Promise!Spec

\* The frame an orderly client pops is the one at its index in the files that
\* are open.  (With rewind() among the calls it need not be.)
THEOREM SequenceFramesReadInOrder ==
  ASSUME CacheSize >= 1, Orderly
  PROVE  Spec => []FramesReadInOrder
<1>1. FramesReadInOrder /\ [Promise!SpecNext]_(Promise!specVars) => FramesReadInOrder'
  <2> SUFFICES ASSUME FramesReadInOrder, [Promise!SpecNext]_(Promise!specVars)
               PROVE  FramesReadInOrder'
    OBVIOUS
  <2>1. CASE \/ \E data \in FileData : Promise!SpecAdd(data)
             \/ Promise!SpecClose \/ Promise!SpecRewind \/ Promise!SpecSeek
             \/ Promise!SpecMore \/ Promise!SpecCurrent
    <3>1. CASE (\E data \in FileData : Promise!SpecAdd(data))
               \/ Promise!SpecClose \/ Promise!SpecRewind \/ Promise!SpecSeek
      <4>1. answer' \in {[op |-> "done"], [op |-> "close"]}
        BY <3>1 DEF Promise!SpecAdd, Promise!SpecClose, Promise!SpecRewind, Promise!SpecSeek
      <4>2. answer'.op # "pop"
        BY <4>1
      <4> QED BY <4>2 DEF FramesReadInOrder
    <3>2. CASE Promise!SpecMore
      <4>1. answer'.op = "more"
        BY <3>2 DEF Promise!SpecMore
      <4> QED BY <4>1 DEF FramesReadInOrder
    <3>3. CASE Promise!SpecCurrent
      <4>1. \E index, value : answer' = [op |-> "current", index |-> index, value |-> value]
        BY <3>3 DEF Promise!SpecCurrent
      <4>2. answer'.op = "current"
        BY <4>1
      <4> QED BY <4>2 DEF FramesReadInOrder
    <3> QED BY <2>1, <3>1, <3>2, <3>3
  <2>2. CASE \E stream \in StreamArgs : Promise!SpecPop(stream)
    <3>0. PICK stream \in StreamArgs : Promise!SpecPop(stream)
      BY <2>2
    <3> DEFINE next == {i \in Position .. Len(Promise!Joined(Data)) - 1 :
                          Promise!Matches(stream, Promise!Joined(Data)[i + 1])}
               first == CHOOSE i \in next : \A j \in next : i <= j
    <3>1. /\ Data' = Data
          /\ IF next # {}
             THEN answer' = [op |-> "pop", index |-> first, value |-> Promise!FramesAt(Data, first)]
             ELSE answer' = [op |-> "pop", index |-> Position', value |-> Fatal]
      BY <3>0, Zenon DEF Promise!SpecPop
    <3> HIDE DEF first, next
    <3>2. \/ answer'.value = Fatal
          \/ answer'.value = Promise!FramesAt(Data, answer'.index)
      BY <3>1
    <3> QED BY <3>1, <3>2 DEF FramesReadInOrder
  <2>3. CASE UNCHANGED Promise!specVars
    BY <2>3 DEF Promise!specVars, FramesReadInOrder
  <2> QED BY <2>1, <2>2, <2>3 DEF Promise!SpecNext
<1>2. Init => FramesReadInOrder
  BY DEF Init, FramesReadInOrder
<1> QED BY <1>1, <1>2, SequenceActsAsOne, PTL DEF Spec, ActsAsOneSequence, Promise!Spec
=============================================================================
