-------------------------- MODULE MCFrameSequence --------------------------
(***************************************************************************)
(* Small instances of FrameSequence for TLC.  A frame is a stream and a    *)
(* number that tells it from the others.                                   *)
(***************************************************************************)
EXTENDS FrameSequence

F(stop, id) == [stop |-> stop, id |-> id]

GQP == <<F("G", 1), F("Q", 2), F("P", 3)>>
QP  == <<F("Q", 4), F("P", 5)>>
Short == <<F("Q", 6)>>
P1 == <<F("P", 8)>>

AnyFrame == [stop : {"G", "Q", "P"}, id : 1 .. 8]

TwoFiles == <<GQP, QP>>
OneFile == <<Short>>
AnyFile == {P1}
TwoFrames == {QP}
NoFiles == <<>>
=============================================================================
