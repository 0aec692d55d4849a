---------------------------- MODULE MCTableWriter ----------------------------
(***************************************************************************)
(* Small instances of TableWriter: every writer books one SubEventStream;  *)
(* x has one row, y none to two, z is booked from Physics frames and, with *)
(* another converter, from simulation frames.                              *)
(***************************************************************************)
EXTENDS TableWriter

CONSTANTS P, Q, S, x, y, z

Converter(of, stop, multi) == [of |-> of, stop |-> stop, multi |-> multi]
Scalar == Converter(x, P, FALSE)
Vector == Converter(y, P, TRUE)
Event == Converter(z, P, FALSE)
Simulated == Converter(z, S, TRUE)

MCKeys == <<x, y, z>>
MCStreams == [w \in 1 .. NumWriters |-> {w}]
\* The first writer finds y by its type; only it books z.
MCWantedKeys == [w \in 1 .. NumWriters |-> [k \in {x, y, z} |->
    IF k = x THEN <<Scalar>>
    ELSE IF k = z /\ w = 1 THEN <<Event, Simulated>>
    ELSE IF k = y /\ w # 1 THEN <<Vector>> ELSE <<>>]]
MCWantedTypes == [w \in 1 .. NumWriters |->
    IF w = 1 THEN <<[keys |-> {y, z}, converters |-> <<Vector>>]>> ELSE <<>>]

Objects(a, b, c) == [k \in {x, y, z} |-> IF k = x THEN a ELSE IF k = y THEN b ELSE c]
Kind(stop, stream, objects) == [stop |-> stop, stream |-> stream, objects |-> objects]

\* Stream 0 is nobody's: no header, or a stream that is not booked.
MCFrameKinds ==
    {Kind(P, stream, Objects(a, b, Absent)) :
        stream \in {1, 2}, a \in {Absent, 1}, b \in {Absent, 0, 2}}
    \union {Kind(P, 1, Objects(Absent, 1, 1)), Kind(P, 1, Objects(1, Absent, 1)),
            Kind(P, 0, Objects(1, 1, 1)), Kind(Q, 1, Objects(1, 1, 1)),
            Kind(S, 0, Objects(Absent, 1, 2)), Kind(S, 0, Objects(Absent, Absent, 0))}

\* One kind per writer, for instances with more of them.
OwnKeys == [w \in 1 .. NumWriters |-> [k \in {x, y, z} |->
    IF k = MCKeys[w] THEN <<Converter(k, P, FALSE)>> ELSE <<>>]]
NoTypes == [w \in 1 .. NumWriters |-> <<>>]
AllThree == {Kind(P, stream, Objects(1, 1, 1)) : stream \in 1 .. NumWriters}
==============================================================================
