------------------------------ MODULE MCShovel ------------------------------
(***************************************************************************)
(* Small files for TLC.  A frame is identified by its file and its place.  *)
(***************************************************************************)
EXTENDS ShovelSequence, TLC

Frames(path, stops) ==
  [i \in DOMAIN stops |-> [stop |-> stops[i], id |-> <<path, i>>]]

\* A data file, a compressed one, an empty one and a pipe.
AnyData == "run" :> Frames("run", <<"Q">>) @@ "more" :> Frames("more", <<"P", "G", "P">>)
             @@ "void" :> <<>> @@ "pipe" :> Frames("pipe", <<"Q", "P", "P", "G", "P">>)
AnyType == "run" :> "Seekable" @@ "more" :> "MultiPass" @@ "void" :> "Empty"
             @@ "pipe" :> "SinglePass"

TwoData == "run" :> Frames("run", <<"Q">>) @@ "more" :> Frames("more", <<"P">>)
TwoType == "run" :> "Seekable" @@ "more" :> "MultiPass"

OneData == "run" :> Frames("run", <<"G", "Q">>)
OneType == "run" :> "MultiPass"

TwoThreads == {1, 2}
OneName == {1}
=============================================================================
