-------------------------------- MODULE MCFrame --------------------------------
(***************************************************************************)
(* Two frames that share the values of two keys; which frame, key, stream  *)
(* or value is which does not matter, nor what a value that no frame       *)
(* refers to holds.                                                        *)
(***************************************************************************)
EXTENDS Frame, TLC

AnyNames == {p @@ q @@ r @@ s : p \in Permutations(Frames), q \in Permutations(Keys),
                                r \in Permutations(Streams), s \in Permutations(Values)}
FramesOnly == <<map, [v \in Used |-> value[v]], stop, dropBlobs>>
===============================================================================
