---------------------------- MODULE MCMultiWriter ----------------------------
(***************************************************************************)
(* Small instances of MultiWriter: frames of five streams in every order,  *)
(* settings with and without droppable, filtered and repeated streams, one *)
(* reader beside the writer.                                               *)
(***************************************************************************)
EXTENDS MultiWriter, TLC

CONSTANTS G, Q, P, I, S, W, R1

MCStops == {G, Q, P, I, S}

Setting(arriving, streams, dropOrphan, metadata, sync) ==
    [arriving |-> arriving, streams |-> streams, dropOrphan |-> dropOrphan,
     metadata |-> metadata, sync |-> sync]

MCConfigs == {
    \* as the code has it without parameters
    Setting({G, Q, P, I}, {}, {}, {G}, Q),
    \* sync frames may be held back, simulation frames overtake them
    Setting({G, Q, P, S}, {}, {Q}, {G, S}, Q),
    \* neither the configuration nor the metadata are written
    Setting({G, Q, P, S}, {Q, P, S}, {Q}, {G}, Q)}
==============================================================================
