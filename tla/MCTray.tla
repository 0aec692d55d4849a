------------------------------- MODULE MCTray -------------------------------
(***************************************************************************)
(* Small trays for TLC: the modules a program may add, with their classes  *)
(* and outboxes, the connections it may ask for and the frames it reads.   *)
(***************************************************************************)
EXTENDS Tray, TLC

CONSTANTS reader, packer, fork, tee, relay, pick, bin

Plain == <<"OutBox">>
Forked == <<"A", "B">>

\* A reader, a packet module, a fork, and behind it a filter and a trash can.
\* Without ConnectBoxes any of them may follow any other.
BranchModules == {reader, packer, fork, pick, bin}
BranchKind == reader :> "reader" @@ packer :> "packet" @@ fork :> "fork" @@ pick :> "filter" @@ bin :> "trash"
BranchBoxes == reader :> Plain @@ packer :> Plain @@ fork :> Forked @@ pick :> Plain @@ bin :> Plain
BranchOrder == <<packer, reader, fork, pick, bin>>
BranchWires == {<<reader, "OutBox", packer>>, <<packer, "OutBox", fork>>, <<fork, "A", pick>>, <<fork, "B", bin>>}

\* A module with two outboxes that pushes its frames to both of them.
TeeModules == {reader, tee, pick, bin, relay}
TeeKind == reader :> "reader" @@ tee :> "base" @@ pick :> "filter" @@ relay :> "base" @@ bin :> "trash"
TeeBoxes == reader :> Plain @@ tee :> Forked @@ pick :> Plain @@ relay :> Plain @@ bin :> Plain
TeeOrder == <<reader, tee, pick, relay, bin>>
TeeWires == {<<reader, "OutBox", tee>>, <<tee, "A", pick>>, <<pick, "OutBox", relay>>, <<tee, "B", bin>>}

\* One outbox is connected twice.
TwiceModules == {reader, pick, bin}
TwiceKind == reader :> "reader" @@ pick :> "filter" @@ bin :> "trash"
TwiceBoxes == reader :> Plain @@ pick :> Plain @@ bin :> Plain
TwiceOrder == <<reader, pick, bin>>
TwiceWires == {<<reader, "OutBox", pick>>, <<reader, "OutBox", bin>>}

AnyCount == {Forever, 2}
Twice == {2}
Events == <<"Q", "P", "G", "P">>
OneEvent == <<"Q", "P">>
=============================================================================
