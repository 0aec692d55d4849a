----------------------------- MODULE TreeArchive -----------------------------
(***************************************************************************)
(* How an I3MCTree is saved and loaded: as chunks of a bit mask, in which  *)
(* each node is a one and each missing first child or next sibling a zero, *)
(* with the particles of the ones after each mask (I3MCTree_impl.h), as    *)
(* the older format with counts of children, and as an I3LinearizedMCTree, *)
(* which stores the energy losses along a particle apart from the tree.    *)
(***************************************************************************)
EXTENDS TreeNodes

\* The mask of a tree from one point of the walk on, with the key of the
\* particle for a one and None for a zero.
RECURSIVE MaskFrom(_, _, _, _)
MaskFrom(t, n, prev, firstChild) ==
    IF n # None THEN <<n>> \o MaskFrom(t, t.nodes[n].firstChild, n, TRUE)
    ELSE IF firstChild THEN <<None>> \o MaskFrom(t, t.nodes[prev].nextSibling, prev, FALSE)
    ELSE IF prev = None THEN <<>>
    ELSE LET up == t.nodes[prev].parent
         IN  <<None>> \o MaskFrom(t, IF up = None THEN None ELSE t.nodes[up].nextSibling, up, FALSE)

Mask(t) == MaskFrom(t, t.head, None, TRUE)

\* Another chunk follows every full one, with what is left if anything is.
Save(t, chunkSize) ==
    IF t.head = None THEN << <<>> >>
    ELSE LET bits == Mask(t)
         IN  [i \in 1 .. Len(bits) \div chunkSize + 1 |->
                SubSeq(bits, (i - 1) * chunkSize + 1,
                       IF i * chunkSize < Len(bits) THEN i * chunkSize ELSE Len(bits))]

\* Mutant of LoadBit: the flag for a missing first child is not reset.
LoadBitUnreset(state, bit) ==
    LET t == state.tree
        parent == IF state.firstChild THEN state.at ELSE t.nodes[state.at].parent
        loaded == Add(t, bit, [NewNode EXCEPT !.parent = parent])
    IN  IF state.done THEN state
        ELSE IF bit # None /\ t.head = None
          THEN [state EXCEPT !.tree = [Add(t, bit, NewNode) EXCEPT !.head = bit], !.at = bit]
        ELSE IF bit # None
          THEN [state EXCEPT !.tree = Link(loaded, state.at,
                                           IF state.firstChild THEN "firstChild" ELSE "nextSibling", bit),
                             !.at = bit]
        ELSE IF state.firstChild THEN [state EXCEPT !.firstChild = FALSE]
        ELSE IF parent # None THEN [state EXCEPT !.at = parent]
        ELSE [state EXCEPT !.done = TRUE]

\* One bit is loaded: at is the node last loaded or gone up to, done is set
\* when a zero leads up from the top level.
LoadBit(state, bit) ==
    LET t == state.tree
        parent == IF state.firstChild THEN state.at ELSE t.nodes[state.at].parent
        loaded == Add(t, bit, [NewNode EXCEPT !.parent = parent])
    IN  IF state.done THEN state
        ELSE IF bit # None /\ t.head = None
          THEN [state EXCEPT !.tree = [Add(t, bit, NewNode) EXCEPT !.head = bit], !.at = bit]
        ELSE IF bit # None
          THEN [state EXCEPT !.tree = Link(loaded, state.at,
                                           IF state.firstChild THEN "firstChild" ELSE "nextSibling", bit),
                             !.at = bit, !.firstChild = TRUE]
        ELSE IF state.firstChild THEN [state EXCEPT !.firstChild = FALSE]
        ELSE IF parent # None THEN [state EXCEPT !.at = parent]
        ELSE [state EXCEPT !.done = TRUE]

\* Chunks are read until one is not full or the top level was left.
RECURSIVE LoadChunks(_, _, _)
LoadChunks(state, chunks, chunkSize) ==
    LET after == FoldValues(LoadBit, state, Head(chunks))
    IN  IF Len(Head(chunks)) = chunkSize /\ ~after.done
          THEN LoadChunks(after, Tail(chunks), chunkSize)
          ELSE [tree |-> after.tree, unread |-> Tail(chunks)]

Load(chunks, chunkSize) ==
    LoadChunks([tree |-> EmptyTree, at |-> None, firstChild |-> TRUE, done |-> FALSE], chunks, chunkSize)

-----------------------------------------------------------------------------
(* The older format: every node with the number of its children, in        *)
(* pre-order, behind the number of top-level nodes.                        *)

SaveCounts(t) == [count |-> Len(GetHeads(t)),
                  items |-> [i \in DOMAIN PreOrder(t) |->
                    [key |-> PreOrder(t)[i], count |-> NumberOfChildren(t, PreOrder(t)[i])]]]

\* One item is loaded.  open: how many are still to come on each level;
\* above: their parents.
LoadItem(state, item) ==
    LET parents == state.above
        t == IF parents = <<>> THEN InsertRootAfter(state.tree, item.key)
                               ELSE AppendChild(state.tree, Last(parents), item.key)
        left == Last(state.open) - 1
        open == IF left = 0 THEN Front(state.open) ELSE Append(Front(state.open), left)
        above == IF left = 0 /\ parents # <<>> THEN Front(parents) ELSE parents
    IN  IF item.count = 0
          THEN [tree |-> t, open |-> open, above |-> above]
          ELSE [tree |-> t, open |-> Append(open, item.count), above |-> Append(above, item.key)]

LoadCounts(saved) ==
    FoldValues(LoadItem,
             [tree |-> EmptyTree, open |-> <<saved.count>>, above |-> <<>>], saved.items).tree

-----------------------------------------------------------------------------
(* I3LinearizedMCTree: losses are the keys whose position and time follow  *)
(* from the parent's.                                                      *)

Stripped(apart) == {apart[i].parent : i \in DOMAIN apart}

\* Leaves are taken from the tree in post-order, with the iterator that erase
\* answers; a node whose leaves were taken stays.
RECURSIVE Strip(_, _, _, _)
Strip(t, at, apart, losses) ==
    IF at = None THEN [tree |-> t, apart |-> apart]
    ELSE LET parent == t.nodes[at].parent
         IN  IF parent # None /\ t.nodes[at].firstChild = None /\ at \in losses /\ at \notin Stripped(apart)
               THEN Strip(Erase(t, at), BeyondSubtree(t, at, at, TRUE),
                          Append(apart, [parent |-> parent, key |-> at]), losses)
               ELSE Strip(t, PostOrderNext(t, at), apart, losses)

SaveLinearized(t, losses) == Strip(t, PostOrderFirst(t), <<>>, losses)

RECURSIVE LaterSibling(_, _, _, _)
LaterSibling(t, at, k, time) ==
    IF at # None /\ time[k] >= time[at] THEN LaterSibling(t, t.nodes[at].nextSibling, k, time) ELSE at

\* Mutant of PutBack: the losses go behind all other children.
PutBackLast(t, parent, losses, time) == FoldValues(LAMBDA sofar, k : AppendChild(sofar, parent, k), t, losses)

\* The losses of a parent are put back in order, each from the place of the
\* one before on, left of the first sibling that is later.
PutBack(t, parent, losses, time) ==
    FoldValues(LAMBDA sofar, k :
               LET next == LaterSibling(sofar.tree, sofar.at, k, time)
               IN  [tree |-> IF next = None THEN AppendChild(sofar.tree, parent, k)
                                            ELSE Insert(sofar.tree, next, k),
                    at |-> k],
             [tree |-> t, at |-> t.nodes[parent].firstChild], losses).tree

LoadLinearized(saved, time) ==
    LET of(parent) == LET taken == SelectSeq(saved.apart, LAMBDA a : a.parent = parent)
                      IN  [i \in DOMAIN taken |-> taken[i].key]
    IN  FoldValues(LAMBDA sofar, parent : PutBack(sofar, parent, of(parent), time),
                 saved.tree, SetToSeq(Stripped(saved.apart)))
===============================================================================
