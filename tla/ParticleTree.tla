----------------------------- MODULE ParticleTree -----------------------------
(***************************************************************************)
(* Programs that work with I3MCTrees: they insert, move and remove nodes,  *)
(* copy subtrees from one tree to another, merge, assign and swap trees.   *)
(* Calls whose assertions fail end the program, or throw with the trees    *)
(* unchanged; they are not steps.                                          *)
(***************************************************************************)
EXTENDS TreeArchive

CONSTANTS Trees,        \* the trees a program works with
          Keys,         \* the identifiers of particles
          MaxNodes,     \* bound: nodes of all trees together
          MaxLinear,    \* bound: nodes of a tree that is saved without its losses
          MaxTime,      \* bound: the time of a particle
          BeforeHead    \* may a node be inserted before the first top-level one?

VARIABLES tree,         \* tree[a]: the map and the head of tree a
          call          \* the call last made

vars == <<tree, call>>

Init == /\ tree = [a \in Trees |-> EmptyTree]
        /\ call = [op |-> "none"]

New(a) == Keys \ Here(tree[a])
Size(trees) == FoldValues(LAMBDA n, a : n + Cardinality(Here(trees[a])), 0, SetToSeq(Trees))

\* A call leaves a tree with a value; the others stay as they are.
Set(a, c, value) ==
    /\ tree' = [tree EXCEPT ![a] = value]
    /\ call' = c @@ [tree |-> a]
    /\ Size(tree') <= MaxNodes

Inserting(where, k) == [op |-> "insert", where |-> where, node |-> k]

InsertRoots(a) == \E k \in New(a) :
    \/ Set(a, Inserting("front", k), InsertRoot(tree[a], k))
    \/ Set(a, Inserting("back", k), InsertRootAfter(tree[a], k))

InsertSiblings(a) == \E k \in New(a), at \in Here(tree[a]) :
    \/ /\ at # tree[a].head \/ BeforeHead
       /\ Set(a, Inserting("before", k) @@ [at |-> at], Insert(tree[a], at, k))
    \/ Set(a, Inserting("after", k) @@ [at |-> at], InsertAfter(tree[a], at, k))

InsertChildren(a) == \E at \in Here(tree[a]), k \in New(a) :
    \/ Set(a, Inserting("child", k) @@ [at |-> at], AppendChild(tree[a], at, k))
    \/ \E l \in New(a) \ {k} :
         Set(a, [op |-> "append_children", at |-> at, nodes |-> <<k, l>>],
             AppendChildren(tree[a], at, <<k, l>>))

\* A subtree of another tree, of which nothing is here.
Taking(where, b, k, at) ==
    [op |-> "insert_subtree", where |-> where, other |-> b, node |-> k, at |-> at]

InsertSubtrees(a, b) == \E k \in Here(tree[b]), at \in Here(tree[a]) :
    /\ ~SubtreeInTree(tree[a], tree[b], k)
    /\ \/ /\ at # tree[a].head \/ BeforeHead
          /\ Set(a, Taking("before", b, k, at), InsertSubtree(tree[a], at, tree[b], k))
       \/ Set(a, Taking("after", b, k, at), InsertSubtreeAfter(tree[a], at, tree[b], k))
       \/ Set(a, Taking("child", b, k, at), AppendSubtree(tree[a], at, tree[b], k))
       \/ Set(a, Taking("instead", b, k, at), ReplaceSubtree(tree[a], at, tree[b], k))

RemoveNodes(a) ==
    \/ Set(a, [op |-> "clear"], EmptyTree)
    \/ \E k \in Here(tree[a]) :
         \/ Set(a, [op |-> "erase", at |-> k], Erase(tree[a], k))
         \/ Set(a, [op |-> "erase_children", at |-> k], EraseChildren(tree[a], k))

Rearrange(a) == \E at \in Here(tree[a]) :
    \/ \E k \in New(a) : Set(a, [op |-> "replace", at |-> at, node |-> k], Replace(tree[a], at, k))
    \/ Set(a, [op |-> "flatten", at |-> at], Flatten(tree[a], at))
    \* Moving children under one of themselves has no end.
    \/ \E from \in Here(tree[a]) :
         /\ ~IsInSubtree(tree[a], from, at)
         /\ Set(a, [op |-> "reparent", at |-> at, from |-> from], Reparent(tree[a], at, from))

Combine(a, b) ==
    \/ tree[a] # tree[b] /\ Set(a, [op |-> "merge", other |-> b], Merge(tree[a], tree[b]))
    \/ Set(a, [op |-> "assign", other |-> b], Copy(tree[b]))

SwapTrees(a, b) ==
    /\ tree' = [tree EXCEPT ![a] = tree[b], ![b] = tree[a]]
    /\ call' = [op |-> "swap", tree |-> a, other |-> b]

Next ==
    \E a \in Trees :
      \/ InsertRoots(a) \/ InsertSiblings(a) \/ InsertChildren(a)
      \/ RemoveNodes(a) \/ Rearrange(a)
      \/ \E b \in Trees \ {a} : InsertSubtrees(a, b) \/ Combine(a, b) \/ SwapTrees(a, b)

Spec == Init /\ [][Next]_vars

-----------------------------------------------------------------------------
Values == {tree[a] : a \in Trees}
Alone == {tree[a] : a \in {b \in Trees : \A c \in Trees \ {b} : tree[c] = EmptyTree}}
Linear == {t \in Alone : Cardinality(Here(t)) <= MaxLinear}

\* Every call does to the forest what the class says it does: the pointers
\* are those of one ordered forest, and the pre-order iterator is its reader.
Shown(t) ==
    FoldValues(LAMBDA f, k : Append(f, [key |-> k, depth |-> Depth(t, k)]), <<>>, PreOrder(t))
Forest == INSTANCE ForestSpec WITH forest <- [a \in Trees |-> Shown(tree[a])]
ActsAsForest == Forest!Spec

\* Nothing is lost: the iterators visit each node of the map once and come to
\* an end, one with the parents first, the other with the children first.
EachVisitedOnce ==
    \A t \in Values : \A pre \in {PreOrder(t)}, post \in {PostOrder(t)} :
      /\ Len(pre) = Cardinality(Here(t)) /\ ToSet(pre) = Here(t)
      /\ \A k, l \in Here(t) : k # l =>
           LET before(order) == SelectInSeq(order, LAMBDA n : n = k) < SelectInSeq(order, LAMBDA n : n = l)
           IN  before(pre) # before(post) <=> IsInSubtree(t, k, l) \/ IsInSubtree(t, l, k)

\* A loop that erases through its iterator goes on with the node the iterator
\* would have come to without the subtree, which is there still.
IteratorSurvivesErase ==
    \A t \in Values : \A k \in Here(t) : \A less \in {Erase(t, k)} :
      \A pre \in {PreOrder(t)}, post \in {PostOrder(t)} :
        LET next(order) == LET later == SelectSeq(SubSeq(order, SelectInSeq(order, LAMBDA n : n = k), Len(order)),
                                                  LAMBDA n : n \in Here(less))
                           IN  IF later = <<>> THEN None ELSE later[1]
        IN  /\ BeyondSubtree(t, k, k, FALSE) = next(pre)
            /\ BeyondSubtree(t, k, k, TRUE) = next(post)

\* What the tree answers about a node is what the forest shows.
QueriesAgree ==
    \A t \in Values : \A f \in {Shown(t)} : \A k \in Here(t) :
      LET below == Forest!Descendants(f, k)
          children == SelectSeq(below, LAMBDA n : n.depth = Depth(t, k) + 1)
          heads == SelectSeq(f, LAMBDA n : n.depth = 0)
      IN  /\ Children(t, k) = [i \in DOMAIN children |-> children[i].key]
          /\ \A row \in {children, heads} : \A i \in DOMAIN row :
               /\ PreviousSibling(t, row[i].key) = IF i = 1 THEN None ELSE row[i - 1].key
               /\ NumberOfSiblings(t, row[i].key) = Len(row) - 1
          /\ \A i \in DOMAIN heads : k \in Forest!KeysOf(Forest!Subtree(f, heads[i].key)) <=>
                                       GetHead(t, k) = heads[i].key
          /\ Forest!KeysOf(below) = {l \in Here(t) \ {k} : IsInSubtree(t, k, l)}
          /\ below = <<>> <=> k \in Leaves(t)

\* A tree that was saved, in the older format or the newer with chunks of any
\* size, is loaded as it was; but what follows a last chunk that is full is left in the archive.
SavedTreeLoads ==
    \A t \in Values : \A size \in 1 .. 2 * MaxNodes + 1 :
      \A loaded \in {Load(Save(t, size), size)} :
        /\ loaded.tree = t /\ LoadCounts(SaveCounts(t)) = t
        /\ loaded.unread # <<>> <=> (2 * Cardinality(Here(t)) + 1) % size = 0 /\ t.head # None

\* A tree that was saved without its losses gets each of them back under its
\* parent; if siblings are in the order of their times it is the same tree.
LinearizedTreeLoads ==
    \A t \in Linear : \A losses \in SUBSET Here(t), time \in [Here(t) -> 0 .. MaxTime] :
      \A loaded \in {LoadLinearized(SaveLinearized(t, losses), time)} :
        /\ \A k \in Here(t) : loaded.nodes[k].parent = t.nodes[k].parent
        /\ Here(loaded) = Here(t) /\ GetHeads(loaded) = GetHeads(t)
        /\ (\A k \in Here(t) : LET next == t.nodes[k].nextSibling
                               IN  t.nodes[k].parent # None /\ next # None => time[k] < time[next])
             => loaded = t
===============================================================================
