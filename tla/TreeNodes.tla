------------------------------ MODULE TreeNodes ------------------------------
(***************************************************************************)
(* TreeBase::Tree, the tree of I3MCTree (dataclasses/physics/I3MCTree.h    *)
(* and detail/I3MCTree_impl.h): a hash map of nodes with pointers to the   *)
(* parent, the first child and the next sibling, and the key of the first  *)
(* top-level node; its operations, iterators and queries.                  *)
(*                                                                         *)
(* A pointer is written as the key of the node it points to, None for      *)
(* NULL.  The operators are used where the code's assertions hold.         *)
(***************************************************************************)
EXTENDS Integers, FiniteSets, Sequences, SequencesExt, TLC, Eager

CONSTANT None   \* no node

EmptyTree == [head |-> None, nodes |-> <<>>]

Here(t) == DOMAIN t.nodes
NewNode == [parent |-> None, firstChild |-> None, nextSibling |-> None]
Add(t, k, node) == [t EXCEPT !.nodes = (k :> node) @@ @]
Link(t, k, which, to) == [t EXCEPT !.nodes[k][which] = to]
Without(t, keys) == [t EXCEPT !.nodes = With(@, LAMBDA nodes : RestrictDomain(nodes, LAMBDA k : k \notin keys))]

\* A node and its right neighbours, following nextSibling.
RECURSIVE Row(_, _)
Row(t, k) == IF k = None THEN <<>> ELSE <<k>> \o Row(t, t.nodes[k].nextSibling)

GetHeads(t) == Row(t, t.head)
Children(t, k) == Row(t, t.nodes[k].firstChild)

PreviousSibling(t, k) ==
    With(IF t.nodes[k].parent = None THEN GetHeads(t) ELSE Children(t, t.nodes[k].parent),
         LAMBDA row :
           LET i == SelectInSeq(row, LAMBDA n : n = k)
           IN  IF i > 1 THEN row[i - 1] ELSE None)

\* What pointed to a node from the left or from above points elsewhere.
Relink(t, node, to) ==
    With(PreviousSibling(t, node), LAMBDA prev :
      IF prev # None THEN Link(t, prev, "nextSibling", to)
      ELSE IF t.nodes[node].parent # None THEN Link(t, t.nodes[node].parent, "firstChild", to)
      ELSE t)

-----------------------------------------------------------------------------
(* Adding nodes.                                                           *)

InsertRoot(t, k) ==
    [Add(t, k, [NewNode EXCEPT !.nextSibling = t.head]) EXCEPT !.head = k]

InsertRootAfter(t, k) ==
    IF t.head = None
      THEN [Add(t, k, NewNode) EXCEPT !.head = k]
      ELSE Link(Add(t, k, NewNode), Last(GetHeads(t)), "nextSibling", k)

\* insert before a node: a left neighbour or the parent is told of it, the
\* head of the tree is not.
Insert(t, node, k) ==
    IF node \notin Here(t)
      THEN InsertRoot(t, k)
      ELSE Add(Relink(t, node, k), k,
               [NewNode EXCEPT !.parent = t.nodes[node].parent, !.nextSibling = node])

InsertAfter(t, node, k) ==
    IF node \notin Here(t)
      THEN InsertRootAfter(t, k)
      ELSE Link(Add(t, k, [t.nodes[node] EXCEPT !.firstChild = None]), node, "nextSibling", k)

AppendChild(t, node, k) ==
    With(Children(t, node), LAMBDA row :
      LET added == Add(t, k, [NewNode EXCEPT !.parent = node])
      IN  IF row = <<>> THEN Link(added, node, "firstChild", k)
                        ELSE Link(added, Last(row), "nextSibling", k))

\* The first child is appended, each further one goes right of the one before.
AppendChildren(t, node, ks) ==
    FoldValues(LAMBDA sofar, i : InsertAfter(sofar, ks[i - 1], ks[i]),
             AppendChild(t, node, ks[1]), [i \in 1 .. Len(ks) - 1 |-> i + 1])

\* append_child of a subtree of another tree, and of all subtrees under k.
RECURSIVE AppendSubtree(_, _, _, _)
AppendSubtree(t, node, other, k) ==
    FoldValues(LAMBDA sofar, child : AppendSubtree(sofar, k, other, child),
             AppendChild(t, node, k), Children(other, k))

AppendAll(t, other, k) ==
    FoldValues(LAMBDA sofar, child : AppendSubtree(sofar, k, other, child),
             t, Children(other, k))

InsertSubtree(t, node, other, k) == AppendAll(Insert(t, node, k), other, k)
InsertSubtreeAfter(t, node, other, k) == AppendAll(InsertAfter(t, node, k), other, k)

\* Is any node of the subtree of another tree here already?
RECURSIVE SubtreeInTree(_, _, _)
SubtreeInTree(t, other, k) ==
    \/ k \in Here(t)
    \/ \E i \in DOMAIN Children(other, k) : SubtreeInTree(t, other, Children(other, k)[i])

-----------------------------------------------------------------------------
(* Removing, replacing and moving nodes.                                   *)

\* eraseRightSiblings_: a node, its right neighbours, and all below them.
RECURSIVE RightSiblings(_, _)
RightSiblings(t, k) ==
    IF k = None THEN {}
    ELSE {k} \cup RightSiblings(t, t.nodes[k].nextSibling)
             \cup RightSiblings(t, t.nodes[k].firstChild)

EraseChildren(t, k) ==
    Link(Without(t, RightSiblings(t, t.nodes[k].firstChild)), k, "firstChild", None)

Erase(t, k) ==
    With(EraseChildren(t, k), LAMBDA bare :
      LET next == bare.nodes[k].nextSibling
      IN  Without([Relink(bare, k, next) EXCEPT !.head = IF @ = k THEN next ELSE @], {k}))

Adopt(t, row, parent) ==
    FoldValues(LAMBDA sofar, child : Link(sofar, child, "parent", parent), t, row)

\* replace a node, keeping its children, who are told of the new parent.
Replace(t, node, k) ==
    With(Relink(t, node, k), LAMBDA linked :
      Without([Adopt(Add(linked, k, t.nodes[node]), Children(t, node), k)
                 EXCEPT !.head = IF @ = node THEN k ELSE @], {node}))

ReplaceSubtree(t, node, other, k) ==
    With(EraseChildren(t, node), LAMBDA bare : AppendAll(Replace(bare, node, k), other, k))

\* Mutant of Flatten: the last child is not followed by what followed the node.
FlattenCutting(t, node) ==
    With(Children(t, node), LAMBDA row :
      IF row = <<>> THEN t
      ELSE With(Adopt(t, row, t.nodes[node].parent), LAMBDA moved :
             Link(Link(moved, node, "nextSibling", row[1]), node, "firstChild", None)))

\* The children of a node go right of it.
Flatten(t, node) ==
    With(Children(t, node), LAMBDA row :
      IF row = <<>> THEN t
      ELSE With(Adopt(t, row, t.nodes[node].parent), LAMBDA moved :
             LET spliced == Link(moved, Last(row), "nextSibling", t.nodes[node].nextSibling)
             IN  Link(Link(spliced, node, "nextSibling", row[1]), node, "firstChild", None)))

\* Mutant of Reparent: the children go before those of the other node.
ReparentFirst(t, node, from) ==
    With(Children(t, from), LAMBDA row :
      IF row = <<>> THEN t
      ELSE LET moved == Link(Adopt(t, row, node), from, "firstChild", None)
           IN  Link(Link(moved, node, "firstChild", row[1]),
                    Last(row), "nextSibling", t.nodes[node].firstChild))

\* The children of one node go after those of another.
Reparent(t, node, from) ==
    With(Children(t, from), LAMBDA row :
      IF row = <<>> THEN t
      ELSE LET moved == Link(Adopt(t, row, node), from, "firstChild", None)
               there == Children(t, node)
           IN  IF there = <<>> THEN Link(moved, node, "firstChild", row[1])
               ELSE Link(moved, Last(there), "nextSibling", row[1]))

\* The primaries of another tree are copied one by one, after those that are
\* here, unless something below them is here already.
Merge(t, other) ==
    FoldValues(LAMBDA sofar, k :
               IF SubtreeInTree(sofar, other, k) THEN sofar
                 ELSE AppendAll(InsertRootAfter(sofar, k), other, k),
             t, GetHeads(other))

\* The copy constructor: every pointer goes to the node of the same key.
Copy(t) ==
    LET found(k) == IF k \in Here(t) THEN k ELSE None
    IN  [t EXCEPT !.nodes = [k \in Here(t) |->
            [parent |-> found(t.nodes[k].parent), firstChild |-> found(t.nodes[k].firstChild),
             nextSibling |-> found(t.nodes[k].nextSibling)]]]

-----------------------------------------------------------------------------
(* Iterators.                                                              *)

\* Up from a node to the nearest one that has a right neighbour.
RECURSIVE NextAbove(_, _)
NextAbove(t, k) ==
    IF k = None THEN None
    ELSE IF t.nodes[k].nextSibling # None THEN t.nodes[k].nextSibling
    ELSE NextAbove(t, t.nodes[k].parent)

PreOrderNext(t, k) ==
    IF t.nodes[k].firstChild # None THEN t.nodes[k].firstChild ELSE NextAbove(t, k)

RECURSIVE Leftmost(_, _)
Leftmost(t, k) ==
    IF k = None \/ t.nodes[k].firstChild = None THEN k ELSE Leftmost(t, t.nodes[k].firstChild)

PostOrderFirst(t) == Leftmost(t, t.head)

PostOrderNext(t, k) ==
    IF t.nodes[k].nextSibling # None
      THEN Leftmost(t, t.nodes[k].nextSibling) ELSE t.nodes[k].parent

\* All an iterator visits, with next for its step; one that does not end is
\* cut off behind the size.
Visits(t, first, next) ==
    FoldValues(LAMBDA seen, i :
               IF seen # <<>> /\ Last(seen) # None THEN Append(seen, next[Last(seen)]) ELSE seen,
             <<first>>, [i \in 1 .. Cardinality(Here(t)) + 1 |-> i])

PreOrder(t) ==
    LET next == [k \in Here(t) |-> PreOrderNext(t, k)]
    IN  SelectSeq(Visits(t, t.head, next), LAMBDA k : k # None)

PostOrder(t) ==
    LET next == [k \in Here(t) |-> PostOrderNext(t, k)]
    IN  SelectSeq(Visits(t, PostOrderFirst(t), next), LAMBDA k : k # None)

Leaves(t) == {k \in Here(t) : t.nodes[k].firstChild = None}

-----------------------------------------------------------------------------
(* Queries.                                                                *)

RECURSIVE IsInSubtree(_, _, _)
IsInSubtree(t, haystack, needle) ==
    \/ needle = haystack
    \/ \E i \in DOMAIN Children(t, haystack) : IsInSubtree(t, Children(t, haystack)[i], needle)

RECURSIVE Depth(_, _)
Depth(t, k) == IF t.nodes[k].parent = None THEN 0 ELSE 1 + Depth(t, t.nodes[k].parent)

RECURSIVE GetHead(_, _)
GetHead(t, k) == IF t.nodes[k].parent = None THEN k ELSE GetHead(t, t.nodes[k].parent)

NumberOfChildren(t, k) == Len(Children(t, k))

\* Mutant of NumberOfSiblings: a node is its own sibling.
NumberOfSiblingsAndSelf(t, k) ==
    IF t.nodes[k].parent = None
      THEN Len(GetHeads(t)) ELSE NumberOfChildren(t, t.nodes[k].parent)

NumberOfSiblings(t, k) ==
    IF t.nodes[k].parent = None
      THEN Cardinality({i \in DOMAIN GetHeads(t) : GetHeads(t)[i] # k})
      ELSE NumberOfChildren(t, t.nodes[k].parent) - 1

\* Mutant of BeyondSubtree: one step is enough.
BeyondNode(t, k, at, postOrder) ==
    IF postOrder THEN PostOrderNext(t, at) ELSE PreOrderNext(t, at)

\* What erase answers that was given an iterator: the iterator is advanced
\* until it has left the subtree, and only then the subtree is erased.
RECURSIVE BeyondSubtree(_, _, _, _)
BeyondSubtree(t, k, at, postOrder) ==
    LET next == IF postOrder THEN PostOrderNext(t, at) ELSE PreOrderNext(t, at)
    IN  IF next # None /\ IsInSubtree(t, k, next)
          THEN BeyondSubtree(t, k, next, postOrder) ELSE next
===============================================================================
