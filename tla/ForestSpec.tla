------------------------------ MODULE ForestSpec ------------------------------
(***************************************************************************)
(* What TreeBase::Tree promises (dataclasses/physics/I3MCTree.h), without  *)
(* pointers: a tree is an ordered forest of distinct particles.  It is     *)
(* written as the sequence of its nodes, parents before children and left  *)
(* before right, each with its depth; a subtree is then a stretch of the   *)
(* sequence, and every operation cuts, shifts or splices stretches.        *)
(***************************************************************************)
EXTENDS Integers, Sequences, SequencesExt, Eager

CONSTANTS Trees,   \* the trees a program works with
          Keys     \* the identifiers of particles

VARIABLES forest,  \* forest[a]: the nodes of tree a
          call     \* the call last made

KeysOf(f) == {f[i].key : i \in DOMAIN f}
Place(f, k) == CHOOSE i \in DOMAIN f : f[i].key = k

\* The last node of the subtree of the ith node.
End(f, i) ==
    CHOOSE j \in i .. Len(f) :
      /\ \A m \in i + 1 .. j : f[m].depth > f[i].depth
      /\ j < Len(f) => f[j + 1].depth <= f[i].depth

Subtree(f, k) == SubSeq(f, Place(f, k), End(f, Place(f, k)))
Descendants(f, k) == Tail(Subtree(f, k))

\* A stretch moved to another depth, taken out, put in before the ith node.
AtDepth(nodes, d) ==
    [i \in DOMAIN nodes |-> [nodes[i] EXCEPT !.depth = @ - nodes[1].depth + d]]
Cut(f, i, j) == SubSeq(f, 1, i - 1) \o SubSeq(f, j + 1, Len(f))
Splice(f, i, nodes) == SubSeq(f, 1, i - 1) \o nodes \o SubSeq(f, i, Len(f))

\* A stretch as children, as left or as right neighbours of the ith node.
Under(f, i, nodes) == Splice(f, End(f, i) + 1, AtDepth(nodes, f[i].depth + 1))
LeftOf(f, i, nodes) == Splice(f, i, AtDepth(nodes, f[i].depth))
RightOf(f, i, nodes) == Splice(f, End(f, i) + 1, AtDepth(nodes, f[i].depth))

Childless(f, i) == Cut(f, i + 1, End(f, i))
Single(k) == <<[key |-> k, depth |-> 0]>>

Flattened(f, i) ==
    [m \in DOMAIN f |-> IF m \in i + 1 .. End(f, i) THEN [f[m] EXCEPT !.depth = @ - 1] ELSE f[m]]

\* The children of one node after those of another.
Moved(f, node, from) ==
    LET children == Descendants(f, from)
        rest == Childless(f, Place(f, from))
    IN  IF children = <<>> THEN f ELSE Under(rest, Place(rest, node), children)

\* With the trees of another forest that share nothing with this one.
Merged(f, other) ==
    FoldValues(LAMBDA sofar, head :
               LET nodes == Subtree(other, head.key)
               IN  IF KeysOf(nodes) \cap KeysOf(sofar) = {} THEN sofar \o nodes ELSE sofar,
             f, SelectSeq(other, LAMBDA n : n.depth = 0))

-----------------------------------------------------------------------------
\* A forest f becomes g in a call: with new nodes, or a subtree of another
\* forest, in the place the call names, ...
Inserts(c, f, g, nodes) ==
    \/ c.where = "front" /\ g = AtDepth(nodes, 0) \o f
    \/ c.where = "back" /\ g = f \o AtDepth(nodes, 0)
    \/ c.where = "child" /\ g = Under(f, Place(f, c.at), nodes)
    \/ c.where = "before" /\ g = LeftOf(f, Place(f, c.at), nodes)
    \/ c.where = "after" /\ g = RightOf(f, Place(f, c.at), nodes)
    \/ c.where = "instead" /\ \E i \in {Place(f, c.at)} :
         g = Splice(Cut(f, i, End(f, i)), i, AtDepth(nodes, f[i].depth))

\* ... or with fewer nodes, or with the same nodes in other places.
Alters(c, f, g) ==
    \/ c.op = "erase" /\ g = Cut(f, Place(f, c.at), End(f, Place(f, c.at)))
    \/ c.op = "erase_children" /\ g = Childless(f, Place(f, c.at))
    \/ c.op = "clear" /\ g = <<>>
    \/ c.op = "replace" /\ g = [f EXCEPT ![Place(f, c.at)].key = c.node]
    \/ c.op = "flatten" /\ g = Flattened(f, Place(f, c.at))
    \/ c.op = "reparent" /\ g = Moved(f, c.at, c.from)

Alone(a, old, new) == \A b \in Trees \ {a} : new[b] = old[b]

SpecInit == /\ forest = [a \in Trees |-> <<>>]
            /\ call = [op |-> "none"]

SpecStep(c, old, new) ==
    \/ c.op = "swap" /\ new = [old EXCEPT ![c.tree] = old[c.other], ![c.other] = old[c.tree]]
    \/ /\ c.op # "swap"
       /\ Alone(c.tree, old, new)
       /\ \/ c.op = "insert" /\ Inserts(c, old[c.tree], new[c.tree], Single(c.node))
          \/ c.op = "append_children"
             /\ new[c.tree] = Under(old[c.tree], Place(old[c.tree], c.at),
                                    Single(c.nodes[1]) \o Single(c.nodes[2]))
          \/ c.op = "insert_subtree"
             /\ Inserts(c, old[c.tree], new[c.tree], Subtree(old[c.other], c.node))
          \/ Alters(c, old[c.tree], new[c.tree])
          \/ c.op = "assign" /\ new[c.tree] = old[c.other]
          \/ c.op = "merge" /\ new[c.tree] = Merged(old[c.tree], old[c.other])

SpecNext == \E old \in {forest}, new \in {forest'} : SpecStep(call', old, new)

Spec == SpecInit /\ [][SpecNext]_<<forest, call>>
===============================================================================
