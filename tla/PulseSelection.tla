---------------------------- MODULE PulseSelection ----------------------------
(***************************************************************************)
(* What I3RecoPulseSeriesMapMask promises: a mask is a set of pulses, of   *)
(* those in the map it was made from or of those another mask shows.  A    *)
(* pulse is known by its module and its place in the map of all pulses.    *)
(***************************************************************************)
EXTENDS Integers, Sequences, FiniteSets, SequencesExt

CONSTANTS Masks,    \* the masks a program works with
          None      \* no mask

VARIABLES pulses,   \* the map in the frame, [om, pulses] in order
          chosen,   \* the pulses of each mask, or None
          among,    \* those it was made from
          call,     \* the last call: its name, mask, arguments and answer
          parent    \* the mask that is in the frame itself, or None

selectionVars == <<pulses, chosen, among, call, parent>>

Everything == UNION {{i} \X (1 .. Len(pulses[i].pulses)) : i \in DOMAIN pulses}

\* The map that holds some of the pulses, without modules that have none.
MapOf(some) ==
    LET oms == SetToSortSeq({x[1] : x \in some}, <)
        at(i) == SetToSortSeq({x[2] : x \in {y \in some : y[1] = i}}, <)
    IN  [n \in DOMAIN oms |->
           [om |-> pulses[oms[n]].om,
            pulses |-> [k \in DOMAIN at(oms[n]) |-> pulses[oms[n]].pulses[at(oms[n])[k]]]]]

OfModule(some, om) == {x \in some : pulses[x[1]].om = om}

\* The pulse a program calls the n-th of a module, of those there are.
Nth(some, om, n) ==
    {x \in OfModule(some, om) : Cardinality({y \in OfModule(some, om) : y[2] < x[2]}) = n}

FirstWith(some, om, value) ==
    LET equal == {x \in OfModule(some, om) : pulses[x[1]].pulses[x[2]] = value}
    IN  {x \in equal : \A y \in equal : x[2] <= y[2]}

SelectionInit ==
    /\ chosen = [a \in Masks |-> None]
    /\ among = [a \in Masks |-> None]
    /\ call = [op |-> "none"]
    /\ parent = None

Becomes(a, some, from) ==
    /\ chosen' = [chosen EXCEPT ![a] = some]
    /\ among' = [among EXCEPT ![a] = from]
    /\ UNCHANGED parent

Made(c) ==
    LET from == IF c.over = "mask" THEN chosen[parent] ELSE Everything
    IN  \/ c.of = "all" /\ Becomes(c.mask, from, from)
        \/ /\ c.of = "subset"
           /\ \E some \in SUBSET from :
                /\ MapOf(some) = SelectSeq(c.subset, LAMBDA e : e.pulses # <<>>)
                /\ Becomes(c.mask, some, from)
        \/ c.of = "predicate" /\ Becomes(c.mask, UNION {Nth(from, h[1], h[2]) : h \in c.holds}, from)

\* Set and unset; a mask that was loaded cannot be modified.
Changed(c, a) ==
    LET which == CASE c.what = "module" -> OfModule(among[a], c.om)
                   [] c.what = "index" -> Nth(among[a], c.om, c.index)
                   [] c.what = "value" -> FirstWith(among[a], c.om, c.value)
    IN  Becomes(a, IF c.fixed THEN chosen[a]
                   ELSE IF c.on THEN chosen[a] \cup which ELSE chosen[a] \ which, among[a])

CombinedWith(c, a, b) ==
    Becomes(a, CASE c.operator = "and" -> chosen[a] \cap chosen[b]
                 [] c.operator = "or" -> chosen[a] \cup chosen[b]
                 [] c.operator = "xor" -> (chosen[a] \cup chosen[b]) \ (chosen[a] \cap chosen[b])
                 [] c.operator = "remove" -> chosen[a] \ chosen[b],
            among[a])

SelectionStep(c) ==
    \/ c.op = "make" /\ Made(c)
    \/ c.op = "set" /\ Changed(c, c.mask)
    \/ c.op = "clear" /\ Becomes(c.mask, {}, among[c.mask])
    \/ c.op = "combine" /\ CombinedWith(c, c.mask, c.other)
    \/ c.op = "copy" /\ Becomes(c.mask, chosen[c.other], among[c.other])
    \* What it shows is exactly the pulses chosen.
    \/ c.op = "apply" /\ c.answer = MapOf(chosen[c.mask]) /\ UNCHANGED <<chosen, among, parent>>
    \* The same pulses, of all there are.
    \/ c.op = "repoint" /\ Becomes(c.mask, chosen[c.mask], Everything)
    \/ c.op = "reload" /\ UNCHANGED <<chosen, among, parent>>
    \/ c.op = "put" /\ parent' = c.mask /\ UNCHANGED <<chosen, among>>

SelectionNext == UNCHANGED pulses /\ SelectionStep(call')

Spec == SelectionInit /\ [][SelectionNext]_selectionVars
==============================================================================
