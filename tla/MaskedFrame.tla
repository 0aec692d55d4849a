----------------------------- MODULE MaskedFrame -----------------------------
(***************************************************************************)
(* Programs that work with pulse masks: a frame holds a map of pulses and, *)
(* once it was put there, a mask of them; masks are made of either, changed *)
(* bit by bit, combined, applied, repointed, saved and loaded.  Calls whose *)
(* assertions fail end the program and are not steps.                      *)
(***************************************************************************)
EXTENDS PulseMask, TLC

CONSTANTS Masks,      \* the masks a program works with
          Sources,    \* maps the frame may hold
          SetEmpty    \* may all pulses of a module be set if it has none?

ASSUME SourceAssumption ==
    \A map \in Sources :
      /\ map \in Seq(ToSet(map))
      /\ \A entry \in ToSet(map) : entry.pulses \in Seq(ToSet(entry.pulses))

VARIABLES pulses,     \* the map in the frame
          mask,       \* the masks, or None
          parent,     \* which of them is in the frame and constant, or None
          call        \* the call last made, with its answer

vars == <<pulses, mask, parent, call>>

Init == /\ pulses \in Sources
        /\ mask = [a \in Masks |-> None]
        /\ parent = None
        /\ call = [op |-> "none"]

-----------------------------------------------------------------------------
\* What Apply returns, which it remembers; nothing for a map it does not fit.
Applied(m, map) ==
    IF m.masked # None THEN m.masked
    ELSE IF Fits(m, map) THEN Masked(m, map) ELSE None

\* What the frame's Get of a map finds.
MapAt(key) == IF key = "mask" THEN Applied(mask[parent], pulses) ELSE pulses
Keys == IF parent = None THEN {"pulses"} ELSE {"pulses", "mask"}

\* The frame's mask remembers what it was asked to show.
Asked(masks, key) ==
    IF key = "mask" THEN [masks EXCEPT ![parent].masked = MapAt("mask")] ELSE masks

Becomes(a, m, c) ==
    /\ a # parent
    /\ mask' = [mask EXCEPT ![a] = m]
    /\ call' = c @@ [mask |-> a]
    /\ UNCHANGED <<pulses, parent>>

\* A map with some of the modules, and some of the pulses of these.
Submap(map, modules, some) ==
    LET order == Sorted(modules)
        kept(n) == Sorted({p \in DOMAIN map[n].pulses : <<n, p>> \in some})
    IN  [k \in DOMAIN order |->
           [om |-> map[order[k]].om,
            pulses |-> [l \in DOMAIN kept(order[k]) |-> map[order[k]].pulses[kept(order[k])[l]]]]]

Make(a) == \E key \in Keys : \E map \in {MapAt(key)} :
    LET made(m, c) == /\ mask[a] = None /\ a # parent /\ map # None
                      /\ mask' = Asked([mask EXCEPT ![a] = m], key)
                      /\ call' = c @@ [op |-> "make", mask |-> a, over |-> key]
                      /\ UNCHANGED <<pulses, parent>>
        pairs == UNION {{n} \X DOMAIN map[n].pulses : n \in DOMAIN map}
    IN  \/ made(AllOf(key, map), [of |-> "all"])
        \/ \E some \in SUBSET pairs :
             \/ \E modules \in SUBSET DOMAIN map : \E subset \in {Submap(map, modules, some)} :
                  made(OfSubset(key, map, subset), [of |-> "subset", subset |-> subset])
             \/ \E holds \in {{<<map[x[1]].om, x[2] - 1>> : x \in some}} :
                  made(OfPredicate(key, map, holds), [of |-> "predicate", holds |-> holds])

\* The map a mask was made from, even one that has forgotten it.
SourceOf(m) == MapAt(m.key)

SetOne(a) ==
    /\ mask[a] # None
    /\ \E on \in BOOLEAN, i \in Indices(SourceOf(mask[a])) : \E map \in {SourceOf(mask[a])} :
         LET changes(m, c) ==
               Becomes(a, m, c @@ [op |-> "set", on |-> on, om |-> map[i + 1].om,
                                   fixed |-> mask[a].source = None])
         IN  \/ /\ Series(map, i) # <<>> \/ ~on \/ SetEmpty
                /\ changes(SetModule(mask[a], i, on), [what |-> "module"])
             \/ \E p \in Indices(Series(map, i)) :
                  changes(SetIndex(mask[a], i, p, on), [what |-> "index", index |-> p])
             \/ \E value \in UNION {ToSet(e.pulses) : e \in ToSet(pulses)} :
                  changes(SetValue(mask[a], i, value, on), [what |-> "value", value |-> value])

Clear(a) == mask[a] # None /\ Becomes(a, SetNone(mask[a]), [op |-> "clear"])

\* Masks of the same map only.
Combine(a, b) ==
    /\ mask[a] # None /\ mask[b] # None
    /\ mask[a].key = mask[b].key
    /\ \E op \in {"and", "or", "xor", "remove"} :
         Becomes(a, Combined(op, mask[a], mask[b]), [op |-> "combine", operator |-> op, other |-> b])

Copy(a, b) == mask[b] # None /\ Becomes(a, mask[b], [op |-> "copy", other |-> b])

Apply(a) ==
    /\ mask[a] # None
    /\ \E map \in {SourceOf(mask[a])} : \E shown \in {Applied(mask[a], map)} :
         /\ mask' = Asked([mask EXCEPT ![a].masked = shown], mask[a].key)
         /\ call' = [op |-> "apply", mask |-> a, answer |-> shown]
    /\ UNCHANGED <<pulses, parent>>

Repoint(a) ==
    /\ mask[a] # None
    /\ Becomes(a, IF mask[a].key = "pulses" THEN mask[a] ELSE Collapsed(mask[a], mask[parent]),
               [op |-> "repoint"])

\* Saved with its frame and loaded, the one in the frame too.
Reload(a) ==
    /\ mask[a] # None
    /\ mask' = [mask EXCEPT ![a] = Reloaded(@)]
    /\ call' = [op |-> "reload", mask |-> a]
    /\ UNCHANGED <<pulses, parent>>

\* Whoever puts a mask into a frame lets go of it.
Put(a) ==
    /\ parent = None
    /\ mask[a] # None
    /\ parent' = a
    /\ call' = [op |-> "put", mask |-> a]
    /\ UNCHANGED <<pulses, mask>>

Next == \E a \in Masks :
    \/ Make(a) \/ SetOne(a) \/ Clear(a) \/ Apply(a) \/ Repoint(a) \/ Reload(a) \/ Put(a)
    \/ \E b \in Masks : Combine(a, b) \/ Copy(a, b)

Spec == Init /\ [][Next]_vars

-----------------------------------------------------------------------------
\* The pulses a mask stands for, by their place in the map of all pulses.
BaseChosen(m) ==
    UNION {{<<i + 1, p + 1>> : p \in Element(m, i).bits} : i \in m.omkeys.bits}

\* Those of a mask of a mask: the n-th bit is the n-th that is set there.
ChosenAmong(m, some) ==
    LET oms == {x[1] : x \in some}
        of(x) == Rank(oms, x[1])
    IN  {x \in some : /\ HasElement(m, of(x))
                      /\ Rank({y[2] : y \in {z \in some : z[1] = x[1]}}, x[2]) \in Element(m, of(x)).bits}

AllPulses == UNION {{n} \X DOMAIN pulses[n].pulses : n \in DOMAIN pulses}
AmongOf(m) == IF m.key = "mask" THEN BaseChosen(mask[parent]) ELSE AllPulses
ChosenOf(m) == IF m.key = "mask" THEN ChosenAmong(m, AmongOf(m)) ELSE BaseChosen(m)

Selection == INSTANCE PulseSelection WITH
    chosen <- [a \in Masks |-> IF mask[a] = None THEN None ELSE ChosenOf(mask[a])],
    among <- [a \in Masks |-> IF mask[a] = None THEN None ELSE AmongOf(mask[a])]

\* However it came about, a mask is the set of pulses its calls say, and it
\* shows these, through the one it was made from and after it was loaded too.
ActsAsSelection == Selection!Spec

\* The list has one bitmask for each module with a bit, as long as the module's
\* pulses, and no bit where there is no pulse (sum counts all bits of the words).
BitsAligned ==
    \A a \in Masks : mask[a] # None =>
      LET m == mask[a]  map == SourceOf(m)
      IN  /\ Len(m.elements) = Cardinality(m.omkeys.bits)
          /\ Length(m.omkeys) = Len(map) /\ m.omkeys.bits \subseteq Indices(map)
          /\ \A i \in m.omkeys.bits : /\ Length(Element(m, i)) = Len(Series(map, i))
                                      /\ Element(m, i).bits \subseteq Indices(Series(map, i))

\* The sum is exact.  "Any" and "all" err on one side each: a bitmask without
\* a bit makes any true, a module without pulses makes all false (for a mask
\* without modules the code may not be asked for all).  Masks that
\* compare equal are masks of the same pulses.
QueriesTell ==
    \A a \in Masks : mask[a] # None =>
      LET m == mask[a]
      IN  /\ GetSum(m) = Cardinality(ChosenOf(m))
          /\ ChosenOf(m) # {} => GetAnySet(m)
          /\ GetAnySet(m) => ChosenOf(m) # {} \/ \E b \in ToSet(m.elements) : ~AnyBit(b)
          /\ SourceOf(m) # <<>> /\ GetAllSet(m) => ChosenOf(m) = AmongOf(m)
          /\ ChosenOf(m) = AmongOf(m) /\ SourceOf(m) # <<>> /\ (\A n \in DOMAIN SourceOf(m) : SourceOf(m)[n].pulses # <<>>)
               => GetAllSet(m)
          /\ \A b \in Masks : mask[b] # None /\ SameMask(m, mask[b]) => ChosenOf(mask[b]) = ChosenOf(m)
==============================================================================
