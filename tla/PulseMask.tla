------------------------------ MODULE PulseMask ------------------------------
(***************************************************************************)
(* dataclasses' I3RecoPulseSeriesMapMask as a value: a selection of the    *)
(* pulses of a map, kept as one bit for each optical module of the map and, *)
(* for the modules whose bit is set only, a list of bitmasks with one bit   *)
(* for each pulse.  Bit and list entry are matched by counting.            *)
(*                                                                         *)
(* A map is the sequence of its entries in the order of the modules.  A     *)
(* bitmask is kept in words; those bits of the last one that stand for     *)
(* nothing are its padding.                                                *)
(***************************************************************************)
EXTENDS Integers, Sequences, FiniteSets, SequencesExt

CONSTANTS Width,    \* bits of a mask_t
          None      \* a null pointer

ASSUME WidthAssumption == Width \in Nat \ {0}

-----------------------------------------------------------------------------
(* bitmask.                                                                 *)
Length(b) == Width * b.size - b.padding

\* Mutant of SetAll: the padding of the last word is set too.
SetAllUnshifted(b) == [b EXCEPT !.bits = 0 .. Width * b.size - 1]

SetAll(b) ==
    LET before == Width * (b.size - 1)    \* full words, the last one shifted
    IN  [b EXCEPT !.bits = (0 .. before - 1) \cup (before .. before + Width - b.padding - 1)]

UnsetAll(b) == [b EXCEPT !.bits = {}]

Bitmask(length, set) ==
    LET words == IF length = 0 THEN 1 ELSE (length - 1) \div Width + 1
        b == [size |-> words, padding |-> words * Width - length, bits |-> {}]
    IN  IF set THEN SetAll(b) ELSE b

NoBitmask == [size |-> 0, padding |-> 0, bits |-> {}]

AnyBit(b) == b.bits # {}
AllBits(b) == b.bits = SetAll(b).bits
SetBit(b, i, on) == [b EXCEPT !.bits = IF on THEN @ \cup {i} ELSE @ \ {i}]

-----------------------------------------------------------------------------
\* How many numbers of a set come before one, and the set in ascending order.
Rank(bits, i) == Cardinality({j \in bits : j < i})
Sorted(numbers) ==
    [n \in 1 .. Cardinality(numbers) |-> CHOOSE i \in numbers : Rank(numbers, i) = n - 1]

Indices(map) == 0 .. Len(map) - 1
Series(map, i) == map[i + 1].pulses

\* A mask: of which modules there are bitmasks, and these.  source_ is lost
\* when the mask is saved; masked_ is what Apply returned.
Mask(key, source, omkeys, elements) ==
    [key |-> key, omkeys |-> omkeys, elements |-> elements,
     source |-> source, masked |-> None]

Uncached(m) == [m EXCEPT !.masked = None]

\* The place of a module's bitmask in the list: the set bits before its own.
Ordinal(m, i) == Rank(m.omkeys.bits, i) + 1
Element(m, i) == m.elements[Ordinal(m, i)]
HasElement(m, i) == i \in m.omkeys.bits

\* The mask with these bitmasks, of the modules of their indices.
With(m, elements) ==
    [m EXCEPT !.omkeys.bits = DOMAIN elements,
              !.elements = [n \in 1 .. Cardinality(DOMAIN elements) |->
                              elements[Sorted(DOMAIN elements)[n]]]]

\* The three constructors.
AllOf(key, map) ==
    LET some == {i \in Indices(map) : Series(map, i) # <<>>}
    IN  IF map = <<>> THEN Mask(key, map, NoBitmask, <<>>)
        ELSE With(Mask(key, map, Bitmask(Len(map), TRUE), <<>>),
                  [i \in some |-> Bitmask(Len(Series(map, i)), TRUE)])

\* FillSubsetMask: each pulse of the subset is the first one equal to it after
\* the one before.
Matched(superset, subset) ==
    FoldLeftDomain(
      LAMBDA m, n : IF m.next <= Len(subset) /\ subset[m.next] = superset[n]
                      THEN [next |-> m.next + 1, bits |-> m.bits \cup {n - 1}] ELSE m,
      [next |-> 1, bits |-> {}], superset).bits

OfSubset(key, map, subset) ==
    LET entries(i) == SelectSeq(subset, LAMBDA e : e.om = map[i + 1].om)
        mask(i) == LET pulses == entries(i)[1].pulses
                   IN  [Bitmask(Len(Series(map, i)), pulses # <<>>) EXCEPT
                          !.bits = @ \cap Matched(Series(map, i), pulses)]
    IN  With(Mask(key, map, Bitmask(Len(map), TRUE), <<>>),
             [i \in {j \in Indices(map) : entries(j) # <<>>} |-> mask(i)])

\* The predicate as the set of the modules and pulse indices it is true of.
OfPredicate(key, map, holds) ==
    LET of(i) == {p \in Indices(Series(map, i)) : <<map[i + 1].om, p>> \in holds}
    IN  With(Mask(key, map, Bitmask(Len(map), FALSE), <<>>),
             [i \in {j \in Indices(map) : of(j) # {}} |->
                [Bitmask(Len(Series(map, i)), FALSE) EXCEPT !.bits = of(i)]])

-----------------------------------------------------------------------------
(* Set and SetNone.  A mask without its source is left as it is.            *)
Insert(m, i, b) ==
    [m EXCEPT !.elements = InsertAt(@, Ordinal(m, i), b), !.omkeys = SetBit(@, i, TRUE)]

\* Mutant of Ensured: the new bitmask goes to the end of the list.
EnsuredLast(m, i) ==
    IF HasElement(m, i) THEN m
    ELSE [m EXCEPT !.elements = Append(@, Bitmask(Len(Series(m.source, i)), FALSE)),
                   !.omkeys = SetBit(@, i, TRUE)]

Ensured(m, i) ==
    IF HasElement(m, i) THEN m ELSE Insert(m, i, Bitmask(Len(Series(m.source, i)), FALSE))

\* The pulses at some indices of a module.
SetPulses(m, i, pulses, on) ==
    IF m.source = None \/ ~(HasElement(m, i) \/ on) THEN Uncached(m)
    ELSE LET ensured == Ensured(Uncached(m), i)
         IN  [ensured EXCEPT !.elements[Ordinal(ensured, i)].bits =
                IF on THEN @ \cup pulses ELSE @ \ pulses]

SetIndex(m, i, p, on) == SetPulses(m, i, {p}, on)

\* The first pulse equal to the given one, if there is one.
FirstEqual(series, pulse) ==
    {p \in Indices(series) : SelectInSeq(series, LAMBDA x : x = pulse) = p + 1}

SetValue(m, i, pulse, on) ==
    SetPulses(m, i, IF m.source = None THEN {} ELSE FirstEqual(Series(m.source, i), pulse), on)

\* All pulses of a module.
SetModule(m, i, on) ==
    IF m.source = None THEN Uncached(m)
    ELSE LET length == Len(Series(m.source, i))
             place == Ordinal(m, i)
         IN  Uncached(
               IF ~HasElement(m, i)
                 THEN IF on /\ length > 0 THEN Insert(m, i, Bitmask(length, TRUE)) ELSE m
               ELSE IF on /\ length > 0
                 THEN [m EXCEPT !.elements[place] = SetAll(@)]
               ELSE [m EXCEPT !.omkeys = SetBit(@, i, FALSE),
                              !.elements = IF on THEN @ ELSE RemoveAt(@, place)])

SetNone(m) == Uncached([m EXCEPT !.omkeys = UnsetAll(@), !.elements = <<>>])

-----------------------------------------------------------------------------
(* ApplyBinaryOperator: elements without a bit are left out.                *)
Bits(m, i) == IF HasElement(m, i) THEN Element(m, i).bits ELSE {}

BinaryOperator(op, l, r) ==
    CASE op = "and" -> l \cap r
      [] op = "or" -> l \cup r
      [] op = "xor" -> (l \ r) \cup (r \ l)
      [] op = "remove" -> l \ r

Combined(op, l, r) ==
    LET bits(i) == BinaryOperator(op, Bits(l, i), Bits(r, i))
        either(i) == IF HasElement(l, i) THEN Element(l, i) ELSE Element(r, i)
    IN  With(Uncached(l), [i \in {j \in 0 .. Length(l.omkeys) - 1 : bits(j) # {}} |->
                             [either(i) EXCEPT !.bits = bits(i)]])

\* operator==
SameMask(l, r) ==
    l.key = r.key /\ l.omkeys = r.omkeys /\ l.elements = r.elements

AddBits(n, b) == n + Cardinality(b.bits)
Summing == INSTANCE SeqFold WITH Op <- AddBits
GetSum(m) == Summing!Fold(0, m.elements)
GetAnySet(m) == AnyBit(m.omkeys)
GetAllSet(m) == AllBits(m.omkeys) /\ \A n \in DOMAIN m.elements : AllBits(m.elements[n])

-----------------------------------------------------------------------------
(* Apply, on a map that the frame has under the mask's key.                 *)
Fits(m, map) ==
    /\ Len(map) = Length(m.omkeys)
    /\ \A i \in m.omkeys.bits : AnyBit(Element(m, i)) => Length(Element(m, i)) = Len(Series(map, i))

Masked(m, map) ==
    LET shown == Sorted({i \in m.omkeys.bits : AnyBit(Element(m, i))})
        pulses(i) == LET order == Sorted(Element(m, i).bits)
                     IN  [n \in DOMAIN order |-> Series(map, i)[order[n] + 1]]
    IN  [n \in DOMAIN shown |-> [om |-> map[shown[n] + 1].om, pulses |-> pulses(shown[n])]]

\* CollapseLevel: a mask of what another mask shows, as one of what that one
\* was made from.  The n-th bit here is the n-th that is set there.

\* Mutant of Collapsed: bits are taken for those of the same number.
CollapsedAligned(m, parent) ==
    LET shown == {i \in parent.omkeys.bits : AnyBit(Element(parent, i))}
        bits(i) == Element(parent, i).bits \cap Element(m, Rank(shown, i)).bits
    IN  With(Uncached(parent),
             [i \in {j \in shown : HasElement(m, Rank(shown, j))} |->
                [Element(parent, i) EXCEPT !.bits = bits(i)]])

Collapsed(m, parent) ==
    LET shown == {i \in parent.omkeys.bits : AnyBit(Element(parent, i))}
        bits(i) == {p \in Element(parent, i).bits :
                      Rank(Element(parent, i).bits, p) \in Element(m, Rank(shown, i)).bits}
    IN  With(Uncached(parent),
             [i \in {j \in shown : HasElement(m, Rank(shown, j))} |->
                [Element(parent, i) EXCEPT !.bits = bits(i)]])

\* save leaves out elements without a bit, load knows no source.
Reloaded(m) ==
    [With(Uncached(m), [i \in {j \in m.omkeys.bits : AnyBit(Element(m, j))} |-> Element(m, i)])
       EXCEPT !.source = None]
==============================================================================
