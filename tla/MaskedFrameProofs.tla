-------------------------- MODULE MaskedFrameProofs --------------------------
(***************************************************************************)
(* The lists and the bits of masks stay aligned, and their queries tell    *)
(* what is set, for any maps, any masks and any width of words.            *)
(***************************************************************************)
EXTENDS MaskedFrame, FiniteSetTheorems, FunctionTheorems, TLAPS

-----------------------------------------------------------------------------
(* Counting.                                                                *)

Numbers == {numbers \in SUBSET Int : IsFiniteSet(numbers)}

LEMMA NumbersBefore ==
  ASSUME NEW s \in Numbers, NEW i
  PROVE  {j \in s : j < i} \in Numbers /\ Cardinality({j \in s : j < i}) <= Cardinality(s)
<1> DEFINE before == {j \in s : j < i}
<1>1. before \in SUBSET s
  OBVIOUS
<1>2. IsFiniteSet(before) /\ Cardinality(before) <= Cardinality(s)
  BY <1>1, FS_Subset DEF Numbers
<1> QED BY <1>1, <1>2 DEF Numbers

LEMMA RankType ==
  ASSUME NEW s \in Numbers, NEW i
  PROVE  Rank(s, i) \in Nat /\ Rank(s, i) <= Cardinality(s) /\ Cardinality(s) \in Nat
<1> DEFINE before == {j \in s : j < i}
<1>1. IsFiniteSet(before) /\ IsFiniteSet(s) /\ Cardinality(before) <= Cardinality(s)
  BY NumbersBefore DEF Numbers
<1>2. Cardinality(before) \in Nat /\ Cardinality(s) \in Nat
  BY <1>1, FS_CardinalityType
<1> HIDE DEF before
<1>3. Rank(s, i) = Cardinality(before)
  BY DEF Rank, before
<1> QED BY <1>1, <1>2, <1>3

\* One of the numbers is before all greater ones.
LEMMA RankGrows ==
  ASSUME NEW s \in Numbers, NEW i \in s, NEW j \in Int, i < j
  PROVE  Rank(s, i) < Rank(s, j)
<1> DEFINE fewer == {k \in s : k < i}
           more == {k \in s : k < j}
<1>0. s \subseteq Int /\ i \in Int
  BY DEF Numbers
<1>1. fewer \in SUBSET more /\ i \in more /\ i \notin fewer /\ i \in Int
  <2>1. \A k \in s : k < i => k < j
    BY <1>0
  <2>2. ~(i < i)
    BY <1>0
  <2> QED BY <1>0, <2>1, <2>2
<1>2. more \in Numbers /\ Cardinality(more) \in Nat /\ Cardinality(fewer) \in Nat
  BY NumbersBefore, FS_CardinalityType DEF Numbers
<1>3. Cardinality(fewer) <= Cardinality(more)
      /\ (Cardinality(fewer) = Cardinality(more) => more = fewer)
  <2>1. IsFiniteSet(more)
    BY <1>2 DEF Numbers
  <2> HIDE DEF more, fewer
  <2> QED BY <1>1, <2>1, FS_Subset
<1>4. more # fewer
  BY <1>1
<1> HIDE DEF more, fewer
<1>5. Cardinality(fewer) < Cardinality(more)
  BY <1>2, <1>3, <1>4
<1> QED BY <1>5 DEF Rank, more, fewer

LEMMA RankOfMember ==
  ASSUME NEW s \in Numbers, NEW i \in s
  PROVE  Rank(s, i) \in 0 .. Cardinality(s) - 1
<1> DEFINE before == {j \in s : j < i}
<1>1. i \in Int /\ before \in SUBSET s /\ i \in s /\ i \notin before
  BY DEF Numbers
<1>2. Rank(s, i) \in Nat /\ Cardinality(s) \in Nat /\ Rank(s, i) = Cardinality(before)
  <2>1. Rank(s, i) = Cardinality(before)
    BY DEF Rank
  <2> QED BY <2>1, RankType
<1>3. Cardinality(before) <= Cardinality(s) /\ (Cardinality(before) = Cardinality(s) => s = before)
  <2>1. IsFiniteSet(s)
    BY DEF Numbers
  <2> HIDE DEF before
  <2> QED BY <1>1, <2>1, FS_Subset
<1> HIDE DEF before
<1> QED BY <1>1, <1>2, <1>3

\* Ranks tell the numbers apart, and there is one of each rank.
LEMMA RankOnto ==
  ASSUME NEW s \in Numbers
  PROVE  /\ \A i, j \in s : Rank(s, i) = Rank(s, j) => i = j
         /\ \A n \in 0 .. Cardinality(s) - 1 : \E i \in s : Rank(s, i) = n
<1> DEFINE T == 0 .. Cardinality(s) - 1
           f == [i \in s |-> Rank(s, i)]
<1>0. IsFiniteSet(s) /\ Cardinality(s) \in Nat /\ s \subseteq Int
  BY FS_CardinalityType DEF Numbers
<1>1. \A i, j \in s : Rank(s, i) = Rank(s, j) => i = j
  <2> SUFFICES ASSUME NEW i \in s, NEW j \in s, Rank(s, i) = Rank(s, j) PROVE i = j
    OBVIOUS
  <2>1. i \in Int /\ j \in Int /\ Rank(s, i) \in Nat /\ Rank(s, j) \in Nat
    BY <1>0, RankType
  <2>2. ~(i < j) /\ ~(j < i)
    BY <2>1, RankGrows
  <2> QED BY <2>1, <2>2
<1>2. IsFiniteSet(T) /\ Cardinality(T) = Cardinality(s)
  <2>1. IsFiniteSet(T) /\ Cardinality(T) = IF 0 > Cardinality(s) - 1 THEN 0 ELSE (Cardinality(s) - 1) - 0 + 1
    BY <1>0, FS_Interval
  <2> QED BY <1>0, <2>1
<1>3. f \in Injection(s, T)
  <2>1. f \in [s -> T]
    BY RankOfMember
  <2>2. \A i, j \in s : f[i] = f[j] => i = j
    BY <1>1
  <2> QED BY <2>1, <2>2 DEF Injection, IsInjective
<1>4. f \in Surjection(s, T)
  <2> HIDE DEF T, f
  <2> QED BY <1>2, <1>3, FS_Injection
<1>5. \A n \in T : \E i \in s : f[i] = n
  BY <1>4 DEF Surjection
<1> QED BY <1>1, <1>5

\* The n-th of the numbers sorted is the one with n - 1 before it.
LEMMA SortedIs ==
  ASSUME NEW s \in Numbers
  PROVE  /\ Sorted(s) \in Seq(s) /\ Len(Sorted(s)) = Cardinality(s)
         /\ DOMAIN Sorted(s) = 1 .. Cardinality(s)
         /\ \A n \in DOMAIN Sorted(s) : Sorted(s)[n] \in s /\ Rank(s, Sorted(s)[n]) = n - 1
         /\ \A i \in s : Rank(s, i) + 1 \in DOMAIN Sorted(s) /\ Sorted(s)[Rank(s, i) + 1] = i
<1>0. Cardinality(s) \in Nat
  BY FS_CardinalityType DEF Numbers
<1>1. ASSUME NEW n \in 1 .. Cardinality(s)
      PROVE  Sorted(s)[n] \in s /\ Rank(s, Sorted(s)[n]) = n - 1
  <2>1. \E i \in s : Rank(s, i) = n - 1
    BY <1>0, RankOnto
  <2>2. Sorted(s)[n] = CHOOSE i \in s : Rank(s, i) = n - 1
    BY DEF Sorted
  <2> QED BY <2>1, <2>2
<1>2. DOMAIN Sorted(s) = 1 .. Cardinality(s)
  BY DEF Sorted
<1>3. Sorted(s) \in Seq(s) /\ Len(Sorted(s)) = Cardinality(s)
  <2>1. Sorted(s) \in [1 .. Cardinality(s) -> s]
    BY <1>1 DEF Sorted
  <2> QED BY <1>0, <2>1
<1>4. ASSUME NEW i \in s
      PROVE  Rank(s, i) + 1 \in 1 .. Cardinality(s) /\ Sorted(s)[Rank(s, i) + 1] = i
  <2>1. Rank(s, i) \in 0 .. Cardinality(s) - 1
    BY RankOfMember
  <2>2. Rank(s, i) + 1 \in 1 .. Cardinality(s) /\ (Rank(s, i) + 1) - 1 = Rank(s, i)
    BY <1>0, <2>1
  <2>3. Sorted(s)[Rank(s, i) + 1] \in s /\ Rank(s, Sorted(s)[Rank(s, i) + 1]) = Rank(s, i)
    BY <1>1, <2>2
  <2> QED BY <2>2, <2>3, RankOnto
<1> QED BY <1>1, <1>2, <1>3, <1>4

\* One number more is before those greater than it.
LEMMA RankAdd ==
  ASSUME NEW s \in Numbers, NEW i \in Int, i \notin s, NEW j \in Int
  PROVE  /\ s \cup {i} \in Numbers /\ Cardinality(s \cup {i}) = Cardinality(s) + 1
         /\ Rank(s \cup {i}, j) = IF i < j THEN Rank(s, j) + 1 ELSE Rank(s, j)
<1> DEFINE before == {k \in s : k < j}
<1>1. IsFiniteSet(s \cup {i}) /\ Cardinality(s \cup {i}) = Cardinality(s) + 1
  BY FS_AddElement DEF Numbers
<1>2. s \cup {i} \in Numbers
  BY <1>1 DEF Numbers
<1>3. IsFiniteSet(before) /\ Rank(s, j) = Cardinality(before) /\ i \notin before
  BY NumbersBefore DEF Numbers, Rank
<1>4. CASE i < j
  <2>1. {k \in s \cup {i} : k < j} = before \cup {i}
    BY <1>4
  <2>2. Cardinality(before \cup {i}) = Cardinality(before) + 1
    <3> HIDE DEF before
    <3> QED BY <1>3, FS_AddElement
  <2> QED BY <1>1, <1>2, <1>3, <1>4, <2>1, <2>2 DEF Rank
<1>5. CASE ~(i < j)
  <2>1. {k \in s \cup {i} : k < j} = before
    BY <1>5
  <2> QED BY <1>1, <1>2, <1>3, <1>5, <2>1 DEF Rank
<1> QED BY <1>4, <1>5

-----------------------------------------------------------------------------
(* Bitmasks.                                                                *)

Bitmasks == {b \in [size : Nat, padding : Nat, bits : SUBSET Nat] :
               b.size > 0 /\ b.padding <= Width}

\* As long as the pulses of a module, with no bit beyond them.
BitmaskFits(b, series) ==
  b \in Bitmasks /\ Length(b) = Len(series) /\ b.bits \subseteq Indices(series)

LEMMA SetAllIs ==
  ASSUME NEW b \in Bitmasks
  PROVE  /\ Length(b) \in Nat
         /\ SetAll(b) = [size |-> b.size, padding |-> b.padding, bits |-> 0 .. Length(b) - 1]
         /\ SetAll(b) \in Bitmasks /\ Length(SetAll(b)) = Length(b)
<1> DEFINE before == Width * (b.size - 1)
<1>1. Width \in Nat \ {0} /\ b.size \in Nat \ {0} /\ b.padding \in 0 .. Width /\ b.bits \in SUBSET Nat
      /\ b = [size |-> b.size, padding |-> b.padding, bits |-> b.bits]
  BY WidthAssumption DEF Bitmasks
<1>2. before \in Nat /\ Width * b.size = before + Width
  BY <1>1
<1>3. Length(b) = before + Width - b.padding
  <2>1. Length(b) = Width * b.size - b.padding
    BY DEF Length
  <2> HIDE DEF before
  <2> QED BY <1>1, <1>2, <2>1
<1> HIDE DEF before
<1>4. SetAll(b) = [size |-> b.size, padding |-> b.padding,
                   bits |-> (0 .. before - 1) \cup (before .. before + Width - b.padding - 1)]
  <2>1. SetAll(b) = [b EXCEPT !.bits = (0 .. before - 1) \cup (before .. before + Width - b.padding - 1)]
    BY DEF SetAll, before
  <2> QED BY <1>1, <2>1
<1>5. (0 .. before - 1) \cup (before .. before + Width - b.padding - 1) = 0 .. Length(b) - 1
  BY <1>1, <1>2, <1>3
<1>6. Length(b) \in Nat /\ 0 .. Length(b) - 1 \in SUBSET Nat
  BY <1>1, <1>2, <1>3
<1>7. SetAll(b) = [size |-> b.size, padding |-> b.padding, bits |-> 0 .. Length(b) - 1]
  BY <1>4, <1>5
<1>8. /\ SetAll(b).size = b.size /\ SetAll(b).padding = b.padding
      /\ SetAll(b) \in Bitmasks
  BY <1>1, <1>6, <1>7 DEF Bitmasks
<1> QED BY <1>6, <1>7, <1>8 DEF Length

LEMMA BitmaskIs ==
  ASSUME NEW length \in Nat, NEW set \in BOOLEAN
  PROVE  /\ Bitmask(length, set) \in Bitmasks
         /\ Length(Bitmask(length, set)) = length
         /\ Bitmask(length, set).bits = IF set THEN 0 .. length - 1 ELSE {}
<1> DEFINE words == IF length = 0 THEN 1 ELSE (length - 1) \div Width + 1
           b == [size |-> words, padding |-> words * Width - length, bits |-> {}]
<1>1. Width \in Nat \ {0}
  BY WidthAssumption
<1>2. words \in Nat \ {0} /\ words * Width - length \in 0 .. Width /\ Width * words = words * Width
  <2>1. CASE length = 0
    BY <1>1, <2>1
  <2>2. CASE length # 0
    <3> DEFINE q == (length - 1) \div Width
               r == (length - 1) % Width
    <3>1. q \in Nat /\ r \in 0 .. Width - 1 /\ length - 1 = Width * q + r
      BY <1>1, <2>2
    <3>2. words = q + 1
      BY <2>2
    <3> HIDE DEF q, r, words
    <3>3. words * Width = Width * q + Width /\ Width * q \in Nat /\ Width * words = words * Width
      BY <1>1, <3>1, <3>2
    <3> QED BY <1>1, <2>2, <3>1, <3>2, <3>3
  <2> QED BY <2>1, <2>2
<1>3. Bitmask(length, set) = IF set THEN SetAll(b) ELSE b
  BY DEF Bitmask
<1> HIDE DEF words
<1>4. b \in Bitmasks /\ Length(b) = length
  BY <1>1, <1>2 DEF Bitmasks, Length
<1>5. b.bits = {}
  OBVIOUS
<1> HIDE DEF b
<1>6. SetAll(b).bits = 0 .. length - 1 /\ SetAll(b) \in Bitmasks /\ Length(SetAll(b)) = length
  BY <1>4, SetAllIs
<1> QED BY <1>3, <1>4, <1>5, <1>6

-----------------------------------------------------------------------------
(* Masks.                                                                   *)

IsMap(map) ==
  /\ map \in Seq(ToSet(map))
  /\ \A n \in DOMAIN map : map[n].pulses \in Seq(ToSet(map[n].pulses))

Omkeys == {b \in [size : Nat, padding : Nat, bits : SUBSET Nat] : b.size = 0 \/ b.padding <= Width}

\* A mask of a map: bit and list entry match.
Aligned(m, map) ==
  /\ m = [key |-> m.key, omkeys |-> m.omkeys, elements |-> m.elements,
          source |-> m.source, masked |-> m.masked]
  /\ m.omkeys \in Omkeys
  /\ Length(m.omkeys) = Len(map)
  /\ m.omkeys.bits \subseteq Indices(map)
  /\ m.elements \in Seq(Bitmasks)
  /\ Len(m.elements) = Cardinality(m.omkeys.bits)
  /\ \A i \in m.omkeys.bits : BitmaskFits(Element(m, i), Series(map, i))

LEMMA MapIndices ==
  ASSUME NEW map, IsMap(map)
  PROVE  /\ Len(map) \in Nat /\ DOMAIN map = 1 .. Len(map)
         /\ \A bits \in SUBSET Indices(map) : bits \in Numbers /\ bits \in SUBSET Nat
         /\ \A i \in Indices(map) :
              /\ i \in Nat /\ i + 1 \in DOMAIN map
              /\ Len(Series(map, i)) \in Nat
              /\ Indices(Series(map, i)) \in SUBSET Nat
              /\ DOMAIN Series(map, i) = 1 .. Len(Series(map, i))
<1>1. Len(map) \in Nat /\ DOMAIN map = 1 .. Len(map)
  BY DEF IsMap
<1>2. IsFiniteSet(Indices(map)) /\ Indices(map) \subseteq Nat
  BY <1>1, FS_Interval DEF Indices
<1>3. ASSUME NEW bits \in SUBSET Indices(map)
      PROVE  bits \in Numbers /\ bits \in SUBSET Nat
  BY <1>2, FS_Subset DEF Numbers
<1>4. ASSUME NEW i \in Indices(map)
      PROVE  /\ i \in Nat /\ i + 1 \in DOMAIN map
             /\ Len(Series(map, i)) \in Nat
             /\ Indices(Series(map, i)) \in SUBSET Nat
             /\ DOMAIN Series(map, i) = 1 .. Len(Series(map, i))
  <2>1. i \in Nat /\ i + 1 \in DOMAIN map
    BY <1>1 DEF Indices
  <2>2. Series(map, i) \in Seq(ToSet(Series(map, i)))
    BY <2>1 DEF IsMap, Series
  <2> QED BY <2>1, <2>2 DEF Indices
<1> QED BY <1>1, <1>3, <1>4

\* The bitmasks a mask is given are those of the modules they were given for.
LEMMA WithIs ==
  ASSUME NEW map, IsMap(map), NEW m, NEW elements,
         m = [key |-> m.key, omkeys |-> m.omkeys, elements |-> m.elements,
              source |-> m.source, masked |-> m.masked],
         m.omkeys \in Omkeys, Length(m.omkeys) = Len(map),
         DOMAIN elements \subseteq Indices(map),
         \A i \in DOMAIN elements : BitmaskFits(elements[i], Series(map, i))
  PROVE  LET w == With(m, elements)
         IN  /\ Aligned(w, map)
             /\ w.key = m.key /\ w.source = m.source /\ w.masked = m.masked
             /\ w.omkeys.bits = DOMAIN elements
             /\ \A i \in DOMAIN elements : Element(w, i) = elements[i]
<1> DEFINE D == DOMAIN elements
           w == With(m, elements)
           list == [n \in 1 .. Cardinality(D) |-> elements[Sorted(D)[n]]]
           omkeys == [size |-> m.omkeys.size, padding |-> m.omkeys.padding, bits |-> D]
<1>1. D \in Numbers /\ D \in SUBSET Nat /\ Cardinality(D) \in Nat
  BY MapIndices, FS_CardinalityType DEF Numbers
<1>2. w = [key |-> m.key, omkeys |-> omkeys, elements |-> list,
           source |-> m.source, masked |-> m.masked]
  <2>1. w = [m EXCEPT !.omkeys.bits = D, !.elements = list]
    BY DEF With
  <2>2. [m.omkeys EXCEPT !.bits = D] = omkeys
    BY DEF Omkeys
  <2> HIDE DEF list, D, w
  <2> QED BY <2>1, <2>2
<1>3. \A n \in 1 .. Cardinality(D) : Sorted(D)[n] \in D
  BY <1>1, SortedIs
<1>4. \A i \in D : elements[i] \in Bitmasks
  BY DEF BitmaskFits
<1>5. list \in Seq(Bitmasks) /\ Len(list) = Cardinality(D)
  <2>1. list \in [1 .. Cardinality(D) -> Bitmasks]
    BY <1>3, <1>4
  <2> HIDE DEF list
  <2> QED BY <1>1, <2>1
<1>6. \A i \in D : Element(w, i) = elements[i]
  <2> SUFFICES ASSUME NEW i \in D PROVE Element(w, i) = elements[i]
    OBVIOUS
  <2>1. Rank(D, i) + 1 \in 1 .. Cardinality(D) /\ Sorted(D)[Rank(D, i) + 1] = i
    BY <1>1, SortedIs
  <2>2. Element(w, i) = list[Rank(D, i) + 1]
    BY <1>2 DEF Element, Ordinal
  <2> QED BY <2>1, <2>2
<1>7. omkeys \in Omkeys /\ Length(omkeys) = Length(m.omkeys)
  BY <1>1 DEF Omkeys, Length
<1> HIDE DEF w, list, D
<1>8. /\ w.key = m.key /\ w.source = m.source /\ w.masked = m.masked
      /\ w.omkeys = omkeys /\ w.omkeys.bits = D /\ w.elements = list
  BY <1>2
<1>9. Aligned(w, map)
  BY <1>2, <1>5, <1>6, <1>7, <1>8 DEF Aligned, D
<1> QED BY <1>6, <1>8, <1>9 DEF w, D

-----------------------------------------------------------------------------
(* Changes of the list.                                                     *)

LEMMA AlignedIs ==
  ASSUME NEW map, IsMap(map), NEW m, Aligned(m, map)
  PROVE  /\ m.omkeys.bits \in Numbers /\ m.omkeys.bits \in SUBSET Nat
         /\ Len(m.elements) = Cardinality(m.omkeys.bits) /\ Len(m.elements) \in Nat
         /\ DOMAIN m.elements = 1 .. Len(m.elements)
         /\ \A i \in Int : Ordinal(m, i) \in 1 .. Len(m.elements) + 1
         /\ \A i \in m.omkeys.bits : /\ Ordinal(m, i) \in 1 .. Len(m.elements)
                                     /\ Element(m, i) \in Bitmasks
                                     /\ BitmaskFits(Element(m, i), Series(map, i))
<1>1. m.omkeys.bits \in Numbers /\ m.omkeys.bits \in SUBSET Nat
  BY MapIndices DEF Aligned
<1>2. Len(m.elements) = Cardinality(m.omkeys.bits) /\ Len(m.elements) \in Nat
      /\ DOMAIN m.elements = 1 .. Len(m.elements)
  BY DEF Aligned
<1>3. \A i \in Int : Ordinal(m, i) \in 1 .. Len(m.elements) + 1
  BY <1>1, <1>2, RankType DEF Ordinal
<1>4. ASSUME NEW i \in m.omkeys.bits
      PROVE  /\ Ordinal(m, i) \in 1 .. Len(m.elements)
             /\ Element(m, i) \in Bitmasks
             /\ BitmaskFits(Element(m, i), Series(map, i))
  <2>1. Ordinal(m, i) \in 1 .. Len(m.elements)
    BY <1>1, <1>2, RankOfMember DEF Ordinal
  <2>2. BitmaskFits(Element(m, i), Series(map, i))
    BY DEF Aligned
  <2> QED BY <2>1, <2>2 DEF BitmaskFits
<1> QED BY <1>1, <1>2, <1>3, <1>4

\* A bitmask is changed in its place.
LEMMA ChangedFits ==
  ASSUME NEW map, IsMap(map), NEW m, Aligned(m, map),
         NEW i \in m.omkeys.bits, NEW b, BitmaskFits(b, Series(map, i))
  PROVE  Aligned([m EXCEPT !.elements[Ordinal(m, i)] = b], map)
<1> DEFINE place == Ordinal(m, i)
           list == [m.elements EXCEPT ![place] = b]
           g == [m EXCEPT !.elements[place] = b]
<1>1. g = [key |-> m.key, omkeys |-> m.omkeys, elements |-> list,
           source |-> m.source, masked |-> m.masked]
  <2>1. m = [key |-> m.key, omkeys |-> m.omkeys, elements |-> m.elements,
             source |-> m.source, masked |-> m.masked]
    BY DEF Aligned
  <2>2. g = [m EXCEPT !.elements = list]
    BY <2>1
  <2> HIDE DEF list, g
  <2> QED BY <2>1, <2>2
<1>2. b \in Bitmasks /\ place \in 1 .. Len(m.elements) /\ m.elements \in Seq(Bitmasks)
  BY AlignedIs DEF BitmaskFits, Aligned
<1>3. list \in Seq(Bitmasks) /\ Len(list) = Len(m.elements) /\ list[place] = b
      /\ \A n \in 1 .. Len(m.elements) : n # place => list[n] = m.elements[n]
  <2> HIDE DEF place
  <2> QED BY <1>2
<1> HIDE DEF list, g
<1>4. /\ g.key = m.key /\ g.omkeys = m.omkeys /\ g.elements = list
      /\ g.source = m.source /\ g.masked = m.masked
  BY <1>1
<1>5. ASSUME NEW j \in m.omkeys.bits
      PROVE  BitmaskFits(Element(g, j), Series(map, j))
  <2>1. Element(g, j) = list[Rank(m.omkeys.bits, j) + 1]
    BY <1>4 DEF Element, Ordinal
  <2>2. CASE j = i
    BY <1>3, <2>1, <2>2 DEF Ordinal
  <2>3. CASE j # i
    <3>1. m.omkeys.bits \in Numbers
      BY AlignedIs
    <3>2. Rank(m.omkeys.bits, j) # Rank(m.omkeys.bits, i)
      BY <2>3, <3>1, RankOnto
    <3>3. Rank(m.omkeys.bits, j) \in Nat /\ Rank(m.omkeys.bits, i) \in Nat
      BY <3>1, RankType DEF Numbers
    <3>4. Ordinal(m, j) # place /\ Ordinal(m, j) \in 1 .. Len(m.elements)
      <4>1. Ordinal(m, j) = Rank(m.omkeys.bits, j) + 1 /\ place = Rank(m.omkeys.bits, i) + 1
        BY DEF Ordinal
      <4>2. Ordinal(m, j) \in 1 .. Len(m.elements)
        BY AlignedIs
      <4> HIDE DEF place
      <4> QED BY <3>2, <3>3, <4>1, <4>2
    <3>5. Element(g, j) = Element(m, j)
      BY <1>3, <2>1, <3>4 DEF Element, Ordinal
    <3> QED BY <3>5, AlignedIs
  <2> QED BY <2>2, <2>3
<1>6. /\ g.omkeys \in Omkeys /\ Length(g.omkeys) = Len(map) /\ g.omkeys.bits \subseteq Indices(map)
      /\ g.elements \in Seq(Bitmasks) /\ Len(g.elements) = Cardinality(g.omkeys.bits)
  BY <1>3, <1>4 DEF Aligned
<1>7. Aligned(g, map)
  BY <1>1, <1>4, <1>5, <1>6 DEF Aligned
<1> QED BY <1>7 DEF g

\* A new one comes before those of the modules behind its own.
LEMMA InsertFits ==
  ASSUME NEW map, IsMap(map), NEW m, Aligned(m, map),
         NEW i \in Indices(map), i \notin m.omkeys.bits, NEW b, BitmaskFits(b, Series(map, i))
  PROVE  LET g == Insert(m, i, b)
         IN  /\ Aligned(g, map)
             /\ g.key = m.key /\ g.source = m.source /\ g.masked = m.masked
             /\ g.omkeys.bits = m.omkeys.bits \cup {i}
             /\ Element(g, i) = b
<1> DEFINE bits == m.omkeys.bits
           place == Ordinal(m, i)
           list == InsertAt(m.elements, place, b)
           omkeys == [size |-> m.omkeys.size, padding |-> m.omkeys.padding, bits |-> bits \cup {i}]
           g == Insert(m, i, b)
           n == Len(m.elements)
           more == bits \cup {i}
<1>1. m = [key |-> m.key, omkeys |-> m.omkeys, elements |-> m.elements,
           source |-> m.source, masked |-> m.masked]
      /\ m.omkeys \in Omkeys /\ m.elements \in Seq(Bitmasks)
  BY DEF Aligned
<1>2. SetBit(m.omkeys, i, TRUE) = omkeys
  <2>1. SetBit(m.omkeys, i, TRUE) = [m.omkeys EXCEPT !.bits = bits \cup {i}]
    BY DEF SetBit
  <2>2. m.omkeys = [size |-> m.omkeys.size, padding |-> m.omkeys.padding, bits |-> bits]
    BY <1>1 DEF Omkeys
  <2> QED BY <2>1, <2>2
<1>3. g = [key |-> m.key, omkeys |-> omkeys, elements |-> list,
           source |-> m.source, masked |-> m.masked]
  <2>1. g = [m EXCEPT !.elements = list, !.omkeys = omkeys]
    BY <1>1, <1>2 DEF Insert
  <2> HIDE DEF list, omkeys, g
  <2> QED BY <1>1, <2>1
<1>4. /\ bits \in Numbers /\ bits \in SUBSET Nat /\ n \in Nat /\ n = Cardinality(bits)
      /\ place \in 1 .. n + 1 /\ place = Rank(bits, i) + 1 /\ i \in Nat
      /\ b \in Bitmasks
  <2>1. i \in Nat /\ b \in Bitmasks
    BY MapIndices DEF BitmaskFits
  <2>2. place = Rank(bits, i) + 1 /\ place \in 1 .. n + 1
    BY <2>1, AlignedIs DEF Ordinal
  <2>3. bits \in Numbers /\ bits \in SUBSET Nat /\ n \in Nat /\ n = Cardinality(bits)
    BY AlignedIs
  <2> QED BY <2>1, <2>2, <2>3
<1>5. /\ list \in Seq(Bitmasks) /\ Len(list) = n + 1 /\ list[place] = b
      /\ \A k \in 1 .. n : list[IF k < place THEN k ELSE k + 1] = m.elements[k]
  <2> DEFINE front == SubSeq(m.elements, 1, place - 1)
             back == SubSeq(m.elements, place, n)
  <2>1. /\ front \in Seq(Bitmasks) /\ Len(front) = place - 1
        /\ \A k \in 1 .. place - 1 : front[k] = m.elements[k]
    BY <1>1, <1>4
  <2>2. /\ back \in Seq(Bitmasks) /\ Len(back) = n + 1 - place
        /\ \A k \in 1 .. n + 1 - place : back[k] = m.elements[place - 1 + k]
    BY <1>1, <1>4
  <2>3. list = front \o <<b>> \o back
    BY DEF InsertAt
  <2> HIDE DEF front, back, list, place, n
  <2>4. list \in Seq(Bitmasks) /\ Len(list) = n + 1
    BY <1>4, <2>1, <2>2, <2>3
  <2>5. \A k \in 1 .. n + 1 : list[k] = IF k < place THEN front[k] ELSE IF k = place THEN b
                                         ELSE back[k - place]
    <3>1. ASSUME NEW k \in 1 .. n + 1
          PROVE  list[k] = IF k < place THEN front[k] ELSE IF k = place THEN b
                           ELSE back[k - place]
      <4>1. front \o <<b>> \in Seq(Bitmasks) /\ Len(front \o <<b>>) = place
        BY <1>4, <2>1
      <4>2. \A l \in 1 .. place : (front \o <<b>>)[l] = IF l < place THEN front[l] ELSE b
        BY <1>4, <2>1
      <4> DEFINE most == front \o <<b>>
      <4> HIDE DEF most
      <4>3. list[k] = IF k <= Len(most) THEN most[k] ELSE back[k - Len(most)]
        BY <1>4, <2>2, <2>3, <4>1 DEF most
      <4> QED BY <1>4, <4>1, <4>2, <4>3 DEF most
    <3> QED BY <3>1
  <2>6. ASSUME NEW k \in 1 .. n
        PROVE  list[IF k < place THEN k ELSE k + 1] = m.elements[k]
    <3>1. CASE k < place
      BY <1>4, <2>1, <2>5, <3>1
    <3>2. CASE ~(k < place)
      <4>1. k + 1 - place \in 1 .. n + 1 - place /\ place - 1 + (k + 1 - place) = k
        BY <1>4, <3>2
      <4>2. list[k + 1] = back[k + 1 - place]
        BY <1>4, <2>5, <3>2
      <4> QED BY <2>2, <3>2, <4>1, <4>2
    <3> QED BY <3>1, <3>2
  <2>7. list[place] = b
    BY <1>4, <2>5
  <2> QED BY <2>4, <2>6, <2>7
<1> HIDE DEF list, g, place
<1>6. /\ g.key = m.key /\ g.omkeys = omkeys /\ g.omkeys.bits = more /\ g.elements = list
      /\ g.source = m.source /\ g.masked = m.masked
  BY <1>3
<1>7. /\ more \in Numbers /\ Cardinality(more) = n + 1
      /\ \A j \in Int : /\ i < j => Rank(more, j) = Rank(bits, j) + 1
                        /\ ~(i < j) => Rank(more, j) = Rank(bits, j)
  <2>1. bits \in Numbers /\ i \in Int /\ i \notin bits
    BY <1>4
  <2> HIDE DEF bits, n
  <2>2. ASSUME NEW j \in Int
        PROVE  /\ more \in Numbers /\ Cardinality(more) = Cardinality(bits) + 1
               /\ Rank(more, j) = IF i < j THEN Rank(bits, j) + 1 ELSE Rank(bits, j)
    BY <2>1, RankAdd
  <2>3. more \in Numbers /\ Cardinality(more) = Cardinality(bits) + 1
    BY <2>1, <2>2
  <2> QED BY <1>4, <2>2, <2>3
<1>h. i \in more /\ bits \subseteq more
  OBVIOUS
<1> HIDE DEF bits, more, n
<1>8. Element(g, i) = b
  <2>1. Rank(more, i) = Rank(bits, i)
    BY <1>4, <1>7
  <2> QED BY <1>4, <1>5, <1>6, <2>1 DEF Element, Ordinal
<1>9. ASSUME NEW j \in bits
      PROVE  Element(g, j) = Element(m, j)
  <2>1. j \in Int /\ j # i /\ Ordinal(m, j) \in 1 .. n /\ Ordinal(m, j) = Rank(bits, j) + 1
    <3>1. Ordinal(m, j) \in 1 .. n /\ j # i
      BY AlignedIs DEF bits, n
    <3>2. j \in Int /\ Ordinal(m, j) = Rank(bits, j) + 1
      BY <1>4 DEF Ordinal, bits
    <3> QED BY <3>1, <3>2
  <2>2. Rank(bits, i) \in Nat /\ Rank(bits, j) \in Nat
    BY <1>4, <2>1, RankType
  <2>3. CASE j < i
    <3>1. Rank(bits, j) < Rank(bits, i)
      BY <1>4, <2>3, RankGrows
    <3>2. Rank(more, j) + 1 = Ordinal(m, j) /\ Ordinal(m, j) < place
      BY <1>4, <1>7, <2>1, <2>2, <2>3, <3>1
    <3> QED BY <1>5, <1>6, <2>1, <3>2 DEF Element, Ordinal
  <2>4. CASE i < j
    <3>1. Rank(bits, i) <= Rank(bits, j)
      <4>1. Rank(more, i) < Rank(more, j)
        BY <1>4, <1>7, <1>h, <2>1, <2>4, RankGrows
      <4> QED BY <1>4, <1>7, <2>1, <2>2, <2>4, <4>1
    <3>2. Rank(more, j) + 1 = Ordinal(m, j) + 1 /\ ~(Ordinal(m, j) < place)
      BY <1>4, <1>7, <2>1, <2>2, <2>4, <3>1
    <3>3. Element(g, j) = list[Ordinal(m, j) + 1]
      BY <1>6, <3>2 DEF Element, Ordinal
    <3>4. list[Ordinal(m, j) + 1] = m.elements[Ordinal(m, j)]
      BY <1>5, <2>1, <3>2
    <3> QED BY <3>3, <3>4 DEF Element
  <2> QED BY <1>4, <2>1, <2>3, <2>4
<1>10. omkeys \in Omkeys /\ Length(omkeys) = Length(m.omkeys)
  BY <1>1, <1>4 DEF Omkeys, Length, more
<1>11. \A j \in more : BitmaskFits(Element(g, j), Series(map, j))
  BY <1>8, <1>9, AlignedIs DEF bits, more
<1> HIDE DEF omkeys
<1>12. Aligned(g, map)
  <2>1. more \subseteq Indices(map) /\ Length(omkeys) = Len(map)
    BY <1>10 DEF Aligned, bits, more
  <2> QED BY <1>3, <1>5, <1>6, <1>7, <1>10, <1>11, <2>1 DEF Aligned
<1> QED BY <1>6, <1>8, <1>12 DEF g, bits, more

\* One that is taken out moves those behind it up.
LEMMA RemoveFits ==
  ASSUME NEW map, IsMap(map), NEW m, Aligned(m, map), NEW i \in m.omkeys.bits
  PROVE  LET g == [m EXCEPT !.omkeys = SetBit(@, i, FALSE),
                            !.elements = RemoveAt(@, Ordinal(m, i))]
         IN  /\ Aligned(g, map)
             /\ g.key = m.key /\ g.source = m.source /\ g.masked = m.masked
<1> DEFINE bits == m.omkeys.bits
           less == bits \ {i}
           place == Ordinal(m, i)
           list == RemoveAt(m.elements, place)
           omkeys == [size |-> m.omkeys.size, padding |-> m.omkeys.padding, bits |-> less]
           n == Len(m.elements)
           g == [m EXCEPT !.omkeys = SetBit(@, i, FALSE), !.elements = RemoveAt(@, place)]
<1>1. m = [key |-> m.key, omkeys |-> m.omkeys, elements |-> m.elements,
           source |-> m.source, masked |-> m.masked]
      /\ m.omkeys \in Omkeys /\ m.elements \in Seq(Bitmasks)
  BY DEF Aligned
<1>2. SetBit(m.omkeys, i, FALSE) = omkeys
  <2>1. SetBit(m.omkeys, i, FALSE) = [m.omkeys EXCEPT !.bits = less]
    BY DEF SetBit
  <2>2. m.omkeys = [size |-> m.omkeys.size, padding |-> m.omkeys.padding, bits |-> bits]
    BY <1>1 DEF Omkeys
  <2> QED BY <2>1, <2>2
<1>3. g = [key |-> m.key, omkeys |-> omkeys, elements |-> list,
           source |-> m.source, masked |-> m.masked]
  <2>1. g = [m EXCEPT !.elements = list, !.omkeys = omkeys]
    BY <1>1, <1>2
  <2> HIDE DEF list, omkeys, g
  <2> QED BY <1>1, <2>1
<1>4. /\ bits \in Numbers /\ bits \in SUBSET Nat /\ n \in Nat /\ n = Cardinality(bits)
      /\ place \in 1 .. n /\ place = Rank(bits, i) + 1 /\ i \in bits /\ i \in Nat
  <2>1. bits \in Numbers /\ bits \in SUBSET Nat /\ n \in Nat /\ n = Cardinality(bits)
        /\ place \in 1 .. n
    BY AlignedIs
  <2> QED BY <2>1 DEF Ordinal
<1>5. /\ list \in Seq(Bitmasks) /\ Len(list) = n - 1
      /\ \A k \in 1 .. n : k # place => list[IF k < place THEN k ELSE k - 1] = m.elements[k]
  <2> DEFINE front == SubSeq(m.elements, 1, place - 1)
             back == SubSeq(m.elements, place + 1, n)
  <2>1. /\ front \in Seq(Bitmasks) /\ Len(front) = place - 1
        /\ \A k \in 1 .. place - 1 : front[k] = m.elements[k]
    BY <1>1, <1>4
  <2>2. /\ back \in Seq(Bitmasks) /\ Len(back) = n - place
        /\ \A k \in 1 .. n - place : back[k] = m.elements[place + k]
    BY <1>1, <1>4
  <2>3. list = front \o back
    BY DEF RemoveAt
  <2> HIDE DEF front, back, list, place, n
  <2>0. n \in Nat /\ place \in 1 .. n
    BY <1>4
  <2>4. list \in Seq(Bitmasks) /\ Len(list) = n - 1
    <3>1. list \in Seq(Bitmasks) /\ Len(list) = Len(front) + Len(back)
      <4>1. front \in Seq(Bitmasks) /\ back \in Seq(Bitmasks)
        BY <2>1, <2>2
      <4> QED BY <2>3, <4>1
    <3> QED BY <2>0, <2>1, <2>2, <3>1
  <2>5. \A k \in 1 .. n - 1 : list[k] = IF k < place THEN front[k] ELSE back[k - place + 1]
    <3>1. ASSUME NEW k \in 1 .. n - 1
          PROVE  list[k] = IF k < place THEN front[k] ELSE back[k - place + 1]
      <4>1. list[k] = IF k <= Len(front) THEN front[k] ELSE back[k - Len(front)]
        BY <2>0, <2>1, <2>2, <2>3
      <4>2. (k <= Len(front) <=> k < place) /\ k - Len(front) = k - place + 1
        BY <2>0, <2>1
      <4> QED BY <4>1, <4>2
    <3> QED BY <3>1
  <2>6. ASSUME NEW k \in 1 .. n, k # place
        PROVE  list[IF k < place THEN k ELSE k - 1] = m.elements[k]
    <3>1. CASE k < place
      BY <1>4, <2>1, <2>5, <3>1
    <3>2. CASE place < k
      <4>1. k - place \in 1 .. n - place /\ place + (k - place) = k /\ k - 1 \in 1 .. n - 1
            /\ (k - 1) - place + 1 = k - place /\ ~(k - 1 < place) /\ ~(k < place)
        BY <1>4, <3>2
      <4>2. list[k - 1] = back[k - place]
        BY <2>5, <4>1
      <4> QED BY <2>2, <4>1, <4>2
    <3> QED BY <1>4, <2>6, <3>1, <3>2
  <2> QED BY <2>4, <2>6
<1> HIDE DEF list, g, place
<1>6. /\ g.key = m.key /\ g.omkeys = omkeys /\ g.omkeys.bits = less /\ g.elements = list
      /\ g.source = m.source /\ g.masked = m.masked
  BY <1>3
<1>7. /\ less \in Numbers /\ Cardinality(less) = n - 1
      /\ \A j \in Int : /\ i < j => Rank(less, j) = Rank(bits, j) - 1
                        /\ ~(i < j) => Rank(less, j) = Rank(bits, j)
  <2>1. less \in Numbers /\ i \in Int /\ i \notin less /\ less \cup {i} = bits
    <3>1. less \in SUBSET bits
      OBVIOUS
    <3> HIDE DEF less
    <3>2. less \in Numbers
      BY <1>4, <3>1, FS_Subset DEF Numbers
    <3> QED BY <1>4, <3>2 DEF less
  <2> HIDE DEF bits, n, less
  <2>2. ASSUME NEW j \in Int
        PROVE  /\ Cardinality(less \cup {i}) = Cardinality(less) + 1
               /\ Rank(less \cup {i}, j) = IF i < j THEN Rank(less, j) + 1 ELSE Rank(less, j)
    BY <2>1, RankAdd
  <2>3. Cardinality(bits) = Cardinality(less) + 1 /\ Cardinality(less) \in Nat
    BY <2>1, <2>2, RankType
  <2>4. ASSUME NEW j \in Int
        PROVE  /\ i < j => Rank(less, j) = Rank(bits, j) - 1
               /\ ~(i < j) => Rank(less, j) = Rank(bits, j)
    <3>1. Rank(less, j) \in Nat
      BY <2>1, RankType
    <3>2. Rank(bits, j) = IF i < j THEN Rank(less, j) + 1 ELSE Rank(less, j)
      BY <2>1, <2>2
    <3> QED BY <3>1, <3>2
  <2> QED BY <1>4, <2>1, <2>3, <2>4
<1>h. less \subseteq bits /\ i \notin less
  OBVIOUS
<1> HIDE DEF bits, less, n
<1>9. ASSUME NEW j \in less
      PROVE  Element(g, j) = Element(m, j)
  <2>1. j \in Int /\ j # i /\ j \in bits /\ Ordinal(m, j) \in 1 .. n /\ Ordinal(m, j) = Rank(bits, j) + 1
    <3>1. Ordinal(m, j) \in 1 .. n /\ j # i /\ j \in bits
      BY <1>h, AlignedIs DEF bits, n
    <3>2. j \in Int /\ Ordinal(m, j) = Rank(bits, j) + 1
      BY <1>4, <3>1 DEF Ordinal, bits
    <3> QED BY <3>1, <3>2
  <2>2. Rank(bits, i) \in Nat /\ Rank(bits, j) \in Nat
    BY <1>4, <2>1, RankType
  <2>3. CASE j < i
    <3>1. Rank(bits, j) < Rank(bits, i)
      BY <1>4, <2>1, <2>3, RankGrows
    <3>2. Rank(less, j) + 1 = Ordinal(m, j) /\ Ordinal(m, j) < place
      BY <1>4, <1>7, <2>1, <2>2, <2>3, <3>1
    <3> QED BY <1>5, <1>6, <2>1, <3>2 DEF Element, Ordinal
  <2>4. CASE i < j
    <3>1. Rank(bits, i) < Rank(bits, j)
      BY <1>4, <2>1, <2>4, RankGrows
    <3>2. Rank(less, j) + 1 = Ordinal(m, j) - 1 /\ place < Ordinal(m, j)
      BY <1>4, <1>7, <2>1, <2>2, <2>4, <3>1
    <3>3. Element(g, j) = list[Ordinal(m, j) - 1]
      BY <1>6, <3>2 DEF Element, Ordinal
    <3>4. list[Ordinal(m, j) - 1] = m.elements[Ordinal(m, j)]
      <4>1. Ordinal(m, j) # place /\ ~(Ordinal(m, j) < place)
        BY <1>4, <2>1, <3>2
      <4> QED BY <1>5, <2>1, <4>1
    <3> QED BY <3>3, <3>4 DEF Element
  <2> QED BY <1>4, <2>1, <2>3, <2>4
<1>10. omkeys \in Omkeys /\ Length(omkeys) = Length(m.omkeys)
  BY <1>1, <1>4 DEF Omkeys, Length, less
<1>11. \A j \in less : BitmaskFits(Element(g, j), Series(map, j))
  BY <1>h, <1>9, AlignedIs DEF bits
<1> HIDE DEF omkeys
<1>12. Aligned(g, map)
  <2>1. less \subseteq Indices(map) /\ Length(omkeys) = Len(map)
    BY <1>10 DEF Aligned, bits, less
  <2> QED BY <1>3, <1>5, <1>6, <1>7, <1>10, <1>11, <2>1 DEF Aligned
<1> QED BY <1>6, <1>12 DEF g, place

-----------------------------------------------------------------------------
(* What is made of masks is aligned.                                        *)

LEMMA NewMask ==
  ASSUME NEW map, IsMap(map), NEW key, NEW set \in BOOLEAN
  PROVE  LET m == Mask(key, map, Bitmask(Len(map), set), <<>>)
         IN  /\ m = [key |-> m.key, omkeys |-> m.omkeys, elements |-> m.elements,
                     source |-> m.source, masked |-> m.masked]
             /\ m.omkeys \in Omkeys /\ Length(m.omkeys) = Len(map)
             /\ m.key = key /\ m.source = map /\ m.masked = None
<1> DEFINE b == Bitmask(Len(map), set)
<1>1. b \in Bitmasks /\ Length(b) = Len(map)
  BY MapIndices, BitmaskIs
<1>2. b \in Omkeys
  BY <1>1 DEF Bitmasks, Omkeys
<1> HIDE DEF b
<1> QED BY <1>1, <1>2 DEF Mask, b

\* What the constructors have in common.
Made(m, key, map) == Aligned(m, map) /\ m.key = key /\ m.source = map /\ m.masked = None

LEMMA AllFits ==
  ASSUME NEW map, IsMap(map), NEW key
  PROVE  Made(AllOf(key, map), key, map)
<1>1. CASE map = <<>>
  <2> DEFINE m == Mask(key, map, NoBitmask, <<>>)
  <2>1. m = [key |-> key, omkeys |-> NoBitmask, elements |-> <<>>, source |-> map, masked |-> None]
    BY DEF Mask
  <2>2. AllOf(key, map) = m
    BY <1>1 DEF AllOf
  <2>3. NoBitmask \in Omkeys /\ Length(NoBitmask) = 0 /\ NoBitmask.bits = {}
    BY WidthAssumption DEF NoBitmask, Omkeys, Length
  <2>4. Cardinality({}) = 0 /\ Len(map) = 0
    BY <1>1, FS_EmptySet
  <2>5. Aligned(m, map)
    <3> HIDE DEF m
    <3>1. m.omkeys = NoBitmask /\ m.elements = <<>> /\ m.key = key /\ m.source = map /\ m.masked = None
      BY <2>1
    <3>2. <<>> \in Seq(Bitmasks) /\ Len(<<>>) = 0
      OBVIOUS
    <3> QED BY <2>1, <2>3, <2>4, <3>1, <3>2 DEF Aligned
  <2> HIDE DEF m
  <2>6. m.key = key /\ m.source = map /\ m.masked = None
    BY <2>1
  <2> QED BY <2>2, <2>5, <2>6 DEF Made
<1>2. CASE map # <<>>
  <2> DEFINE m == Mask(key, map, Bitmask(Len(map), TRUE), <<>>)
             some == {i \in Indices(map) : Series(map, i) # <<>>}
             elements == [i \in some |-> Bitmask(Len(Series(map, i)), TRUE)]
  <2>1. AllOf(key, map) = With(m, elements)
    BY <1>2 DEF AllOf
  <2>2. ASSUME NEW i \in some
        PROVE  BitmaskFits(elements[i], Series(map, i))
    <3>1. Len(Series(map, i)) \in Nat
      BY MapIndices
    <3> QED BY <3>1, BitmaskIs DEF BitmaskFits, Indices
  <2>3. DOMAIN elements = some /\ some \subseteq Indices(map)
    OBVIOUS
  <2>4. /\ m = [key |-> m.key, omkeys |-> m.omkeys, elements |-> m.elements,
                source |-> m.source, masked |-> m.masked]
        /\ m.omkeys \in Omkeys /\ Length(m.omkeys) = Len(map)
        /\ m.key = key /\ m.source = map /\ m.masked = None
    BY NewMask
  <2> HIDE DEF m, some, elements
  <2>5. Made(With(m, elements), key, map)
    BY <2>2, <2>3, <2>4, WithIs DEF Made
  <2> QED BY <2>1, <2>5
<1> QED BY <1>1, <1>2

LEMMA SubsetFits ==
  ASSUME NEW map, IsMap(map), NEW key, NEW subset
  PROVE  Made(OfSubset(key, map, subset), key, map)
<1> DEFINE m == Mask(key, map, Bitmask(Len(map), TRUE), <<>>)
           entries(i) == SelectSeq(subset, LAMBDA e : e.om = map[i + 1].om)
           matched(i) == Matched(Series(map, i), entries(i)[1].pulses)
           full(i) == Bitmask(Len(Series(map, i)), entries(i)[1].pulses # <<>>)
           some == {j \in Indices(map) : entries(j) # <<>>}
           elements == [i \in some |-> [full(i) EXCEPT !.bits = @ \cap matched(i)]]
<1>1. OfSubset(key, map, subset) = With(m, elements)
  BY DEF OfSubset
<1> HIDE DEF matched
<1>2. ASSUME NEW i \in some
      PROVE  BitmaskFits(elements[i], Series(map, i))
  <2>1. Len(Series(map, i)) \in Nat
    BY MapIndices
  <2>2. /\ full(i) \in Bitmasks /\ Length(full(i)) = Len(Series(map, i))
        /\ full(i).bits \subseteq Indices(Series(map, i))
    BY <2>1, BitmaskIs DEF Indices
  <2>3. elements[i] = [full(i) EXCEPT !.bits = @ \cap matched(i)]
    OBVIOUS
  <2> HIDE DEF full, elements
  <2> QED BY <2>2, <2>3 DEF BitmaskFits, Bitmasks, Length
<1>3. DOMAIN elements = some /\ some \subseteq Indices(map)
  OBVIOUS
<1>4. /\ m = [key |-> m.key, omkeys |-> m.omkeys, elements |-> m.elements,
              source |-> m.source, masked |-> m.masked]
      /\ m.omkeys \in Omkeys /\ Length(m.omkeys) = Len(map)
      /\ m.key = key /\ m.source = map /\ m.masked = None
  BY NewMask
<1> HIDE DEF m, some, elements
<1>5. Made(With(m, elements), key, map)
  BY <1>2, <1>3, <1>4, WithIs DEF Made
<1> QED BY <1>1, <1>5

LEMMA PredicateFits ==
  ASSUME NEW map, IsMap(map), NEW key, NEW holds
  PROVE  Made(OfPredicate(key, map, holds), key, map)
<1> DEFINE m == Mask(key, map, Bitmask(Len(map), FALSE), <<>>)
           of(i) == {p \in Indices(Series(map, i)) : <<map[i + 1].om, p>> \in holds}
           empty(i) == Bitmask(Len(Series(map, i)), FALSE)
           some == {j \in Indices(map) : of(j) # {}}
           elements == [i \in some |-> [empty(i) EXCEPT !.bits = of(i)]]
<1>1. OfPredicate(key, map, holds) = With(m, elements)
  BY DEF OfPredicate
<1>2. ASSUME NEW i \in some
      PROVE  BitmaskFits(elements[i], Series(map, i))
  <2>1. Len(Series(map, i)) \in Nat /\ Indices(Series(map, i)) \in SUBSET Nat
    BY MapIndices
  <2>2. empty(i) \in Bitmasks /\ Length(empty(i)) = Len(Series(map, i))
    BY <2>1, BitmaskIs
  <2>3. elements[i] = [empty(i) EXCEPT !.bits = of(i)] /\ of(i) \subseteq Indices(Series(map, i))
    OBVIOUS
  <2> HIDE DEF empty, elements, of
  <2> QED BY <2>1, <2>2, <2>3 DEF BitmaskFits, Bitmasks, Length
<1>3. DOMAIN elements = some /\ some \subseteq Indices(map)
  OBVIOUS
<1>4. /\ m = [key |-> m.key, omkeys |-> m.omkeys, elements |-> m.elements,
              source |-> m.source, masked |-> m.masked]
      /\ m.omkeys \in Omkeys /\ Length(m.omkeys) = Len(map)
      /\ m.key = key /\ m.source = map /\ m.masked = None
  BY NewMask
<1> HIDE DEF m, some, elements
<1>5. Made(With(m, elements), key, map)
  BY <1>2, <1>3, <1>4, WithIs DEF Made
<1> QED BY <1>1, <1>5

-----------------------------------------------------------------------------
(* What changes masks keeps them aligned.                                   *)

Kept(g, m, map) ==
  Aligned(g, map) /\ g.key = m.key /\ g.source = m.source /\ g.masked = None

LEMMA UncachedFits ==
  ASSUME NEW map, NEW m, Aligned(m, map)
  PROVE  /\ Kept(Uncached(m), m, map)
         /\ Uncached(m).omkeys = m.omkeys /\ Uncached(m).elements = m.elements
<1> DEFINE g == Uncached(m)
<1>1. g = [key |-> m.key, omkeys |-> m.omkeys, elements |-> m.elements,
           source |-> m.source, masked |-> None]
  BY DEF Uncached, Aligned
<1> HIDE DEF g
<1>2. /\ g.key = m.key /\ g.omkeys = m.omkeys /\ g.elements = m.elements
      /\ g.source = m.source /\ g.masked = None
  BY <1>1
<1>3. \A i : Element(g, i) = Element(m, i)
  BY <1>2 DEF Element, Ordinal
<1>4. Aligned(g, map)
  BY <1>1, <1>2, <1>3 DEF Aligned
<1> QED BY <1>2, <1>4 DEF Kept, g

LEMMA BitsFit ==
  ASSUME NEW series, Len(series) \in Nat, NEW b, BitmaskFits(b, series),
         NEW bits, bits \subseteq Indices(series)
  PROVE  BitmaskFits([b EXCEPT !.bits = bits], series)
<1>1. Indices(series) \in SUBSET Nat
  BY DEF Indices
<1>2. b = [size |-> b.size, padding |-> b.padding, bits |-> b.bits]
      /\ b.size \in Nat /\ b.size > 0 /\ b.padding \in Nat /\ b.padding <= Width
      /\ Length(b) = Len(series)
  BY DEF BitmaskFits, Bitmasks
<1>3. [b EXCEPT !.bits = bits] = [size |-> b.size, padding |-> b.padding, bits |-> bits]
  BY <1>2
<1> QED BY <1>1, <1>2, <1>3 DEF BitmaskFits, Bitmasks, Length

LEMMA SetPulsesFits ==
  ASSUME NEW map, IsMap(map), NEW m, Aligned(m, map), m.source \in {None, map},
         NEW i \in Indices(map), NEW on \in BOOLEAN,
         NEW some, m.source # None => some \subseteq Indices(Series(map, i))
  PROVE  Kept(SetPulses(m, i, some, on), m, map)
<1> DEFINE u == Uncached(m)
           ensured == Ensured(u, i)
           place == Ordinal(ensured, i)
           old == Element(ensured, i)
           bits == IF on THEN old.bits \cup some ELSE old.bits \ some
           new == [old EXCEPT !.bits = bits]
<1>1. Kept(u, m, map) /\ u.omkeys = m.omkeys
  BY UncachedFits
<1> HIDE DEF u
<1>2. CASE m.source = None \/ ~(HasElement(m, i) \/ on)
  BY <1>1, <1>2 DEF SetPulses, u
<1>3. CASE ~(m.source = None \/ ~(HasElement(m, i) \/ on))
  <2>1. u.source = map /\ some \subseteq Indices(Series(map, i)) /\ Aligned(u, map)
    BY <1>1, <1>3 DEF Kept
  <2>2. Kept(ensured, m, map) /\ i \in ensured.omkeys.bits
    <3>1. CASE HasElement(u, i)
      BY <1>1, <3>1 DEF Ensured, HasElement
    <3>2. CASE ~HasElement(u, i)
      <4> DEFINE b == Bitmask(Len(Series(map, i)), FALSE)
      <4>1. BitmaskFits(b, Series(map, i))
        <5>1. Len(Series(map, i)) \in Nat
          BY MapIndices
        <5> QED BY <5>1, BitmaskIs DEF BitmaskFits
      <4> HIDE DEF b
      <4>2. ensured = Insert(u, i, b)
        BY <2>1, <3>2 DEF Ensured, b
      <4>3. i \notin u.omkeys.bits
        BY <3>2 DEF HasElement
      <4> HIDE DEF ensured
      <4> QED BY <1>1, <2>1, <4>1, <4>2, <4>3, InsertFits DEF Kept
    <3> QED BY <3>1, <3>2
  <2>3. SetPulses(m, i, some, on) = [ensured EXCEPT !.elements[place] = new]
    BY <1>3 DEF SetPulses, u, Element
  <2> HIDE DEF ensured
  <2>4. BitmaskFits(old, Series(map, i)) /\ Len(Series(map, i)) \in Nat
    BY <2>2, AlignedIs, MapIndices DEF Kept
  <2>5. bits \subseteq Indices(Series(map, i))
    BY <2>1, <2>4 DEF BitmaskFits
  <2> HIDE DEF bits, old
  <2>6. BitmaskFits(new, Series(map, i))
    BY <2>4, <2>5, BitsFit
  <2> HIDE DEF new
  <2> DEFINE g == [ensured EXCEPT !.elements[place] = new]
  <2>7. Aligned(g, map)
    BY <2>2, <2>6, ChangedFits DEF Kept
  <2>8. g.key = ensured.key /\ g.source = ensured.source /\ g.masked = ensured.masked
    <3>1. ensured = [key |-> ensured.key, omkeys |-> ensured.omkeys, elements |-> ensured.elements,
                     source |-> ensured.source, masked |-> ensured.masked]
      BY <2>2 DEF Kept, Aligned
    <3> QED BY <3>1
  <2> QED BY <2>2, <2>3, <2>7, <2>8 DEF Kept
<1> QED BY <1>2, <1>3

LEMMA SetNoneFits ==
  ASSUME NEW map, IsMap(map), NEW m, Aligned(m, map)
  PROVE  Kept(SetNone(m), m, map)
<1> DEFINE omkeys == [size |-> m.omkeys.size, padding |-> m.omkeys.padding, bits |-> {}]
           g == SetNone(m)
<1>1. m = [key |-> m.key, omkeys |-> m.omkeys, elements |-> m.elements,
           source |-> m.source, masked |-> m.masked]
      /\ m.omkeys \in Omkeys
  BY DEF Aligned
<1>2. UnsetAll(m.omkeys) = omkeys
  BY <1>1 DEF UnsetAll, Omkeys
<1>3. g = [key |-> m.key, omkeys |-> omkeys, elements |-> <<>>,
           source |-> m.source, masked |-> None]
  <2>1. g = [[m EXCEPT !.omkeys = omkeys, !.elements = <<>>] EXCEPT !.masked = None]
    BY <1>2 DEF SetNone, Uncached
  <2> HIDE DEF omkeys, g
  <2> QED BY <1>1, <2>1
<1>4. omkeys \in Omkeys /\ Length(omkeys) = Length(m.omkeys) /\ omkeys.bits = {}
  BY <1>1 DEF Omkeys, Length
<1> HIDE DEF omkeys, g
<1>5. /\ g.key = m.key /\ g.omkeys = omkeys /\ g.elements = <<>>
      /\ g.source = m.source /\ g.masked = None
  BY <1>3
<1>6. <<>> \in Seq(Bitmasks) /\ Len(<<>>) = 0 /\ Cardinality({}) = 0
  BY FS_EmptySet
<1>7. Aligned(g, map)
  BY <1>3, <1>4, <1>5, <1>6 DEF Aligned
<1> QED BY <1>5, <1>7 DEF Kept, g

\* A module without pulses must not be set.
LEMMA SetModuleFits ==
  ASSUME NEW map, IsMap(map), NEW m, Aligned(m, map), m.source \in {None, map},
         NEW i \in Indices(map), NEW on \in BOOLEAN, Series(map, i) # <<>> \/ ~on
  PROVE  Kept(SetModule(m, i, on), m, map)
<1> DEFINE length == Len(Series(map, i))
           place == Ordinal(m, i)
<1>1. length \in Nat /\ (on => length > 0)
  <2>1. Series(map, i) \in Seq(ToSet(Series(map, i)))
    BY MapIndices DEF IsMap, Series
  <2> QED BY <2>1
<1>2. CASE m.source = None
  BY <1>2, UncachedFits DEF SetModule
<1>3. CASE m.source # None /\ ~HasElement(m, i) /\ on
  <2> DEFINE b == Bitmask(length, TRUE)
             g == Insert(m, i, b)
  <2>1. BitmaskFits(b, Series(map, i))
    BY <1>1, BitmaskIs DEF BitmaskFits, Indices
  <2>2. SetModule(m, i, on) = Uncached(g)
    BY <1>1, <1>3 DEF SetModule
  <2> HIDE DEF b
  <2>3. Aligned(g, map) /\ g.key = m.key /\ g.source = m.source
    BY <1>3, <2>1, InsertFits DEF HasElement
  <2> HIDE DEF g
  <2>4. Kept(Uncached(g), g, map)
    BY <2>3, UncachedFits
  <2> QED BY <2>2, <2>3, <2>4 DEF Kept
<1>4. CASE m.source # None /\ ~HasElement(m, i) /\ ~on
  <2>1. SetModule(m, i, on) = Uncached(m)
    BY <1>4 DEF SetModule
  <2> QED BY <2>1, UncachedFits
<1>5. CASE m.source # None /\ HasElement(m, i) /\ on
  <2> DEFINE b == SetAll(Element(m, i))
             g == [m EXCEPT !.elements[place] = b]
  <2>1. BitmaskFits(b, Series(map, i))
    <3>1. Element(m, i) \in Bitmasks /\ BitmaskFits(Element(m, i), Series(map, i))
      BY <1>5, AlignedIs DEF HasElement
    <3> QED BY <3>1, SetAllIs DEF BitmaskFits, Indices
  <2>2. SetModule(m, i, on) = Uncached(g)
    BY <1>1, <1>5 DEF SetModule, Element
  <2> HIDE DEF b
  <2>3. Aligned(g, map)
    BY <1>5, <2>1, ChangedFits DEF HasElement
  <2>4. g.key = m.key /\ g.source = m.source
    BY DEF Aligned
  <2> HIDE DEF g
  <2>5. Kept(Uncached(g), g, map)
    BY <2>3, UncachedFits
  <2> QED BY <2>2, <2>4, <2>5 DEF Kept
<1>6. CASE m.source # None /\ HasElement(m, i) /\ ~on
  <2> DEFINE g == [m EXCEPT !.omkeys = SetBit(@, i, FALSE), !.elements = RemoveAt(@, place)]
  <2>1. SetModule(m, i, on) = Uncached(g)
    BY <1>6 DEF SetModule
  <2>2. Aligned(g, map) /\ g.key = m.key /\ g.source = m.source
    BY <1>6, RemoveFits DEF HasElement
  <2> HIDE DEF g
  <2>3. Kept(Uncached(g), g, map)
    BY <2>2, UncachedFits
  <2> QED BY <2>1, <2>2, <2>3 DEF Kept
<1> QED BY <1>2, <1>3, <1>4, <1>5, <1>6

LEMMA CombinedFits ==
  ASSUME NEW map, IsMap(map), NEW l, Aligned(l, map), NEW r, Aligned(r, map),
         NEW op \in {"and", "or", "xor", "remove"}
  PROVE  Kept(Combined(op, l, r), l, map)
<1> DEFINE bits(i) == BinaryOperator(op, Bits(l, i), Bits(r, i))
           either(i) == IF HasElement(l, i) THEN Element(l, i) ELSE Element(r, i)
           some == {j \in 0 .. Length(l.omkeys) - 1 : bits(j) # {}}
           elements == [i \in some |-> [either(i) EXCEPT !.bits = bits(i)]]
           u == Uncached(l)
<1>1. Combined(op, l, r) = With(u, elements)
  BY DEF Combined
<1>2. Kept(u, l, map)
  BY UncachedFits
<1>3. some \subseteq Indices(map) /\ DOMAIN elements = some
  BY DEF Aligned, Indices
<1>4. ASSUME NEW i \in some
      PROVE  BitmaskFits(elements[i], Series(map, i))
  <2>1. bits(i) \subseteq Bits(l, i) \cup Bits(r, i)
    BY DEF BinaryOperator
  <2>2. /\ HasElement(l, i) => BitmaskFits(Element(l, i), Series(map, i))
        /\ HasElement(r, i) => BitmaskFits(Element(r, i), Series(map, i))
    BY AlignedIs DEF HasElement
  <2>3. Bits(l, i) \cup Bits(r, i) \subseteq Indices(Series(map, i))
    BY <2>2 DEF Bits, BitmaskFits
  <2>4. HasElement(l, i) \/ HasElement(r, i)
    <3>1. bits(i) # {}
      OBVIOUS
    <3> HIDE DEF bits
    <3> QED BY <2>1, <3>1 DEF Bits
  <2>5. BitmaskFits(either(i), Series(map, i))
    BY <2>2, <2>4
  <2>6. elements[i] = [either(i) EXCEPT !.bits = bits(i)]
    OBVIOUS
  <2>7. Len(Series(map, i)) \in Nat
    BY <1>3, MapIndices
  <2> HIDE DEF bits, either, elements
  <2> QED BY <2>1, <2>3, <2>5, <2>6, <2>7, BitsFit
<1> HIDE DEF u, some, elements
<1>5. Kept(With(u, elements), l, map)
  <2>1. /\ u = [key |-> u.key, omkeys |-> u.omkeys, elements |-> u.elements,
                source |-> u.source, masked |-> u.masked]
        /\ u.omkeys \in Omkeys /\ Length(u.omkeys) = Len(map)
        /\ u.key = l.key /\ u.source = l.source /\ u.masked = None
    BY <1>2 DEF Kept, Aligned
  <2> QED BY <1>3, <1>4, <2>1, WithIs DEF Kept
<1> QED BY <1>1, <1>5

LEMMA CollapsedFits ==
  ASSUME NEW map, IsMap(map), NEW m, NEW p, Aligned(p, map)
  PROVE  Kept(Collapsed(m, p), p, map)
<1> DEFINE shown == {i \in p.omkeys.bits : AnyBit(Element(p, i))}
           bits(i) == {n \in Element(p, i).bits :
                         Rank(Element(p, i).bits, n) \in Element(m, Rank(shown, i)).bits}
           some == {j \in shown : HasElement(m, Rank(shown, j))}
           elements == [i \in some |-> [Element(p, i) EXCEPT !.bits = bits(i)]]
           u == Uncached(p)
<1>1. Collapsed(m, p) = With(u, elements)
  BY DEF Collapsed
<1>2. Kept(u, p, map)
  BY UncachedFits
<1>3. some \subseteq Indices(map) /\ DOMAIN elements = some /\ some \subseteq p.omkeys.bits
  BY DEF Aligned
<1>4. ASSUME NEW i \in some
      PROVE  BitmaskFits(elements[i], Series(map, i))
  <2>1. BitmaskFits(Element(p, i), Series(map, i))
    BY <1>3, AlignedIs
  <2>2. bits(i) \subseteq Indices(Series(map, i))
    <3>1. bits(i) \subseteq Element(p, i).bits
      OBVIOUS
    <3> HIDE DEF bits
    <3> QED BY <2>1, <3>1 DEF BitmaskFits
  <2>3. elements[i] = [Element(p, i) EXCEPT !.bits = bits(i)]
    OBVIOUS
  <2>4. Len(Series(map, i)) \in Nat
    BY <1>3, MapIndices
  <2> HIDE DEF bits, elements
  <2> QED BY <2>1, <2>2, <2>3, <2>4, BitsFit
<1> HIDE DEF u, some, elements
<1>5. Kept(With(u, elements), p, map)
  <2>1. /\ u = [key |-> u.key, omkeys |-> u.omkeys, elements |-> u.elements,
                source |-> u.source, masked |-> u.masked]
        /\ u.omkeys \in Omkeys /\ Length(u.omkeys) = Len(map)
        /\ u.key = p.key /\ u.source = p.source /\ u.masked = None
    BY <1>2 DEF Kept, Aligned
  <2> QED BY <1>3, <1>4, <2>1, WithIs DEF Kept
<1> QED BY <1>1, <1>5

\* Loaded, a mask shows what it showed.
LEMMA ReloadedFits ==
  ASSUME NEW map, IsMap(map), NEW m, Aligned(m, map)
  PROVE  LET g == Reloaded(m)
         IN  /\ Aligned(g, map) /\ g.key = m.key /\ g.source = None /\ g.masked = None
             /\ Masked(g, map) = Masked(m, map)
<1> DEFINE some == {j \in m.omkeys.bits : AnyBit(Element(m, j))}
           elements == [i \in some |-> Element(m, i)]
           u == Uncached(m)
           w == With(u, elements)
           g == Reloaded(m)
<1>1. g = [w EXCEPT !.source = None]
  BY DEF Reloaded
<1>2. Kept(u, m, map)
  BY UncachedFits
<1>3. some \subseteq Indices(map) /\ DOMAIN elements = some /\ some \subseteq m.omkeys.bits
  BY DEF Aligned
<1>4. \A i \in some : elements[i] = Element(m, i) /\ BitmaskFits(elements[i], Series(map, i))
  BY <1>3, AlignedIs
<1>s. \A j : j \in some <=> j \in m.omkeys.bits /\ AnyBit(Element(m, j))
  OBVIOUS
<1> HIDE DEF u, some, elements
<1>5. /\ Aligned(w, map) /\ w.key = m.key /\ w.masked = None
      /\ w.omkeys.bits = some
      /\ \A i \in some : Element(w, i) = Element(m, i)
  <2>1. /\ u = [key |-> u.key, omkeys |-> u.omkeys, elements |-> u.elements,
                source |-> u.source, masked |-> u.masked]
        /\ u.omkeys \in Omkeys /\ Length(u.omkeys) = Len(map)
        /\ u.key = m.key /\ u.masked = None
    BY <1>2 DEF Kept, Aligned
  <2> QED BY <1>3, <1>4, <2>1, WithIs
<1> HIDE DEF w, g
<1>6. g = [key |-> w.key, omkeys |-> w.omkeys, elements |-> w.elements,
           source |-> None, masked |-> w.masked]
  BY <1>1, <1>5 DEF Aligned
<1>7. /\ g.key = w.key /\ g.omkeys = w.omkeys /\ g.elements = w.elements
      /\ g.source = None /\ g.masked = w.masked
  BY <1>6
<1>8. \A i : Element(g, i) = Element(w, i)
  BY <1>7 DEF Element, Ordinal
<1>9. Aligned(g, map)
  BY <1>5, <1>6, <1>7, <1>8 DEF Aligned
<1>10. {i \in g.omkeys.bits : AnyBit(Element(g, i))} = some
  <2>1. \A i \in some : AnyBit(Element(g, i))
    BY <1>s, <1>5, <1>8
  <2> QED BY <1>5, <1>7, <2>1
<1>11. Masked(g, map) = Masked(m, map)
  <2> DEFINE shown == Sorted(some)
             pulsesOf(k, i) == [n \in DOMAIN Sorted(Element(k, i).bits) |->
                                  Series(map, i)[Sorted(Element(k, i).bits)[n] + 1]]
             of(k) == [n \in DOMAIN shown |-> [om |-> map[shown[n] + 1].om, pulses |-> pulsesOf(k, shown[n])]]
  <2>1. Masked(g, map) = of(g)
    BY <1>10 DEF Masked
  <2>2. {i \in m.omkeys.bits : AnyBit(Element(m, i))} = some
    BY DEF some
  <2>3. Masked(m, map) = of(m)
    BY <2>2 DEF Masked
  <2>4. \A n \in DOMAIN shown : shown[n] \in some
    <3>1. some \in Numbers
      BY <1>3, MapIndices
    <3> QED BY <3>1, SortedIs
  <2>5. \A i \in some : Element(g, i) = Element(m, i)
    BY <1>5, <1>8
  <2>6. \A i \in some : pulsesOf(g, i) = pulsesOf(m, i)
    BY <2>5
  <2> HIDE DEF pulsesOf, shown
  <2>7. of(g) = of(m)
    BY <2>4, <2>6
  <2> QED BY <2>1, <2>3, <2>7
<1> QED BY <1>5, <1>7, <1>9, <1>11 DEF g

LEMMA FitsWhenAligned ==
  ASSUME NEW map, IsMap(map), NEW m, Aligned(m, map)
  PROVE  Fits(m, map)
BY DEF Aligned, Fits, BitmaskFits

\* What a mask shows is a map.
LEMMA MaskedIsMap ==
  ASSUME NEW map, IsMap(map), NEW m, Aligned(m, map)
  PROVE  IsMap(Masked(m, map))
<1> DEFINE some == {i \in m.omkeys.bits : AnyBit(Element(m, i))}
           shown == Sorted(some)
           pulsesOf(i) == [n \in DOMAIN Sorted(Element(m, i).bits) |->
                             Series(map, i)[Sorted(Element(m, i).bits)[n] + 1]]
           entry(n) == [om |-> map[shown[n] + 1].om, pulses |-> pulsesOf(shown[n])]
           g == [n \in DOMAIN shown |-> entry(n)]
<1>1. Masked(m, map) = g
  BY DEF Masked
<1>2. some \in Numbers /\ some \subseteq m.omkeys.bits
  <2>1. some \in SUBSET Indices(map) /\ some \subseteq m.omkeys.bits
    BY DEF Aligned
  <2> HIDE DEF some
  <2> QED BY <2>1, MapIndices
<1> HIDE DEF some
<1>3. DOMAIN shown = 1 .. Cardinality(some) /\ Cardinality(some) \in Nat
      /\ \A n \in DOMAIN shown : shown[n] \in some
  BY <1>2, SortedIs, RankType
<1>4. ASSUME NEW i \in some
      PROVE  pulsesOf(i) \in Seq(ToSet(pulsesOf(i)))
  <2> DEFINE bits == Element(m, i).bits
             f == [n \in DOMAIN Sorted(bits) |-> Series(map, i)[Sorted(bits)[n] + 1]]
  <2>1. BitmaskFits(Element(m, i), Series(map, i)) /\ i \in Indices(map)
    BY <1>2, AlignedIs DEF Aligned
  <2>2. bits \in Numbers
    <3>1. Len(Series(map, i)) \in Nat /\ bits \in SUBSET Indices(Series(map, i))
      BY <2>1, MapIndices DEF BitmaskFits
    <3>2. IsFiniteSet(Indices(Series(map, i))) /\ Indices(Series(map, i)) \subseteq Int
      BY <3>1, FS_Interval DEF Indices
    <3> HIDE DEF bits
    <3> QED BY <3>1, <3>2, FS_Subset DEF Numbers
  <2>3. DOMAIN f = 1 .. Cardinality(bits) /\ Cardinality(bits) \in Nat
    BY <2>2, SortedIs, RankType
  <2>4. f \in [1 .. Cardinality(bits) -> ToSet(f)]
    BY <2>3 DEF ToSet
  <2>5. pulsesOf(i) = f
    OBVIOUS
  <2> HIDE DEF f, pulsesOf, bits
  <2> QED BY <2>3, <2>4, <2>5
<1>5. DOMAIN g = DOMAIN shown /\ \A n \in DOMAIN shown : g[n].pulses = pulsesOf(shown[n])
  OBVIOUS
<1> HIDE DEF pulsesOf, shown, g
<1>6. g \in [1 .. Cardinality(some) -> ToSet(g)]
  <2>1. DOMAIN g = 1 .. Cardinality(some) /\ \A n \in DOMAIN g : g[n] \in ToSet(g)
    BY <1>3, <1>5 DEF ToSet
  <2>2. g = [n \in DOMAIN g |-> g[n]]
    BY DEF g
  <2> QED BY <2>1, <2>2
<1>7. g \in Seq(ToSet(g))
  BY <1>3, <1>6
<1>8. \A n \in DOMAIN g : g[n].pulses \in Seq(ToSet(g[n].pulses))
  BY <1>3, <1>4, <1>5
<1> QED BY <1>1, <1>7, <1>8 DEF IsMap

-----------------------------------------------------------------------------
(* The invariant.  A mask of what the mask in the frame shows is of a map   *)
(* that stays as it is, because that mask stays.                            *)

Shown == Masked(mask[parent], pulses)
MapOf(key, all, shown) == IF key = "mask" THEN shown ELSE all

MaskOK(m, keys, all, shown) ==
  /\ m.key \in keys
  /\ Aligned(m, MapOf(m.key, all, shown))
  /\ m.source \in {None, MapOf(m.key, all, shown)}
  /\ m.key = "pulses" => m.masked \in {None, Masked(m, all)}

Inv ==
  /\ pulses \in Sources
  /\ mask = [a \in Masks |-> mask[a]]
  /\ \A a \in Masks : mask[a] # None => MaskOK(mask[a], Keys, pulses, Shown)
  /\ parent # None => /\ parent \in Masks
                      /\ MaskOK(mask[parent], Keys, pulses, Shown) /\ mask[parent].key = "pulses"

LEMMA PulsesAreMap ==
  ASSUME pulses \in Sources
  PROVE  IsMap(pulses)
<1>1. /\ pulses \in Seq(ToSet(pulses))
      /\ \A entry \in ToSet(pulses) : entry.pulses \in Seq(ToSet(entry.pulses))
  BY SourceAssumption
<1>2. \A n \in DOMAIN pulses : pulses[n] \in ToSet(pulses)
  BY DEF ToSet
<1> QED BY <1>1, <1>2 DEF IsMap

\* What a mask that is all right remembers is what it shows.
LEMMA AppliedIs ==
  ASSUME pulses \in Sources, NEW m, NEW keys, NEW shown, MaskOK(m, keys, pulses, shown), m.key = "pulses"
  PROVE  Applied(m, pulses) = Masked(m, pulses) /\ IsMap(Masked(m, pulses)) /\ Fits(m, pulses)
<1>1. Aligned(m, pulses) /\ m.masked \in {None, Masked(m, pulses)} /\ IsMap(pulses)
  BY PulsesAreMap DEF MaskOK, MapOf
<1> QED BY <1>1, FitsWhenAligned, MaskedIsMap DEF Applied

LEMMA MapsAre ==
  ASSUME Inv, NEW key \in Keys
  PROVE  /\ MapAt(key) = MapOf(key, pulses, Shown) /\ IsMap(MapAt(key))
         /\ key = "mask" => parent # None
         /\ key \in {"pulses", "mask"}
<1>1. CASE key = "mask"
  <2>1. parent # None
    BY <1>1 DEF Keys
  <2>2. MaskOK(mask[parent], Keys, pulses, Shown) /\ mask[parent].key = "pulses" /\ pulses \in Sources
    BY <2>1 DEF Inv
  <2>3. Applied(mask[parent], pulses) = Shown /\ IsMap(Shown)
    BY <2>2, AppliedIs DEF Shown
  <2> QED BY <1>1, <2>1, <2>3 DEF MapAt, MapOf
<1>2. CASE key = "pulses"
  BY <1>2, PulsesAreMap DEF MapAt, MapOf, Inv
<1> QED BY <1>1, <1>2 DEF Keys

LEMMA MaskIs ==
  ASSUME Inv, NEW m, MaskOK(m, Keys, pulses, Shown)
  PROVE  /\ m.key \in Keys /\ SourceOf(m) = MapOf(m.key, pulses, Shown) /\ IsMap(SourceOf(m))
         /\ Aligned(m, SourceOf(m)) /\ m.source \in {None, SourceOf(m)}
BY MapsAre DEF MaskOK, SourceOf

LEMMA KeptOK ==
  ASSUME Inv, NEW m, MaskOK(m, Keys, pulses, Shown), NEW g, Kept(g, m, SourceOf(m))
  PROVE  MaskOK(g, Keys, pulses, Shown)
BY MaskIs DEF Kept, MaskOK

LEMMA MadeOK ==
  ASSUME Inv, NEW key \in Keys, NEW g, Made(g, key, MapAt(key))
  PROVE  MaskOK(g, Keys, pulses, Shown)
BY MapsAre DEF Made, MaskOK

LEMMA MaskedAlike ==
  ASSUME NEW m, NEW g, g.omkeys = m.omkeys, g.elements = m.elements, NEW map
  PROVE  Masked(g, map) = Masked(m, map)
BY DEF Masked, Element, Ordinal

\* A mask that remembers what it shows.
LEMMA Remembers ==
  ASSUME NEW m, NEW keys, NEW shown, MaskOK(m, keys, pulses, shown),
         NEW answer, m.key = "pulses" => answer = Masked(m, pulses)
  PROVE  LET g == [m EXCEPT !.masked = answer]
         IN  MaskOK(g, keys, pulses, shown) /\ g.key = m.key /\ Masked(g, pulses) = Masked(m, pulses)
<1> DEFINE g == [m EXCEPT !.masked = answer]
           map == MapOf(m.key, pulses, shown)
<1>1. Aligned(m, map)
  BY DEF MaskOK
<1>2. g = [key |-> m.key, omkeys |-> m.omkeys, elements |-> m.elements,
           source |-> m.source, masked |-> answer]
  BY <1>1 DEF Aligned
<1> HIDE DEF g, map
<1>3. /\ g.key = m.key /\ g.omkeys = m.omkeys /\ g.elements = m.elements
      /\ g.source = m.source /\ g.masked = answer
  BY <1>2
<1>4. \A i : Element(g, i) = Element(m, i)
  BY <1>3 DEF Element, Ordinal
<1>5. Aligned(g, map)
  BY <1>1, <1>2, <1>3, <1>4 DEF Aligned
<1>6. Masked(g, pulses) = Masked(m, pulses)
  BY <1>3, MaskedAlike
<1>7. MaskOK(g, keys, pulses, shown)
  BY <1>3, <1>5, <1>6 DEF MaskOK, map
<1> QED BY <1>3, <1>6, <1>7 DEF g

-----------------------------------------------------------------------------
(* The steps.                                                               *)

LEMMA InvStays ==
  ASSUME Inv, pulses' = pulses, parent' = parent, mask' = [a \in Masks |-> mask'[a]],
         \A a \in Masks : mask'[a] # None => MaskOK(mask'[a], Keys, pulses, Shown),
         parent # None => /\ MaskOK(mask'[parent], Keys, pulses, Shown) /\ mask'[parent].key = "pulses"
                          /\ Masked(mask'[parent], pulses) = Shown
  PROVE  Inv'
<1>1. Keys' = Keys
  BY DEF Keys
<1>2. ASSUME NEW m, MaskOK(m, Keys, pulses, Shown)
      PROVE  MaskOK(m, Keys', pulses', Shown')
  <2>1. CASE parent # None
    <3>1. Shown' = Masked(mask'[parent], pulses)
      BY DEF Shown
    <3> QED BY <1>1, <1>2, <2>1, <3>1
  <2>2. CASE parent = None
    <3>1. m.key = "pulses"
      BY <1>2, <2>2 DEF MaskOK, Keys
    <3> QED BY <1>1, <1>2, <3>1 DEF MaskOK, MapOf
  <2> QED BY <2>1, <2>2
<1>3. \A a \in Masks : mask'[a] # None => MaskOK(mask'[a], Keys', pulses', Shown')
  BY <1>2
<1>4. parent # None => parent \in Masks /\ MaskOK(mask'[parent], Keys', pulses', Shown')
  BY <1>2 DEF Inv
<1> QED BY <1>3, <1>4 DEF Inv

LEMMA OneChanges ==
  ASSUME Inv, NEW a \in Masks, a # parent, NEW m, MaskOK(m, Keys, pulses, Shown),
         mask' = [mask EXCEPT ![a] = m], pulses' = pulses, parent' = parent
  PROVE  Inv'
<1>1. mask' = [b \in Masks |-> IF b = a THEN m ELSE mask[b]]
  BY DEF Inv
<1>2. parent # None => parent \in Masks /\ mask'[parent] = mask[parent]
  BY <1>1 DEF Inv
<1>3. \A b \in Masks : mask'[b] # None => MaskOK(mask'[b], Keys, pulses, Shown)
  BY <1>1 DEF Inv
<1>4. mask' = [b \in Masks |-> mask'[b]]
  BY <1>1
<1> QED BY <1>2, <1>3, <1>4, InvStays DEF Inv, Shown

LEMMA InitInv ==
  ASSUME Init
  PROVE  Inv
BY DEF Init, Inv

LEMMA AskedIs ==
  ASSUME Inv, NEW key \in Keys, NEW masks, masks = [a \in Masks |-> masks[a]]
  PROVE  LET asked == Asked(masks, key)
         IN  asked = [a \in Masks |->
                        IF key = "mask" /\ a = parent THEN [masks[a] EXCEPT !.masked = Shown]
                        ELSE masks[a]]
<1>1. CASE key = "mask"
  BY <1>1, MapsAre DEF Asked, MapOf
<1>2. CASE key # "mask"
  BY <1>2 DEF Asked
<1> QED BY <1>1, <1>2

\* A mask was changed, and that in the frame was asked what it shows.
LEMMA OneAskedChanges ==
  ASSUME Inv, NEW a \in Masks, NEW m, MaskOK(m, Keys, pulses, Shown), NEW key \in Keys,
         a = parent => m.key = "pulses" /\ Masked(m, pulses) = Shown,
         mask' = Asked([mask EXCEPT ![a] = m], key), pulses' = pulses, parent' = parent
  PROVE  Inv'
<1> DEFINE masks == [b \in Masks |-> IF b = a THEN m ELSE mask[b]]
           answered(p) == [p EXCEPT !.masked = Shown]
<1>1. [mask EXCEPT ![a] = m] = masks
  BY DEF Inv
<1>2. mask' = [b \in Masks |-> IF key = "mask" /\ b = parent THEN answered(masks[b]) ELSE masks[b]]
  BY <1>1, AskedIs
<1>3. mask' = [b \in Masks |-> mask'[b]]
  BY <1>2
<1>4. ASSUME parent # None
      PROVE  /\ parent \in Masks /\ MaskOK(masks[parent], Keys, pulses, Shown)
             /\ masks[parent].key = "pulses" /\ Masked(masks[parent], pulses) = Shown
  BY <1>4 DEF Inv, Shown
<1>5. ASSUME parent # None
      PROVE  LET p == answered(masks[parent])
             IN  MaskOK(p, Keys, pulses, Shown) /\ p.key = "pulses" /\ Masked(p, pulses) = Shown
  BY <1>4, <1>5, Remembers
<1>6. \A b \in Masks : masks[b] # None => MaskOK(masks[b], Keys, pulses, Shown)
  BY DEF Inv
<1>7. key = "mask" => parent # None
  BY MapsAre
<1> HIDE DEF masks, answered
<1>8. \A b \in Masks : mask'[b] # None => MaskOK(mask'[b], Keys, pulses, Shown)
  BY <1>2, <1>5, <1>6, <1>7
<1>9. parent # None => /\ MaskOK(mask'[parent], Keys, pulses, Shown) /\ mask'[parent].key = "pulses"
                       /\ Masked(mask'[parent], pulses) = Shown
  BY <1>2, <1>4, <1>5
<1> QED BY <1>3, <1>8, <1>9, InvStays

LEMMA MakeStep ==
  ASSUME Inv, NEW a \in Masks, Make(a)
  PROVE  Inv'
<1>1. PICK key \in Keys : \E m : /\ MaskOK(m, Keys, pulses, Shown)
                                /\ a # parent /\ mask' = Asked([mask EXCEPT ![a] = m], key)
                                /\ UNCHANGED <<pulses, parent>>
  <2>1. PICK key \in Keys : \E map \in {MapAt(key)} :
          LET made(m, c) == /\ mask[a] = None /\ a # parent /\ map # None
                            /\ mask' = Asked([mask EXCEPT ![a] = m], key)
                            /\ call' = c @@ [op |-> "make", mask |-> a, over |-> key]
                            /\ UNCHANGED <<pulses, parent>>
              pairs == UNION {{n} \X DOMAIN map[n].pulses : n \in DOMAIN map}
          IN  \/ made(AllOf(key, map), [of |-> "all"])
              \/ \E some \in SUBSET pairs :
                   \/ \E modules \in SUBSET DOMAIN map : \E subset \in {Submap(map, modules, some)} :
                        made(OfSubset(key, map, subset), [of |-> "subset", subset |-> subset])
                   \/ \E holds \in {{<<map[x[1]].om, x[2] - 1>> : x \in some}} :
                        made(OfPredicate(key, map, holds), [of |-> "predicate", holds |-> holds])
    BY DEF Make
  <2> DEFINE map == MapAt(key)
             result(m) == /\ a # parent /\ mask' = Asked([mask EXCEPT ![a] = m], key)
                          /\ UNCHANGED <<pulses, parent>>
  <2>2. \/ result(AllOf(key, map))
        \/ \E subset : result(OfSubset(key, map, subset))
        \/ \E holds : result(OfPredicate(key, map, holds))
    BY <2>1
  <2>3. IsMap(map)
    BY MapsAre
  <2> HIDE DEF map
  <2>4. \E m : Made(m, key, map) /\ result(m)
    <3>1. CASE result(AllOf(key, map))
      BY <2>3, <3>1, AllFits
    <3>2. CASE \E subset : result(OfSubset(key, map, subset))
      BY <2>3, <3>2, SubsetFits
    <3>3. CASE \E holds : result(OfPredicate(key, map, holds))
      BY <2>3, <3>3, PredicateFits
    <3> QED BY <2>2, <3>1, <3>2, <3>3
  <2>5. \A m : Made(m, key, map) => MaskOK(m, Keys, pulses, Shown)
    BY MadeOK DEF map
  <2> QED BY <2>4, <2>5
<1> QED BY <1>1, OneAskedChanges

LEMMA SetOneStep ==
  ASSUME ~SetEmpty, Inv, NEW a \in Masks, SetOne(a)
  PROVE  Inv'
<1> DEFINE m == mask[a]
           map == SourceOf(m)
<1>1. MaskOK(m, Keys, pulses, Shown)
  BY DEF SetOne, Inv
<1>2. IsMap(map) /\ Aligned(m, map) /\ m.source \in {None, map}
  BY <1>1, MaskIs
<1>3. \E g : Kept(g, m, map) /\ a # parent /\ mask' = [mask EXCEPT ![a] = g]
            /\ UNCHANGED <<pulses, parent>>
  <2>1. PICK on \in BOOLEAN, i \in Indices(map) :
          LET changes(g, c) == Becomes(a, g, c @@ [op |-> "set", on |-> on, om |-> map[i + 1].om,
                                                   fixed |-> mask[a].source = None])
          IN  \/ /\ Series(map, i) # <<>> \/ ~on \/ SetEmpty
                 /\ changes(SetModule(mask[a], i, on), [what |-> "module"])
              \/ \E p \in Indices(Series(map, i)) :
                   changes(SetIndex(mask[a], i, p, on), [what |-> "index", index |-> p])
              \/ \E value \in UNION {ToSet(e.pulses) : e \in ToSet(pulses)} :
                   changes(SetValue(mask[a], i, value, on), [what |-> "value", value |-> value])
    BY DEF SetOne
  <2> DEFINE result(g) == a # parent /\ mask' = [mask EXCEPT ![a] = g] /\ UNCHANGED <<pulses, parent>>
  <2>2. \/ (Series(map, i) # <<>> \/ ~on) /\ result(SetModule(m, i, on))
        \/ \E p \in Indices(Series(map, i)) : result(SetIndex(m, i, p, on))
        \/ \E value : result(SetValue(m, i, value, on))
    BY <2>1 DEF Becomes
  <2> HIDE DEF m, map
  <2>3. CASE (Series(map, i) # <<>> \/ ~on) /\ result(SetModule(m, i, on))
    <3>1. Kept(SetModule(m, i, on), m, map)
      BY <1>2, <2>3, SetModuleFits
    <3> QED BY <2>3, <3>1
  <2>4. CASE \E p \in Indices(Series(map, i)) : result(SetIndex(m, i, p, on))
    <3>1. PICK p \in Indices(Series(map, i)) : result(SetIndex(m, i, p, on))
      BY <2>4
    <3>2. {p} \subseteq Indices(Series(map, i))
      OBVIOUS
    <3>3. Kept(SetIndex(m, i, p, on), m, map)
      BY <1>2, <3>2, SetPulsesFits DEF SetIndex
    <3> QED BY <3>1, <3>3
  <2>5. CASE \E value : result(SetValue(m, i, value, on))
    <3>1. PICK value : result(SetValue(m, i, value, on))
      BY <2>5
    <3> DEFINE some == IF m.source = None THEN {} ELSE FirstEqual(Series(m.source, i), value)
    <3>2. m.source # None => some \subseteq Indices(Series(map, i))
      BY <1>2 DEF FirstEqual
    <3>3. SetValue(m, i, value, on) = SetPulses(m, i, some, on)
      BY DEF SetValue
    <3> HIDE DEF some
    <3>4. Kept(SetValue(m, i, value, on), m, map)
      BY <1>2, <3>2, <3>3, SetPulsesFits
    <3> QED BY <3>1, <3>4
  <2> QED BY <2>2, <2>3, <2>4, <2>5
<1> HIDE DEF m
<1>4. PICK g : MaskOK(g, Keys, pulses, Shown) /\ a # parent /\ mask' = [mask EXCEPT ![a] = g]
             /\ UNCHANGED <<pulses, parent>>
  BY <1>1, <1>3, KeptOK
<1> QED BY <1>4, OneChanges

LEMMA ClearStep ==
  ASSUME Inv, NEW a \in Masks, Clear(a)
  PROVE  Inv'
<1> DEFINE m == mask[a]
<1>1. MaskOK(m, Keys, pulses, Shown)
  BY DEF Clear, Inv
<1>2. IsMap(SourceOf(m)) /\ Aligned(m, SourceOf(m))
  BY <1>1, MaskIs
<1>3. a # parent /\ mask' = [mask EXCEPT ![a] = SetNone(m)] /\ UNCHANGED <<pulses, parent>>
  BY DEF Clear, Becomes
<1> HIDE DEF m
<1>4. MaskOK(SetNone(m), Keys, pulses, Shown)
  BY <1>1, <1>2, SetNoneFits, KeptOK
<1> QED BY <1>3, <1>4, OneChanges

LEMMA CombineStep ==
  ASSUME Inv, NEW a \in Masks, NEW b \in Masks, Combine(a, b)
  PROVE  Inv'
<1> DEFINE l == mask[a]
           r == mask[b]
<1>1. MaskOK(l, Keys, pulses, Shown) /\ MaskOK(r, Keys, pulses, Shown) /\ l.key = r.key
  BY DEF Combine, Inv
<1>2. IsMap(SourceOf(l)) /\ Aligned(l, SourceOf(l)) /\ Aligned(r, SourceOf(l))
  BY <1>1, MaskIs
<1>3. PICK op \in {"and", "or", "xor", "remove"} :
        a # parent /\ mask' = [mask EXCEPT ![a] = Combined(op, l, r)] /\ UNCHANGED <<pulses, parent>>
  BY DEF Combine, Becomes
<1> HIDE DEF l, r
<1>4. MaskOK(Combined(op, l, r), Keys, pulses, Shown)
  BY <1>1, <1>2, CombinedFits, KeptOK
<1> QED BY <1>3, <1>4, OneChanges

LEMMA CopyStep ==
  ASSUME Inv, NEW a \in Masks, NEW b \in Masks, Copy(a, b)
  PROVE  Inv'
<1>1. MaskOK(mask[b], Keys, pulses, Shown)
  BY DEF Copy, Inv
<1>2. a # parent /\ mask' = [mask EXCEPT ![a] = mask[b]] /\ UNCHANGED <<pulses, parent>>
  BY DEF Copy, Becomes
<1> QED BY <1>1, <1>2, OneChanges

LEMMA ApplyStep ==
  ASSUME Inv, NEW a \in Masks, Apply(a)
  PROVE  Inv'
<1> DEFINE m == mask[a]
           shown == Applied(m, SourceOf(m))
           g == [m EXCEPT !.masked = shown]
<1>1. MaskOK(m, Keys, pulses, Shown)
  BY DEF Apply, Inv
<1>2. mask' = Asked([mask EXCEPT ![a] = g], m.key) /\ UNCHANGED <<pulses, parent>>
  BY DEF Apply
<1>3. m.key \in Keys /\ (m.key = "pulses" => SourceOf(m) = pulses)
  BY <1>1, MaskIs DEF MapOf
<1>4. m.key = "pulses" => shown = Masked(m, pulses)
  BY <1>1, <1>3, AppliedIs DEF Inv
<1>5. a = parent => m.key = "pulses" /\ Masked(m, pulses) = Shown
  <2>1. SUFFICES ASSUME a = parent PROVE m.key = "pulses" /\ Masked(m, pulses) = Shown
    OBVIOUS
  <2>2. CASE parent # None
    BY <2>1, <2>2 DEF Inv, Shown
  <2>3. CASE parent = None
    BY <1>3, <2>1, <2>3 DEF Keys, Shown
  <2> QED BY <2>2, <2>3
<1> HIDE DEF m, shown
<1>6. MaskOK(g, Keys, pulses, Shown) /\ g.key = m.key /\ Masked(g, pulses) = Masked(m, pulses)
  BY <1>1, <1>4, Remembers
<1> HIDE DEF g
<1> QED BY <1>2, <1>3, <1>5, <1>6, OneAskedChanges

LEMMA RepointStep ==
  ASSUME Inv, NEW a \in Masks, Repoint(a)
  PROVE  Inv'
<1> DEFINE m == mask[a]
           p == mask[parent]
           g == IF m.key = "pulses" THEN m ELSE Collapsed(m, p)
<1>1. MaskOK(m, Keys, pulses, Shown) /\ m.key \in Keys
  BY DEF Repoint, Inv, MaskOK
<1>2. a # parent /\ mask' = [mask EXCEPT ![a] = g] /\ UNCHANGED <<pulses, parent>>
  BY DEF Repoint, Becomes
<1>3. MaskOK(g, Keys, pulses, Shown)
  <2>1. CASE m.key = "pulses"
    BY <1>1, <2>1
  <2>2. CASE m.key # "pulses"
    <3>1. parent # None
      BY <1>1, <2>2, MapsAre
    <3>2. MaskOK(p, Keys, pulses, Shown)
      BY <3>1 DEF Inv
    <3>3. IsMap(SourceOf(p)) /\ Aligned(p, SourceOf(p))
      BY <3>2, MaskIs
    <3> HIDE DEF p, m
    <3>4. MaskOK(Collapsed(m, p), Keys, pulses, Shown)
      BY <3>2, <3>3, CollapsedFits, KeptOK
    <3> QED BY <2>2, <3>4
  <2> QED BY <2>1, <2>2
<1> HIDE DEF g
<1> QED BY <1>2, <1>3, OneChanges

LEMMA ReloadStep ==
  ASSUME Inv, NEW a \in Masks, Reload(a)
  PROVE  Inv'
<1> DEFINE m == mask[a]
           g == Reloaded(m)
<1>1. MaskOK(m, Keys, pulses, Shown)
  BY DEF Reload, Inv
<1>2. mask' = [b \in Masks |-> IF b = a THEN g ELSE mask[b]] /\ pulses' = pulses /\ parent' = parent
  BY DEF Reload, Inv
<1>3. IsMap(SourceOf(m)) /\ Aligned(m, SourceOf(m)) /\ SourceOf(m) = MapOf(m.key, pulses, Shown)
  BY <1>1, MaskIs
<1> HIDE DEF m
<1>4. Aligned(g, SourceOf(m)) /\ g.key = m.key /\ g.source = None /\ g.masked = None
      /\ Masked(g, SourceOf(m)) = Masked(m, SourceOf(m))
  BY <1>3, ReloadedFits
<1>5. MaskOK(g, Keys, pulses, Shown) /\ (m.key = "pulses" => Masked(g, pulses) = Masked(m, pulses))
  BY <1>1, <1>3, <1>4 DEF MaskOK, MapOf
<1> HIDE DEF g
<1>6. mask' = [b \in Masks |-> mask'[b]]
  BY <1>2
<1>7. \A b \in Masks : mask'[b] # None => MaskOK(mask'[b], Keys, pulses, Shown)
  BY <1>2, <1>5 DEF Inv
<1>8. ASSUME parent # None
      PROVE  /\ MaskOK(mask'[parent], Keys, pulses, Shown) /\ mask'[parent].key = "pulses"
             /\ Masked(mask'[parent], pulses) = Shown
  <2>1. /\ parent \in Masks /\ MaskOK(mask[parent], Keys, pulses, Shown)
        /\ mask[parent].key = "pulses" /\ Masked(mask[parent], pulses) = Shown
    BY <1>8 DEF Inv, Shown
  <2>2. CASE parent = a
    <3>1. m = mask[parent] /\ mask'[parent] = g
      BY <1>2, <2>1, <2>2 DEF m
    <3> QED BY <1>4, <1>5, <2>1, <3>1
  <2>3. CASE parent # a
    BY <1>2, <2>1, <2>3
  <2> QED BY <2>2, <2>3
<1> QED BY <1>2, <1>6, <1>7, <1>8, InvStays

\* Before a mask is put into the frame, there is none of what it shows.
LEMMA PutStep ==
  ASSUME Inv, NEW a \in Masks, Put(a)
  PROVE  Inv'
<1>1. parent = None /\ mask[a] # None /\ parent' = a /\ UNCHANGED <<pulses, mask>>
  BY DEF Put
<1>2. \A b \in Masks : mask[b] # None => mask[b].key = "pulses" /\ MaskOK(mask[b], Keys, pulses, Shown)
  BY <1>1 DEF Inv, MaskOK, Keys
<1>3. \A b \in Masks : mask[b] # None => MaskOK(mask[b], Keys', pulses, Shown')
  <2>1. "pulses" \in Keys'
    BY DEF Keys
  <2> QED BY <1>2, <2>1 DEF MaskOK, MapOf
<1> QED BY <1>1, <1>2, <1>3 DEF Inv

LEMMA InvNext ==
  ASSUME ~SetEmpty, Inv, [Next]_vars
  PROVE  Inv'
<1>1. CASE UNCHANGED vars
  <2>1. Keys' = Keys /\ Shown' = Shown
    BY <1>1 DEF vars, Keys, Shown
  <2> QED BY <1>1, <2>1 DEF vars, Inv
<1>2. CASE Next
  <2>1. PICK a \in Masks :
          \/ Make(a) \/ SetOne(a) \/ Clear(a) \/ Apply(a) \/ Repoint(a) \/ Reload(a) \/ Put(a)
          \/ \E b \in Masks : Combine(a, b) \/ Copy(a, b)
    BY <1>2 DEF Next
  <2> QED BY <2>1, MakeStep, SetOneStep, ClearStep, ApplyStep, RepointStep, ReloadStep, PutStep,
             CombineStep, CopyStep
<1> QED BY <1>1, <1>2

-----------------------------------------------------------------------------
(* The theorems.                                                            *)

\* Masks are always well-formed masks of the map they were made from, which
\* stays as it is, as long as nobody sets all pulses of a module that has none.
THEOREM MasksInvariant ==
  ASSUME ~SetEmpty
  PROVE  Spec => []Inv
<1>1. Init => Inv
  BY InitInv
<1>2. Inv /\ [Next]_vars => Inv'
  BY InvNext
<1> QED BY <1>1, <1>2, PTL DEF Spec

LEMMA InvAligned ==
  ASSUME Inv
  PROVE  BitsAligned
<1> SUFFICES ASSUME NEW a \in Masks, mask[a] # None
             PROVE  LET m == mask[a]  map == SourceOf(m)
                    IN  /\ Len(m.elements) = Cardinality(m.omkeys.bits)
                        /\ Length(m.omkeys) = Len(map) /\ m.omkeys.bits \subseteq Indices(map)
                        /\ \A i \in m.omkeys.bits :
                             /\ Length(Element(m, i)) = Len(Series(map, i))
                             /\ Element(m, i).bits \subseteq Indices(Series(map, i))
  BY DEF BitsAligned
<1>1. Aligned(mask[a], SourceOf(mask[a]))
  BY MaskIs DEF Inv
<1> QED BY <1>1 DEF Aligned, BitmaskFits

\* BitsAligned: bit and list entry are always matched by counting, in masks
\* changed, combined, repointed and loaded in any order (I3MapOMKeyMask.cxx:302).
THEOREM ListsAligned ==
  ASSUME ~SetEmpty
  PROVE  Spec => []BitsAligned
<1>1. Inv => BitsAligned
  BY InvAligned
<1> QED BY <1>1, MasksInvariant, PTL

-----------------------------------------------------------------------------
(* What queries tell.  The places of a map, and those a mask of it has.     *)

Places(map) == UNION {{i} \X Indices(Series(map, i)) : i \in Indices(map)}
Own(m) == UNION {{i} \X Element(m, i).bits : i \in m.omkeys.bits}

LEMMA InPlaces ==
  ASSUME NEW map, NEW x
  PROVE  x \in Places(map) <=>
           x = <<x[1], x[2]>> /\ x[1] \in Indices(map) /\ x[2] \in Indices(Series(map, x[1]))
BY DEF Places

LEMMA InOwn ==
  ASSUME NEW m, NEW x
  PROVE  x \in Own(m) <=>
           x = <<x[1], x[2]>> /\ x[1] \in m.omkeys.bits /\ x[2] \in Element(m, x[1]).bits
BY DEF Own

LEMMA OwnPlaces ==
  ASSUME NEW map, IsMap(map), NEW m, Aligned(m, map)
  PROVE  Own(m) \subseteq Places(map)
<1>1. \A i \in m.omkeys.bits : i \in Indices(map) /\ Element(m, i).bits \subseteq Indices(Series(map, i))
  BY AlignedIs DEF Aligned, BitmaskFits
<1> QED BY <1>1, InPlaces, InOwn

LEMMA BitsFinite ==
  ASSUME NEW map, IsMap(map), NEW m, Aligned(m, map), NEW i \in m.omkeys.bits
  PROVE  Element(m, i).bits \in Numbers
<1>1. i \in Indices(map) /\ Element(m, i).bits \subseteq Indices(Series(map, i))
  BY AlignedIs DEF Aligned, BitmaskFits
<1>2. Len(Series(map, i)) \in Nat
  BY <1>1, MapIndices
<1>3. IsFiniteSet(Indices(Series(map, i))) /\ Indices(Series(map, i)) \subseteq Int
  BY <1>2, FS_Interval DEF Indices
<1> QED BY <1>1, <1>3, FS_Subset DEF Numbers

\* Adding the bits of one more module.
LEMMA Column ==
  ASSUME NEW set, IsFiniteSet(set), NEW i, NEW bits, IsFiniteSet(bits), set \cap ({i} \X bits) = {}
  PROVE  /\ IsFiniteSet(set \cup ({i} \X bits))
         /\ Cardinality(set \cup ({i} \X bits)) = Cardinality(set) + Cardinality(bits)
<1> DEFINE one == {i}
           column == one \X bits
<1>1. IsFiniteSet(one) /\ Cardinality(one) = 1
  BY FS_Singleton
<1>2. set \cap column = {}
  OBVIOUS
<1> HIDE DEF one
<1>3. Cardinality(bits) \in Nat /\ Cardinality(set) \in Nat
  BY FS_CardinalityType
<1>4. IsFiniteSet(column) /\ Cardinality(column) = Cardinality(one) * Cardinality(bits)
  BY <1>1, FS_Product
<1> HIDE DEF column
<1>5. IsFiniteSet(column) /\ Cardinality(column) = Cardinality(bits)
  BY <1>1, <1>3, <1>4
<1>6. Cardinality(set \cap column) = 0
  BY <1>2, FS_EmptySet
<1>7. /\ IsFiniteSet(set \cup column)
      /\ Cardinality(set \cup column) = Cardinality(set) + Cardinality(column) - Cardinality(set \cap column)
  BY <1>5, FS_Union
<1>8. Cardinality(set \cup column) = Cardinality(set) + Cardinality(bits)
  BY <1>3, <1>5, <1>6, <1>7
<1> QED BY <1>7, <1>8 DEF column, one

\* The loop over the list counts the bits of each module once.
LEMMA SumIs ==
  ASSUME NEW map, IsMap(map), NEW m, Aligned(m, map)
  PROVE  IsFiniteSet(Own(m)) /\ GetSum(m) = Cardinality(Own(m))
<1> DEFINE bits == m.omkeys.bits
           n == Len(m.elements)
           Up(k) == UNION {{i} \X Element(m, i).bits : i \in {j \in bits : Rank(bits, j) < k}}
<1>1. /\ bits \in Numbers /\ n = Cardinality(bits) /\ n \in Nat
      /\ \A i \in bits : Rank(bits, i) \in 0 .. n - 1
  BY AlignedIs, RankOfMember
<1>2. PICK f : /\ f[0] = 0
               /\ \A k \in 1 .. n : f[k] = AddBits(f[k - 1], m.elements[k])
               /\ Summing!Fold(0, m.elements) = f[n]
  <2> DEFINE list == m.elements
  <2>1. Len(list) \in Nat
    BY <1>1
  <2> HIDE DEF list
  <2>2. \E f : /\ f[0] = 0
               /\ \A k \in 1 .. Len(list) : f[k] = AddBits(f[k - 1], list[k])
               /\ Summing!Fold(0, list) = f[Len(list)]
    BY <2>1, Summing!FoldStates
  <2> QED BY <2>2 DEF list
<1>3. \A x, k : x \in Up(k) <=> x = <<x[1], x[2]>> /\ x[1] \in bits /\ Rank(bits, x[1]) < k
                                /\ x[2] \in Element(m, x[1]).bits
  OBVIOUS
<1> DEFINE T == {k \in 0 .. n : IsFiniteSet(Up(k)) /\ f[k] = Cardinality(Up(k)) /\ f[k] \in Nat}
<1> HIDE DEF Up, n
<1>4. 0 \in T
  <2>1. Up(0) = {}
    <3>1. \A x : x \notin Up(0)
      BY <1>1, <1>3
    <3> QED BY <3>1
  <2> QED BY <1>1, <1>2, <2>1, FS_EmptySet
<1>5. ASSUME NEW k \in 0 .. n - 1, k \in T
      PROVE  k + 1 \in T
  <2>1. k + 1 \in 1 .. n /\ (k + 1) - 1 = k
    BY <1>1
  <2>2. PICK i \in bits : Rank(bits, i) = k
    BY <1>1, RankOnto
  <2> DEFINE B == Element(m, i).bits
  <2>3. m.elements[k + 1] = Element(m, i)
    BY <2>2 DEF Element, Ordinal
  <2>4. B \in Numbers
    BY BitsFinite
  <2>5. \A j \in bits : Rank(bits, j) < k + 1 <=> Rank(bits, j) < k \/ j = i
    BY <1>1, <2>2, RankOnto
  <2>6. Up(k + 1) = Up(k) \cup ({i} \X B)
    <3>1. \A x : x \in Up(k + 1) <=> x \in Up(k) \/ x \in {i} \X B
      BY <1>3, <2>5, <2>2
    <3> QED BY <3>1
  <2>7. Up(k) \cap ({i} \X B) = {}
    <3>1. \A x \in Up(k) : Rank(bits, x[1]) < k
      BY <1>3
    <3>2. \A x \in {i} \X B : x[1] = i
      OBVIOUS
    <3> QED BY <3>1, <3>2, <2>2
  <2> HIDE DEF B
  <2>8. IsFiniteSet(B) /\ Cardinality(B) \in Nat
    BY <2>4, FS_CardinalityType DEF Numbers
  <2>9. IsFiniteSet(Up(k + 1)) /\ Cardinality(Up(k + 1)) = Cardinality(Up(k)) + Cardinality(B)
    <3>1. IsFiniteSet(Up(k))
      BY <1>5
    <3> DEFINE up == Up(k)
    <3> HIDE DEF T
    <3>2. up \cap ({i} \X B) = {} /\ Up(k + 1) = up \cup ({i} \X B)
      BY <2>6, <2>7
    <3> HIDE DEF up
    <3>3. /\ IsFiniteSet(up \cup ({i} \X B))
          /\ Cardinality(up \cup ({i} \X B)) = Cardinality(up) + Cardinality(B)
      BY <2>8, <3>1, <3>2, Column DEF up
    <3> QED BY <3>2, <3>3 DEF up
  <2>10. f[k + 1] = f[k] + Cardinality(B)
    BY <1>2, <2>1, <2>3 DEF AddBits, B
  <2> QED BY <1>5, <2>1, <2>8, <2>9, <2>10
<1>6. 0 .. n \subseteq T
  <2> HIDE DEF T
  <2> QED BY <1>1, <1>4, <1>5, Summing!NatIndUpTo
<1>7. n \in T
  BY <1>1, <1>6
<1>8. Up(n) = Own(m)
  <2>1. \A x : x \in Up(n) <=> x \in Own(m)
    BY <1>1, <1>3, InOwn
  <2> QED BY <2>1
<1> QED BY <1>2, <1>7, <1>8 DEF GetSum, n

\* What is told of the places holds of pulses that correspond to them.
LEMMA Corresponds ==
  ASSUME NEW map, IsMap(map), NEW m, Aligned(m, map), NEW among, NEW place,
         \A x \in among : place[x] \in Places(map),
         \A x, y \in among : place[x] = place[y] => x = y,
         \A z \in Places(map) : \E x \in among : place[x] = z
  PROVE  LET chosen == {x \in among : place[x] \in Own(m)}
         IN  /\ GetSum(m) = Cardinality(chosen)
             /\ chosen = {} <=> Own(m) = {}
             /\ chosen = among <=> Own(m) = Places(map)
<1> DEFINE chosen == {x \in among : place[x] \in Own(m)}
           at == [x \in chosen |-> place[x]]
<1>1. Own(m) \subseteq Places(map)
  BY OwnPlaces
<1>2. at \in Bijection(chosen, Own(m))
  <2>1. at \in Injection(chosen, Own(m))
    BY DEF Injection, IsInjective
  <2>2. \A z \in Own(m) : \E x \in chosen : at[x] = z
    BY <1>1
  <2> QED BY <2>1, <2>2 DEF Bijection, Surjection, Injection
<1>3. ExistsBijection(Own(m), chosen)
  BY <1>2, Fun_ExistsBijSymmetric DEF ExistsBijection
<1>4. GetSum(m) = Cardinality(chosen)
  BY <1>3, SumIs, FS_Bijection
<1>5. chosen = {} <=> Own(m) = {}
  BY <1>1
<1>6. chosen = among <=> Own(m) = Places(map)
  BY <1>1
<1> QED BY <1>4, <1>5, <1>6

LEMMA AnySetIs ==
  ASSUME NEW map, IsMap(map), NEW m, Aligned(m, map)
  PROVE  /\ Own(m) # {} => GetAnySet(m)
         /\ GetAnySet(m) => Own(m) # {} \/ \E b \in ToSet(m.elements) : ~AnyBit(b)
<1>1. Own(m) # {} => GetAnySet(m)
  BY InOwn DEF GetAnySet, AnyBit
<1>2. ASSUME GetAnySet(m), Own(m) = {}
      PROVE  \E b \in ToSet(m.elements) : ~AnyBit(b)
  <2>1. PICK i \in m.omkeys.bits : TRUE
    BY <1>2 DEF GetAnySet, AnyBit
  <2>2. Element(m, i).bits = {}
    <3>1. \A p \in Element(m, i).bits : <<i, p>> \in Own(m)
      BY InOwn
    <3> QED BY <1>2, <3>1
  <2>3. Element(m, i) \in ToSet(m.elements)
    BY AlignedIs DEF Element, ToSet
  <2> QED BY <2>2, <2>3 DEF AnyBit
<1> QED BY <1>1, <1>2

LEMMA AllBitsIs ==
  ASSUME NEW b \in Bitmasks
  PROVE  AllBits(b) <=> b.bits = 0 .. Length(b) - 1
BY SetAllIs DEF AllBits

LEMMA AllSetIs ==
  ASSUME NEW map, IsMap(map), map # <<>>, NEW m, Aligned(m, map)
  PROVE  /\ GetAllSet(m) => Own(m) = Places(map)
         /\ Own(m) = Places(map) /\ (\A n \in DOMAIN map : map[n].pulses # <<>>) => GetAllSet(m)
<1>1. Len(map) \in Nat \ {0} /\ DOMAIN map = 1 .. Len(map)
  BY DEF IsMap
<1>2. m.omkeys \in Bitmasks /\ Length(m.omkeys) = Len(map)
  <2>1. /\ m.omkeys \in Omkeys /\ Length(m.omkeys) = Len(map)
    BY DEF Aligned
  <2>2. m.omkeys.size # 0
    BY <1>1, <2>1, WidthAssumption DEF Omkeys, Length
  <2> QED BY <2>1, <2>2 DEF Omkeys, Bitmasks
<1>3. AllBits(m.omkeys) <=> m.omkeys.bits = Indices(map)
  BY <1>2, AllBitsIs DEF Indices
<1>4. \A i \in m.omkeys.bits : AllBits(Element(m, i)) <=> Element(m, i).bits = Indices(Series(map, i))
  BY AlignedIs, AllBitsIs DEF BitmaskFits, Indices
<1>5. (\A n \in DOMAIN m.elements : AllBits(m.elements[n])) <=> \A i \in m.omkeys.bits : AllBits(Element(m, i))
  <2>1. \A i \in m.omkeys.bits : Ordinal(m, i) \in DOMAIN m.elements /\ Element(m, i) = m.elements[Ordinal(m, i)]
    BY AlignedIs DEF Element
  <2>2. ASSUME NEW n \in DOMAIN m.elements
        PROVE  \E i \in m.omkeys.bits : Element(m, i) = m.elements[n]
    <3>1. m.omkeys.bits \in Numbers /\ n \in 1 .. Cardinality(m.omkeys.bits) /\ Cardinality(m.omkeys.bits) \in Nat
      BY AlignedIs
    <3>2. PICK i \in m.omkeys.bits : Rank(m.omkeys.bits, i) = n - 1
      BY <3>1, RankOnto
    <3>3. Ordinal(m, i) = n
      BY <3>1, <3>2 DEF Ordinal
    <3> QED BY <3>3 DEF Element
  <2> QED BY <2>1, <2>2
<1>6. GetAllSet(m) <=> /\ m.omkeys.bits = Indices(map)
                       /\ \A i \in m.omkeys.bits : Element(m, i).bits = Indices(Series(map, i))
  BY <1>3, <1>4, <1>5 DEF GetAllSet
<1>7. ASSUME GetAllSet(m)
      PROVE  Own(m) = Places(map)
  <2>1. \A x : x \in Own(m) <=> x \in Places(map)
    BY <1>6, <1>7, InOwn, InPlaces
  <2> QED BY <2>1
<1>8. ASSUME Own(m) = Places(map), \A n \in DOMAIN map : map[n].pulses # <<>>
      PROVE  GetAllSet(m)
  <2>1. ASSUME NEW i \in Indices(map)
        PROVE  i \in m.omkeys.bits /\ Element(m, i).bits = Indices(Series(map, i))
    <3>1. Series(map, i) # <<>> /\ Len(Series(map, i)) \in Nat
      BY <1>1, <1>8, MapIndices DEF Series, Indices
    <3>2. Series(map, i) \in Seq(ToSet(Series(map, i)))
      BY MapIndices DEF IsMap, Series
    <3>3. 0 \in Indices(Series(map, i))
      BY <3>1, <3>2 DEF Indices
    <3>4. <<i, 0>> \in Own(m)
      BY <1>8, <3>3, InPlaces
    <3>5. i \in m.omkeys.bits
      BY <3>4, InOwn
    <3>6. \A p : p \in Element(m, i).bits <=> <<i, p>> \in Own(m)
      BY <3>5, InOwn
    <3>7. \A p : p \in Indices(Series(map, i)) <=> <<i, p>> \in Places(map)
      BY InPlaces
    <3>8. Element(m, i).bits = Indices(Series(map, i))
      <4>1. \A p : p \in Element(m, i).bits <=> p \in Indices(Series(map, i))
        BY <1>8, <3>6, <3>7
      <4> QED BY <4>1
    <3> QED BY <3>5, <3>8
  <2>2. m.omkeys.bits \subseteq Indices(map)
    BY DEF Aligned
  <2>3. m.omkeys.bits = Indices(map)
    BY <2>1, <2>2
  <2> QED BY <1>6, <2>1, <2>3
<1> QED BY <1>7, <1>8

-----------------------------------------------------------------------------
(* The pulses of a mask are in their places.                                *)

LEMMA InBase ==
  ASSUME NEW m, m.omkeys.bits \subseteq Int, \A i \in m.omkeys.bits : Element(m, i).bits \subseteq Int, NEW x
  PROVE  x \in BaseChosen(m) <=>
           /\ x = <<x[1], x[2]>> /\ x[1] \in Int /\ x[2] \in Int
           /\ x[1] - 1 \in m.omkeys.bits /\ x[2] - 1 \in Element(m, x[1] - 1).bits
<1>1. x \in BaseChosen(m) <=> \E i \in m.omkeys.bits : \E p \in Element(m, i).bits : x = <<i + 1, p + 1>>
  BY DEF BaseChosen
<1>2. ASSUME NEW i \in m.omkeys.bits, NEW p \in Element(m, i).bits, x = <<i + 1, p + 1>>
      PROVE  /\ x = <<x[1], x[2]>> /\ x[1] \in Int /\ x[2] \in Int
             /\ x[1] - 1 \in m.omkeys.bits /\ x[2] - 1 \in Element(m, x[1] - 1).bits
  <2>1. i \in Int /\ p \in Int /\ x[1] = i + 1 /\ x[2] = p + 1
    BY <1>2
  <2>2. x[1] - 1 = i /\ x[2] - 1 = p
    BY <2>1
  <2> QED BY <1>2, <2>1, <2>2
<1>3. ASSUME x = <<x[1], x[2]>>, x[1] \in Int, x[2] \in Int,
             x[1] - 1 \in m.omkeys.bits, x[2] - 1 \in Element(m, x[1] - 1).bits
      PROVE  \E i \in m.omkeys.bits : \E p \in Element(m, i).bits : x = <<i + 1, p + 1>>
  <2>1. (x[1] - 1) + 1 = x[1] /\ (x[2] - 1) + 1 = x[2]
    BY <1>3
  <2> QED BY <1>3, <2>1
<1> QED BY <1>1, <1>2, <1>3

LEMMA BitsAreInts ==
  ASSUME NEW map, IsMap(map), NEW m, Aligned(m, map)
  PROVE  m.omkeys.bits \subseteq Int /\ \A i \in m.omkeys.bits : Element(m, i).bits \subseteq Int
BY AlignedIs, BitsFinite DEF Numbers

\* What queries tell of a mask and the pulses it is said to be of.
Told(m, map, chosen, among) ==
  /\ GetSum(m) = Cardinality(chosen)
  /\ chosen # {} => GetAnySet(m)
  /\ GetAnySet(m) => chosen # {} \/ \E b \in ToSet(m.elements) : ~AnyBit(b)
  /\ map # <<>> /\ GetAllSet(m) => chosen = among
  /\ chosen = among /\ map # <<>> /\ (\A n \in DOMAIN map : map[n].pulses # <<>>) => GetAllSet(m)

LEMMA TellOf ==
  ASSUME NEW map, IsMap(map), NEW m, Aligned(m, map), NEW among, NEW place,
         \A x \in among : place[x] \in Places(map),
         \A x, y \in among : place[x] = place[y] => x = y,
         \A z \in Places(map) : \E x \in among : place[x] = z
  PROVE  Told(m, map, {x \in among : place[x] \in Own(m)}, among)
<1> DEFINE chosen == {x \in among : place[x] \in Own(m)}
<1>1. /\ GetSum(m) = Cardinality(chosen)
      /\ chosen = {} <=> Own(m) = {}
      /\ chosen = among <=> Own(m) = Places(map)
  BY Corresponds
<1> HIDE DEF chosen
<1>2. Told(m, map, chosen, among)
  BY <1>1, AnySetIs, AllSetIs DEF Told
<1> QED BY <1>2 DEF chosen

Every(map) == UNION {{n} \X DOMAIN map[n].pulses : n \in DOMAIN map}

LEMMA PulsesTell ==
  ASSUME NEW map, IsMap(map), NEW m, Aligned(m, map)
  PROVE  Told(m, map, BaseChosen(m), Every(map))
<1> DEFINE among == Every(map)
           place == [x \in among |-> <<x[1] - 1, x[2] - 1>>]
<1>1. /\ Len(map) \in Nat /\ DOMAIN map = 1 .. Len(map)
      /\ \A i \in Indices(map) : /\ i \in Nat /\ i + 1 \in DOMAIN map
                                 /\ Len(Series(map, i)) \in Nat
                                 /\ DOMAIN Series(map, i) = 1 .. Len(Series(map, i))
  BY MapIndices
<1>2. ASSUME NEW x
      PROVE  x \in among <=> /\ x = <<x[1], x[2]>> /\ x[1] \in Int /\ x[2] \in Int
                             /\ x[1] - 1 \in Indices(map) /\ x[2] - 1 \in Indices(Series(map, x[1] - 1))
  <2>1. x \in among <=> /\ x = <<x[1], x[2]>> /\ x[1] \in 1 .. Len(map)
                        /\ x[2] \in DOMAIN map[x[1]].pulses
    BY <1>1 DEF Every
  <2>2. ASSUME x[1] \in Int
        PROVE  /\ x[1] \in 1 .. Len(map) <=> x[1] - 1 \in Indices(map)
               /\ Series(map, x[1] - 1) = map[x[1]].pulses
    <3>1. (x[1] - 1) + 1 = x[1]
      BY <2>2
    <3> QED BY <1>1, <2>2, <3>1 DEF Indices, Series
  <2>3. ASSUME x[1] \in Int, x[1] - 1 \in Indices(map)
        PROVE  x[2] \in DOMAIN map[x[1]].pulses <=> x[2] \in Int /\ x[2] - 1 \in Indices(Series(map, x[1] - 1))
    <3>1. Len(Series(map, x[1] - 1)) \in Nat /\ DOMAIN map[x[1]].pulses = 1 .. Len(Series(map, x[1] - 1))
      BY <1>1, <2>2, <2>3
    <3> QED BY <3>1 DEF Indices
  <2> QED BY <1>1, <2>1, <2>2, <2>3
<1> HIDE DEF among
<1>3. \A x \in among : place[x] \in Places(map)
  BY <1>2, InPlaces
<1>4. \A x, y \in among : place[x] = place[y] => x = y
  <2> SUFFICES ASSUME NEW x \in among, NEW y \in among, place[x] = place[y] PROVE x = y
    OBVIOUS
  <2>1. x[1] - 1 = y[1] - 1 /\ x[2] - 1 = y[2] - 1
    OBVIOUS
  <2>2. x[1] = y[1] /\ x[2] = y[2]
    BY <1>2, <2>1
  <2> QED BY <1>2, <2>2
<1>5. ASSUME NEW z \in Places(map)
      PROVE  \E x \in among : place[x] = z
  <2>1. z = <<z[1], z[2]>> /\ z[1] \in Indices(map) /\ z[2] \in Indices(Series(map, z[1]))
    BY InPlaces
  <2>2. z[1] \in Int /\ z[2] \in Int
    BY <1>1, <2>1 DEF Indices
  <2> DEFINE x == <<z[1] + 1, z[2] + 1>>
  <2>3. x = <<x[1], x[2]>> /\ x[1] \in Int /\ x[2] \in Int /\ x[1] - 1 = z[1] /\ x[2] - 1 = z[2]
    BY <2>2
  <2>4. x \in among
    BY <1>2, <2>1, <2>3
  <2>5. place[x] = z
    BY <2>1, <2>3, <2>4
  <2> QED BY <2>4, <2>5
<1>6. BaseChosen(m) = {x \in among : place[x] \in Own(m)}
  <2>1. ASSUME NEW x
        PROVE  x \in BaseChosen(m) <=> x \in among /\ <<x[1] - 1, x[2] - 1>> \in Own(m)
    <3>1. x \in BaseChosen(m) <=> /\ x = <<x[1], x[2]>> /\ x[1] \in Int /\ x[2] \in Int
                                  /\ <<x[1] - 1, x[2] - 1>> \in Own(m)
      BY BitsAreInts, InBase, InOwn
    <3>2. <<x[1] - 1, x[2] - 1>> \in Own(m) =>
            x[1] - 1 \in Indices(map) /\ x[2] - 1 \in Indices(Series(map, x[1] - 1))
      BY OwnPlaces, InPlaces
    <3> QED BY <1>2, <3>1, <3>2
  <2> QED BY <2>1
<1> HIDE DEF place
<1>7. Told(m, map, {x \in among : place[x] \in Own(m)}, among)
  BY <1>3, <1>4, <1>5, TellOf
<1> QED BY <1>6, <1>7 DEF among

\* Counting from 1 instead of 0 does not change ranks.
LEMMA RankShift ==
  ASSUME NEW s \in Numbers, NEW i \in Int
  PROVE  Rank({j + 1 : j \in s}, i + 1) = Rank(s, i)
<1> DEFINE before == {j \in s : j < i}
           after == {j \in {k + 1 : k \in s} : j < i + 1}
           f == [j \in before |-> j + 1]
<1>1. s \subseteq Int
  BY DEF Numbers
<1>2. f \in Bijection(before, after)
  <2>1. f \in [before -> after]
    <3>1. ASSUME NEW j \in before
          PROVE  j + 1 \in after
      <4>1. j \in s /\ j + 1 < i + 1
        BY <1>1
      <4>2. j + 1 \in {k + 1 : k \in s}
        BY <4>1
      <4> QED BY <4>1, <4>2
    <3> HIDE DEF before, after
    <3> QED BY <3>1
  <2>2. \A j, k \in before : f[j] = f[k] => j = k
    BY <1>1
  <2>3. \A k \in after : \E j \in before : f[j] = k
    BY <1>1
  <2> HIDE DEF f, before, after
  <2> QED BY <2>1, <2>2, <2>3 DEF Bijection, Injection, Surjection, IsInjective
<1>3. IsFiniteSet(before)
  BY NumbersBefore DEF Numbers
<1> HIDE DEF before, after, f
<1>4. Cardinality(after) = Cardinality(before)
  BY <1>2, <1>3, FS_Bijection DEF ExistsBijection
<1> QED BY <1>4 DEF Rank, before, after

\* The places of what a mask shows.
LEMMA ShownPlaces ==
  ASSUME NEW map, IsMap(map), NEW m, Aligned(m, map)
  PROVE  LET shown == {i \in m.omkeys.bits : AnyBit(Element(m, i))}
             map2 == Masked(m, map)
         IN  /\ shown \in Numbers /\ Indices(map2) = 0 .. Cardinality(shown) - 1
             /\ \A i \in shown :
                  Indices(Series(map2, Rank(shown, i))) = 0 .. Cardinality(Element(m, i).bits) - 1
<1> DEFINE shown == {i \in m.omkeys.bits : AnyBit(Element(m, i))}
           order(i) == Sorted(Element(m, i).bits)
           pulsesOf(i) == [n \in DOMAIN order(i) |-> Series(map, i)[order(i)[n] + 1]]
           map2 == [n \in DOMAIN Sorted(shown) |->
                      [om |-> map[Sorted(shown)[n] + 1].om, pulses |-> pulsesOf(Sorted(shown)[n])]]
<1>1. Masked(m, map) = map2
  BY DEF Masked
<1>2. shown \in Numbers
  <2>1. m.omkeys.bits \in Numbers /\ shown \subseteq m.omkeys.bits
    BY AlignedIs
  <2> HIDE DEF shown
  <2> QED BY <2>1, FS_Subset DEF Numbers
<1>3. \A i \in shown : Element(m, i).bits \in Numbers
  BY BitsFinite
<1> HIDE DEF shown
<1>4. /\ DOMAIN Sorted(shown) = 1 .. Cardinality(shown) /\ Cardinality(shown) \in Nat
      /\ \A i \in shown : Rank(shown, i) + 1 \in DOMAIN Sorted(shown) /\ Sorted(shown)[Rank(shown, i) + 1] = i
  BY <1>2, SortedIs, RankType
<1>5. Len(map2) = Cardinality(shown)
  BY <1>4
<1>6. ASSUME NEW i \in shown
      PROVE  Series(map2, Rank(shown, i)) = pulsesOf(i)
  <2> HIDE DEF pulsesOf
  <2> DEFINE n == Rank(shown, i) + 1
  <2>1. n \in DOMAIN Sorted(shown) /\ Sorted(shown)[n] = i
    BY <1>4
  <2>2. Series(map2, Rank(shown, i)) = map2[n].pulses
    BY DEF Series
  <2> HIDE DEF n
  <2>3. map2[n].pulses = pulsesOf(Sorted(shown)[n])
    BY <2>1
  <2> QED BY <2>1, <2>2, <2>3
<1>7. ASSUME NEW i \in shown
      PROVE  Len(pulsesOf(i)) = Cardinality(Element(m, i).bits)
  <2>1. DOMAIN order(i) = 1 .. Cardinality(Element(m, i).bits) /\ Cardinality(Element(m, i).bits) \in Nat
    BY <1>3, SortedIs, RankType
  <2> HIDE DEF order
  <2> QED BY <2>1
<1> HIDE DEF map2, pulsesOf
<1>8. Indices(map2) = 0 .. Cardinality(shown) - 1
  BY <1>5 DEF Indices
<1>9. \A i \in shown : Indices(Series(map2, Rank(shown, i))) = 0 .. Cardinality(Element(m, i).bits) - 1
  BY <1>6, <1>7 DEF Indices
<1> QED BY <1>1, <1>2, <1>8, <1>9 DEF shown

LEMMA MasksTell ==
  ASSUME NEW map, IsMap(map), NEW p, Aligned(p, map), IsMap(Masked(p, map)),
         NEW m, Aligned(m, Masked(p, map))
  PROVE  Told(m, Masked(p, map), ChosenAmong(m, BaseChosen(p)), BaseChosen(p))
<1> DEFINE among == BaseChosen(p)
           map2 == Masked(p, map)
           shown == {i \in p.omkeys.bits : AnyBit(Element(p, i))}
           bits(i) == Element(p, i).bits
           oms == {x[1] : x \in among}
           of(x) == Rank(oms, x[1])
           nth(x) == Rank({y[2] : y \in {z \in among : z[1] = x[1]}}, x[2])
           place == [x \in among |-> <<of(x), nth(x)>>]
<1>1. p.omkeys.bits \subseteq Int /\ \A i \in p.omkeys.bits : bits(i) \subseteq Int /\ bits(i) \in Numbers
  BY BitsAreInts, BitsFinite
<1>2. /\ shown \in Numbers /\ Indices(map2) = 0 .. Cardinality(shown) - 1
      /\ \A i \in shown : Indices(Series(map2, Rank(shown, i))) = 0 .. Cardinality(bits(i)) - 1
  BY ShownPlaces
<1>3. \A x : x \in among <=> /\ x = <<x[1], x[2]>> /\ x[1] \in Int /\ x[2] \in Int
                             /\ x[1] - 1 \in p.omkeys.bits /\ x[2] - 1 \in bits(x[1] - 1)
  BY <1>1, InBase
<1>s. \A i : i \in shown <=> i \in p.omkeys.bits /\ bits(i) # {}
  BY DEF AnyBit
<1> HIDE DEF among, bits, shown, map2
<1>4. \A i \in shown : \A k \in bits(i) : <<i + 1, k + 1>> \in among
  <2> SUFFICES ASSUME NEW i \in shown, NEW k \in bits(i) PROVE <<i + 1, k + 1>> \in among
    OBVIOUS
  <2>1. i \in Int /\ k \in Int /\ i \in p.omkeys.bits
    BY <1>1, <1>s
  <2>2. (i + 1) - 1 = i /\ (k + 1) - 1 = k /\ i + 1 \in Int /\ k + 1 \in Int
    BY <2>1
  <2> QED BY <1>3, <2>1, <2>2
<1>5. ASSUME NEW x \in among
      PROVE  /\ x[1] - 1 \in shown /\ x[2] - 1 \in bits(x[1] - 1)
             /\ (x[1] - 1) + 1 = x[1] /\ (x[2] - 1) + 1 = x[2] /\ x[1] \in Int /\ x[2] \in Int
  BY <1>3, <1>s
<1>6. oms = {i + 1 : i \in shown}
  <2>1. ASSUME NEW i \in shown
        PROVE  i + 1 \in oms
    <3>1. PICK k \in bits(i) : TRUE
      BY <1>s
    <3>2. <<i + 1, k + 1>> \in among
      BY <1>4
    <3> QED BY <3>2
  <2>2. \A x \in among : x[1] \in {i + 1 : i \in shown}
    BY <1>5
  <2> QED BY <2>1, <2>2
<1>7. ASSUME NEW x \in among
      PROVE  {y[2] : y \in {z \in among : z[1] = x[1]}} = {k + 1 : k \in bits(x[1] - 1)}
  <2>1. ASSUME NEW k \in bits(x[1] - 1)
        PROVE  <<x[1], k + 1>> \in among
    BY <1>4, <1>5
  <2>2. \A y \in among : y[1] = x[1] => y[2] \in {k + 1 : k \in bits(x[1] - 1)}
    BY <1>5
  <2> QED BY <2>1, <2>2
<1>8. ASSUME NEW x \in among
      PROVE  of(x) = Rank(shown, x[1] - 1) /\ nth(x) = Rank(bits(x[1] - 1), x[2] - 1)
  <2>1. x[1] - 1 \in Int /\ x[2] - 1 \in Int /\ bits(x[1] - 1) \in Numbers
    BY <1>1, <1>5, <1>s
  <2>2. Rank({i + 1 : i \in shown}, (x[1] - 1) + 1) = Rank(shown, x[1] - 1)
    BY <1>2, <2>1, RankShift
  <2>3. Rank({k + 1 : k \in bits(x[1] - 1)}, (x[2] - 1) + 1) = Rank(bits(x[1] - 1), x[2] - 1)
    BY <2>1, RankShift
  <2> QED BY <1>5, <1>6, <1>7, <2>2, <2>3
<1> DEFINE chosen == {x \in among : place[x] \in Own(m)}
<1>c. ChosenAmong(m, among) = chosen
  <2>1. ChosenAmong(m, among) = {x \in among : of(x) \in m.omkeys.bits /\ nth(x) \in Element(m, of(x)).bits}
    BY DEF ChosenAmong, HasElement
  <2> HIDE DEF of, nth
  <2> QED BY <2>1, InOwn
<1>p. \A x \in among : place[x] = <<of(x), nth(x)>>
  OBVIOUS
<1> HIDE DEF place, of, nth, oms
<1>9. \A x \in among : place[x] = <<Rank(shown, x[1] - 1), Rank(bits(x[1] - 1), x[2] - 1)>>
  BY <1>8, <1>p
<1>10. ASSUME NEW x \in among
       PROVE  place[x] \in Places(map2)
  <2>1. bits(x[1] - 1) \in Numbers
    BY <1>1, <1>5, <1>s
  <2>2. /\ Rank(shown, x[1] - 1) \in 0 .. Cardinality(shown) - 1
        /\ Rank(bits(x[1] - 1), x[2] - 1) \in 0 .. Cardinality(bits(x[1] - 1)) - 1
    BY <1>2, <1>5, <2>1, RankOfMember
  <2>3. Indices(Series(map2, Rank(shown, x[1] - 1))) = 0 .. Cardinality(bits(x[1] - 1)) - 1
    BY <1>2, <1>5
  <2> DEFINE i == Rank(shown, x[1] - 1)
             k == Rank(bits(x[1] - 1), x[2] - 1)
  <2>4. place[x] = <<i, k>> /\ i \in Indices(map2) /\ k \in Indices(Series(map2, i))
    BY <1>2, <1>9, <2>2, <2>3
  <2> HIDE DEF i, k
  <2> QED BY <2>4, InPlaces
<1>11. ASSUME NEW x \in among, NEW y \in among, place[x] = place[y]
       PROVE  x = y
  <2>1. Rank(shown, x[1] - 1) = Rank(shown, y[1] - 1)
        /\ Rank(bits(x[1] - 1), x[2] - 1) = Rank(bits(y[1] - 1), y[2] - 1)
    BY <1>9, <1>11
  <2>2. x[1] - 1 = y[1] - 1
    BY <1>2, <1>5, <2>1, RankOnto
  <2>3. bits(x[1] - 1) \in Numbers
    BY <1>1, <1>5, <1>s
  <2>4. x[2] - 1 = y[2] - 1
    BY <1>5, <2>1, <2>2, <2>3, RankOnto
  <2>5. x[1] = y[1] /\ x[2] = y[2]
    BY <1>5, <2>2, <2>4
  <2> QED BY <1>3, <2>5
<1>12. ASSUME NEW z \in Places(map2)
       PROVE  \E x \in among : place[x] = z
  <2>1. z = <<z[1], z[2]>> /\ z[1] \in Indices(map2) /\ z[2] \in Indices(Series(map2, z[1]))
    BY InPlaces
  <2>2. PICK i \in shown : Rank(shown, i) = z[1]
    BY <1>2, <2>1, RankOnto
  <2>3. bits(i) \in Numbers /\ z[2] \in 0 .. Cardinality(bits(i)) - 1
    BY <1>1, <1>2, <1>s, <2>1, <2>2
  <2>4. PICK k \in bits(i) : Rank(bits(i), k) = z[2]
    BY <2>3, RankOnto
  <2> DEFINE x == <<i + 1, k + 1>>
  <2>5. x \in among
    BY <1>4
  <2>6. i \in Int /\ k \in Int
    BY <1>1, <1>s
  <2>7. x[1] - 1 = i /\ x[2] - 1 = k
    BY <2>6
  <2>8. place[x] = z
    BY <1>9, <2>1, <2>2, <2>4, <2>5, <2>7
  <2> QED BY <2>5, <2>8
<1>13. Told(m, map2, chosen, among)
  BY <1>10, <1>11, <1>12, TellOf DEF map2
<1> QED BY <1>13, <1>c DEF among, map2

-----------------------------------------------------------------------------
(* The theorem.                                                             *)

LEMMA MaskTells ==
  ASSUME Inv, NEW a \in Masks, mask[a] # None
  PROVE  Told(mask[a], SourceOf(mask[a]), ChosenOf(mask[a]), AmongOf(mask[a]))
<1> DEFINE m == mask[a]
<1>1. /\ m.key \in Keys /\ SourceOf(m) = MapOf(m.key, pulses, Shown)
      /\ IsMap(SourceOf(m)) /\ Aligned(m, SourceOf(m))
  BY MaskIs DEF Inv
<1> HIDE DEF m
<1>2. CASE m.key = "mask"
  <2>1. parent # None
    BY <1>1, <1>2 DEF Keys
  <2>2. MaskOK(mask[parent], Keys, pulses, Shown) /\ mask[parent].key = "pulses"
    BY <2>1 DEF Inv
  <2>3. IsMap(pulses) /\ Aligned(mask[parent], pulses)
    BY <2>2, PulsesAreMap DEF Inv, MaskOK, MapOf
  <2>4. SourceOf(m) = Masked(mask[parent], pulses)
    BY <1>1, <1>2 DEF MapOf, Shown
  <2>5. Told(m, SourceOf(m), ChosenAmong(m, BaseChosen(mask[parent])), BaseChosen(mask[parent]))
    BY <1>1, <2>3, <2>4, MasksTell
  <2> QED BY <1>2, <2>5 DEF ChosenOf, AmongOf, m
<1>3. CASE m.key # "mask"
  <2>1. SourceOf(m) = pulses
    BY <1>1, <1>3 DEF MapOf
  <2>2. Told(m, pulses, BaseChosen(m), Every(pulses))
    BY <1>1, <2>1, PulsesTell
  <2>3. AmongOf(m) = Every(pulses) /\ ChosenOf(m) = BaseChosen(m)
    BY <1>3 DEF AmongOf, ChosenOf, AllPulses, Every
  <2> QED BY <2>1, <2>2, <2>3 DEF m
<1> QED BY <1>2, <1>3

LEMMA EqualMasks ==
  ASSUME NEW m, NEW g, SameMask(m, g)
  PROVE  ChosenOf(g) = ChosenOf(m)
<1>1. g.key = m.key /\ g.omkeys = m.omkeys /\ g.elements = m.elements
  BY DEF SameMask
<1>2. \A i : Element(g, i) = Element(m, i) /\ (HasElement(g, i) <=> HasElement(m, i))
  BY <1>1 DEF Element, Ordinal, HasElement
<1>3. BaseChosen(g) = BaseChosen(m)
  BY <1>1, <1>2 DEF BaseChosen
<1>4. \A some : ChosenAmong(g, some) = ChosenAmong(m, some)
  BY <1>2 DEF ChosenAmong
<1> QED BY <1>1, <1>3, <1>4 DEF ChosenOf, AmongOf

\* QueriesTell: get_sum counts just the pulses chosen, also those of a mask of
\* a mask, and get_any_set, get_all_set and == err on the side that the
\* property says, if at all (I3MapOMKeyMask.cxx:140).
THEOREM QueriesRight ==
  ASSUME ~SetEmpty
  PROVE  Spec => []QueriesTell
<1>1. ASSUME Inv
      PROVE  QueriesTell
  <2> SUFFICES ASSUME NEW a \in Masks, mask[a] # None
               PROVE  LET m == mask[a]
                      IN  /\ Told(m, SourceOf(m), ChosenOf(m), AmongOf(m))
                          /\ \A b \in Masks : mask[b] # None /\ SameMask(m, mask[b]) =>
                               ChosenOf(mask[b]) = ChosenOf(m)
    BY DEF QueriesTell, Told
  <2> QED BY <1>1, MaskTells, EqualMasks
<1> QED BY <1>1, MasksInvariant, PTL
=============================================================================
