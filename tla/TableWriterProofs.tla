------------------------- MODULE TableWriterProofs -------------------------
(***************************************************************************)
(* Tables that several writers share stay aligned, their indices point to  *)
(* their rows, and the file is closed when all writers are done, for any   *)
(* keys, converters and frames.                                            *)
(***************************************************************************)
EXTENDS TableWriter, TLAPS

-----------------------------------------------------------------------------
(* What the user is asked for: an event is booked by one writer only, as   *)
(* each writer books one stream, and writers that share a table use the    *)
(* same converter for it.                                                  *)

OwnEvents == \A w, v \in Writers : w # v => Streams[w] \intersect Streams[v] = {}

SameTables ==
  \A w, v \in Writers : w # v =>
    \A k \in Key : \A c \in Wants(w, k), d \in Wants(v, k) : c = d

-----------------------------------------------------------------------------
(* The invariant.                                                          *)

Converters == UNION {UNION {Wants(w, k) : k \in Key} : w \in Writers}

Rows == [event : Nat, exists : BOOLEAN, size : Nat]
IndexRows == [event : Nat, exists : BOOLEAN, start : Nat, stop : Nat]
Tables == [converter : Converters, rows : Seq(Rows), index : Seq(IndexRows),
           nrowsWithPadding : Nat, lastHeader : Nat, connected : BOOLEAN]

\* The events were seen in the order of the frames.
CacheOK(cache) ==
  /\ cache \in Seq(Nat \ {0})
  /\ \A i, j \in DOMAIN cache : i < j => cache[i] < cache[j]

PointsTo(entry, rows) ==
  /\ entry.stop <= Len(rows)
  /\ \A j \in DOMAIN rows :
       rows[j].exists /\ rows[j].event = entry.event
         <=> entry.exists /\ entry.start < j /\ j <= entry.stop

\* A table is about the first p events that were seen.
Reaches(t, cache, p) ==
  /\ p \in 0 .. Len(cache)
  /\ t.lastHeader = IF p = 0 THEN NoEvent ELSE cache[p]
  /\ DoPadding(t) => Len(t.rows) = p /\ \A i \in 1 .. p : t.rows[i].event = cache[i]
  /\ UseIndex(t) =>
       /\ Len(t.index) = p
       /\ \A i \in 1 .. p : t.index[i].event = cache[i] /\ PointsTo(t.index[i], t.rows)
       /\ t.nrowsWithPadding = Len(t.rows)
       /\ \A j \in DOMAIN t.rows : \E i \in 1 .. p : t.rows[j].event = cache[i]
  /\ ~UseIndex(t) => t.index = <<>>

TableOK(t, cache) == t \in Tables /\ \E p \in 0 .. Len(cache) : Reaches(t, cache, p)

ServiceOK(s) ==
  /\ s = [tables |-> s.tables, listed |-> s.listed, cache |-> s.cache]
  /\ s.tables = [n \in DOMAIN s.tables |-> s.tables[n]]
  /\ CacheOK(s.cache)
  /\ \A n \in DOMAIN s.tables : TableOK(s.tables[n], s.cache)

\* Every table a writer has, the one it says, is the service's.
Bundles == [converter : Converters, table : Key \X Nat]
BundlesOK(s, w, bs) ==
  /\ bs \in [Key -> Seq(Bundles)]
  /\ \A k \in Key : \A i \in DOMAIN bs[k] :
       /\ bs[k][i].converter \in Wants(w, k)
       /\ bs[k][i].table = <<k, i - 1>>
       /\ <<k, i - 1>> \in DOMAIN s.tables
       /\ s.tables[<<k, i - 1>>].converter = bs[k][i].converter

\* Some writer has the table.
Had(n, bs) == \E w \in Writers : \E k \in Key : \E i \in DOMAIN bs[w][k] : n = <<k, i - 1>>

\* Before the first writer finishes, all tables are in use.
InUse(s, bs) ==
  /\ s.listed = DOMAIN s.tables
  /\ \A n \in DOMAIN s.tables : s.tables[n].connected /\ Had(n, bs)

\* After that a table is complete once it was let go of.
LetGo(s, bs) ==
  /\ s.listed = {}
  /\ \A n \in DOMAIN s.tables :
       \/ s.tables[n].connected /\ Had(n, bs)
       \/ ~s.tables[n].connected /\ Reaches(s.tables[n], s.cache, Len(s.cache))

FrameRecs == [id : Nat \ {0}, stop : {kind.stop : kind \in FrameKinds},
              stream : {kind.stream : kind \in FrameKinds},
              objects : {kind.objects : kind \in FrameKinds},
              seenBy : SUBSET Writers]

FramesOK ==
  /\ frames \in Seq(FrameRecs)
  /\ \A i \in DOMAIN frames : frames[i].id = i
  /\ at \in 0 .. NumWriters
  /\ at # 0 => frames # <<>>
  /\ \A i \in DOMAIN service.cache : service.cache[i] <= Len(frames)

\* A frame that is still to be booked is a new event.
NewEvent ==
  at # 0 /\ Last(frames).stop = Physics
      /\ (\E w \in at .. NumWriters : Handled(w, Last(frames)))
    => \A i \in DOMAIN service.cache : service.cache[i] < Len(frames)

WantsOK(w, wanted) ==
  /\ wanted \in [Key -> Seq(Converters)]
  /\ \A k \in Key : \A i \in DOMAIN wanted[k] : wanted[k][i] \in Wants(w, k)

WantedOK ==
  /\ wantedNames = [w \in Writers |-> wantedNames[w]]
  /\ \A w \in Writers : WantsOK(w, wantedNames[w])

BundlesAre == bundles = [w \in Writers |-> bundles[w]]

Inv ==
  /\ strict \in BOOLEAN
  /\ FramesOK
  /\ NewEvent
  /\ WantedOK
  /\ BundlesAre
  /\ ServiceOK(service)
  /\ \A w \in Writers : BundlesOK(service, w, bundles[w])
  /\ finished \in 0 .. NumWriters
  /\ finished = 0 => open /\ InUse(service, bundles)
  /\ finished # 0 => /\ at = 0
                     /\ LetGo(service, bundles)
                     /\ \A w \in 1 .. finished : bundles[w] = [k \in Key |-> <<>>]

\* With two writers no table is in use when the file is closed; the last of
\* more may find it closed, see ClosedWhenDisconnected.
ClosedInv == open \/ \A n \in DOMAIN service.tables : ~service.tables[n].connected

-----------------------------------------------------------------------------
(* Padding.                                                                *)

\* The place of a table's last event in the cache is found.
LEMMA AfterPlace ==
  ASSUME NEW cache, CacheOK(cache), NEW p \in 0 .. Len(cache)
  PROVE  After(IF p = 0 THEN NoEvent ELSE cache[p], cache) = p
<1>1. CASE p = 0
  BY <1>1 DEF After
<1>2. CASE p # 0
  <2> DEFINE P(i) == /\ i > 0 => cache[i] = cache[p]
                     /\ \A j \in i + 1 .. Len(cache) : cache[j] # cache[p]
  <2>1. p \in DOMAIN cache /\ DOMAIN cache = 1 .. Len(cache) /\ Len(cache) \in Nat
        /\ \A j \in DOMAIN cache : cache[j] \in Nat \ {0}
    BY <1>2 DEF CacheOK
  <2>2. \A j \in DOMAIN cache : j > p => cache[j] # cache[p]
    <3> SUFFICES ASSUME NEW j \in DOMAIN cache, j > p PROVE cache[j] # cache[p]
      OBVIOUS
    <3>1. cache[p] < cache[j]
      BY <2>1 DEF CacheOK
    <3> QED BY <2>1, <3>1
  <2>3. P(p)
    BY <2>1, <2>2
  <2>4. ASSUME NEW i \in 0 .. Len(cache), P(i)
        PROVE  i = p
    <3>1. ~(i < p)
      BY <2>1, <2>4
    <3>2. ~(i > p)
      BY <2>1, <2>2, <2>4
    <3> QED BY <2>1, <3>1, <3>2
  <2>5. cache[p] # NoEvent
    BY <2>1 DEF NoEvent
  <2> HIDE DEF P
  <2>6. (CHOOSE i \in 0 .. Len(cache) : P(i)) = p
    BY <2>3, <2>4
  <2> QED BY <1>2, <2>5, <2>6 DEF After, P
<1> QED BY <1>1, <1>2

\* The number of events seen before the one with a header.
Before(header, cache) ==
  IF cache # <<>> /\ header = cache[Len(cache)] THEN Len(cache) - 1 ELSE Len(cache)

LEMMA MissedIs ==
  ASSUME NEW cache, CacheOK(cache), NEW p \in 0 .. Len(cache), NEW header
  PROVE  Missed(IF p = 0 THEN NoEvent ELSE cache[p], header, cache)
           = SubSeq(cache, p + 1, Before(header, cache))
<1>1. CASE cache = <<>>
  <2>1. p = 0 /\ Len(cache) = 0
    BY <1>1
  <2>2. SubSeq(<<>>, 1, 0) = <<>>
    OBVIOUS
  <2> QED BY <1>1, <2>1, <2>2 DEF Missed, Before
<1>2. CASE cache # <<>>
  BY <1>2, AfterPlace DEF Missed, Before, UpTo, Last
<1> QED BY <1>1, <1>2

-----------------------------------------------------------------------------
(* Rows after rows.                                                        *)

\* c is a and then b.
Joins(a, b, c) ==
  /\ Len(a) \in Nat /\ Len(b) \in Nat /\ Len(c) = Len(a) + Len(b)
  /\ DOMAIN a = 1 .. Len(a) /\ DOMAIN b = 1 .. Len(b) /\ DOMAIN c = 1 .. Len(c)
  /\ \A j \in 1 .. Len(c) : \/ j \in 1 .. Len(a) /\ c[j] = a[j]
                            \/ j - Len(a) \in 1 .. Len(b) /\ c[j] = b[j - Len(a)]

LEMMA Concat ==
  ASSUME NEW S, NEW a \in Seq(S), NEW b \in Seq(S)
  PROVE  a \o b \in Seq(S) /\ Joins(a, b, a \o b)
<1>1. Len(a) \in Nat /\ Len(b) \in Nat /\ DOMAIN a = 1 .. Len(a) /\ DOMAIN b = 1 .. Len(b)
  OBVIOUS
<1>2. a \o b \in Seq(S) /\ Len(a \o b) = Len(a) + Len(b)
  OBVIOUS
<1>3. DOMAIN (a \o b) = 1 .. Len(a) + Len(b)
  BY <1>2
<1>4. \A j \in 1 .. Len(a) + Len(b) : (a \o b)[j] = IF j <= Len(a) THEN a[j] ELSE b[j - Len(a)]
  OBVIOUS
<1> QED BY <1>1, <1>2, <1>3, <1>4 DEF Joins

LEMMA FunctionSeq ==
  ASSUME NEW S, NEW n \in Nat, NEW f \in [1 .. n -> S]
  PROVE  f \in Seq(S) /\ Len(f) = n /\ DOMAIN f = 1 .. n
OBVIOUS

\* Rows about the events after place p, up to place m.
About(rows, cache, p, m) ==
  Len(rows) = m - p /\ \A i \in 1 .. m - p : rows[i].event = cache[p + i]

LEMMA AboutJoined ==
  ASSUME NEW a, NEW b, NEW c, Joins(a, b, c), NEW cache, NEW p \in Nat, NEW m \in Nat,
         p <= m, About(a, cache, 0, p), About(b, cache, p, m)
  PROVE  About(c, cache, 0, m)
<1>1. Len(a) = p /\ Len(b) = m - p /\ Len(c) = m
  BY DEF Joins, About
<1>2. ASSUME NEW i \in 1 .. m
      PROVE  c[i].event = cache[i]
  <2>1. \/ i \in 1 .. p /\ c[i] = a[i]
        \/ i - p \in 1 .. m - p /\ c[i] = b[i - p]
    BY <1>1 DEF Joins
  <2>2. p + (i - p) = i
    OBVIOUS
  <2> QED BY <2>1, <2>2 DEF About
<1> QED BY <1>1, <1>2 DEF About

\* More rows that an entry is not about leave it right.
LEMMA StillPointsTo ==
  ASSUME NEW a \in Seq(Rows), NEW b \in Seq(Rows), NEW entry \in IndexRows, PointsTo(entry, a),
         \A j \in DOMAIN b : ~(b[j].exists /\ b[j].event = entry.event)
  PROVE  PointsTo(entry, a \o b)
<1>1. entry.stop \in Nat /\ entry.start \in Nat
  BY DEF IndexRows
<1> DEFINE c == a \o b
<1>2. Joins(a, b, c)
  BY Concat
<1> HIDE DEF c
<1>3. entry.stop <= Len(a) /\ Len(a) \in Nat /\ Len(b) \in Nat /\ Len(c) = Len(a) + Len(b)
  BY <1>2 DEF PointsTo, Joins
<1>4. ASSUME NEW j \in DOMAIN c
      PROVE  c[j].exists /\ c[j].event = entry.event
               <=> entry.exists /\ entry.start < j /\ j <= entry.stop
  <2>1. j \in 1 .. Len(c)
    BY <1>2 DEF Joins
  <2>2. CASE j \in 1 .. Len(a) /\ c[j] = a[j]
    <3>1. j \in DOMAIN a
      BY <1>2, <2>2 DEF Joins
    <3> QED BY <2>2, <3>1 DEF PointsTo
  <2>3. CASE j - Len(a) \in 1 .. Len(b) /\ c[j] = b[j - Len(a)]
    <3>1. j - Len(a) \in DOMAIN b
      BY <1>2, <2>3 DEF Joins
    <3>2. ~(j <= entry.stop)
      BY <1>1, <1>3, <2>1, <2>3
    <3> QED BY <2>3, <3>1, <3>2
  <2> QED BY <1>2, <2>1, <2>2, <2>3 DEF Joins
<1>5. entry.stop <= Len(c)
  BY <1>1, <1>3
<1> QED BY <1>4, <1>5 DEF PointsTo, c

\* The entry of an event of which there are no rows.
LEMMA PointsToNone ==
  ASSUME NEW a \in Seq(Rows), NEW event \in Nat,
         \A j \in DOMAIN a : ~(a[j].exists /\ a[j].event = event)
  PROVE  PointsTo(IndexRow(event, FALSE, 0, 0), a)
BY DEF PointsTo, IndexRow

-----------------------------------------------------------------------------
(* What AddRow and Align do to a table.                                    *)

\* What is written for the events a table has missed.
LEMMA PaddingIs ==
  ASSUME NEW cache, CacheOK(cache), NEW p \in 0 .. Len(cache), NEW m \in p .. Len(cache),
         NEW missed, missed = SubSeq(cache, p + 1, m)
  PROVE  /\ PaddingRows(missed) \in Seq(Rows) /\ Len(PaddingRows(missed)) = m - p
         /\ \A i \in 1 .. m - p : PaddingRows(missed)[i] = Row(cache[p + i], FALSE, 1)
         /\ IndexPadding(missed) \in Seq(IndexRows) /\ Len(IndexPadding(missed)) = m - p
         /\ \A i \in 1 .. m - p : IndexPadding(missed)[i] = IndexRow(cache[p + i], FALSE, 0, 0)
         /\ \A j \in DOMAIN PaddingRows(missed) : ~PaddingRows(missed)[j].exists
<1>1. /\ cache \in Seq(Nat) /\ Len(cache) \in Nat /\ DOMAIN cache = 1 .. Len(cache)
      /\ \A i \in 1 .. Len(cache) : cache[i] \in Nat
  BY DEF CacheOK
<1>2. /\ missed \in Seq(Nat) /\ Len(missed) = m - p
      /\ \A i \in 1 .. m - p : missed[i] = cache[p + i]
  BY <1>1
<1>3. PICK n \in Nat : n = m - p
  BY <1>1
<1>4. DOMAIN missed = 1 .. n
  BY <1>2, <1>3
<1>5. \A i \in 1 .. n : missed[i] \in Nat
  BY <1>2, <1>4
<1>6. PaddingRows(missed) = [i \in 1 .. n |-> Row(missed[i], FALSE, 1)]
  BY <1>4 DEF PaddingRows
<1>7. IndexPadding(missed) = [i \in 1 .. n |-> IndexRow(missed[i], FALSE, 0, 0)]
  BY <1>4 DEF IndexPadding
<1>8. \A i \in 1 .. n : Row(missed[i], FALSE, 1) \in Rows /\ ~Row(missed[i], FALSE, 1).exists
  BY <1>5 DEF Row, Rows
<1>9. \A i \in 1 .. n : IndexRow(missed[i], FALSE, 0, 0) \in IndexRows
  BY <1>5 DEF IndexRow, IndexRows
<1>10. PaddingRows(missed) \in Seq(Rows) /\ Len(PaddingRows(missed)) = n
  <2>1. PaddingRows(missed) \in [1 .. n -> Rows]
    BY <1>6, <1>8
  <2> QED BY <2>1, FunctionSeq
<1>11. IndexPadding(missed) \in Seq(IndexRows) /\ Len(IndexPadding(missed)) = n
  <2>1. IndexPadding(missed) \in [1 .. n -> IndexRows]
    BY <1>7, <1>9
  <2> QED BY <2>1, FunctionSeq
<1>12. \A i \in 1 .. n : /\ PaddingRows(missed)[i] = Row(cache[p + i], FALSE, 1)
                         /\ IndexPadding(missed)[i] = IndexRow(cache[p + i], FALSE, 0, 0)
  BY <1>2, <1>3, <1>6, <1>7
<1>13. \A j \in DOMAIN PaddingRows(missed) : ~PaddingRows(missed)[j].exists
  BY <1>6, <1>8
<1> QED BY <1>3, <1>10, <1>11, <1>12, <1>13

\* A table with the events it missed.
Pad(t, missed, last) ==
  LET padding == IF DoPadding(t) THEN PaddingRows(missed) ELSE <<>>
  IN  [converter |-> t.converter, rows |-> t.rows \o padding,
       index |-> IF UseIndex(t) THEN t.index \o IndexPadding(missed) ELSE t.index,
       nrowsWithPadding |-> t.nrowsWithPadding + Len(padding),
       lastHeader |-> last, connected |-> t.connected]

LEMMA PadOK ==
  ASSUME NEW cache, CacheOK(cache), NEW t \in Tables, NEW p \in 0 .. Len(cache),
         Reaches(t, cache, p), NEW m \in p .. Len(cache), NEW missed,
         missed = SubSeq(cache, p + 1, m), NEW last, last = IF m = 0 THEN NoEvent ELSE cache[m]
  PROVE  /\ Pad(t, missed, last) \in Tables
         /\ Reaches(Pad(t, missed, last), cache, m)
<1> DEFINE pad == IF DoPadding(t) THEN PaddingRows(missed) ELSE <<>>
           u == Pad(t, missed, last)
           rows == t.rows \o pad
<1>1. /\ cache \in Seq(Nat) /\ Len(cache) \in Nat /\ DOMAIN cache = 1 .. Len(cache)
      /\ \A i \in 1 .. Len(cache) : cache[i] \in Nat
      /\ p \in Nat /\ m \in Nat /\ p <= m /\ m <= Len(cache)
  BY DEF CacheOK
<1>2. last \in Nat
  BY <1>1 DEF NoEvent
<1>3. /\ t.rows \in Seq(Rows) /\ t.index \in Seq(IndexRows) /\ t.nrowsWithPadding \in Nat
      /\ t.converter \in Converters /\ t.connected \in BOOLEAN
  BY DEF Tables
<1> DEFINE more == PaddingRows(missed)
           new == IndexPadding(missed)
           index == t.index \o new
<1>4. /\ more \in Seq(Rows) /\ Len(more) = m - p /\ DOMAIN more = 1 .. m - p
      /\ new \in Seq(IndexRows) /\ Len(new) = m - p /\ DOMAIN new = 1 .. m - p
      /\ \A i \in 1 .. m - p : /\ ~more[i].exists /\ more[i].event = cache[p + i]
                               /\ new[i] = IndexRow(cache[p + i], FALSE, 0, 0)
                               /\ new[i].event = cache[p + i]
  <2>1. /\ more \in Seq(Rows) /\ Len(more) = m - p
        /\ new \in Seq(IndexRows) /\ Len(new) = m - p
        /\ \A i \in 1 .. m - p : /\ more[i] = Row(cache[p + i], FALSE, 1)
                                 /\ new[i] = IndexRow(cache[p + i], FALSE, 0, 0)
    BY PaddingIs
  <2>2. \A e : /\ ~Row(e, FALSE, 1).exists /\ Row(e, FALSE, 1).event = e
               /\ IndexRow(e, FALSE, 0, 0).event = e
    BY DEF Row, IndexRow
  <2> HIDE DEF more, new
  <2>3. DOMAIN more = 1 .. m - p /\ DOMAIN new = 1 .. m - p
    BY <2>1
  <2> QED BY <2>1, <2>2, <2>3
<1> HIDE DEF more, new
<1>5. /\ pad \in Seq(Rows)
      /\ \A j \in DOMAIN pad : ~pad[j].exists /\ j \in 1 .. m - p /\ pad[j].event = cache[p + j]
  <2>1. CASE DoPadding(t)
    BY <1>4, <2>1 DEF more
  <2>2. CASE ~DoPadding(t)
    BY <2>2
  <2> QED BY <2>1, <2>2
<1>6. DoPadding(t) => Len(pad) = m - p /\ \A i \in 1 .. m - p : pad[i].event = cache[p + i]
  BY <1>4 DEF more
<1>7. u = [converter |-> t.converter, rows |-> rows,
           index |-> IF UseIndex(t) THEN index ELSE t.index,
           nrowsWithPadding |-> t.nrowsWithPadding + Len(pad),
           lastHeader |-> last, connected |-> t.connected]
  BY DEF Pad, new
<1>8. /\ rows \in Seq(Rows) /\ Len(rows) = Len(t.rows) + Len(pad) /\ Len(pad) \in Nat
      /\ index \in Seq(IndexRows) /\ Joins(t.rows, pad, rows) /\ Joins(t.index, new, index)
  <2>1. rows \in Seq(Rows) /\ Joins(t.rows, pad, rows)
    BY <1>3, <1>5, Concat
  <2>2. index \in Seq(IndexRows) /\ Joins(t.index, new, index)
    BY <1>3, <1>4, Concat
  <2> QED BY <2>1, <2>2 DEF Joins
<1> HIDE DEF u, pad
<1>9. u \in Tables
  <2>1. (IF UseIndex(t) THEN index ELSE t.index) \in Seq(IndexRows)
    BY <1>3, <1>8
  <2>2. t.nrowsWithPadding + Len(pad) \in Nat
    BY <1>3, <1>8
  <2> HIDE DEF rows, index
  <2> QED BY <1>2, <1>3, <1>7, <1>8, <2>1, <2>2 DEF Tables
<1>10. (DoPadding(u) <=> DoPadding(t)) /\ (UseIndex(u) <=> UseIndex(t))
       /\ u.rows = rows /\ u.lastHeader = last
  BY <1>7 DEF DoPadding, UseIndex
<1>11. ASSUME DoPadding(t)
       PROVE  Len(rows) = m /\ \A i \in 1 .. m : rows[i].event = cache[i]
  <2>1. Len(t.rows) = p /\ \A i \in 1 .. p : t.rows[i].event = cache[i]
    BY <1>11 DEF Reaches
  <2> HIDE DEF rows
  <2>2. Len(pad) = m - p /\ \A i \in 1 .. m - p : pad[i].event = cache[p + i]
    BY <1>6, <1>11
  <2>3. p \in Nat /\ m \in Nat /\ p <= m /\ Joins(t.rows, pad, rows)
    BY <1>1, <1>8
  <2>4. About(t.rows, cache, 0, p) /\ About(pad, cache, p, m)
    BY <2>1, <2>2, <2>3 DEF About
  <2>5. About(rows, cache, 0, m)
    BY <2>3, <2>4, AboutJoined
  <2> QED BY <1>1, <2>5 DEF About
<1>12. ASSUME UseIndex(t)
       PROVE  /\ Len(index) = m
              /\ \A i \in 1 .. m : index[i].event = cache[i] /\ PointsTo(index[i], rows)
              /\ t.nrowsWithPadding + Len(pad) = Len(rows)
              /\ \A j \in DOMAIN rows : \E i \in 1 .. m : rows[j].event = cache[i]
  <2>1. /\ Len(t.index) = p
        /\ \A i \in 1 .. p : t.index[i].event = cache[i] /\ PointsTo(t.index[i], t.rows)
        /\ t.nrowsWithPadding = Len(t.rows)
        /\ \A j \in DOMAIN t.rows : \E i \in 1 .. p : t.rows[j].event = cache[i]
    BY <1>12 DEF Reaches
  <2> HIDE DEF index
  <2>3. Len(index) = m /\ \A i \in 1 .. m : index[i].event = cache[i]
    <3>1. p \in Nat /\ m \in Nat /\ p <= m /\ Joins(t.index, new, index)
      BY <1>1, <1>8
    <3>2. Len(new) = m - p /\ \A i \in 1 .. m - p : new[i].event = cache[p + i]
      BY <1>4
    <3>3. About(t.index, cache, 0, p) /\ About(new, cache, p, m)
      BY <2>1, <3>1, <3>2 DEF About
    <3>4. About(index, cache, 0, m)
      BY <3>1, <3>3, AboutJoined
    <3> QED BY <1>1, <3>4 DEF About
  <2>4. DOMAIN t.index = 1 .. p
    BY <1>3, <2>1
  <2>5. ASSUME NEW i \in 1 .. p
        PROVE  PointsTo(t.index[i], rows)
    <3>1. t.index[i] \in IndexRows /\ PointsTo(t.index[i], t.rows)
      BY <1>3, <2>1, <2>4
    <3> QED BY <1>3, <1>5, <3>1, StillPointsTo
  <2>6. ASSUME NEW i \in 1 .. m - p
        PROVE  PointsTo(new[i], rows)
    <3>1. p + i \in 1 .. Len(cache) /\ cache[p + i] \in Nat
      BY <1>1
    <3>2. ASSUME NEW j \in DOMAIN rows
          PROVE  ~(rows[j].exists /\ rows[j].event = cache[p + i])
      <4>1. CASE j \in 1 .. Len(t.rows) /\ rows[j] = t.rows[j]
        <5>0. j \in DOMAIN t.rows
          BY <1>8, <4>1 DEF Joins
        <5>1. PICK h \in 1 .. p : t.rows[j].event = cache[h]
          BY <2>1, <5>0
        <5>2. h \in DOMAIN cache /\ p + i \in DOMAIN cache /\ h < p + i
          BY <1>1
        <5>3. cache[h] < cache[p + i] /\ cache[h] \in Nat
          BY <1>1, <5>2 DEF CacheOK
        <5> QED BY <3>1, <4>1, <5>1, <5>3
      <4>2. CASE j - Len(t.rows) \in 1 .. Len(pad) /\ rows[j] = pad[j - Len(t.rows)]
        BY <1>5, <1>8, <4>2 DEF Joins
      <4> QED BY <1>8, <4>1, <4>2 DEF Joins
    <3> HIDE DEF rows
    <3>3. PointsTo(IndexRow(cache[p + i], FALSE, 0, 0), rows)
      BY <1>8, <3>1, <3>2, PointsToNone
    <3> QED BY <1>4, <3>3
  <2>7. ASSUME NEW i \in 1 .. m
        PROVE  PointsTo(index[i], rows)
    <3>1. \/ i \in 1 .. p /\ index[i] = t.index[i]
          \/ i - p \in 1 .. m - p /\ index[i] = new[i - p]
      BY <1>4, <1>8, <2>1, <2>3 DEF Joins
    <3> HIDE DEF rows
    <3> QED BY <2>5, <2>6, <3>1
  <2>8. ASSUME NEW j \in DOMAIN rows
        PROVE  \E i \in 1 .. m : rows[j].event = cache[i]
    <3>1. CASE j \in 1 .. Len(t.rows) /\ rows[j] = t.rows[j]
      <4>1. j \in DOMAIN t.rows
        BY <1>8, <3>1 DEF Joins
      <4>2. PICK i \in 1 .. p : t.rows[j].event = cache[i]
        BY <2>1, <4>1
      <4>3. i \in 1 .. m
        BY <1>1
      <4> QED BY <3>1, <4>2, <4>3
    <3>2. CASE j - Len(t.rows) \in 1 .. Len(pad) /\ rows[j] = pad[j - Len(t.rows)]
      <4> DEFINE i == j - Len(t.rows)
      <4>1. i \in 1 .. m - p /\ pad[i].event = cache[p + i]
        BY <1>5, <1>8, <3>2 DEF Joins
      <4>2. rows[j] = pad[i]
        BY <3>2
      <4> HIDE DEF i
      <4>3. p + i \in 1 .. m
        BY <1>1, <4>1
      <4> QED BY <4>1, <4>2, <4>3
    <3> QED BY <1>8, <3>1, <3>2 DEF Joins
  <2>9. t.nrowsWithPadding + Len(pad) = Len(rows)
    BY <1>8, <2>1
  <2> QED BY <2>3, <2>7, <2>8, <2>9
<1>13. UseIndex(t) => u.index = index /\ u.nrowsWithPadding = t.nrowsWithPadding + Len(pad)
  BY <1>7
<1> HIDE DEF rows, index
<1>14. ~UseIndex(u) => u.index = <<>>
  <2>1. ~UseIndex(t) => t.index = <<>>
    BY DEF Reaches
  <2>2. ~UseIndex(t) => u.index = t.index
    BY <1>7
  <2> QED BY <1>10, <2>1, <2>2
<1>15. Reaches(u, cache, m)
  <2>1. m \in 0 .. Len(cache)
    BY <1>1
  <2> QED BY <2>1, <1>10, <1>11, <1>12, <1>13, <1>14 DEF Reaches
<1> QED BY <1>9, <1>15 DEF u

\* A table after Align is about all events that were seen.
LEMMA AlignOK ==
  ASSUME NEW cache, CacheOK(cache), NEW t, TableOK(t, cache)
  PROVE  /\ Align(t, cache) \in Tables
         /\ Reaches(Align(t, cache), cache, Len(cache))
         /\ Align(t, cache).converter = t.converter
         /\ Align(t, cache).connected = t.connected
<1>1. PICK p \in 0 .. Len(cache) : Reaches(t, cache, p)
  BY DEF TableOK
<1>2. Len(cache) \in Nat /\ NoEvent \notin {cache[i] : i \in 1 .. Len(cache)} /\ p \in Nat
      /\ \A i \in 1 .. Len(cache) : cache[i] \in Nat
  BY DEF CacheOK, NoEvent
<1> DEFINE m == Len(cache)
           last == IF m = 0 THEN NoEvent ELSE cache[m]
           missed == SubSeq(cache, p + 1, m)
<1>3. Before(NoEvent, cache) = m
  <2>1. CASE cache = <<>>
    BY <2>1 DEF Before
  <2>2. CASE cache # <<>>
    <3>1. m # 0
      BY <2>2 DEF CacheOK
    <3>2. cache[m] # NoEvent
      BY <1>2, <3>1
    <3> QED BY <3>2 DEF Before
  <2> QED BY <2>1, <2>2
<1>4. Missed(t.lastHeader, NoEvent, cache) = missed
  BY <1>1, <1>3, MissedIs DEF Reaches
<1>5. last = IF cache = <<>> THEN NoEvent ELSE Last(cache)
  BY DEF Last, CacheOK
<1>6. t = [converter |-> t.converter, rows |-> t.rows, index |-> t.index,
           nrowsWithPadding |-> t.nrowsWithPadding, lastHeader |-> t.lastHeader,
           connected |-> t.connected]
  BY DEF TableOK, Tables
<1> HIDE DEF last, missed
<1>7. Align(t, cache) = Pad(t, missed, last)
  <2> DEFINE padding == IF DoPadding(t) THEN PaddingRows(missed) ELSE <<>>
             index == IF UseIndex(t) THEN t.index \o IndexPadding(missed) ELSE t.index
  <2>1. Align(t, cache) = [t EXCEPT !.rows = @ \o padding, !.nrowsWithPadding = @ + Len(padding),
                                    !.index = index, !.lastHeader = last]
    BY <1>4, <1>5 DEF Align
  <2>2. Pad(t, missed, last) =
          [converter |-> t.converter, rows |-> t.rows \o padding, index |-> index,
           nrowsWithPadding |-> t.nrowsWithPadding + Len(padding),
           lastHeader |-> last, connected |-> t.connected]
    BY DEF Pad
  <2> HIDE DEF padding, index
  <2> QED BY <1>6, <2>1, <2>2
<1>8. Pad(t, missed, last).converter = t.converter /\ Pad(t, missed, last).connected = t.connected
  BY DEF Pad
<1>9. m \in p .. Len(cache)
  BY <1>2
<1>10. Pad(t, missed, last) \in Tables /\ Reaches(Pad(t, missed, last), cache, m)
  BY <1>1, <1>9, PadOK DEF missed, last, TableOK
<1> QED BY <1>7, <1>8, <1>10

\* The service takes note of an event: it comes last, unless it was there.
Extends(longer, cache) ==
  Len(cache) <= Len(longer) /\ \A i \in 1 .. Len(cache) : longer[i] = cache[i]

LEMMA HeaderIs ==
  ASSUME NEW cache, CacheOK(cache), NEW id \in Nat \ {0}, NEW nrows \in Nat \ {0},
         \A i \in DOMAIN cache : cache[i] <= id,
         NEW m, m = Before(id, cache), NEW longer, longer = HeaderWritten(cache, id, nrows)
  PROVE  /\ CacheOK(longer) /\ Extends(longer, cache)
         /\ m \in 0 .. Len(cache) /\ Len(longer) = m + 1 /\ longer[m + 1] = id
         /\ \A i \in DOMAIN longer : longer[i] <= id
<1>1. /\ Len(cache) \in Nat /\ DOMAIN cache = 1 .. Len(cache)
      /\ \A i \in 1 .. Len(cache) : cache[i] \in Nat \ {0} /\ cache[i] <= id
      /\ \A i, j \in 1 .. Len(cache) : i < j => cache[i] < cache[j]
  BY DEF CacheOK
<1>2. CASE cache # <<>> /\ id = cache[Len(cache)]
  <2>1. longer = cache /\ m = Len(cache) - 1 /\ Len(cache) # 0
    BY <1>2 DEF HeaderWritten, Before, Last, CacheOK
  <2> QED BY <1>1, <1>2, <2>1 DEF Extends
<1>3. CASE cache = <<>> \/ id # cache[Len(cache)]
  <2>1. longer = Append(cache, id) /\ m = Len(cache)
    BY <1>3 DEF HeaderWritten, Before, Last, NoEvent
  <2>2. /\ longer \in Seq(Nat \ {0}) /\ Len(longer) = m + 1 /\ DOMAIN longer = 1 .. m + 1
        /\ \A i \in 1 .. m : longer[i] = cache[i]
        /\ longer[m + 1] = id
    BY <1>1, <2>1 DEF CacheOK
  <2>3. \A i \in 1 .. m : cache[i] < id
    <3> SUFFICES ASSUME NEW i \in 1 .. m PROVE cache[i] < id
      OBVIOUS
    <3>1. cache[m] # id /\ cache[m] <= id /\ cache[m] \in Nat
      BY <1>1, <1>3, <2>1
    <3>2. i = m \/ cache[i] < cache[m]
      BY <1>1, <2>1
    <3>3. cache[i] \in Nat
      BY <1>1, <2>1
    <3> QED BY <3>1, <3>2, <3>3
  <2>4. \A i, j \in 1 .. m + 1 : i < j => longer[i] < longer[j]
    <3> SUFFICES ASSUME NEW i \in 1 .. m + 1, NEW j \in 1 .. m + 1, i < j
                 PROVE  longer[i] < longer[j]
      OBVIOUS
    <3>1. m \in Nat
      BY <1>1, <2>1
    <3>2. i \in 1 .. m /\ (j \in 1 .. m \/ j = m + 1)
      BY <3>1
    <3> QED BY <1>1, <2>1, <2>2, <2>3, <3>2
  <2>5. \A i \in 1 .. m + 1 : longer[i] <= id
    <3> SUFFICES ASSUME NEW i \in 1 .. m + 1 PROVE longer[i] <= id
      OBVIOUS
    <3>1. i \in 1 .. m \/ i = m + 1
      BY <1>1, <2>1
    <3> QED BY <1>1, <2>1, <2>2, <3>1
  <2> QED BY <1>1, <2>1, <2>2, <2>4, <2>5 DEF CacheOK, Extends
<1> QED BY <1>2, <1>3

\* A table is about the same events when more have been seen.
LEMMA StillReaches ==
  ASSUME NEW cache, CacheOK(cache), NEW longer, CacheOK(longer), Extends(longer, cache),
         NEW t, NEW p \in 0 .. Len(cache), Reaches(t, cache, p)
  PROVE  p \in 0 .. Len(longer) /\ Reaches(t, longer, p)
<1>1. Len(cache) \in Nat /\ Len(longer) \in Nat /\ Len(cache) <= Len(longer)
  BY DEF CacheOK, Extends
<1>2. p \in 0 .. Len(longer) /\ \A i \in 1 .. p : longer[i] = cache[i]
  BY <1>1 DEF Extends
<1>3. p # 0 => p \in 1 .. p
  BY <1>1
<1> QED BY <1>2, <1>3 DEF Reaches

-----------------------------------------------------------------------------
(* AddRow with a header.                                                   *)

\* The rows of an object that has some.
LEMMA RealRowsAre ==
  ASSUME NEW f, f.id \in Nat, NEW nrows \in Nat \ {0}, NEW real, real = RealRows(f, nrows)
  PROVE  /\ real \in Seq(Rows) /\ Len(real) = IF strict THEN 1 ELSE nrows
         /\ DOMAIN real = 1 .. Len(real)
         /\ \A i \in DOMAIN real : real[i].exists /\ real[i].event = f.id
<1>1. \A size \in Nat : /\ Row(f.id, TRUE, size) \in Rows
                        /\ Row(f.id, TRUE, size).exists /\ Row(f.id, TRUE, size).event = f.id
  BY DEF Row, Rows
<1>2. CASE strict
  <2>1. real = <<Row(f.id, TRUE, nrows)>>
    BY <1>2 DEF RealRows
  <2>2. Row(f.id, TRUE, nrows) \in Rows
    BY <1>1
  <2>3. Len(real) = 1 /\ DOMAIN real = 1 .. 1 /\ real[1] = Row(f.id, TRUE, nrows)
        /\ real \in Seq(Rows)
    <3>1. \A x \in Rows : /\ Len(<<x>>) = 1 /\ <<x>>[1] = x /\ <<x>> \in Seq(Rows)
                          /\ DOMAIN <<x>> = 1 .. 1
      OBVIOUS
    <3> QED BY <2>1, <2>2, <3>1
  <2>4. \A i \in 1 .. 1 : i = 1
    OBVIOUS
  <2> QED BY <1>1, <1>2, <2>3, <2>4
<1>3. CASE ~strict
  <2>1. real = [i \in 1 .. nrows |-> Row(f.id, TRUE, 1)]
    BY <1>3 DEF RealRows
  <2>2. real \in [1 .. nrows -> Rows]
    BY <1>1, <2>1
  <2>3. real \in Seq(Rows) /\ Len(real) = nrows /\ DOMAIN real = 1 .. nrows
    BY <2>2, FunctionSeq
  <2>4. \A i \in 1 .. nrows : real[i] = Row(f.id, TRUE, 1)
    BY <2>1
  <2>5. Row(f.id, TRUE, 1).exists /\ Row(f.id, TRUE, 1).event = f.id
    BY <1>1
  <2> QED BY <1>3, <2>3, <2>4, <2>5
<1> QED BY <1>2, <1>3

\* A table with the rows of an event that comes next.
WithRows(u, f, nrows) ==
  [converter |-> u.converter, rows |-> u.rows \o RealRows(f, nrows),
   index |-> IF UseIndex(u)
             THEN u.index \o <<IndexRow(f.id, TRUE, u.nrowsWithPadding, u.nrowsWithPadding + nrows)>>
             ELSE u.index,
   nrowsWithPadding |-> u.nrowsWithPadding + nrows, lastHeader |-> f.id,
   connected |-> u.connected]

LEMMA WithRowsOK ==
  ASSUME strict \in BOOLEAN, NEW cache, CacheOK(cache), NEW u \in Tables, NEW m \in Nat,
         Reaches(u, cache, m), Len(cache) = m + 1, NEW f, f.id \in Nat \ {0}, cache[m + 1] = f.id,
         NEW nrows \in Nat \ {0}, u.converter.multi \in BOOLEAN, ~u.converter.multi => nrows = 1
  PROVE  WithRows(u, f, nrows) \in Tables /\ Reaches(WithRows(u, f, nrows), cache, m + 1)
<1> DEFINE w == WithRows(u, f, nrows)
           real == RealRows(f, nrows)
           rows == u.rows \o real
           entry == IndexRow(f.id, TRUE, u.nrowsWithPadding, u.nrowsWithPadding + nrows)
           new == <<entry>>
           index == u.index \o new
<1>1. /\ u.rows \in Seq(Rows) /\ u.index \in Seq(IndexRows) /\ u.nrowsWithPadding \in Nat
      /\ u.converter \in Converters /\ u.connected \in BOOLEAN
  BY DEF Tables
<1>2. /\ real \in Seq(Rows) /\ Len(real) = IF strict THEN 1 ELSE nrows
      /\ DOMAIN real = 1 .. Len(real)
      /\ \A i \in DOMAIN real : real[i].exists /\ real[i].event = f.id
  BY RealRowsAre
<1>3. /\ entry \in IndexRows /\ entry.event = f.id /\ entry.exists
      /\ entry.start = u.nrowsWithPadding /\ entry.stop = u.nrowsWithPadding + nrows
  BY <1>1 DEF IndexRow, IndexRows
<1> HIDE DEF entry, real
<1>4. new \in Seq(IndexRows) /\ Len(new) = 1 /\ new[1] = entry
  BY <1>3
<1>5. rows \in Seq(Rows) /\ Joins(u.rows, real, rows)
  BY <1>1, <1>2, Concat
<1>6. index \in Seq(IndexRows) /\ Joins(u.index, new, index)
  BY <1>1, <1>4, Concat
<1>7. w = [converter |-> u.converter, rows |-> rows,
           index |-> IF UseIndex(u) THEN index ELSE u.index,
           nrowsWithPadding |-> u.nrowsWithPadding + nrows, lastHeader |-> f.id,
           connected |-> u.connected]
  BY DEF WithRows, entry, real
<1> HIDE DEF new, rows, index, w
<1>8. w \in Tables
  <2>1. (IF UseIndex(u) THEN index ELSE u.index) \in Seq(IndexRows)
    BY <1>1, <1>6
  <2>2. u.nrowsWithPadding + nrows \in Nat
    BY <1>1
  <2> QED BY <1>1, <1>5, <1>7, <2>1, <2>2 DEF Tables
<1>9. /\ (DoPadding(w) <=> DoPadding(u)) /\ (UseIndex(w) <=> UseIndex(u))
      /\ w.rows = rows /\ w.lastHeader = f.id
      /\ UseIndex(u) => w.index = index /\ w.nrowsWithPadding = u.nrowsWithPadding + nrows
  BY <1>7 DEF DoPadding, UseIndex
<1>10. ASSUME DoPadding(u)
       PROVE  Len(rows) = m + 1 /\ \A i \in 1 .. m + 1 : rows[i].event = cache[i]
  <2>1. About(u.rows, cache, 0, m)
    BY <1>10 DEF Reaches, About
  <2>2. Len(real) = 1
    BY <1>2, <1>10 DEF DoPadding
  <2>3. About(real, cache, m, m + 1)
    <3>1. 1 \in DOMAIN real /\ (m + 1) - m = 1
      BY <1>2, <2>2
    <3>2. real[1].event = cache[m + 1]
      BY <1>2, <3>1
    <3>3. \A i \in 1 .. 1 : i = 1
      OBVIOUS
    <3> QED BY <2>2, <3>1, <3>2, <3>3 DEF About
  <2>4. About(rows, cache, 0, m + 1)
    BY <1>5, <2>1, <2>3, AboutJoined
  <2> QED BY <2>4 DEF About
<1>11. ASSUME UseIndex(u)
       PROVE  /\ Len(index) = m + 1
              /\ \A i \in 1 .. m + 1 : index[i].event = cache[i] /\ PointsTo(index[i], rows)
              /\ u.nrowsWithPadding + nrows = Len(rows)
              /\ \A j \in DOMAIN rows : \E i \in 1 .. m + 1 : rows[j].event = cache[i]
  <2>1. /\ Len(u.index) = m
        /\ \A i \in 1 .. m : u.index[i].event = cache[i] /\ PointsTo(u.index[i], u.rows)
        /\ u.nrowsWithPadding = Len(u.rows)
        /\ \A j \in DOMAIN u.rows : \E i \in 1 .. m : u.rows[j].event = cache[i]
    BY <1>11 DEF Reaches
  <2>2. Len(real) = nrows
    BY <1>2, <1>11 DEF UseIndex
  <2>3. About(index, cache, 0, m + 1)
    <3>1. About(u.index, cache, 0, m) /\ About(new, cache, m, m + 1)
      BY <1>3, <1>4, <2>1 DEF About
    <3> QED BY <1>6, <3>1, AboutJoined
  <2>4. Len(index) = m + 1 /\ \A i \in 1 .. m + 1 : index[i].event = cache[i]
    BY <2>3 DEF About
  <2>5. u.nrowsWithPadding + nrows = Len(rows)
    BY <1>5, <2>1, <2>2 DEF Joins
  <2>6. \A i \in 1 .. m : cache[i] < f.id /\ cache[i] \in Nat
    <3>1. /\ DOMAIN cache = 1 .. m + 1 /\ m + 1 \in 1 .. m + 1
          /\ \A i \in 1 .. m : i \in 1 .. m + 1 /\ i < m + 1
      BY DEF CacheOK
    <3>2. \A i, j \in 1 .. m + 1 : i < j => cache[i] < cache[j]
      BY <3>1 DEF CacheOK
    <3>3. \A i \in 1 .. m : cache[i] \in Nat
      BY <3>1 DEF CacheOK
    <3> QED BY <3>1, <3>2, <3>3
  <2>7. ASSUME NEW j \in DOMAIN rows
        PROVE  \/ /\ j \in 1 .. Len(u.rows) /\ j \in DOMAIN u.rows /\ rows[j] = u.rows[j]
                  /\ \E i \in 1 .. m : rows[j].event = cache[i]
               \/ /\ j - Len(u.rows) \in 1 .. Len(real)
                  /\ rows[j].exists /\ rows[j].event = f.id
    <3>1. CASE j \in 1 .. Len(u.rows) /\ rows[j] = u.rows[j]
      BY <1>5, <2>1, <3>1 DEF Joins
    <3>2. CASE j - Len(u.rows) \in 1 .. Len(real) /\ rows[j] = real[j - Len(u.rows)]
      BY <1>2, <3>2
    <3> QED BY <1>5, <3>1, <3>2 DEF Joins
  <2>8. ASSUME NEW i \in 1 .. m
        PROVE  PointsTo(u.index[i], rows)
    <3>1. u.index[i] \in IndexRows /\ PointsTo(u.index[i], u.rows) /\ u.index[i].event = cache[i]
      BY <1>1, <2>1
    <3>2. \A j \in DOMAIN real : ~(real[j].exists /\ real[j].event = u.index[i].event)
      <4>1. f.id # cache[i]
        BY <2>6
      <4> QED BY <1>2, <3>1, <4>1
    <3> QED BY <1>1, <1>2, <3>1, <3>2, StillPointsTo DEF rows
  <2>9. PointsTo(entry, rows)
    <3>1. entry.stop = Len(rows) /\ entry.start = Len(u.rows)
      BY <1>3, <2>1, <2>5
    <3>2. ASSUME NEW j \in DOMAIN rows
          PROVE  rows[j].exists /\ rows[j].event = f.id <=> Len(u.rows) < j /\ j <= Len(rows)
      <4>1. j \in 1 .. Len(rows) /\ Len(u.rows) \in Nat /\ Len(rows) \in Nat
        BY <1>5 DEF Joins
      <4>2. CASE j \in 1 .. Len(u.rows) /\ \E i \in 1 .. m : rows[j].event = cache[i]
        BY <2>6, <4>1, <4>2
      <4>3. CASE /\ j - Len(u.rows) \in 1 .. Len(real)
                 /\ rows[j].exists /\ rows[j].event = f.id
        BY <1>5, <4>1, <4>3 DEF Joins
      <4> QED BY <2>7, <4>2, <4>3
    <3>3. Len(rows) <= Len(rows)
      BY <1>5 DEF Joins
    <3> QED BY <1>3, <3>1, <3>2, <3>3 DEF PointsTo
  <2>10. ASSUME NEW i \in 1 .. m + 1
         PROVE  PointsTo(index[i], rows)
    <3>1. \/ i \in 1 .. m /\ index[i] = u.index[i]
          \/ i - m \in 1 .. 1 /\ index[i] = new[i - m]
      BY <1>4, <1>6, <2>1, <2>4 DEF Joins
    <3>2. CASE i - m \in 1 .. 1 /\ index[i] = new[i - m]
      <4>1. i - m = 1
        BY <3>2
      <4> QED BY <1>4, <2>9, <3>2, <4>1
    <3> QED BY <2>8, <3>1, <3>2
  <2>11. ASSUME NEW j \in DOMAIN rows
         PROVE  \E i \in 1 .. m + 1 : rows[j].event = cache[i]
    <3>1. m + 1 \in 1 .. m + 1 /\ \A i \in 1 .. m : i \in 1 .. m + 1
      OBVIOUS
    <3> QED BY <2>7, <3>1
  <2> QED BY <2>4, <2>5, <2>10, <2>11
<1>12. Reaches(w, cache, m + 1)
  <2>1. m + 1 \in 0 .. Len(cache) /\ m + 1 # 0
    OBVIOUS
  <2>2. ~UseIndex(u) => u.index = <<>>
    BY DEF Reaches
  <2>3. ~UseIndex(w) => w.index = <<>>
    <3>1. ~UseIndex(u) => w.index = u.index
      BY <1>7
    <3> QED BY <1>9, <2>2, <3>1
  <2> QED BY <2>1, <2>3, <1>9, <1>10, <1>11 DEF Reaches
<1> QED BY <1>8, <1>12 DEF w

\* A row with a header: padding, then the rows of the object.
LEMMA AddEventRow ==
  ASSUME strict \in BOOLEAN, NEW cache, CacheOK(cache), NEW t, TableOK(t, cache),
         NEW f, f.id \in Nat \ {0}, f.stop = Physics, t.lastHeader # f.id,
         \A i \in DOMAIN cache : cache[i] <= f.id,
         NEW nrows \in Nat \ {0}, t.converter.multi \in BOOLEAN, ~t.converter.multi => nrows = 1,
         NEW longer, longer = HeaderWritten(cache, Header(f), nrows)
  PROVE  /\ CacheOK(longer) /\ Extends(longer, cache) /\ \A i \in DOMAIN longer : longer[i] <= f.id
         /\ TableOK(AddRow(t, cache, f, nrows), longer)
         /\ AddRow(t, cache, f, nrows).converter = t.converter
         /\ AddRow(t, cache, f, nrows).connected = t.connected
<1>1. PICK p \in 0 .. Len(cache) : Reaches(t, cache, p)
  BY DEF TableOK
<1> DEFINE m == Before(f.id, cache)
           last == IF m = 0 THEN NoEvent ELSE cache[m]
           missed == SubSeq(cache, p + 1, m)
           u == Pad(t, missed, last)
<1>2. Header(f) = f.id /\ f.id # NoEvent
  BY DEF Header, NoEvent
<1>3. /\ CacheOK(longer) /\ Extends(longer, cache)
      /\ m \in 0 .. Len(cache) /\ Len(longer) = m + 1 /\ longer[m + 1] = f.id
      /\ \A i \in DOMAIN longer : longer[i] <= f.id
  <2>1. longer = HeaderWritten(cache, f.id, nrows) /\ m = Before(f.id, cache)
    BY <1>2
  <2> HIDE DEF m
  <2> QED BY <2>1, HeaderIs
<1>4. p <= m
  <2>1. CASE cache # <<>> /\ f.id = cache[Len(cache)]
    <3>1. m = Len(cache) - 1 /\ Len(cache) \in Nat
      BY <2>1 DEF Before, CacheOK
    <3>2. p # Len(cache)
      BY <1>1, <2>1, <3>1, <1>3 DEF Reaches
    <3> QED BY <3>1, <3>2
  <2>2. CASE ~(cache # <<>> /\ f.id = cache[Len(cache)])
    <3>1. m = Len(cache) /\ Len(cache) \in Nat
      BY <2>2 DEF Before, CacheOK
    <3> QED BY <3>1
  <2> QED BY <2>1, <2>2
<1>5. m \in p .. Len(cache)
  BY <1>3, <1>4
<1>6. Missed(t.lastHeader, f.id, cache) = missed
  BY <1>1, MissedIs DEF Reaches
<1>7. u \in Tables /\ Reaches(u, cache, m)
  BY <1>1, <1>5, PadOK DEF TableOK
<1>8. t = [converter |-> t.converter, rows |-> t.rows, index |-> t.index,
           nrowsWithPadding |-> t.nrowsWithPadding, lastHeader |-> t.lastHeader,
           connected |-> t.connected]
  BY DEF TableOK, Tables
<1> DEFINE padding == IF DoPadding(t) THEN PaddingRows(missed) ELSE <<>>
           start == t.nrowsWithPadding + Len(padding)
           rows == t.rows \o padding \o RealRows(f, nrows)
           entry == IndexRow(f.id, TRUE, start, start + nrows)
           padded == t.index \o IndexPadding(missed)
           index == IF UseIndex(t) THEN padded \o <<entry>> ELSE t.index
<1>9. u = [converter |-> t.converter, rows |-> t.rows \o padding,
           index |-> IF UseIndex(t) THEN padded ELSE t.index,
           nrowsWithPadding |-> start, lastHeader |-> last, connected |-> t.connected]
  BY DEF Pad
<1>10. AddRow(t, cache, f, nrows) =
         [t EXCEPT !.rows = rows, !.index = index, !.nrowsWithPadding = start + nrows,
                   !.lastHeader = f.id]
  BY <1>2, <1>6, <1>8 DEF AddRow, Start
<1> HIDE DEF m, last, missed, u, padding, start, entry, padded
<1>11. UseIndex(u) <=> UseIndex(t)
  BY <1>9 DEF UseIndex
<1>12. WithRows(u, f, nrows) =
         [converter |-> t.converter, rows |-> rows, index |-> index,
          nrowsWithPadding |-> start + nrows, lastHeader |-> f.id, connected |-> t.connected]
  <2>1. WithRows(u, f, nrows) =
          [converter |-> u.converter, rows |-> u.rows \o RealRows(f, nrows),
           index |-> IF UseIndex(u)
                     THEN u.index \o <<IndexRow(f.id, TRUE, u.nrowsWithPadding,
                                                u.nrowsWithPadding + nrows)>>
                     ELSE u.index,
           nrowsWithPadding |-> u.nrowsWithPadding + nrows, lastHeader |-> f.id,
           connected |-> u.connected]
    BY DEF WithRows
  <2>2. /\ u.converter = t.converter /\ u.rows = t.rows \o padding
        /\ u.index = (IF UseIndex(t) THEN padded ELSE t.index)
        /\ u.nrowsWithPadding = start /\ u.connected = t.connected
    BY <1>9
  <2>3. IndexRow(f.id, TRUE, u.nrowsWithPadding, u.nrowsWithPadding + nrows) = entry
    BY <2>2 DEF entry
  <2> QED BY <1>11, <2>1, <2>2, <2>3
<1> HIDE DEF rows, index
<1>13. AddRow(t, cache, f, nrows) = WithRows(u, f, nrows)
  BY <1>8, <1>10, <1>12
<1>14. m \in 0 .. Len(longer) /\ Reaches(u, longer, m)
  BY <1>3, <1>7, StillReaches
<1>15. u.converter = t.converter /\ u.connected = t.connected
  BY <1>9
<1>16. WithRows(u, f, nrows) \in Tables /\ Reaches(WithRows(u, f, nrows), longer, m + 1)
  <2>1. m \in Nat
    BY <1>14
  <2> QED BY <1>3, <1>7, <1>14, <1>15, <2>1, WithRowsOK
<1>17. m + 1 \in 0 .. Len(longer)
  BY <1>3, <1>14
<1>18. TableOK(AddRow(t, cache, f, nrows), longer)
  BY <1>13, <1>16, <1>17 DEF TableOK
<1> QED BY <1>3, <1>12, <1>13, <1>18

\* Any other row.
LEMMA AddOtherRow ==
  ASSUME strict \in BOOLEAN, NEW cache, CacheOK(cache), NEW t, TableOK(t, cache),
         NEW f, f.id \in Nat \ {0}, f.stop # Physics, t.converter.stop = f.stop,
         NEW nrows \in Nat \ {0}
  PROVE  /\ HeaderWritten(cache, Header(f), nrows) = cache
         /\ TableOK(AddRow(t, cache, f, nrows), cache)
         /\ AddRow(t, cache, f, nrows).converter = t.converter
         /\ AddRow(t, cache, f, nrows).connected = t.connected
<1>1. PICK p \in 0 .. Len(cache) : Reaches(t, cache, p)
  BY DEF TableOK
<1>2. ~UseIndex(t) /\ ~DoPadding(t) /\ Header(f) = NoEvent
  BY DEF UseIndex, DoPadding, Header
<1>3. /\ t.rows \in Seq(Rows) /\ t.index \in Seq(IndexRows) /\ t.nrowsWithPadding \in Nat
      /\ t.converter \in Converters /\ t.connected \in BOOLEAN /\ t.lastHeader \in Nat
      /\ t = [converter |-> t.converter, rows |-> t.rows, index |-> t.index,
              nrowsWithPadding |-> t.nrowsWithPadding, lastHeader |-> t.lastHeader,
              connected |-> t.connected]
  BY DEF TableOK, Tables
<1> DEFINE real == RealRows(f, nrows)
           w == AddRow(t, cache, f, nrows)
<1>4. real \in Seq(Rows)
  BY RealRowsAre
<1> HIDE DEF real
<1>5. w = [t EXCEPT !.rows = @ \o <<>> \o real, !.index = @,
                    !.nrowsWithPadding = @ + Len(<<>>) + nrows, !.lastHeader = @]
  BY <1>2, <1>3 DEF AddRow, Start, real
<1> HIDE DEF w
<1>6. w = [converter |-> t.converter, rows |-> t.rows \o <<>> \o real, index |-> t.index,
           nrowsWithPadding |-> t.nrowsWithPadding + Len(<<>>) + nrows,
           lastHeader |-> t.lastHeader, connected |-> t.connected]
  BY <1>3, <1>5
<1>7. t.rows \o <<>> \o real \in Seq(Rows) /\ t.nrowsWithPadding + Len(<<>>) + nrows \in Nat
  BY <1>3, <1>4
<1>8. w \in Tables
  BY <1>3, <1>6, <1>7 DEF Tables
<1>9. ~UseIndex(w) /\ ~DoPadding(w) /\ w.lastHeader = t.lastHeader /\ w.index = t.index
  BY <1>2, <1>6 DEF UseIndex, DoPadding
<1>10. Reaches(w, cache, p)
  BY <1>1, <1>2, <1>9 DEF Reaches
<1>11. HeaderWritten(cache, Header(f), nrows) = cache
  BY <1>2 DEF HeaderWritten
<1>12. w.converter = t.converter /\ w.connected = t.connected
  BY <1>6
<1> QED BY <1>8, <1>10, <1>11, <1>12 DEF TableOK, w

\* One table is written, the others are about the same events as before.
Keeps(longer, s) ==
  /\ DOMAIN s.tables \subseteq DOMAIN longer.tables
  /\ \A n \in DOMAIN s.tables : longer.tables[n].converter = s.tables[n].converter

LEMMA StillBundles ==
  ASSUME NEW s, NEW longer, Keeps(longer, s), NEW w, NEW bs, BundlesOK(s, w, bs)
  PROVE  BundlesOK(longer, w, bs)
BY DEF Keeps, BundlesOK

LEMMA WriteRowOK ==
  ASSUME strict \in BOOLEAN, NEW s, ServiceOK(s), NEW name \in DOMAIN s.tables,
         NEW f, f.id \in Nat \ {0}, s.tables[name].converter.stop = f.stop,
         f.stop = Physics => s.tables[name].lastHeader # f.id,
         \A i \in DOMAIN s.cache : s.cache[i] <= f.id,
         NEW nrows \in Nat \ {0}, s.tables[name].converter.multi \in BOOLEAN,
         ~s.tables[name].converter.multi => nrows = 1
  PROVE  LET w == WriteRow(s, name, f, nrows)
         IN  /\ ServiceOK(w) /\ Keeps(w, s) /\ DOMAIN w.tables = DOMAIN s.tables
             /\ w.listed = s.listed
             /\ \A n \in DOMAIN s.tables : w.tables[n].connected = s.tables[n].connected
             /\ \A n \in DOMAIN s.tables \ {name} : w.tables[n] = s.tables[n]
             /\ \A i \in DOMAIN w.cache : w.cache[i] <= f.id
             /\ f.stop # Physics => w.cache = s.cache
<1> DEFINE w == WriteRow(s, name, f, nrows)
           t == AddRow(s.tables[name], s.cache, f, nrows)
           longer == HeaderWritten(s.cache, Header(f), nrows)
           tables == [s.tables EXCEPT ![name] = t]
<1>1. /\ s = [tables |-> s.tables, listed |-> s.listed, cache |-> s.cache]
      /\ CacheOK(s.cache) /\ TableOK(s.tables[name], s.cache)
      /\ s.tables = [n \in DOMAIN s.tables |-> s.tables[n]]
  BY DEF ServiceOK
<1>2. w = [s EXCEPT !.tables = tables, !.cache = longer]
  BY <1>1 DEF WriteRow
<1>3. /\ CacheOK(longer) /\ Extends(longer, s.cache) /\ \A i \in DOMAIN longer : longer[i] <= f.id
      /\ TableOK(t, longer)
      /\ t.converter = s.tables[name].converter /\ t.connected = s.tables[name].connected
      /\ f.stop # Physics => longer = s.cache
  <2>1. CASE f.stop = Physics
    <3> HIDE DEF longer, t
    <3>1. longer = HeaderWritten(s.cache, Header(f), nrows)
      BY DEF longer
    <3> QED BY <1>1, <2>1, <3>1, AddEventRow DEF t
  <2>2. CASE f.stop # Physics
    <3>1. longer = s.cache /\ TableOK(t, s.cache)
          /\ t.converter = s.tables[name].converter /\ t.connected = s.tables[name].connected
      BY <1>1, <2>2, AddOtherRow
    <3>2. Extends(s.cache, s.cache)
      BY <1>1 DEF Extends, CacheOK
    <3> HIDE DEF longer, t
    <3> QED BY <1>1, <3>1, <3>2
  <2> QED BY <2>1, <2>2
<1> HIDE DEF t, longer
<1>4. /\ DOMAIN tables = DOMAIN s.tables /\ tables[name] = t
      /\ \A n \in DOMAIN s.tables \ {name} : tables[n] = s.tables[n]
      /\ tables = [n \in DOMAIN tables |-> tables[n]]
  BY <1>1
<1> HIDE DEF tables
<1>5. w = [tables |-> tables, listed |-> s.listed, cache |-> longer]
  BY <1>1, <1>2
<1> HIDE DEF w
<1>6. ASSUME NEW n \in DOMAIN s.tables
      PROVE  /\ TableOK(tables[n], longer)
             /\ tables[n].converter = s.tables[n].converter
             /\ tables[n].connected = s.tables[n].connected
  <2>1. CASE n = name
    BY <1>3, <1>4, <2>1
  <2>2. CASE n # name
    <3>1. tables[n] = s.tables[n] /\ TableOK(s.tables[n], s.cache)
      BY <1>4, <2>2 DEF ServiceOK
    <3>2. PICK p \in 0 .. Len(s.cache) : Reaches(s.tables[n], s.cache, p)
      BY <3>1 DEF TableOK
    <3>3. p \in 0 .. Len(longer) /\ Reaches(s.tables[n], longer, p)
      BY <1>1, <1>3, <3>2, StillReaches
    <3> QED BY <3>1, <3>3 DEF TableOK
  <2> QED BY <2>1, <2>2
<1>7. w.tables = tables /\ w.listed = s.listed /\ w.cache = longer
  BY <1>5
<1>8. ServiceOK(w)
  BY <1>3, <1>4, <1>5, <1>6, <1>7 DEF ServiceOK
<1>9. Keeps(w, s)
  BY <1>4, <1>6, <1>7 DEF Keeps
<1> QED BY <1>3, <1>4, <1>6, <1>7, <1>8, <1>9 DEF w

-----------------------------------------------------------------------------
(* A writer at work.                                                       *)

\* The tables whose turn has not come are not about the frame.
Unwritten(s, f, done) ==
  f.stop = Physics => \A n \in DOMAIN s.tables \ done : s.tables[n].lastHeader # f.id

FrameOK(f) == f.id \in Nat \ {0} /\ \A k \in Key : f.objects[k] \in Nat \union {Absent}

WorkOK(work, w, f, done) ==
  /\ work = [writer |-> w, frame |-> f, key |-> work.key, wanted |-> work.wanted,
             useless |-> work.useless, bundles |-> work.bundles, service |-> work.service]
  /\ WantsOK(w, work.wanted)
  /\ ServiceOK(work.service)
  /\ BundlesOK(work.service, w, work.bundles)
  /\ \A v \in Writers \ {w} : BundlesOK(work.service, v, bundles[v])
  /\ InUse(work.service, [bundles EXCEPT ![w] = work.bundles])
  /\ Unwritten(work.service, f, done)
  /\ \A i \in DOMAIN work.service.cache : work.service.cache[i] <= f.id

\* What a converter a writer was given is like.
LEMMA Wanting ==
  ASSUME NEW w \in Writers, NEW k \in Key
  PROVE  Wants(w, k) \subseteq Converters /\ \A c \in Wants(w, k) : c.multi \in BOOLEAN
BY WantedAssumption DEF Converters

LEMMA NewTableOK ==
  ASSUME NEW c \in Converters, NEW cache, CacheOK(cache)
  PROVE  TableOK(NewTable(c), cache) /\ NewTable(c).converter = c /\ NewTable(c).connected
         /\ NewTable(c).lastHeader = 0
<1>1. NewTable(c) \in Tables
  BY DEF NewTable, Tables, NoEvent
<1>2. Len(cache) \in Nat /\ 0 \in 0 .. Len(cache)
  BY DEF CacheOK
<1>3. Reaches(NewTable(c), cache, 0)
  BY <1>2 DEF NewTable, Reaches
<1> QED BY <1>1, <1>2, <1>3 DEF TableOK, NewTable, NoEvent

LEMMA ConnectOK ==
  ASSUME NEW s, ServiceOK(s), s.listed = DOMAIN s.tables, NEW name, NEW c \in Converters,
         name \in DOMAIN s.tables => s.tables[name].converter = c
  PROVE  LET w == ConnectTable(s, name, c)
         IN  /\ ServiceOK(w) /\ Keeps(w, s) /\ DOMAIN w.tables = DOMAIN s.tables \union {name}
             /\ w.listed = DOMAIN w.tables /\ w.cache = s.cache
             /\ w.tables[name].connected /\ w.tables[name].converter = c
             /\ \A n \in DOMAIN s.tables : w.tables[n].lastHeader = s.tables[n].lastHeader
             /\ name \notin DOMAIN s.tables => w.tables[name].lastHeader = 0
             /\ \A n \in DOMAIN s.tables \ {name} : w.tables[n] = s.tables[n]
<1> DEFINE w == ConnectTable(s, name, c)
<1>1. /\ s = [tables |-> s.tables, listed |-> s.listed, cache |-> s.cache]
      /\ s.tables = [n \in DOMAIN s.tables |-> s.tables[n]]
      /\ CacheOK(s.cache) /\ \A n \in DOMAIN s.tables : TableOK(s.tables[n], s.cache)
  BY DEF ServiceOK
<1>2. CASE name \in DOMAIN s.tables
  <2> DEFINE t == [s.tables[name] EXCEPT !.connected = TRUE]
             tables == [s.tables EXCEPT ![name] = t]
  <2>1. TableOK(s.tables[name], s.cache)
    BY <1>1, <1>2
  <2>2. /\ t \in Tables /\ t.connected /\ t.converter = s.tables[name].converter
        /\ t.lastHeader = s.tables[name].lastHeader /\ t.rows = s.tables[name].rows
        /\ t.index = s.tables[name].index
        /\ t.nrowsWithPadding = s.tables[name].nrowsWithPadding
    BY <2>1 DEF TableOK, Tables
  <2>3. w = [s EXCEPT !.tables = tables]
    BY <1>1, <1>2 DEF ConnectTable
  <2> HIDE DEF t
  <2>4. TableOK(t, s.cache)
    <3>1. PICK p \in 0 .. Len(s.cache) : Reaches(s.tables[name], s.cache, p)
      BY <2>1 DEF TableOK
    <3>2. (UseIndex(t) <=> UseIndex(s.tables[name])) /\ (DoPadding(t) <=> DoPadding(s.tables[name]))
      BY <2>2 DEF UseIndex, DoPadding
    <3>3. Reaches(t, s.cache, p)
      BY <2>2, <3>1, <3>2 DEF Reaches
    <3> QED BY <2>2, <3>3 DEF TableOK
  <2>5. /\ DOMAIN tables = DOMAIN s.tables /\ tables[name] = t
        /\ \A n \in DOMAIN s.tables \ {name} : tables[n] = s.tables[n]
        /\ tables = [n \in DOMAIN tables |-> tables[n]]
    BY <1>1, <1>2
  <2> HIDE DEF tables, w
  <2>6. w = [tables |-> tables, listed |-> s.listed, cache |-> s.cache]
    BY <1>1, <2>3
  <2>7. w.tables = tables /\ w.listed = s.listed /\ w.cache = s.cache
    BY <2>6
  <2>8. \A n \in DOMAIN s.tables : /\ TableOK(tables[n], s.cache)
                                   /\ tables[n].converter = s.tables[n].converter
                                   /\ tables[n].lastHeader = s.tables[n].lastHeader
    BY <1>1, <2>2, <2>4, <2>5
  <2>9. ServiceOK(w)
    BY <1>1, <2>5, <2>6, <2>7, <2>8 DEF ServiceOK
  <2>10. Keeps(w, s)
    BY <2>5, <2>7, <2>8 DEF Keeps
  <2> QED BY <1>2, <2>2, <2>5, <2>7, <2>8, <2>9, <2>10 DEF w
<1>3. CASE name \notin DOMAIN s.tables
  <2> DEFINE t == NewTable(c)
             names == DOMAIN s.tables \union {name}
             tables == [n \in names |-> IF n = name THEN t ELSE s.tables[n]]
  <2>1. w = [s EXCEPT !.tables = tables, !.listed = @ \union {name}]
    BY <1>1, <1>3 DEF ConnectTable
  <2>2. TableOK(t, s.cache) /\ t.converter = c /\ t.connected /\ t.lastHeader = 0
    BY <1>1, NewTableOK
  <2> HIDE DEF t
  <2>3. /\ DOMAIN tables = names /\ tables[name] = t
        /\ \A n \in DOMAIN s.tables : tables[n] = s.tables[n]
        /\ tables = [n \in DOMAIN tables |-> tables[n]]
    BY <1>3
  <2> HIDE DEF tables, w
  <2>4. w = [tables |-> tables, listed |-> s.listed \union {name}, cache |-> s.cache]
    BY <1>1, <2>1
  <2>5. w.tables = tables /\ w.listed = names /\ w.cache = s.cache
    BY <2>4
  <2>6. \A n \in names : TableOK(tables[n], s.cache)
    BY <1>1, <2>2, <2>3
  <2>7. ServiceOK(w)
    BY <1>1, <2>3, <2>4, <2>5, <2>6 DEF ServiceOK
  <2>8. Keeps(w, s)
    BY <2>3, <2>5 DEF Keeps
  <2> QED BY <1>3, <2>2, <2>3, <2>5, <2>7, <2>8 DEF w
<1> QED BY <1>2, <1>3

\* One more converter for a key.
LEMMA AddObjectOK ==
  ASSUME SameTables, BundlesAre, NEW w \in Writers,
         NEW f, FrameOK(f), NEW work, WorkOK(work, w, f, {}), work.key \in Key,
         NEW c \in Wants(w, work.key)
  PROVE  WorkOK(AddObject(work, c), w, f, {}) /\ AddObject(work, c).key = work.key
<1>1. CASE AddObject(work, c) = work
  BY <1>1
<1>2. CASE AddObject(work, c) # work
  <2> DEFINE k == work.key
             bs == work.bundles
             s == work.service
             len == Len(bs[k])
             name == <<k, len>>
             b == [converter |-> c, table |-> name]
             more == Append(bs[k], b)
             added == [bs EXCEPT ![k] = more]
             t == ConnectTable(s, name, c)
             old == [bundles EXCEPT ![w] = bs]
             new == [bundles EXCEPT ![w] = added]
             u == AddObject(work, c)
  <2>1. /\ work = [writer |-> w, frame |-> f, key |-> work.key, wanted |-> work.wanted,
                   useless |-> work.useless, bundles |-> work.bundles, service |-> work.service]
        /\ WantsOK(w, work.wanted)
        /\ ServiceOK(s) /\ BundlesOK(s, w, bs)
        /\ \A v \in Writers \ {w} : BundlesOK(s, v, bundles[v])
        /\ InUse(s, old) /\ Unwritten(s, f, {})
        /\ \A i \in DOMAIN s.cache : s.cache[i] <= f.id
    BY DEF WorkOK
  <2>2. /\ bs \in [Key -> Seq(Bundles)] /\ bs[k] \in Seq(Bundles)
        /\ len \in Nat /\ DOMAIN bs[k] = 1 .. len /\ k \in Key
    BY <2>1 DEF BundlesOK
  <2>3. u = [work EXCEPT !.bundles = added, !.service = t]
    <3>1. u = [work EXCEPT !.bundles[work.key] = Append(@, b),
                           !.service = ConnectTable(@, name, c)]
      BY <1>2 DEF AddObject
    <3> HIDE DEF b, name
    <3> QED BY <2>1, <3>1
  <2>4. c \in Converters
    BY Wanting
  <2>5. b \in Bundles /\ b.converter = c /\ b.table = name
    BY <2>2, <2>4 DEF Bundles
  <2>6. /\ more \in Seq(Bundles) /\ Len(more) = len + 1 /\ DOMAIN more = 1 .. len + 1
        /\ \A i \in 1 .. len : more[i] = bs[k][i]
        /\ more[len + 1] = b
    BY <2>2, <2>5
  <2> HIDE DEF t, added
  <2>7. u = [writer |-> w, frame |-> f, key |-> work.key, wanted |-> work.wanted,
             useless |-> work.useless, bundles |-> added, service |-> t]
    <3>1. work = [writer |-> w, frame |-> f, key |-> work.key, wanted |-> work.wanted,
                  useless |-> work.useless, bundles |-> work.bundles, service |-> work.service]
      BY <2>1
    <3> HIDE DEF u
    <3> DEFINE mid == [work EXCEPT !.bundles = added]
    <3>2. mid = [writer |-> w, frame |-> f, key |-> work.key, wanted |-> work.wanted,
                 useless |-> work.useless, bundles |-> added, service |-> work.service]
      BY <3>1
    <3>3. u = [mid EXCEPT !.service = t]
      BY <2>3
    <3> HIDE DEF mid
    <3> QED BY <3>2, <3>3
  <2> HIDE DEF b, more, u
  <2>8. /\ added \in [Key -> Seq(Bundles)] /\ added[k] = more
        /\ \A j \in Key \ {k} : added[j] = bs[j]
    BY <2>2, <2>6 DEF added
  <2>9. /\ DOMAIN old = Writers /\ DOMAIN new = Writers
        /\ old[w] = bs /\ new[w] = added
        /\ \A v \in Writers \ {w} : old[v] = bundles[v] /\ new[v] = bundles[v]
    BY DEF BundlesAre
  <2> HIDE DEF added, old, new
  <2>10. name \in DOMAIN s.tables => s.tables[name].converter = c
    <3> SUFFICES ASSUME name \in DOMAIN s.tables
                 PROVE  s.tables[name].converter = c
      OBVIOUS
    <3>1. PICK v \in Writers, j \in Key : \E i \in DOMAIN old[v][j] : name = <<j, i - 1>>
      BY <2>1 DEF InUse, Had
    <3> PICK i \in DOMAIN old[v][j] : name = <<j, i - 1>>
      BY <3>1
    <3>2. j = k /\ i - 1 = len
      BY <3>1
    <3>3. v # w
      <4> SUFFICES ASSUME v = w PROVE FALSE
        OBVIOUS
      <4>1. i \in 1 .. len
        BY <2>2, <2>9, <3>1, <3>2
      <4> QED BY <2>2, <3>2, <4>1
    <3>4. /\ i \in DOMAIN bundles[v][k]
          /\ bundles[v][k][i].converter \in Wants(v, k)
          /\ s.tables[<<k, i - 1>>].converter = bundles[v][k][i].converter
      BY <2>1, <2>2, <2>9, <3>1, <3>2, <3>3 DEF BundlesOK
    <3>5. bundles[v][k][i].converter = c
      BY <2>2, <3>3, <3>4 DEF SameTables
    <3> QED BY <3>1, <3>2, <3>4, <3>5
  <2>11. /\ ServiceOK(t) /\ Keeps(t, s) /\ DOMAIN t.tables = DOMAIN s.tables \union {name}
         /\ t.listed = DOMAIN t.tables /\ t.cache = s.cache
         /\ t.tables[name].connected /\ t.tables[name].converter = c
         /\ \A n \in DOMAIN s.tables : t.tables[n].lastHeader = s.tables[n].lastHeader
         /\ name \notin DOMAIN s.tables => t.tables[name].lastHeader = 0
         /\ \A n \in DOMAIN s.tables \ {name} : t.tables[n] = s.tables[n]
    <3>1. s.listed = DOMAIN s.tables
      BY <2>1 DEF InUse
    <3> QED BY <2>1, <2>4, <2>10, <3>1, ConnectOK DEF t
  <2>12. BundlesOK(t, w, added)
    <3>1. BundlesOK(t, w, bs)
      BY <2>1, <2>11, StillBundles
    <3>2. ASSUME NEW j \in Key, NEW i \in DOMAIN added[j]
          PROVE  /\ added[j][i].converter \in Wants(w, j)
                 /\ added[j][i].table = <<j, i - 1>>
                 /\ <<j, i - 1>> \in DOMAIN t.tables
                 /\ t.tables[<<j, i - 1>>].converter = added[j][i].converter
      <4>1. CASE j # k \/ i \in 1 .. len
        <5>1. i \in DOMAIN bs[j] /\ added[j][i] = bs[j][i]
          BY <2>2, <2>6, <2>8, <3>2, <4>1
        <5> QED BY <3>1, <5>1 DEF BundlesOK
      <4>2. CASE j = k /\ i \notin 1 .. len
        <5>1. i = len + 1 /\ added[j][i] = b
          BY <2>2, <2>6, <2>8, <3>2, <4>2
        <5>2. i - 1 = len
          BY <2>2, <5>1
        <5> QED BY <2>5, <2>11, <4>2, <5>1, <5>2
      <4> QED BY <4>1, <4>2
    <3> QED BY <2>8, <3>2 DEF BundlesOK
  <2>13. \A v \in Writers \ {w} : BundlesOK(t, v, bundles[v])
    BY <2>1, <2>11, StillBundles
  <2>14. InUse(t, new)
    <3> SUFFICES ASSUME NEW n \in DOMAIN t.tables
                 PROVE  t.tables[n].connected /\ Had(n, new)
      BY <2>11 DEF InUse
    <3>1. CASE n = name
      <4>1. len + 1 \in DOMAIN new[w][k] /\ (len + 1) - 1 = len
        BY <2>2, <2>6, <2>8, <2>9
      <4> QED BY <2>2, <2>11, <3>1, <4>1 DEF Had
    <3>2. CASE n # name
      <4>1. n \in DOMAIN s.tables /\ t.tables[n] = s.tables[n]
        BY <2>11, <3>2
      <4>2. s.tables[n].connected /\ Had(n, old)
        BY <2>1, <4>1 DEF InUse
      <4>3. PICK v \in Writers, j \in Key : \E i \in DOMAIN old[v][j] : n = <<j, i - 1>>
        BY <4>2 DEF Had
      <4> PICK i \in DOMAIN old[v][j] : n = <<j, i - 1>>
        BY <4>3
      <4>4. i \in DOMAIN new[v][j]
        <5>1. CASE v # w
          BY <2>9, <4>3, <5>1
        <5>2. CASE v = w
          <6>1. i \in DOMAIN bs[j] /\ new[v] = added
            BY <2>9, <5>2
          <6>2. CASE j = k
            BY <2>2, <2>6, <2>8, <6>1, <6>2
          <6>3. CASE j # k
            BY <2>8, <6>1, <6>3
          <6> QED BY <6>2, <6>3
        <5> QED BY <5>1, <5>2
      <4> QED BY <4>1, <4>2, <4>3, <4>4 DEF Had
    <3> QED BY <3>1, <3>2
  <2>15. Unwritten(t, f, {})
    BY <2>1, <2>11 DEF Unwritten, FrameOK
  <2>16. /\ u.key = work.key /\ u.wanted = work.wanted /\ u.bundles = added /\ u.service = t
         /\ u = [writer |-> w, frame |-> f, key |-> u.key, wanted |-> u.wanted,
                 useless |-> u.useless, bundles |-> u.bundles, service |-> u.service]
    BY <2>7
  <2>17. WorkOK(u, w, f, {})
    BY <2>1, <2>11, <2>12, <2>13, <2>14, <2>15, <2>16 DEF WorkOK, new
  <2> QED BY <2>16, <2>17 DEF u
<1> QED BY <1>1, <1>2

\* What is not about bundles and tables may change.
LEMMA WorkAlike ==
  ASSUME NEW w, NEW f, NEW done, NEW work, WorkOK(work, w, f, done), NEW u,
         u = [writer |-> w, frame |-> f, key |-> u.key, wanted |-> u.wanted,
              useless |-> u.useless, bundles |-> u.bundles, service |-> u.service],
         WantsOK(w, u.wanted), u.bundles = work.bundles, u.service = work.service
  PROVE  WorkOK(u, w, f, done)
BY DEF WorkOK

LEMMA NoMoreWanted ==
  ASSUME NEW w, NEW wanted, WantsOK(w, wanted), NEW k \in Key
  PROVE  WantsOK(w, [wanted EXCEPT ![k] = <<>>])
<1> DEFINE less == [wanted EXCEPT ![k] = <<>>]
<1>1. less \in [Key -> Seq(Converters)] /\ less[k] = <<>> /\ DOMAIN less[k] = {}
      /\ \A j \in Key \ {k} : less[j] = wanted[j]
  BY DEF WantsOK
<1> HIDE DEF less
<1> QED BY <1>1 DEF WantsOK, less

LEMMA OneMoreWanted ==
  ASSUME NEW w \in Writers, NEW wanted, WantsOK(w, wanted), NEW k \in Key, NEW c \in Wants(w, k)
  PROVE  WantsOK(w, [wanted EXCEPT ![k] = Append(@, c)])
<1> DEFINE more == Append(wanted[k], c)
           all == [wanted EXCEPT ![k] = Append(@, c)]
<1>1. c \in Converters /\ wanted \in [Key -> Seq(Converters)] /\ wanted[k] \in Seq(Converters)
  BY Wanting DEF WantsOK
<1>2. /\ more \in Seq(Converters) /\ DOMAIN more = 1 .. Len(wanted[k]) + 1
      /\ \A i \in 1 .. Len(wanted[k]) : more[i] = wanted[k][i]
      /\ more[Len(wanted[k]) + 1] = c
      /\ DOMAIN wanted[k] = 1 .. Len(wanted[k]) /\ Len(wanted[k]) \in Nat
  BY <1>1
<1> HIDE DEF more
<1>3. all = [wanted EXCEPT ![k] = more]
  BY DEF more
<1>4. all \in [Key -> Seq(Converters)] /\ all[k] = more /\ \A j \in Key \ {k} : all[j] = wanted[j]
  BY <1>1, <1>2, <1>3
<1> HIDE DEF all
<1>5. \A i \in DOMAIN more : more[i] \in Wants(w, k)
  <2> SUFFICES ASSUME NEW i \in DOMAIN more PROVE more[i] \in Wants(w, k)
    OBVIOUS
  <2>1. i \in 1 .. Len(wanted[k]) \/ i = Len(wanted[k]) + 1
    BY <1>2
  <2> QED BY <1>2, <2>1 DEF WantsOK
<1>6. \A j \in Key : \A i \in DOMAIN all[j] : all[j][i] \in Wants(w, j)
  BY <1>4, <1>5 DEF WantsOK
<1> QED BY <1>4, <1>6 DEF WantsOK, all

\* The converters in a list, one after the other.
LEMMA AddingOK ==
  ASSUME SameTables, BundlesAre, NEW w \in Writers,
         NEW f, FrameOK(f), NEW work, WorkOK(work, w, f, {}), NEW k \in Key, work.key = k,
         NEW cs, Len(cs) \in Nat, \A i \in 1 .. Len(cs) : cs[i] \in Wants(w, k)
  PROVE  WorkOK(Adding!Fold(work, cs), w, f, {}) /\ Adding!Fold(work, cs).key = k
<1>1. PICK g : /\ g[0] = work
               /\ \A i \in 1 .. Len(cs) : g[i] = AddObject(g[i - 1], cs[i])
               /\ Adding!Fold(work, cs) = g[Len(cs)]
  BY Adding!FoldStates
<1> DEFINE T == {i \in 0 .. Len(cs) : WorkOK(g[i], w, f, {}) /\ g[i].key = k}
<1>2. 0 \in T
  BY <1>1
<1>3. ASSUME NEW i \in 0 .. Len(cs) - 1, i \in T
      PROVE  i + 1 \in T
  <2>1. i + 1 \in 1 .. Len(cs) /\ (i + 1) - 1 = i /\ i + 1 \in 0 .. Len(cs)
    OBVIOUS
  <2>2. WorkOK(g[i], w, f, {}) /\ g[i].key = k /\ cs[i + 1] \in Wants(w, k)
    BY <1>3, <2>1
  <2>3. WorkOK(AddObject(g[i], cs[i + 1]), w, f, {}) /\ AddObject(g[i], cs[i + 1]).key = k
    BY <2>2, AddObjectOK
  <2>4. g[i + 1] = AddObject(g[i], cs[i + 1])
    BY <1>1, <2>1
  <2> QED BY <2>1, <2>3, <2>4
<1> HIDE DEF T
<1>4. 0 .. Len(cs) \subseteq T
  BY <1>2, <1>3, Adding!NatIndUpTo
<1>5. Len(cs) \in T
  BY <1>4
<1> QED BY <1>1, <1>5 DEF T

LEMMA AddSpecOK ==
  ASSUME SameTables, BundlesAre, NEW w \in Writers,
         NEW f, FrameOK(f), NEW work, WorkOK(work, w, f, {}), work.key \in Key,
         NEW c \in Wants(w, work.key)
  PROVE  WorkOK(AddSpec(work, c), w, f, {}) /\ AddSpec(work, c).key = work.key
<1>1. CASE Added(c, work.frame, work.key)
  BY <1>1, AddObjectOK DEF AddSpec
<1>2. CASE ~Added(c, work.frame, work.key)
  <2> DEFINE all == [work.wanted EXCEPT ![work.key] = Append(@, c)]
             u == AddSpec(work, c)
  <2>1. work = [writer |-> w, frame |-> f, key |-> work.key, wanted |-> work.wanted,
                useless |-> work.useless, bundles |-> work.bundles, service |-> work.service]
        /\ WantsOK(w, work.wanted)
    BY DEF WorkOK
  <2>2. u = [work EXCEPT !.wanted = all]
    BY <1>2, <2>1 DEF AddSpec
  <2>3. WantsOK(w, all)
    BY <2>1, OneMoreWanted
  <2> HIDE DEF all, u
  <2>4. u = [writer |-> w, frame |-> f, key |-> work.key, wanted |-> all,
             useless |-> work.useless, bundles |-> work.bundles, service |-> work.service]
    BY <2>1, <2>2
  <2>5. /\ u.key = work.key /\ u.wanted = all /\ u.bundles = work.bundles
        /\ u.service = work.service
        /\ u = [writer |-> w, frame |-> f, key |-> u.key, wanted |-> u.wanted,
                useless |-> u.useless, bundles |-> u.bundles, service |-> u.service]
    BY <2>4
  <2> QED BY <2>3, <2>5, WorkAlike DEF u
<1> QED BY <1>1, <1>2

\* The objects asked for by key.
LEMMA AddWantedOK ==
  ASSUME SameTables, BundlesAre, NEW w \in Writers,
         NEW f, FrameOK(f), NEW work, WorkOK(work, w, f, {}), NEW k \in Key
  PROVE  WorkOK(AddWanted(work, k), w, f, {})
<1>1. CASE ~Has(work.frame, k)
  BY <1>1 DEF AddWanted
<1>2. CASE Has(work.frame, k)
  <2> DEFINE cs == work.wanted[k]
             less == [work.wanted EXCEPT ![k] = <<>>]
             mid == [work EXCEPT !.key = k]
             u == [work EXCEPT !.key = k, !.wanted[k] = <<>>]
  <2>1. work = [writer |-> w, frame |-> f, key |-> work.key, wanted |-> work.wanted,
                useless |-> work.useless, bundles |-> work.bundles, service |-> work.service]
        /\ WantsOK(w, work.wanted)
    BY DEF WorkOK
  <2>2. mid = [writer |-> w, frame |-> f, key |-> k, wanted |-> work.wanted,
               useless |-> work.useless, bundles |-> work.bundles, service |-> work.service]
    BY <2>1
  <2>3. u = [mid EXCEPT !.wanted = [mid.wanted EXCEPT ![k] = <<>>]]
    BY <2>1
  <2>4. mid.wanted = work.wanted
    BY <2>2
  <2>5. u = [mid EXCEPT !.wanted = less]
    BY <2>3, <2>4
  <2>6. WantsOK(w, less)
    BY <2>1, NoMoreWanted
  <2> HIDE DEF less, mid, u
  <2>7. u = [writer |-> w, frame |-> f, key |-> k, wanted |-> less,
             useless |-> work.useless, bundles |-> work.bundles, service |-> work.service]
    BY <2>2, <2>5
  <2>8. /\ u.key = k /\ u.wanted = less /\ u.bundles = work.bundles
        /\ u.service = work.service
        /\ u = [writer |-> w, frame |-> f, key |-> u.key, wanted |-> u.wanted,
                useless |-> u.useless, bundles |-> u.bundles, service |-> u.service]
    BY <2>7
  <2>9. WorkOK(u, w, f, {})
    BY <2>6, <2>8, WorkAlike
  <2>10. /\ Len(cs) \in Nat /\ DOMAIN cs = 1 .. Len(cs)
         /\ \A i \in 1 .. Len(cs) : cs[i] \in Wants(w, k)
    BY <2>1 DEF WantsOK
  <2> HIDE DEF cs
  <2>11. PICK g : /\ g[0] = u
                  /\ \A i \in 1 .. Len(cs) : g[i] = AddSpec(g[i - 1], cs[i])
                  /\ AddingSpecs!Fold(u, cs) = g[Len(cs)]
    BY <2>10, AddingSpecs!FoldStates
  <2> DEFINE T == {i \in 0 .. Len(cs) : WorkOK(g[i], w, f, {}) /\ g[i].key = k}
  <2>12. 0 \in T
    BY <2>8, <2>9, <2>10, <2>11
  <2>13. ASSUME NEW i \in 0 .. Len(cs) - 1, i \in T
         PROVE  i + 1 \in T
    <3>1. i + 1 \in 1 .. Len(cs) /\ (i + 1) - 1 = i /\ i + 1 \in 0 .. Len(cs)
      BY <2>10
    <3>2. WorkOK(g[i], w, f, {}) /\ g[i].key = k /\ cs[i + 1] \in Wants(w, k)
      BY <2>10, <2>13, <3>1
    <3>3. WorkOK(AddSpec(g[i], cs[i + 1]), w, f, {}) /\ AddSpec(g[i], cs[i + 1]).key = k
      BY <3>2, AddSpecOK
    <3>4. g[i + 1] = AddSpec(g[i], cs[i + 1])
      BY <2>11, <3>1
    <3> QED BY <3>1, <3>3, <3>4
  <2> HIDE DEF T
  <2>14. 0 .. Len(cs) \subseteq T
    BY <2>10, <2>12, <2>13, AddingSpecs!NatIndUpTo
  <2>15. Len(cs) \in T
    BY <2>10, <2>14
  <2>16. WorkOK(AddingSpecs!Fold(u, cs), w, f, {})
    BY <2>11, <2>15 DEF T
  <2> QED BY <1>2, <2>16 DEF AddWanted, u, cs
<1> QED BY <1>1, <1>2

\* The objects whose types were asked for.
LEMMA AddOfTypeOK ==
  ASSUME SameTables, BundlesAre, NEW w \in Writers,
         NEW f, FrameOK(f), NEW work, WorkOK(work, w, f, {}), work.key \in Key,
         NEW type \in ToSet(WantedTypes[w])
  PROVE  WorkOK(AddOfType(work, type), w, f, {}) /\ AddOfType(work, type).key = work.key
<1>1. CASE work.key \notin type.keys
  BY <1>1 DEF AddOfType
<1>2. CASE work.key \in type.keys
  <2> DEFINE cs == type.converters
             k == work.key
  <2>1. cs \in Seq(ToSet(cs))
    BY WantedAssumption
  <2>2. Len(cs) \in Nat /\ \A i \in 1 .. Len(cs) : cs[i] \in ToSet(cs)
    BY <2>1
  <2>3. ToSet(cs) \subseteq Wants(w, k)
    BY <1>2 DEF Wants
  <2>4. \A i \in 1 .. Len(cs) : cs[i] \in Wants(w, k)
    BY <2>2, <2>3
  <2> HIDE DEF cs
  <2>5. WorkOK(Adding!Fold(work, cs), w, f, {}) /\ Adding!Fold(work, cs).key = k
    BY <2>2, <2>4, AddingOK
  <2> QED BY <1>2, <2>5 DEF AddOfType, cs
<1> QED BY <1>1, <1>2

LEMMA AddTypedOK ==
  ASSUME SameTables, BundlesAre, NEW w \in Writers,
         NEW f, FrameOK(f), NEW work, WorkOK(work, w, f, {}), NEW k \in Key
  PROVE  WorkOK(AddTyped(work, k), w, f, {})
<1> DEFINE types == WantedTypes[w]
           banned == [work EXCEPT !.useless = @ \union {k}]
           mid == [work EXCEPT !.key = k]
<1>1. work = [writer |-> w, frame |-> f, key |-> work.key, wanted |-> work.wanted,
              useless |-> work.useless, bundles |-> work.bundles, service |-> work.service]
      /\ WantsOK(w, work.wanted)
  BY DEF WorkOK
<1>2. work.writer = w
  BY <1>1
<1>3. \/ AddTyped(work, k) = work
      \/ AddTyped(work, k) = banned
      \/ AddTyped(work, k) = AddingTypes!Fold(mid, types)
  BY <1>2 DEF AddTyped
<1>4. WorkOK(banned, w, f, {})
  <2> DEFINE all == work.useless \union {k}
  <2>1. banned = [work EXCEPT !.useless = all]
    BY <1>1
  <2> HIDE DEF all, banned
  <2>2. banned = [writer |-> w, frame |-> f, key |-> work.key, wanted |-> work.wanted,
                  useless |-> all, bundles |-> work.bundles, service |-> work.service]
    BY <1>1, <2>1
  <2>3. /\ banned.wanted = work.wanted /\ banned.bundles = work.bundles
        /\ banned.service = work.service
        /\ banned = [writer |-> w, frame |-> f, key |-> banned.key, wanted |-> banned.wanted,
                     useless |-> banned.useless, bundles |-> banned.bundles,
                     service |-> banned.service]
    BY <2>2
  <2> QED BY <1>1, <2>3, WorkAlike
<1>5. WorkOK(mid, w, f, {}) /\ mid.key = k
  <2>1. mid = [writer |-> w, frame |-> f, key |-> k, wanted |-> work.wanted,
               useless |-> work.useless, bundles |-> work.bundles, service |-> work.service]
    BY <1>1
  <2> HIDE DEF mid
  <2>2. /\ mid.key = k /\ mid.wanted = work.wanted /\ mid.bundles = work.bundles
        /\ mid.service = work.service
        /\ mid = [writer |-> w, frame |-> f, key |-> mid.key, wanted |-> mid.wanted,
                  useless |-> mid.useless, bundles |-> mid.bundles, service |-> mid.service]
    BY <2>1
  <2> QED BY <1>1, <2>2, WorkAlike
<1> HIDE DEF banned, mid
<1>6. Len(types) \in Nat /\ \A i \in 1 .. Len(types) : types[i] \in ToSet(WantedTypes[w])
  BY WantedAssumption
<1> HIDE DEF types
<1>7. PICK g : /\ g[0] = mid
               /\ \A i \in 1 .. Len(types) : g[i] = AddOfType(g[i - 1], types[i])
               /\ AddingTypes!Fold(mid, types) = g[Len(types)]
  BY <1>6, AddingTypes!FoldStates
<1> DEFINE T == {i \in 0 .. Len(types) : WorkOK(g[i], w, f, {}) /\ g[i].key = k}
<1>8. 0 \in T
  BY <1>5, <1>6, <1>7
<1>9. ASSUME NEW i \in 0 .. Len(types) - 1, i \in T
      PROVE  i + 1 \in T
  <2>1. i + 1 \in 1 .. Len(types) /\ (i + 1) - 1 = i /\ i + 1 \in 0 .. Len(types)
    BY <1>6
  <2>2. WorkOK(g[i], w, f, {}) /\ g[i].key = k /\ types[i + 1] \in ToSet(WantedTypes[w])
    BY <1>6, <1>9, <2>1
  <2>3. WorkOK(AddOfType(g[i], types[i + 1]), w, f, {}) /\ AddOfType(g[i], types[i + 1]).key = k
    BY <2>2, AddOfTypeOK
  <2>4. g[i + 1] = AddOfType(g[i], types[i + 1])
    BY <1>7, <2>1
  <2> QED BY <2>1, <2>3, <2>4
<1> HIDE DEF T
<1>10. 0 .. Len(types) \subseteq T
  BY <1>6, <1>8, <1>9, AddingTypes!NatIndUpTo
<1>11. Len(types) \in T
  BY <1>6, <1>10
<1>12. WorkOK(AddingTypes!Fold(mid, types), w, f, {})
  BY <1>7, <1>11 DEF T
<1> QED BY <1>3, <1>4, <1>12

\* The turn of b, which the writer has for a key at place i.
Turn(work, w, f, k, i, b, done, more) ==
  /\ WorkOK(work, w, f, done) /\ work.key = k /\ Has(f, k)
  /\ i \in DOMAIN work.bundles[k] /\ b = work.bundles[k][i]
  /\ <<k, i - 1>> \in more \ done /\ done \subseteq more

\* The rows of one object in one table.
LEMMA ConvertObjectOK ==
  ASSUME strict \in BOOLEAN, BundlesAre, NEW w \in Writers,
         NEW f, FrameOK(f), NEW k \in Key, NEW done, NEW more, NEW work, NEW i, NEW b,
         Turn(work, w, f, k, i, b, done, more)
  PROVE  LET u == ConvertObject(work, b)
         IN  /\ WorkOK(u, w, f, more)
             /\ u.key = k /\ u.bundles = work.bundles
<1> DEFINE c == b.converter
           name == <<k, i - 1>>
           s == work.service
           u == ConvertObject(work, b)
           nrows == NumberOfRows(c, f, k)
<1>0. /\ WorkOK(work, w, f, done) /\ work.key = k /\ Has(f, k)
      /\ i \in DOMAIN work.bundles[k] /\ b = work.bundles[k][i]
      /\ name \in more \ done /\ done \subseteq more
  BY DEF Turn
<1>1. /\ work = [writer |-> w, frame |-> f, key |-> work.key, wanted |-> work.wanted,
                 useless |-> work.useless, bundles |-> work.bundles, service |-> work.service]
      /\ WantsOK(w, work.wanted)
      /\ ServiceOK(s) /\ BundlesOK(s, w, work.bundles)
      /\ \A v \in Writers \ {w} : BundlesOK(s, v, bundles[v])
      /\ InUse(s, [bundles EXCEPT ![w] = work.bundles]) /\ Unwritten(s, f, done)
      /\ \A j \in DOMAIN s.cache : s.cache[j] <= f.id
  BY <1>0 DEF WorkOK
<1>2. /\ c \in Wants(w, k) /\ b.table = name
      /\ name \in DOMAIN s.tables /\ s.tables[name].converter = c
  BY <1>0, <1>1 DEF BundlesOK
<1>3. c.multi \in BOOLEAN
  BY <1>2, Wanting
<1>4. work.frame = f
  BY <1>1
<1>5. nrows \in Nat /\ (~c.multi => nrows = 1)
  BY <1>0, <1>3 DEF NumberOfRows, Has, FrameOK
<1> HIDE DEF c, name, s, nrows
<1>6. CASE c.stop # f.stop \/ nrows = 0
  <2>1. u = work
    BY <1>0, <1>4, <1>6 DEF ConvertObject, c, nrows
  <2>2. Unwritten(s, f, more)
    BY <1>0, <1>1 DEF Unwritten
  <2>3. WorkOK(work, w, f, more)
    BY <1>1, <2>2 DEF WorkOK, s
  <2> QED BY <1>0, <2>1, <2>3
<1>7. CASE c.stop = f.stop /\ nrows # 0
  <2> DEFINE t == WriteRow(s, name, f, nrows)
  <2>1. u = [work EXCEPT !.service = WriteRow(s, name, f, nrows)]
    BY <1>0, <1>1, <1>2, <1>4, <1>7 DEF ConvertObject, c, nrows, s
  <2>2. /\ ServiceOK(t) /\ Keeps(t, s) /\ DOMAIN t.tables = DOMAIN s.tables
        /\ t.listed = s.listed
        /\ \A n \in DOMAIN s.tables : t.tables[n].connected = s.tables[n].connected
        /\ \A n \in DOMAIN s.tables \ {name} : t.tables[n] = s.tables[n]
        /\ \A j \in DOMAIN t.cache : t.cache[j] <= f.id
    <3>1. f.stop = Physics => s.tables[name].lastHeader # f.id
      BY <1>0, <1>1, <1>2 DEF Unwritten
    <3>2. nrows \in Nat \ {0}
      BY <1>5, <1>7
    <3>3. f.id \in Nat \ {0}
      BY DEF FrameOK
    <3> QED BY <1>1, <1>2, <1>3, <1>5, <1>7, <3>1, <3>2, <3>3, WriteRowOK
  <2> HIDE DEF t, u
  <2>3. u = [writer |-> w, frame |-> f, key |-> work.key, wanted |-> work.wanted,
             useless |-> work.useless, bundles |-> work.bundles, service |-> t]
    BY <1>1, <2>1 DEF t
  <2>4. /\ u.key = work.key /\ u.wanted = work.wanted /\ u.bundles = work.bundles
        /\ u.service = t
        /\ u = [writer |-> w, frame |-> f, key |-> u.key, wanted |-> u.wanted,
                useless |-> u.useless, bundles |-> u.bundles, service |-> u.service]
    BY <2>3
  <2>5. BundlesOK(t, w, work.bundles) /\ \A v \in Writers \ {w} : BundlesOK(t, v, bundles[v])
    BY <1>1, <2>2, StillBundles
  <2>6. InUse(t, [bundles EXCEPT ![w] = work.bundles])
    BY <1>1, <2>2 DEF InUse
  <2>7. Unwritten(t, f, more)
    BY <1>0, <1>1, <2>2 DEF Unwritten
  <2>8. WorkOK(u, w, f, more)
    BY <1>1, <2>2, <2>4, <2>5, <2>6, <2>7 DEF WorkOK
  <2> QED BY <1>0, <2>4, <2>8 DEF u
<1> QED BY <1>6, <1>7

\* Fewer tables whose turn has not come.
LEMMA MoreDone ==
  ASSUME NEW w, NEW f, NEW done, NEW more, done \subseteq more, NEW work, WorkOK(work, w, f, done)
  PROVE  WorkOK(work, w, f, more)
BY DEF WorkOK, Unwritten

\* The tables of a key.
LEMMA ConvertKeyOK ==
  ASSUME strict \in BOOLEAN, BundlesAre, NEW w \in Writers,
         NEW f, FrameOK(f),
         NEW S, NEW k \in Key, k \notin S, NEW work, WorkOK(work, w, f, S \X Nat)
  PROVE  WorkOK(ConvertKey(work, k), w, f, (S \union {k}) \X Nat)
<1>1. S \X Nat \subseteq (S \union {k}) \X Nat
  OBVIOUS
<1>2. work = [writer |-> w, frame |-> f, key |-> work.key, wanted |-> work.wanted,
              useless |-> work.useless, bundles |-> work.bundles, service |-> work.service]
      /\ WantsOK(w, work.wanted)
  BY DEF WorkOK
<1>3. work.frame = f
  BY <1>2
<1>4. CASE ~Has(f, k)
  <2>1. ConvertKey(work, k) = work
    BY <1>3, <1>4 DEF ConvertKey
  <2> QED BY <1>1, <2>1, MoreDone
<1>5. CASE Has(f, k)
  <2> DEFINE mid == [work EXCEPT !.key = k]
             bs == work.bundles[k]
             len == Len(bs)
             Done(i) == (S \X Nat) \union {<<k, j - 1>> : j \in 1 .. i}
  <2>1. WorkOK(mid, w, f, S \X Nat) /\ mid.key = k /\ mid.bundles = work.bundles
    <3>1. mid = [writer |-> w, frame |-> f, key |-> k, wanted |-> work.wanted,
                 useless |-> work.useless, bundles |-> work.bundles, service |-> work.service]
      BY <1>2
    <3> HIDE DEF mid
    <3>2. /\ mid.key = k /\ mid.wanted = work.wanted /\ mid.bundles = work.bundles
          /\ mid.service = work.service
          /\ mid = [writer |-> w, frame |-> f, key |-> mid.key, wanted |-> mid.wanted,
                    useless |-> mid.useless, bundles |-> mid.bundles, service |-> mid.service]
      BY <3>1
    <3> QED BY <1>2, <3>2, WorkAlike
  <2> HIDE DEF mid
  <2>2. ConvertKey(work, k) = Converting!Fold(mid, bs)
    BY <1>3, <1>5 DEF ConvertKey, mid
  <2>3. len \in Nat /\ DOMAIN bs = 1 .. len
    BY DEF WorkOK, BundlesOK
  <2> HIDE DEF bs
  <2>4. PICK g : /\ g[0] = mid
                 /\ \A i \in 1 .. len : g[i] = ConvertObject(g[i - 1], bs[i])
                 /\ Converting!Fold(mid, bs) = g[len]
    BY <2>3, Converting!FoldStates
  <2> DEFINE T == {i \in 0 .. len : /\ WorkOK(g[i], w, f, Done(i)) /\ g[i].key = k
                                    /\ g[i].bundles = work.bundles}
  <2>5. 0 \in T
    <3>1. Done(0) = S \X Nat
      OBVIOUS
    <3> HIDE DEF Done
    <3>2. 0 \in 0 .. len
      BY <2>3
    <3> QED BY <2>1, <2>4, <3>1, <3>2
  <2>6. ASSUME NEW i \in 0 .. len - 1, i \in T
        PROVE  i + 1 \in T
    <3>1. i + 1 \in 1 .. len /\ (i + 1) - 1 = i /\ i + 1 \in 0 .. len
      BY <2>3
    <3>2. WorkOK(g[i], w, f, Done(i)) /\ g[i].key = k /\ g[i].bundles = work.bundles
      BY <2>6
    <3>3. <<k, (i + 1) - 1>> \notin Done(i)
      <4>1. <<k, i>> \notin S \X Nat
        OBVIOUS
      <4>2. \A j \in 1 .. i : j - 1 # i
        BY <2>3
      <4>3. \A j \in 1 .. i : <<k, j - 1>> # <<k, i>>
        BY <4>2
      <4> QED BY <3>1, <4>1, <4>3
    <3>4. Done(i) \union {<<k, (i + 1) - 1>>} = Done(i + 1)
      <4>1. 1 .. i + 1 = (1 .. i) \union {i + 1}
        BY <2>3
      <4> QED BY <4>1
    <3>6. i + 1 \in DOMAIN g[i].bundles[k] /\ g[i].bundles[k] = bs
      BY <2>3, <3>1, <3>2 DEF bs
    <3> DEFINE now == g[i]
               next == i + 1
               done == Done(i)
               b == now.bundles[k][next]
               name == <<k, next - 1>>
               more == done \union {name}
               u == ConvertObject(now, b)
    <3>7. /\ WorkOK(u, w, f, more)
          /\ u.key = k /\ u.bundles = now.bundles
      <4>1. Turn(now, w, f, k, next, b, done, more)
        BY <1>5, <3>2, <3>3, <3>6 DEF Turn
      <4> HIDE DEF now, next, done, b, name, more
      <4> QED BY <4>1, ConvertObjectOK
    <3> HIDE DEF Done
    <3>8. g[i + 1] = u
      BY <2>4, <3>1, <3>6
    <3> QED BY <3>1, <3>2, <3>4, <3>7, <3>8
  <2> HIDE DEF T
  <2>7. 0 .. len \subseteq T
    BY <2>3, <2>5, <2>6, Converting!NatIndUpTo
  <2>8. len \in T
    BY <2>3, <2>7
  <2>9. WorkOK(g[len], w, f, Done(len))
    BY <2>8 DEF T
  <2>10. Done(len) \subseteq (S \union {k}) \X Nat
    BY <2>3
  <2> HIDE DEF Done
  <2> QED BY <2>2, <2>4, <2>9, <2>10, MoreDone
<1> QED BY <1>4, <1>5

\* The key sequence, as the loops over it need it.
LEMMA KeysAre ==
  /\ Len(Keys) \in Nat /\ DOMAIN Keys = 1 .. Len(Keys)
  /\ \A i \in 1 .. Len(Keys) : Keys[i] \in Key
  /\ \A i, j \in 1 .. Len(Keys) : Keys[i] = Keys[j] => i = j
BY WriterAssumption

\* Everything a writer does with a frame.
LEMMA BookedOK ==
  ASSUME strict \in BOOLEAN, SameTables, BundlesAre, NEW w \in Writers, NEW f, FrameOK(f),
         WorkOK(Work(w, f), w, f, {})
  PROVE  WorkOK(Booked(w, f), w, f, Key \X Nat)
<1> DEFINE n == Len(Keys)
           base == Work(w, f)
<1>1. n \in Nat /\ \A i \in 1 .. n : Keys[i] \in Key
  BY KeysAre
<1> HIDE DEF base
<1> DEFINE wanted == AddingWanted!Fold(base, Keys)
           typed == AddingTyped!Fold(wanted, Keys)
<1>2. WorkOK(wanted, w, f, {})
  <2>1. PICK g : /\ g[0] = base
                 /\ \A i \in 1 .. n : g[i] = AddWanted(g[i - 1], Keys[i])
                 /\ AddingWanted!Fold(base, Keys) = g[n]
    BY <1>1, AddingWanted!FoldStates
  <2> DEFINE T == {i \in 0 .. n : WorkOK(g[i], w, f, {})}
  <2>2. 0 \in T
    BY <1>1, <2>1 DEF base
  <2>3. ASSUME NEW i \in 0 .. n - 1, i \in T
        PROVE  i + 1 \in T
    <3>1. i + 1 \in 1 .. n /\ (i + 1) - 1 = i /\ i + 1 \in 0 .. n
      BY <1>1
    <3>2. WorkOK(g[i], w, f, {}) /\ Keys[i + 1] \in Key
      BY <1>1, <2>3, <3>1
    <3>3. WorkOK(AddWanted(g[i], Keys[i + 1]), w, f, {})
      BY <3>2, AddWantedOK
    <3> QED BY <2>1, <3>1, <3>3
  <2> HIDE DEF T
  <2>4. 0 .. n \subseteq T
    BY <1>1, <2>2, <2>3, AddingWanted!NatIndUpTo
  <2>5. n \in T
    BY <1>1, <2>4
  <2> QED BY <2>1, <2>5 DEF T
<1> HIDE DEF wanted
<1>3. WorkOK(typed, w, f, {})
  <2>1. PICK g : /\ g[0] = wanted
                 /\ \A i \in 1 .. n : g[i] = AddTyped(g[i - 1], Keys[i])
                 /\ AddingTyped!Fold(wanted, Keys) = g[n]
    BY <1>1, AddingTyped!FoldStates
  <2> DEFINE T == {i \in 0 .. n : WorkOK(g[i], w, f, {})}
  <2>2. 0 \in T
    BY <1>1, <1>2, <2>1
  <2>3. ASSUME NEW i \in 0 .. n - 1, i \in T
        PROVE  i + 1 \in T
    <3>1. i + 1 \in 1 .. n /\ (i + 1) - 1 = i /\ i + 1 \in 0 .. n
      BY <1>1
    <3>2. WorkOK(g[i], w, f, {}) /\ Keys[i + 1] \in Key
      BY <1>1, <2>3, <3>1
    <3>3. WorkOK(AddTyped(g[i], Keys[i + 1]), w, f, {})
      BY <3>2, AddTypedOK
    <3> QED BY <2>1, <3>1, <3>3
  <2> HIDE DEF T
  <2>4. 0 .. n \subseteq T
    BY <1>1, <2>2, <2>3, AddingTyped!NatIndUpTo
  <2>5. n \in T
    BY <1>1, <2>4
  <2> QED BY <2>1, <2>5 DEF T
<1> HIDE DEF typed
<1>4. PICK g : /\ g[0] = typed
               /\ \A i \in 1 .. n : g[i] = ConvertKey(g[i - 1], Keys[i])
               /\ ConvertingKeys!Fold(typed, Keys) = g[n]
  BY <1>1, ConvertingKeys!FoldStates
<1> DEFINE Done(i) == {Keys[j] : j \in 1 .. i}
           T == {i \in 0 .. n : WorkOK(g[i], w, f, Done(i) \X Nat)}
<1>5. 0 \in T
  <2>1. Done(0) \X Nat = {} /\ 0 \in 0 .. n
    BY <1>1
  <2> HIDE DEF Done
  <2> QED BY <1>3, <1>4, <2>1
<1>6. ASSUME NEW i \in 0 .. n - 1, i \in T
      PROVE  i + 1 \in T
  <2>1. i + 1 \in 1 .. n /\ (i + 1) - 1 = i /\ i + 1 \in 0 .. n
    BY <1>1
  <2>2. WorkOK(g[i], w, f, Done(i) \X Nat) /\ Keys[i + 1] \in Key
    BY <1>1, <1>6, <2>1
  <2>3. Keys[i + 1] \notin Done(i)
    <3>1. \A j \in 1 .. i : j \in 1 .. n /\ j # i + 1
      BY <1>1
    <3> QED BY <2>1, <3>1, KeysAre
  <2>4. Done(i) \union {Keys[i + 1]} = Done(i + 1)
    <3>1. 1 .. i + 1 = (1 .. i) \union {i + 1}
      BY <1>1
    <3> QED BY <3>1
  <2>5. WorkOK(ConvertKey(g[i], Keys[i + 1]), w, f, (Done(i) \union {Keys[i + 1]}) \X Nat)
    <3> HIDE DEF Done
    <3> QED BY <2>2, <2>3, ConvertKeyOK
  <2>6. g[i + 1] = ConvertKey(g[i], Keys[i + 1])
    BY <1>4, <2>1
  <2> HIDE DEF Done
  <2> QED BY <2>1, <2>4, <2>5, <2>6
<1> HIDE DEF T
<1>7. 0 .. n \subseteq T
  BY <1>1, <1>5, <1>6, ConvertingKeys!NatIndUpTo
<1>8. n \in T
  BY <1>1, <1>7
<1>9. WorkOK(g[n], w, f, Done(n) \X Nat)
  BY <1>8 DEF T
<1>10. Done(n) \X Nat \subseteq Key \X Nat
  BY <1>1
<1> HIDE DEF Done
<1>11. WorkOK(ConvertingKeys!Fold(typed, Keys), w, f, Key \X Nat)
  BY <1>4, <1>9, <1>10, MoreDone
<1> QED BY <1>11 DEF Booked, typed, wanted, base

-----------------------------------------------------------------------------
(* The steps.                                                              *)

\* Tables keep their alignment type.
LEMMA ServiceStays ==
  ASSUME strict' = strict, ServiceOK(service')
  PROVE  ServiceOK(service)'
<1>1. ASSUME NEW n \in DOMAIN service'.tables
      PROVE  TableOK(service.tables[n], service.cache)'
  <2>1. service'.tables[n] \in Tables
    BY DEF ServiceOK, TableOK
  <2>2. PICK p \in 0 .. Len(service'.cache) : Reaches(service'.tables[n], service'.cache, p)
    BY DEF ServiceOK, TableOK
  <2>3. Reaches(service.tables[n], service.cache, p)'
    BY <2>2 DEF Reaches, DoPadding, UseIndex
  <2> QED BY <2>1, <2>3 DEF TableOK
<1> QED BY <1>1 DEF ServiceOK

LEMMA LetGoStays ==
  ASSUME strict' = strict, LetGo(service', bundles')
  PROVE  LetGo(service, bundles)'
BY DEF LetGo, Had, Reaches, DoPadding, UseIndex, PointsTo

LEMMA InitInv ==
  ASSUME Init
  PROVE  Inv /\ ClosedInv
<1>1. strict \in BOOLEAN
  BY WriterAssumption DEF Init
<1>2. FramesOK /\ NewEvent
  <2>1. service.cache = <<>> /\ DOMAIN service.cache = {} /\ at = 0 /\ frames = <<>>
    BY DEF Init
  <2>2. NumWriters \in Nat
    BY WriterAssumption
  <2> QED BY <2>1, <2>2 DEF FramesOK, NewEvent
<1>3. WantedOK
  <2>1. wantedNames = [w \in Writers |-> wantedNames[w]] /\ wantedNames = WantedKeys
        /\ \A w \in Writers : WantedKeys[w] = [k \in Key |-> WantedKeys[w][k]]
    BY WantedAssumption DEF Init
  <2>2. ASSUME NEW w \in Writers
        PROVE  WantsOK(w, WantedKeys[w])
    <3>1. ASSUME NEW k \in Key
          PROVE  /\ WantedKeys[w][k] \in Seq(Converters)
                 /\ \A i \in DOMAIN WantedKeys[w][k] : WantedKeys[w][k][i] \in Wants(w, k)
      <4> DEFINE s == WantedKeys[w][k]
      <4>1. s \in Seq(ToSet(s))
        BY WantedAssumption
      <4>2. ToSet(s) \subseteq Wants(w, k) /\ ToSet(s) \subseteq Converters
        BY Wanting DEF Wants
      <4> HIDE DEF s
      <4>3. s \in Seq(Converters) /\ \A i \in DOMAIN s : s[i] \in ToSet(s)
        BY <4>1, <4>2
      <4> QED BY <4>2, <4>3 DEF s
    <3> QED BY <2>1, <3>1 DEF WantsOK
  <2> QED BY <2>1, <2>2 DEF WantedOK
<1>4. /\ service = [tables |-> <<>>, listed |-> {}, cache |-> <<>>]
      /\ service.tables = <<>> /\ service.listed = {} /\ service.cache = <<>>
      /\ DOMAIN service.tables = {} /\ DOMAIN service.cache = {}
  BY DEF Init
<1>5. ServiceOK(service)
  <2>1. service.cache \in Seq(Nat \ {0})
    BY <1>4
  <2>2. service.tables = [n \in DOMAIN service.tables |-> service.tables[n]]
    BY <1>4
  <2> QED BY <1>4, <2>1, <2>2 DEF ServiceOK, CacheOK
<1>6. BundlesAre /\ \A w \in Writers : BundlesOK(service, w, bundles[w])
  <2>1. bundles = [w \in Writers |-> [k \in Key |-> <<>>]]
    BY DEF Init
  <2>2. \A w \in Writers : /\ bundles[w] \in [Key -> Seq(Bundles)]
                           /\ \A k \in Key : DOMAIN bundles[w][k] = {}
    BY <2>1
  <2> QED BY <2>1, <2>2 DEF BundlesAre, BundlesOK
<1>7. finished = 0 /\ open /\ InUse(service, bundles)
  BY <1>4 DEF Init, InUse
<1>8. finished \in 0 .. NumWriters
  BY <1>7, WriterAssumption
<1> QED BY <1>1, <1>2, <1>3, <1>5, <1>6, <1>7, <1>8 DEF Inv, ClosedInv

LEMMA StutterStep ==
  ASSUME Inv, UNCHANGED vars
  PROVE  Inv'
<1> USE DEF vars
<1>1. FramesOK' /\ NewEvent' /\ WantedOK' /\ BundlesAre'
  BY DEF Inv, FramesOK, NewEvent, Handled, WantedOK, BundlesAre
<1>2. ServiceOK(service)'
  BY ServiceStays DEF Inv
<1>3. (\A w \in Writers : BundlesOK(service, w, bundles[w]))'
  BY DEF Inv, BundlesOK
<1>4. finished # 0 => LetGo(service, bundles)'
  BY LetGoStays DEF Inv
<1>5. finished = 0 => InUse(service, bundles)'
  BY DEF Inv, InUse, Had
<1> QED BY <1>1, <1>2, <1>3, <1>4, <1>5 DEF Inv

\* The last of the frames is what the writers get.
LEMMA LastFrame ==
  ASSUME FramesOK, frames # <<>>
  PROVE  /\ Len(frames) \in Nat \ {0} /\ Last(frames) = frames[Len(frames)]
         /\ Last(frames) \in FrameRecs /\ Last(frames).id = Len(frames) /\ FrameOK(Last(frames))
<1>1. Len(frames) \in Nat \ {0} /\ Last(frames) = frames[Len(frames)]
      /\ Len(frames) \in DOMAIN frames
  BY DEF FramesOK, Last
<1>2. frames[Len(frames)] \in FrameRecs /\ frames[Len(frames)].id = Len(frames)
  BY <1>1 DEF FramesOK
<1>3. \E kind \in FrameKinds : frames[Len(frames)].objects = kind.objects
  BY <1>2 DEF FrameRecs
<1> QED BY <1>1, <1>2, <1>3, WriterAssumption DEF FrameOK

LEMMA NewFrameStep ==
  ASSUME Inv, NewFrame
  PROVE  Inv'
<1>1. /\ at = 0 /\ finished = 0 /\ at' = 1
      /\ UNCHANGED <<strict, wantedNames, uselessKeys, bundles, service, open, finished>>
  BY DEF NewFrame
<1>2. PICK kind \in FrameKinds :
        frames' = Append(frames, [id |-> Len(frames) + 1, stop |-> kind.stop,
                                  stream |-> kind.stream, objects |-> kind.objects,
                                  seenBy |-> {}])
  BY DEF NewFrame
<1> DEFINE f == [id |-> Len(frames) + 1, stop |-> kind.stop, stream |-> kind.stream,
                 objects |-> kind.objects, seenBy |-> {}]
<1>3. frames \in Seq(FrameRecs) /\ Len(frames) \in Nat /\ DOMAIN frames = 1 .. Len(frames)
  BY DEF Inv, FramesOK
<1>4. f \in FrameRecs /\ f.id = Len(frames) + 1
  BY <1>3 DEF FrameRecs
<1> HIDE DEF f
<1>5. frames' = Append(frames, f)
  BY <1>2 DEF f
<1>6. /\ frames' \in Seq(FrameRecs) /\ Len(frames') = Len(frames) + 1
      /\ DOMAIN frames' = 1 .. Len(frames) + 1
      /\ \A i \in 1 .. Len(frames) : frames'[i] = frames[i]
      /\ frames'[Len(frames) + 1] = f
  BY <1>3, <1>4, <1>5
<1>7. \A i \in DOMAIN service.cache : /\ service.cache[i] \in Nat
                                      /\ service.cache[i] <= Len(frames)
  BY DEF Inv, FramesOK, ServiceOK, CacheOK
<1>8. FramesOK'
  <2>1. \A i \in DOMAIN frames' : frames'[i].id = i
    <3> SUFFICES ASSUME NEW i \in DOMAIN frames' PROVE frames'[i].id = i
      OBVIOUS
    <3>1. i \in 1 .. Len(frames) \/ i = Len(frames) + 1
      BY <1>3, <1>6
    <3> QED BY <1>3, <1>4, <1>6, <3>1 DEF Inv, FramesOK
  <2>2. 1 \in 0 .. NumWriters
    BY WriterAssumption
  <2>3. frames' # <<>>
    BY <1>3, <1>6
  <2>4. \A i \in DOMAIN service.cache : service.cache[i] <= Len(frames) + 1
    BY <1>3, <1>7
  <2> QED BY <1>1, <1>6, <2>1, <2>2, <2>3, <2>4 DEF FramesOK
<1>9. NewEvent'
  <2>1. \A i \in DOMAIN service.cache : service.cache[i] < Len(frames) + 1
    BY <1>3, <1>7
  <2> QED BY <1>1, <1>6, <2>1 DEF NewEvent
<1>10. WantedOK' /\ BundlesAre'
  BY <1>1 DEF Inv, WantedOK, BundlesAre
<1>11. ServiceOK(service)'
  BY <1>1, ServiceStays DEF Inv
<1>12. (\A w \in Writers : BundlesOK(service, w, bundles[w]))'
  BY <1>1 DEF Inv, BundlesOK
<1>13. InUse(service, bundles)'
  BY <1>1 DEF Inv, InUse, Had
<1> QED BY <1>1, <1>8, <1>9, <1>10, <1>11, <1>12, <1>13 DEF Inv

LEMMA DropStep ==
  ASSUME Inv, Drop
  PROVE  Inv'
<1>1. /\ at > 1 /\ at' = 0
      /\ UNCHANGED <<strict, wantedNames, uselessKeys, bundles, service, open, frames, finished>>
  BY DEF Drop
<1>2. 0 \in 0 .. NumWriters /\ finished = 0
  BY <1>1, WriterAssumption DEF Inv
<1>3. FramesOK' /\ NewEvent' /\ WantedOK' /\ BundlesAre'
  BY <1>1, <1>2 DEF Inv, FramesOK, NewEvent, WantedOK, BundlesAre
<1>4. ServiceOK(service)'
  BY <1>1, ServiceStays DEF Inv
<1>5. (\A w \in Writers : BundlesOK(service, w, bundles[w]))'
  BY <1>1 DEF Inv, BundlesOK
<1>6. InUse(service, bundles)'
  BY <1>1, <1>2 DEF Inv, InUse, Had
<1> QED BY <1>1, <1>2, <1>3, <1>4, <1>5, <1>6 DEF Inv

\* A writer that is given a frame starts from what the last step left.
LEMMA WorkStarts ==
  ASSUME Inv, at # 0, NEW f, f = Last(frames)
  PROVE  /\ at \in Writers /\ finished = 0 /\ FrameOK(f) /\ f.id = Len(frames)
         /\ Work(at, f).wanted = wantedNames[at] /\ Work(at, f).bundles = bundles[at]
         /\ Work(at, f).service = service
         /\ Handled(at, f) => WorkOK(Work(at, f), at, f, {})
<1>1. at \in Writers /\ finished = 0 /\ frames # <<>>
  <2>1. at \in 0 .. NumWriters /\ NumWriters \in Nat /\ frames # <<>>
    BY WriterAssumption DEF Inv, FramesOK
  <2>2. finished = 0
    BY DEF Inv
  <2> QED BY <2>1, <2>2 DEF Writers
<1>2. f \in FrameRecs /\ FrameOK(f) /\ f.id = Len(frames) /\ Len(frames) \in Nat \ {0}
  BY <1>1, LastFrame DEF Inv
<1> DEFINE work == Work(at, f)
<1>3. /\ work = [writer |-> at, frame |-> f, key |-> None, wanted |-> wantedNames[at],
                 useless |-> uselessKeys[at], bundles |-> bundles[at], service |-> service]
  BY DEF Work
<1> HIDE DEF work
<1>4. /\ work.wanted = wantedNames[at] /\ work.bundles = bundles[at] /\ work.service = service
      /\ work = [writer |-> at, frame |-> f, key |-> work.key, wanted |-> work.wanted,
                 useless |-> work.useless, bundles |-> work.bundles, service |-> work.service]
  BY <1>3
<1>5. ASSUME Handled(at, f)
      PROVE  WorkOK(work, at, f, {})
  <2>1. WantsOK(at, wantedNames[at])
    BY <1>1 DEF Inv, WantedOK
  <2>2. ServiceOK(service) /\ \A w \in Writers : BundlesOK(service, w, bundles[w])
    BY DEF Inv
  <2>3. InUse(service, [bundles EXCEPT ![at] = bundles[at]])
    <3>1. [bundles EXCEPT ![at] = bundles[at]] = bundles
      BY <1>1 DEF Inv, BundlesAre
    <3> QED BY <1>1, <3>1 DEF Inv
  <2>4. \A i \in DOMAIN service.cache : service.cache[i] <= f.id
    BY <1>2 DEF Inv, FramesOK
  <2>5. ASSUME f.stop = Physics, NEW n \in DOMAIN service.tables
        PROVE  service.tables[n].lastHeader # f.id
    <3>1. at \in at .. NumWriters
      BY <1>1, WriterAssumption DEF Writers
    <3>2. \A i \in DOMAIN service.cache : service.cache[i] < Len(frames)
      BY <1>1, <1>5, <2>5, <3>1 DEF Inv, NewEvent
    <3>3. PICK p \in 0 .. Len(service.cache) :
            Reaches(service.tables[n], service.cache, p)
      BY <2>2 DEF ServiceOK, TableOK
    <3>4. service.cache \in Seq(Nat \ {0})
      BY <2>2 DEF ServiceOK, CacheOK
    <3>5. CASE p = 0
      BY <1>2, <3>3, <3>5 DEF Reaches, NoEvent
    <3>6. CASE p # 0
      <4>1. p \in DOMAIN service.cache /\ service.cache[p] \in Nat
        BY <3>4, <3>6
      <4>2. service.tables[n].lastHeader = service.cache[p]
        BY <3>3, <3>6 DEF Reaches
      <4> QED BY <1>2, <3>2, <4>1, <4>2
    <3> QED BY <3>5, <3>6
  <2>6. Unwritten(service, f, {})
    BY <2>5 DEF Unwritten
  <2>7. /\ WantsOK(at, work.wanted) /\ ServiceOK(work.service)
        /\ BundlesOK(work.service, at, work.bundles)
        /\ \A v \in Writers \ {at} : BundlesOK(work.service, v, bundles[v])
    BY <1>1, <1>4, <2>1, <2>2
  <2>8. InUse(work.service, [bundles EXCEPT ![at] = work.bundles])
    BY <1>4, <2>3
  <2>9. /\ Unwritten(work.service, f, {})
        /\ \A i \in DOMAIN work.service.cache : work.service.cache[i] <= f.id
    BY <1>4, <2>4, <2>6
  <2> QED BY <1>4, <2>7, <2>8, <2>9 DEF WorkOK
<1> QED BY <1>1, <1>2, <1>4, <1>5 DEF work

LEMMA ConvertStep ==
  ASSUME Inv, OwnEvents, SameTables, Convert
  PROVE  Inv'
<1> DEFINE f == Last(frames)
<1>1. /\ at # 0 /\ at' = (IF at = NumWriters THEN 0 ELSE at + 1)
      /\ frames' = [frames EXCEPT ![Len(frames)].seenBy = @ \union {at}]
      /\ UNCHANGED <<strict, open, finished>>
  BY DEF Convert, Passed
<1>2. PICK work : /\ work = IF Handled(at, f) THEN Booked(at, f) ELSE Work(at, f)
                  /\ wantedNames' = [wantedNames EXCEPT ![at] = work.wanted]
                  /\ bundles' = [bundles EXCEPT ![at] = work.bundles]
                  /\ service' = work.service
  BY DEF Convert
<1>3. /\ at \in Writers /\ finished = 0 /\ FrameOK(f) /\ f.id = Len(frames)
      /\ Work(at, f).wanted = wantedNames[at] /\ Work(at, f).bundles = bundles[at]
      /\ Work(at, f).service = service
      /\ Handled(at, f) => WorkOK(Work(at, f), at, f, {})
  BY <1>1, WorkStarts
<1>4. /\ frames # <<>> /\ frames \in Seq(FrameRecs) /\ \A i \in DOMAIN frames : frames[i].id = i
      /\ f = frames[Len(frames)] /\ f \in FrameRecs /\ Len(frames) \in Nat \ {0}
      /\ DOMAIN frames = 1 .. Len(frames)
  BY <1>1, LastFrame DEF Inv, FramesOK
<1>5. strict \in BOOLEAN /\ BundlesAre /\ at \in 0 .. NumWriters /\ NumWriters \in Nat
  BY WriterAssumption DEF Inv, FramesOK
<1> DEFINE g == [f EXCEPT !.seenBy = @ \union {at}]
<1>6. g \in FrameRecs /\ g.id = f.id /\ g.stop = f.stop /\ g.stream = f.stream
  BY <1>3, <1>4 DEF FrameRecs
<1> HIDE DEF g
<1>7. /\ frames' \in Seq(FrameRecs) /\ Len(frames') = Len(frames) /\ DOMAIN frames' = DOMAIN frames
      /\ frames'[Len(frames)] = g
      /\ \A i \in DOMAIN frames \ {Len(frames)} : frames'[i] = frames[i]
  <2>1. frames' = [frames EXCEPT ![Len(frames)] = g]
    BY <1>1, <1>4 DEF g
  <2> QED BY <1>4, <1>6, <2>1
<1>8. Last(frames') = g
  BY <1>7 DEF Last
<1> HIDE DEF f
<1>9. /\ WantsOK(at, work.wanted) /\ BundlesOK(work.service, at, work.bundles)
      /\ ServiceOK(work.service)
      /\ \A v \in Writers \ {at} : BundlesOK(work.service, v, bundles[v])
      /\ InUse(work.service, [bundles EXCEPT ![at] = work.bundles])
      /\ \A i \in DOMAIN work.service.cache : work.service.cache[i] <= Len(frames)
      /\ ~Handled(at, f) => work.service = service
  <2>1. CASE Handled(at, f)
    <3>1. WorkOK(work, at, f, Key \X Nat)
      BY <1>2, <1>3, <1>5, <2>1, BookedOK
    <3> QED BY <1>3, <2>1, <3>1 DEF WorkOK
  <2>2. CASE ~Handled(at, f)
    <3>1. work.wanted = wantedNames[at] /\ work.bundles = bundles[at] /\ work.service = service
      BY <1>2, <1>3, <2>2
    <3>2. [bundles EXCEPT ![at] = work.bundles] = bundles
      BY <1>3, <3>1 DEF Inv, BundlesAre
    <3>3. WantsOK(at, wantedNames[at])
      BY <1>3 DEF Inv, WantedOK
    <3>4. /\ ServiceOK(service) /\ \A v \in Writers : BundlesOK(service, v, bundles[v])
          /\ InUse(service, bundles)
          /\ \A i \in DOMAIN service.cache : service.cache[i] <= Len(frames)
      BY <1>3 DEF Inv, FramesOK
    <3> QED BY <1>3, <3>1, <3>2, <3>3, <3>4
  <2> QED BY <2>1, <2>2
<1>10. FramesOK'
  <2>1. at' \in 0 .. NumWriters
    BY <1>1, <1>5
  <2>2. frames' # <<>>
    BY <1>4, <1>7
  <2>3. \A i \in DOMAIN frames' : frames'[i].id = i
    <3> SUFFICES ASSUME NEW i \in DOMAIN frames' PROVE frames'[i].id = i
      OBVIOUS
    <3>1. CASE i = Len(frames)
      BY <1>3, <1>6, <1>7, <3>1
    <3>2. CASE i # Len(frames)
      BY <1>4, <1>7, <3>2
    <3> QED BY <3>1, <3>2
  <2> QED BY <1>2, <1>7, <1>9, <2>1, <2>2, <2>3 DEF FramesOK
<1>11. NewEvent'
  <2> SUFFICES ASSUME at' # 0, g.stop = Physics, NEW w \in at' .. NumWriters, Handled(w, g)
               PROVE  \A i \in DOMAIN service'.cache : service'.cache[i] < Len(frames)
    BY <1>7, <1>8 DEF NewEvent, Handled
  <2>1. at' = at + 1 /\ w \in Writers /\ w # at /\ w \in at .. NumWriters
    BY <1>1, <1>5 DEF Writers
  <2>2. Handled(w, f) /\ f.stop = Physics
    BY <1>6 DEF Handled
  <2>3. f.stream \in Streams[w]
    BY <2>2 DEF Handled
  <2>4. ~Handled(at, f)
    <3> SUFFICES ASSUME Handled(at, f) PROVE FALSE
      OBVIOUS
    <3>1. f.stream \in Streams[at]
      BY <2>2 DEF Handled
    <3> QED BY <1>3, <2>1, <2>3, <3>1 DEF OwnEvents
  <2>5. service' = service
    BY <1>2, <1>9, <2>4
  <2> QED BY <1>1, <2>1, <2>2, <2>5 DEF Inv, NewEvent, f
<1>12. WantedOK'
  <2>1. wantedNames = [w \in Writers |-> wantedNames[w]]
        /\ \A w \in Writers : WantsOK(w, wantedNames[w])
    BY DEF Inv, WantedOK
  <2>2. \A w \in Writers : wantedNames'[w] = IF w = at THEN work.wanted ELSE wantedNames[w]
    BY <1>2, <1>3, <2>1
  <2>3. wantedNames' = [w \in Writers |-> wantedNames'[w]]
    BY <1>2, <2>1
  <2>4. \A w \in Writers : WantsOK(w, wantedNames'[w])
    BY <1>9, <2>1, <2>2
  <2> QED BY <2>3, <2>4 DEF WantedOK
<1>13. BundlesAre' /\ \A w \in Writers : bundles'[w] = IF w = at THEN work.bundles ELSE bundles[w]
  BY <1>2, <1>3, <1>5 DEF BundlesAre
<1>14. ServiceOK(service)'
  <2>1. ServiceOK(service')
    BY <1>2, <1>9
  <2> QED BY <1>1, <2>1, ServiceStays
<1>15. (\A w \in Writers : BundlesOK(service, w, bundles[w]))'
  <2>1. \A w \in Writers : BundlesOK(service', w, bundles'[w])
    BY <1>2, <1>9, <1>13
  <2> QED BY <2>1 DEF BundlesOK
<1>16. InUse(service, bundles)'
  <2>1. InUse(service', bundles')
    BY <1>2, <1>9
  <2> QED BY <2>1 DEF InUse, Had
<1>17. strict' \in BOOLEAN /\ finished' = 0 /\ open' /\ finished' \in 0 .. NumWriters
  BY <1>1, <1>3, <1>5 DEF Inv
<1> QED BY <1>10, <1>11, <1>12, <1>13, <1>14, <1>15, <1>16, <1>17 DEF Inv

\* A table that is let go of is about all events.
LEMMA DisconnectedOK ==
  ASSUME NEW cache, CacheOK(cache), NEW t, TableOK(t, cache), NEW u,
         u = [Align(t, cache) EXCEPT !.connected = FALSE]
  PROVE  /\ u \in Tables /\ Reaches(u, cache, Len(cache)) /\ ~u.connected
         /\ u.converter = t.converter
<1> DEFINE a == Align(t, cache)
<1>1. a \in Tables /\ Reaches(a, cache, Len(cache)) /\ a.converter = t.converter
  BY AlignOK
<1> HIDE DEF a
<1>2. u = [a EXCEPT !.connected = FALSE]
  BY DEF a
<1>3. /\ u \in Tables /\ ~u.connected /\ u.converter = a.converter /\ u.rows = a.rows
      /\ u.index = a.index /\ u.nrowsWithPadding = a.nrowsWithPadding
      /\ u.lastHeader = a.lastHeader
  BY <1>1, <1>2 DEF Tables
<1>4. (UseIndex(u) <=> UseIndex(a)) /\ (DoPadding(u) <=> DoPadding(a))
  BY <1>3 DEF UseIndex, DoPadding
<1>5. Reaches(u, cache, Len(cache))
  BY <1>1, <1>3, <1>4 DEF Reaches
<1> QED BY <1>1, <1>3, <1>5

\* Tables before a writer lets go of some, and when the service has finished
\* with them.
LEMMA FinishedTables ==
  ASSUME NEW s, ServiceOK(s), NEW names, NEW mid, mid = Disconnect(s, names),
         NEW u, u = ServiceFinish(mid)
  PROVE  /\ ServiceOK(u) /\ Keeps(u, s) /\ DOMAIN u.tables = DOMAIN s.tables
         /\ u.listed = {} /\ u.cache = s.cache
         /\ mid.listed = s.listed /\ DOMAIN mid.tables = DOMAIN s.tables
         /\ \A n \in DOMAIN s.tables :
              /\ mid.tables[n].connected <=> s.tables[n].connected /\ n \notin names
              /\ u.tables[n].connected <=> s.tables[n].connected /\ n \notin names
              /\ n \in names \/ Reaches(s.tables[n], s.cache, Len(s.cache))
                   => Reaches(u.tables[n], s.cache, Len(s.cache))
<1> DEFINE let == [n \in DOMAIN s.tables |->
                    IF n \in names THEN [Align(s.tables[n], s.cache) EXCEPT !.connected = FALSE]
                    ELSE s.tables[n]]
<1>1. /\ s = [tables |-> s.tables, listed |-> s.listed, cache |-> s.cache]
      /\ CacheOK(s.cache) /\ \A n \in DOMAIN s.tables : TableOK(s.tables[n], s.cache)
  BY DEF ServiceOK
<1>2. mid = [s EXCEPT !.tables = let]
  BY <1>1 DEF Disconnect
<1>3. DOMAIN let = DOMAIN s.tables
  OBVIOUS
<1>4. ASSUME NEW n \in DOMAIN s.tables
      PROVE  /\ let[n].connected <=> s.tables[n].connected /\ n \notin names
             /\ TableOK(let[n], s.cache) /\ let[n].converter = s.tables[n].converter
             /\ n \in names \/ Reaches(s.tables[n], s.cache, Len(s.cache))
                  => Reaches(let[n], s.cache, Len(s.cache))
  <2>1. CASE n \in names
    <3> DEFINE t == let[n]
               old == s.tables[n]
    <3>1. t = [Align(old, s.cache) EXCEPT !.connected = FALSE] /\ TableOK(old, s.cache)
      BY <1>1, <2>1
    <3> HIDE DEF t, old
    <3>2. /\ t \in Tables /\ Reaches(t, s.cache, Len(s.cache)) /\ ~t.connected
          /\ t.converter = old.converter
      BY <1>1, <3>1, DisconnectedOK
    <3>3. Len(s.cache) \in 0 .. Len(s.cache)
      BY <1>1 DEF CacheOK
    <3> QED BY <2>1, <3>2, <3>3 DEF t, old, TableOK
  <2>2. CASE n \notin names
    <3>1. let[n] = s.tables[n]
      BY <2>2
    <3> HIDE DEF let
    <3> QED BY <1>1, <2>2, <3>1
  <2> QED BY <2>1, <2>2
<1> HIDE DEF let
<1>5. mid = [tables |-> let, listed |-> s.listed, cache |-> s.cache]
  BY <1>1, <1>2
<1>6. mid.tables = let /\ mid.listed = s.listed /\ mid.cache = s.cache
  BY <1>5
<1> DEFINE last == [n \in DOMAIN let |->
                     IF n \in Free(mid) THEN Align(let[n], s.cache) ELSE let[n]]
<1>7. u = [mid EXCEPT !.tables = last, !.listed = {}]
  BY <1>6 DEF ServiceFinish
<1>8. /\ DOMAIN last = DOMAIN s.tables
      /\ last = [n \in DOMAIN last |-> last[n]]
  BY <1>3
<1>9. ASSUME NEW n \in DOMAIN s.tables
      PROVE  /\ last[n].connected <=> let[n].connected
             /\ TableOK(last[n], s.cache) /\ last[n].converter = let[n].converter
             /\ Reaches(let[n], s.cache, Len(s.cache)) => Reaches(last[n], s.cache, Len(s.cache))
  <2>1. TableOK(let[n], s.cache)
    BY <1>4
  <2>2. CASE n \in Free(mid)
    <3> DEFINE t == let[n]
    <3>1. last[n] = Align(t, s.cache)
      BY <1>3, <2>2
    <3> HIDE DEF last, t
    <3>2. /\ Align(t, s.cache) \in Tables /\ Reaches(Align(t, s.cache), s.cache, Len(s.cache))
          /\ Align(t, s.cache).converter = t.converter
          /\ Align(t, s.cache).connected = t.connected
      BY <1>1, <2>1, AlignOK DEF t
    <3>3. Len(s.cache) \in 0 .. Len(s.cache)
      BY <1>1 DEF CacheOK
    <3> QED BY <3>1, <3>2, <3>3 DEF t, TableOK
  <2>3. CASE n \notin Free(mid)
    <3>1. last[n] = let[n]
      BY <1>3, <2>3
    <3> HIDE DEF last
    <3> QED BY <2>1, <3>1
  <2> QED BY <2>2, <2>3
<1> HIDE DEF last
<1>10. u = [tables |-> last, listed |-> {}, cache |-> s.cache]
  <2> DEFINE now == [mid EXCEPT !.tables = last]
  <2>1. now = [tables |-> last, listed |-> s.listed, cache |-> s.cache]
    BY <1>5
  <2>2. u = [now EXCEPT !.listed = {}]
    BY <1>7
  <2> HIDE DEF now
  <2> QED BY <2>1, <2>2
<1>11. u.tables = last /\ u.listed = {} /\ u.cache = s.cache
  BY <1>10
<1>12. u = [tables |-> u.tables, listed |-> u.listed, cache |-> u.cache]
  BY <1>10, <1>11
<1>13. ServiceOK(u)
  BY <1>1, <1>8, <1>9, <1>11, <1>12 DEF ServiceOK
<1>14. Keeps(u, s)
  BY <1>4, <1>8, <1>9, <1>11 DEF Keeps
<1>15. \A n \in DOMAIN s.tables : u.tables[n] = last[n] /\ mid.tables[n] = let[n]
  BY <1>6, <1>11
<1> QED BY <1>3, <1>4, <1>6, <1>8, <1>9, <1>11, <1>13, <1>14, <1>15

LEMMA FinishStep ==
  ASSUME Inv, Finish
  PROVE  /\ Inv'
         /\ ClosedInv /\ NumWriters <= 2 => ClosedInv'
<1> DEFINE w == finished + 1
           names == TablesOf(w)
           mid == Disconnect(service, names)
<1>1. /\ at = 0 /\ finished < NumWriters /\ finished' = w
      /\ service' = ServiceFinish(mid) /\ open' = (open /\ ~Closes(mid))
      /\ bundles' = [bundles EXCEPT ![w] = [k \in Key |-> <<>>]]
      /\ UNCHANGED <<strict, wantedNames, uselessKeys, frames, at>>
  BY DEF Finish
<1>2. /\ NumWriters \in Nat /\ finished \in 0 .. NumWriters /\ w \in Writers /\ w # 0
      /\ w \in 0 .. NumWriters
  BY <1>1, WriterAssumption DEF Inv, Writers
<1>3. /\ ServiceOK(service) /\ \A v \in Writers : BundlesOK(service, v, bundles[v])
      /\ BundlesAre
  BY DEF Inv
<1>4. /\ ServiceOK(service') /\ Keeps(service', service)
      /\ DOMAIN service'.tables = DOMAIN service.tables
      /\ service'.listed = {} /\ service'.cache = service.cache
      /\ mid.listed = service.listed /\ DOMAIN mid.tables = DOMAIN service.tables
      /\ \A n \in DOMAIN service.tables :
           /\ mid.tables[n].connected <=> service.tables[n].connected /\ n \notin names
           /\ service'.tables[n].connected <=> service.tables[n].connected /\ n \notin names
           /\ n \in names \/ Reaches(service.tables[n], service.cache, Len(service.cache))
                => Reaches(service'.tables[n], service.cache, Len(service.cache))
  <2> DEFINE s == service
             t == service'
  <2>1. t = ServiceFinish(mid) /\ mid = Disconnect(s, names) /\ ServiceOK(s)
    BY <1>1, <1>3
  <2> HIDE DEF s, t, mid, names
  <2>2. /\ ServiceOK(t) /\ Keeps(t, s) /\ DOMAIN t.tables = DOMAIN s.tables
        /\ t.listed = {} /\ t.cache = s.cache
        /\ mid.listed = s.listed /\ DOMAIN mid.tables = DOMAIN s.tables
        /\ \A n \in DOMAIN s.tables :
             /\ mid.tables[n].connected <=> s.tables[n].connected /\ n \notin names
             /\ t.tables[n].connected <=> s.tables[n].connected /\ n \notin names
             /\ n \in names \/ Reaches(s.tables[n], s.cache, Len(s.cache))
                  => Reaches(t.tables[n], s.cache, Len(s.cache))
    BY <2>1, FinishedTables
  <2> QED BY <2>2 DEF s, t
<1> HIDE DEF mid, names
<1>5. \A v \in Writers : bundles'[v] = IF v = w THEN [k \in Key |-> <<>>] ELSE bundles[v]
  BY <1>1, <1>2, <1>3 DEF BundlesAre
<1> HIDE DEF w
\* A table that is still had is had by a writer that has not finished.
<1>6. ASSUME NEW n \in DOMAIN service.tables, Had(n, bundles), n \notin names
      PROVE  /\ Had(n, bundles')
             /\ \E v \in Writers : v # w /\ bundles[v] # [k \in Key |-> <<>>]
  <2>1. PICK v \in Writers, k \in Key : \E i \in DOMAIN bundles[v][k] : n = <<k, i - 1>>
    BY <1>6 DEF Had
  <2> PICK i \in DOMAIN bundles[v][k] : n = <<k, i - 1>>
    BY <2>1
  <2>2. bundles[v] \in [Key -> Seq(Bundles)] /\ bundles[v][k][i].table = n
    BY <1>3 DEF BundlesOK
  <2>3. v # w
    <3> SUFFICES ASSUME v = w PROVE FALSE
      OBVIOUS
    <3>1. bundles[w][k][i] \in ToSet(bundles[w][k])
      BY DEF ToSet
    <3>2. n \in names
      BY <2>2, <3>1 DEF names, TablesOf
    <3> QED BY <1>6, <3>2
  <2>4. bundles'[v] = bundles[v]
    BY <1>5, <2>3
  <2>5. bundles[v] # [j \in Key |-> <<>>]
    OBVIOUS
  <2> QED BY <2>1, <2>3, <2>4, <2>5 DEF Had
<1>7. LetGo(service', bundles')
  <2> SUFFICES ASSUME NEW n \in DOMAIN service.tables
               PROVE  \/ service'.tables[n].connected /\ Had(n, bundles')
                      \/ /\ ~service'.tables[n].connected
                         /\ Reaches(service'.tables[n], service'.cache, Len(service'.cache))
    BY <1>4 DEF LetGo
  <2>1. CASE n \in names
    BY <1>4, <2>1
  <2>2. CASE n \notin names /\ service.tables[n].connected
    <3>1. Had(n, bundles)
      BY <2>2 DEF Inv, InUse, LetGo
    <3> QED BY <1>4, <1>6, <2>2, <3>1
  <2>3. CASE n \notin names /\ ~service.tables[n].connected
    <3>1. Reaches(service.tables[n], service.cache, Len(service.cache))
      BY <2>3 DEF Inv, InUse, LetGo
    <3> QED BY <1>4, <2>3, <3>1
  <2> QED BY <2>1, <2>2, <2>3
<1>8. LetGo(service, bundles)'
  BY <1>1, <1>7, LetGoStays
<1>9. ServiceOK(service)'
  BY <1>1, <1>4, ServiceStays
<1>10. (\A v \in Writers : BundlesOK(service, v, bundles[v]))'
  <2>1. ASSUME NEW v \in Writers
        PROVE  BundlesOK(service', v, bundles'[v])
    <3>1. CASE v = w
      <4>1. bundles'[v] = [k \in Key |-> <<>>]
        BY <1>5, <3>1
      <4>2. bundles'[v] \in [Key -> Seq(Bundles)] /\ \A k \in Key : DOMAIN bundles'[v][k] = {}
        BY <4>1
      <4> QED BY <4>2 DEF BundlesOK
    <3>2. CASE v # w
      <4>1. bundles'[v] = bundles[v] /\ BundlesOK(service, v, bundles[v])
        BY <1>3, <1>5, <3>2
      <4> DEFINE t == service'
      <4>2. Keeps(t, service)
        BY <1>4
      <4> HIDE DEF t
      <4>3. BundlesOK(t, v, bundles[v])
        BY <4>1, <4>2, StillBundles
      <4> QED BY <4>1, <4>3 DEF t
    <3> QED BY <3>1, <3>2
  <2> QED BY <2>1 DEF BundlesOK
<1>11. FramesOK' /\ NewEvent' /\ WantedOK' /\ BundlesAre'
  <2>1. BundlesAre'
    BY <1>1, <1>3 DEF BundlesAre
  <2> QED BY <1>1, <1>4, <2>1 DEF Inv, FramesOK, NewEvent, WantedOK
<1>12. \A v \in 1 .. finished' : bundles'[v] = [k \in Key |-> <<>>]
  <2> SUFFICES ASSUME NEW v \in 1 .. finished', v # w
               PROVE  bundles'[v] = [k \in Key |-> <<>>]
    BY <1>2, <1>5
  <2>1. v \in 1 .. finished /\ v \in Writers /\ finished # 0
    BY <1>1, <1>2 DEF w, Writers
  <2>2. bundles[v] = [k \in Key |-> <<>>]
    BY <2>1 DEF Inv
  <2> QED BY <1>5, <2>1, <2>2
<1>13. Inv'
  BY <1>1, <1>2, <1>8, <1>9, <1>10, <1>11, <1>12 DEF Inv
<1>14. ASSUME ClosedInv, NumWriters <= 2
       PROVE  ClosedInv'
  <2> SUFFICES ASSUME ~open', NEW n \in DOMAIN service.tables
               PROVE  ~service'.tables[n].connected
    BY <1>4 DEF ClosedInv
  <2>1. CASE ~open
    BY <1>4, <1>14, <2>1 DEF ClosedInv
  <2>2. CASE open /\ finished = 0
    <3>1. n \in mid.listed /\ Closes(mid)
      BY <1>1, <1>4, <2>2 DEF Inv, InUse
    <3>2. ~mid.tables[n].connected
      BY <3>1 DEF Closes, Connected
    <3> QED BY <1>4, <3>2
  <2>3. CASE finished # 0
    <3> SUFFICES ASSUME service'.tables[n].connected PROVE FALSE
      OBVIOUS
    <3>1. service.tables[n].connected /\ n \notin names
      BY <1>4
    <3>2. Had(n, bundles)
      BY <2>3, <3>1 DEF Inv, LetGo
    <3>3. PICK v \in Writers : v # w /\ bundles[v] # [k \in Key |-> <<>>]
      BY <1>6, <3>1, <3>2
    <3>4. finished = 1 /\ w = 2 /\ v = 1
      BY <1>1, <1>2, <1>14, <2>3, <3>3 DEF w, Writers
    <3>5. v \in 1 .. finished
      BY <3>4
    <3> QED BY <2>3, <3>3, <3>5 DEF Inv
  <2> QED BY <2>1, <2>2, <2>3
<1> QED BY <1>13, <1>14

-----------------------------------------------------------------------------
(* Theorems                                                                *)

\* The inductive invariant: tables are about a number of the first events that
\* were seen, every writer's tables are the service's, and what was let go of
\* is about all events.
THEOREM TablesInvariant ==
  OwnEvents /\ SameTables => (Spec => []Inv)
<1> SUFFICES ASSUME OwnEvents, SameTables PROVE Spec => []Inv
  OBVIOUS
<1>1. Init => Inv
  BY InitInv
<1>2. Inv /\ [Next]_vars => Inv'
  BY NewFrameStep, ConvertStep, DropStep, FinishStep, StutterStep DEF Next
<1> QED BY <1>1, <1>2, PTL DEF Spec

\* Rows about the first events are a prefix of the events.
LEMMA FollowsOK ==
  ASSUME NEW cache, CacheOK(cache), NEW S, NEW rows \in Seq(S), NEW p \in 0 .. Len(cache),
         Len(rows) = p, \A i \in 1 .. p : rows[i].event = cache[i], open \/ p = Len(cache)
  PROVE  Follows(rows, cache)
<1> DEFINE events == Events(rows)
<1>1. Len(cache) \in Nat /\ p \in Nat /\ p <= Len(cache) /\ DOMAIN rows = 1 .. p
      /\ cache \in Seq(Nat) /\ \A i \in 1 .. Len(cache) : cache[i] \in Nat
  BY DEF CacheOK
<1>2. events = [i \in 1 .. p |-> cache[i]]
  BY <1>1 DEF Events
<1>3. events \in [1 .. p -> Nat]
  BY <1>1, <1>2
<1>4. events \in Seq(Nat) /\ Len(events) = p /\ DOMAIN events = 1 .. p
  BY <1>1, <1>3, FunctionSeq
<1>5. \A i \in 1 .. p : events[i] = cache[i]
  BY <1>2
<1> HIDE DEF events
<1>6. CASE ~open
  <2>1. p = Len(cache)
    BY <1>6
  <2>2. cache \in [1 .. p -> Nat] /\ \A i \in 1 .. p : events[i] = cache[i]
    BY <1>1, <1>5, <2>1
  <2>3. events \in [1 .. p -> Nat]
    BY <1>3 DEF events
  <2>4. events = cache
    BY <2>2, <2>3
  <2> QED BY <1>6, <2>4 DEF Follows, events
<1>7. CASE open
  <2>1. SubSeq(events, 1, p) = SubSeq(cache, 1, p)
    <3>1. /\ SubSeq(events, 1, p) = [i \in 1 .. p |-> events[i]]
          /\ SubSeq(cache, 1, p) = [i \in 1 .. p |-> cache[i]]
      BY <1>1, <1>4
    <3> QED BY <1>5, <3>1
  <2>2. IsPrefix(events, cache)
    BY <1>1, <1>4, <2>1 DEF IsPrefix
  <2> QED BY <1>7, <2>2 DEF Follows, events
<1> QED BY <1>6, <1>7

LEMMA InvAligned ==
  ASSUME Inv, open \/ ClosedInv
  PROVE  Aligned
<1> SUFFICES ASSUME NEW n \in Made, NEW t, t = service.tables[n]
             PROVE  /\ DoPadding(t) => Follows(t.rows, service.cache)
                    /\ UseIndex(t) => Follows(t.index, service.cache)
  BY DEF Aligned
<1> DEFINE cache == service.cache
<1>1. CacheOK(cache) /\ TableOK(t, cache)
  BY DEF Inv, ServiceOK, Made
<1>2. PICK p \in 0 .. Len(cache) : Reaches(t, cache, p) /\ (open \/ p = Len(cache))
  <2>1. CASE open
    BY <1>1, <2>1 DEF TableOK
  <2>2. CASE ~open
    <3>1. ~t.connected /\ finished # 0
      BY <2>2 DEF Inv, ClosedInv, Made
    <3>2. Reaches(t, cache, Len(cache))
      BY <3>1 DEF Inv, LetGo, Made
    <3>3. Len(cache) \in 0 .. Len(cache)
      BY <1>1 DEF CacheOK
    <3> QED BY <3>2, <3>3
  <2> QED BY <2>1, <2>2
<1>3. t.rows \in Seq(Rows) /\ t.index \in Seq(IndexRows)
  BY <1>1 DEF TableOK, Tables
<1>4. ASSUME DoPadding(t)
      PROVE  Follows(t.rows, cache)
  <2>1. Len(t.rows) = p /\ \A i \in 1 .. p : t.rows[i].event = cache[i]
    BY <1>2, <1>4 DEF Reaches
  <2> HIDE DEF cache
  <2> QED BY <1>1, <1>2, <1>3, <2>1, FollowsOK
<1>5. ASSUME UseIndex(t)
      PROVE  Follows(t.index, cache)
  <2>1. Len(t.index) = p /\ \A i \in 1 .. p : t.index[i].event = cache[i]
    BY <1>2, <1>5 DEF Reaches
  <2> HIDE DEF cache
  <2> QED BY <1>1, <1>2, <1>3, <2>1, FollowsOK
<1> QED BY <1>4, <1>5

LEMMA InvIndex ==
  ASSUME Inv
  PROVE  IndexPointsToRows
<1> SUFFICES ASSUME NEW n \in Made, NEW t, t = service.tables[n], NEW entry \in ToSet(t.index)
             PROVE  {i \in DOMAIN t.rows : t.rows[i].exists /\ t.rows[i].event = entry.event}
                      = IF entry.exists THEN entry.start + 1 .. entry.stop ELSE {}
  BY DEF IndexPointsToRows
<1> DEFINE cache == service.cache
<1>1. CacheOK(cache) /\ TableOK(t, cache)
  BY DEF Inv, ServiceOK, Made
<1>2. PICK p \in 0 .. Len(cache) : Reaches(t, cache, p)
  BY <1>1 DEF TableOK
<1>3. t.rows \in Seq(Rows) /\ t.index \in Seq(IndexRows)
  BY <1>1 DEF TableOK, Tables
<1>4. PICK i \in DOMAIN t.index : entry = t.index[i]
  BY DEF ToSet
<1>5. UseIndex(t) /\ i \in 1 .. p
  <2>1. UseIndex(t)
    BY <1>2, <1>4 DEF Reaches
  <2> QED BY <1>2, <1>3, <1>4, <2>1 DEF Reaches
<1>6. entry \in IndexRows /\ PointsTo(entry, t.rows)
  BY <1>2, <1>3, <1>4, <1>5 DEF Reaches
<1>7. entry.start \in Nat /\ entry.stop \in Nat /\ entry.exists \in BOOLEAN
  BY <1>6 DEF IndexRows
<1>8. DOMAIN t.rows = 1 .. Len(t.rows) /\ Len(t.rows) \in Nat
  BY <1>3
<1>9. ASSUME NEW j
      PROVE  j \in DOMAIN t.rows /\ t.rows[j].exists /\ t.rows[j].event = entry.event
               <=> entry.exists /\ j \in entry.start + 1 .. entry.stop
  <2>1. CASE j \in DOMAIN t.rows
    BY <1>6, <1>7, <1>8, <2>1 DEF PointsTo
  <2>2. CASE j \notin DOMAIN t.rows
    <3>1. j \notin entry.start + 1 .. entry.stop
      BY <1>6, <1>7, <1>8, <2>2 DEF PointsTo
    <3> QED BY <2>2, <3>1
  <2> QED BY <2>1, <2>2
<1> QED BY <1>9

LEMMA ClosedStep ==
  ASSUME OwnEvents, SameTables, NumWriters <= 2
  PROVE  Inv /\ ClosedInv /\ [Next]_vars => (Inv /\ ClosedInv)'
<1> SUFFICES ASSUME Inv, ClosedInv, [Next]_vars PROVE (Inv /\ ClosedInv)'
  OBVIOUS
<1>1. CASE NewFrame
  BY <1>1, NewFrameStep DEF ClosedInv, NewFrame
<1>2. CASE Convert
  <2>1. Inv' /\ finished = 0 /\ open' = open /\ open
    BY <1>2, ConvertStep DEF Inv, Convert
  <2> QED BY <2>1 DEF ClosedInv
<1>3. CASE Drop
  BY <1>3, DropStep DEF ClosedInv, Drop
<1>4. CASE Finish
  BY <1>4, FinishStep
<1>5. CASE UNCHANGED vars
  BY <1>5, StutterStep DEF ClosedInv, vars
<1> QED BY <1>1, <1>2, <1>3, <1>4, <1>5 DEF Next

\* I3Table.cxx:66, "only pad the data table itself if this is a non-ragged
\* dataset or if the table type is aligned by construction": whatever came
\* late or was missing, row n of a padded table and of an index is about the
\* nth event; and a closed file has rows about all events in each of them.
THEOREM TablesAligned ==
  OwnEvents /\ SameTables /\ NumWriters <= 2 => (Spec => []Aligned)
<1> SUFFICES ASSUME OwnEvents, SameTables, NumWriters <= 2 PROVE Spec => []Aligned
  OBVIOUS
<1>1. Init => Inv /\ ClosedInv
  BY InitInv
<1>2. Inv /\ ClosedInv /\ [Next]_vars => (Inv /\ ClosedInv)'
  BY ClosedStep
<1>3. Inv /\ ClosedInv => Aligned
  BY InvAligned
<1> QED BY <1>1, <1>2, <1>3, PTL DEF Spec

\* The same for any number of writers, as long as the file is open.
THEOREM OpenTablesAligned ==
  OwnEvents /\ SameTables => (Spec => [](open => Aligned))
<1> SUFFICES ASSUME OwnEvents, SameTables PROVE Spec => [](open => Aligned)
  OBVIOUS
<1>1. Spec => []Inv
  BY TablesInvariant
<1>2. Inv => (open => Aligned)
  BY InvAligned
<1> QED BY <1>1, <1>2, PTL

\* I3Table.cxx:110-118: the rows an index entry names are the rows of its
\* event, all of them and no other, for any number of writers.
THEOREM IndexRight ==
  OwnEvents /\ SameTables => (Spec => []IndexPointsToRows)
<1> SUFFICES ASSUME OwnEvents, SameTables PROVE Spec => []IndexPointsToRows
  OBVIOUS
<1>1. Spec => []Inv
  BY TablesInvariant
<1>2. Inv => IndexPointsToRows
  BY InvIndex
<1> QED BY <1>1, <1>2, PTL

-----------------------------------------------------------------------------
(* The end.                                                                *)

ClosedAtEnd == finished = NumWriters => ~open

LetGoAtEnd == finished = NumWriters => \A n \in Made : ~service.tables[n].connected

LEMMA LastFinish ==
  ASSUME Inv, Finish, finished' = NumWriters
  PROVE  ~open'
<1> DEFINE w == finished + 1
           names == TablesOf(w)
           mid == Disconnect(service, names)
<1>1. finished' = w /\ w = NumWriters /\ open' = (open /\ ~Closes(mid))
  BY DEF Finish
<1>2. /\ mid.listed = service.listed /\ DOMAIN mid.tables = DOMAIN service.tables
      /\ \A n \in DOMAIN service.tables :
           mid.tables[n].connected <=> service.tables[n].connected /\ n \notin names
  BY FinishedTables DEF Inv
<1> HIDE DEF mid, names
<1>3. CASE finished # 0
  <2>1. mid.listed = {}
    BY <1>2, <1>3 DEF Inv, LetGo
  <2> QED BY <1>1, <2>1 DEF Closes, Connected
<1>4. CASE finished = 0
  <2>1. NumWriters = 1 /\ Writers = {1}
    BY <1>1, <1>4 DEF Writers
  <2>2. ASSUME NEW n \in mid.listed
        PROVE  ~mid.tables[n].connected
    <3>1. n \in DOMAIN service.tables /\ Had(n, bundles)
      BY <1>2, <1>4 DEF Inv, InUse
    <3>2. PICK k \in Key : \E i \in DOMAIN bundles[1][k] : n = <<k, i - 1>>
      BY <2>1, <3>1 DEF Had
    <3> PICK i \in DOMAIN bundles[1][k] : n = <<k, i - 1>>
      BY <3>2
    <3>3. bundles[1][k][i].table = n /\ bundles[1][k][i] \in ToSet(bundles[1][k])
      BY <2>1 DEF Inv, BundlesOK, ToSet
    <3>4. n \in names
      BY <1>4, <3>3 DEF names, TablesOf
    <3> QED BY <1>2, <3>1, <3>4
  <2> QED BY <1>1, <2>2 DEF Closes, Connected
<1> QED BY <1>3, <1>4

LEMMA EndStep ==
  ASSUME Inv, ClosedAtEnd, [Next]_vars
  PROVE  ClosedAtEnd'
<1>1. CASE NewFrame
  BY <1>1 DEF ClosedAtEnd, NewFrame
<1>2. CASE Convert
  BY <1>2 DEF ClosedAtEnd, Convert
<1>3. CASE Drop
  BY <1>3 DEF ClosedAtEnd, Drop
<1>4. CASE Finish
  BY <1>4, LastFinish DEF ClosedAtEnd
<1>5. CASE UNCHANGED vars
  BY <1>5 DEF ClosedAtEnd, vars
<1> QED BY <1>1, <1>2, <1>3, <1>4, <1>5 DEF Next

\* Nobody has a table whose writer has finished.
LEMMA NoneLeft ==
  ASSUME Inv, finished = NumWriters, NEW n \in Made
  PROVE  ~service.tables[n].connected
<1>1. NumWriters \in Nat /\ NumWriters # 0
  BY WriterAssumption
<1>2. \A w \in Writers : bundles[w] = [k \in Key |-> <<>>]
  BY <1>1 DEF Inv, Writers
<1>3. ~Had(n, bundles)
  BY <1>2 DEF Had
<1> QED BY <1>1, <1>3 DEF Inv, LetGo, Made

\* I3TableService.cxx:211-214 and 218-224, where a table that is "still
\* connected" is an error: once every writer has finished, however many there
\* are, the file is closed and no table is left connected.
THEOREM FileClosedAtEnd ==
  OwnEvents /\ SameTables => (Spec => [](ClosedAtEnd /\ LetGoAtEnd))
<1> SUFFICES ASSUME OwnEvents, SameTables PROVE Spec => [](ClosedAtEnd /\ LetGoAtEnd)
  OBVIOUS
<1>1. Spec => []Inv
  BY TablesInvariant
<1>2. Init => ClosedAtEnd
  BY WriterAssumption DEF Init, ClosedAtEnd
<1>3. Inv /\ ClosedAtEnd /\ [Next]_vars => ClosedAtEnd'
  BY EndStep
<1>4. Inv => LetGoAtEnd
  BY NoneLeft DEF LetGoAtEnd
<1> QED BY <1>1, <1>2, <1>3, <1>4, PTL DEF Spec
=============================================================================
