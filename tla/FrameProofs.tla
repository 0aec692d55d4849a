------------------------------ MODULE FrameProofs ------------------------------
(***************************************************************************)
(* For any frames, keys, objects and number of values: a frame is a map of *)
(* its own, whatever is shared, read late or dropped underneath, and what  *)
(* a serialization that throws may spoil is its object and no other.       *)
(***************************************************************************)
EXTENDS Frame, TLAPS

\* The strengthening of BlobsAgree: values that nothing refers to any more
\* agree with themselves, too, so that a step need not say which are used.
AllAgree == \A v \in Values : Agrees(value[v])
Inv == TypeOK /\ AllAgree

ValueSet == [ptr : Readable, buf : Bytes \cup {None}, stream : Streams]

-----------------------------------------------------------------------------
\* What the actions are built from.

\* A null pointer can be read, and is no object; a piece is no object either.
LEMMA NullReadable ==
  /\ Null \in Readable /\ Null \in Things /\ Null \in Bytes /\ Null # Piece
  /\ None \notin Bytes /\ Piece \notin Things
  /\ Fragile \subseteq Readable /\ Null \notin Fragile
BY FrameAssumption DEF Readable, Things, Bytes

Torn(o, s) == Map!Spoiled(Map!Item(o, s))

\* What the operations on items make of the two kinds there are.
LEMMA Kinds ==
  ASSUME NEW o, NEW s
  PROVE  /\ Torn(o, s) = [object |-> o, stream |-> s, spoiled |-> TRUE]
         /\ Map!Mended(Torn(o, s)) = Map!Item(o, s) /\ Map!Mended(Map!Item(o, s)) = Map!Item(o, s)
         /\ Map!Lost(Torn(o, s)) = Map!Item(Piece, s)
         /\ Map!Written(Torn(o, s)) = Piece /\ Map!Written(Map!Item(o, s)) = o
         /\ Torn(o, s).object = o /\ Map!Item(o, s).object = o
<1> USE DEF Torn, Map!Spoiled, Map!Item
<1>1. Torn(o, s) = [object |-> o, stream |-> s, spoiled |-> TRUE]
  OBVIOUS
<1>2. Map!Mended(Torn(o, s)) = Map!Item(o, s)
  BY DEF Map!Mended
<1>3. Map!Mended(Map!Item(o, s)) = Map!Item(o, s)
  BY DEF Map!Mended
<1>4. Map!Lost(Torn(o, s)) = Map!Item(Piece, s)
  BY DEF Map!Lost
<1>5. Map!Written(Torn(o, s)) = Piece /\ Map!Written(Map!Item(o, s)) = o
  BY DEF Map!Written
<1>6. Torn(o, s).object = o /\ Map!Item(o, s).object = o
  OBVIOUS
<1> QED BY <1>1, <1>2, <1>3, <1>4, <1>5, <1>6

\* What a value stands for, with its mark as a truth value.
LEMMA Marks ==
  ASSUME NEW val
  PROVE  /\ val.ptr # Null /\ val.buf = Piece => Holds(val) = Torn(val.ptr, val.stream)
         /\ val.ptr # Null /\ val.buf # Piece => Holds(val) = Map!Item(val.ptr, val.stream)
         /\ val.ptr = Null /\ val.buf = None => Holds(val) = Map!Item(Null, val.stream)
         /\ val.ptr = Null /\ val.buf # None => Holds(val) = Map!Item(val.buf, val.stream)
<1>1. CASE val.ptr # Null /\ val.buf = Piece
  <2>1. (val.ptr # Null /\ val.buf = Piece) = TRUE
    BY <1>1
  <2>2. Holds(val) = [object |-> val.ptr, stream |-> val.stream, spoiled |-> TRUE]
    BY <1>1, <2>1, Zenon DEF Holds
  <2> QED BY <1>1, <2>2, Kinds
<1>2. CASE ~(val.ptr # Null /\ val.buf = Piece)
  <2>1. (val.ptr # Null /\ val.buf = Piece) = FALSE
    BY <1>2
  <2>2. Holds(val) = Map!Item(IF val.ptr = Null /\ val.buf # None THEN val.buf ELSE val.ptr,
                              val.stream)
    BY <2>1, Zenon DEF Holds, Map!Item
  <2> QED BY <1>2, <2>2
<1> QED BY <1>1, <1>2

\* What a value stands for is an item of the map.
LEMMA HoldsOK ==
  ASSUME NEW val \in ValueSet
  PROVE  Holds(val) \in Map!Items /\ Holds(val) # None
<1>1. /\ val.ptr \in Bytes /\ val.stream \in Streams
      /\ val.buf # None => val.buf \in Bytes
  BY DEF ValueSet, Readable, Bytes
<1>2. Holds(val) \in [object : Bytes, stream : Streams, spoiled : BOOLEAN]
  BY <1>1 DEF Holds
<1> QED BY <1>2, FrameAssumption
        DEF Map!Items, Map!Bytes, Map!Things, Bytes, Things

\* get_impl leaves a value that agrees with itself; it stands for the same, or
\* is rid of a piece.
LEMMA GetImplOK ==
  ASSUME NEW val \in ValueSet, Agrees(val), NEW drop \in BOOLEAN
  PROVE  /\ GetImpl(val, drop).value \in ValueSet
         /\ Agrees(GetImpl(val, drop).value)
         /\ Holds(GetImpl(val, drop).value) \in {Holds(val), Map!Mended(Holds(val))}
         /\ GetImpl(val, drop).result = Map!Read(Holds(val))
<1> USE NullReadable, FrameAssumption DEF ValueSet, Agrees, Blobless, Map!Read
<1>1. CASE val.ptr # Null
  <2>1. val.ptr \notin Unreadable /\ val.ptr # Piece
    BY DEF Readable
  <2>2. GetImpl(val, drop) = [result |-> val.ptr, value |-> Blobless(val, drop)]
    BY <1>1 DEF GetImpl
  <2>3. GetImpl(val, drop).result = Map!Read(Holds(val))
    BY <1>1, <2>1, <2>2, Marks, Kinds
  <2>4. CASE drop
    <3>1. GetImpl(val, drop).value = [ptr |-> val.ptr, buf |-> None, stream |-> val.stream]
      BY <2>2, <2>4
    <3>2. Holds(GetImpl(val, drop).value)
            = Map!Item(val.ptr, val.stream)
      BY <1>1, <3>1, Marks, Kinds
    <3>3. Map!Mended(Holds(val)) = Map!Item(val.ptr, val.stream)
      BY <1>1, Marks, Kinds
    <3> QED BY <2>3, <3>1, <3>2, <3>3
  <2>5. CASE ~drop
    BY <2>2, <2>3, <2>5
  <2> QED BY <2>4, <2>5
<1>2. CASE val.ptr = Null /\ val.buf \in Unreadable \cup {None, Piece}
  <2>1. GetImpl(val, drop) = [result |-> Null, value |-> val]
    BY <1>2 DEF GetImpl
  <2>2. Null \notin Unreadable
    BY DEF Readable
  <2> QED BY <1>2, <2>1, <2>2, Marks, Kinds
<1>3. CASE val.ptr = Null /\ val.buf \notin Unreadable \cup {None, Piece}
  <2>1. GetImpl(val, drop) =
          [result |-> val.buf, value |-> Blobless([val EXCEPT !.ptr = val.buf], drop)]
    BY <1>3 DEF GetImpl
  <2>2. val.buf \in Readable /\ val.buf # None /\ val.buf # Piece /\ val.buf \notin Unreadable
    BY <1>3 DEF Readable, Bytes
  <2>3. [val EXCEPT !.ptr = val.buf] = [ptr |-> val.buf, buf |-> val.buf, stream |-> val.stream]
    OBVIOUS
  <2>4. Holds(val) = Map!Item(val.buf, val.stream)
    BY <1>3, <2>2, Marks, Kinds
  <2>5. GetImpl(val, drop).result = Map!Read(Holds(val))
    BY <2>1, <2>2, <2>4, Kinds
  <2>6. ASSUME NEW b \in {val.buf, None}
        PROVE  Holds([ptr |-> val.buf, buf |-> b, stream |-> val.stream]) = Holds(val)
    BY <2>2, <2>4, Marks, Kinds
  <2>7. CASE drop
    <3>0. Blobless([val EXCEPT !.ptr = val.buf], drop)
            = [ptr |-> val.buf, buf |-> None, stream |-> val.stream]
      BY <2>3, <2>7
    <3>1. GetImpl(val, drop).value = [ptr |-> val.buf, buf |-> None, stream |-> val.stream]
      BY <2>1, <3>0
    <3>2. Holds(GetImpl(val, drop).value) = Holds(val)
      BY <2>6, <3>1
    <3> QED BY <2>2, <2>5, <3>1, <3>2
  <2>8. CASE ~drop
    <3>1. GetImpl(val, drop).value = [ptr |-> val.buf, buf |-> val.buf, stream |-> val.stream]
      BY <2>1, <2>3, <2>8
    <3> QED BY <2>2, <2>5, <2>6, <3>1
  <2> QED BY <2>7, <2>8
<1> QED BY <1>1, <1>2, <1>3

\* Writing the bytes of a value likewise, and dropping its object loses it only
\* if it is spoiled.
LEMMA WrittenOK ==
  ASSUME NEW val \in ValueSet, Agrees(val), NEW drop \in BOOLEAN
  PROVE  /\ Written(val) \in ValueSet /\ Agrees(Written(val))
         /\ Holds(Written(val)) = Holds(val)
         /\ Written(val).buf = Map!Written(Holds(val))
         /\ CreateBlob(val, drop) \in ValueSet /\ Agrees(CreateBlob(val, drop))
         /\ Holds(CreateBlob(val, drop)) \in {Holds(val), Map!Lost(Holds(val))}
<1> USE NullReadable, FrameAssumption DEF ValueSet, Agrees
<1>1. /\ Written(val) \in ValueSet /\ Agrees(Written(val))
      /\ Holds(Written(val)) = Holds(val)
      /\ Written(val).buf # None
      /\ Written(val).ptr = val.ptr /\ Written(val).stream = val.stream
  BY Marks, Kinds DEF Written, Readable, Bytes, Things
<1>2. Written(val).buf = Map!Written(Holds(val))
  BY Marks, Kinds DEF Written, Readable, Bytes, Things
<1>3. CASE drop
  <2>1. CreateBlob(val, drop) = [ptr |-> Null, buf |-> Written(val).buf, stream |-> val.stream]
    BY <1>1, <1>3 DEF CreateBlob
  <2>2. Holds(CreateBlob(val, drop))
          = Map!Item(Written(val).buf, val.stream)
    BY <1>1, <2>1, Marks, Kinds
  <2>3. CASE val.ptr # Null /\ val.buf = Piece
    <3>1. Written(val).buf = Piece
      BY <2>3 DEF Written
    <3>2. Map!Lost(Holds(val)) = Map!Item(Piece, val.stream)
      BY <2>3, Marks, Kinds
    <3> QED BY <1>1, <1>2, <2>1, <2>2, <3>1, <3>2
  <2>4. CASE ~(val.ptr # Null /\ val.buf = Piece)
    <3>1. Holds(val) = Map!Item(Written(val).buf, val.stream)
      BY <2>4, Marks, Kinds DEF Written
    <3> QED BY <1>1, <1>2, <2>1, <2>2, <3>1
  <2> QED BY <2>3, <2>4
<1>4. CASE ~drop
  BY <1>1, <1>2, <1>4 DEF CreateBlob
<1> QED BY <1>3, <1>4

\* A serialization that throws spoils its object at most.
LEMMA BrokenOK ==
  ASSUME NEW val \in ValueSet, val.ptr \in Fragile, val.buf = None, NEW left \in {None, Piece}
  PROVE  LET broken == [val EXCEPT !.buf = left]
         IN  /\ broken \in ValueSet /\ Agrees(broken)
             /\ Holds(broken) \in {Holds(val), Map!Spoiled(Holds(val))}
             /\ Holds(val).object = val.ptr
<1> DEFINE broken == [val EXCEPT !.buf = left]
<1> USE NullReadable, FrameAssumption DEF ValueSet, Agrees
<1>1. broken = [ptr |-> val.ptr, buf |-> left, stream |-> val.stream]
  OBVIOUS
<1>2. broken \in ValueSet /\ Agrees(broken)
  BY <1>1 DEF Bytes
<1>3. Holds(val) = Map!Item(val.ptr, val.stream)
  BY Marks, Kinds
<1>4. CASE left = Piece
  <2>1. Holds(broken) = Torn(val.ptr, val.stream)
    BY <1>1, <1>4, Marks, Kinds
  <2> QED BY <1>2, <1>3, <2>1, Kinds DEF Torn
<1>5. CASE left = None
  <2>1. Holds(broken) = Holds(val)
    BY <1>1, <1>3, <1>5, Marks, Kinds
  <2> QED BY <1>2, <1>3, <2>1, Kinds
<1> QED BY <1>4, <1>5

-----------------------------------------------------------------------------
\* Each action keeps the invariant.

LEMMA BecomesInv ==
  ASSUME Inv, NEW f \in Frames, NEW slots \in [Keys -> Values \cup {None}], Becomes(f, slots)
  PROVE  Inv'
BY DEF Inv, TypeOK, AllAgree, Becomes

LEMMA NewValueInv ==
  ASSUME Inv, NEW f \in Frames, NEW k \in Keys, NEW val \in ValueSet, Agrees(val),
         NewValue(f, k, val)
  PROVE  Inv'
<1>1. PICK v \in Values \ Used :
        /\ value' = [value EXCEPT ![v] = val]
        /\ map' = [map EXCEPT ![f] = [map[f] EXCEPT ![k] = v]]
  BY DEF NewValue
<1>2. stop' = stop /\ dropBlobs' = dropBlobs
  BY DEF NewValue
<1>3. value' \in [Values -> ValueSet]
  BY <1>1 DEF Inv, TypeOK, ValueSet
<1>4. map' \in [Frames -> [Keys -> Values \cup {None}]]
  BY <1>1 DEF Inv, TypeOK
<1>5. AllAgree'
  BY <1>1 DEF Inv, TypeOK, AllAgree, Agrees
<1> QED BY <1>2, <1>3, <1>4, <1>5 DEF Inv, TypeOK, ValueSet

\* A change in place, if what it makes of a value is right.
LEMMA InPlaceInv ==
  ASSUME Inv, NEW values \in SUBSET Values, NEW new \in [values -> ValueSet],
         \A v \in values : Agrees(new[v]),
         value' = [v \in Values |-> IF v \in values THEN new[v] ELSE value[v]],
         UNCHANGED <<map, stop, dropBlobs>>
  PROVE  Inv'
<1>1. value' \in [Values -> ValueSet]
  BY DEF Inv, TypeOK, ValueSet
<1>2. AllAgree'
  BY DEF Inv, AllAgree, Agrees
<1> QED BY <1>1, <1>2 DEF Inv, TypeOK, ValueSet

\* In the invariant, what a key refers to is a value that agrees with itself.
LEMMA AtOK ==
  ASSUME Inv, NEW f \in Frames, NEW k \in Keys, map[f][k] # None
  PROVE  map[f][k] \in Values /\ At(f, k) \in ValueSet /\ Agrees(At(f, k))
<1>1. map[f][k] \in Values
  BY DEF Inv, TypeOK
<1> QED BY <1>1 DEF Inv, TypeOK, At, ValueSet, AllAgree, Agrees

LEMMA LoadInv ==
  ASSUME Inv, NEW f \in Frames, NEW s \in Streams, NEW keys \in SUBSET Keys,
         NEW objects \in [keys -> Bytes], Load(f, s, keys, objects)
  PROVE  Inv'
<1>2. PICK new \in [keys -> Values \ Used] :
        /\ map' = [map EXCEPT ![f] =
             [k \in Keys |-> IF k \in keys THEN new[k] ELSE map[f][k]]]
        /\ value' = [v \in Values |->
             IF \E k \in keys : new[k] = v
               THEN LET k == CHOOSE k \in keys : new[k] = v
                    IN  [ptr |-> Null, buf |-> objects[k], stream |-> s]
               ELSE value[v]]
  BY DEF Load
<1>3. stop' = [stop EXCEPT ![f] = s] /\ dropBlobs' = dropBlobs
  BY DEF Load
<1>4. ASSUME NEW v \in Values
      PROVE  value'[v] \in ValueSet /\ Agrees(value'[v])
  <2>1. CASE \E k \in keys : new[k] = v
    <3>1. PICK k \in keys : value'[v] = [ptr |-> Null, buf |-> objects[k], stream |-> s]
      BY <1>2, <2>1
    <3> QED BY <3>1, NullReadable DEF ValueSet, Agrees
  <2>2. CASE ~(\E k \in keys : new[k] = v)
    <3>1. value'[v] = value[v]
      BY <1>2, <2>2
    <3> QED BY <3>1 DEF Inv, TypeOK, AllAgree, ValueSet, Agrees
  <2> QED BY <2>1, <2>2
<1>5. value' \in [Values -> ValueSet]
  <2>1. value' = [v \in Values |-> value'[v]]
    BY <1>2
  <2> QED BY <1>4, <2>1
<1>6. map' \in [Frames -> [Keys -> Values \cup {None}]]
  BY <1>2 DEF Inv, TypeOK
<1> QED BY <1>3, <1>4, <1>5, <1>6 DEF Inv, TypeOK, AllAgree, ValueSet, Agrees

\* The actions that only change which frame refers to what.
LEMMA WithoutInv ==
  ASSUME Inv, NEW f \in Frames, NEW keys, Without(f, keys)
  PROVE  Inv'
<1>1. [k \in Keys |-> IF k \in keys THEN None ELSE map[f][k]] \in [Keys -> Values \cup {None}]
  BY DEF Inv, TypeOK
<1> QED BY <1>1, BecomesInv DEF Without

LEMMA SlotsInv ==
  ASSUME Inv, NEW f \in Frames, NEW g \in Frames, NEW k \in Keys, NEW l \in Keys,
         Rename(f, k, l) \/ Take(f, g, k, l)
  PROVE  Inv'
<1> USE DEF Inv, TypeOK
<1>1. /\ [map[f] EXCEPT ![l] = map[f][k], ![k] = None] \in [Keys -> Values \cup {None}]
      /\ [map[f] EXCEPT ![l] = map[g][k]] \in [Keys -> Values \cup {None}]
  OBVIOUS
<1>2. CASE Rename(f, k, l)
  BY <1>1, <1>2, BecomesInv DEF Rename
<1>3. CASE Take(f, g, k, l)
  BY <1>1, <1>3, BecomesInv DEF Take
<1> QED BY <1>2, <1>3

LEMMA MergeInv ==
  ASSUME Inv, NEW f \in Frames, NEW g \in Frames, Merge(f, g)
  PROVE  Inv'
BY BecomesInv DEF Merge, Inv, TypeOK

\* The actions that make a value.
LEMMA FreshInv ==
  ASSUME Inv, NEW f \in Frames, NEW k \in Keys, NEW o \in Readable, NEW s \in Streams,
         Put(f, k, o, s) \/ Replace(f, k, o) \/ ChangeStream(f, k, s)
  PROVE  Inv'
<1>1. stop[f] \in Streams
  BY DEF Inv, TypeOK
<1>2. ASSUME NEW t \in Streams
      PROVE  Fresh(o, t) \in ValueSet /\ Agrees(Fresh(o, t))
  BY DEF Fresh, ValueSet, Agrees
<1>3. CASE Put(f, k, o, s)
  BY <1>2, <1>3, NewValueInv DEF Put
<1>4. CASE Replace(f, k, o)
  BY <1>1, <1>2, <1>4, NewValueInv DEF Replace
<1>5. CASE ChangeStream(f, k, s)
  <2>1. [At(f, k) EXCEPT !.stream = s] \in ValueSet /\ Agrees([At(f, k) EXCEPT !.stream = s])
    BY <1>5, AtOK DEF ChangeStream, ValueSet, Agrees
  <2> QED BY <1>5, <2>1, NewValueInv DEF ChangeStream
<1> QED BY <1>3, <1>4, <1>5

\* The actions that read and write bytes.
LEMMA ValuesOK ==
  ASSUME Inv
  PROVE  /\ \A v \in Values : value[v] \in ValueSet /\ Agrees(value[v])
         /\ \A f \in Frames : dropBlobs[f] \in BOOLEAN /\ stop[f] \in Streams
BY DEF Inv, TypeOK, AllAgree, ValueSet, Agrees

\* What the native keys refer to are values.
LEMMA NativeValues ==
  ASSUME Inv, NEW f \in Frames, NEW keys \in SUBSET Native(f, stop[f])
  PROVE  keys \in SUBSET Keys /\ Referred(f, keys) \in SUBSET Values
BY AtOK DEF Native, Referred

\* The keys create_blobs and create_blob write the bytes of.
LEMMA BlobKeys ==
  ASSUME Inv, NEW f \in Frames, NEW drop \in BOOLEAN,
         \/ \E keys \in SUBSET Keys : CreateBlobs(f, drop, keys)
         \/ \E k \in Keys : CreateBlobAt(f, drop, k)
  PROVE  \E keys \in SUBSET Keys : /\ CreateBlobsOf(f, drop, keys)
                                   /\ Referred(f, keys) \in SUBSET Values
<1>1. ASSUME NEW keys \in SUBSET Keys, CreateBlobs(f, drop, keys)
      PROVE  CreateBlobsOf(f, drop, keys) /\ Referred(f, keys) \in SUBSET Values
  BY <1>1, NativeValues DEF CreateBlobs
<1>2. ASSUME NEW k \in Keys, CreateBlobAt(f, drop, k)
      PROVE  {k} \in SUBSET Keys /\ CreateBlobsOf(f, drop, {k}) /\ Referred(f, {k}) \in SUBSET Values
  BY <1>2, AtOK DEF CreateBlobAt, Referred
<1> QED BY <1>1, <1>2

\* The values create_blobs and save are through with.
LEMMA BlobsOfOK ==
  ASSUME Inv, NEW f \in Frames, NEW drop \in BOOLEAN, NEW keys \in SUBSET Keys,
         Referred(f, keys) \in SUBSET Values
  PROVE  /\ BlobsOf(f, drop, keys) \in [Referred(f, keys) -> ValueSet]
         /\ \A v \in Referred(f, keys) :
              /\ Agrees(BlobsOf(f, drop, keys)[v])
              /\ Holds(BlobsOf(f, drop, keys)[v]) \in {Holds(value[v]), Map!Lost(Holds(value[v]))}
BY ValuesOK, WrittenOK DEF BlobsOf

LEMMA SavedOfOK ==
  ASSUME Inv, NEW f \in Frames, NEW keys \in SUBSET Keys, Referred(f, keys) \in SUBSET Values
  PROVE  /\ SavedOf(f, keys) \in [Referred(f, keys) -> ValueSet]
         /\ \A v \in Referred(f, keys) :
              Agrees(SavedOf(f, keys)[v]) /\ Holds(SavedOf(f, keys)[v]) = Holds(value[v])
BY ValuesOK, WrittenOK DEF SavedOf

\* A call that broke off has changed values as it would have, and one broken.
Broken(f, k, values, done, all, new) ==
    /\ \A v \in all : Agrees(new[v])
    /\ values \subseteq all
    /\ \A v \in all : IF v = map[f][k]
         THEN Holds(new[v]) \in {Holds(value[v]), Map!Spoiled(Holds(value[v]))}
         ELSE v \in values /\ new[v] = done[v]
    /\ At(f, k).ptr \in Fragile /\ Holds(At(f, k)).object = At(f, k).ptr
    /\ InPlace(new, Failed)

LEMMA BreaksOffOK ==
  ASSUME Inv, NEW f \in Frames, NEW k \in Keys, NEW values \in SUBSET Values,
         map[f][k] \in Values,
         NEW done \in [values -> ValueSet], \A v \in values : Agrees(done[v]),
         BreaksOff(f, done, k)
  PROVE  \E all \in SUBSET Values : \E new \in [all -> ValueSet] :
           Broken(f, k, values, done, all, new)
<1>1. PICK left \in {None, Piece} :
        InPlace([v \in DOMAIN done \cup {map[f][k]} |->
                    IF v = map[f][k] THEN [value[v] EXCEPT !.buf = left] ELSE done[v]], Failed)
  BY DEF BreaksOff
<1> DEFINE all == values \cup {map[f][k]}
<1> DEFINE broken == [value[map[f][k]] EXCEPT !.buf = left]
<1> DEFINE new == [v \in all |-> IF v = map[f][k] THEN broken ELSE done[v]]
<1>2. value[map[f][k]].ptr \in Fragile /\ value[map[f][k]].buf = None
  BY DEF BreaksOff, At
<1>3. /\ broken \in ValueSet /\ Agrees(broken)
      /\ Holds(broken) \in {Holds(value[map[f][k]]), Map!Spoiled(Holds(value[map[f][k]]))}
      /\ Holds(value[map[f][k]]).object = value[map[f][k]].ptr
  BY <1>2, ValuesOK, BrokenOK
<1>4. new = [v \in DOMAIN done \cup {map[f][k]} |->
               IF v = map[f][k] THEN [value[v] EXCEPT !.buf = left] ELSE done[v]]
  OBVIOUS
<1>5. InPlace(new, Failed)
  BY <1>1, <1>4
<1> HIDE DEF broken
<1>6. new \in [all -> ValueSet] /\ \A v \in all : Agrees(new[v])
  BY <1>3
<1>7. \A v \in all : IF v = map[f][k]
         THEN Holds(new[v]) \in {Holds(value[v]), Map!Spoiled(Holds(value[v]))}
         ELSE v \in values /\ new[v] = done[v]
  BY <1>3
<1>8. all \in SUBSET Values /\ values \subseteq all
  OBVIOUS
<1> HIDE DEF new, all
<1>9. Broken(f, k, values, done, all, new)
  BY <1>2, <1>3, <1>5, <1>6, <1>7, <1>8 DEF At, Broken
<1> QED BY <1>6, <1>8, <1>9

LEMMA GetInv ==
  ASSUME Inv, NEW f \in Frames, NEW k \in Keys, Get(f, k)
  PROVE  Inv'
<1>1. CASE map[f][k] = None
  <2>1. value' = [v \in Values |-> value[v]] /\ UNCHANGED <<map, stop, dropBlobs>>
    BY <1>1 DEF Get, InPlace
  <2>2. value' = value
    BY <2>1 DEF Inv, TypeOK
  <2> QED BY <2>1, <2>2 DEF Inv, TypeOK, AllAgree
<1>2. CASE map[f][k] # None
  <2> DEFINE new == [v \in {map[f][k]} |-> GetImpl(value[v], dropBlobs[f]).value]
  <2>1. map[f][k] \in Values
    BY <1>2, AtOK
  <2>2. new \in [{map[f][k]} -> ValueSet] /\ \A v \in {map[f][k]} : Agrees(new[v])
    BY <2>1, ValuesOK, GetImplOK
  <2>3. /\ value' = [v \in Values |-> IF v \in {map[f][k]} THEN new[v] ELSE value[v]]
        /\ UNCHANGED <<map, stop, dropBlobs>>
    BY <1>2 DEF Get, InPlace
  <2> HIDE DEF new
  <2> QED BY <2>1, <2>2, <2>3, InPlaceInv
<1> QED BY <1>1, <1>2

LEMMA BreaksOffInv ==
  ASSUME Inv, NEW f \in Frames, NEW k \in Keys, NEW values \in SUBSET Values,
         map[f][k] \in Values,
         NEW done \in [values -> ValueSet], \A v \in values : Agrees(done[v]),
         BreaksOff(f, done, k)
  PROVE  Inv'
<1>1. PICK all \in SUBSET Values : \E new \in [all -> ValueSet] : Broken(f, k, values, done, all, new)
  BY BreaksOffOK
<1>2. PICK new \in [all -> ValueSet] : Broken(f, k, values, done, all, new)
  BY <1>1
<1>3. DOMAIN new = all
  OBVIOUS
<1> QED BY <1>2, <1>3, InPlaceInv DEF InPlace, Broken

LEMMA CreateBlobsInv ==
  ASSUME Inv, NEW f \in Frames, NEW drop \in BOOLEAN, NEW keys \in SUBSET Keys,
         CreateBlobsOf(f, drop, keys), Referred(f, keys) \in SUBSET Values
  PROVE  Inv'
<1>1. CASE InPlace(BlobsOf(f, drop, keys), None)
  <2>1. /\ value' = [v \in Values |-> IF v \in Referred(f, keys) THEN BlobsOf(f, drop, keys)[v]
                                                                 ELSE value[v]]
        /\ UNCHANGED <<map, stop, dropBlobs>>
    BY <1>1 DEF InPlace, BlobsOf
  <2> QED BY <2>1, BlobsOfOK, InPlaceInv
<1>2. ASSUME NEW k \in keys, NEW done \in SUBSET (keys \ {k}),
             BreaksOff(f, BlobsOf(f, drop, done), k)
      PROVE  Inv'
  <2>1. done \in SUBSET Keys /\ Referred(f, done) \in SUBSET Values /\ map[f][k] \in Values
    BY DEF Referred
  <2> QED BY <1>2, <2>1, BlobsOfOK, BreaksOffInv
<1> QED BY <1>1, <1>2 DEF CreateBlobsOf

LEMMA SaveInv ==
  ASSUME Inv, NEW f \in Frames, NEW keys \in SUBSET Keys, Save(f, keys)
  PROVE  Inv'
<1>1. Referred(f, keys) \in SUBSET Values
  BY NativeValues DEF Save
<1>2. ASSUME NEW result, InPlace(SavedOf(f, keys), result)
      PROVE  Inv'
  <2>1. /\ value' = [v \in Values |-> IF v \in Referred(f, keys) THEN SavedOf(f, keys)[v]
                                                                 ELSE value[v]]
        /\ UNCHANGED <<map, stop, dropBlobs>>
    BY <1>2 DEF InPlace, SavedOf
  <2> QED BY <1>1, <2>1, SavedOfOK, InPlaceInv
<1>3. ASSUME NEW k \in keys, NEW done \in SUBSET (keys \ {k}),
             BreaksOff(f, SavedOf(f, done), k)
      PROVE  Inv'
  <2>1. done \in SUBSET Keys /\ Referred(f, done) \in SUBSET Values /\ map[f][k] \in Values
    BY <1>1 DEF Referred
  <2> QED BY <1>3, <2>1, SavedOfOK, BreaksOffInv
<1> QED BY <1>2, <1>3 DEF Save

\* The invariant holds at the start and through every step.
LEMMA InitInv == Init => Inv
<1> SUFFICES ASSUME Init PROVE Inv
  OBVIOUS
<1> QED BY NullReadable DEF Init, Inv, TypeOK, AllAgree, Agrees

LEMMA NextInv == Inv /\ [Next]_vars => Inv'
<1> SUFFICES ASSUME Inv, [Next]_vars PROVE Inv'
  OBVIOUS
<1>1. CASE UNCHANGED vars
  BY <1>1 DEF vars, Inv, TypeOK, AllAgree
<1>2. ASSUME NEW f \in Frames, NEW s \in Streams, SetStop(f, s) PROVE Inv'
  BY <1>2 DEF SetStop, Inv, TypeOK, AllAgree
<1>3. ASSUME NEW f \in Frames, NEW drop \in BOOLEAN, SetDropBlobs(f, drop) PROVE Inv'
  BY <1>3 DEF SetDropBlobs, Inv, TypeOK, AllAgree
<1>4. ASSUME NEW f \in Frames, NEW g \in Frames, Assign(f, g) PROVE Inv'
  <2>1. /\ map' \in [Frames -> [Keys -> Values \cup {None}]]
        /\ stop' \in [Frames -> Streams]
        /\ dropBlobs' \in [Frames -> BOOLEAN]
        /\ value' = value
    BY <1>4 DEF Assign, Inv, TypeOK
  <2> QED BY <2>1 DEF Inv, TypeOK, AllAgree
<1>5. ASSUME NEW f \in Frames,
             \/ \E k \in Keys : Delete(f, k)
             \/ \E s \in Streams : PurgeStream(f, s)
             \/ Purge(f)
             \/ Clear(f)
      PROVE  Inv'
  BY <1>5, WithoutInv DEF Delete, PurgeStream, Purge, Clear
<1>6. ASSUME NEW f \in Frames, NEW keys \in SUBSET Keys, NEW s \in Streams,
             NEW objects \in [keys -> Bytes], Load(f, s, keys, objects)
      PROVE  Inv'
  BY <1>6, LoadInv
<1>7. ASSUME NEW f \in Frames, NEW k \in Keys, NEW o \in Readable, NEW s \in Streams,
             Put(f, k, o, s) \/ Replace(f, k, o) \/ ChangeStream(f, k, s)
      PROVE  Inv'
  BY <1>7, FreshInv
<1>8. ASSUME NEW f \in Frames, NEW k \in Keys, NEW o \in Readable, Replace(f, k, o)
      PROVE  Inv'
  BY <1>7, <1>8, ValuesOK
<1>9. ASSUME NEW f \in Frames, NEW k \in Keys, NEW s \in Streams, ChangeStream(f, k, s)
      PROVE  Inv'
  BY <1>7, <1>9, NullReadable
<1>10. ASSUME NEW f \in Frames, NEW g \in Frames, Merge(f, g) PROVE Inv'
  BY <1>10, MergeInv
<1>11. ASSUME NEW f \in Frames, NEW k \in Keys, NEW l \in Keys, Rename(f, k, l) PROVE Inv'
  BY <1>11, SlotsInv
<1>12. ASSUME NEW f \in Frames, NEW g \in Frames, NEW k \in Keys, NEW l \in Keys,
              Take(f, g, k, l)
       PROVE  Inv'
  BY <1>12, SlotsInv
<1>13. ASSUME NEW f \in Frames, NEW keys \in SUBSET Keys, Save(f, keys) PROVE Inv'
  BY <1>13, SaveInv
<1>14. ASSUME NEW f \in Frames, NEW k \in Keys, Get(f, k) PROVE Inv'
  BY <1>14, GetInv
<1>15. ASSUME NEW f \in Frames, NEW drop \in BOOLEAN,
              \/ \E keys \in SUBSET Keys : CreateBlobs(f, drop, keys)
              \/ \E k \in Keys : CreateBlobAt(f, drop, k)
       PROVE  Inv'
  BY <1>15, BlobKeys, CreateBlobsInv
<1> QED
  BY <1>1, <1>2, <1>3, <1>4, <1>5, <1>6, <1>7, <1>8, <1>9, <1>10, <1>11, <1>12, <1>13,
     <1>14, <1>15 DEF Next

-----------------------------------------------------------------------------
\* Each action is one of the map, or does not show.

\* What a key refers to, seen from outside.
LEMMA ContentAt ==
  ASSUME Inv, NEW f \in Frames, NEW k \in Keys
  PROVE  /\ Content[f][k] = IF map[f][k] = None THEN None ELSE Holds(At(f, k))
         /\ Content[f][k] = None <=> map[f][k] = None
<1>1. Content[f][k] = IF map[f][k] = None THEN None ELSE Holds(At(f, k))
  BY DEF Content
<1>2. map[f][k] # None => Holds(At(f, k)) # None
  BY AtOK, HoldsOK
<1> QED BY <1>1, <1>2

LEMMA ContentTyped ==
  ASSUME Inv, NEW f \in Frames, NEW k \in Keys
  PROVE  Content[f][k] \in Map!Items \cup {None}
BY AtOK, HoldsOK, ContentAt

\* Other keys of one frame.
LEMMA BecomesContent ==
  ASSUME Inv, NEW f \in Frames, NEW slots \in [Keys -> Values \cup {None}], Becomes(f, slots)
  PROVE  Map!Becomes(f, [k \in Keys |-> IF slots[k] = None THEN None ELSE Holds(value[slots[k]])])
BY DEF Inv, TypeOK, Becomes, Content, At, Map!Becomes

\* A new value under one key.
LEMMA NewValueContent ==
  ASSUME Inv, NEW f \in Frames, NEW k \in Keys, NEW val \in ValueSet, NewValue(f, k, val)
  PROVE  Map!Becomes(f, [Content[f] EXCEPT ![k] = Holds(val)])
<1>1. PICK v \in Values \ Used :
        /\ value' = [value EXCEPT ![v] = val]
        /\ map' = [map EXCEPT ![f] = [map[f] EXCEPT ![k] = v]]
  BY DEF NewValue
<1>2. v # None
  BY FrameAssumption
<1>3. ASSUME NEW g \in Frames, NEW l \in Keys, g # f \/ l # k
      PROVE  Content'[g][l] = Content[g][l]
  <2>1. map'[g][l] = map[g][l] /\ map[g][l] # v
    BY <1>1, <1>2, <1>3 DEF Inv, TypeOK, Used
  <2>2. map[g][l] # None => value'[map[g][l]] = value[map[g][l]]
    BY <1>1, <2>1 DEF Inv, TypeOK
  <2> QED BY <2>1, <2>2 DEF Content, At
<1>4. Content'[f][k] = Holds(val)
  <2>1. map'[f][k] = v /\ value'[v] = val
    BY <1>1 DEF Inv, TypeOK
  <2> QED BY <1>2, <2>1 DEF Content, At
<1>5. Content' = [Content EXCEPT ![f] = [Content[f] EXCEPT ![k] = Holds(val)]]
  <2>1. /\ Content = [g \in Frames |-> [l \in Keys |-> Content[g][l]]]
        /\ Content' = [g \in Frames |-> [l \in Keys |-> Content'[g][l]]]
    BY DEF Content
  <2>2. [l \in Keys |-> Content'[f][l]] = [Content[f] EXCEPT ![k] = Holds(val)]
    <3>1. Content[f] = [l \in Keys |-> Content[f][l]]
      BY <2>1
    <3>2. [Content[f] EXCEPT ![k] = Holds(val)]
            = [l \in Keys |-> IF l = k THEN Holds(val) ELSE Content[f][l]]
      BY <3>1
    <3> QED BY <1>3, <1>4, <3>2
  <2>3. ASSUME NEW g \in Frames, g # f
        PROVE  [l \in Keys |-> Content'[g][l]] = [l \in Keys |-> Content[g][l]]
    BY <1>3, <2>3
  <2> QED BY <2>1, <2>2, <2>3
<1>6. UNCHANGED stop /\ out' = None
  BY DEF NewValue
<1> QED BY <1>5, <1>6 DEF Map!Becomes

\* A change in place shows under the keys of the values changed, and as those.
LEMMA InPlaceContent ==
  ASSUME Inv, NEW values \in SUBSET Values, NEW new \in [values -> ValueSet], NEW result,
         values = DOMAIN new, InPlace(new, result)
  PROVE  /\ Map!WellTyped'
         /\ Map!Answers(result)
         /\ \A f \in Frames, k \in Keys :
              IF map[f][k] \in values
                THEN /\ Content[f][k] # None /\ Content[f][k] = Holds(value[map[f][k]])
                     /\ Content'[f][k] = Holds(new[map[f][k]])
                ELSE Content'[f][k] = Content[f][k]
<1>1. /\ value' = [v \in Values |-> IF v \in values THEN new[v] ELSE value[v]]
      /\ UNCHANGED <<map, stop, dropBlobs>> /\ out' = result
  BY DEF InPlace
<1>2. ASSUME NEW f \in Frames, NEW k \in Keys
      PROVE  /\ Content'[f][k] = IF map[f][k] = None THEN None ELSE Holds(value'[map[f][k]])
             /\ map[f][k] # None => map[f][k] \in Values
  BY <1>1 DEF Content, At, Inv, TypeOK
<1>3. ASSUME NEW f \in Frames, NEW k \in Keys
      PROVE  IF map[f][k] \in values
               THEN /\ Content[f][k] # None /\ Content[f][k] = Holds(value[map[f][k]])
                    /\ Content'[f][k] = Holds(new[map[f][k]])
               ELSE Content'[f][k] = Content[f][k]
  <2>1. CASE map[f][k] \in values
    <3>1. map[f][k] # None /\ map[f][k] \in Values
      BY <2>1, FrameAssumption
    <3> QED BY <1>1, <1>2, <2>1, <3>1, ContentAt DEF At
  <2>2. CASE map[f][k] \notin values
    BY <1>1, <1>2, <2>2, ContentAt DEF At
  <2> QED BY <2>1, <2>2
<1>4. ASSUME NEW f \in Frames, NEW k \in Keys
      PROVE  Content'[f][k] \in Map!Items \cup {None}
  BY <1>3, HoldsOK, ContentTyped
<1>5. Content' = [f \in Frames |-> [k \in Keys |-> Content'[f][k]]]
  BY DEF Content
<1>6. Map!WellTyped'
  BY <1>4, <1>5 DEF Map!WellTyped
<1> QED BY <1>1, <1>3, <1>6 DEF Map!Answers

\* Nothing shows of it if the values stand for the same afterwards.
LEMMA SameContent ==
  ASSUME Inv, NEW values \in SUBSET Values, NEW new \in [values -> ValueSet], NEW result,
         values = DOMAIN new, InPlace(new, result),
         \A v \in values : Holds(new[v]) = Holds(value[v])
  PROVE  Map!Answers(result) /\ Content' = Content
<1>1. ASSUME NEW f \in Frames, NEW k \in Keys
      PROVE  Content'[f][k] = Content[f][k]
  BY InPlaceContent
<1>2. /\ Content = [f \in Frames |-> [k \in Keys |-> Content[f][k]]]
      /\ Content' = [f \in Frames |-> [k \in Keys |-> Content'[f][k]]]
  BY DEF Content
<1> QED BY <1>1, <1>2, InPlaceContent

\* Put, Replace and ChangeStream do what they do to a map.
LEMMA FreshContent ==
  ASSUME Inv, NEW f \in Frames, NEW k \in Keys, NEW o \in Readable, NEW s \in Streams
  PROVE  /\ Put(f, k, o, s) => Map!Put(f, k, o, s)
         /\ Replace(f, k, o) => Map!Replace(f, k, o)
         /\ ChangeStream(f, k, s) => Map!ChangeStream(f, k, s)
<1>1. ASSUME NEW t \in Streams
      PROVE  Fresh(o, t) \in ValueSet /\ Holds(Fresh(o, t)) = Map!Item(o, t)
  BY NullReadable, FrameAssumption, Marks DEF Fresh, ValueSet
<1>2. Put(f, k, o, s) => Map!Put(f, k, o, s)
  BY <1>1, ContentAt, NewValueContent DEF Put, Map!Put
<1>3. Replace(f, k, o) => Map!Replace(f, k, o)
  BY <1>1, ValuesOK, ContentAt, NewValueContent DEF Replace, Map!Replace
<1>4. ASSUME ChangeStream(f, k, s) PROVE Map!ChangeStream(f, k, s)
  <2> DEFINE val == [At(f, k) EXCEPT !.stream = s]
  <2>1. val \in ValueSet
    BY <1>4, AtOK DEF ChangeStream, ValueSet
  <2>2. [Content[f] EXCEPT ![k] = Holds(val)] = [Content[f] EXCEPT ![k].stream = s]
    <3>1. val = [ptr |-> At(f, k).ptr, buf |-> At(f, k).buf, stream |-> s]
      BY <1>4, AtOK DEF ChangeStream, ValueSet
    <3>2. Content[f][k] = Holds(At(f, k))
      BY <1>4, ContentAt DEF ChangeStream
    <3>3. Holds(val) = [Content[f][k] EXCEPT !.stream = s]
      BY <3>1, <3>2 DEF Holds
    <3> QED BY <3>3
  <2>3. NewValue(f, k, val) /\ Content[f][k] # None
    BY <1>4, ContentAt DEF ChangeStream
  <2> HIDE DEF val
  <2> QED BY <2>1, <2>2, <2>3, NewValueContent DEF Map!ChangeStream
<1> QED BY <1>2, <1>3, <1>4

\* The native keys are the same, whatever a value's form.
LEMMA NativeContent ==
  ASSUME Inv, NEW f \in Frames, NEW s \in Streams
  PROVE  Map!Native(Content[f], s) = Native(f, s)
<1>1. ASSUME NEW k \in Keys, map[f][k] # None
      PROVE  Content[f][k].stream = At(f, k).stream
  <2>1. Content[f][k] = Holds(At(f, k))
    BY <1>1, ContentAt
  <2> QED BY <2>1 DEF Holds
<1> QED BY <1>1, ContentAt DEF Native, Map!Native

LEMMA WithoutContent ==
  ASSUME Inv, NEW f \in Frames, NEW keys, Without(f, keys)
  PROVE  Map!Without(f, keys)
<1> DEFINE slots == [k \in Keys |-> IF k \in keys THEN None ELSE map[f][k]]
<1>1. slots \in [Keys -> Values \cup {None}] /\ Becomes(f, slots)
  BY DEF Inv, TypeOK, Without
<1>2. [k \in Keys |-> IF slots[k] = None THEN None ELSE Holds(value[slots[k]])]
        = [k \in Keys |-> IF k \in keys THEN None ELSE Content[f][k]]
  BY ContentAt DEF At
<1> HIDE DEF slots
<1>3. Map!Becomes(f, [k \in Keys |-> IF k \in keys THEN None ELSE Content[f][k]])
  BY <1>1, <1>2, BecomesContent
<1> QED BY <1>3 DEF Map!Without

\* Delete, both forms of purge, and clear remove the keys of the map they name.
LEMMA RemovalContent ==
  ASSUME Inv, NEW f \in Frames
  PROVE  /\ \A k \in Keys : Delete(f, k) => Map!Delete(f, k)
         /\ \A s \in Streams : PurgeStream(f, s) => Map!PurgeStream(f, s)
         /\ Purge(f) => Map!Purge(f)
         /\ Clear(f) => Map!Clear(f)
BY ValuesOK, WithoutContent, NativeContent
   DEF Delete, PurgeStream, Purge, Clear, Map!Delete, Map!PurgeStream, Map!Purge, Map!Clear

\* Rename, take and merge, which make frames share values.
LEMMA SharingContent ==
  ASSUME Inv, NEW f \in Frames, NEW g \in Frames
  PROVE  /\ \A k, l \in Keys : Rename(f, k, l) => Map!Rename(f, k, l)
         /\ \A k, l \in Keys : Take(f, g, k, l) => Map!Take(f, g, k, l)
         /\ Merge(f, g) => Map!Merge(f, g)
<1>1. ASSUME NEW k \in Keys, NEW l \in Keys, Rename(f, k, l) PROVE Map!Rename(f, k, l)
  <2> DEFINE slots == [map[f] EXCEPT ![l] = map[f][k], ![k] = None]
  <2>1. slots \in [Keys -> Values \cup {None}] /\ Becomes(f, slots)
    BY <1>1 DEF Inv, TypeOK, Rename
  <2>2. [m \in Keys |-> IF slots[m] = None THEN None ELSE Holds(value[slots[m]])]
          = [Content[f] EXCEPT ![l] = Content[f][k], ![k] = None]
    <3>1. /\ map[f] = [m \in Keys |-> map[f][m]]
          /\ Content[f] = [m \in Keys |-> Content[f][m]]
      BY DEF Inv, TypeOK, Content
    <3>2. slots = [m \in Keys |-> IF m = k THEN None ELSE IF m = l THEN map[f][k] ELSE map[f][m]]
      BY <3>1
    <3>3. [Content[f] EXCEPT ![l] = Content[f][k], ![k] = None]
            = [m \in Keys |-> IF m = k THEN None
                              ELSE IF m = l THEN Content[f][k] ELSE Content[f][m]]
      BY <3>1
    <3> HIDE DEF slots
    <3> QED BY <3>2, <3>3, ContentAt DEF At
  <2>3. Content[f][k] # None /\ Content[f][l] = None
    BY <1>1, ContentAt DEF Rename
  <2> HIDE DEF slots
  <2>4. Map!Becomes(f, [Content[f] EXCEPT ![l] = Content[f][k], ![k] = None])
    BY <2>1, <2>2, BecomesContent
  <2> QED BY <2>3, <2>4 DEF Map!Rename
<1>2. ASSUME NEW k \in Keys, NEW l \in Keys, Take(f, g, k, l) PROVE Map!Take(f, g, k, l)
  <2> DEFINE slots == [map[f] EXCEPT ![l] = map[g][k]]
  <2>1. slots \in [Keys -> Values \cup {None}] /\ Becomes(f, slots)
    BY <1>2 DEF Inv, TypeOK, Take
  <2>2. [m \in Keys |-> IF slots[m] = None THEN None ELSE Holds(value[slots[m]])]
          = [Content[f] EXCEPT ![l] = Content[g][k]]
    <3>1. /\ map[f] = [m \in Keys |-> map[f][m]]
          /\ Content[f] = [m \in Keys |-> Content[f][m]]
      BY DEF Inv, TypeOK, Content
    <3>2. slots = [m \in Keys |-> IF m = l THEN map[g][k] ELSE map[f][m]]
      BY <3>1
    <3>3. [Content[f] EXCEPT ![l] = Content[g][k]]
            = [m \in Keys |-> IF m = l THEN Content[g][k] ELSE Content[f][m]]
      BY <3>1
    <3> HIDE DEF slots
    <3> QED BY <3>2, <3>3, ContentAt DEF At
  <2>3. Content[g][k] # None
    BY <1>2, ContentAt DEF Take
  <2> HIDE DEF slots
  <2>4. Map!Becomes(f, [Content[f] EXCEPT ![l] = Content[g][k]])
    BY <2>1, <2>2, BecomesContent
  <2> QED BY <2>3, <2>4 DEF Map!Take
<1>3. ASSUME Merge(f, g) PROVE Map!Merge(f, g)
  <2> DEFINE slots == [k \in Keys |-> IF map[f][k] = None THEN map[g][k] ELSE map[f][k]]
  <2>1. slots \in [Keys -> Values \cup {None}] /\ Becomes(f, slots)
    BY <1>3 DEF Inv, TypeOK, Merge
  <2>2. [k \in Keys |-> IF slots[k] = None THEN None ELSE Holds(value[slots[k]])]
          = [k \in Keys |-> IF Content[f][k] = None THEN Content[g][k] ELSE Content[f][k]]
    BY ContentAt DEF At
  <2> HIDE DEF slots
  <2>3. Map!Becomes(f, [k \in Keys |-> IF Content[f][k] = None THEN Content[g][k]
                                                               ELSE Content[f][k]])
    BY <2>1, <2>2, BecomesContent
  <2> QED BY <2>3 DEF Map!Merge
<1> QED BY <1>1, <1>2, <1>3

\* Assignment copies the whole map, and the setters what they set.
LEMMA FrameContent ==
  ASSUME Inv, NEW f \in Frames
  PROVE  /\ \A g \in Frames : Assign(f, g) => Map!Assign(f, g)
         /\ \A s \in Streams : SetStop(f, s) => Map!SetStop(f, s)
         /\ \A drop \in BOOLEAN : SetDropBlobs(f, drop) => Map!Hidden
<1>1. ASSUME NEW g \in Frames, Assign(f, g) PROVE Map!Assign(f, g)
  <2>1. \A h \in Frames : map'[h] = IF h = f THEN map[g] ELSE map[h]
    BY <1>1 DEF Assign, Inv, TypeOK
  <2>2. value' = value
    BY <1>1 DEF Assign
  <2>3. Content' = [h \in Frames |-> IF h = f THEN Content[g] ELSE Content[h]]
    BY <2>1, <2>2 DEF Content, At
  <2>4. Content' = [Content EXCEPT ![f] = Content[g]]
    BY <2>3 DEF Content
  <2> QED BY <1>1, <2>4 DEF Assign, Map!Assign
<1>2. ASSUME NEW s \in Streams, SetStop(f, s) PROVE Map!SetStop(f, s)
  BY <1>2 DEF SetStop, Map!SetStop, Content, At
<1>3. ASSUME NEW drop \in BOOLEAN, SetDropBlobs(f, drop) PROVE Map!Hidden
  BY <1>3 DEF SetDropBlobs, Map!Hidden, Map!Answers, Content, At
<1> QED BY <1>1, <1>2, <1>3

\* Get answers with what is kept under the key, and that stays or is mended.
LEMMA GetContent ==
  ASSUME Inv, NEW f \in Frames, NEW k \in Keys, Get(f, k)
  PROVE  Map!Get(f, k)
<1>1. CASE map[f][k] = None
  <2>1. PICK none \in SUBSET Values : none = {}
    OBVIOUS
  <2> DEFINE new == [v \in none |-> value[v]]
  <2>2. new \in [none -> ValueSet] /\ none = DOMAIN new /\ InPlace(new, Null)
    BY <1>1, <2>1 DEF Get
  <2> HIDE DEF new
  <2>3. /\ Map!Answers(Null) /\ Map!WellTyped'
        /\ \A g \in Frames, l \in Keys : Content'[g][l] = Content[g][l]
    <3>1. /\ Map!WellTyped' /\ Map!Answers(Null)
          /\ \A g \in Frames, l \in Keys :
               IF map[g][l] \in none
                 THEN /\ Content[g][l] # None /\ Content[g][l] = Holds(value[map[g][l]])
                      /\ Content'[g][l] = Holds(new[map[g][l]])
                 ELSE Content'[g][l] = Content[g][l]
      BY <2>2, InPlaceContent
    <3> QED BY <2>1, <3>1
  <2>4. Content[f][k] = None
    BY <1>1, ContentAt
  <2> QED BY <2>3, <2>4 DEF Map!Get
<1>2. CASE map[f][k] # None
  <2> DEFINE new == [v \in {map[f][k]} |-> GetImpl(value[v], dropBlobs[f]).value]
  <2>1. map[f][k] \in Values
    BY <1>2, AtOK
  <2>2. /\ new \in [{map[f][k]} -> ValueSet]
        /\ Holds(new[map[f][k]]) \in {Holds(At(f, k)), Map!Mended(Holds(At(f, k)))}
        /\ GetImpl(At(f, k), dropBlobs[f]).result = Map!Read(Holds(At(f, k)))
    BY <2>1, ValuesOK, GetImplOK DEF At
  <2>3. InPlace(new, Map!Read(Holds(At(f, k)))) /\ {map[f][k]} = DOMAIN new
    BY <1>2, <2>2 DEF Get
  <2>4. Content[f][k] # None /\ Content[f][k] = Holds(At(f, k))
    BY <1>2, ContentAt
  <2> HIDE DEF new
  <2>5. /\ Map!Answers(Map!Read(Content[f][k])) /\ Map!WellTyped'
        /\ \A g \in Frames, l \in Keys :
             IF map[g][l] = map[f][k]
               THEN /\ Content[g][l] # None /\ Content[g][l] = Content[f][k]
                    /\ Content'[g][l] \in {Content[f][k], Map!Mended(Content[f][k])}
               ELSE Content'[g][l] = Content[g][l]
    <3>1. {map[f][k]} \in SUBSET Values
      BY <2>1
    <3> QED BY <2>2, <2>3, <2>4, <3>1, InPlaceContent DEF At
  <2> QED BY <2>4, <2>5 DEF Map!Get
<1> QED BY <1>1, <1>2

\* A call that broke off has spoiled one object, and lost what it had to drop.
LEMMA BreaksOffContent ==
  ASSUME Inv, NEW f \in Frames, NEW k \in Keys, NEW values \in SUBSET Values,
         map[f][k] \in Values,
         NEW done \in [values -> ValueSet], \A v \in values : Agrees(done[v]),
         \A v \in values : Holds(done[v]) \in {Holds(value[v]), Map!Lost(Holds(value[v]))},
         BreaksOff(f, done, k)
  PROVE  Map!Fails(f, k)
<1>0. PICK all \in SUBSET Values : \E new \in [all -> ValueSet] : Broken(f, k, values, done, all, new)
  BY BreaksOffOK
<1>a. PICK new \in [all -> ValueSet] : Broken(f, k, values, done, all, new)
  BY <1>0
<1>1. /\ \A v \in all : IF v = map[f][k]
           THEN Holds(new[v]) \in {Holds(value[v]), Map!Spoiled(Holds(value[v]))}
           ELSE v \in values /\ new[v] = done[v]
      /\ At(f, k).ptr \in Fragile /\ Holds(At(f, k)).object = At(f, k).ptr
      /\ InPlace(new, Failed) /\ all = DOMAIN new
  BY <1>a DEF Broken
<1>2. map[f][k] # None
  BY FrameAssumption
<1>3. /\ Content[f][k] # None /\ Content[f][k] = Holds(value[map[f][k]])
      /\ Content[f][k].object \in Fragile
  BY <1>1, <1>2, ContentAt DEF At
<1>4. /\ Map!WellTyped' /\ Map!Answers(Failed)
      /\ \A g \in Frames, l \in Keys :
           IF map[g][l] \in all
             THEN /\ Content[g][l] # None /\ Content[g][l] = Holds(value[map[g][l]])
                  /\ Content'[g][l] = Holds(new[map[g][l]])
             ELSE Content'[g][l] = Content[g][l]
  BY <1>1, InPlaceContent
<1>5. ASSUME NEW g \in Frames, NEW l \in Keys
      PROVE  \/ Content'[g][l] = Content[g][l]
             \/ Content[g][l] # None /\ Content'[g][l] = Map!Lost(Content[g][l])
             \/ /\ Content[g][l] = Content[f][k]
                /\ Content'[g][l] = Map!Spoiled(Content[f][k])
  <2>1. CASE map[g][l] \in all /\ map[g][l] = map[f][k]
    BY <1>1, <1>3, <1>4, <2>1
  <2>2. CASE map[g][l] \in all /\ map[g][l] # map[f][k]
    BY <1>1, <1>4, <2>2
  <2>3. CASE map[g][l] \notin all
    BY <1>4, <2>3
  <2> QED BY <2>1, <2>2, <2>3
<1> QED BY <1>3, <1>4, <1>5 DEF Map!Fails

\* create_blobs shows in spoiled objects only, or fails.
LEMMA CreateBlobsContent ==
  ASSUME Inv, NEW f \in Frames, NEW drop \in BOOLEAN, NEW keys \in SUBSET Keys,
         CreateBlobsOf(f, drop, keys), Referred(f, keys) \in SUBSET Values
  PROVE  Map!CreateBlobs \/ \E k \in Keys : Map!Fails(f, k)
<1>1. CASE InPlace(BlobsOf(f, drop, keys), None)
  <2> DEFINE new == BlobsOf(f, drop, keys)
  <2>1. /\ new \in [Referred(f, keys) -> ValueSet]
        /\ \A v \in Referred(f, keys) :
             Holds(new[v]) \in {Holds(value[v]), Map!Lost(Holds(value[v]))}
    BY BlobsOfOK
  <2>2. InPlace(new, None) /\ Referred(f, keys) = DOMAIN new
    BY <1>1 DEF BlobsOf
  <2> HIDE DEF new
  <2>3. /\ Map!WellTyped' /\ Map!Answers(None)
        /\ \A g \in Frames, l \in Keys :
             IF map[g][l] \in Referred(f, keys)
               THEN /\ Content[g][l] # None /\ Content[g][l] = Holds(value[map[g][l]])
                    /\ Content'[g][l] = Holds(new[map[g][l]])
               ELSE Content'[g][l] = Content[g][l]
    BY <2>1, <2>2, InPlaceContent
  <2>4. ASSUME NEW g \in Frames, NEW l \in Keys
        PROVE  \/ Content'[g][l] = Content[g][l]
               \/ Content[g][l] # None /\ Content'[g][l] = Map!Lost(Content[g][l])
    BY <2>1, <2>3
  <2> QED BY <2>3, <2>4 DEF Map!CreateBlobs
<1>2. ASSUME NEW k \in keys, NEW done \in SUBSET (keys \ {k}),
             BreaksOff(f, BlobsOf(f, drop, done), k)
      PROVE  Map!Fails(f, k)
  <2>1. done \in SUBSET Keys /\ Referred(f, done) \in SUBSET Values /\ map[f][k] \in Values
    BY DEF Referred
  <2> QED BY <1>2, <2>1, BlobsOfOK, BreaksOffContent
<1> QED BY <1>1, <1>2 DEF CreateBlobsOf

\* What save writes is what there is under the keys, and that stays; or it fails.
LEMMA SaveContent ==
  ASSUME Inv, NEW f \in Frames, NEW keys \in SUBSET Keys, Save(f, keys)
  PROVE  Map!Save(f, keys) \/ \E k \in Keys : Map!Fails(f, k)
<1>1. Referred(f, keys) \in SUBSET Values /\ keys \subseteq Native(f, stop[f])
  BY NativeValues DEF Save
<1> DEFINE file == File(stop[f], [k \in keys |-> Written(At(f, k)).buf])
<1>2. CASE InPlace(SavedOf(f, keys), file)
  <2> DEFINE new == SavedOf(f, keys)
  <2>1. /\ new \in [Referred(f, keys) -> ValueSet]
        /\ \A v \in Referred(f, keys) : Holds(new[v]) = Holds(value[v])
    BY <1>1, SavedOfOK
  <2>2. InPlace(new, file) /\ Referred(f, keys) = DOMAIN new
    BY <1>2 DEF SavedOf
  <2>3. ASSUME NEW k \in keys PROVE Written(At(f, k)).buf = Map!Written(Content[f][k])
    <3>1. map[f][k] # None
      BY <1>1 DEF Native
    <3>2. Written(At(f, k)).buf = Map!Written(Holds(At(f, k)))
      BY <3>1, AtOK, WrittenOK
    <3> QED BY <3>1, <3>2, ContentAt
  <2>4. file = Map!File(stop[f], [k \in keys |-> Map!Written(Content[f][k])])
    BY <2>3 DEF File, Map!File
  <2>5. keys \subseteq Map!Native(Content[f], stop[f])
    BY <1>1, NativeContent, ValuesOK
  <2> HIDE DEF new, file
  <2>6. Map!Answers(file) /\ Content' = Content
    BY <1>1, <2>1, <2>2, SameContent
  <2> QED BY <2>4, <2>5, <2>6 DEF Map!Save
<1>3. ASSUME NEW k \in keys, NEW done \in SUBSET (keys \ {k}),
             BreaksOff(f, SavedOf(f, done), k)
      PROVE  Map!Fails(f, k)
  <2>1. done \in SUBSET Keys /\ Referred(f, done) \in SUBSET Values /\ map[f][k] \in Values
    BY <1>1 DEF Referred
  <2> QED BY <1>3, <2>1, SavedOfOK, BreaksOffContent
<1> QED BY <1>2, <1>3 DEF Save

\* What is read comes on top of what the frame held, and of no other frame.
LEMMA LoadContent ==
  ASSUME Inv, NEW f \in Frames, NEW s \in Streams, NEW keys \in SUBSET Keys,
         NEW objects \in [keys -> Bytes], Load(f, s, keys, objects)
  PROVE  Map!Load(f, s, keys)
<1>1. PICK new \in [keys -> Values \ Used] :
        /\ \A k, l \in keys : k # l => new[k] # new[l]
        /\ map' = [map EXCEPT ![f] =
             [k \in Keys |-> IF k \in keys THEN new[k] ELSE map[f][k]]]
        /\ value' = [v \in Values |->
             IF \E k \in keys : new[k] = v
               THEN LET k == CHOOSE k \in keys : new[k] = v
                    IN  [ptr |-> Null, buf |-> objects[k], stream |-> s]
               ELSE value[v]]
  BY DEF Load
<1>2. ASSUME NEW k \in keys
      PROVE  Content'[f][k] = Map!Item(objects[k], s)
  <2>1. map'[f][k] = new[k] /\ new[k] # None /\ new[k] \in Values
    BY <1>1, FrameAssumption DEF Inv, TypeOK
  <2>2. \A l \in keys : new[l] = new[k] => l = k
    BY <1>1
  <2>3. (CHOOSE l \in keys : new[l] = new[k]) = k
    BY <2>2
  <2>4. value'[new[k]] = [ptr |-> Null, buf |-> objects[k], stream |-> s]
    BY <1>1, <2>1, <2>3
  <2>5. Content'[f][k] = Holds(value'[new[k]])
    BY <2>1 DEF Content, At
  <2>6. objects[k] # None
    BY NullReadable
  <2> QED BY <2>4, <2>5, <2>6, Marks
<1>3. ASSUME NEW g \in Frames, NEW k \in Keys, g # f \/ k \notin keys
      PROVE  Content'[g][k] = Content[g][k]
  <2>1. map'[g][k] = map[g][k]
    BY <1>1, <1>3 DEF Inv, TypeOK
  <2>2. CASE map[g][k] # None
    <3>1. map[g][k] \in Values /\ map[g][k] \in Used
      BY <2>2 DEF Inv, TypeOK, Used
    <3>2. value'[map[g][k]] = value[map[g][k]]
      BY <1>1, <3>1
    <3> QED BY <2>1, <3>2 DEF Content, At
  <2>3. CASE map[g][k] = None
    BY <2>1, <2>3 DEF Content
  <2> QED BY <2>2, <2>3
<1>4. ASSUME NEW g \in Frames, NEW k \in Keys
      PROVE  IF g = f /\ k \in keys THEN \E o \in Map!Bytes : Content'[g][k] = Map!Item(o, s)
                                    ELSE Content'[g][k] = Content[g][k]
  <2>1. CASE g = f /\ k \in keys
    <3>1. objects[k] \in Map!Bytes
      BY <2>1 DEF Bytes, Things, Map!Bytes, Map!Things
    <3> QED BY <1>2, <2>1, <3>1
  <2>2. CASE ~(g = f /\ k \in keys)
    BY <1>3, <2>2
  <2> QED BY <2>1, <2>2
<1>5. Map!WellTyped'
  <2>1. ASSUME NEW g \in Frames, NEW k \in Keys
        PROVE  Content'[g][k] \in Map!Items \cup {None}
    <3>1. \A o \in Map!Bytes : Map!Item(o, s) \in Map!Items
      BY DEF Map!Items, Map!Item
    <3> QED BY <1>4, <3>1, ContentTyped
  <2>2. Content' = [g \in Frames |-> [k \in Keys |-> Content'[g][k]]]
    BY DEF Content
  <2> QED BY <2>1, <2>2 DEF Map!WellTyped
<1>6. stop' = [stop EXCEPT ![f] = s] /\ out' = None
  BY DEF Load
<1> QED BY <1>4, <1>5, <1>6 DEF Map!Load

LEMMA InitContent == Init => Map!Init
<1> SUFFICES ASSUME Init PROVE Map!Init
  OBVIOUS
<1>1. Content = [f \in Frames |-> [k \in Keys |-> None]]
  BY DEF Init, Content
<1> QED BY <1>1 DEF Init, Map!Init

LEMMA NextContent == Inv /\ [Next]_vars => [Map!Next]_(Map!vars)
<1> SUFFICES ASSUME Inv, [Next]_vars PROVE Map!Next \/ UNCHANGED Map!vars
  OBVIOUS
<1> USE DEF Map!Next
<1>1. CASE UNCHANGED vars
  BY <1>1 DEF vars, Map!vars, Content, At
<1>2. ASSUME NEW f \in Frames, NEW k \in Keys, NEW o \in Readable, NEW s \in Streams,
             Put(f, k, o, s) \/ Replace(f, k, o) \/ ChangeStream(f, k, s)
      PROVE  Map!Next
  BY <1>2, FreshContent DEF Readable, Things, Map!Readable, Map!Things
<1>3. ASSUME NEW f \in Frames, NEW k \in Keys, NEW o \in Readable, Replace(f, k, o)
      PROVE  Map!Next
  BY <1>2, <1>3, ValuesOK
<1>4. ASSUME NEW f \in Frames, NEW k \in Keys, NEW s \in Streams, ChangeStream(f, k, s)
      PROVE  Map!Next
  BY <1>2, <1>4, NullReadable
<1>5. ASSUME NEW f \in Frames,
             \/ \E k \in Keys : Delete(f, k)
             \/ \E s \in Streams : PurgeStream(f, s)
             \/ Purge(f)
             \/ Clear(f)
      PROVE  Map!Next
  BY <1>5, RemovalContent
<1>6. ASSUME NEW f \in Frames, NEW k \in Keys, NEW l \in Keys, Rename(f, k, l)
      PROVE  Map!Next
  BY <1>6, SharingContent
<1>7. ASSUME NEW f \in Frames, NEW g \in Frames, NEW k \in Keys, NEW l \in Keys,
             Take(f, g, k, l)
      PROVE  Map!Next
  BY <1>7, SharingContent
<1>8. ASSUME NEW f \in Frames, NEW g \in Frames, Merge(f, g) PROVE Map!Next
  BY <1>8, SharingContent
<1>9. ASSUME NEW f \in Frames, NEW g \in Frames, Assign(f, g) PROVE Map!Next
  BY <1>9, FrameContent
<1>10. ASSUME NEW f \in Frames, NEW s \in Streams, SetStop(f, s) PROVE Map!Next
  BY <1>10, FrameContent
<1>11. ASSUME NEW f \in Frames, NEW drop \in BOOLEAN, SetDropBlobs(f, drop) PROVE Map!Next
  BY <1>11, FrameContent
<1>12. ASSUME NEW f \in Frames, NEW k \in Keys, Get(f, k) PROVE Map!Next
  BY <1>12, GetContent
<1>13. ASSUME NEW f \in Frames, NEW drop \in BOOLEAN,
              \/ \E keys \in SUBSET Keys : CreateBlobs(f, drop, keys)
              \/ \E k \in Keys : CreateBlobAt(f, drop, k)
       PROVE  Map!Next
  BY <1>13, BlobKeys, CreateBlobsContent
<1>14. ASSUME NEW f \in Frames, NEW keys \in SUBSET Keys, Save(f, keys) PROVE Map!Next
  BY <1>14, SaveContent
<1>15. ASSUME NEW f \in Frames, NEW keys \in SUBSET Keys, NEW s \in Streams,
              NEW objects \in [keys -> Bytes], Load(f, s, keys, objects)
       PROVE  Map!Next
  BY <1>15, LoadContent
<1> HIDE DEF Map!Next
<1> QED
  BY <1>1, <1>2, <1>3, <1>4, <1>5, <1>6, <1>7, <1>8, <1>9, <1>10, <1>11, <1>12, <1>13, <1>14,
     <1>15 DEF Next

-----------------------------------------------------------------------------
LEMMA SpecInv == Spec => []Inv
BY InitInv, NextInv, PTL DEF Spec

\* Every reachable state of the frames is well typed; in particular, an
\* object of an unknown class is never anything but bytes.
THEOREM FrameTypeOK == Spec => []TypeOK
<1>1. Inv => TypeOK
  BY DEF Inv
<1> QED BY <1>1, SpecInv, PTL

\* Whatever frames share a value and whoever reads, writes and drops its
\* bytes: object and bytes never say different things, and beside an object
\* there is a piece of its bytes only if its serialization can throw.
THEOREM FrameBlobsAgree == Spec => []BlobsAgree
<1>1. Inv => BlobsAgree
  BY DEF Inv, AllAgree, BlobsAgree, Used
<1> QED BY <1>1, SpecInv, PTL

\* I3Frame implements FrameSpec: for its users each frame is a map of its
\* own, and nothing shows that values are shared, read late and dropped; a
\* save or create_blobs that threw has spoiled one object and nothing else.
THEOREM FrameActsAsMap == Spec => ActsAsMap
<1>1. Spec => Map!Init /\ [][Map!Next]_(Map!vars)
  BY InitContent, NextContent, SpecInv, PTL DEF Spec
<1> QED BY <1>1 DEF ActsAsMap, Map!Spec
===============================================================================
