--------------------------------- MODULE Frame ---------------------------------
(***************************************************************************)
(* I3Frame (icetray/I3Frame.cxx): a frame maps keys to shared pointers to  *)
(* value_t's.  A value holds its object, or the bytes it was read from, or *)
(* both; Get reads the bytes when the object is first asked for, save and  *)
(* create_blob write them.  Frames share values with those they were       *)
(* merged, taken or copied from.  Calls that throw change nothing and are  *)
(* no steps, but for a load, a save and a create_blob that break off.      *)
(***************************************************************************)
CONSTANTS Frames, Keys, Streams,
          Objects,      \* what is kept in frames
          Unreadable,   \* those of a class this program has no library for
          Fragile,      \* those whose serialization may throw
          Piece,        \* what it may leave then: the bytes of a part of them
          Failed,       \* the call threw
          Null,         \* a null pointer, which may be put into a frame
          None,         \* nothing under a key, or no bytes
          Values        \* the value_t's there can be at once: a bound

ASSUME FrameAssumption ==
    /\ Unreadable \subseteq Objects /\ Fragile \subseteq Objects \ Unreadable
    /\ Null \notin Objects
    /\ Piece \notin Objects \cup {Null}
    /\ None \notin Objects \cup {Null, Piece, Failed} \cup Values
    /\ None \notin [object : Objects \cup {Null, Piece}, stream : Streams, spoiled : BOOLEAN]

VARIABLES map,          \* map_: map[f][k] is a value, or None
          value,        \* what each value holds
          stop,         \* stop_
          dropBlobs,    \* drop_blobs_
          out           \* what the last call returned or wrote

vars == <<map, value, stop, dropBlobs, out>>

Things == Objects \cup {Null}
Readable == Things \ Unreadable
Bytes == Things \cup {Piece}
At(f, k) == value[map[f][k]]
Used == {v \in Values : \E f \in Frames, k \in Keys : map[f][k] = v}

Init == /\ map = [f \in Frames |-> [k \in Keys |-> None]]
        /\ value \in [Values -> {[ptr |-> Null, buf |-> None, stream |-> s] : s \in Streams}]
        /\ stop \in [Frames -> Streams]
        /\ dropBlobs = [f \in Frames |-> TRUE]
        /\ out = None

-----------------------------------------------------------------------------
\* Changes to the keys of one frame.
Becomes(f, slots) == /\ map' = [map EXCEPT ![f] = slots]
                     /\ UNCHANGED <<value, stop, dropBlobs>> /\ out' = None

NewValue(f, k, val) ==
    \E v \in Values \ Used :
      /\ value' = [value EXCEPT ![v] = val]
      /\ map' = [map EXCEPT ![f] = [map[f] EXCEPT ![k] = v]]
      /\ UNCHANGED <<stop, dropBlobs>> /\ out' = None

Fresh(o, s) == [ptr |-> o, buf |-> None, stream |-> s]

Put(f, k, o, s) == map[f][k] = None /\ NewValue(f, k, Fresh(o, s))

\* Mutant of Replace: the value that is there gets the new object.
ReplaceInPlace(f, k, o) ==
    /\ map[f][k] # None
    /\ value' = [value EXCEPT ![map[f][k]].ptr = o, ![map[f][k]].stream = stop[f]]
    /\ UNCHANGED <<map, stop, dropBlobs>> /\ out' = None

Replace(f, k, o) == map[f][k] # None /\ NewValue(f, k, Fresh(o, stop[f]))

Rename(f, from, to) ==
    /\ map[f][from] # None /\ map[f][to] = None
    /\ Becomes(f, [map[f] EXCEPT ![to] = map[f][from], ![from] = None])

\* Mutant of ChangeStream: all frames that share the value see the new stream.
ChangeStreamOfAll(f, k, s) ==
    /\ map[f][k] # None
    /\ value' = [value EXCEPT ![map[f][k]].stream = s]
    /\ UNCHANGED <<map, stop, dropBlobs>> /\ out' = None

\* The value is copied: others may share it.
ChangeStream(f, k, s) ==
    map[f][k] # None /\ NewValue(f, k, [At(f, k) EXCEPT !.stream = s])

Native(f, s) == {k \in Keys : map[f][k] # None /\ At(f, k).stream = s}
Without(f, keys) == Becomes(f, [k \in Keys |-> IF k \in keys THEN None ELSE map[f][k]])

Delete(f, k) == Without(f, {k})
PurgeStream(f, s) == Without(f, Native(f, s))
Purge(f) == Without(f, Keys \ Native(f, stop[f]))
Clear(f) == Without(f, Keys)

\* unordered_map::insert leaves the keys there are.
Merge(f, g) == Becomes(f, [k \in Keys |-> IF map[f][k] = None THEN map[g][k] ELSE map[f][k]])

Take(f, g, what, as) == /\ map[g][what] # None
                        /\ Becomes(f, [map[f] EXCEPT ![as] = map[g][what]])

Assign(f, g) == /\ map' = [map EXCEPT ![f] = map[g]]
                /\ stop' = [stop EXCEPT ![f] = stop[g]]
                /\ dropBlobs' = [dropBlobs EXCEPT ![f] = dropBlobs[g]]
                /\ UNCHANGED value /\ out' = None

SetStop(f, s) == /\ stop' = [stop EXCEPT ![f] = s]
                 /\ UNCHANGED <<map, value, dropBlobs>> /\ out' = None

SetDropBlobs(f, drop) == /\ dropBlobs' = [dropBlobs EXCEPT ![f] = drop]
                         /\ UNCHANGED <<map, value, stop>> /\ out' = None

-----------------------------------------------------------------------------
\* Objects and bytes.
Blobless(val, drop) == IF drop THEN [val EXCEPT !.buf = None] ELSE val

\* get_impl: the object, and the value with it.  The end of a piece comes as
\* an archive_exception, as an unknown class does.
GetImpl(val, drop) ==
    CASE val.ptr # Null -> [result |-> val.ptr, value |-> Blobless(val, drop)]
      [] val.ptr = Null /\ (val.buf \in Unreadable \cup {None, Piece}) ->
           [result |-> Null, value |-> val]
      [] OTHER -> [result |-> val.buf,
                   value |-> Blobless([val EXCEPT !.ptr = val.buf], drop)]

\* Some values are changed in place, for all frames that share them.
InPlace(new, result) ==
    /\ value' = [v \in Values |-> IF v \in DOMAIN new THEN new[v] ELSE value[v]]
    /\ UNCHANGED <<map, stop, dropBlobs>> /\ out' = result

Get(f, k) ==
    IF map[f][k] = None THEN InPlace([v \in {} |-> value[v]], Null)
    ELSE InPlace([v \in {map[f][k]} |-> GetImpl(value[v], dropBlobs[f]).value],
                 GetImpl(At(f, k), dropBlobs[f]).result)

\* What bytes there are are taken as they are, a piece as well.
Written(val) == IF val.buf = None THEN [val EXCEPT !.buf = val.ptr] ELSE val

CreateBlob(val, drop) == IF drop THEN [Written(val) EXCEPT !.ptr = Null] ELSE Written(val)

\* The values of some keys as create_blob leaves them, and as save does, which
\* keeps the bytes it made unless drop_blobs_ says otherwise.
Referred(f, keys) == {map[f][k] : k \in keys}
BlobsOf(f, drop, keys) == [v \in Referred(f, keys) |-> CreateBlob(value[v], drop)]
SavedOf(f, keys) ==
    [v \in Referred(f, keys) |-> IF dropBlobs[f] THEN value[v] ELSE Written(value[v])]

\* create_blob_impl writes straight into the value: if the serialization of the
\* object under k throws, after the values in done, what was written stays.
BreaksOff(f, done, k) ==
    /\ At(f, k).ptr \in Fragile /\ At(f, k).buf = None
    /\ map[f][k] \notin DOMAIN done
    /\ \E left \in {None, Piece} :
         InPlace([v \in DOMAIN done \cup {map[f][k]} |->
                     IF v = map[f][k] THEN [value[v] EXCEPT !.buf = left] ELSE done[v]],
                 Failed)

\* create_blobs takes the keys in the order of a hash map.
CreateBlobsOf(f, drop, keys) ==
    \/ InPlace(BlobsOf(f, drop, keys), None)
    \/ \E k \in keys : \E done \in SUBSET (keys \ {k}) : BreaksOff(f, BlobsOf(f, drop, done), k)

\* Those of the frame's own stream that no pattern to skip matches.
CreateBlobs(f, drop, keys) == keys \subseteq Native(f, stop[f]) /\ CreateBlobsOf(f, drop, keys)
CreateBlobAt(f, drop, k) == map[f][k] # None /\ CreateBlobsOf(f, drop, {k})

File(s, objects) == [stop |-> s, objects |-> objects]

\* The keys are written in the order of their names, which any may be.
Save(f, keys) ==
    /\ keys \subseteq Native(f, stop[f])
    /\ \/ InPlace(SavedOf(f, keys), File(stop[f], [k \in keys |-> Written(At(f, k)).buf]))
       \/ \E k \in keys : \E done \in SUBSET (keys \ {k}) : BreaksOff(f, SavedOf(f, done), k)

\* What is read of a file comes under new values, without clearing the map.
\* It is less than the file holds if keys are skipped, or if a fault ends the
\* call after some of them.
Load(f, s, keys, objects) ==
    \E new \in [keys -> Values \ Used] :
      /\ \A k, l \in keys : k # l => new[k] # new[l]
      /\ map' = [map EXCEPT ![f] =
           [k \in Keys |-> IF k \in keys THEN new[k] ELSE map[f][k]]]
      /\ value' = [v \in Values |->
           IF \E k \in keys : new[k] = v
             THEN LET k == CHOOSE k \in keys : new[k] = v
                  IN  [ptr |-> Null, buf |-> objects[k], stream |-> s]
             ELSE value[v]]
      /\ stop' = [stop EXCEPT ![f] = s]
      /\ UNCHANGED dropBlobs /\ out' = None

Next ==
    \E f \in Frames :
      \/ \E k \in Keys, o \in Readable, s \in Streams : Put(f, k, o, s)
      \/ \E k \in Keys, o \in Readable : Replace(f, k, o)
      \/ \E from, to \in Keys : Rename(f, from, to)
      \/ \E k \in Keys, s \in Streams : ChangeStream(f, k, s)
      \/ \E k \in Keys : Delete(f, k)
      \/ \E k \in Keys : Get(f, k)
      \/ \E s \in Streams : PurgeStream(f, s)
      \/ \E s \in Streams : SetStop(f, s)
      \/ Purge(f)
      \/ Clear(f)
      \/ \E g \in Frames : Merge(f, g)
      \/ \E g \in Frames : Assign(f, g)
      \/ \E g \in Frames, what, as \in Keys : Take(f, g, what, as)
      \/ \E drop \in BOOLEAN : SetDropBlobs(f, drop)
      \/ \E drop \in BOOLEAN, keys \in SUBSET Keys : CreateBlobs(f, drop, keys)
      \/ \E drop \in BOOLEAN, k \in Keys : CreateBlobAt(f, drop, k)
      \/ \E keys \in SUBSET Keys : Save(f, keys)
      \/ \E keys \in SUBSET Keys, s \in Streams : \E objects \in [keys -> Bytes] : Load(f, s, keys, objects)

Spec == Init /\ [][Next]_vars

-----------------------------------------------------------------------------
TypeOK ==
    /\ map \in [Frames -> [Keys -> Values \cup {None}]]
    /\ value \in [Values -> [ptr : Readable, buf : Bytes \cup {None}, stream : Streams]]
    /\ stop \in [Frames -> Streams]
    /\ dropBlobs \in [Frames -> BOOLEAN]

\* An object and its bytes never say different things, in whatever order the
\* frames that share them read, write and drop one or the other; only of an
\* object whose serialization threw there may be a piece instead.
Agrees(val) == \/ val.ptr = Null
               \/ val.buf \in {val.ptr, None}
               \/ val.ptr \in Fragile /\ val.buf = Piece
BlobsAgree == \A v \in Used : Agrees(value[v])

\* What a value stands for: no reader can lose it, not even for a class that
\* only passes through this program as bytes.  It is spoiled if there is only a
\* piece to be written of it.
Holds(val) == [object  |-> IF val.ptr = Null /\ val.buf # None THEN val.buf ELSE val.ptr,
               stream  |-> val.stream,
               spoiled |-> val.ptr # Null /\ val.buf = Piece]
Content == [f \in Frames |-> [k \in Keys |-> IF map[f][k] = None THEN None ELSE Holds(At(f, k))]]

\* Frames act as separate maps of objects: lazy reading, dropped bytes and
\* the sharing of values between frames do not show, unless a serialization
\* threw, and then only in the objects it spoiled.
Map == INSTANCE FrameSpec WITH content <- Content
ActsAsMap == Map!Spec
===============================================================================
