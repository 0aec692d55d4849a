------------------------------- MODULE FrameSpec -------------------------------
(***************************************************************************)
(* What I3Frame promises its users (icetray/I3Frame.h): each frame is a    *)
(* map of its own from keys to objects, each with a stream.  In what form  *)
(* an object is kept, and with whom it is shared, does not show, until the *)
(* serialization of an object throws.  Such an object may be spoiled: it   *)
(* can still be got, but a piece of it is what is written of it.           *)
(***************************************************************************)
CONSTANTS Frames, Keys, Streams,
          Objects,      \* what is kept in frames
          Unreadable,   \* those of a class this program has no library for
          Fragile,      \* those whose serialization may throw
          Piece,        \* a part of such an object, which is none
          Failed,       \* the call threw
          Null,         \* a null pointer, which may be put into a frame
          None          \* nothing

VARIABLES content,      \* content[f][k]: an Item, or None
          stop,         \* stop[f]: the stream of the frame
          out           \* what the last call returned or wrote

vars == <<content, stop, out>>

Things == Objects \cup {Null}
Readable == Things \ Unreadable
Bytes == Things \cup {Piece}
Items == [object : Bytes, stream : Streams, spoiled : BOOLEAN]
Item(o, s) == [object |-> o, stream |-> s, spoiled |-> FALSE]

Read(item) == IF item.object \in Unreadable \cup {Piece} THEN Null ELSE item.object
Written(item) == IF item.spoiled THEN Piece ELSE item.object

WellTyped == content \in [Frames -> [Keys -> Items \cup {None}]]

\* A frame as it is in a file: the objects of its own stream.
Native(slots, s) == {k \in Keys : slots[k] # None /\ slots[k].stream = s}
File(s, objects) == [stop |-> s, objects |-> objects]

Becomes(f, slots) ==
    out' = None /\ UNCHANGED stop /\ content' = [content EXCEPT ![f] = slots]

Init == /\ content = [f \in Frames |-> [k \in Keys |-> None]]
        /\ stop \in [Frames -> Streams]
        /\ out = None

Put(f, k, o, s) == /\ content[f][k] = None
                   /\ Becomes(f, [content[f] EXCEPT ![k] = Item(o, s)])

Replace(f, k, o) == /\ content[f][k] # None
                    /\ Becomes(f, [content[f] EXCEPT ![k] = Item(o, stop[f])])

Rename(f, from, to) ==
    /\ content[f][from] # None /\ content[f][to] = None
    /\ Becomes(f, [content[f] EXCEPT ![to] = content[f][from], ![from] = None])

ChangeStream(f, k, s) ==
    /\ content[f][k] # None
    /\ Becomes(f, [content[f] EXCEPT ![k].stream = s])

\* Delete, both forms of purge, and clear: some keys are gone.
Without(f, keys) == Becomes(f, [k \in Keys |-> IF k \in keys THEN None ELSE content[f][k]])

Delete(f, k) == Without(f, {k})
PurgeStream(f, s) == Without(f, Native(content[f], s))
Purge(f) == Without(f, Keys \ Native(content[f], stop[f]))
Clear(f) == Without(f, Keys)

Merge(f, g) == Becomes(f, [k \in Keys |-> IF content[f][k] = None THEN content[g][k]
                                                                  ELSE content[f][k]])

Take(f, g, what, as) == /\ content[g][what] # None
                        /\ Becomes(f, [content[f] EXCEPT ![as] = content[g][what]])

Assign(f, g) == /\ out' = None
                /\ stop' = [stop EXCEPT ![f] = stop[g]]
                /\ content' = [content EXCEPT ![f] = content[g]]

SetStop(f, s) == stop' = [stop EXCEPT ![f] = s] /\ UNCHANGED content /\ out' = None

Answers(what) == out' = what /\ UNCHANGED stop

\* What becomes of an item when a serialization throws, when its object is
\* dropped for the bytes, and when the bytes are dropped for the object.
Spoiled(item) == [object |-> item.object, stream |-> item.stream, spoiled |-> TRUE]
Lost(item) == IF item.spoiled THEN Item(Piece, item.stream) ELSE item
Mended(item) == Item(item.object, item.stream)

\* To get an object may rid it, in all frames that share it, of the piece.
Get(f, k) ==
    /\ Answers(IF content[f][k] = None THEN Null ELSE Read(content[f][k]))
    /\ \A g \in Frames, l \in Keys :
         \/ content'[g][l] = content[g][l]
         \/ content[g][l] # None /\ content'[g][l] = Mended(content[g][l])
    /\ WellTyped'

Save(f, keys) ==
    /\ keys \subseteq Native(content[f], stop[f])
    /\ Answers(File(stop[f], [k \in keys |-> Written(content[f][k])]))
    /\ UNCHANGED content

\* To keep objects as bytes only does not show, but of the spoiled ones.
CreateBlobs ==
    /\ Answers(None)
    /\ \A g \in Frames, l \in Keys :
         \/ content'[g][l] = content[g][l]
         \/ content[g][l] # None /\ content'[g][l] = Lost(content[g][l])
    /\ WellTyped'

\* A save or create_blobs that threw may have spoiled one object.
Fails(f, k) ==
    /\ content[f][k] # None /\ content[f][k].object \in Fragile
    /\ Answers(Failed)
    /\ \A g \in Frames, l \in Keys :
         \/ content'[g][l] = content[g][l]
         \/ content[g][l] # None /\ content'[g][l] = Lost(content[g][l])
         \/ content[g][l] = content[f][k] /\ content'[g][l] = Spoiled(content[f][k])
    /\ WellTyped'

\* What is read of a file comes on top of what the frame held.
Load(f, s, keys) ==
    /\ out' = None
    /\ stop' = [stop EXCEPT ![f] = s]
    /\ \A g \in Frames, k \in Keys :
         IF g = f /\ k \in keys THEN \E o \in Bytes : content'[g][k] = Item(o, s)
                               ELSE content'[g][k] = content[g][k]
    /\ WellTyped'

\* How the objects are kept changes: nothing that shows.
Hidden == Answers(None) /\ UNCHANGED content

Next ==
    \/ Hidden \/ CreateBlobs
    \/ \E f \in Frames :
         \/ \E keys \in SUBSET Keys : Save(f, keys) \/ \E s \in Streams : Load(f, s, keys)
         \/ \E k \in Keys, o \in Readable, s \in Streams : Put(f, k, o, s)
         \/ \E k \in Keys, o \in Readable : Replace(f, k, o)
         \/ \E from, to \in Keys : Rename(f, from, to)
         \/ \E k \in Keys, s \in Streams : ChangeStream(f, k, s)
         \/ \E k \in Keys : Delete(f, k) \/ Get(f, k) \/ Fails(f, k)
         \/ \E s \in Streams : PurgeStream(f, s) \/ SetStop(f, s)
         \/ Purge(f) \/ Clear(f)
         \/ \E g \in Frames : Merge(f, g) \/ Assign(f, g)
         \/ \E g \in Frames, what, as \in Keys : Take(f, g, what, as)

Spec == Init /\ [][Next]_vars
===============================================================================
