------------------------------ MODULE TableWriter ------------------------------
(***************************************************************************)
(* tableio's I3TableWriters with the I3TableService they share: frames     *)
(* pass the writers one after the other, each books the objects it was     *)
(* asked for into tables of the service, the service remembers the events  *)
(* of which anything was booked, and a table that missed some of them is   *)
(* padded when it is written next or when its writer finishes.  At the end *)
(* the writers finish in turn and the file is closed.                      *)
(*                                                                         *)
(* An event's header is the number of its frame: no two frames have equal  *)
(* headers.  Every object can be deserialized; tables are named by the     *)
(* key of their objects.  What an object holds is left to its frame and    *)
(* its size, the number of rows a multi-row converter makes of it.         *)
(***************************************************************************)
EXTENDS Integers, Sequences, SequencesExt

CONSTANTS Keys,       \* names of frame objects, a sequence in their order
          NumWriters, \* the writers, in the order the tray has them
          Physics, DAQ,
          Streams,    \* the SubEventStreams of each writer
          WantedKeys, \* of each writer: the converters asked for by key
          WantedTypes,\* of each writer: types, [keys, converters]
          FrameKinds, \* the frames there are, [stop, stream, objects]
          Alignments, \* whether tables are Strict, as ROOT's, or MultiRow, as HDF's
          MaxFrames,  \* bound: frames
          Absent, None

Writers == 1 .. NumWriters
Key == ToSet(Keys)

\* The converters a writer was given for the objects under a key.
Wants(w, k) ==
    ToSet(WantedKeys[w][k])
      \union UNION {ToSet(type.converters) : type \in {t \in ToSet(WantedTypes[w]) : k \in t.keys}}

ASSUME WriterAssumption ==
    /\ NumWriters \in Nat \ {0}
    /\ DOMAIN Streams = Writers
    /\ Alignments \subseteq BOOLEAN
    /\ Keys \in Seq(Key) /\ \A i, j \in DOMAIN Keys : Keys[i] = Keys[j] => i = j
    /\ \A kind \in FrameKinds : \A k \in Key : kind.objects[k] \in Nat \union {Absent}

ASSUME WantedAssumption ==
    /\ WantedKeys = [w \in Writers |-> [k \in Key |-> WantedKeys[w][k]]]
    /\ \A w \in Writers :
         /\ WantedTypes[w] \in Seq(ToSet(WantedTypes[w]))
         /\ \A type \in ToSet(WantedTypes[w]) : type.converters \in Seq(ToSet(type.converters))
         /\ \A k \in Key : /\ WantedKeys[w][k] \in Seq(ToSet(WantedKeys[w][k]))
                           /\ \A c \in Wants(w, k) : c.multi \in BOOLEAN

VARIABLES strict,    \* the tables' GetAlignmentType
          wantedNames, uselessKeys,
          bundles,   \* tables_ of each writer
          service,   \* the service: tables, tables_ (listed), eventHeaderCache_
          open,      \* the service's file
          frames,    \* the frames there were, and who got them
          at,        \* the writer the last of them is before, 0 when it is gone
          finished   \* how many writers have finished

vars == <<strict, wantedNames, uselessKeys, bundles, service, open, frames, at, finished>>

NoEvent == 0

Row(event, exists, size) == [event |-> event, exists |-> exists, size |-> size]
IndexRow(event, exists, start, stop) ==
    [event |-> event, exists |-> exists, start |-> start, stop |-> stop]

\* Rows a converter makes of the object under a key.
Has(f, k) == f.objects[k] # Absent
NumberOfRows(c, f, k) == IF c.multi THEN f.objects[k] ELSE 1
Header(f) == IF f.stop = Physics THEN f.id ELSE NoEvent

NewTable(c) ==
    [converter |-> c, rows |-> <<>>, index |-> <<>>, nrowsWithPadding |-> 0,
     lastHeader |-> NoEvent, connected |-> TRUE]

UseIndex(t) == ~strict /\ t.converter.stop = Physics
DoPadding(t) == t.converter.stop = Physics /\ (strict \/ ~t.converter.multi)

-----------------------------------------------------------------------------
(* I3TableService and I3Table.                                              *)

\* GetPaddingRows: the events a table has missed, from the one after its last
\* to the last in the cache, without the event it is about to write.
After(last, cache) ==
    IF last = NoEvent THEN 0
    ELSE CHOOSE i \in 0 .. Len(cache) :
           /\ i > 0 => cache[i] = last
           /\ \A j \in i + 1 .. Len(cache) : cache[j] # last
UpToLast(header, cache) == Len(cache)
UpTo(header, cache) ==
    IF header = Last(cache) THEN Len(cache) - 1 ELSE Len(cache)
Missed(last, header, cache) ==
    IF cache = <<>> THEN <<>>
    ELSE SubSeq(cache, After(last, cache) + 1, UpTo(header, cache))

PaddingRows(missed) == [i \in DOMAIN missed |-> Row(missed[i], FALSE, 1)]
IndexPadding(missed) == [i \in DOMAIN missed |-> IndexRow(missed[i], FALSE, 0, 0)]

HeaderWritten(cache, header, nrows) ==
    IF header # NoEvent /\ (cache = <<>> \/ (Last(cache) # header /\ nrows > 0))
    THEN Append(cache, header) ELSE cache

\* Rows of one object: entries of a table, one entry in a Strict one.
RealRows(f, nrows) ==
    IF strict THEN <<Row(f.id, TRUE, nrows)>>
    ELSE [i \in 1 .. nrows |-> Row(f.id, TRUE, 1)]

\* Where the rows of an object start in its table.
StartUncounted(t, padding) == t.nrowsWithPadding
Start(t, padding) == t.nrowsWithPadding + Len(padding)

AddRow(t, cache, f, nrows) ==
    LET header == Header(f)
        missed == Missed(t.lastHeader, header, cache)
        padding == IF DoPadding(t) /\ header # NoEvent THEN PaddingRows(missed) ELSE <<>>
        start == Start(t, padding)
    IN  [t EXCEPT !.rows = @ \o padding \o RealRows(f, nrows),
                  !.index = IF ~UseIndex(t) THEN @ ELSE
                            @ \o IndexPadding(missed)
                              \o <<IndexRow(header, TRUE, start, start + nrows)>>,
                  !.nrowsWithPadding = start + nrows,
                  !.lastHeader = IF header = NoEvent THEN @ ELSE header]

Align(t, cache) ==
    LET missed == Missed(t.lastHeader, NoEvent, cache)
        padding == IF DoPadding(t) THEN PaddingRows(missed) ELSE <<>>
    IN  [t EXCEPT !.rows = @ \o padding,
                  !.nrowsWithPadding = @ + Len(padding),
                  !.index = IF UseIndex(t) THEN @ \o IndexPadding(missed) ELSE @,
                  !.lastHeader = IF cache = <<>> THEN NoEvent ELSE Last(cache)]

\* A row in one table, of which the service takes note.
WriteRow(s, name, f, nrows) ==
    [s EXCEPT !.tables[name] = AddRow(@, s.cache, f, nrows),
              !.cache = HeaderWritten(@, Header(f), nrows)]

\* GetTable, and the writer's mark on what it returns.
ConnectTable(s, name, c) ==
    IF name \in s.listed THEN [s EXCEPT !.tables[name].connected = TRUE]
    ELSE [s EXCEPT !.tables = [n \in DOMAIN @ \union {name} |->
                                 IF n = name THEN NewTable(c) ELSE @[n]],
                   !.listed = @ \union {name}]

\* A writer lets go of its tables, each for itself.
Disconnect(s, names) ==
    [s EXCEPT !.tables = [n \in DOMAIN @ |->
        IF n \in names THEN [Align(@[n], s.cache) EXCEPT !.connected = FALSE] ELSE @[n]]]

-----------------------------------------------------------------------------
(* I3TableWriter.  What a writer works on: its lists, the service, the     *)
(* frame it was given and the key it has come to.                          *)

Work(w, f) == [writer |-> w, frame |-> f, key |-> None, wanted |-> wantedNames[w],
               useless |-> uselessKeys[w], bundles |-> bundles[w], service |-> service]

\* AddObject has an effect, and says that it had.
Added(c, f, k) == c.stop = f.stop /\ NumberOfRows(c, f, k) > 0

Duplicate(work, c) == \E b \in ToSet(work.bundles[work.key]) : b.converter = c

AddObject(work, c) ==
    LET name == <<work.key, Len(work.bundles[work.key])>>
    IN  IF ~Added(c, work.frame, work.key) \/ Duplicate(work, c) THEN work
        ELSE [work EXCEPT
               !.bundles[work.key] = Append(@, [converter |-> c, table |-> name]),
               !.service = ConnectTable(@, name, c)]
Adding == INSTANCE SeqFold WITH Op <- AddObject

\* What has been added is erased from the list, the rest stays.
AddSpec(work, c) ==
    IF Added(c, work.frame, work.key) THEN AddObject(work, c)
    ELSE [work EXCEPT !.wanted[work.key] = Append(@, c)]
AddingSpecs == INSTANCE SeqFold WITH Op <- AddSpec

\* The objects asked for by key that are in the frame.
AddWantedOnce(work, k) ==
    IF ~Has(work.frame, k) THEN work
    ELSE [Adding!Fold([work EXCEPT !.key = k], work.wanted[k]) EXCEPT !.wanted[k] = <<>>]
AddWanted(work, k) ==
    IF ~Has(work.frame, k) THEN work
    ELSE AddingSpecs!Fold([work EXCEPT !.key = k, !.wanted[k] = <<>>], work.wanted[k])
AddingWanted == INSTANCE SeqFold WITH Op <- AddWanted

\* The others, whose types were asked for.
AddOfType(work, type) ==
    IF work.key \in type.keys THEN Adding!Fold(work, type.converters) ELSE work
AddingTypes == INSTANCE SeqFold WITH Op <- AddOfType

AddTyped(work, k) ==
    LET types == WantedTypes[work.writer]
    IN  IF types = <<>> \/ ~Has(work.frame, k) \/ k \in work.useless THEN work
        ELSE IF work.bundles[k] # <<>> \/ \A type \in ToSet(types) : k \notin type.keys
        THEN [work EXCEPT !.useless = @ \union {k}]
        ELSE AddingTypes!Fold([work EXCEPT !.key = k], types)
AddingTyped == INSTANCE SeqFold WITH Op <- AddTyped

\* What is booked gets its rows.
ConvertObject(work, b) ==
    LET nrows == NumberOfRows(b.converter, work.frame, work.key)
    IN  IF b.converter.stop # work.frame.stop \/ nrows = 0 THEN work
        ELSE [work EXCEPT !.service = WriteRow(@, b.table, work.frame, nrows)]
Converting == INSTANCE SeqFold WITH Op <- ConvertObject

ConvertKey(work, k) ==
    IF ~Has(work.frame, k) THEN work
    ELSE Converting!Fold([work EXCEPT !.key = k], work.bundles[k])
ConvertingKeys == INSTANCE SeqFold WITH Op <- ConvertKey

Booked(w, f) ==
    ConvertingKeys!Fold(AddingTyped!Fold(AddingWanted!Fold(Work(w, f), Keys), Keys), Keys)

Handled(w, f) == f.stop # DAQ /\ (f.stop = Physics => f.stream \in Streams[w])

-----------------------------------------------------------------------------
Init ==
    /\ strict \in Alignments
    /\ wantedNames = WantedKeys
    /\ uselessKeys = [w \in Writers |-> {}]
    /\ bundles = [w \in Writers |-> [k \in Key |-> <<>>]]
    /\ service = [tables |-> <<>>, listed |-> {}, cache |-> <<>>]
    /\ open = TRUE
    /\ frames = <<>>
    /\ at = 0
    /\ finished = 0

\* A frame comes down the tray.
NewFrame ==
    /\ at = 0 /\ finished = 0 /\ Len(frames) < MaxFrames
    /\ \E kind \in FrameKinds :
         frames' = Append(frames, [id |-> Len(frames) + 1, stop |-> kind.stop,
                                   stream |-> kind.stream, objects |-> kind.objects,
                                   seenBy |-> {}])
    /\ at' = 1
    /\ UNCHANGED <<strict, wantedNames, uselessKeys, bundles, service, open, finished>>

Passed == at' = IF at = NumWriters THEN 0 ELSE at + 1

Convert ==
    /\ at # 0
    /\ Passed
    /\ frames' = [frames EXCEPT ![Len(frames)].seenBy = @ \union {at}]
    /\ \E work \in {IF Handled(at, Last(frames)) THEN Booked(at, Last(frames))
                   ELSE Work(at, Last(frames))} :
         /\ wantedNames' = [wantedNames EXCEPT ![at] = work.wanted]
         /\ uselessKeys' = [uselessKeys EXCEPT ![at] = work.useless]
         /\ bundles' = [bundles EXCEPT ![at] = work.bundles]
         /\ service' = work.service
    /\ UNCHANGED <<strict, open, finished>>

\* A module between two writers drops the frame.
Drop ==
    /\ at > 1
    /\ at' = 0
    /\ UNCHANGED <<strict, wantedNames, uselessKeys, bundles, service, open, frames, finished>>

\* The service's part of Finish: every table before the first that is still
\* connected is aligned once more, all are forgotten.
Place(k) == CHOOSE i \in DOMAIN Keys : Keys[i] = k
NamedBefore(n, m) == Place(n[1]) < Place(m[1]) \/ (n[1] = m[1] /\ n[2] < m[2])
Connected(s) == {n \in s.listed : s.tables[n].connected}
Free(s) == {n \in s.listed \ Connected(s) : \A m \in Connected(s) : NamedBefore(n, m)}
ServiceFinish(s) ==
    [s EXCEPT !.tables = [n \in DOMAIN @ |-> IF n \in Free(s) THEN Align(@[n], s.cache) ELSE @[n]],
              !.listed = {}]
Closes(s) == Connected(s) = {}

\* The tables a writer has.
TablesOf(w) == UNION {{b.table : b \in ToSet(bundles[w][k])} : k \in Key}

Finish ==
    /\ at = 0 /\ finished < NumWriters
    /\ finished' = finished + 1
    /\ \E s \in {Disconnect(service, TablesOf(finished + 1))} :
         /\ service' = ServiceFinish(s)
         /\ open' = (open /\ ~Closes(s))
    /\ bundles' = [bundles EXCEPT ![finished + 1] = [k \in Key |-> <<>>]]
    /\ UNCHANGED <<strict, wantedNames, uselessKeys, frames, at>>

Next == NewFrame \/ Convert \/ Drop \/ Finish

Spec == Init /\ [][Next]_vars
-----------------------------------------------------------------------------
(* Properties                                                               *)

Events(rows) == [i \in DOMAIN rows |-> rows[i].event]
Follows(rows, cache) == IF open THEN IsPrefix(Events(rows), cache) ELSE Events(rows) = cache
Made == DOMAIN service.tables

\* I3Table.cxx:66, "only pad the data table itself if this is a non-ragged
\* dataset or if the table type is aligned by construction": row n of every
\* padded table, and of every index, is about the nth event the service has
\* seen, whatever objects came late, were empty or were missing, and once the
\* file is closed none has fewer rows than another.
Aligned ==
    \A n \in Made : \E t \in {service.tables[n]} :
        /\ DoPadding(t) => Follows(t.rows, service.cache)
        /\ UseIndex(t) => Follows(t.index, service.cache)

\* I3Table.cxx:110-118: what the index says of an event are the rows of the
\* table that hold it, all of them and no other, with padding counted where
\* there is padding.
IndexPointsToRows ==
    \A n \in Made : \E t \in {service.tables[n]} :
      \A entry \in ToSet(t.index) :
        {i \in DOMAIN t.rows : t.rows[i].exists /\ t.rows[i].event = entry.event}
          = IF entry.exists THEN entry.start + 1 .. entry.stop ELSE {}

Asked(w, k, c) ==
    \/ c \in ToSet(WantedKeys[w][k])
    \/ /\ WantedKeys[w][k] = <<>>
       /\ \E type \in ToSet(WantedTypes[w]) : k \in type.keys /\ c \in ToSet(type.converters)

\* The rows the frames that were handed out call for.
Expected(k, c) ==
    FoldLeft(LAMBDA acc, f :
               IF Has(f, k) /\ \E w \in f.seenBy : Handled(w, f) /\ Asked(w, k, c) /\ Added(c, f, k)
               THEN acc \o RealRows(f, NumberOfRows(c, f, k)) ELSE acc, <<>>, frames)

\* I3TableWriter.cxx:247-256, the comment on Convert: although a table is only
\* made when the first object with rows turns up, and keys are banned from
\* being looked at again, every object that was asked for is booked once, in
\* the order of the frames, in the one table its key has for the converter.
EveryWantedBooked ==
    \A k \in Key :
      /\ \A n, m \in Made :
           n[1] = k /\ m[1] = k /\ service.tables[n].converter = service.tables[m].converter => n = m
      /\ \A w \in Writers :
          \A c \in ToSet(WantedKeys[w][k]) \union
                  UNION {ToSet(type.converters) : type \in ToSet(WantedTypes[w])} :
           \E rows \in {Expected(k, c)} :
             \/ rows = <<>> /\ \A n \in Made : n[1] = k => service.tables[n].converter # c
             \/ \E n \in Made :
                  /\ n[1] = k /\ service.tables[n].converter = c
                  /\ SelectSeq(service.tables[n].rows, LAMBDA r : r.exists) = rows

==============================================================================
