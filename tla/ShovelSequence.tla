--------------------------- MODULE ShovelSequence ---------------------------
(***************************************************************************)
(* shovelio::I3FrameSequence, the frames behind the steamshovel event      *)
(* viewer (steamshovel/private/shovelio/I3FrameSequence.cpp).  The main    *)
(* thread adds and closes files and asks for frames by number; a thread    *)
(* started by AddFile reads through the files and builds an index.  One    *)
(* recursive mutex guards files, index, cache and mixer; the two flags are *)
(* also read without it.  What a thread does between taking the mutex and  *)
(* giving it up is one step.                                               *)
(*                                                                         *)
(* Frames are numbered from 1.  The content of a frame is a set of frames, *)
(* one per stream, whose keys it shows: merging does not replace keys, and *)
(* frames of one stream are taken to have the same keys.                   *)
(***************************************************************************)
EXTENDS ShovelFiles, FrameMixing, FiniteSets

CONSTANTS FileData,    \* path -> the frames in the file
          FileType,    \* path -> its type
          NBackward,   \* nbackward_, at least 3
          NForward,    \* nforward_
          None,        \* no frame, no call
          Threads,     \* bound: names for index threads, reused
          MaxFiles,    \* bound: files open at once
          MaxIndex,    \* bound: frames asked for
          Careful      \* bound: TRUE for a client kept by MayAddFile, MayCloseOnlyFile

ASSUME CacheAssumption == NBackward \in Nat /\ NForward \in Nat /\ NBackward >= 3

Paths == DOMAIN FileData

VARIABLES
  store,                \* what mtx_ protects: files, mixer, index, cache
  index_complete,
  index_thread_active,
  index_thread,         \* the thread index_thread_ stands for
  threads,              \* every index thread: where it is and what it knows
  main,                 \* the main thread: its call and where it is
  fetched               \* the answer of the last call that asked for a frame

flags == <<index_complete, index_thread_active>>
vars == <<store, flags, index_thread, threads, main, fetched>>

NoStore == [files |-> NoFiles, mixer |-> <<>>, index |-> <<>>, cache |-> <<>>]
NoThread == [at |-> "done", pos |-> 0, fast |-> FALSE, interrupted |-> FALSE]
Idle == [at |-> "idle", op |-> None, idx |-> 0, locked |-> FALSE]
NoAnswer == [idx |-> 0, frame |-> None]

Init == /\ store = NoStore
        /\ index_complete = TRUE
        /\ index_thread_active = FALSE
        /\ index_thread = None
        /\ threads = [t \in Threads |-> NoThread]
        /\ main = Idle
        /\ fetched = NoAnswer

-----------------------------------------------------------------------------
(* The index.                                                               *)

\* From the frame before back to the last one of the stream, by way of
\* parents, for these are the last of another stream.
ParentFrom(index, from, stop) ==
  LET Seek[i \in 1 .. from] ==
        IF i = 1 \/ index[i].stop = stop THEN i
        ELSE IF index[i].parent # i THEN Seek[index[i].parent]
        ELSE Seek[i - 1]
  IN  Seek[from]

\* IndexAppend: the mixer tells which stream was mixed in last.
IndexAppend(st, pos, frame) ==
  With(UpdateDependencies(st.mixer, TRUE, frame), LAMBDA mixer :
    LET parents == GetMixedFrames(mixer, TRUE, frame.stop)
        idx     == Len(st.index) + 1
    IN  [st EXCEPT !.mixer = mixer,
                   !.index = Append(@,
                     [pos |-> pos, stop |-> frame.stop,
                      parent |-> IF parents = <<>> THEN idx
                                 ELSE ParentFrom(st.index, idx - 1, Last(parents).stop)])])

-----------------------------------------------------------------------------
(* The cache: most recently used frames first.                              *)

Merge(content, other) ==
  content \cup {f \in other : \A g \in content : g.stop # f.stop}

Cached(cache, idx) == \E i \in DOMAIN cache : cache[i].idx = idx
Recalled(cache, idx) == CHOOSE item \in ToSet(cache) : item.idx = idx

\* Recall moves the item to the front.
Touch(cache, idx) ==
  <<Recalled(cache, idx)>> \o SelectSeq(cache, LAMBDA item : item.idx # idx)

Remember(cache, idx, content) ==
  LET items == <<[idx |-> idx, frame |-> content]>> \o cache
  IN  SubSeq(items, 1, IF Len(items) > NBackward + NForward
                       THEN NBackward + NForward ELSE Len(items))

\* idx, its parent, the parent's parent and so on.
Lineage(index, idx) ==
  LET Up[i \in 1 .. Len(index)] ==
        IF index[i].parent = i THEN <<i>> ELSE <<i>> \o Up[index[i].parent]
  IN  Up[idx]

\* How many of the lineage have to be read, up to the first one in the cache.
ToRead(cache, line) ==
  LET hits == {k \in DOMAIN line : Cached(cache, line[k])}
  IN  IF hits = {} THEN Len(line) ELSE First(hits) - 1

\* The frame itself, as it stands in the file, and the files after it was read.
Native(st, idx) == FrameRead(AtStreamPos(st.files, st.index[idx].pos).group)
Moved(files, index, idxs) ==
  FoldValues(LAMBDA g, idx : AtStreamPos(g, index[idx].pos).group, files, idxs)

\* MergeParents and Fetch call each other up the lineage.  On the way back
\* each of the first n is remembered, after its parent was merged into it and,
\* if the parent had to be read, the parent's parent from the cache.
Remembered(st, line, n) ==
  FoldValues(LAMBDA cache, k :
    LET again == IF k = n THEN k + 1 ELSE k + 2
    IN  With(IF again <= Len(line) THEN Touch(cache, line[again]) ELSE cache,
             LAMBDA touched :
               Remember(touched, line[k],
                        IF k = Len(line) THEN {Native(st, line[k])}
                        ELSE Merge({Native(st, line[k])},
                                   Recalled(touched, line[k + 1]).frame))),
    st.cache, [j \in 1 .. n |-> n + 1 - j])

\* Reading the first n of a lineage.
Read(st, line, n) ==
  With(Remembered(st, line, n), LAMBDA cache :
    [store |-> [st EXCEPT !.files = Moved(@, st.index, SubSeq(line, 1, n)),
                          !.cache = cache],
     frame |-> Recalled(cache, line[1]).frame])

\* Fetch inside of the index; None if a file does not allow to go back.
FetchIndexed(st, idx) ==
  IF Cached(st.cache, idx)
  THEN [store |-> [st EXCEPT !.cache = Touch(@, idx)],
        frame |-> Recalled(st.cache, idx).frame]
  ELSE IF ~AtStreamPos(st.files, st.index[idx].pos).ok
  THEN [store |-> [st EXCEPT !.files = AtStreamPos(@, st.index[idx].pos).group],
        frame |-> None]
  ELSE With(Lineage(st.index, idx), LAMBDA line :
         With(ToRead(st.cache, line), LAMBDA n : Read(st, line, n)))

\* Fetch beyond the index, which is incomplete only with a single-pass file:
\* read on until the frame comes or the file ends.
ReadNext(acc, idx) ==
  With(NextFrame(acc.store.files, FALSE), LAMBDA read :
    IF ~read.ok
    THEN [store |-> [acc.store EXCEPT !.files = read.group],
          complete |-> TRUE, frame |-> None]
    ELSE With(FrameRead(read.group), LAMBDA frame :
           With(IndexAppend([acc.store EXCEPT !.files = read.group],
                            CurrentStreamPos(acc.store.files), frame), LAMBDA st :
             With({frame} \cup ToSet(GetMixedFrames(st.mixer, TRUE, frame.stop)),
                  LAMBDA content :
                    [store |-> [st EXCEPT !.cache = Remember(@, idx, content)],
                     complete |-> FALSE, frame |-> content]))))

ReadOn(st, idx) ==
  FoldValues(LAMBDA acc, i : IF acc.complete THEN acc ELSE ReadNext(acc, i),
             [store |-> st, complete |-> FALSE, frame |-> None],
             [k \in 1 .. idx - Len(st.index) |-> Len(st.index) + k])

Fetch(st, complete, idx) ==
  IF idx <= Len(st.index)
  THEN With(FetchIndexed(st, idx), LAMBDA got :
         [store |-> got.store, complete |-> complete, frame |-> got.frame])
  ELSE IF complete THEN [store |-> st, complete |-> TRUE, frame |-> None]
  ELSE ReadOn(st, idx)

\* Mutant of FetchAhead: the frame fetched last is the answer.
FetchAheadLast(got, active, idx) ==
  IF active \/ got.complete THEN got
  ELSE FoldValues(LAMBDA acc, i : Fetch(acc.store, acc.complete, i),
                  got, [k \in 1 .. NForward |-> idx + k])

\* Behind a frame of a single-pass file the next ones are fetched as well.
FetchAhead(got, active, idx) ==
  IF active \/ got.complete THEN got
  ELSE [FoldValues(LAMBDA acc, i : Fetch(acc.store, acc.complete, i),
                   got, [k \in 1 .. NForward |-> idx + k]) EXCEPT !.frame = got.frame]

-----------------------------------------------------------------------------
(* The main thread.                                                         *)

Alive == {t \in Threads : threads[t].at # "done"}
Files == store.files.files

\* Nothing in the code keeps a client from any of this, and FileService does
\* not avoid it.  A careful one adds no file while an index thread is on its way
\* out (shovel_race) or was about to read in a file since closed (shovel_skip),
\* none that is open already, and has a single-pass file alone.
MayAddFile(path) ==
  Careful => /\ \A t \in Alive : /\ threads[t].at # "leave"
                                /\ threads[t].pos <= GetSize(store.files)
             /\ \A i \in DOMAIN Files :
                  /\ Files[i].data # FileData[path]
                  /\ "SinglePass" \notin {Files[i].type, FileType[path]}

\* It closes the only file by CloseLastFile when nobody is indexing
\* (shovel_join).
MayCloseOnlyFile == Careful => Alive = {}

\* Mutant of AddFile: the index is still called complete.
AddFileComplete(path) ==
  /\ main = Idle
  /\ Len(Files) < MaxFiles
  /\ MayAddFile(path)
  /\ store' = [store EXCEPT !.files = AddFileTo(@, OpenFile(FileData[path], FileType[path]))]
  /\ fetched' = NoAnswer
  /\ UNCHANGED <<flags, index_thread, threads, main>>

\* A new index thread, unless the index is incomplete: then one is at work
\* already, or a single-pass file is open.
AddFile(path) ==
  /\ main = Idle
  /\ Len(Files) < MaxFiles
  /\ MayAddFile(path)
  /\ store' = [store EXCEPT !.files = AddFileTo(@, OpenFile(FileData[path], FileType[path]))]
  /\ \/ /\ ~index_complete
        /\ UNCHANGED <<flags, index_thread, threads>>
     \/ /\ index_complete
        /\ index_complete' = FALSE
        /\ index_thread_active' = TRUE
        /\ Alive # Threads
        /\ index_thread' = CHOOSE t \in Threads \ Alive : TRUE
        /\ threads' = [threads EXCEPT ![index_thread'] =
                         [NoThread EXCEPT !.at = "start", !.pos = GetSize(store.files)]]
  /\ fetched' = NoAnswer
  /\ UNCHANGED main

\* CloseAllFiles: interrupt the thread, if the flag says that there is one.
BeginCloseAll(op, locked) ==
  /\ main' = [Idle EXCEPT !.at = IF index_thread_active THEN "join" ELSE "clear",
                          !.op = op, !.locked = locked]
  /\ threads' = IF index_thread_active
                THEN [threads EXCEPT ![index_thread].interrupted = TRUE] ELSE threads
  /\ fetched' = NoAnswer
  /\ UNCHANGED <<store, flags, index_thread>>

CloseAllFiles ==
  /\ main = Idle
  /\ BeginCloseAll("CloseAllFiles", FALSE)

Join == /\ main.at = "join"
        /\ threads[index_thread].at = "done"
        /\ main' = [main EXCEPT !.at = "clear"]
        /\ UNCHANGED <<store, flags, index_thread, threads, fetched>>

Clear == /\ main.at = "clear"
         /\ index_complete' = TRUE
         /\ store' = NoStore
         /\ main' = Idle
         /\ UNCHANGED <<index_thread_active, index_thread, threads, fetched>>

\* CloseLastFile of the only file closes all, with the mutex held.
CloseOnlyFile ==
  /\ main = Idle
  /\ Len(Files) = 1
  /\ MayCloseOnlyFile
  /\ BeginCloseAll("CloseLastFile", TRUE)

\* Mutant of Shrunk: cached frames of the closed file stay.
ShrunkKeepingCache(st) ==
  [st EXCEPT !.index = SelectSeq(@, LAMBDA item : item.pos < GetSize(st.files)),
             !.mixer = <<>>]

\* The index and the cache lose what lies beyond the end of the files, and
\* the mixer forgets everything.
Shrunk(st) ==
  LET index == SelectSeq(st.index, LAMBDA item : item.pos < GetSize(st.files))
  IN  [st EXCEPT !.index = index,
                 !.cache = SelectSeq(@, LAMBDA item : item.idx <= Len(index)),
                 !.mixer = <<>>]

\* The mixer sees every frame again.
MixedAgain(st) ==
  FoldValues(LAMBDA acc, i :
    [FetchIndexed(acc, i).store EXCEPT !.mixer = UpdateDependencies(@, TRUE, Native(acc, i))],
    st, [i \in DOMAIN st.index |-> i])

\* Of several files.  (When no frame is left the code looks at the last item
\* of an empty index, which has no defined outcome and is left out.)
CloseLastFile ==
  /\ main = Idle
  /\ Len(Files) > 1
  /\ \E shorter \in {[store EXCEPT !.files = CloseLastOf(@)]} :
       IF HasSize(shorter.files)
       THEN /\ Shrunk(shorter).index # <<>>
            /\ store' = MixedAgain(Shrunk(shorter))
       ELSE store' = shorter
  /\ fetched' = NoAnswer
  /\ UNCHANGED <<flags, index_thread, threads, main>>

\* operator[]: Fetch begins by waiting as long as a thread may still index.
AskFor(idx) ==
  /\ main = Idle
  /\ main' = [Idle EXCEPT !.at = "wait", !.op = "Fetch", !.idx = idx]
  /\ fetched' = NoAnswer
  /\ UNCHANGED <<store, flags, index_thread, threads>>

Answer ==
  /\ main.at = "wait"
  /\ main.idx <= Len(store.index) \/ ~index_thread_active
  /\ \E got \in {Fetch(store, index_complete, main.idx)} :
       \E all \in {FetchAhead(got, index_thread_active, main.idx)} :
         /\ store' = all.store
         /\ index_complete' = all.complete
         /\ fetched' = [idx |-> main.idx, frame |-> all.frame]
  /\ main' = Idle
  /\ UNCHANGED <<index_thread_active, index_thread, threads>>

-----------------------------------------------------------------------------
(* PopulateIndex, run by thread t.                                          *)

\* "fast" skips everything but the event headers.
Start(t) ==
  /\ threads[t].at = "start"
  /\ threads' = [threads EXCEPT ![t].at = "check",
                                ![t].fast = Len(store.cache) < NBackward]
  /\ UNCHANGED <<store, flags, index_thread, main, fetched>>

\* The head of the loop, without the mutex.
Check(t) ==
  /\ threads[t].at = "check"
  /\ threads' = [threads EXCEPT ![t].at =
                   IF index_complete \/ threads[t].interrupted THEN "leave" ELSE "lock"]
  /\ UNCHANGED <<store, flags, index_thread, main, fetched>>

Reading(t) ==
  IF threads[t].pos = CurrentStreamPos(store.files)
  THEN NextFrame(store.files, threads[t].fast)
  ELSE AtStreamPos(store.files, threads[t].pos)

\* Mutant of FindEnd: nobody is told that the index is complete.
FindEndUnsaid(t) ==
  /\ threads[t].at = "lock"
  /\ ~main.locked
  /\ LET read == Reading(t)
     IN  /\ ~read.ok
         /\ store' = [store EXCEPT !.files = read.group]
  /\ threads' = [threads EXCEPT ![t].at = "leave"]
  /\ UNCHANGED <<flags, index_thread, main, fetched>>

\* The body of the loop: no frame, and the thread is done,
FindEnd(t) ==
  /\ threads[t].at = "lock"
  /\ ~main.locked
  /\ LET read == Reading(t)
     IN  /\ ~read.ok
         /\ store' = [store EXCEPT !.files = read.group]
         /\ index_complete' = (index_complete \/ HasSize(read.group))
  /\ threads' = [threads EXCEPT ![t].at = "leave"]
  /\ UNCHANGED <<index_thread_active, index_thread, main, fetched>>

\* The frame is read in full: its lineage is merged into it, for the cache.
Kept(st) ==
  With(Lineage(st.index, Len(st.index)), LAMBDA line :
    With(ToRead(st.cache, line), LAMBDA n :
      [st EXCEPT !.files = Moved(@, st.index, SubSeq(line, 2, n)),
                 !.cache = Remembered(st, line, n)]))

\* or a frame, which is appended to the index and goes to the cache if read
\* in full.
IndexFrame(t) ==
  /\ threads[t].at = "lock"
  /\ ~main.locked
  /\ \E read \in {Reading(t)} :
       /\ read.ok
       /\ \E appended \in {IndexAppend([store EXCEPT !.files = read.group],
                                       threads[t].pos, FrameRead(read.group))} :
            store' = IF threads[t].fast THEN appended ELSE Kept(appended)
       /\ threads' = [threads EXCEPT ![t].at = "check",
                                     ![t].pos = CurrentStreamPos(read.group),
                                     ![t].fast = @ \/ Len(store'.cache) >= NBackward]
  /\ UNCHANGED <<flags, index_thread, main, fetched>>

\* Mutant of Leave: the flag stays as it is.
LeaveSilently(t) ==
  /\ threads[t].at = "leave"
  /\ threads' = [threads EXCEPT ![t] = NoThread]
  /\ UNCHANGED <<store, flags, index_thread, main, fetched>>

\* The DeadMansSwitch flips the flag after the mutex was given up.
Leave(t) ==
  /\ threads[t].at = "leave"
  /\ index_thread_active' = ~index_thread_active
  /\ threads' = [threads EXCEPT ![t] = NoThread]
  /\ UNCHANGED <<store, index_complete, index_thread, main, fetched>>

-----------------------------------------------------------------------------

Client == \/ \E path \in Paths : AddFile(path)
          \/ CloseAllFiles
          \/ CloseOnlyFile
          \/ CloseLastFile
          \/ \E idx \in 1 .. MaxIndex : AskFor(idx)

Main == Join \/ Clear \/ Answer

PopulateIndex(t) == Start(t) \/ Check(t) \/ FindEnd(t) \/ IndexFrame(t) \/ Leave(t)

Next == Client \/ Main \/ \E t \in Threads : PopulateIndex(t)

\* Both threads get to run; the mutex is free again and again.
Spec == /\ Init /\ [][Next]_vars
        /\ WF_vars(Main)
        /\ \A t \in Threads : WF_vars(PopulateIndex(t))
-----------------------------------------------------------------------------
(* Properties.                                                              *)

\* All frames in the open files, one after the other.
AllFrames == FlattenSeq([i \in DOMAIN Files |-> Files[i].data])

\* What each should show: its own keys and those of the latest frame before it
\* of every other stream that is mixed into others.
LatestBefore(frames, i) ==
  {j \in 1 .. i - 1 :
     /\ frames[j].stop \notin Immiscible \cup {frames[i].stop}
     /\ \A k \in j + 1 .. i - 1 : frames[k].stop # frames[j].stop}

ContentOf(frames, i) == {frames[j] : j \in LatestBefore(frames, i) \cup {i}}

\* "The index stores the positions of frames in the stream, their type, and
\* parent" (steamshovel/public/shovelio/I3FrameSequence.h): for the frames
\* indexed so far, with the parent the latest frame mixed into each, in
\* whatever order files came and went and frames were asked for.  The cache is
\* bounded, has no frame twice, and none that survives the file it came from;
\* each was merged with its parents.
IndexAndCacheMatchFiles ==
  \A frames \in {AllFrames} :
    /\ Len(store.index) <= Len(frames)
    /\ \A i \in DOMAIN store.index :
         /\ store.index[i].pos = i - 1
         /\ store.index[i].stop = frames[i].stop
         /\ \A latest \in {LatestBefore(frames, i)} :
              IF latest = {} THEN store.index[i].parent = i
              ELSE /\ store.index[i].parent \in latest
                   /\ \A j \in latest : j <= store.index[i].parent
    /\ Len(store.cache) <= NBackward + NForward
    /\ \A i, j \in DOMAIN store.cache : store.cache[i].idx = store.cache[j].idx => i = j
    /\ \A i \in DOMAIN store.cache :
         /\ store.cache[i].idx \in DOMAIN store.index
         /\ store.cache[i].frame = ContentOf(frames, store.cache[i].idx)

\* A frame asked for by number is the one that reading the files in order
\* gives (as test_shovelio_I3FrameSequence.py compares them), whether it
\* came from the cache, the index or the file, before or after indexing.
\* There is none only beyond the end, or behind in a single-pass file.
FetchedInOrder ==
  \A frames \in {AllFrames} :
    fetched # NoAnswer =>
      IF fetched.frame = None
      THEN \/ fetched.idx > Len(frames)
           \/ \E i \in DOMAIN Files : /\ Files[i].type = "SinglePass"
                                      /\ fetched.idx <= Files[i].pos
      ELSE fetched.idx <= Len(frames) /\ fetched.frame = ContentOf(frames, fetched.idx)

\* IsIndexing says no only when every frame of every open file is indexed.
CompleteWhenSaid == index_complete /\ main.at # "clear" => Len(store.index) = Len(AllFrames)

\* "now only main thread is running" (I3FrameSequence.cpp): nobody else is
\* there when CloseAllFiles clears everything without the mutex.  Not so when a
\* file was added while a thread was on its way out: shovel_race.
OnlyMainThread == main.at = "clear" => Alive = {}

\* "Periodically release lock, so that main thread can run"
\* (I3FrameSequence.cpp): every call of the main thread comes back.
MainThreadRuns == main # Idle ~> main = Idle

\* Indexing ends, unless it waits for the reader of a single-pass file.
IndexingEnds ==
  ~index_complete ~>
    index_complete \/ \E i \in DOMAIN Files : Files[i].type = "SinglePass"
=============================================================================
