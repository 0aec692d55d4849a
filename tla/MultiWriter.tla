------------------------------ MODULE MultiWriter ------------------------------
(***************************************************************************)
(* dataio's I3MultiWriter with its base I3WriterBase, over the I3FileStager *)
(* that keeps its files: frames arrive one by one; those of the configured *)
(* streams are written, frames of droppable streams are held back until a  *)
(* frame arrives that may need them, and a file that has grown too large   *)
(* is closed, handed to the stager and followed by a new one, which begins *)
(* with copies of the latest metadata frames.  Readers use the same stager *)
(* at the same time.                                                       *)
(*                                                                         *)
(* A frame is its stream, its number of arrival, and whether the tray's    *)
(* configuration is in it; the frame the writer makes for the              *)
(* configuration has number 0.  Sizes are abstracted: a file in which      *)
(* something has reached the disk may or may not be over the limit.  A      *)
(* flush brings all of it to the disk, or nothing if the compressor holds  *)
(* it back until the stream is closed.                                     *)
(***************************************************************************)
EXTENDS FileStager

CONSTANTS Stops,      \* the streams of frames
          TrayInfo,   \* I3Frame::TrayInfo
          Simulation, \* I3Frame::Simulation
          Configs,    \* settings, [streams, dropOrphan, metadata, sync], with
                      \* the streams of the frames that arrive, arriving
          MaxFrames,  \* bound: frames that arrive
          Writer      \* the writer, as a client of the stager

ASSUME StopsAssumption ==
    /\ TrayInfo \in Stops
    /\ \A setting \in Configs : setting.arriving \subseteq Stops

\* Every file has a URL, the writer is a client; files are made of frames.
ASSUME FilesAssumption ==
    /\ MaxFrames \in Nat /\ 1 .. MaxFrames + 1 \subseteq Urls
    /\ Writer \in Clients
    /\ Items = [stop : Stops, id : 0 .. MaxFrames, config : BOOLEAN]

VARIABLES config,          \* the module's parameters
          pc,              \* what the writer is about to do
          input,           \* the frames that have arrived
          configWritten, orphanarium, metadata_cache, sync_seen,
          files            \* what went into the stream of each file

vars == <<stagerVars, config, pc, input, configWritten, orphanarium,
          metadata_cache, sync_seen, files>>
module == <<configWritten, orphanarium, metadata_cache, sync_seen>>

Frames == [stop : Stops, id : 0 .. MaxFrames, config : BOOLEAN]
ConfigFrame == [stop |-> TrayInfo, id |-> 0, config |-> TRUE]

Wanted(s) == config.streams = {} \/ s \in config.streams
Orphanable(s) == s \in config.dropOrphan
Needy(s) == Wanted(s) /\ ~Orphanable(s) /\ s \notin {TrayInfo, Simulation}

file_counter == Len(files)
Frame == Last(input)
Content(n) == files[n].head \o files[n].body

Init ==
    /\ remote = [u \in Urls |-> None]
    /\ StagerInit
    /\ config \in Configs
    /\ pc = "opening"
    /\ input = <<>>
    /\ configWritten = FALSE
    /\ orphanarium = <<>>
    /\ metadata_cache = <<>>
    /\ sync_seen = FALSE
    /\ files = <<>>

-----------------------------------------------------------------------------
(* NewFile, which Configure_ and a split call: the new handle is there      *)
(* before the old one is let go of.                                         *)
OpenNext ==
    /\ pc = "opening"
    /\ GetWriteablePath(Writer, file_counter + 1)
    /\ pc' = IF file_counter = 0 THEN "heading" ELSE "releasing"
    /\ UNCHANGED <<config, input, module, files>>

ReleaseOld ==
    /\ pc = "releasing"
    /\ Release(Writer, file_counter)
    /\ pc' = "heading"
    /\ UNCHANGED <<config, input, module, files>>

OnDisk(n, content) ==
    /\ Free
    /\ local' = [local EXCEPT ![n] = content]
    /\ UNCHANGED <<remote, handle, asked, download, retries, running>>

WriteHead ==
    /\ pc = "heading"
    /\ files' = Append(files, [head |-> metadata_cache, body |-> <<>>])
    /\ OnDisk(file_counter + 1, <<>>)
    /\ pc' = IF input = <<>> THEN "idle" ELSE "processing"
    /\ UNCHANGED <<config, input, module>>

-----------------------------------------------------------------------------
(* Process, up to the question whether the file is full: the flush may      *)
(* bring everything to disk or nothing more.                                *)
\* Mutant of Split: any frame may begin a file.
SplitAnywhere(s, over) == over

Split(s, over) == over /\ (s = config.sync \/ ~sync_seen')

\* Mutant of Arrive: the stream is not closed before the next file.
ArriveUnclosed(s) ==
    /\ pc = "idle"
    /\ Len(input) < MaxFrames
    /\ input' = Append(input, [stop |-> s, id |-> Len(input) + 1, config |-> FALSE])
    /\ sync_seen' = (sync_seen \/ s = config.sync)
    /\ \E content \in {local[file_counter], Content(file_counter)}, over \in BOOLEAN :
         /\ over => content # <<>>
         /\ pc' = IF Split(s, over) THEN "opening" ELSE "processing"
         /\ OnDisk(file_counter, content)
    /\ UNCHANGED <<config, configWritten, orphanarium, metadata_cache, files>>

Arrive(s) ==
    /\ pc = "idle"
    /\ Len(input) < MaxFrames
    /\ input' = Append(input, [stop |-> s, id |-> Len(input) + 1, config |-> FALSE])
    /\ sync_seen' = (sync_seen \/ s = config.sync)
    /\ \E content \in {local[file_counter], Content(file_counter)}, over \in BOOLEAN :
         /\ over => content # <<>>
         /\ IF Split(s, over)
              THEN /\ pc' = "opening"
                   /\ OnDisk(file_counter, Content(file_counter))
              ELSE /\ pc' = "processing"
                   /\ OnDisk(file_counter, content)
    /\ UNCHANGED <<config, configWritten, orphanarium, metadata_cache, files>>

\* A frame takes the place of the one of its stream, or is put at the end.
Kept(kept, f) ==
    IF \E i \in DOMAIN kept : kept[i].stop = f.stop
      THEN [i \in DOMAIN kept |-> IF kept[i].stop = f.stop THEN f ELSE kept[i]]
      ELSE Append(kept, f)

CacheMetadata ==
    metadata_cache' = IF Frame.stop \in config.metadata /\ Wanted(Frame.stop)
                        THEN Kept(metadata_cache, Frame)
                        ELSE metadata_cache

\* WriteConfig: into the frame at hand, or as a frame of its own before it.
Configures == ~configWritten /\ Wanted(TrayInfo)
ConfigPrefix == IF Configures /\ Frame.stop # TrayInfo THEN <<ConfigFrame>> ELSE <<>>
Current == [Frame EXCEPT !.config = Configures /\ Frame.stop = TrayInfo]

Save(frames) ==
    files' = [files EXCEPT ![file_counter].body = @ \o (ConfigPrefix \o frames)]

Processing ==
    /\ pc = "processing"
    /\ Free
    /\ CacheMetadata
    /\ configWritten' = TRUE
    /\ pc' = "idle"
    /\ UNCHANGED <<stagerVars, config, input, sync_seen>>

Skip ==
    /\ Processing
    /\ ~Wanted(Frame.stop)
    /\ Save(<<>>)
    /\ UNCHANGED orphanarium

HoldBack ==
    /\ Processing
    /\ Wanted(Frame.stop) /\ Orphanable(Frame.stop)
    /\ orphanarium' = Kept(orphanarium, Current)
    /\ Save(<<>>)

\* Mutant of WriteFrame: the frames held back are not cleared.
WriteFrameUncleared ==
    /\ Processing
    /\ Wanted(Frame.stop) /\ ~Orphanable(Frame.stop)
    /\ IF Needy(Frame.stop) THEN Save(Append(orphanarium, Current))
                            ELSE Save(<<Current>>)
    /\ UNCHANGED orphanarium

WriteFrame ==
    /\ Processing
    /\ Wanted(Frame.stop) /\ ~Orphanable(Frame.stop)
    /\ IF Needy(Frame.stop)
         THEN /\ Save(Append(orphanarium, Current))
              /\ orphanarium' = <<>>
         ELSE /\ Save(<<Current>>)
              /\ UNCHANGED orphanarium

-----------------------------------------------------------------------------
(* Finish closes the stream and lets go of the file; an empty one goes.     *)
CloseLast ==
    /\ pc = "idle"
    /\ OnDisk(file_counter, IF Content(file_counter) = <<>>
                              THEN None ELSE Content(file_counter))
    /\ pc' = "finishing"
    /\ UNCHANGED <<config, input, module, files>>

Finish ==
    /\ pc = "finishing"
    /\ Release(Writer, file_counter)
    /\ pc' = "finished"
    /\ UNCHANGED <<config, input, module, files>>

\* The tray goes without a call of Finish, after an exception: the handle is
\* destroyed before the stream, with what has reached the disk by then.
Destroy ==
    /\ pc = "idle"
    /\ Release(Writer, file_counter)
    /\ pc' = "destroyed"
    /\ UNCHANGED <<config, input, module, files>>

\* Others read through the same stager, between the calls of the writer; what
\* they read was begun at least.
Readers == Clients \ {Writer}

ReadFiles ==
    /\ pc \in {"idle", "finished", "destroyed"}
    /\ \/ Transfer
       \/ \E r \in Readers, u \in 1 .. file_counter : ReaderStep(r, u)
    /\ UNCHANGED <<config, pc, input, module, files>>

Next ==
    \/ OpenNext \/ ReleaseOld \/ WriteHead
    \/ \E s \in config.arriving : Arrive(s)
    \/ Skip \/ HoldBack \/ WriteFrame
    \/ CloseLast \/ Finish \/ Destroy
    \/ ReadFiles

Spec == Init /\ [][Next]_vars /\ WF_vars(Transfer /\ ReadFiles)

-----------------------------------------------------------------------------
Concat(left, right) == left \o right
Joining == INSTANCE SeqFold WITH Op <- Concat

\* What the first files hold, as if written into one; and all of them.
Before(n) == Joining!Fold(<<>>, [m \in 1 .. n - 1 |-> files[m].body])
Saved == Before(file_counter + 1)

\* The frames Process has finished with.
Taken == IF input # <<>> /\ pc \in {"opening", "releasing", "heading", "processing"}
           THEN Front(input) ELSE input

-----------------------------------------------------------------------------
(* What should be written, said of the whole input at once: frames of       *)
(* droppable streams only if a frame that may need them comes before the    *)
(* next one of their stream, and then before this one.                      *)
NeedyBetween(frames, i, j) == \E k \in i + 1 .. j - 1 : Needy(frames[k].stop)

Adopts(frames, i, j) ==
    /\ i < j
    /\ Wanted(frames[i].stop) /\ Orphanable(frames[i].stop)
    /\ Needy(frames[j].stop) /\ ~NeedyBetween(frames, i, j)
    /\ \A k \in i + 1 .. j - 1 : frames[k].stop # frames[i].stop

\* The frame with which another, or it itself, is written.
WrittenWith(frames, i, j) ==
    \/ i = j /\ Wanted(frames[j].stop) /\ ~Orphanable(frames[j].stop)
    \/ Adopts(frames, i, j)

\* The place of an adopted frame: where its stream first came up.
IsPlace(frames, k, i) ==
    /\ frames[k].stop = frames[i].stop /\ ~NeedyBetween(frames, k, i)
    /\ \A l \in 1 .. k - 1 :
         frames[l].stop = frames[i].stop => NeedyBetween(frames, l, i)
EarlierPlace(frames, i, h) ==
    \E k \in 1 .. i, l \in 1 .. h :
      IsPlace(frames, k, i) /\ IsPlace(frames, l, h) /\ k < l

\* The configuration, which has no number, is first; then come the frames in
\* the order of those they are written with, the adopted ones before these.
Precedes(frames, i, h) ==
    \/ i = 0 /\ h # 0
    \/ i \in DOMAIN frames /\ h \in DOMAIN frames
       /\ \E j, k \in DOMAIN frames :
            /\ WrittenWith(frames, i, j) /\ WrittenWith(frames, h, k)
            /\ j < k \/ (j = k /\ i # k /\ (h = k \/ EarlierPlace(frames, i, h)))

ToBeWritten(frames) ==
    {i \in DOMAIN frames : \E j \in DOMAIN frames : WrittenWith(frames, i, j)}
      \cup {i \in {0} : frames # <<>> /\ Wanted(TrayInfo) /\ frames[1].stop # TrayInfo}

\* The files hold together exactly what one file would: splitting loses,
\* repeats and reorders nothing, whatever was held back at the time; and the
\* tray's configuration is in the first frame of all.
WrittenAsOneFile ==
    \E saved \in {Saved} :
      /\ {saved[x].id : x \in DOMAIN saved} = ToBeWritten(Taken)
      /\ \A x, y \in DOMAIN saved : x < y => Precedes(Taken, saved[x].id, saved[y].id)
      /\ saved # <<>> /\ Wanted(TrayInfo) => saved[1].config

-----------------------------------------------------------------------------
\* The place of the last frame of a stream, 0 without any.
LastOf(frames, s) ==
    CHOOSE i \in 0 .. Len(frames) :
      /\ i > 0 => frames[i].stop = s
      /\ \A j \in i + 1 .. Len(frames) : frames[j].stop # s

LatestIn(frames, s) ==
    IF LastOf(frames, s) = 0 THEN 0 ELSE frames[LastOf(frames, s)].id

\* Each file can be read without the ones before it: every frame finds in its
\* own file the metadata and the sync frame it would find in one long file.
SelfContained ==
    \A n \in DOMAIN files : \A k \in DOMAIN files[n].body :
      files[n].body[k].stop \notin {TrayInfo, Simulation} =>
        LET upto == SubSeq(files[n].body, 1, k)
        IN  \A s \in config.metadata \cup {config.sync} :
              LatestIn(files[n].head \o upto, s) = LatestIn(Before(n) \o upto, s)

\* What has arrived under a URL is the whole file: the stream was closed before
\* its handle was let go of.  Only the file that was open when the tray went
\* without Finish may be cut off.
UploadsComplete ==
    running => \A n \in DOMAIN files :
      remote[n] # None =>
        IF pc = "destroyed" /\ n = file_counter
          THEN IsPrefix(remote[n], Content(n)) ELSE remote[n] = Content(n)

\* A file that was closed is never without a complete copy, under its URL or as
\* the scratch file: not during the upload, and not when the upload fails.
NothingLost ==
    \A n \in DOMAIN files :
      \/ n = file_counter /\ pc \in {"idle", "processing", "destroyed"}
      \/ Content(n) \in {remote[n], local[n], <<>>}
=============================================================================
