-------------------------- MODULE MultiWriterProofs --------------------------
(***************************************************************************)
(* Proofs about FileStager, and about MultiWriter composed with it, for    *)
(* any URLs, clients, contents, settings and frames: as long as nobody     *)
(* asks to read the file that is being written, handles are what their     *)
(* holders take them for, a reader has the file or one of the two things   *)
(* that a cut can leave of it, and what is written ends up under its URL.  *)
(* What is in the files does not depend on that: together what one file    *)
(* would hold, and each readable by itself, as long as the settings do not *)
(* hold back what they should not.                                         *)
(***************************************************************************)
EXTENDS MultiWriter, TLAPS

-----------------------------------------------------------------------------
(* The stager: the lemmas speak of single actions, for the writer too.      *)

Contents == {None} \cup Seq(Items)

HandlesTyped ==
    /\ handle \in [Urls -> Uses]
    /\ asked \in [Urls -> [Clients -> Uses]]
    /\ download \in {None} \cup Downloads
    /\ retries \in [Urls -> 0 .. Retry]
    /\ running \in BOOLEAN
FilesTyped ==
    /\ local \in [Urls -> Contents]
    /\ remote \in [Urls -> Contents]

\* A download is of a URL without handle, and has attempts left.
DownloadAlone ==
    download # None => handle[download.url] = "none" /\ retries[download.url] > 0

\* What is in the scratch file of a handle made for reading.
ReadWhole ==
    \A u \in Urls : handle[u] = "read" =>
      \/ HasAll(u)
      \/ u \notin Tells /\ local[u] # None /\ IsPrefix(local[u], remote[u])
      \/ u \in Tells /\ local[u] = None /\ retries[u] = 0

StagerInv ==
    HandlesTyped /\ FilesTyped /\ HandlesMatch /\ DownloadAlone /\ ReadWhole /\ ScratchHeld

-----------------------------------------------------------------------------
LEMMA PrefixOK ==
  ASSUME NEW S, NEW s \in Seq(S), NEW t \in Seq(S)
  PROVE  IsPrefix(s, t) <=> Len(s) <= Len(t) /\ \A i \in 1 .. Len(s) : s[i] = t[i]
<1>1. CASE Len(s) <= Len(t)
  <2> DEFINE a == SubSeq(s, 1, Len(s))  b == SubSeq(t, 1, Len(s))
  <2>1. /\ a \in Seq(S) /\ Len(a) = Len(s) /\ \A i \in 1 .. Len(s) : a[i] = s[i]
        /\ b \in Seq(S) /\ Len(b) = Len(s) /\ \A i \in 1 .. Len(s) : b[i] = t[i]
    BY <1>1
  <2>2. a = b <=> \A i \in 1 .. Len(s) : a[i] = b[i]
    BY <2>1
  <2> HIDE DEF a, b
  <2>3. a = b <=> \A i \in 1 .. Len(s) : s[i] = t[i]
    BY <2>1, <2>2
  <2> QED BY <1>1, <2>3 DEF IsPrefix, a, b
<1>2. CASE ~(Len(s) <= Len(t))
  BY <1>2 DEF IsPrefix
<1> QED BY <1>1, <1>2

\* The piece of a file that arrives is a beginning of it.
LEMMA FrontOK ==
  ASSUME NEW S, NEW t \in Seq(S), t # <<>>
  PROVE  Front(t) \in Seq(S) /\ IsPrefix(Front(t), t)
<1> DEFINE n == Len(t) - 1  f == SubSeq(t, 1, n)
<1>1. n \in Nat /\ n <= Len(t)
  OBVIOUS
<1> HIDE DEF n
<1>2. f \in Seq(S) /\ Len(f) = n /\ \A i \in 1 .. n : f[i] = t[i]
  BY <1>1
<1>3. Front(t) = f
  BY DEF Front, n, f
<1> HIDE DEF f
<1> QED BY <1>1, <1>2, <1>3, PrefixOK

\* Somebody more holds a handle that was made for what he asks for.
LEMMA ShareHandleOK ==
  ASSUME NEW c \in Clients, NEW u \in Urls, NEW use \in {"read", "write"},
         ~Mixed, StagerInv, ShareHandle(c, u, use)
  PROVE  StagerInv'
<1> USE DEF StagerInv, HandlesTyped, FilesTyped, ShareHandle, Ask, Uses
<1>1. HandlesTyped' /\ FilesTyped' /\ DownloadAlone' /\ ReadWhole' /\ ScratchHeld'
  BY DEF DownloadAlone, ReadWhole, HasAll, ScratchHeld
<1>2. HandlesMatch'
  BY DEF HandlesMatch
<1> QED BY <1>1, <1>2

LEMMA StartDownloadOK ==
  ASSUME NEW c \in Clients, NEW u \in Urls, StagerInv, StartDownload(c, u)
  PROVE  StagerInv'
<1> USE DEF StagerInv, HandlesTyped, FilesTyped, StartDownload
<1>1. [url |-> u, client |-> c] \in Downloads /\ Retry \in 0 .. Retry /\ Retry > 0
  BY RetryAssumption DEF Downloads
<1>2. HandlesTyped' /\ FilesTyped' /\ DownloadAlone'
  BY <1>1 DEF DownloadAlone
<1>3. HandlesMatch' /\ ReadWhole' /\ ScratchHeld'
  BY DEF HandlesMatch, ReadWhole, HasAll, ScratchHeld
<1> QED BY <1>2, <1>3

\* The call returns: its caller has the only handle, with what came in.
LEMMA HandOverOK ==
  ASSUME StagerInv, NEW v \in Urls, NEW d \in Clients, running,
         handle[v] = "none", handle' = [handle EXCEPT ![v] = "read"],
         asked' = [asked EXCEPT ![v][d] = "read"], download' = None,
         UNCHANGED <<remote, running>>,
         retries' \in [Urls -> 0 .. Retry],
         \A u \in Urls \ {v} : retries'[u] = retries[u],
         NEW content \in Contents, local' = [local EXCEPT ![v] = content],
         \/ content # None /\ content = remote[v]
         \/ v \notin Tells /\ content # None /\ IsPrefix(content, remote[v])
         \/ v \in Tells /\ content = None /\ retries'[v] = 0
  PROVE  StagerInv'
<1> USE DEF StagerInv, HandlesTyped, FilesTyped
<1>1. HandlesTyped' /\ FilesTyped' /\ DownloadAlone'
  BY DEF Uses, DownloadAlone
<1>2. HandlesMatch'
  BY DEF HandlesMatch, Uses
<1>3. ReadWhole' /\ ScratchHeld'
  BY DEF ReadWhole, HasAll, ScratchHeld
<1> QED BY <1>1, <1>2, <1>3

LEMMA TransferOK ==
  ASSUME StagerInv, Transfer
  PROVE  StagerInv'
<1> USE DEF StagerInv, HandlesTyped, FilesTyped
<1> DEFINE v == download.url  d == download.client
<1>1. /\ running /\ v \in Urls /\ d \in Clients
      /\ handle[v] = "none" /\ local[v] = None /\ retries[v] \in 1 .. Retry
  BY RetryAssumption DEF Transfer, Received, CutShort, CutNoticed, CutUnnoticed, Cut,
     DownloadFails, DownloadAlone, Downloads, ScratchHeld
<1> HIDE DEF v, d
<1>2. CASE Received \/ CutUnnoticed
  <2>1. PICK content \in Contents :
          /\ Receive(content) /\ content # None
          /\ content = remote[v] \/ (v \notin Tells /\ IsPrefix(content, remote[v]))
    <3>1. CASE Received
      BY <1>1, <3>1 DEF Received, v
    <3>2. CASE CutUnnoticed
      <4>1. v \notin Tells /\ Receive(Front(remote[v])) /\ remote[v] \notin {None, <<>>}
        BY <3>2 DEF CutUnnoticed, Cut, v
      <4>2. Front(remote[v]) \in Seq(Items) /\ IsPrefix(Front(remote[v]), remote[v])
        BY <1>1, <4>1, FrontOK DEF Contents
      <4> QED BY <4>1, <4>2, NoneAssumption DEF Contents
    <3> QED BY <1>2, <3>1, <3>2
  <2>2. /\ local' = [local EXCEPT ![v] = content] /\ UNCHANGED <<remote, retries, running>>
        /\ handle' = [handle EXCEPT ![v] = "read"]
        /\ asked' = [asked EXCEPT ![v][d] = "read"] /\ download' = None
    BY <2>1 DEF Receive, HandOver, Ask, v, d
  <2>3. retries' \in [Urls -> 0 .. Retry] /\ \A u \in Urls \ {v} : retries'[u] = retries[u]
    BY <2>2
  <2> QED BY <1>1, <2>1, <2>2, <2>3, HandOverOK
<1>3. CASE CutNoticed
  <2>1. /\ v \in Tells /\ retries' = [retries EXCEPT ![v] = @ - 1]
        /\ UNCHANGED <<remote, local, running>>
    BY <1>3 DEF CutNoticed, v
  <2>2. /\ retries' \in [Urls -> 0 .. Retry] /\ retries'[v] = retries[v] - 1
        /\ \A u \in Urls \ {v} : retries'[u] = retries[u]
    BY <1>1, <2>1, RetryAssumption
  <2>3. CASE retries'[v] > 0
    <3>1. UNCHANGED <<handle, asked, download>>
      BY <1>3, <2>3 DEF CutNoticed, v
    <3>2. HandlesTyped' /\ FilesTyped' /\ HandlesMatch' /\ ScratchHeld' /\ DownloadAlone'
      BY <2>1, <2>2, <2>3, <3>1 DEF HandlesMatch, ScratchHeld, DownloadAlone, v
    <3>3. ReadWhole'
      BY <1>1, <2>1, <2>2, <3>1 DEF ReadWhole, HasAll
    <3> QED BY <3>2, <3>3
  <2>4. CASE ~(retries'[v] > 0)
    <3>1. /\ handle' = [handle EXCEPT ![v] = "read"]
          /\ asked' = [asked EXCEPT ![v][d] = "read"] /\ download' = None
      BY <1>3, <2>4 DEF CutNoticed, HandOver, Ask, v, d
    <3>2. local' = [local EXCEPT ![v] = None] /\ None \in Contents
      BY <1>1, <2>1 DEF Contents
    <3>3. retries'[v] = 0
      BY <1>1, <2>2, <2>4
    <3> QED BY <1>1, <2>1, <2>2, <3>1, <3>2, <3>3, HandOverOK
  <2> QED BY <2>3, <2>4
<1>4. CASE DownloadFails
  <2>1. /\ download' = None /\ retries' = [retries EXCEPT ![v] = Retry]
        /\ UNCHANGED <<remote, local, handle, asked, running>>
    BY <1>4 DEF DownloadFails, v
  <2>2. HandlesTyped'
    <3>1. Retry \in 0 .. Retry
      BY RetryAssumption
    <3> QED BY <1>1, <2>1, <3>1
  <2>3. FilesTyped' /\ HandlesMatch' /\ ScratchHeld' /\ DownloadAlone'
    BY <2>1 DEF HandlesMatch, ScratchHeld, DownloadAlone
  <2>4. ReadWhole'
    BY <1>1, <2>1 DEF ReadWhole, HasAll
  <2> QED BY <2>2, <2>3, <2>4
<1> QED BY <1>2, <1>3, <1>4 DEF Transfer, CutShort

LEMMA MakeWriteableOK ==
  ASSUME NEW c \in Clients, NEW u \in Urls, StagerInv, MakeWriteable(c, u)
  PROVE  StagerInv'
<1> USE DEF StagerInv, HandlesTyped, FilesTyped, MakeWriteable, Ask, Uses, Free
<1>1. HandlesTyped' /\ FilesTyped' /\ DownloadAlone' /\ ReadWhole' /\ ScratchHeld'
  BY DEF DownloadAlone, ReadWhole, HasAll, ScratchHeld
<1>2. HandlesMatch'
  BY DEF HandlesMatch
<1> QED BY <1>1, <1>2

\* Letting go, as the last or not, with whatever becomes of the files of u.
LEMMA ReleaseOK ==
  ASSUME NEW c \in Clients, NEW u \in Urls, StagerInv, Release(c, u)
  PROVE  StagerInv'
<1> USE DEF StagerInv, HandlesTyped, FilesTyped, LetGo, Ask, Free
<1>1. CASE DropReference(c, u)
  <2>1. HandlesTyped' /\ FilesTyped' /\ DownloadAlone' /\ ReadWhole' /\ ScratchHeld'
    BY <1>1 DEF DropReference, Uses, DownloadAlone, ReadWhole, HasAll, ScratchHeld
  <2>2. HandlesMatch'
    BY <1>1 DEF DropReference, Others, Uses, HandlesMatch
  <2> QED BY <2>1, <2>2
<1>2. CASE RemoveCopy(c, u) \/ Upload(c, u) \/ UploadFails(c, u)
  <2>1. /\ download = None /\ download' = None /\ running' \in BOOLEAN
        /\ \A d \in Clients \ {c} : asked[u][d] = "none"
        /\ asked' = [asked EXCEPT ![u][c] = "none"]
        /\ handle' = [handle EXCEPT ![u] = "none"]
        /\ retries' \in {retries, [retries EXCEPT ![u] = Retry]}
        /\ \A v \in Urls \ {u} : local'[v] = local[v] /\ remote'[v] = remote[v]
        /\ running' => local'[u] = None
    BY <1>2 DEF RemoveCopy, Upload, UploadFails, Others, Uses
  <2>2. FilesTyped'
    <3>1. local[u] # <<>> /\ local[u] # None => Front(local[u]) \in Contents
      BY FrontOK DEF Contents
    <3> QED BY <1>2, <3>1 DEF RemoveCopy, Upload, UploadFails, Contents
  <2>3. HandlesTyped' /\ DownloadAlone'
    BY <2>1, RetryAssumption DEF Uses, DownloadAlone
  <2>4. ReadWhole' /\ ScratchHeld'
    BY <2>1, <1>2 DEF ReadWhole, HasAll, ScratchHeld, RemoveCopy, Upload, UploadFails
  <2>5. HandlesMatch'
    BY <2>1 DEF HandlesMatch, Uses
  <2> QED BY <2>2, <2>3, <2>4, <2>5
<1> QED BY <1>1, <1>2 DEF Release

\* The scratch file of a URL that is asked for to write may change.
LEMMA ScratchOK ==
  ASSUME NEW u \in Urls, StagerInv, handle[u] = "write",
         NEW content \in Contents, local' = [local EXCEPT ![u] = content],
         UNCHANGED <<remote, handle, asked, download, retries, running>>
  PROVE  StagerInv'
BY DEF StagerInv, HandlesTyped, FilesTyped, HandlesMatch, DownloadAlone, ReadWhole, HasAll,
       ScratchHeld

-----------------------------------------------------------------------------
(* The stager with any clients.                                             *)

LEMMA StagerInit_Inv == StagerInit => StagerInv
<1> SUFFICES ASSUME StagerInit PROVE StagerInv
  OBVIOUS
<1> USE DEF StagerInit
<1>1. HandlesTyped
  BY RetryAssumption DEF HandlesTyped, Uses
<1>2. FilesTyped
  <2>1. ASSUME NEW s \in [1 .. 1 -> Items]  PROVE s \in Seq(Items)
    <3>1. DOMAIN s = 1 .. 1 /\ s[1] \in Items
      OBVIOUS
    <3>2. s = <<s[1]>>
      <4> DEFINE t == <<s[1]>>
      <4>1. DOMAIN t = 1 .. 1 /\ t[1] = s[1]
        OBVIOUS
      <4>2. \A i \in 1 .. 1 : i = 1
        OBVIOUS
      <4>3. s = [i \in 1 .. 1 |-> s[i]] /\ t = [i \in 1 .. 1 |-> t[i]]
        BY <4>1
      <4> HIDE DEF t
      <4>4. s = t
        BY <4>1, <4>2, <4>3
      <4> QED BY <4>4, Zenon DEF t
    <3>3. \A x \in Items : <<x>> \in Seq(Items)
      OBVIOUS
    <3> QED BY <3>1, <3>2, <3>3, Zenon
  <2> QED BY <2>1 DEF FilesTyped, Contents
<1>3. HandlesMatch /\ DownloadAlone /\ ReadWhole /\ ScratchHeld
  BY DEF HandlesMatch, DownloadAlone, ReadWhole, ScratchHeld
<1> QED BY <1>1, <1>2, <1>3 DEF StagerInv

LEMMA StagerNext_Inv ==
  ASSUME ~Mixed, StagerInv, [StagerNext]_stagerVars
  PROVE  StagerInv'
<1>1. CASE Transfer
  BY <1>1, TransferOK
<1>2. ASSUME NEW c \in Clients, NEW u \in Urls, ReaderStep(c, u) \/ WriterStep(c, u)
      PROVE  StagerInv'
  <2>1. CASE StartDownload(c, u)
    BY <2>1, StartDownloadOK
  <2>2. CASE \E use \in {"read", "write"} : ShareHandle(c, u, use)
    BY <2>2, ShareHandleOK
  <2>3. CASE MakeWriteable(c, u)
    BY <2>3, MakeWriteableOK
  <2>4. CASE Release(c, u)
    BY <2>4, ReleaseOK
  <2>5. CASE \E item \in Items : WriteItem(c, u, item)
    <3>1. handle[u] = "write"
      BY <2>5 DEF WriteItem, StagerInv, HandlesMatch
    <3>2. PICK item \in Items : WriteItem(c, u, item)
      BY <2>5
    <3> DEFINE content == IF local[u] = None THEN <<item>> ELSE Append(local[u], item)
    <3>3. content \in Contents /\ local' = [local EXCEPT ![u] = content]
      BY <3>2 DEF WriteItem, StagerInv, FilesTyped, Contents
    <3>4. UNCHANGED <<remote, handle, asked, download, retries, running>>
      BY <3>2 DEF WriteItem
    <3> QED BY <3>1, <3>3, <3>4, ScratchOK
  <2> QED BY <1>2, <2>1, <2>2, <2>3, <2>4, <2>5 DEF ReaderStep, WriterStep, GetWriteablePath
<1>3. CASE UNCHANGED stagerVars
  BY <1>3 DEF stagerVars, StagerInv, HandlesTyped, FilesTyped, HandlesMatch,
              DownloadAlone, ReadWhole, HasAll, ScratchHeld
<1> QED BY <1>1, <1>2, <1>3 DEF StagerNext

\* A handle is there while somebody holds it and was made for what its holders
\* asked for, and who reads has the whole file, or a piece if no length was
\* stated, or none if every attempt was seen to be cut short, whatever the other
\* holders do: for any clients that do not read what is being written.
THEOREM StagerHandles ==
  ASSUME ~Mixed
  PROVE  StagerSpec => [](HandlesMatch /\ ReadersSeeRemote)
<1>1. StagerInv => HandlesMatch /\ ReadersSeeRemote
  BY DEF StagerInv, HandlesMatch, ReadWhole, ReadersSeeRemote
<1> QED BY <1>1, StagerInit_Inv, StagerNext_Inv, PTL DEF StagerSpec

\* Cleanup and StageFileOut leave no scratch file behind.
THEOREM StagerScratchHeld ==
  ASSUME ~Mixed
  PROVE  StagerSpec => []ScratchHeld
<1>1. StagerInv => ScratchHeld
  BY DEF StagerInv
<1> QED BY <1>1, StagerInit_Inv, StagerNext_Inv, PTL DEF StagerSpec

\* ~filehandle and StageFileOut: the last to let go of a file that was written
\* has it uploaded, all of it, or the process ends.
THEOREM StagerUploads ==
  ASSUME ~Mixed
  PROVE  StagerSpec => UploadedOnRelease
<1> DEFINE Uploaded == \A u \in Urls :
         /\ running' /\ handle[u] # "none" /\ handle'[u] = "none"
         /\ \E c \in Clients : asked[u][c] = "write"
         /\ local[u] # None
         => remote'[u] = local[u]
<1>1. ASSUME StagerInv, [StagerNext]_stagerVars PROVE [Uploaded]_stagerVars
  <2> SUFFICES ASSUME NEW u \in Urls, running', handle[u] # "none", handle'[u] = "none",
                      NEW c \in Clients, asked[u][c] = "write", local[u] # None
               PROVE  remote'[u] = local[u]
    BY DEF Uploaded
  <2> USE <1>1 DEF StagerInv, HandlesTyped, FilesTyped
  <2>1. handle[u] = "write"
    BY DEF HandlesMatch
  <2>2. ~Transfer
    BY DEF Transfer, Received, Receive, CutShort, CutNoticed, CutUnnoticed, DownloadFails, HandOver
  <2>3. PICK d \in Clients, v \in Urls : ReaderStep(d, v) \/ WriterStep(d, v)
    BY <1>1, <2>2 DEF StagerNext, stagerVars
  <2>4. RemoveCopy(d, v) \/ Upload(d, v)
    BY <2>3 DEF ReaderStep, WriterStep, StartDownload, ShareHandle, GetWriteablePath, MakeWriteable,
                WriteItem, Release, DropReference, UploadFails
  <2>5. v = u
    BY <2>4 DEF RemoveCopy, Upload
  <2>6. Upload(d, u)
    BY <2>1, <2>4, <2>5 DEF RemoveCopy
  <2> QED BY <2>6 DEF Upload
<1>2. StagerInit => StagerInv
  BY StagerInit_Inv
<1> HIDE DEF Uploaded
<1>3. StagerSpec => [][Uploaded]_stagerVars
  BY <1>1, <1>2, StagerNext_Inv, PTL DEF StagerSpec
<1> QED BY <1>3 DEF UploadedOnRelease, Uploaded

-----------------------------------------------------------------------------
(* The writer over the stager: the types and the handles it holds.          *)

Files == [head : Seq(Frames), body : Seq(Frames)]

ModuleTyped ==
    /\ config \in Configs
    /\ pc \in {"opening", "releasing", "heading", "idle", "processing",
               "finishing", "finished", "destroyed"}
    /\ input \in Seq(Frames)
    /\ orphanarium \in Seq(Frames) /\ metadata_cache \in Seq(Frames)
    /\ configWritten \in BOOLEAN
    /\ files \in Seq(Files)

\* A file begins with a frame, apart from the first: there are URLs enough.
BetweenFiles == pc \in {"opening", "releasing", "heading"}
Room ==
    /\ Len(input) <= MaxFrames
    /\ Len(files) <= Len(input) + (IF BetweenFiles THEN 0 ELSE 1)
    /\ ~BetweenFiles => Len(files) >= 1
    /\ pc = "releasing" => Len(files) >= 1
    /\ pc = "processing" => Len(input) >= 1

\* What the writer holds: the file it writes, and between two files the one
\* it comes from, the one it goes to, or both.
Held ==
    {n \in {file_counter} : n >= 1 /\ pc \in {"opening", "releasing", "idle", "processing", "finishing"}}
    \cup {n \in {file_counter + 1} : pc \in {"releasing", "heading"}}
WriterHolds == \A u \in Urls : asked[u][Writer] = IF u \in Held THEN "write" ELSE "none"
ReadersRead ==
    /\ \A u \in Urls : \A c \in Readers : asked[u][c] # "write"
    /\ download # None => download.client # Writer

Base == StagerInv /\ ModuleTyped /\ Room /\ WriterHolds /\ ReadersRead

LEMMA HeldOK ==
  ASSUME Base
  PROVE  /\ file_counter \in Nat
         /\ Held \subseteq Urls /\ Held \subseteq Nat \ {0}
         /\ \A u \in Held : handle[u] = "write" /\ asked[u][Writer] = "write"
                            /\ \A c \in Readers : asked[u][c] = "none"
         /\ BetweenFiles => file_counter + 1 \in Urls
<1> USE FilesAssumption DEF Base, ModuleTyped, Room, BetweenFiles, file_counter
<1>1. file_counter \in Nat /\ Len(input) \in Nat
  OBVIOUS
<1>2. /\ Held \subseteq Urls /\ Held \subseteq Nat \ {0}
      /\ BetweenFiles => file_counter + 1 \in Urls
  BY <1>1 DEF Held
<1>3. ASSUME NEW u \in Held
      PROVE  /\ handle[u] = "write" /\ asked[u][Writer] = "write"
             /\ \A c \in Readers : asked[u][c] = "none"
  <2>1. u \in Urls /\ asked[u][Writer] = "write"
    BY <1>2 DEF WriterHolds
  <2>2. handle[u] = "write"
    BY <2>1 DEF StagerInv, HandlesMatch
  <2> QED BY <2>1, <2>2 DEF StagerInv, HandlesMatch, ReadersRead, Readers
<1> QED BY <1>1, <1>2, <1>3

-----------------------------------------------------------------------------
(* Each action keeps Base.                                                  *)

LEMMA OpenNext_Base ==
  ASSUME ~Mixed, Base, OpenNext
  PROVE  Base'
<1> USE DEF OpenNext, module
<1> DEFINE n == file_counter + 1
<1>1. n \in Urls /\ Writer \in Clients /\ file_counter \in Nat
  BY HeldOK, FilesAssumption DEF BetweenFiles
<1>2. StagerInv'
  BY <1>1, MakeWriteableOK, ShareHandleOK DEF GetWriteablePath, Base
<1>3. ModuleTyped' /\ Room'
  BY <1>1 DEF Base, ModuleTyped, Room, BetweenFiles, file_counter
<1>4. asked' = [asked EXCEPT ![n][Writer] = "write"] /\ download' = download
  BY DEF GetWriteablePath, MakeWriteable, ShareHandle, Ask
<1>5. file_counter' = file_counter
  BY DEF file_counter
<1>6. Held' = Held \cup {n}
  BY <1>1, <1>5 DEF Held, Base, ModuleTyped
<1>7. asked \in [Urls -> [Clients -> Uses]]
  BY DEF Base, StagerInv, HandlesTyped
<1>8. WriterHolds' /\ ReadersRead'
  BY <1>1, <1>4, <1>6, <1>7 DEF Base, WriterHolds, ReadersRead, Readers
<1> QED BY <1>2, <1>3, <1>8 DEF Base

\* The writer lets go of its file, for whatever comes next.
LEMMA Release_Base ==
  ASSUME Base, file_counter \in Held, Release(Writer, file_counter),
         UNCHANGED <<config, input, module, files>>,
         <<pc, pc'>> \in {<<"releasing", "heading">>, <<"finishing", "finished">>, <<"idle", "destroyed">>}
  PROVE  Base'
<1> DEFINE n == file_counter
<1>1. n \in Urls /\ Writer \in Clients /\ n \in Nat \ {0}
  BY HeldOK, FilesAssumption
<1>2. StagerInv'
  BY <1>1, ReleaseOK DEF Base
<1>3. ModuleTyped' /\ Room'
  BY DEF Base, ModuleTyped, Room, BetweenFiles, file_counter, module
<1>4. asked' = [asked EXCEPT ![n][Writer] = "none"] /\ download' = download
  BY DEF Release, DropReference, RemoveCopy, Upload, UploadFails, LetGo, Ask
<1>5. Held' = Held \ {n}
  BY <1>1 DEF Held, file_counter
<1>6. asked \in [Urls -> [Clients -> Uses]]
  BY DEF Base, StagerInv, HandlesTyped
<1>7. WriterHolds' /\ ReadersRead'
  BY <1>1, <1>4, <1>5, <1>6 DEF Base, WriterHolds, ReadersRead, Readers
<1> QED BY <1>2, <1>3, <1>7 DEF Base

LEMMA ReleaseOld_Base ==
  ASSUME Base, ReleaseOld  PROVE  Base' /\ file_counter \in Held
<1>1. file_counter \in Held
  BY DEF ReleaseOld, Base, Held, Room, file_counter
<1> QED BY <1>1, Release_Base DEF ReleaseOld

LEMMA Finish_Base ==
  ASSUME Base, Finish  PROVE  Base' /\ file_counter \in Held
<1>1. file_counter \in Held
  BY DEF Finish, Base, Held, Room, BetweenFiles, file_counter
<1> QED BY <1>1, Release_Base DEF Finish

LEMMA Destroy_Base ==
  ASSUME Base, Destroy  PROVE  Base' /\ file_counter \in Held
<1>1. file_counter \in Held
  BY DEF Destroy, Base, Held, Room, BetweenFiles, file_counter
<1> QED BY <1>1, Release_Base DEF Destroy

\* The writer writes into a scratch file it holds.
LEMMA OnDisk_Base ==
  ASSUME Base, NEW n \in Held, NEW content \in Contents, OnDisk(n, content)
  PROVE  StagerInv' /\ UNCHANGED <<handle, asked, remote, download, running>>
BY HeldOK, ScratchOK DEF Base, OnDisk

\* The files consist of frames, as what lies on the disk does.
LEMMA ContentOK ==
  ASSUME Base
  PROVE  /\ None \notin Seq(Frames)
         /\ file_counter \in Nat
         /\ \A n \in 1 .. file_counter : n \in Urls /\ Content(n) \in Seq(Frames)
         /\ Contents = {None} \cup Seq(Frames)
<1>1. None \notin Seq(Frames) /\ Contents = {None} \cup Seq(Frames)
  BY FilesAssumption, NoneAssumption DEF Frames, Contents
<1>2. file_counter \in Nat /\ 1 .. file_counter \subseteq Urls
  BY FilesAssumption DEF Base, ModuleTyped, Room, BetweenFiles, file_counter
<1>3. ASSUME NEW n \in 1 .. file_counter  PROVE Content(n) \in Seq(Frames)
  <2>1. files[n] \in Files
    BY <1>3 DEF Base, ModuleTyped, file_counter
  <2> QED BY <2>1 DEF Content, Files
<1> QED BY <1>1, <1>2, <1>3

LEMMA WriteHead_Base ==
  ASSUME Base, WriteHead  PROVE  Base' /\ file_counter + 1 \in Held
<1> USE DEF WriteHead, module
<1>1. file_counter + 1 \in Held /\ file_counter \in Nat
  BY HeldOK DEF Held
<1>2. StagerInv' /\ asked' = asked /\ download' = download
  <2>1. <<>> \in Contents
    BY DEF Contents
  <2> QED BY <1>1, <2>1, OnDisk_Base
<1>3. file_counter' = file_counter + 1 /\ files' \in Seq(Files)
  BY DEF Base, ModuleTyped, Files, file_counter
<1>4. ModuleTyped'
  BY <1>3 DEF Base, ModuleTyped
<1>5. Room'
  BY <1>3 DEF Base, ModuleTyped, Room, BetweenFiles, file_counter
<1>6. Held' = Held
  BY <1>1, <1>3 DEF Held
<1> QED BY <1>1, <1>2, <1>4, <1>5, <1>6 DEF Base, WriterHolds, ReadersRead

LEMMA Arrive_Base ==
  ASSUME Base, NEW s \in config.arriving, Arrive(s)
  PROVE  Base' /\ file_counter \in Held
<1> USE DEF Arrive
<1>1. file_counter \in Held /\ file_counter \in Nat
  BY HeldOK DEF Base, Held, Room, BetweenFiles, file_counter
<1>2. StagerInv' /\ asked' = asked /\ download' = download
  <2>1. {local[file_counter], Content(file_counter)} \subseteq Contents
    BY <1>1, HeldOK, ContentOK DEF Base, StagerInv, FilesTyped, Room, BetweenFiles
  <2>2. PICK content \in Contents : OnDisk(file_counter, content)
    BY <2>1
  <2> QED BY <1>1, <2>2, OnDisk_Base
<1>3. input' \in Seq(Frames) /\ Len(input') = Len(input) + 1
  <2>1. s \in Stops /\ Len(input) + 1 \in 0 .. MaxFrames
    BY StopsAssumption, FilesAssumption DEF Base, ModuleTyped
  <2> QED BY <2>1 DEF Base, ModuleTyped, Frames
<1>4. pc' \in {"opening", "processing"}
  OBVIOUS
<1>5. ModuleTyped'
  BY <1>3, <1>4 DEF Base, ModuleTyped
<1>6. Room'
  <2>1. pc = "idle" /\ files' = files /\ Len(input) < MaxFrames
    OBVIOUS
  <2>2. Len(input) \in Nat /\ Len(files) \in Nat /\ MaxFrames \in Nat
    BY FilesAssumption DEF Base, ModuleTyped
  <2>3. Len(files) <= Len(input) + 1 /\ Len(files) >= 1
    BY <2>1, <2>2 DEF Base, Room, BetweenFiles
  <2> HIDE DEF Arrive
  <2> QED BY <1>3, <1>4, <2>1, <2>2, <2>3 DEF Room, BetweenFiles
<1>7. Held' = Held
  BY <1>1, <1>4 DEF Held, file_counter, Base, Room
<1> QED BY <1>1, <1>2, <1>5, <1>6, <1>7 DEF Base, WriterHolds, ReadersRead

\* Replacing the frame of a stream, or appending one.
LEMMA KeptOK ==
  ASSUME NEW kept \in Seq(Frames), NEW f \in Frames
  PROVE  Kept(kept, f) \in Seq(Frames)
BY DEF Kept

\* A file with another body.
LEMMA BodyOK ==
  ASSUME NEW file \in Files, NEW body \in Seq(Frames)
  PROVE  [file EXCEPT !.body = body] \in Files
BY DEF Files

\* What Process adds to the file.
LEMMA SaveOK ==
  ASSUME ModuleTyped, Room, Processing, NEW frames \in Seq(Frames), Save(frames)
  PROVE  /\ Frame \in Frames /\ Current \in Frames
         /\ files' = [files EXCEPT ![file_counter].body = @ \o (ConfigPrefix \o frames)]
         /\ ConfigPrefix \o frames \in Seq(Frames)
         /\ files' \in Seq(Files) /\ file_counter' = file_counter
<1> USE DEF ModuleTyped
<1>1. Frame \in Frames
  BY DEF Processing, Room, Frame, Last
<1>2. Current \in Frames
  BY <1>1 DEF Current, Configures, Frames
<1>3. ConfigPrefix \in Seq(Frames)
  <2>1. ConfigFrame \in Frames
    BY StopsAssumption, FilesAssumption DEF ConfigFrame, Frames
  <2> QED BY <2>1 DEF ConfigPrefix
<1>4. file_counter \in DOMAIN files
  BY DEF Processing, Room, BetweenFiles, file_counter
<1>5. files[file_counter] \in Files
  BY <1>4
<1>6. files' = [files EXCEPT ![file_counter].body = @ \o (ConfigPrefix \o frames)]
  BY DEF Save
<1>7. ConfigPrefix \o frames \in Seq(Frames)
  BY <1>3
<1>8. [files[file_counter] EXCEPT !.body = @ \o (ConfigPrefix \o frames)] \in Files
  <2>1. files[file_counter].body \o (ConfigPrefix \o frames) \in Seq(Frames)
    BY <1>5, <1>7 DEF Files
  <2> QED BY <1>5, <2>1, BodyOK
<1>9. files' = [files EXCEPT ![file_counter] =
                  [files[file_counter] EXCEPT !.body = @ \o (ConfigPrefix \o frames)]]
  BY <1>4, <1>6
<1>10. files' \in Seq(Files) /\ Len(files') = Len(files)
  BY <1>4, <1>8, <1>9
<1> QED BY <1>1, <1>2, <1>6, <1>7, <1>10 DEF file_counter

\* The three ways Process ends.
LEMMA Processed ==
  ASSUME ModuleTyped, Room, Skip \/ HoldBack \/ WriteFrame
  PROVE  /\ Processing
         /\ orphanarium' \in Seq(Frames)
         /\ \E frames \in Seq(Frames) : Save(frames)
<1> USE DEF ModuleTyped
<1>1. Processing
  BY DEF Skip, HoldBack, WriteFrame
<1>2. Frame \in Frames /\ Current \in Frames
  <2>1. Frame \in Frames
    BY <1>1 DEF Processing, Room, Frame, Last
  <2> QED BY <2>1 DEF Current, Configures, Frames
<1>3. CASE Skip \/ HoldBack
  <2>1. Save(<<>>) /\ <<>> \in Seq(Frames)
    BY <1>3 DEF Skip, HoldBack
  <2>2. orphanarium \in Seq(Frames) /\ Kept(orphanarium, Current) \in Seq(Frames)
    BY <1>2, KeptOK
  <2>3. orphanarium' \in {orphanarium, Kept(orphanarium, Current)}
    BY <1>3 DEF Skip, HoldBack
  <2> QED BY <1>1, <2>1, <2>2, <2>3
<1>4. CASE WriteFrame
  <2>1. orphanarium' \in {orphanarium, <<>>}
    BY <1>4 DEF WriteFrame
  <2>2. Append(orphanarium, Current) \in Seq(Frames) /\ <<Current>> \in Seq(Frames)
    BY <1>2
  <2>3. Save(Append(orphanarium, Current)) \/ Save(<<Current>>)
    BY <1>4 DEF WriteFrame
  <2>4. ASSUME NEW frames \in Seq(Frames), Save(frames)
        PROVE  \E g \in Seq(Frames) : Save(g)
    BY <2>4
  <2>5. \E g \in Seq(Frames) : Save(g)
    BY <2>2, <2>3, <2>4
  <2>6. orphanarium' \in Seq(Frames)
    <3>1. orphanarium \in Seq(Frames) /\ <<>> \in Seq(Frames)
      OBVIOUS
    <3> QED BY <2>1, <3>1, Zenon
  <2> QED BY <1>1, <2>5, <2>6
<1> QED BY <1>1, <1>3, <1>4

LEMMA Process_Base ==
  ASSUME Base, Skip \/ HoldBack \/ WriteFrame
  PROVE  Base'
<1>1. Processing /\ orphanarium' \in Seq(Frames)
  BY Processed DEF Base
<1>2. files' \in Seq(Files) /\ file_counter' = file_counter /\ Frame \in Frames
  BY <1>1, Processed, SaveOK DEF Base
<1>3. metadata_cache' \in Seq(Frames)
  BY <1>1, <1>2, KeptOK DEF Processing, CacheMetadata, Base, ModuleTyped
<1>4. ModuleTyped'
  BY <1>1, <1>2, <1>3 DEF Processing, Base, ModuleTyped
<1>5. Room'
  BY <1>1, <1>2 DEF Processing, Base, Room, BetweenFiles, file_counter
<1>6. StagerInv' /\ asked' = asked /\ download' = download
  BY <1>1 DEF Processing, stagerVars, Base, StagerInv, HandlesTyped, FilesTyped,
              HandlesMatch, DownloadAlone, ReadWhole, HasAll, ScratchHeld
<1>7. Held' = Held
  BY <1>1, <1>2 DEF Held, Processing
<1> QED BY <1>4, <1>5, <1>6, <1>7 DEF Base, WriterHolds, ReadersRead

LEMMA CloseLast_Base ==
  ASSUME Base, CloseLast
  PROVE  Base' /\ file_counter \in Held
<1> USE DEF CloseLast, module
<1>1. file_counter \in Held /\ file_counter \in Nat
  BY HeldOK DEF Base, Held, Room, BetweenFiles, file_counter
<1>2. StagerInv' /\ asked' = asked /\ download' = download
  <2>1. None \in Contents /\ Content(file_counter) \in Contents
    BY <1>1, HeldOK, ContentOK DEF Base, Room, BetweenFiles, Contents
  <2> QED BY <1>1, <2>1, OnDisk_Base
<1>3. ModuleTyped' /\ Room'
  BY DEF Base, ModuleTyped, Room, BetweenFiles, file_counter
<1>4. Held' = Held
  BY DEF Held, file_counter
<1> QED BY <1>1, <1>2, <1>3, <1>4 DEF Base, WriterHolds, ReadersRead

\* A reader's step leaves the URLs the writer holds alone.
LEMMA Transfer_Base ==
  ASSUME Base, Transfer
  PROVE  /\ StagerInv' /\ (Held' = Held => WriterHolds')
         /\ ReadersRead' /\ remote' = remote /\ running' = running
         /\ \A u \in Urls : handle[u] = "write" => local'[u] = local[u]
<1>1. StagerInv'
  BY TransferOK DEF Base
<1>2. /\ download # None /\ download.url \in Urls /\ download.client \in Clients
      /\ handle[download.url] = "none" /\ download.client # Writer
  BY DEF Transfer, Received, CutShort, CutNoticed, CutUnnoticed, Cut, DownloadFails, Base,
         StagerInv, HandlesTyped, DownloadAlone, Downloads, ReadersRead
<1>3. asked \in [Urls -> [Clients -> Uses]] /\ local = [u \in Urls |-> local[u]]
  BY DEF Base, StagerInv, HandlesTyped, FilesTyped
<1>4. \/ asked' = asked
      \/ asked' = [asked EXCEPT ![download.url][download.client] = "read"]
  BY DEF Transfer, Received, Receive, CutShort, CutNoticed, CutUnnoticed, DownloadFails,
         HandOver, Ask
<1>5. \A u \in Urls : /\ asked'[u][Writer] = asked[u][Writer]
                      /\ \A c \in Readers : asked'[u][c] \in {asked[u][c], "read"}
  BY <1>2, <1>3, <1>4, FilesAssumption DEF Readers
<1>6. remote' = remote /\ running' = running /\ \A u \in Urls : handle[u] = "write" => local'[u] = local[u]
  BY <1>2, <1>3 DEF Transfer, Received, Receive, CutShort, CutNoticed, CutUnnoticed, DownloadFails
<1>7. download' # None => download'.client # Writer
  BY <1>2 DEF Transfer, Received, Receive, CutShort, CutNoticed, CutUnnoticed, DownloadFails,
              HandOver
<1>8. ReadersRead'
  BY <1>5, <1>7 DEF Base, ReadersRead
<1>9. Held' = Held => WriterHolds'
  BY <1>5 DEF Base, WriterHolds
<1> QED BY <1>1, <1>6, <1>8, <1>9

LEMMA Reader_Base ==
  ASSUME ~Mixed, Base, NEW r \in Readers, NEW v \in Urls, ReaderStep(r, v)
  PROVE  /\ StagerInv' /\ (Held' = Held => WriterHolds')
         /\ ReadersRead' /\ remote' = remote /\ running' = running
         /\ \A u \in Urls : handle[u] = "write" => local'[u] = local[u]
<1>1. r \in Clients /\ r # Writer
  BY DEF Readers
<1>2. StagerInv'
  <2>1. CASE StartDownload(r, v)
    BY <1>1, <2>1, StartDownloadOK DEF Base
  <2>2. CASE ShareHandle(r, v, "read")
    BY <1>1, <2>2, ShareHandleOK DEF Base
  <2>3. CASE Release(r, v)
    BY <1>1, <2>3, ReleaseOK DEF Base
  <2> QED BY <2>1, <2>2, <2>3 DEF ReaderStep
<1>3. asked \in [Urls -> [Clients -> Uses]] /\ local = [u \in Urls |-> local[u]]
  BY DEF Base, StagerInv, HandlesTyped, FilesTyped
<1>4. \/ asked' = asked
      \/ asked' = [asked EXCEPT ![v][r] = "read"]
      \/ asked' = [asked EXCEPT ![v][r] = "none"]
  BY DEF ReaderStep, StartDownload, ShareHandle, Release, DropReference, RemoveCopy,
         Upload, UploadFails, LetGo, Ask
<1>5. \A u \in Urls : /\ asked'[u][Writer] = asked[u][Writer]
                      /\ \A c \in Readers : asked'[u][c] \in {asked[u][c], "read", "none"}
  BY <1>1, <1>3, <1>4, FilesAssumption DEF Readers
<1>6. asked[v][r] = "read" => handle[v] = "read"
  BY <1>1 DEF Base, StagerInv, HandlesMatch
<1>7. remote' = remote /\ running' = running /\ \A u \in Urls : handle[u] = "write" => local'[u] = local[u]
  BY <1>3, <1>6 DEF ReaderStep, StartDownload, ShareHandle, Release, DropReference,
         RemoveCopy, Upload, UploadFails
<1>8. download' = download \/ download' = [url |-> v, client |-> r]
  BY DEF ReaderStep, StartDownload, ShareHandle, Release, DropReference, RemoveCopy,
         Upload, UploadFails, LetGo
<1>9. ReadersRead'
  BY <1>1, <1>5, <1>8 DEF Base, ReadersRead
<1>10. Held' = Held => WriterHolds'
  BY <1>5 DEF Base, WriterHolds
<1> QED BY <1>2, <1>7, <1>9, <1>10

LEMMA ReadFiles_Base ==
  ASSUME ~Mixed, Base, ReadFiles
  PROVE  /\ Base' /\ remote' = remote /\ running' = running
         /\ \A u \in Urls : handle[u] = "write" => local'[u] = local[u]
<1>1. UNCHANGED <<config, pc, input, module, files>>
  BY DEF ReadFiles
<1>2. ModuleTyped' /\ Room' /\ Held' = Held
  BY <1>1 DEF Base, ModuleTyped, Room, BetweenFiles, Held, file_counter, module
<1>3. CASE Transfer
  BY <1>2, <1>3, Transfer_Base DEF Base
<1>4. ASSUME NEW r \in Readers, NEW v \in 1 .. file_counter, ReaderStep(r, v)
      PROVE  /\ Base' /\ remote' = remote /\ running' = running
             /\ \A u \in Urls : handle[u] = "write" => local'[u] = local[u]
  <2>1. v \in Urls
    BY FilesAssumption DEF Base, ModuleTyped, Room, file_counter
  <2> QED BY <1>2, <1>4, <2>1, Reader_Base DEF Base
<1> QED BY <1>3, <1>4 DEF ReadFiles

-----------------------------------------------------------------------------
LEMMA Init_Base == Init => Base
<1> SUFFICES ASSUME Init PROVE Base
  OBVIOUS
<1> USE DEF Init, StagerInit
<1>1. StagerInv
  BY StagerInit_Inv
<1>2. ModuleTyped /\ Room
  <2>1. /\ files = <<>> /\ input = <<>> /\ orphanarium = <<>> /\ metadata_cache = <<>>
        /\ pc = "opening" /\ config \in Configs /\ configWritten \in BOOLEAN
    OBVIOUS
  <2> HIDE DEF Init, StagerInit
  <2>2. ModuleTyped
    BY <2>1 DEF ModuleTyped
  <2>3. Room
    BY <2>1, FilesAssumption DEF Room, BetweenFiles
  <2> QED BY <2>2, <2>3
<1>3. Held = {}
  BY DEF Held, file_counter
<1>4. WriterHolds /\ ReadersRead
  BY <1>3, FilesAssumption DEF WriterHolds, ReadersRead, Readers
<1> QED BY <1>1, <1>2, <1>4 DEF Base

LEMMA Next_Base ==
  ASSUME ~Mixed, Base, [Next]_vars
  PROVE  Base'
<1>1. CASE UNCHANGED vars
  BY <1>1 DEF vars, stagerVars, Base, StagerInv, HandlesTyped, FilesTyped, HandlesMatch,
     DownloadAlone, ReadWhole, HasAll, ScratchHeld, ModuleTyped, Room, BetweenFiles, Held, file_counter,
     WriterHolds, ReadersRead
<1>2. ASSUME NEW s \in config.arriving, Arrive(s)  PROVE Base'
  BY <1>2, Arrive_Base
<1> QED
  BY <1>1, <1>2, OpenNext_Base, ReleaseOld_Base, WriteHead_Base, Process_Base,
     CloseLast_Base, Finish_Base, Destroy_Base, ReadFiles_Base DEF Next

\* GetReadablePath beside a writer: whoever reads a file while the writer runs
\* has what lies under its URL, all of it unless the download was cut short as
\* ReadersSeeRemote says.
THEOREM WriterReadersSeeRemote ==
  ASSUME ~Mixed
  PROVE  Spec => []ReadersSeeRemote
<1>1. Base => ReadersSeeRemote
  BY DEF Base, StagerInv, HandlesMatch, ReadWhole, ReadersSeeRemote
<1> QED BY <1>1, Init_Base, Next_Base, PTL DEF Spec

-----------------------------------------------------------------------------
(* What is stored of each file, as long as the process runs: the file that  *)
(* is written has a beginning of its contents on the disk and nothing under *)
(* its URL; it is complete on the disk before its handle is let go of, and  *)
(* under its URL afterwards.  A file without contents is never stored.      *)
StoredAt(place, n) == place[n] = Content(n) \/ (place[n] = None /\ Content(n) = <<>>)
BegunAt(place, n) == place[n] \in Seq(Frames) /\ IsPrefix(place[n], Content(n))

Begun == file_counter >= 1 /\ pc \in {"idle", "processing"}
             => remote[file_counter] = None /\ BegunAt(local, file_counter)
Closing == file_counter >= 1 /\ pc \in {"opening", "releasing", "finishing"}
             => remote[file_counter] = None /\ StoredAt(local, file_counter)
CutOff == file_counter >= 1 /\ pc = "destroyed"
             => remote[file_counter] = None \/ BegunAt(remote, file_counter)
Closed == \A n \in 1 .. file_counter :
             n # file_counter \/ pc \in {"heading", "finished"} => StoredAt(remote, n)
Unopened == \A u \in Urls : u \notin 1 .. file_counter => remote[u] = None

Stored == Begun /\ Closing /\ CutOff /\ Closed /\ Unopened

WriterInv == Base /\ (running => Stored) /\ (~running => NothingLost)

LEMMA WriterInv_Safe ==
  ASSUME WriterInv  PROVE NothingLost /\ UploadsComplete
<1> USE DEF WriterInv
<1>1. DOMAIN files = 1 .. file_counter
  BY DEF Base, ModuleTyped, file_counter
<1>2. ASSUME running, NEW n \in 1 .. file_counter
      PROVE  /\ \/ n = file_counter /\ pc \in {"idle", "processing", "destroyed"}
                \/ Content(n) \in {remote[n], local[n], <<>>}
             /\ remote[n] # None =>
                  IF pc = "destroyed" /\ n = file_counter
                    THEN IsPrefix(remote[n], Content(n)) ELSE remote[n] = Content(n)
  <2>1. file_counter >= 1 /\ file_counter \in Nat
    BY <1>2, ContentOK
  <2>2. CASE n # file_counter \/ pc \in {"heading", "finished"}
    BY <1>2, <2>2 DEF Stored, Closed, StoredAt
  <2>3. CASE n = file_counter /\ pc \in {"idle", "processing"}
    BY <1>2, <2>1, <2>3 DEF Stored, Begun
  <2>4. CASE n = file_counter /\ pc \in {"opening", "releasing", "finishing"}
    BY <1>2, <2>1, <2>4 DEF Stored, Closing, StoredAt
  <2>5. CASE n = file_counter /\ pc = "destroyed"
    BY <1>2, <2>1, <2>5 DEF Stored, CutOff, BegunAt
  <2> QED BY <2>2, <2>3, <2>4, <2>5 DEF Base, ModuleTyped
<1>3. UploadsComplete
  BY <1>1, <1>2 DEF UploadsComplete
<1>4. NothingLost
  BY <1>1, <1>2 DEF NothingLost
<1> QED BY <1>3, <1>4

\* What has reached the disk stays a beginning of the file that grows.
LEMMA PrefixGrows ==
  ASSUME NEW S, NEW s \in Seq(S), NEW h \in Seq(S), NEW b \in Seq(S), NEW x \in Seq(S),
         IsPrefix(s, h \o b)
  PROVE  IsPrefix(s, h \o (b \o x))
<1> DEFINE t == h \o b  u == h \o (b \o x)
<1>1. t \in Seq(S) /\ u \in Seq(S) /\ Len(t) <= Len(u) /\ \A i \in 1 .. Len(t) : t[i] = u[i]
  OBVIOUS
<1>2. IsPrefix(s, t)
  OBVIOUS
<1> HIDE DEF t, u
<1>3. IsPrefix(s, u)
  BY <1>1, <1>2, PrefixOK
<1> QED BY <1>3 DEF u

\* Every file is a beginning of itself, and nothing is a beginning of any.
LEMMA PrefixEnds ==
  ASSUME NEW S, NEW t \in Seq(S)
  PROVE  IsPrefix(t, t) /\ IsPrefix(<<>>, t)
<1>1. <<>> \in Seq(S) /\ Len(<<>>) = 0 /\ Len(t) >= 0
  OBVIOUS
<1>2. IsPrefix(t, t)
  BY DEF IsPrefix
<1>3. IsPrefix(<<>>, t)
  <2>1. Len(<<>>) <= Len(t) /\ \A i \in 1 .. Len(<<>>) : <<>>[i] = t[i]
    BY <1>1
  <2> QED BY <1>1, <2>1, PrefixOK
<1> QED BY <1>2, <1>3

-----------------------------------------------------------------------------
(* Each action keeps Stored, or ends the process with nothing lost.         *)

\* Nothing of this depends on anything but these.
LEMMA Same_Stored ==
  ASSUME Stored, UNCHANGED <<files, pc, remote>>,
         pc \notin {"finished", "destroyed"} /\ file_counter >= 1
           => local'[file_counter] = local[file_counter]
  PROVE  Stored'
BY DEF Stored, Begun, Closing, CutOff, Closed, Unopened, BegunAt, StoredAt, Content, file_counter

LEMMA OpenNext_Stored ==
  ASSUME Stored, OpenNext  PROVE Stored'
<1>1. UNCHANGED <<files, remote, local>>
  BY DEF OpenNext, GetWriteablePath, MakeWriteable, ShareHandle
<1>2. pc = "opening" /\ pc' = IF file_counter = 0 THEN "heading" ELSE "releasing"
  BY DEF OpenNext
<1>3. pc' \in {"heading", "releasing"} /\ (pc' = "heading" => file_counter = 0)
  BY <1>2
<1>4. file_counter' = file_counter /\ \A m : Content(m)' = Content(m)
  BY <1>1 DEF file_counter, Content
<1>5. Begun' /\ CutOff'
  BY <1>3 DEF Begun, CutOff
<1>6. Closing'
  BY <1>1, <1>2, <1>4 DEF Stored, Closing, StoredAt
<1>7. Closed' /\ Unopened'
  BY <1>1, <1>2, <1>3, <1>4 DEF Stored, Closed, Unopened, StoredAt
<1> QED BY <1>5, <1>6, <1>7 DEF Stored

LEMMA WriteHead_Stored ==
  ASSUME Base, Stored, WriteHead  PROVE Stored'
<1> DEFINE n == file_counter + 1  file == [head |-> metadata_cache, body |-> <<>>]
<1>1. /\ files' = Append(files, file) /\ pc = "heading" /\ pc' \in {"idle", "processing"}
      /\ remote' = remote /\ local' = [local EXCEPT ![n] = <<>>]
  BY DEF WriteHead, OnDisk
<1>2. n \in Urls /\ file_counter \in Nat /\ metadata_cache \in Seq(Frames) /\ files \in Seq(Files)
  BY <1>1, HeldOK DEF Base, ModuleTyped, BetweenFiles
<1>3. /\ file_counter' = n /\ Content(file_counter)' = metadata_cache \o <<>>
      /\ \A m \in 1 .. file_counter : Content(m)' = Content(m)
  <2>1. file \in Files
    BY <1>2 DEF Files
  <2>2. /\ Len(files') = Len(files) + 1 /\ files'[Len(files) + 1] = file
        /\ \A m \in 1 .. Len(files) : files'[m] = files[m]
    BY <1>1, <1>2, <2>1
  <2>3. file.head = metadata_cache /\ file.body = <<>>
    OBVIOUS
  <2> HIDE DEF file
  <2>4. file_counter' = n
    BY <2>2 DEF file_counter
  <2>5. Content(file_counter)' = metadata_cache \o <<>>
    BY <2>2, <2>3 DEF Content, file_counter
  <2> QED BY <2>2, <2>4, <2>5 DEF file_counter, Content
<1>4. local'[n] = <<>> /\ <<>> \in Seq(Frames) /\ IsPrefix(<<>>, Content(file_counter)')
  <2>1. local = [u \in Urls |-> local[u]]
    BY DEF Base, StagerInv, FilesTyped
  <2>2. metadata_cache \o <<>> \in Seq(Frames)
    BY <1>2
  <2>3. \A t \in Seq(Frames) : IsPrefix(<<>>, t)
    BY PrefixEnds
  <2> QED BY <1>1, <1>2, <1>3, <2>1, <2>2, <2>3
<1>5. remote[n] = None
  BY <1>2 DEF Stored, Unopened
<1>6. Begun'
  BY <1>1, <1>3, <1>4, <1>5 DEF Begun, BegunAt
<1>7. Closing' /\ CutOff'
  BY <1>1 DEF Closing, CutOff
<1>8. Closed' /\ Unopened'
  BY <1>1, <1>2, <1>3 DEF Stored, Closed, Unopened, StoredAt
<1> QED BY <1>6, <1>7, <1>8 DEF Stored

LEMMA Arrive_Stored ==
  ASSUME Base, Stored, NEW s \in config.arriving, Arrive(s)  PROVE Stored'
<1> DEFINE n == file_counter
<1>1. pc = "idle" /\ files' = files /\ remote' = remote
  BY DEF Arrive, OnDisk
<1>2. n \in 1 .. file_counter /\ n \in Urls /\ Content(n) \in Seq(Frames) /\ n \in Nat
  BY <1>1, ContentOK DEF Base, Room, BetweenFiles, file_counter
<1>3. remote[n] = None /\ BegunAt(local, n)
  BY <1>1, <1>2 DEF Stored, Begun
<1>4. local = [u \in Urls |-> local[u]]
  BY DEF Base, StagerInv, FilesTyped
<1>5. \/ pc' = "processing" /\ local'[n] \in {local[n], Content(n)}
      \/ pc' = "opening" /\ local'[n] = Content(n)
  BY <1>2, <1>4 DEF Arrive, OnDisk
<1>6. n' = n /\ \A m \in 1 .. n : Content(m)' = Content(m)
  BY <1>1 DEF Content, file_counter
<1>7. IsPrefix(Content(n), Content(n))
  BY <1>2, PrefixEnds
<1>8. Begun'
  BY <1>1, <1>2, <1>3, <1>5, <1>6, <1>7 DEF Begun, BegunAt
<1>9. Closing' /\ CutOff'
  BY <1>1, <1>2, <1>3, <1>5, <1>6 DEF Closing, CutOff, StoredAt
<1>10. Closed' /\ Unopened'
  BY <1>1, <1>5, <1>6 DEF Stored, Closed, Unopened, StoredAt
<1> QED BY <1>8, <1>9, <1>10 DEF Stored

LEMMA Process_Stored ==
  ASSUME Base, Stored, Skip \/ HoldBack \/ WriteFrame  PROVE Stored'
<1> DEFINE n == file_counter
<1>1. Processing
  BY Processed DEF Base
<1>2. PICK frames \in Seq(Frames) : Save(frames)
  BY Processed DEF Base
<1>3. pc = "processing" /\ pc' = "idle" /\ remote' = remote /\ local' = local
  BY <1>1 DEF Processing, stagerVars
<1>4. n \in 1 .. n /\ n \in Nat /\ files \in Seq(Files) /\ files[n] \in Files
  BY <1>3, ContentOK DEF Base, Room, BetweenFiles, ModuleTyped, file_counter
<1> DEFINE x == ConfigPrefix \o frames
<1>5. /\ files' = [files EXCEPT ![n].body = @ \o x] /\ x \in Seq(Frames)
      /\ file_counter' = n
  BY <1>1, <1>2, SaveOK DEF Base
<1> HIDE DEF x
<1>6. /\ files'[n].head = files[n].head /\ files'[n].body = files[n].body \o x
      /\ \A m \in 1 .. n : m # n => files'[m] = files[m]
  BY <1>4, <1>5 DEF file_counter, Files
<1>7. Content(file_counter)' = files[n].head \o (files[n].body \o x)
  BY <1>5, <1>6 DEF Content
<1>8. remote[n] = None /\ BegunAt(local, n)
  BY <1>3, <1>4 DEF Stored, Begun
<1>9. IsPrefix(local[n], files[n].head \o (files[n].body \o x))
  BY <1>4, <1>5, <1>8, PrefixGrows DEF BegunAt, Content, Files
<1>10. Begun'
  BY <1>3, <1>5, <1>7, <1>8, <1>9 DEF Begun, BegunAt
<1>11. Closing' /\ CutOff'
  BY <1>3 DEF Closing, CutOff
<1>12. \A m \in 1 .. n : m # n => Content(m)' = Content(m)
  BY <1>6 DEF Content
<1>13. Closed' /\ Unopened'
  BY <1>3, <1>5, <1>12 DEF Stored, Closed, Unopened, StoredAt
<1> QED BY <1>10, <1>11, <1>13 DEF Stored

LEMMA CloseLast_Stored ==
  ASSUME Base, Stored, CloseLast  PROVE Stored'
<1> DEFINE n == file_counter
<1>1. pc = "idle" /\ pc' = "finishing" /\ files' = files /\ remote' = remote
  BY DEF CloseLast, OnDisk
<1>2. n \in 1 .. n /\ n \in Urls /\ n \in Nat
  BY <1>1, ContentOK DEF Base, Room, BetweenFiles, file_counter
<1>3. n' = n /\ \A m : Content(m)' = Content(m)
  BY <1>1 DEF Content, file_counter
<1>4. local'[n] = Content(n) \/ (local'[n] = None /\ Content(n) = <<>>)
  <2>1. local = [u \in Urls |-> local[u]]
    BY DEF Base, StagerInv, FilesTyped
  <2> QED BY <1>2, <2>1 DEF CloseLast, OnDisk
<1>5. remote[n] = None
  BY <1>1, <1>2 DEF Stored, Begun
<1>6. Closing'
  BY <1>1, <1>3, <1>4, <1>5 DEF Closing, StoredAt
<1>7. Begun' /\ CutOff'
  BY <1>1 DEF Begun, CutOff
<1>8. Closed' /\ Unopened'
  BY <1>1, <1>3 DEF Stored, Closed, Unopened, StoredAt
<1> QED BY <1>6, <1>7, <1>8 DEF Stored

\* What letting go of the file does: it uploads it, unless there is none.
LEMMA ReleaseDoes ==
  ASSUME Base, file_counter \in Held, Release(Writer, file_counter)
  PROVE  LET n == file_counter
         IN  \/ /\ running' /\ local[n] = None /\ remote' = remote
             \/ /\ running' /\ local[n] # None
                /\ remote' = [remote EXCEPT ![n] = local[n]]
             \/ /\ ~running' /\ local' = local
                /\ \A u \in Urls : u # n => remote'[u] = remote[u]
<1> DEFINE n == file_counter
<1>1. handle[n] = "write" /\ ~Others(Writer, n)
  BY HeldOK DEF Others, Readers
<1>2. running /\ n \in Urls
  BY HeldOK DEF Release, DropReference, RemoveCopy, Upload, UploadFails, LetGo, Free
<1>3. CASE RemoveCopy(Writer, n)
  BY <1>1, <1>2, <1>3 DEF RemoveCopy
<1>4. CASE Upload(Writer, n)
  BY <1>2, <1>4 DEF Upload
<1>5. CASE UploadFails(Writer, n)
  <2>1. remote = [u \in Urls |-> remote[u]]
    BY DEF Base, StagerInv, FilesTyped
  <2> QED BY <1>5, <2>1 DEF UploadFails
<1> QED BY <1>1, <1>3, <1>4, <1>5 DEF Release, DropReference

LEMMA Release_Stored ==
  ASSUME Base, Stored, file_counter \in Held, Release(Writer, file_counter),
         files' = files,
         <<pc, pc'>> \in {<<"releasing", "heading">>, <<"finishing", "finished">>, <<"idle", "destroyed">>}
  PROVE  (running' => Stored') /\ (~running' => NothingLost')
<1> DEFINE n == file_counter
<1>1. /\ n \in 1 .. n /\ n \in Urls /\ n \in Nat /\ None \notin Seq(Frames)
      /\ Content(n) \in Seq(Frames) /\ DOMAIN files = 1 .. n
  BY HeldOK, ContentOK DEF Base, ModuleTyped, file_counter
<1>2. n' = n /\ \A m : Content(m)' = Content(m)
  BY DEF Content, file_counter
<1>3. remote = [u \in Urls |-> remote[u]] /\ remote[n] = None
  BY <1>1 DEF Base, StagerInv, FilesTyped, Stored, Begun, Closing
<1>4. /\ pc' = "destroyed" => BegunAt(local, n)
      /\ pc' # "destroyed" => StoredAt(local, n)
  BY <1>1 DEF Stored, Begun, Closing
<1>5. \A m \in 1 .. n : m # n => m \in Urls /\ StoredAt(remote, m)
  BY <1>1, ContentOK DEF Stored, Closed
<1>6. CASE running'
  <2>1. \/ local[n] = None /\ remote' = remote
        \/ local[n] # None /\ remote' = [remote EXCEPT ![n] = local[n]]
    BY <1>6, ReleaseDoes
  <2>2. pc' = "destroyed" => remote'[n] = None \/ BegunAt(remote, n)'
    BY <1>1, <1>2, <1>3, <1>4, <2>1 DEF BegunAt
  <2>3. pc' # "destroyed" => StoredAt(remote, n)'
    BY <1>1, <1>2, <1>3, <1>4, <2>1 DEF StoredAt
  <2>4. Begun' /\ Closing'
    BY DEF Begun, Closing
  <2>5. CutOff'
    BY <1>2, <2>2 DEF CutOff
  <2>6. \A m \in 1 .. n : m # n => remote'[m] = remote[m]
    BY <1>3, <1>5, <2>1
  <2>7. Closed'
    BY <1>2, <1>5, <2>3, <2>6 DEF Closed, StoredAt
  <2>8. Unopened'
    BY <1>1, <1>2, <1>3, <2>1 DEF Stored, Unopened
  <2> QED BY <1>6, <2>4, <2>5, <2>7, <2>8 DEF Stored
<1>7. CASE ~running'
  <2>1. local' = local /\ \A u \in Urls : u # n => remote'[u] = remote[u]
    BY <1>7, ReleaseDoes
  <2>2. ASSUME NEW m \in 1 .. n, m # n  PROVE Content(m)' \in {remote'[m], <<>>}
    BY <1>2, <1>5, <2>1, <2>2 DEF StoredAt
  <2>3. pc' = "destroyed" \/ Content(n)' \in {local'[n], <<>>}
    BY <1>2, <1>4, <2>1 DEF StoredAt
  <2>4. DOMAIN files' = 1 .. n /\ n' = n
    BY <1>1, <1>2
  <2>5. NothingLost'
    BY <1>1, <2>2, <2>3, <2>4 DEF NothingLost
  <2> QED BY <1>7, <2>5
<1> QED BY <1>6, <1>7

\* Once an exception has left a destructor nothing happens any more.
LEMMA Stopped ==
  ASSUME ~running, [Next]_vars  PROVE UNCHANGED vars
BY DEF Next, OpenNext, GetWriteablePath, MakeWriteable, ShareHandle, ReleaseOld, Release,
   DropReference, RemoveCopy, Upload, UploadFails, LetGo, WriteHead, OnDisk, Arrive, Skip,
   HoldBack, WriteFrame, Processing, CloseLast, Finish, Destroy, ReadFiles, Transfer,
   Received, CutShort, CutNoticed, CutUnnoticed, Cut, DownloadFails, ReaderStep, StartDownload, Free

LEMMA Init_Inv == Init => WriterInv
<1> SUFFICES ASSUME Init PROVE WriterInv
  OBVIOUS
<1>1. Base
  BY Init_Base
<1>2. running /\ file_counter = 0 /\ \A u \in Urls : remote[u] = None
  BY DEF Init, StagerInit, file_counter
<1>3. Stored
  BY <1>2 DEF Stored, Begun, Closing, CutOff, Closed, Unopened
<1> QED BY <1>1, <1>2, <1>3 DEF WriterInv

LEMMA Next_Inv ==
  ASSUME ~Mixed, WriterInv, [Next]_vars
  PROVE  WriterInv'
<1>1. Base /\ Base'
  BY Next_Base DEF WriterInv
<1>2. CASE ~running \/ UNCHANGED vars
  <2>1. UNCHANGED vars
    BY <1>2, Stopped
  <2> QED BY <1>1, <2>1 DEF vars, stagerVars, WriterInv, Stored, Begun, Closing, CutOff,
             Closed, Unopened, BegunAt, StoredAt, Content, file_counter, NothingLost
<1>3. CASE running /\ Next
  <2>1. Stored
    BY <1>3 DEF WriterInv
  <2>2. CASE ReleaseOld \/ Finish \/ Destroy
    <3>1. file_counter \in Held
      BY <1>1, <2>2, ReleaseOld_Base, Finish_Base, Destroy_Base
    <3>2. (running' => Stored') /\ (~running' => NothingLost')
      BY <1>1, <2>1, <2>2, <3>1, Release_Stored DEF ReleaseOld, Finish, Destroy
    <3> QED BY <1>1, <3>2 DEF WriterInv
  <2>3. CASE ReadFiles
    <3>1. /\ remote' = remote /\ running' = running
          /\ \A u \in Urls : handle[u] = "write" => local'[u] = local[u]
      BY <1>1, <2>3, ReadFiles_Base
    <3>2. pc \in {"idle", "finished", "destroyed"} /\ UNCHANGED <<files, pc>>
      BY <2>3 DEF ReadFiles
    <3>3. pc = "idle" /\ file_counter >= 1 => handle[file_counter] = "write" /\ file_counter \in Urls
      BY <1>1, HeldOK DEF Held
    <3>4. Stored'
      BY <2>1, <3>1, <3>2, <3>3, Same_Stored
    <3> QED BY <1>1, <1>3, <3>1, <3>4 DEF WriterInv
  <2>4. CASE OpenNext \/ WriteHead \/ (\E s \in config.arriving : Arrive(s))
             \/ Skip \/ HoldBack \/ WriteFrame \/ CloseLast
    <3>1. Stored'
      BY <1>1, <2>1, <2>4, OpenNext_Stored, WriteHead_Stored, Arrive_Stored,
         Process_Stored, CloseLast_Stored
    <3>2. running' = running
      BY <2>4 DEF OpenNext, GetWriteablePath, MakeWriteable, ShareHandle, WriteHead, OnDisk,
         Arrive, Skip, HoldBack, WriteFrame, Processing, stagerVars, CloseLast
    <3> QED BY <1>1, <1>3, <3>1, <3>2 DEF WriterInv
  <2> QED BY <1>3, <2>2, <2>3, <2>4 DEF Next
<1> QED BY <1>2, <1>3

\* CloseCurrentFile before the handle goes, I3FileStager::filehandle after it:
\* what lies under a URL is all that was written into the file.
THEOREM WriterUploadsComplete ==
  ASSUME ~Mixed
  PROVE  Spec => []UploadsComplete
BY WriterInv_Safe, Init_Inv, Next_Inv, PTL DEF Spec

\* StageFileOut removes the scratch file after the upload: a file that was
\* closed is never without a complete copy, whatever upload fails.
THEOREM WriterNothingLost ==
  ASSUME ~Mixed
  PROVE  Spec => []NothingLost
BY WriterInv_Safe, Init_Inv, Next_Inv, PTL DEF Spec

-----------------------------------------------------------------------------
(* What is in the files, which does not depend on the stager.               *)

\* A step that neither takes a frame nor begins a file.
Quiet ==
  /\ UNCHANGED <<config, input, module, files>>
  /\ BetweenFiles' = BetweenFiles
  /\ (pc' = "processing") = (pc = "processing")
  /\ pc' \in {"opening", "releasing", "heading", "idle", "processing",
              "finishing", "finished", "destroyed"}
  /\ pc' = "releasing" => Len(files) >= 1

LEMMA NextSorts ==
  ASSUME ModuleTyped, Room, [Next]_vars
  PROVE  \/ Quiet \/ WriteHead
         \/ \E s \in config.arriving : Arrive(s)
         \/ Skip \/ HoldBack \/ WriteFrame
<1>1. CASE UNCHANGED vars
  BY <1>1 DEF vars, stagerVars, module, Quiet, BetweenFiles, ModuleTyped, Room
<1>2. CASE OpenNext
  <2>1. pc' \in {"heading", "releasing"} /\ (pc' = "releasing" => Len(files) >= 1)
    BY <1>2 DEF OpenNext, file_counter, ModuleTyped
  <2> QED BY <1>2, <2>1 DEF OpenNext, Quiet, BetweenFiles
<1>3. CASE ReleaseOld \/ CloseLast \/ Finish \/ Destroy \/ ReadFiles
  BY <1>3 DEF ReleaseOld, CloseLast, Finish, Destroy, ReadFiles, Quiet, BetweenFiles
<1> QED BY <1>1, <1>2, <1>3 DEF Next

LEMMA Arrive_Module ==
  ASSUME ModuleTyped, Room, NEW s \in config.arriving, Arrive(s)
  PROVE  /\ ModuleTyped' /\ Room'
         /\ input' = Append(input, Frame') /\ Frame' \in Frames
         /\ Frame' = [stop |-> s, id |-> Len(input) + 1, config |-> FALSE]
<1> DEFINE f == [stop |-> s, id |-> Len(input) + 1, config |-> FALSE]
<1>1. pc = "idle" /\ files' = files /\ Len(input) < MaxFrames /\ input' = Append(input, f)
      /\ pc' \in {"opening", "processing"}
      /\ UNCHANGED <<config, configWritten, orphanarium, metadata_cache, files>>
  BY DEF Arrive
<1>2. f \in Frames
  <2>1. s \in Stops /\ Len(input) + 1 \in 0 .. MaxFrames
    BY <1>1, StopsAssumption, FilesAssumption DEF ModuleTyped
  <2> QED BY <2>1 DEF Frames
<1> HIDE DEF f
<1>3. input' \in Seq(Frames) /\ Len(input') = Len(input) + 1 /\ input'[Len(input')] = f
  BY <1>1, <1>2 DEF ModuleTyped
<1>4. Frame' = f
  BY <1>3 DEF Frame, Last
<1>5. ModuleTyped'
  BY <1>1, <1>3 DEF ModuleTyped
<1>6. Room'
  <2>1. Len(input) \in Nat /\ Len(files) \in Nat /\ MaxFrames \in Nat
    BY FilesAssumption DEF ModuleTyped
  <2>2. Len(files) <= Len(input) + 1 /\ Len(files) >= 1
    BY <1>1, <2>1 DEF Room, BetweenFiles
  <2> QED BY <1>1, <1>3, <2>1, <2>2 DEF Room, BetweenFiles
<1> QED BY <1>1, <1>2, <1>4, <1>5, <1>6 DEF f

LEMMA Process_Module ==
  ASSUME ModuleTyped, Room, Skip \/ HoldBack \/ WriteFrame
  PROVE  ModuleTyped' /\ Room'
<1>1. Processing /\ orphanarium' \in Seq(Frames)
  BY Processed
<1>2. files' \in Seq(Files) /\ file_counter' = file_counter /\ Frame \in Frames
  BY <1>1, Processed, SaveOK
<1>3. metadata_cache' \in Seq(Frames)
  BY <1>1, <1>2, KeptOK DEF Processing, CacheMetadata, ModuleTyped
<1>4. ModuleTyped'
  BY <1>1, <1>2, <1>3 DEF Processing, ModuleTyped
<1>5. Room'
  BY <1>1, <1>2 DEF Processing, Room, BetweenFiles, file_counter
<1> QED BY <1>4, <1>5

LEMMA WriteHead_Module ==
  ASSUME ModuleTyped, Room, WriteHead
  PROVE  ModuleTyped' /\ Room'
<1> DEFINE file == [head |-> metadata_cache, body |-> <<>>]
<1>1. files' = Append(files, file) /\ file \in Files
  BY DEF WriteHead, ModuleTyped, Files
<1> HIDE DEF file
<1>2. files' \in Seq(Files) /\ Len(files') = Len(files) + 1
  BY <1>1 DEF ModuleTyped
<1>3. /\ pc = "heading" /\ pc' = IF input = <<>> THEN "idle" ELSE "processing"
      /\ UNCHANGED <<config, input, configWritten, orphanarium, metadata_cache, sync_seen>>
  BY DEF WriteHead, module
<1>4. ModuleTyped'
  BY <1>2, <1>3 DEF ModuleTyped
<1>5. Room'
  <2>1. Len(input) \in Nat /\ Len(files) \in Nat /\ (input # <<>> => Len(input) >= 1)
    BY DEF ModuleTyped
  <2> QED BY <1>2, <1>3, <2>1 DEF Room, BetweenFiles
<1> QED BY <1>4, <1>5

LEMMA Next_Module ==
  ASSUME ModuleTyped, Room, [Next]_vars
  PROVE  ModuleTyped' /\ Room'
<1>1. CASE Quiet
  BY <1>1 DEF Quiet, module, ModuleTyped, Room, BetweenFiles
<1>2. ASSUME NEW s \in config.arriving, Arrive(s)
      PROVE  ModuleTyped' /\ Room'
  BY <1>2, Arrive_Module
<1> QED BY <1>1, <1>2, NextSorts, WriteHead_Module, Process_Module

-----------------------------------------------------------------------------
(* The latest frame of a stream.                                            *)

LEMMA LastOfIs ==
  ASSUME NEW S, NEW frames \in Seq(S), NEW s
  PROVE  /\ LastOf(frames, s) \in 0 .. Len(frames)
         /\ LastOf(frames, s) > 0 => frames[LastOf(frames, s)].stop = s
         /\ \A j \in LastOf(frames, s) + 1 .. Len(frames) : frames[j].stop # s
<1> DEFINE Good(i, n) == /\ i > 0 => frames[i].stop = s
                         /\ \A j \in i + 1 .. n : frames[j].stop # s
           T == {n \in 0 .. Len(frames) : \E i \in 0 .. n : Good(i, n)}
<1>0. Len(frames) \in Nat
  OBVIOUS
<1>1. 0 \in T
  <2>1. Good(0, 0)
    OBVIOUS
  <2> HIDE DEF Good
  <2> QED BY <1>0, <2>1
<1>2. ASSUME NEW n \in 0 .. Len(frames) - 1, n \in T
      PROVE  n + 1 \in T
  <2>1. PICK i \in 0 .. n : Good(i, n)
    BY <1>2
  <2>2. CASE frames[n + 1].stop = s
    <3>1. Good(n + 1, n + 1)
      BY <2>2
    <3> HIDE DEF Good
    <3> QED BY <1>0, <3>1
  <2>3. CASE frames[n + 1].stop # s
    <3>1. Good(i, n + 1)
      BY <2>1, <2>3
    <3> HIDE DEF Good
    <3> QED BY <1>0, <2>1, <3>1
  <2> QED BY <2>2, <2>3
<1> HIDE DEF T
<1>3. 0 .. Len(frames) \subseteq T
  BY <1>0, <1>1, <1>2, Joining!NatIndUpTo
<1>4. \E i \in 0 .. Len(frames) : Good(i, Len(frames))
  BY <1>0, <1>3 DEF T
<1> QED BY <1>4 DEF LastOf

LEMMA LastOfOnly ==
  ASSUME NEW S, NEW frames \in Seq(S), NEW s, NEW i \in 0 .. Len(frames),
         i > 0 => frames[i].stop = s, \A j \in i + 1 .. Len(frames) : frames[j].stop # s
  PROVE  LastOf(frames, s) = i
<1> DEFINE l == LastOf(frames, s)
<1>1. /\ l \in 0 .. Len(frames) /\ (l > 0 => frames[l].stop = s)
      /\ \A j \in l + 1 .. Len(frames) : frames[j].stop # s
  BY LastOfIs
<1> HIDE DEF l
<1>2. ~(l < i)
  BY <1>1
<1>3. ~(i < l)
  BY <1>1
<1>4. l = i
  BY <1>1, <1>2, <1>3
<1> QED BY <1>4 DEF l

\* What comes later goes before what was there.
LEMMA LatestJoin ==
  ASSUME NEW S, NEW a \in Seq(S), NEW x \in Seq(S), NEW s
  PROVE  LatestIn(a \o x, s) =
           IF \E j \in DOMAIN x : x[j].stop = s THEN LatestIn(x, s) ELSE LatestIn(a, s)
<1> DEFINE l == LastOf(a, s)  k == LastOf(x, s)  b == a \o x
<1>1. /\ l \in 0 .. Len(a) /\ (l > 0 => a[l].stop = s)
      /\ \A j \in l + 1 .. Len(a) : a[j].stop # s
  BY LastOfIs
<1>2. /\ k \in 0 .. Len(x) /\ (k > 0 => x[k].stop = s)
      /\ \A j \in k + 1 .. Len(x) : x[j].stop # s
  BY LastOfIs
<1>3. /\ b \in Seq(S) /\ Len(b) = Len(a) + Len(x) /\ DOMAIN x = 1 .. Len(x)
      /\ Len(a) \in Nat /\ Len(x) \in Nat
      /\ \A j \in 1 .. Len(a) : b[j] = a[j]
      /\ \A j \in Len(a) + 1 .. Len(a) + Len(x) : b[j] = x[j - Len(a)]
  OBVIOUS
<1> HIDE DEF l, k, b
<1>4. CASE k > 0
  <2>1. LastOf(b, s) = Len(a) + k
    <3>1. Len(a) + k \in 0 .. Len(b) /\ b[Len(a) + k] = x[k]
      BY <1>2, <1>3, <1>4
    <3>2. \A j \in Len(a) + k + 1 .. Len(b) : b[j].stop # s
      BY <1>2, <1>3, <1>4
    <3> QED BY <1>2, <1>3, <1>4, <3>1, <3>2, LastOfOnly
  <2>2. b[Len(a) + k] = x[k] /\ Len(a) + k # 0
    BY <1>2, <1>3, <1>4
  <2>3. k \in DOMAIN x /\ x[k].stop = s
    BY <1>2, <1>3, <1>4
  <2>4. \E j \in DOMAIN x : x[j].stop = s
    BY <2>3
  <2> QED BY <1>4, <2>1, <2>2, <2>4 DEF LatestIn, b, k
<1>5. CASE k = 0
  <2>0. \A j \in DOMAIN x : x[j].stop # s
    BY <1>2, <1>3, <1>5
  <2>1. LastOf(b, s) = l
    <3>1. l \in 0 .. Len(b) /\ (l > 0 => b[l] = a[l])
      BY <1>1, <1>3
    <3>2. ASSUME NEW j \in l + 1 .. Len(b)
          PROVE  b[j].stop # s
      <4>1. CASE j <= Len(a)
        BY <1>1, <1>3, <4>1
      <4>2. CASE j > Len(a)
        <5>1. b[j] = x[j - Len(a)] /\ j - Len(a) \in 1 .. Len(x)
          BY <1>1, <1>3, <4>2
        <5> QED BY <1>3, <2>0, <5>1
      <4> QED BY <1>1, <1>3, <4>1, <4>2
    <3> QED BY <1>1, <1>3, <3>1, <3>2, LastOfOnly
  <2>2. l # 0 => b[l] = a[l]
    BY <1>1, <1>3
  <2> QED BY <2>0, <2>1, <2>2 DEF LatestIn, b, l
<1> QED BY <1>2, <1>4, <1>5

LEMMA LatestEmpty ==
  ASSUME NEW s  PROVE LatestIn(<<>>, s) = 0
<1>1. <<>> \in Seq(Frames) /\ Len(<<>>) = 0
  OBVIOUS
<1>2. LastOf(<<>>, s) \in 0 .. Len(<<>>)
  BY <1>1, LastOfIs
<1> QED BY <1>1, <1>2 DEF LatestIn

LEMMA LatestAppend ==
  ASSUME NEW S, NEW a \in Seq(S), NEW f \in S, NEW s
  PROVE  LatestIn(Append(a, f), s) = IF f.stop = s THEN f.id ELSE LatestIn(a, s)
<1> DEFINE x == <<f>>
<1>1. x \in Seq(S) /\ Len(x) = 1 /\ x[1] = f /\ Append(a, f) = a \o x /\ DOMAIN x = 1 .. 1
  OBVIOUS
<1> HIDE DEF x
<1>2. LatestIn(a \o x, s) =
        IF \E j \in DOMAIN x : x[j].stop = s THEN LatestIn(x, s) ELSE LatestIn(a, s)
  BY <1>1, LatestJoin
<1>3. CASE f.stop = s
  <2>1. LastOf(x, s) = 1
    BY <1>1, <1>3, LastOfOnly
  <2>2. LatestIn(x, s) = f.id
    BY <1>1, <2>1 DEF LatestIn
  <2> QED BY <1>1, <1>2, <1>3, <2>2
<1>4. CASE f.stop # s
  BY <1>1, <1>2, <1>4
<1> QED BY <1>3, <1>4

\* Two beginnings with the same latest frame stay alike.
LEMMA LatestSame ==
  ASSUME NEW S, NEW a \in Seq(S), NEW b \in Seq(S), NEW x \in Seq(S), NEW s,
         LatestIn(a, s) = LatestIn(b, s) \/ \E j \in DOMAIN x : x[j].stop = s
  PROVE  LatestIn(a \o x, s) = LatestIn(b \o x, s)
BY LatestJoin

\* The writer's lists of frames have the one that came last.
LEMMA LatestKept ==
  ASSUME NEW kept \in Seq(Frames), NEW f \in Frames, NEW s
  PROVE  LatestIn(Kept(kept, f), s) = IF f.stop = s THEN f.id ELSE LatestIn(kept, s)
<1>1. CASE ~\E i \in DOMAIN kept : kept[i].stop = f.stop
  <2>1. Kept(kept, f) = Append(kept, f)
    BY <1>1 DEF Kept
  <2> QED BY <2>1, LatestAppend
<1>2. CASE \E i \in DOMAIN kept : kept[i].stop = f.stop
  <2> DEFINE new == Kept(kept, f)  l == LastOf(kept, s)
  <2>1. /\ new = [i \in DOMAIN kept |-> IF kept[i].stop = f.stop THEN f ELSE kept[i]]
        /\ new \in Seq(Frames)
    BY <1>2, KeptOK DEF Kept
  <2>2. Len(new) = Len(kept) /\ DOMAIN kept = 1 .. Len(kept) /\ Len(kept) \in Nat
    BY <2>1
  <2>3. \A i \in DOMAIN kept : new[i].stop = kept[i].stop
    BY <2>1
  <2>4. /\ l \in 0 .. Len(kept) /\ (l > 0 => kept[l].stop = s)
        /\ \A j \in l + 1 .. Len(kept) : kept[j].stop # s
    BY LastOfIs
  <2> HIDE DEF new, l
  <2>5. LastOf(new, s) = l
    <3>1. l > 0 => new[l].stop = s
      BY <2>2, <2>3, <2>4
    <3>2. \A j \in l + 1 .. Len(new) : new[j].stop # s
      BY <2>2, <2>3, <2>4
    <3>3. l \in 0 .. Len(new) /\ new \in Seq(Frames)
      BY <2>1, <2>2, <2>4
    <3> QED BY <3>1, <3>2, <3>3, LastOfOnly
  <2>6. CASE f.stop = s
    <3>1. l # 0
      BY <1>2, <2>2, <2>4, <2>6
    <3>2. new[l] = f
      BY <2>1, <2>2, <2>4, <2>6, <3>1
    <3> QED BY <2>5, <2>6, <3>1, <3>2 DEF LatestIn, new
  <2>7. CASE f.stop # s
    <3>1. l # 0 => new[l] = kept[l]
      BY <2>1, <2>2, <2>4, <2>7
    <3> QED BY <2>5, <2>7, <3>1 DEF LatestIn, new, l
  <2> QED BY <2>6, <2>7
<1> QED BY <1>1, <1>2

-----------------------------------------------------------------------------
(* What is written, file by file.                                           *)

LEMMA Joins ==
  ASSUME NEW S, NEW a \in Seq(S), NEW b \in Seq(S), NEW c \in Seq(S)
  PROVE  /\ a \o b \in Seq(S) /\ a \o <<>> = a /\ <<>> \o a = a
         /\ (a \o b) \o c = a \o (b \o c)
<1>1. a \o b \in Seq(S)
  OBVIOUS
<1>2. a \o <<>> = a
  OBVIOUS
<1>3. <<>> \o a = a
  OBVIOUS
<1>4. (a \o b) \o c = a \o (b \o c)
  OBVIOUS
<1> QED BY <1>1, <1>2, <1>3, <1>4

Joined(fs, n) == Joining!Fold(<<>>, [m \in 1 .. n |-> fs[m].body])

LEMMA JoinedIs ==
  ASSUME NEW fs \in Seq(Files)
  PROVE  /\ Joined(fs, 0) = <<>>
         /\ \A n \in 1 .. Len(fs) : Joined(fs, n) = Joined(fs, n - 1) \o fs[n].body
         /\ \A n \in 0 .. Len(fs) : Joined(fs, n) \in Seq(Frames)
<1> DEFINE bodies(n) == [m \in 1 .. n |-> fs[m].body]
<1>1. Len(fs) \in Nat /\ \A m \in 1 .. Len(fs) : fs[m].body \in Seq(Frames)
  <2>1. \A m \in 1 .. Len(fs) : fs[m] \in Files
    OBVIOUS
  <2> QED BY <2>1 DEF Files
<1>2. \A n \in 0 .. Len(fs) : bodies(n) \in Seq(Seq(Frames)) /\ Len(bodies(n)) = n
  BY <1>1
<1>3. ASSUME NEW n \in 1 .. Len(fs)
      PROVE  Joined(fs, n) = Joined(fs, n - 1) \o fs[n].body
  <2>1. n - 1 \in 0 .. Len(fs) /\ n \in Nat /\ fs[n].body \in Seq(Frames)
    BY <1>1
  <2>2. bodies(n - 1) \in Seq(Seq(Frames)) /\ Len(bodies(n - 1)) = n - 1
    BY <1>2, <2>1
  <2>3. bodies(n) = Append(bodies(n - 1), fs[n].body)
    BY <2>1, <2>2
  <2>4. Joined(fs, n) = Joining!Fold(<<>>, bodies(n)) /\ Joined(fs, n - 1) = Joining!Fold(<<>>, bodies(n - 1))
    BY DEF Joined
  <2> HIDE DEF bodies
  <2>5. Joining!Fold(<<>>, bodies(n)) = Concat(Joining!Fold(<<>>, bodies(n - 1)), fs[n].body)
    BY <2>1, <2>2, <2>3, Joining!FoldAppend
  <2> QED BY <2>4, <2>5 DEF Concat
<1>4. Joined(fs, 0) = <<>>
  <2>1. Joined(fs, 0) = Joining!Fold(<<>>, bodies(0))
    BY DEF Joined
  <2>2. Len(bodies(0)) = 0
    BY <1>1, <1>2
  <2> HIDE DEF bodies
  <2> QED BY <2>1, <2>2, Joining!FoldEmpty
<1> HIDE DEF bodies
<1> DEFINE T == {n \in 0 .. Len(fs) : Joined(fs, n) \in Seq(Frames)}
<1>5. 0 \in T
  <2>1. Joined(fs, 0) \in Seq(Frames) /\ 0 \in 0 .. Len(fs)
    <3>1. <<>> \in Seq(Frames)
      OBVIOUS
    <3>2. 0 \in 0 .. Len(fs)
      BY <1>1
    <3> HIDE DEF bodies, T
    <3> QED BY <1>4, <3>1, <3>2
  <2> QED BY <2>1
<1>6. ASSUME NEW n \in 0 .. Len(fs) - 1, n \in T
      PROVE  n + 1 \in T
  <2>1. n + 1 \in 1 .. Len(fs) /\ (n + 1) - 1 = n /\ Joined(fs, n) \in Seq(Frames)
    BY <1>1, <1>6
  <2>2. Joined(fs, n + 1) = Joined(fs, n) \o fs[n + 1].body
    BY <1>3, <2>1
  <2>3. fs[n + 1].body \in Seq(Frames)
    BY <1>1, <2>1
  <2>4. Joined(fs, n + 1) \in Seq(Frames)
    BY <2>1, <2>2, <2>3, Joins
  <2>5. n + 1 \in 0 .. Len(fs)
    BY <1>1
  <2> QED BY <2>4, <2>5
<1> HIDE DEF T
<1>7. 0 .. Len(fs) \subseteq T
  BY <1>1, <1>5, <1>6, Joining!NatIndUpTo
<1> QED BY <1>3, <1>4, <1>7 DEF T

\* Only the bodies of the files count.
LEMMA JoinedSame ==
  ASSUME NEW fs, NEW gs, NEW n \in Int, \A m \in 1 .. n : fs[m].body = gs[m].body
  PROVE  Joined(fs, n) = Joined(gs, n)
<1>1. [m \in 1 .. n |-> fs[m].body] = [m \in 1 .. n |-> gs[m].body]
  OBVIOUS
<1> QED BY <1>1 DEF Joined

LEMMA BeforeIs ==
  /\ \A n : Before(n) = Joined(files, n - 1)
  /\ \A n : Before(n)' = Joined(files', n - 1)
  /\ Len(files) \in Nat => Saved = Joined(files, Len(files))
  /\ Len(files') \in Nat => Saved' = Joined(files', Len(files'))
<1>1. \A n \in Nat : (n + 1) - 1 = n
  OBVIOUS
<1> QED BY <1>1 DEF Before, Joined, Saved, file_counter

\* What a frame brings into the file.
Written ==
  IF ~Wanted(Frame.stop) \/ Orphanable(Frame.stop) THEN <<>>
  ELSE IF Needy(Frame.stop) THEN Append(orphanarium, Current) ELSE <<Current>>
Addition == ConfigPrefix \o Written

LEMMA ProcessDoes ==
  ASSUME ModuleTyped, Room, Skip \/ HoldBack \/ WriteFrame
  PROVE  /\ pc = "processing" /\ pc' = "idle" /\ Free /\ configWritten' = TRUE
         /\ UNCHANGED <<config, input, sync_seen>>
         /\ metadata_cache' = IF Frame.stop \in config.metadata /\ Wanted(Frame.stop)
                                THEN Kept(metadata_cache, Frame) ELSE metadata_cache
         /\ orphanarium' = IF ~Wanted(Frame.stop) THEN orphanarium
                           ELSE IF Orphanable(Frame.stop) THEN Kept(orphanarium, Current)
                           ELSE IF Needy(Frame.stop) THEN <<>> ELSE orphanarium
         /\ Frame \in Frames /\ Current \in Frames
         /\ ConfigPrefix \in Seq(Frames) /\ Written \in Seq(Frames) /\ Addition \in Seq(Frames)
         /\ file_counter \in 1 .. file_counter /\ file_counter' = file_counter
         /\ files'[file_counter].head = files[file_counter].head
         /\ files'[file_counter].body = files[file_counter].body \o Addition
         /\ \A n \in 1 .. file_counter : n # file_counter => files'[n] = files[n]
         /\ \A n \in 1 .. file_counter : Before(n)' = Before(n)
         /\ Saved' = Saved \o Addition
<1>1. Processing /\ pc = "processing"
  BY Processed DEF Processing
<1>2. Frame \in Frames /\ Current \in Frames
  BY <1>1, Processed, SaveOK
<1>3. /\ Save(Written)
      /\ orphanarium' = IF ~Wanted(Frame.stop) THEN orphanarium
                        ELSE IF Orphanable(Frame.stop) THEN Kept(orphanarium, Current)
                        ELSE IF Needy(Frame.stop) THEN <<>> ELSE orphanarium
  <2>1. CASE Skip
    BY <2>1 DEF Skip, Written
  <2>2. CASE HoldBack
    BY <2>2 DEF HoldBack, Written
  <2>3. CASE WriteFrame
    BY <2>3 DEF WriteFrame, Written
  <2> QED BY <2>1, <2>2, <2>3
<1>4. Written \in Seq(Frames)
  BY <1>2 DEF Written, ModuleTyped
<1>5. ConfigPrefix \in Seq(Frames)
  <2>1. ConfigFrame \in Frames
    BY StopsAssumption, FilesAssumption DEF ConfigFrame, Frames
  <2> QED BY <2>1 DEF ConfigPrefix
<1> DEFINE n == file_counter
<1>6. /\ files' = [files EXCEPT ![n].body = @ \o Addition] /\ Addition \in Seq(Frames)
      /\ n' = n /\ files' \in Seq(Files)
  BY <1>1, <1>3, <1>4, SaveOK DEF Addition
<1>7. n \in 1 .. n /\ n \in Nat /\ files[n] \in Files /\ n \in DOMAIN files
  BY <1>1 DEF ModuleTyped, Room, BetweenFiles, file_counter
<1> HIDE DEF n
<1>8. files[n] = [head |-> files[n].head, body |-> files[n].body]
  BY <1>7 DEF Files
<1>9. n \in DOMAIN files' /\ DOMAIN files' = DOMAIN files /\ files \in Seq(Files) /\ n = Len(files)
  BY <1>6, <1>7 DEF ModuleTyped, n, file_counter
<1>10. /\ files'[n].head = files[n].head /\ files'[n].body = files[n].body \o Addition
       /\ \A m \in 1 .. n : m # n => files'[m] = files[m]
  <2>1. files'[n] = [files[n] EXCEPT !.body = files[n].body \o Addition]
    BY <1>6, <1>7
  <2>2. files'[n] = [head |-> files[n].head, body |-> files[n].body \o Addition]
    BY <1>8, <2>1
  <2>3. files'[n].head = files[n].head /\ files'[n].body = files[n].body \o Addition
    BY <2>2
  <2>4. \A m \in 1 .. n : m # n => files'[m] = files[m]
    BY <1>6, <1>7, <1>9 DEF n, file_counter
  <2> QED BY <2>3, <2>4
<1>11. \A m \in 1 .. n : Joined(files', m - 1) = Joined(files, m - 1)
  <2>1. ASSUME NEW m \in 1 .. n
        PROVE  Joined(files', m - 1) = Joined(files, m - 1)
    <3>1. m - 1 \in Int /\ \A l \in 1 .. m - 1 : l \in 1 .. n /\ l # n
      BY <1>7
    <3>2. \A l \in 1 .. m - 1 : files'[l].body = files[l].body
      BY <1>10, <3>1
    <3> QED BY <3>1, <3>2, JoinedSame
  <2> QED BY <2>1
<1>12. Saved' = Saved \o Addition
  <2>1. Len(files') = n /\ n \in 1 .. Len(files) /\ n \in 1 .. Len(files')
    BY <1>6, <1>7, <1>9 DEF n, file_counter
  <2>2. Joined(files, n) = Joined(files, n - 1) \o files[n].body
    BY <1>9, <2>1, JoinedIs
  <2>3. Joined(files', n) = Joined(files', n - 1) \o files'[n].body
    BY <1>6, <2>1, JoinedIs
  <2>4. Joined(files, n - 1) \in Seq(Frames) /\ files[n].body \in Seq(Frames)
    <3>1. n - 1 \in 0 .. Len(files)
      BY <2>1
    <3> QED BY <1>7, <1>9, <3>1, JoinedIs DEF Files
  <2>5. Saved = Joined(files, n) /\ Saved' = Joined(files', n)
    BY <1>7, <1>9, <2>1, BeforeIs
  <2>6. Joined(files', n - 1) = Joined(files, n - 1) /\ files'[n].body = files[n].body \o Addition
    BY <1>7, <1>10, <1>11
  <2> DEFINE a == Joined(files, n - 1)  b == files[n].body  c == Addition
  <2>7. (a \o b) \o c = a \o (b \o c)
    <3>1. a \in Seq(Frames) /\ b \in Seq(Frames) /\ c \in Seq(Frames)
      BY <1>6, <2>4
    <3> HIDE DEF a, b, c
    <3> QED BY <3>1, Joins
  <2> QED BY <2>2, <2>3, <2>5, <2>6, <2>7
<1>13. \A m \in 1 .. n : Before(m)' = Before(m)
  BY <1>11, BeforeIs
<1> QED BY <1>1, <1>2, <1>3, <1>4, <1>5, <1>6, <1>7, <1>10, <1>12, <1>13 DEF Processing, CacheMetadata, n

-----------------------------------------------------------------------------
(* Each file can be read by itself.                                         *)

\* Only sync frames are held back.
SyncOnly == \A setting \in Configs : setting.dropOrphan \subseteq {setting.sync}

Alike(n, s) == LatestIn(files[n].head, s) = LatestIn(Before(n), s)

\* What is held back is sync frames that are wanted.
OrphansSync ==
  /\ \A x \in DOMAIN orphanarium : orphanarium[x].stop = config.sync
  /\ orphanarium # <<>> => sync_seen /\ Wanted(config.sync)
SyncSeen == input # <<>> /\ Frame.stop = config.sync => sync_seen
Fresh == ~configWritten => Saved = <<>>

\* The metadata kept for the next file are the latest that were written, and
\* so were those at the beginning of each file when it was begun.
MetaAlike ==
  /\ \A s \in config.metadata \ {config.sync} :
       LatestIn(metadata_cache, s) = LatestIn(Saved, s)
  /\ \A n \in DOMAIN files : \A s \in config.metadata \ {config.sync} : Alike(n, s)

NoSync ==
  ~sync_seen \/ ~Wanted(config.sync) =>
    LatestIn(metadata_cache, config.sync) = 0 /\ LatestIn(Saved, config.sync) = 0
SplitAtSync == BetweenFiles => ~sync_seen \/ (input # <<>> /\ Frame.stop = config.sync)

\* A sync frame comes before what needs one, in the file or before it.
HasSync(body, k) == \E j \in 1 .. k : body[j].stop = config.sync
Opens(body) ==
  \A k \in DOMAIN body : body[k].stop \notin {TrayInfo, Simulation} => HasSync(body, k)
SyncAtHand ==
  \/ orphanarium # <<>>
  \/ pc = "processing" /\ Frame.stop = config.sync /\ Wanted(config.sync)
OpenedFile(n) ==
  \/ Alike(n, config.sync)
  \/ /\ Opens(files[n].body)
     /\ n = Len(files) /\ ~BetweenFiles =>
          HasSync(files[n].body, Len(files[n].body)) \/ SyncAtHand
Opened == \A n \in DOMAIN files : OpenedFile(n)

ContentInv ==
  /\ ModuleTyped /\ Room
  /\ OrphansSync /\ SyncSeen /\ Fresh /\ MetaAlike /\ NoSync /\ SplitAtSync /\ Opened

LEMMA ContentInv_SelfContained == ContentInv => SelfContained
<1> SUFFICES ASSUME ContentInv,
                    NEW n \in DOMAIN files, NEW k \in DOMAIN files[n].body,
                    files[n].body[k].stop \notin {TrayInfo, Simulation},
                    NEW s \in config.metadata \cup {config.sync}
             PROVE  LatestIn(files[n].head \o SubSeq(files[n].body, 1, k), s) =
                      LatestIn(Before(n) \o SubSeq(files[n].body, 1, k), s)
  BY DEF SelfContained
<1> DEFINE upto == SubSeq(files[n].body, 1, k)
<1>1. files[n] \in Files /\ files \in Seq(Files)
  BY DEF ContentInv, ModuleTyped
<1>2. files[n].head \in Seq(Frames) /\ files[n].body \in Seq(Frames)
  BY <1>1 DEF Files
<1>3. upto \in Seq(Frames) /\ DOMAIN upto = 1 .. k /\ k \in Nat
      /\ \A j \in 1 .. k : upto[j] = files[n].body[j]
  BY <1>2
<1>4. Before(n) \in Seq(Frames)
  <2>1. n - 1 \in 0 .. Len(files)
    BY <1>1
  <2> QED BY <1>1, <2>1, BeforeIs, JoinedIs
<1>5. LatestIn(files[n].head, s) = LatestIn(Before(n), s) \/ \E j \in DOMAIN upto : upto[j].stop = s
  <2>1. CASE s # config.sync
    BY <2>1 DEF ContentInv, MetaAlike, Alike
  <2>2. CASE s = config.sync
    <3>1. Alike(n, s) \/ HasSync(files[n].body, k)
      BY <2>2 DEF ContentInv, Opened, OpenedFile, Opens
    <3>2. CASE HasSync(files[n].body, k)
      BY <1>3, <2>2, <3>2 DEF HasSync
    <3> QED BY <3>1, <3>2 DEF Alike
  <2> QED BY <2>1, <2>2
<1> HIDE DEF upto
<1>6. LatestIn(files[n].head \o upto, s) = LatestIn(Before(n) \o upto, s)
  BY <1>2, <1>3, <1>4, <1>5, LatestSame
<1> QED BY <1>6 DEF upto

LEMMA Init_Content == Init => ContentInv
<1> SUFFICES ASSUME Init PROVE ContentInv
  OBVIOUS
<1>1. ModuleTyped /\ Room
  BY Init_Base DEF Base
<1>2. files = <<>> /\ Len(files) = 0 /\ DOMAIN files = {} /\ input = <<>> /\ orphanarium = <<>>
      /\ metadata_cache = <<>> /\ sync_seen = FALSE /\ DOMAIN orphanarium = {}
  BY DEF Init
<1>3. Saved = <<>>
  <2>1. files \in Seq(Files)
    BY <1>2
  <2>2. Len(files) \in Nat => Saved = Joined(files, Len(files))
    BY BeforeIs
  <2>3. Joined(files, 0) = <<>>
    BY <2>1, JoinedIs
  <2> QED BY <1>2, <2>2, <2>3
<1>4. \A s : LatestIn(metadata_cache, s) = 0 /\ LatestIn(Saved, s) = 0
  BY <1>2, <1>3, LatestEmpty
<1> QED BY <1>1, <1>2, <1>3, <1>4 DEF ContentInv, OrphansSync, SyncSeen, Fresh, MetaAlike,
      NoSync, SplitAtSync, Opened


LEMMA BeforeSame ==
  ASSUME files' = files
  PROVE  Saved' = Saved /\ \A n : Before(n)' = Before(n)
BY DEF Saved, Before, file_counter

LEMMA Quiet_Content ==
  ASSUME ContentInv, Quiet
  PROVE  ContentInv'
<1>1. /\ UNCHANGED <<config, input, configWritten, orphanarium, metadata_cache, sync_seen, files>>
      /\ BetweenFiles' = BetweenFiles /\ (pc' = "processing") = (pc = "processing")
      /\ Frame' = Frame
  BY DEF Quiet, module, Frame
<1>2. Saved' = Saved /\ \A n : Before(n)' = Before(n)
  BY <1>1, BeforeSame
<1>3. ModuleTyped' /\ Room'
  BY <1>1 DEF ContentInv, Quiet, ModuleTyped, Room, BetweenFiles
<1>4. OrphansSync' /\ SyncSeen' /\ Fresh'
  BY <1>1, <1>2 DEF ContentInv, OrphansSync, SyncSeen, Fresh, Wanted
<1>5. \A n, s : Alike(n, s)' = Alike(n, s)
  BY <1>1, <1>2 DEF Alike
<1>6. MetaAlike' /\ NoSync' /\ SplitAtSync'
  BY <1>1, <1>2, <1>5 DEF ContentInv, MetaAlike, NoSync, SplitAtSync, Wanted
<1>7. ASSUME NEW n \in DOMAIN files, OpenedFile(n)
      PROVE  OpenedFile(n)'
  BY <1>1, <1>5, <1>7 DEF OpenedFile, Opens, HasSync, SyncAtHand, Wanted
<1>8. Opened'
  BY <1>1, <1>7 DEF ContentInv, Opened
<1> QED BY <1>3, <1>4, <1>6, <1>8 DEF ContentInv

LEMMA ArriveDoes ==
  ASSUME NEW s, Arrive(s)
  PROVE  /\ pc = "idle" /\ pc' \in {"opening", "processing"}
         /\ sync_seen' = (sync_seen \/ s = config.sync)
         /\ pc' = "opening" => s = config.sync \/ ~sync_seen'
         /\ UNCHANGED <<config, configWritten, orphanarium, metadata_cache, files>>
BY DEF Arrive, Split

LEMMA Arrive_Content ==
  ASSUME ContentInv, NEW s \in config.arriving, Arrive(s)
  PROVE  ContentInv'
<1>1. /\ ModuleTyped' /\ Room' /\ Frame'.stop = s
  BY Arrive_Module DEF ContentInv
<1>2. /\ pc = "idle" /\ pc' \in {"opening", "processing"}
      /\ sync_seen' = (sync_seen \/ s = config.sync)
      /\ pc' = "opening" => s = config.sync \/ ~sync_seen'
      /\ UNCHANGED <<config, configWritten, orphanarium, metadata_cache, files>>
  BY ArriveDoes
<1>3. Saved' = Saved /\ \A n : Before(n)' = Before(n)
  BY <1>2, BeforeSame
<1>4. ~BetweenFiles /\ (BetweenFiles' => pc' = "opening")
  BY <1>2 DEF BetweenFiles
<1>5. input' # <<>>
  BY <1>1, Arrive_Module DEF ContentInv, ModuleTyped
<1>6. OrphansSync' /\ SyncSeen' /\ Fresh'
  BY <1>1, <1>2, <1>3 DEF ContentInv, OrphansSync, SyncSeen, Fresh, Wanted
<1>7. \A n, t : Alike(n, t)' = Alike(n, t)
  BY <1>2, <1>3 DEF Alike
<1>8. MetaAlike' /\ NoSync' /\ SplitAtSync'
  BY <1>1, <1>2, <1>3, <1>4, <1>5, <1>7 DEF ContentInv, MetaAlike, NoSync, SplitAtSync, Wanted
<1>9. ASSUME NEW n \in DOMAIN files, OpenedFile(n)
      PROVE  OpenedFile(n)'
  BY <1>2, <1>4, <1>7, <1>9 DEF OpenedFile, Opens, HasSync, SyncAtHand, Wanted
<1>10. Opened'
  BY <1>2, <1>9 DEF ContentInv, Opened
<1> QED BY <1>1, <1>6, <1>8, <1>10 DEF ContentInv

\* A new file: what came before it is all that was written.
LEMMA WriteHeadDoes ==
  ASSUME ModuleTyped, Room, WriteHead, NEW N, N = Len(files)
  PROVE  /\ BetweenFiles /\ pc' = (IF input = <<>> THEN "idle" ELSE "processing")
         /\ UNCHANGED <<config, input, configWritten, orphanarium, metadata_cache, sync_seen>>
         /\ files' \in Seq(Files) /\ Len(files') = N + 1 /\ N \in Nat
         /\ DOMAIN files' = 1 .. N + 1 /\ DOMAIN files = 1 .. N
         /\ \A n \in 1 .. N : files'[n] = files[n] /\ Before(n)' = Before(n)
         /\ files'[N + 1] = [head |-> metadata_cache, body |-> <<>>]
         /\ Before(N + 1)' = Saved /\ Saved' = Saved
<1> DEFINE file == [head |-> metadata_cache, body |-> <<>>]
<1>1. /\ files' = Append(files, file) /\ file \in Files /\ files \in Seq(Files)
      /\ pc = "heading" /\ pc' = IF input = <<>> THEN "idle" ELSE "processing"
      /\ UNCHANGED <<config, input, configWritten, orphanarium, metadata_cache, sync_seen>>
  BY DEF WriteHead, ModuleTyped, Files, module
<1>2. file.body = <<>>
  OBVIOUS
<1> HIDE DEF file
<1>3. /\ files' \in Seq(Files) /\ Len(files') = N + 1 /\ N \in Nat /\ files'[N + 1] = file
      /\ \A n \in 1 .. N : files'[n] = files[n]
      /\ DOMAIN files' = 1 .. N + 1 /\ DOMAIN files = 1 .. N
  BY <1>1
<1>4. ASSUME NEW n \in 0 .. N
      PROVE  Joined(files', n) = Joined(files, n)
  <2>1. n \in Int /\ \A m \in 1 .. n : files'[m].body = files[m].body
    BY <1>3
  <2> QED BY <2>1, JoinedSame
<1>5. \A n \in 1 .. N : Before(n)' = Before(n)
  <2>1. \A n \in 1 .. N : n - 1 \in 0 .. N
    BY <1>3
  <2> QED BY <1>4, <2>1, BeforeIs
<1>6. Saved = Joined(files, N) /\ N = Len(files) /\ Saved' = Joined(files', N + 1)
  BY <1>3, BeforeIs
<1>7. Before(N + 1)' = Saved
  <2>1. (N + 1) - 1 = N /\ N \in 0 .. N
    BY <1>3
  <2> QED BY <1>4, <1>6, <2>1, BeforeIs
<1>8. Saved' = Saved
  <2>1. N + 1 \in 1 .. Len(files') /\ (N + 1) - 1 = N /\ N \in 0 .. N /\ N \in 0 .. Len(files)
    BY <1>3, <1>6
  <2>2. Joined(files', N + 1) = Joined(files', N) \o <<>>
    BY <1>2, <1>3, <2>1, JoinedIs
  <2>3. Joined(files', N) = Saved /\ Saved \in Seq(Frames)
    BY <1>1, <1>4, <1>6, <2>1, JoinedIs
  <2> QED BY <1>6, <2>2, <2>3, Joins
<1> QED BY <1>1, <1>3, <1>5, <1>7, <1>8 DEF BetweenFiles, file

LEMMA WriteHead_Content ==
  ASSUME ContentInv, WriteHead
  PROVE  ContentInv'
<1>0. PICK N : N = Len(files)
  OBVIOUS
<1>1. /\ BetweenFiles /\ pc' = (IF input = <<>> THEN "idle" ELSE "processing")
      /\ UNCHANGED <<config, input, configWritten, orphanarium, metadata_cache, sync_seen>>
      /\ Len(files') = N + 1 /\ N \in Nat
      /\ DOMAIN files' = 1 .. N + 1 /\ DOMAIN files = 1 .. N
      /\ \A n \in 1 .. N : files'[n] = files[n] /\ Before(n)' = Before(n)
      /\ files'[N + 1] = [head |-> metadata_cache, body |-> <<>>]
      /\ Before(N + 1)' = Saved /\ Saved' = Saved
  BY <1>0, WriteHeadDoes DEF ContentInv
<1>2. ModuleTyped' /\ Room' /\ Frame' = Frame
  BY <1>1, WriteHead_Module DEF ContentInv, Frame
<1>3. OrphansSync' /\ SyncSeen' /\ Fresh' /\ NoSync'
  BY <1>1, <1>2 DEF ContentInv, OrphansSync, SyncSeen, Fresh, NoSync, Wanted
<1>4. ~BetweenFiles' /\ SplitAtSync'
  BY <1>1 DEF BetweenFiles, SplitAtSync
<1>5. \A n \in 1 .. N : \A s : Alike(n, s)' = Alike(n, s)
  BY <1>1 DEF Alike
<1>6. \A s : LatestIn(metadata_cache, s) = LatestIn(Saved, s) => Alike(N + 1, s)'
  BY <1>1 DEF Alike
<1>7. MetaAlike'
  <2>1. ASSUME NEW n \in DOMAIN files', NEW s \in config.metadata \ {config.sync}
        PROVE  Alike(n, s)'
    <3>1. n \in 1 .. N \/ n = N + 1
      BY <1>1
    <3> QED BY <1>1, <1>5, <1>6, <3>1 DEF ContentInv, MetaAlike
  <2> QED BY <1>1, <2>1 DEF ContentInv, MetaAlike
<1>8. ASSUME NEW n \in 1 .. N
      PROVE  OpenedFile(n)'
  <2>1. n # Len(files') /\ files'[n] = files[n] /\ OpenedFile(n)
    BY <1>1 DEF ContentInv, Opened
  <2>2. Alike(n, config.sync) \/ Opens(files[n].body)
    BY <2>1 DEF OpenedFile
  <2>3. Opens(files[n].body)' = Opens(files[n].body)
    BY <1>1, <2>1 DEF Opens, HasSync
  <2> QED BY <1>1, <1>5, <2>1, <2>2, <2>3 DEF OpenedFile
<1>9. OpenedFile(N + 1)'
  <2>1. CASE ~sync_seen \/ ~Wanted(config.sync)
    BY <1>1, <1>6, <2>1 DEF ContentInv, NoSync, OpenedFile
  <2>2. CASE sync_seen /\ Wanted(config.sync)
    <3>1. input # <<>> /\ Frame.stop = config.sync
      BY <1>1, <2>2 DEF ContentInv, SplitAtSync
    <3>2. SyncAtHand'
      BY <1>1, <1>2, <2>2, <3>1 DEF SyncAtHand, Wanted
    <3>3. files'[N + 1].body = <<>> /\ DOMAIN <<>> = {}
      BY <1>1
    <3>4. Opens(files[N + 1].body)'
      BY <3>3 DEF Opens
    <3> QED BY <3>2, <3>4 DEF OpenedFile
  <2> QED BY <2>1, <2>2
<1>10. Opened'
  <2>1. \A n \in DOMAIN files' : n \in 1 .. N \/ n = N + 1
    BY <1>1
  <2> QED BY <1>8, <1>9, <2>1 DEF Opened
<1> QED BY <1>2, <1>3, <1>4, <1>7, <1>10 DEF ContentInv


\* What is in a list of frames after one more.
LEMMA KeptHas ==
  ASSUME NEW kept \in Seq(Frames), NEW f \in Frames
  PROVE  /\ Kept(kept, f) # <<>>
         /\ \A x \in DOMAIN Kept(kept, f) :
              Kept(kept, f)[x] = f \/ \E y \in DOMAIN kept : Kept(kept, f)[x] = kept[y]
<1>1. CASE ~\E i \in DOMAIN kept : kept[i].stop = f.stop
  <2>1. Kept(kept, f) = Append(kept, f)
    BY <1>1 DEF Kept
  <2> QED BY <2>1
<1>2. CASE \E i \in DOMAIN kept : kept[i].stop = f.stop
  <2>1. Kept(kept, f) = [i \in DOMAIN kept |-> IF kept[i].stop = f.stop THEN f ELSE kept[i]]
    BY <1>2 DEF Kept
  <2>2. DOMAIN Kept(kept, f) = DOMAIN kept /\ DOMAIN kept # {} /\ DOMAIN <<>> = {}
    BY <1>2, <2>1
  <2> QED BY <2>1, <2>2
<1> QED BY <1>1, <1>2

\* How the latest frame of a stream changes, if it is not one held back.
LEMMA LatestAddition ==
  ASSUME ContentInv, Skip \/ HoldBack \/ WriteFrame, NEW s,
         \A x \in DOMAIN orphanarium : orphanarium[x].stop # s,
         ~(Frame.stop = s /\ Wanted(s) /\ Orphanable(s))
  PROVE  LatestIn(Saved', s) =
           IF Frame.stop = s /\ Wanted(s) THEN Frame.id ELSE LatestIn(Saved, s)
<1>1. /\ Saved' = Saved \o Addition /\ Frame \in Frames /\ Current \in Frames
      /\ ConfigPrefix \in Seq(Frames) /\ Written \in Seq(Frames)
  BY ProcessDoes DEF ContentInv
<1>2. Current.stop = Frame.stop /\ Current.id = Frame.id
  BY <1>1 DEF Current, Frames
<1>3. Saved \in Seq(Frames) /\ orphanarium \in Seq(Frames)
  <2>1. files \in Seq(Files) /\ orphanarium \in Seq(Frames)
    BY DEF ContentInv, ModuleTyped
  <2>2. Len(files) \in 0 .. Len(files) /\ Len(files) \in Nat
    BY <2>1
  <2> QED BY <2>1, <2>2, BeforeIs, JoinedIs
<1> DEFINE base == Saved \o ConfigPrefix
<1>4. base \in Seq(Frames) /\ Saved' = base \o Written
  BY <1>1, <1>3, Joins DEF Addition
<1>5. LatestIn(base, s) = LatestIn(Saved, s)
  <2>1. CASE ConfigPrefix = <<>>
    BY <1>3, <2>1, Joins
  <2>2. CASE ConfigPrefix # <<>>
    <3>1. ConfigPrefix = <<ConfigFrame>> /\ Saved = <<>>
      BY <2>2 DEF ConfigPrefix, Configures, ContentInv, Fresh
    <3>2. base = Append(<<>>, ConfigFrame) /\ ConfigFrame \in Frames /\ <<>> \in Seq(Frames)
      BY <1>1, <3>1, Joins
    <3>3. LatestIn(base, s) = IF ConfigFrame.stop = s THEN ConfigFrame.id ELSE 0
      <4> HIDE DEF base
      <4>1. LatestIn(Append(<<>>, ConfigFrame), s)
              = IF ConfigFrame.stop = s THEN ConfigFrame.id ELSE LatestIn(<<>>, s)
        BY <3>2, LatestAppend
      <4> QED BY <3>2, <4>1, LatestEmpty
    <3> QED BY <3>1, <3>3, LatestEmpty DEF ConfigFrame
  <2> QED BY <2>1, <2>2
<1> HIDE DEF base
<1>6. CASE Written = <<>>
  <2>1. ~(Frame.stop = s /\ Wanted(s))
    BY <1>6 DEF Written
  <2> QED BY <1>4, <1>5, <1>6, <2>1, Joins
<1>7. CASE Written = <<Current>> /\ Wanted(Frame.stop)
  <2>1. Saved' = Append(base, Current)
    BY <1>1, <1>4, <1>7
  <2>2. LatestIn(Append(base, Current), s)
          = IF Current.stop = s THEN Current.id ELSE LatestIn(base, s)
    BY <1>1, <1>4, LatestAppend
  <2>3. Frame.stop = s => Wanted(s)
    BY <1>7
  <2> QED BY <1>2, <1>5, <2>1, <2>2, <2>3
<1>8. CASE Written = Append(orphanarium, Current) /\ Wanted(Frame.stop)
  <2>1. base \o orphanarium \in Seq(Frames)
    BY <1>3, <1>4, Joins
  <2>2. Saved' = Append(base \o orphanarium, Current)
    BY <1>1, <1>3, <1>4, <1>8
  <2>3. LatestIn(base \o orphanarium, s) = LatestIn(base, s)
    BY <1>3, <1>4, LatestJoin
  <2>4. LatestIn(Append(base \o orphanarium, Current), s)
          = IF Current.stop = s THEN Current.id ELSE LatestIn(base \o orphanarium, s)
    BY <1>1, <2>1, LatestAppend
  <2>5. Frame.stop = s => Wanted(s)
    BY <1>8
  <2> QED BY <1>2, <1>5, <2>2, <2>3, <2>4, <2>5
<1> QED BY <1>6, <1>7, <1>8 DEF Written

LEMMA OpensJoin ==
  ASSUME NEW b \in Seq(Frames), NEW a \in Seq(Frames), Opens(b),
         HasSync(b, Len(b)) \/ Opens(a)
  PROVE  /\ Opens(b \o a)
         /\ HasSync(b, Len(b)) \/ HasSync(a, Len(a)) => HasSync(b \o a, Len(b \o a))
<1> DEFINE c == b \o a
<1>1. /\ Len(b) \in Nat /\ Len(a) \in Nat /\ Len(c) = Len(b) + Len(a)
      /\ DOMAIN b = 1 .. Len(b) /\ DOMAIN a = 1 .. Len(a) /\ DOMAIN c = 1 .. Len(b) + Len(a)
      /\ \A j \in 1 .. Len(b) : c[j] = b[j]
      /\ \A j \in 1 .. Len(a) : c[Len(b) + j] = a[j]
  OBVIOUS
<1> HIDE DEF c
<1>2. ASSUME NEW k \in DOMAIN c, c[k].stop \notin {TrayInfo, Simulation}
      PROVE  HasSync(c, k)
  <2>1. CASE k <= Len(b)
    <3>1. k \in DOMAIN b /\ c[k] = b[k] /\ k \in Nat
      BY <1>1, <2>1
    <3>2. PICK j \in 1 .. k : b[j].stop = config.sync
      BY <1>2, <3>1 DEF Opens, HasSync
    <3>3. c[j] = b[j]
      BY <1>1, <2>1, <3>1
    <3> QED BY <3>2, <3>3 DEF HasSync
  <2>2. CASE k > Len(b) /\ HasSync(b, Len(b))
    <3>1. PICK j \in 1 .. Len(b) : b[j].stop = config.sync
      BY <2>2 DEF HasSync
    <3>2. j \in 1 .. k /\ c[j] = b[j]
      BY <1>1, <2>2
    <3> QED BY <3>1, <3>2 DEF HasSync
  <2>3. CASE k > Len(b) /\ Opens(a)
    <3>1. PICK i \in 1 .. Len(a) : k = Len(b) + i /\ c[k] = a[i]
      <4>1. k - Len(b) \in 1 .. Len(a) /\ k = Len(b) + (k - Len(b))
        BY <1>1, <2>3
      <4> QED BY <1>1, <4>1
    <3>2. PICK j \in 1 .. i : a[j].stop = config.sync
      BY <1>1, <1>2, <2>3, <3>1 DEF Opens, HasSync
    <3>3. Len(b) + j \in 1 .. k /\ c[Len(b) + j] = a[j]
      BY <1>1, <3>1
    <3> QED BY <3>2, <3>3 DEF HasSync
  <2> QED BY <1>1, <2>1, <2>2, <2>3
<1>3. ASSUME HasSync(b, Len(b)) \/ HasSync(a, Len(a))
      PROVE  HasSync(c, Len(c))
  <2>1. CASE HasSync(b, Len(b))
    <3>1. PICK j \in 1 .. Len(b) : b[j].stop = config.sync
      BY <2>1 DEF HasSync
    <3>2. j \in 1 .. Len(c) /\ c[j] = b[j]
      BY <1>1
    <3> QED BY <3>1, <3>2 DEF HasSync
  <2>2. CASE HasSync(a, Len(a))
    <3>1. PICK j \in 1 .. Len(a) : a[j].stop = config.sync
      BY <2>2 DEF HasSync
    <3>2. Len(b) + j \in 1 .. Len(c) /\ c[Len(b) + j] = a[j]
      BY <1>1
    <3> QED BY <3>1, <3>2 DEF HasSync
  <2> QED BY <1>3, <2>1, <2>2
<1> QED BY <1>2, <1>3 DEF c, Opens

\* With a sync frame at hand, what is written has one first.
LEMMA AdditionOpens ==
  ASSUME ContentInv, Skip \/ HoldBack \/ WriteFrame, SyncAtHand
  PROVE  /\ Opens(Addition)
         /\ HasSync(Addition, Len(Addition)) \/ orphanarium' # <<>>
<1>1. /\ orphanarium' = IF ~Wanted(Frame.stop) THEN orphanarium
                        ELSE IF Orphanable(Frame.stop) THEN Kept(orphanarium, Current)
                        ELSE IF Needy(Frame.stop) THEN <<>> ELSE orphanarium
      /\ Frame \in Frames /\ Current \in Frames /\ orphanarium \in Seq(Frames)
      /\ ConfigPrefix \in Seq(Frames) /\ Written \in Seq(Frames)
  BY ProcessDoes DEF ContentInv, ModuleTyped
<1>2. Current.stop = Frame.stop
  BY <1>1 DEF Current, Frames
<1>3. Opens(Written) /\ (HasSync(Written, Len(Written)) \/ orphanarium' # <<>>)
  <2>1. CASE ~Wanted(Frame.stop) \/ Orphanable(Frame.stop)
    <3>1. Written = <<>> /\ DOMAIN <<>> = {}
      BY <2>1 DEF Written
    <3>2. orphanarium' # <<>>
      BY <1>1, <2>1, KeptHas DEF SyncAtHand
    <3> QED BY <3>1, <3>2 DEF Opens
  <2>2. CASE Wanted(Frame.stop) /\ ~Orphanable(Frame.stop) /\ Needy(Frame.stop)
    <3>1. Written = Append(orphanarium, Current)
      BY <2>2 DEF Written
    <3>2. /\ Len(Written) \in Nat /\ Len(Written) >= 1 /\ DOMAIN Written = 1 .. Len(Written)
      BY <1>1, <3>1
    <3>3. Written[1].stop = config.sync
      <4>1. CASE orphanarium # <<>>
        <5>1. 1 \in DOMAIN orphanarium /\ Written[1] = orphanarium[1]
          BY <1>1, <3>1, <4>1
        <5> QED BY <5>1 DEF ContentInv, OrphansSync
      <4>2. CASE orphanarium = <<>>
        BY <1>1, <1>2, <3>1, <4>2 DEF SyncAtHand
      <4> QED BY <4>1, <4>2
    <3>4. \A k \in DOMAIN Written : 1 \in 1 .. k
      BY <3>2
    <3> QED BY <3>2, <3>3, <3>4 DEF Opens, HasSync
  <2>3. CASE Wanted(Frame.stop) /\ ~Orphanable(Frame.stop) /\ ~Needy(Frame.stop)
    <3>1. Written = <<Current>> /\ Frame.stop \in {TrayInfo, Simulation}
      BY <2>3 DEF Written, Needy
    <3>2. Len(Written) = 1 /\ DOMAIN Written = 1 .. 1 /\ Written[1] = Current
      BY <1>1, <3>1
    <3>3. Opens(Written)
      BY <1>2, <3>1, <3>2 DEF Opens
    <3>4. HasSync(Written, Len(Written)) \/ orphanarium' # <<>>
      BY <1>1, <1>2, <2>3, <3>2 DEF SyncAtHand, HasSync
    <3> QED BY <3>3, <3>4
  <2> QED BY <2>1, <2>2, <2>3
<1>4. Opens(ConfigPrefix)
  <2>1. ASSUME NEW k \in DOMAIN ConfigPrefix
        PROVE  ConfigPrefix[k].stop = TrayInfo
    <3>1. ConfigPrefix = <<ConfigFrame>> \/ ConfigPrefix = <<>>
      BY DEF ConfigPrefix
    <3>2. ConfigPrefix[k] = ConfigFrame
      BY <2>1, <3>1
    <3> QED BY <3>2 DEF ConfigFrame
  <2> QED BY <2>1 DEF Opens
<1> QED BY <1>1, <1>3, <1>4, OpensJoin DEF Addition


LEMMA Process_Content ==
  ASSUME SyncOnly, ContentInv, Skip \/ HoldBack \/ WriteFrame
  PROVE  ContentInv'
<1>0. PICK N : N = file_counter
  OBVIOUS
<1>1. /\ pc = "processing" /\ pc' = "idle" /\ configWritten' = TRUE
      /\ UNCHANGED <<config, input, sync_seen>>
      /\ metadata_cache' = IF Frame.stop \in config.metadata /\ Wanted(Frame.stop)
                             THEN Kept(metadata_cache, Frame) ELSE metadata_cache
      /\ orphanarium' = IF ~Wanted(Frame.stop) THEN orphanarium
                        ELSE IF Orphanable(Frame.stop) THEN Kept(orphanarium, Current)
                        ELSE IF Needy(Frame.stop) THEN <<>> ELSE orphanarium
      /\ Frame \in Frames /\ Current \in Frames /\ Addition \in Seq(Frames)
      /\ N \in 1 .. N /\ N = Len(files) /\ N = Len(files')
      /\ files'[N].head = files[N].head
      /\ files'[N].body = files[N].body \o Addition
      /\ \A n \in 1 .. N : n # N => files'[n] = files[n]
      /\ \A n \in 1 .. N : Before(n)' = Before(n)
  BY <1>0, ProcessDoes DEF ContentInv, file_counter
<1>2. ModuleTyped' /\ Room' /\ Frame' = Frame /\ input # <<>> /\ Current.stop = Frame.stop
  <2>1. Len(input) >= 1 /\ input \in Seq(Frames)
    BY <1>1 DEF ContentInv, ModuleTyped, Room
  <2> QED BY <1>1, <2>1, Process_Module DEF ContentInv, Frame, Current, Frames
<1>3. /\ ModuleTyped /\ orphanarium \in Seq(Frames) /\ metadata_cache \in Seq(Frames)
      /\ files \in Seq(Files) /\ files' \in Seq(Files)
      /\ DOMAIN files = 1 .. N /\ DOMAIN files' = 1 .. N
  <2>1. files \in Seq(Files) /\ files' \in Seq(Files)
    BY <1>2 DEF ContentInv, ModuleTyped
  <2>2. N = Len(files) /\ N = Len(files')
    BY <1>1
  <2>3. DOMAIN files = 1 .. Len(files)
    BY <2>1
  <2>4. DOMAIN files' = 1 .. Len(files')
    BY <2>1
  <2> QED BY <2>1, <2>2, <2>3, <2>4 DEF ContentInv, ModuleTyped
<1>4. Wanted(Frame.stop) /\ Orphanable(Frame.stop) =>
        Frame.stop = config.sync /\ sync_seen /\ Wanted(config.sync)
  <2>1. Orphanable(Frame.stop) => Frame.stop = config.sync
    BY <1>3 DEF SyncOnly, Orphanable, ModuleTyped
  <2>2. Frame.stop = config.sync => sync_seen
    BY <1>2 DEF ContentInv, SyncSeen
  <2> QED BY <2>1, <2>2
<1>5. OrphansSync'
  <2>1. CASE orphanarium' = orphanarium
    BY <1>1, <2>1 DEF ContentInv, OrphansSync, Wanted
  <2>2. CASE orphanarium' = <<>>
    <3>1. DOMAIN orphanarium' = {}
      BY <2>2
    <3> QED BY <2>2, <3>1 DEF OrphansSync
  <2>3. CASE orphanarium' = Kept(orphanarium, Current) /\ Wanted(Frame.stop) /\ Orphanable(Frame.stop)
    <3>1. ASSUME NEW x \in DOMAIN orphanarium'
          PROVE  orphanarium'[x].stop = config.sync
      <4>1. orphanarium'[x] = Current \/ \E y \in DOMAIN orphanarium : orphanarium'[x] = orphanarium[y]
        BY <1>1, <1>3, <2>3, KeptHas
      <4> QED BY <1>2, <1>4, <2>3, <4>1 DEF ContentInv, OrphansSync
    <3> QED BY <1>1, <1>4, <2>3, <3>1 DEF OrphansSync, Wanted
  <2> QED BY <1>1, <2>1, <2>2, <2>3
<1>6. SyncSeen' /\ Fresh' /\ SplitAtSync'
  BY <1>1, <1>2 DEF ContentInv, SyncSeen, Fresh, SplitAtSync, BetweenFiles
<1>7. \A n \in 1 .. N : \A s : Alike(n, s)' = Alike(n, s)
  <2>1. \A n \in 1 .. N : files'[n].head = files[n].head
    BY <1>1
  <2> QED BY <1>1, <2>1 DEF Alike
<1>8. ASSUME NEW s
      PROVE  LatestIn(metadata_cache', s) =
               IF Frame.stop = s /\ s \in config.metadata /\ Wanted(s)
                 THEN Frame.id ELSE LatestIn(metadata_cache, s)
  <2>1. LatestIn(Kept(metadata_cache, Frame), s)
          = IF Frame.stop = s THEN Frame.id ELSE LatestIn(metadata_cache, s)
    BY <1>1, <1>3, LatestKept
  <2>2. CASE Frame.stop \in config.metadata /\ Wanted(Frame.stop)
    BY <1>1, <2>1, <2>2
  <2>3. CASE ~(Frame.stop \in config.metadata /\ Wanted(Frame.stop))
    BY <1>1, <2>3
  <2> QED BY <2>2, <2>3
<1>9. MetaAlike'
  <2>1. ASSUME NEW s \in config.metadata \ {config.sync}
        PROVE  LatestIn(metadata_cache', s) = LatestIn(Saved', s)
    <3>1. \A x \in DOMAIN orphanarium : orphanarium[x].stop # s
      BY DEF ContentInv, OrphansSync
    <3>2. LatestIn(Saved', s) =
            IF Frame.stop = s /\ Wanted(s) THEN Frame.id ELSE LatestIn(Saved, s)
      BY <1>4, <3>1, LatestAddition
    <3>3. LatestIn(metadata_cache, s) = LatestIn(Saved, s)
      BY DEF ContentInv, MetaAlike
    <3> QED BY <1>8, <3>2, <3>3
  <2>2. \A n \in DOMAIN files' : \A s \in config.metadata \ {config.sync} : Alike(n, s)'
    BY <1>3, <1>7 DEF ContentInv, MetaAlike
  <2> QED BY <1>1, <2>1, <2>2 DEF MetaAlike
<1>10. NoSync'
  <2>1. SUFFICES ASSUME ~sync_seen \/ ~Wanted(config.sync)
                 PROVE  LatestIn(metadata_cache', config.sync) = 0 /\ LatestIn(Saved', config.sync) = 0
    BY <1>1 DEF NoSync, Wanted
  <2>2. LatestIn(metadata_cache, config.sync) = 0 /\ LatestIn(Saved, config.sync) = 0
    BY <2>1 DEF ContentInv, NoSync
  <2>3. DOMAIN orphanarium = {}
    BY <2>1 DEF ContentInv, OrphansSync
  <2>4. ~(Frame.stop = config.sync /\ Wanted(config.sync))
    BY <1>2, <2>1 DEF ContentInv, SyncSeen
  <2>5. LatestIn(Saved', config.sync) = LatestIn(Saved, config.sync)
    BY <2>3, <2>4, LatestAddition
  <2> QED BY <1>8, <2>2, <2>4, <2>5
<1>11. ASSUME NEW n \in 1 .. N, n # N
       PROVE  OpenedFile(n)'
  <2>1. n # Len(files') /\ files'[n] = files[n] /\ OpenedFile(n)
    BY <1>1, <1>3, <1>11 DEF ContentInv, Opened
  <2>2. Alike(n, config.sync) \/ Opens(files[n].body)
    BY <2>1 DEF OpenedFile
  <2>3. Opens(files[n].body)' = Opens(files[n].body)
    BY <1>1, <2>1 DEF Opens, HasSync
  <2> QED BY <1>1, <1>7, <2>1, <2>2, <2>3 DEF OpenedFile
<1>12. OpenedFile(N)'
  <2>1. CASE Alike(N, config.sync)
    BY <1>1, <1>7, <2>1 DEF OpenedFile
  <2>2. CASE ~Alike(N, config.sync)
    <3> DEFINE body == files[N].body
    <3>1. body \in Seq(Frames)
      <4>1. files[N] \in Files
        BY <1>1, <1>3
      <4> QED BY <4>1 DEF Files
    <3>2. Opens(body) /\ (HasSync(body, Len(body)) \/ SyncAtHand)
      BY <1>1, <1>3, <2>2 DEF ContentInv, Opened, OpenedFile, BetweenFiles
    <3> HIDE DEF body
    <3>3. /\ Opens(body \o Addition)
          /\ HasSync(body \o Addition, Len(body \o Addition)) \/ orphanarium' # <<>>
      <4>1. CASE HasSync(body, Len(body))
        BY <1>1, <3>1, <3>2, <4>1, OpensJoin
      <4>2. CASE SyncAtHand
        BY <1>1, <3>1, <3>2, <4>2, OpensJoin, AdditionOpens
      <4> QED BY <3>2, <4>1, <4>2
    <3>4. files'[N].body = body \o Addition
      BY <1>1 DEF body
    <3>5. Opens(files[N].body)'
      BY <1>1, <3>3, <3>4 DEF Opens, HasSync
    <3>6. HasSync(files[N].body, Len(files[N].body))' \/ SyncAtHand'
      BY <1>1, <3>3, <3>4 DEF HasSync, SyncAtHand
    <3> QED BY <3>5, <3>6 DEF OpenedFile
  <2> QED BY <2>1, <2>2
<1>13. Opened'
  BY <1>3, <1>11, <1>12 DEF Opened
<1> QED BY <1>2, <1>5, <1>6, <1>9, <1>10, <1>13 DEF ContentInv

LEMMA Next_Content ==
  ASSUME SyncOnly, ContentInv, [Next]_vars
  PROVE  ContentInv'
<1>1. ModuleTyped /\ Room
  BY DEF ContentInv
<1>2. ASSUME NEW s \in config.arriving, Arrive(s)
      PROVE  ContentInv'
  BY <1>2, Arrive_Content
<1> QED BY <1>1, <1>2, NextSorts, Quiet_Content, WriteHead_Content, Process_Content

\* A file that a writer began can be read without the ones before it, whatever
\* the settings, as long as only sync frames are held back.
THEOREM FilesSelfContained ==
  ASSUME SyncOnly
  PROVE  Spec => []SelfContained
BY Init_Content, Next_Content, ContentInv_SelfContained, PTL DEF Spec


-----------------------------------------------------------------------------
(* What the files hold together is what one file would.                     *)

\* What is held back when all of frames has been taken.
Pending(frames, i) ==
  /\ i \in DOMAIN frames /\ Wanted(frames[i].stop) /\ Orphanable(frames[i].stop)
  /\ \A k \in i + 1 .. Len(frames) :
       ~Needy(frames[k].stop) /\ frames[k].stop # frames[i].stop

\* Held back are the pending frames, in the order of their places.
Orphans(frames, orphans) ==
  /\ \A x \in DOMAIN orphans : /\ Pending(frames, orphans[x].id)
                               /\ orphans[x].stop = frames[orphans[x].id].stop
  /\ \A i \in DOMAIN frames : Pending(frames, i) => \E x \in DOMAIN orphans : orphans[x].id = i
  /\ \E p \in [DOMAIN orphans -> Nat] :
       /\ \A x \in DOMAIN orphans : p[x] \in 1 .. orphans[x].id
                                    /\ IsPlace(frames, p[x], orphans[x].id)
       /\ \A x, y \in DOMAIN orphans : x < y => p[x] < p[y]

\* A frame with which frame i is written has been taken.
Due(frames, i) == i \in DOMAIN frames /\ \E j \in DOMAIN frames : WrittenWith(frames, i, j)

OneFile(frames, saved) ==
  /\ {saved[x].id : x \in DOMAIN saved} = ToBeWritten(frames)
  /\ \A x, y \in DOMAIN saved : x < y => Precedes(frames, saved[x].id, saved[y].id)
  /\ frames # <<>> /\ Wanted(TrayInfo) => saved # <<>> /\ saved[1].config

Numbered(frames) == \A i \in DOMAIN frames : frames[i].id = i

\* The configuration is not held back.
InfoWritten == \A setting \in Configs : TrayInfo \notin setting.dropOrphan

OneFileInv ==
  /\ ModuleTyped /\ Room
  /\ Numbered(input) /\ (configWritten <=> Taken # <<>>)
  /\ Orphans(Taken, orphanarium)
  /\ OneFile(Taken, Saved)

-----------------------------------------------------------------------------
\* One frame more, f, in place n.
Longer(T, f, n, U) == T \in Seq(Frames) /\ f \in Frames /\ n = Len(T) + 1 /\ U = Append(T, f)

LEMMA LongerIs ==
  ASSUME NEW T, NEW f, NEW n, NEW U, Longer(T, f, n, U)
  PROVE  /\ Len(T) \in Nat /\ n \in Nat \ {0} /\ n - 1 = Len(T) /\ Len(U) = n
         /\ DOMAIN T = 1 .. n - 1 /\ DOMAIN U = 1 .. n /\ U[n] = f /\ U # <<>>
         /\ \A i \in 1 .. n - 1 : U[i] = T[i]
         /\ \A i \in 1 .. n : i = n \/ i \in 1 .. n - 1
BY DEF Longer

LEMMA PlacesKept ==
  ASSUME NEW T, NEW f, NEW n, NEW U, Longer(T, f, n, U)
  PROVE  /\ \A i \in Nat : \A j \in 0 .. n : NeedyBetween(U, i, j) = NeedyBetween(T, i, j)
         /\ \A i, j \in 1 .. n - 1 : WrittenWith(U, i, j) = WrittenWith(T, i, j)
         /\ \A i \in 1 .. n - 1 : \A k \in 1 .. i : IsPlace(U, k, i) = IsPlace(T, k, i)
<1>1. /\ n \in Nat \ {0} /\ \A i \in 1 .. n - 1 : U[i] = T[i]
  BY LongerIs
<1>2. ASSUME NEW i \in Nat, NEW j \in 0 .. n
      PROVE  NeedyBetween(U, i, j) = NeedyBetween(T, i, j)
  <2>1. \A k \in i + 1 .. j - 1 : U[k] = T[k]
    BY <1>1
  <2> QED BY <2>1 DEF NeedyBetween
<1>3. ASSUME NEW i \in 1 .. n - 1, NEW j \in 1 .. n - 1
      PROVE  WrittenWith(U, i, j) = WrittenWith(T, i, j)
  <2>1. /\ \A k \in i + 1 .. j - 1 : U[k] = T[k]
        /\ U[i] = T[i] /\ U[j] = T[j]
    BY <1>1
  <2>2. i \in Nat /\ j \in 0 .. n
    BY <1>1
  <2>3. NeedyBetween(U, i, j) = NeedyBetween(T, i, j)
    BY <1>2, <2>2
  <2>4. Adopts(U, i, j) = Adopts(T, i, j)
    BY <2>1, <2>3 DEF Adopts
  <2> QED BY <2>1, <2>4 DEF WrittenWith
<1>4. ASSUME NEW i \in 1 .. n - 1, NEW k \in 1 .. i
      PROVE  IsPlace(U, k, i) = IsPlace(T, k, i)
  <2>1. /\ \A l \in 1 .. k - 1 : U[l] = T[l] /\ l \in Nat
        /\ U[i] = T[i] /\ U[k] = T[k] /\ k \in Nat /\ i \in 0 .. n
    BY <1>1
  <2>2. NeedyBetween(U, k, i) = NeedyBetween(T, k, i)
    BY <1>2, <2>1
  <2>3. \A l \in 1 .. k - 1 : NeedyBetween(U, l, i) = NeedyBetween(T, l, i)
    BY <1>2, <2>1
  <2> QED BY <2>1, <2>2, <2>3 DEF IsPlace
<1> QED BY <1>2, <1>3, <1>4

\* What is pending, and with what it will be written.
LEMMA PendingGrows ==
  ASSUME NEW T, NEW f, NEW n, NEW U, Longer(T, f, n, U), NEW i \in 1 .. n
  PROVE  /\ Pending(U, i) <=> \/ i = n /\ Wanted(f.stop) /\ Orphanable(f.stop)
                              \/ i # n /\ Pending(T, i) /\ ~Needy(f.stop) /\ f.stop # T[i].stop
         /\ Adopts(U, i, n) <=> i # n /\ Pending(T, i) /\ Needy(f.stop)
<1>1. /\ Len(T) = n - 1 /\ n \in Nat \ {0} /\ Len(U) = n
      /\ DOMAIN T = 1 .. n - 1 /\ DOMAIN U = 1 .. n /\ U[n] = f
      /\ \A j \in 1 .. n - 1 : U[j] = T[j]
  BY LongerIs
<1>2. CASE i = n
  <2>1. U[i] = f /\ i \in DOMAIN U /\ ~(i < n) /\ \A k \in i + 1 .. Len(U) : FALSE
    BY <1>1, <1>2
  <2> QED BY <1>2, <2>1 DEF Pending, Adopts
<1>3. CASE i # n
  <2>1. /\ i \in 1 .. n - 1 /\ i < n /\ i \in DOMAIN T /\ i \in DOMAIN U /\ U[i] = T[i]
        /\ \A k \in i + 1 .. n - 1 : U[k] = T[k]
    BY <1>1, <1>3
  <2>2. \A k \in i + 1 .. n : k = n \/ k \in i + 1 .. n - 1
    BY <1>1, <2>1
  <2>3. n \in i + 1 .. n /\ \A k \in i + 1 .. n - 1 : k \in i + 1 .. n
    BY <1>1, <2>1
  <2>4. (\A k \in i + 1 .. n : ~Needy(U[k].stop) /\ U[k].stop # U[i].stop) <=>
          /\ \A k \in i + 1 .. n - 1 : ~Needy(T[k].stop) /\ T[k].stop # T[i].stop
          /\ ~Needy(f.stop) /\ f.stop # T[i].stop
    BY <1>1, <2>1, <2>2, <2>3
  <2>5. Pending(U, i) <=> Pending(T, i) /\ ~Needy(f.stop) /\ f.stop # T[i].stop
    BY <1>1, <2>1, <2>4 DEF Pending
  <2>6. NeedyBetween(U, i, n) <=> \E k \in i + 1 .. n - 1 : Needy(T[k].stop)
    BY <2>1 DEF NeedyBetween
  <2>7. Adopts(U, i, n) <=> Pending(T, i) /\ Needy(f.stop)
    BY <1>1, <2>1, <2>6 DEF Adopts, Pending
  <2> QED BY <1>3, <2>5, <2>7
<1> QED BY <1>2, <1>3

LEMMA DueGrows ==
  ASSUME NEW T, NEW f, NEW n, NEW U, Longer(T, f, n, U), NEW i \in 1 .. n
  PROVE  /\ Due(U, i) <=> (i # n /\ Due(T, i)) \/ WrittenWith(U, i, n)
         /\ WrittenWith(U, i, n) <=> \/ i = n /\ Wanted(f.stop) /\ ~Orphanable(f.stop)
                                     \/ i # n /\ Pending(T, i) /\ Needy(f.stop)
<1>1. /\ n \in Nat \ {0} /\ DOMAIN T = 1 .. n - 1 /\ DOMAIN U = 1 .. n /\ U[n] = f
      /\ \A j \in 1 .. n : j = n \/ j \in 1 .. n - 1
  BY LongerIs
<1>2. \A j \in 1 .. n - 1 : j \in 1 .. n /\ j < n /\ j # n
  BY <1>1
<1>3. \A j \in 1 .. n - 1 : i = n => ~WrittenWith(U, i, j)
  BY <1>1, <1>2 DEF WrittenWith, Adopts
<1>4. \A j \in 1 .. n - 1 : i # n => WrittenWith(U, i, j) = WrittenWith(T, i, j)
  BY <1>1, PlacesKept
<1>5. n \in 1 .. n
  BY <1>1
<1>6. Due(U, i) <=> \/ \E j \in 1 .. n - 1 : WrittenWith(U, i, j)
                    \/ WrittenWith(U, i, n)
  BY <1>1, <1>2, <1>5 DEF Due
<1>7. i # n => (Due(T, i) <=> \E j \in 1 .. n - 1 : WrittenWith(U, i, j))
  BY <1>1, <1>4 DEF Due
<1>8. Due(U, i) <=> (i # n /\ Due(T, i)) \/ WrittenWith(U, i, n)
  BY <1>3, <1>6, <1>7
<1>9. WrittenWith(U, i, n) <=> \/ i = n /\ Wanted(f.stop) /\ ~Orphanable(f.stop)
                               \/ i # n /\ Pending(T, i) /\ Needy(f.stop)
  BY <1>1, PendingGrows DEF WrittenWith
<1> QED BY <1>8, <1>9


LEMMA OrphansSame ==
  ASSUME NEW T, NEW f, NEW n, NEW U, Longer(T, f, n, U),
         NEW o \in Seq(Frames), Orphans(T, o),
         ~Needy(f.stop), ~(Wanted(f.stop) /\ Orphanable(f.stop))
  PROVE  Orphans(U, o)
<1>1. /\ n \in Nat \ {0} /\ DOMAIN T = 1 .. n - 1 /\ DOMAIN U = 1 .. n
      /\ \A j \in 1 .. n - 1 : U[j] = T[j]
      /\ \A j \in 1 .. n : j = n \/ j \in 1 .. n - 1
      /\ \A j \in 1 .. n - 1 : j \in 1 .. n /\ j # n
  BY LongerIs
<1>2. \A i \in 1 .. n : Pending(U, i) <=> i # n /\ Pending(T, i)
  BY PendingGrows DEF Pending
<1>3. \A i : Pending(T, i) => i \in 1 .. n - 1
  BY <1>1 DEF Pending
<1>4. \A x \in DOMAIN o : Pending(U, o[x].id) /\ o[x].stop = U[o[x].id].stop
  BY <1>1, <1>2, <1>3 DEF Orphans
<1>5. \A i \in DOMAIN U : Pending(U, i) => \E x \in DOMAIN o : o[x].id = i
  BY <1>1, <1>2 DEF Orphans
<1>6. PICK p \in [DOMAIN o -> Nat] :
        /\ \A x \in DOMAIN o : p[x] \in 1 .. o[x].id /\ IsPlace(T, p[x], o[x].id)
        /\ \A x, y \in DOMAIN o : x < y => p[x] < p[y]
  BY DEF Orphans
<1>7. \A x \in DOMAIN o : o[x].id \in 1 .. n - 1
  BY <1>3 DEF Orphans
<1>8. \A x \in DOMAIN o : IsPlace(U, p[x], o[x].id)
  BY <1>6, <1>7, PlacesKept
<1> QED BY <1>4, <1>5, <1>6, <1>8 DEF Orphans

LEMMA OrphansNone ==
  ASSUME NEW T, \A i \in DOMAIN T : ~Pending(T, i)
  PROVE  Orphans(T, <<>>)
<1>1. DOMAIN <<>> = {}
  OBVIOUS
<1>2. [x \in {} |-> 0] \in [{} -> Nat]
  OBVIOUS
<1>3. \E p \in [DOMAIN <<>> -> Nat] :
        /\ \A x \in DOMAIN <<>> : p[x] \in 1 .. <<>>[x].id /\ IsPlace(T, p[x], <<>>[x].id)
        /\ \A x, y \in DOMAIN <<>> : x < y => p[x] < p[y]
  BY <1>1, <1>2
<1> QED BY <1>1, <1>3 DEF Orphans

\* A frame that is held back takes the place of the one of its stream.
LEMMA PlaceTaken ==
  ASSUME NEW T, NEW f, NEW n, NEW U, Longer(T, f, n, U),
         NEW i, Pending(T, i), T[i].stop = f.stop,
         NEW k \in 1 .. i, IsPlace(T, k, i)
  PROVE  IsPlace(U, k, n)
<1>1. /\ n \in Nat \ {0} /\ Len(T) = n - 1 /\ DOMAIN T = 1 .. n - 1 /\ U[n] = f
      /\ \A j \in 1 .. n - 1 : U[j] = T[j]
  BY LongerIs
<1>2. i \in 1 .. n - 1 /\ k \in 1 .. n - 1 /\ k \in Nat
  BY <1>1 DEF Pending
<1>3. U[k].stop = U[n].stop
  BY <1>1, <1>2 DEF IsPlace
<1>4. ASSUME NEW m \in k + 1 .. n - 1
      PROVE  ~Needy(U[m].stop)
  <2>1. U[m] = T[m]
    BY <1>1, <1>2
  <2>2. CASE m \in k + 1 .. i - 1
    BY <2>1, <2>2 DEF IsPlace, NeedyBetween
  <2>3. CASE m = i
    BY <2>1, <2>3 DEF Pending, Needy
  <2>4. CASE m \in i + 1 .. n - 1
    BY <1>1, <2>1, <2>4 DEF Pending
  <2> QED BY <1>1, <1>2, <2>2, <2>3, <2>4
<1>5. ASSUME NEW l \in 1 .. k - 1, U[l].stop = U[n].stop
      PROVE  NeedyBetween(U, l, n)
  <2>1. T[l].stop = T[i].stop
    BY <1>1, <1>2, <1>5
  <2>2. PICK m \in l + 1 .. i - 1 : Needy(T[m].stop)
    BY <2>1 DEF IsPlace, NeedyBetween
  <2>3. m \in l + 1 .. n - 1 /\ U[m] = T[m]
    BY <1>1, <1>2
  <2> QED BY <2>2, <2>3 DEF NeedyBetween
<1> QED BY <1>3, <1>4, <1>5 DEF IsPlace, NeedyBetween

\* Without one of its stream it is put at the end.
LEMMA PlaceNew ==
  ASSUME NEW T, NEW f, NEW n, NEW U, Longer(T, f, n, U),
         Wanted(f.stop), Orphanable(f.stop),
         \A i \in DOMAIN T : Pending(T, i) => T[i].stop # f.stop
  PROVE  IsPlace(U, n, n)
<1>1. /\ n \in Nat \ {0} /\ Len(T) = n - 1 /\ DOMAIN T = 1 .. n - 1 /\ U[n] = f
      /\ \A j \in 1 .. n - 1 : U[j] = T[j]
  BY LongerIs
<1>2. ~NeedyBetween(U, n, n)
  BY <1>1 DEF NeedyBetween
<1>3. ASSUME NEW l \in 1 .. n - 1, U[l].stop = U[n].stop, ~NeedyBetween(U, l, n)
      PROVE  FALSE
  <2> DEFINE m == LastOf(T, f.stop)
  <2>1. /\ m \in 0 .. n - 1 /\ (m > 0 => T[m].stop = f.stop)
        /\ \A j \in m + 1 .. n - 1 : T[j].stop # f.stop
    <3>1. T \in Seq(Frames)
      BY DEF Longer
    <3> QED BY <1>1, <3>1, LastOfIs
  <2> HIDE DEF m
  <2>2. T[l].stop = f.stop
    BY <1>1, <1>3
  <2>3. m >= l
    BY <1>1, <2>1, <2>2
  <2>4. m \in 1 .. n - 1 /\ T[m].stop = f.stop
    BY <1>1, <2>1, <2>3
  <2>5. \A k \in m + 1 .. n - 1 : ~Needy(T[k].stop)
    <3>1. \A k \in m + 1 .. n - 1 : k \in l + 1 .. n - 1 /\ U[k] = T[k]
      BY <1>1, <2>3, <2>4
    <3> QED BY <1>3, <3>1 DEF NeedyBetween
  <2>6. Pending(T, m)
    BY <1>1, <2>1, <2>4, <2>5 DEF Pending
  <2> QED BY <1>1, <2>4, <2>6
<1> QED BY <1>2, <1>3 DEF IsPlace

LEMMA OrphansHeld ==
  ASSUME NEW T, NEW f, NEW n, NEW U, Longer(T, f, n, U),
         NEW o \in Seq(Frames), Orphans(T, o), Wanted(f.stop), Orphanable(f.stop),
         NEW g \in Frames, g.stop = f.stop, g.id = n
  PROVE  Orphans(U, Kept(o, g))
<1> DEFINE new == Kept(o, g)
<1>1. /\ n \in Nat \ {0} /\ DOMAIN T = 1 .. n - 1 /\ DOMAIN U = 1 .. n /\ U[n] = f
      /\ \A j \in 1 .. n - 1 : U[j] = T[j]
      /\ \A j \in 1 .. n : j = n \/ j \in 1 .. n - 1
      /\ \A j \in 1 .. n - 1 : j \in 1 .. n /\ j # n
      /\ n \in 1 .. n
  BY LongerIs
<1>2. \A i \in 1 .. n :
        Pending(U, i) <=> i = n \/ (i # n /\ Pending(T, i) /\ f.stop # T[i].stop)
  <2>1. ~Needy(f.stop) /\ Wanted(f.stop) /\ Orphanable(f.stop)
    BY DEF Needy
  <2>2. ASSUME NEW i \in 1 .. n
        PROVE  Pending(U, i) <=> \/ i = n /\ Wanted(f.stop) /\ Orphanable(f.stop)
                                 \/ i # n /\ Pending(T, i) /\ ~Needy(f.stop) /\ f.stop # T[i].stop
    BY PendingGrows
  <2> QED BY <2>1, <2>2
<1>3. \A i : Pending(T, i) => i \in 1 .. n - 1
  BY <1>1 DEF Pending
<1>4. /\ \A x \in DOMAIN o : /\ Pending(T, o[x].id) /\ o[x].id \in 1 .. n - 1
                             /\ o[x].stop = T[o[x].id].stop
      /\ \A i \in 1 .. n - 1 : Pending(T, i) => \E x \in DOMAIN o : o[x].id = i
  BY <1>1, <1>3 DEF Orphans
<1>5. PICK p \in [DOMAIN o -> Nat] :
        /\ \A x \in DOMAIN o : p[x] \in 1 .. o[x].id /\ IsPlace(T, p[x], o[x].id)
        /\ \A x, y \in DOMAIN o : x < y => p[x] < p[y]
  BY DEF Orphans
<1>6. \A x \in DOMAIN o : IsPlace(U, p[x], o[x].id)
  BY <1>4, <1>5, PlacesKept
<1>7. CASE \E x \in DOMAIN o : o[x].stop = g.stop
  <2>1. new = [x \in DOMAIN o |-> IF o[x].stop = g.stop THEN g ELSE o[x]]
    BY <1>7 DEF Kept
  <2> HIDE DEF new
  <2>2. DOMAIN new = DOMAIN o /\ \A x \in DOMAIN o : new[x] = IF o[x].stop = g.stop THEN g ELSE o[x]
    BY <2>1
  <2>3. ASSUME NEW x \in DOMAIN new
        PROVE  /\ Pending(U, new[x].id) /\ new[x].stop = U[new[x].id].stop
               /\ p[x] \in 1 .. new[x].id /\ IsPlace(U, p[x], new[x].id)
    <3>1. CASE o[x].stop = g.stop
      <4>1. new[x] = g /\ p[x] \in 1 .. o[x].id /\ o[x].id \in 1 .. n - 1
        BY <1>4, <1>5, <2>2, <3>1
      <4>2. IsPlace(U, p[x], n)
        <5>1. /\ Pending(T, o[x].id) /\ T[o[x].id].stop = f.stop
              /\ p[x] \in 1 .. o[x].id /\ IsPlace(T, p[x], o[x].id)
          BY <1>4, <1>5, <2>2, <3>1
        <5> QED BY <5>1, PlaceTaken
      <4>3. p[x] \in 1 .. n
        BY <1>1, <4>1
      <4>4. Pending(U, n) /\ new[x].id = n /\ new[x].stop = f.stop
        <5>1. Pending(U, n)
          BY <1>1, <1>2
        <5> QED BY <4>1, <5>1
      <4> QED BY <1>1, <4>2, <4>3, <4>4
    <3>2. CASE o[x].stop # g.stop
      <4>1. new[x] = o[x] /\ x \in DOMAIN o
        BY <2>2, <3>2
      <4> QED BY <1>1, <1>2, <1>4, <1>5, <1>6, <3>2, <4>1
    <3> QED BY <3>1, <3>2
  <2>4. ASSUME NEW i \in DOMAIN U, Pending(U, i)
        PROVE  \E x \in DOMAIN new : new[x].id = i
    <3>1. CASE i = n
      BY <1>7, <2>2, <3>1
    <3>2. CASE i # n
      <4>1. Pending(T, i) /\ f.stop # T[i].stop /\ i \in 1 .. n - 1
        BY <1>1, <1>2, <2>4, <3>2
      <4>2. PICK x \in DOMAIN o : o[x].id = i
        BY <1>4, <4>1
      <4>3. o[x].stop # g.stop
        BY <1>4, <4>1, <4>2
      <4> QED BY <2>2, <4>2, <4>3
    <3> QED BY <3>1, <3>2
  <2> QED BY <1>5, <2>2, <2>3, <2>4 DEF Orphans, new
<1>8. CASE ~\E x \in DOMAIN o : o[x].stop = g.stop
  <2> DEFINE m == Len(o)
  <2>1. new = Append(o, g)
    BY <1>8 DEF Kept
  <2> HIDE DEF new
  <2>2. /\ m \in Nat /\ DOMAIN o = 1 .. m /\ DOMAIN new = 1 .. m + 1 /\ new[m + 1] = g
        /\ \A x \in 1 .. m : new[x] = o[x]
    BY <2>1
  <2> HIDE DEF m
  <2>3. \A x \in 1 .. m + 1 : x = m + 1 \/ x \in 1 .. m
    BY <2>2
  <2> DEFINE q == [x \in 1 .. m + 1 |-> IF x = m + 1 THEN n ELSE p[x]]
  <2>4. /\ q \in [DOMAIN new -> Nat] /\ q[m + 1] = n
        /\ \A x \in 1 .. m : q[x] = p[x] /\ x \in DOMAIN o
    BY <1>1, <1>5, <2>2, <2>3
  <2> HIDE DEF q
  <2>5. IsPlace(U, n, n)
    <3>1. \A i \in DOMAIN T : Pending(T, i) => T[i].stop # f.stop
      BY <1>1, <1>4, <1>8
    <3> QED BY <3>1, PlaceNew
  <2>6. ASSUME NEW x \in DOMAIN new
        PROVE  /\ Pending(U, new[x].id) /\ new[x].stop = U[new[x].id].stop
               /\ q[x] \in 1 .. new[x].id /\ IsPlace(U, q[x], new[x].id)
    <3>1. CASE x = m + 1
      <4>1. /\ new[x].id = n /\ new[x].stop = f.stop /\ q[x] = n
            /\ Pending(U, n) /\ n \in 1 .. n
        <5>1. Pending(U, n)
          BY <1>1, <1>2
        <5> QED BY <1>1, <2>2, <2>4, <3>1, <5>1
      <4> QED BY <1>1, <2>5, <4>1
    <3>2. CASE x \in 1 .. m
      <4>1. new[x] = o[x] /\ x \in DOMAIN o /\ q[x] = p[x] /\ o[x].stop # g.stop
        BY <1>8, <2>2, <2>4, <3>2
      <4> QED BY <1>1, <1>2, <1>4, <1>5, <1>6, <4>1
    <3> QED BY <2>2, <2>3, <3>1, <3>2
  <2>7. ASSUME NEW x \in DOMAIN new, NEW y \in DOMAIN new, x < y
        PROVE  q[x] < q[y]
    <3>1. x \in 1 .. m /\ x \in DOMAIN o /\ q[x] = p[x]
      BY <2>2, <2>4, <2>7
    <3>2. CASE y = m + 1
      <4>1. p[x] \in 1 .. o[x].id /\ o[x].id \in 1 .. n - 1
        BY <1>4, <1>5, <3>1
      <4> QED BY <1>1, <2>4, <3>1, <3>2, <4>1
    <3>3. CASE y \in 1 .. m
      BY <1>5, <2>4, <2>7, <3>1, <3>3
    <3> QED BY <2>2, <2>3, <3>2, <3>3
  <2>8. ASSUME NEW i \in DOMAIN U, Pending(U, i)
        PROVE  \E x \in DOMAIN new : new[x].id = i
    <3>1. CASE i = n
      <4>1. m + 1 \in DOMAIN new
        BY <2>2
      <4> QED BY <2>2, <3>1, <4>1
    <3>2. CASE i # n
      <4>1. Pending(T, i) /\ i \in 1 .. n - 1
        BY <1>1, <1>2, <2>8, <3>2
      <4>2. PICK x \in DOMAIN o : o[x].id = i
        BY <1>4, <4>1
      <4>3. x \in 1 .. m /\ x \in DOMAIN new /\ new[x] = o[x]
        BY <2>2
      <4> QED BY <4>2, <4>3
    <3> QED BY <3>1, <3>2
  <2> QED BY <2>4, <2>6, <2>7, <2>8 DEF Orphans, new
<1> QED BY <1>7, <1>8


-----------------------------------------------------------------------------
(* What is written when one frame more is taken.                            *)

Ids(list) == {list[x].id : x \in DOMAIN list}
InOrder(frames, list) ==
  \A x, y \in DOMAIN list : x < y => Precedes(frames, list[x].id, list[y].id)
\* The frames written with the last one, and the configuration.
WithLast(frames, n) == {i \in 1 .. n : WrittenWith(frames, i, n)}
Info(frames) == {i \in {0} : frames # <<>> /\ Wanted(TrayInfo) /\ frames[1].stop # TrayInfo}

LEMMA OneFileIs ==
  ASSUME NEW frames, NEW list
  PROVE  OneFile(frames, list) <=>
           /\ Ids(list) = {i \in DOMAIN frames : Due(frames, i)} \cup Info(frames)
           /\ InOrder(frames, list)
           /\ frames # <<>> /\ Wanted(TrayInfo) => list # <<>> /\ list[1].config
<1>1. {i \in DOMAIN frames : Due(frames, i)}
        = {i \in DOMAIN frames : \E j \in DOMAIN frames : WrittenWith(frames, i, j)}
  BY DEF Due
<1>2. ToBeWritten(frames) = {i \in DOMAIN frames : Due(frames, i)} \cup Info(frames)
  BY <1>1 DEF ToBeWritten, Info
<1> QED BY <1>2 DEF OneFile, Ids, InOrder

LEMMA OrderKept ==
  ASSUME NEW T, NEW f, NEW n, NEW U, Longer(T, f, n, U), NEW i, NEW h, Precedes(T, i, h)
  PROVE  Precedes(U, i, h)
<1>1. CASE i = 0 /\ h # 0
  BY <1>1 DEF Precedes
<1>2. CASE ~(i = 0 /\ h # 0)
  <2>1. /\ DOMAIN T = 1 .. n - 1 /\ DOMAIN U = 1 .. n /\ n \in Nat
        /\ \A j \in 1 .. n - 1 : j \in 1 .. n
    BY LongerIs
  <2>2. i \in 1 .. n - 1 /\ h \in 1 .. n - 1
    BY <1>2, <2>1 DEF Precedes
  <2>3. PICK j \in 1 .. n - 1, k \in 1 .. n - 1 :
          /\ WrittenWith(T, i, j) /\ WrittenWith(T, h, k)
          /\ j < k \/ (j = k /\ i # k /\ (h = k \/ EarlierPlace(T, i, h)))
    BY <1>2, <2>1 DEF Precedes
  <2>4. WrittenWith(U, i, j) /\ WrittenWith(U, h, k)
    BY <2>2, <2>3, PlacesKept
  <2>5. EarlierPlace(T, i, h) => EarlierPlace(U, i, h)
    <3>1. /\ \A k1 \in 1 .. i : IsPlace(U, k1, i) = IsPlace(T, k1, i)
          /\ \A k2 \in 1 .. h : IsPlace(U, k2, h) = IsPlace(T, k2, h)
      BY <2>2, PlacesKept
    <3> QED BY <3>1 DEF EarlierPlace
  <2> QED BY <2>1, <2>2, <2>3, <2>4, <2>5 DEF Precedes
<1> QED BY <1>1, <1>2

\* What was written before the frame, and the configuration.
LEMMA BaseIs ==
  ASSUME NEW T, NEW f, NEW n, NEW U, Longer(T, f, n, U),
         NEW saved \in Seq(Frames), OneFile(T, saved), NEW prefix,
         prefix = IF T = <<>> /\ Wanted(TrayInfo) /\ f.stop # TrayInfo
                    THEN <<ConfigFrame>> ELSE <<>>
  PROVE  /\ Ids(saved \o prefix) = {i \in DOMAIN T : Due(T, i)} \cup Info(U)
         /\ InOrder(U, saved \o prefix)
<1>1. /\ DOMAIN T = 1 .. n - 1 /\ DOMAIN U = 1 .. n /\ n \in Nat \ {0} /\ n - 1 = Len(T)
      /\ U # <<>> /\ U[n] = f /\ \A i \in 1 .. n - 1 : U[i] = T[i]
  BY LongerIs
<1>2. /\ Ids(saved) = {i \in DOMAIN T : Due(T, i)} \cup Info(T) /\ InOrder(T, saved)
  BY OneFileIs
<1>3. CASE T = <<>>
  <2>1. n = 1 /\ DOMAIN T = {}
    BY <1>1, <1>3
  <2>2. Ids(saved) = {}
    BY <1>2, <1>3, <2>1 DEF Info
  <2>3. saved = <<>>
    <3>1. DOMAIN saved = {}
      BY <2>2 DEF Ids
    <3>2. DOMAIN saved = 1 .. Len(saved) /\ Len(saved) \in Nat
      OBVIOUS
    <3>3. Len(saved) = 0
      BY <3>1, <3>2
    <3> QED BY <3>3
  <2>4. Info(U) = {i \in {0} : Wanted(TrayInfo) /\ f.stop # TrayInfo}
    BY <1>1, <2>1 DEF Info
  <2>5. CASE Wanted(TrayInfo) /\ f.stop # TrayInfo
    <3>1. saved \o prefix = <<ConfigFrame>>
      BY <1>3, <2>3, <2>5
    <3>2. Ids(<<ConfigFrame>>) = {0}
      BY DEF Ids, ConfigFrame
    <3>3. InOrder(U, <<ConfigFrame>>)
      BY DEF InOrder
    <3>4. Info(U) = {0}
      BY <2>4, <2>5
    <3> QED BY <2>1, <3>1, <3>2, <3>3, <3>4
  <2>6. CASE ~(Wanted(TrayInfo) /\ f.stop # TrayInfo)
    <3>1. saved \o prefix = <<>> /\ DOMAIN <<>> = {}
      BY <1>3, <2>3, <2>6
    <3>2. Ids(<<>>) = {} /\ InOrder(U, <<>>)
      BY <3>1 DEF Ids, InOrder
    <3>3. Info(U) = {}
      BY <2>4, <2>6
    <3> QED BY <2>1, <3>1, <3>2, <3>3
  <2> QED BY <2>5, <2>6
<1>4. CASE T # <<>>
  <2>1. saved \o prefix = saved
    BY <1>4
  <2>2. 1 \in 1 .. n - 1
    <3>1. T \in Seq(Frames)
      BY DEF Longer
    <3> QED BY <1>1, <1>4, <3>1
  <2>3. Info(U) = Info(T)
    BY <1>1, <1>4, <2>2 DEF Info
  <2>4. InOrder(U, saved)
    BY <1>2, OrderKept DEF InOrder
  <2> QED BY <1>2, <2>1, <2>3, <2>4
<1> QED BY <1>3, <1>4

\* The frames that are written with it come after them.
LEMMA WriteMore ==
  ASSUME NEW T, NEW f, NEW n, NEW U, Longer(T, f, n, U),
         NEW base \in Seq(Frames), InOrder(U, base),
         Ids(base) = {i \in DOMAIN T : Due(T, i)} \cup Info(U),
         NEW more \in Seq(Frames), InOrder(U, more),
         Ids(more) = WithLast(U, n)
  PROVE  /\ Ids(base \o more) = {i \in DOMAIN U : Due(U, i)} \cup Info(U)
         /\ InOrder(U, base \o more)
<1> DEFINE all == base \o more  b == Len(base)
<1>1. /\ b \in Nat /\ Len(more) \in Nat /\ DOMAIN all = 1 .. b + Len(more)
      /\ DOMAIN base = 1 .. b /\ DOMAIN more = 1 .. Len(more)
      /\ \A x \in 1 .. b : all[x] = base[x]
      /\ \A x \in 1 .. Len(more) : all[b + x] = more[x]
  OBVIOUS
<1> HIDE DEF all, b
<1>2. \A x \in DOMAIN all : x \in DOMAIN base \/ (x - b \in DOMAIN more /\ all[x] = more[x - b])
  <2>1. ASSUME NEW x \in DOMAIN all, x \notin DOMAIN base
        PROVE  x - b \in DOMAIN more /\ all[x] = more[x - b]
    <3>1. x - b \in 1 .. Len(more) /\ b + (x - b) = x
      BY <1>1, <2>1
    <3> QED BY <1>1, <3>1
  <2> QED BY <2>1
<1>3. /\ DOMAIN T = 1 .. n - 1 /\ DOMAIN U = 1 .. n /\ n \in Nat \ {0}
      /\ \A i \in 1 .. n : i = n \/ i \in 1 .. n - 1
      /\ \A i \in 1 .. n - 1 : i \in 1 .. n /\ i < n /\ i # n
      /\ n \in 1 .. n /\ 0 \notin 1 .. n
  BY LongerIs
<1>4. Ids(all) = Ids(base) \cup Ids(more)
  <2>1. \A x \in DOMAIN base : x \in DOMAIN all /\ all[x] = base[x]
    BY <1>1
  <2>2. \A x \in DOMAIN more : b + x \in DOMAIN all /\ all[b + x] = more[x]
    BY <1>1
  <2>3. \A x \in DOMAIN all : all[x].id \in Ids(base) \/ all[x].id \in Ids(more)
    BY <1>2, <2>1 DEF Ids
  <2>4. Ids(base) \subseteq Ids(all)
    BY <2>1 DEF Ids
  <2>5. Ids(more) \subseteq Ids(all)
    BY <2>2 DEF Ids
  <2>6. Ids(all) \subseteq Ids(base) \cup Ids(more)
    BY <2>3 DEF Ids
  <2> QED BY <2>4, <2>5, <2>6
<1>5. {i \in DOMAIN U : Due(U, i)} = {i \in DOMAIN T : Due(T, i)} \cup Ids(more)
  <2>1. \A i \in 1 .. n : Due(U, i) <=> (i # n /\ Due(T, i)) \/ WrittenWith(U, i, n)
    BY DueGrows
  <2> QED BY <1>3, <2>1 DEF WithLast
<1>6. InOrder(U, all)
  <2>1. ASSUME NEW x \in DOMAIN all, NEW y \in DOMAIN all, x < y
        PROVE  Precedes(U, all[x].id, all[y].id)
    <3>1. CASE y \in DOMAIN base
      <4>1. x \in DOMAIN base /\ all[x] = base[x] /\ all[y] = base[y]
        BY <1>1, <2>1, <3>1
      <4> QED BY <2>1, <3>1, <4>1 DEF InOrder
    <3>2. CASE x \notin DOMAIN base
      <4>1. /\ x - b \in DOMAIN more /\ all[x] = more[x - b]
            /\ y - b \in DOMAIN more /\ all[y] = more[y - b] /\ x - b < y - b
        BY <1>1, <1>2, <2>1, <3>2
      <4> QED BY <4>1 DEF InOrder
    <3>3. CASE x \in DOMAIN base /\ y \notin DOMAIN base
      <4>1. all[x].id \in Ids(base) /\ all[y].id \in Ids(more)
        BY <1>1, <1>2, <3>3 DEF Ids
      <4> DEFINE h == all[x].id  i == all[y].id
      <4> HIDE DEF h, i
      <4>2. i \in 1 .. n /\ WrittenWith(U, i, n)
        BY <4>1 DEF i, WithLast
      <4>3. CASE h = 0
        BY <1>3, <4>2, <4>3 DEF Precedes, h, i
      <4>4. CASE h # 0
        <5>1. h \in 1 .. n - 1 /\ Due(T, h)
          BY <1>3, <4>1, <4>4 DEF Info, h
        <5>2. PICK j \in 1 .. n - 1 : WrittenWith(T, h, j)
          BY <1>3, <5>1 DEF Due
        <5>3. WrittenWith(U, h, j) /\ j \in 1 .. n /\ j < n /\ h \in 1 .. n
          BY <1>3, <5>1, <5>2, PlacesKept
        <5>4. Precedes(U, h, i)
          BY <1>3, <4>2, <5>3 DEF Precedes
        <5> QED BY <5>4 DEF h, i
      <4> QED BY <4>3, <4>4
    <3> QED BY <3>1, <3>2, <3>3
  <2> QED BY <2>1 DEF InOrder
<1> QED BY <1>4, <1>5, <1>6 DEF all

\* What comes with the frame, in its order.
Comes(frames, n, list) ==
  list \in Seq(Frames) /\ InOrder(frames, list) /\ Ids(list) = WithLast(frames, n)

LEMMA WrittenOrder ==
  ASSUME NEW T, NEW f, NEW n, NEW U, Longer(T, f, n, U),
         NEW o \in Seq(Frames), Orphans(T, o),
         NEW g \in Frames, g.id = n, Wanted(f.stop), ~Orphanable(f.stop), NEW w,
         w = IF Needy(f.stop) THEN Append(o, g) ELSE <<g>>
  PROVE  Comes(U, n, w)
<1>1. /\ DOMAIN T = 1 .. n - 1 /\ DOMAIN U = 1 .. n /\ n \in Nat \ {0}
      /\ \A i \in 1 .. n : i = n \/ i \in 1 .. n - 1
      /\ \A i \in 1 .. n - 1 : i \in 1 .. n /\ i < n /\ i # n
      /\ n \in 1 .. n
  BY LongerIs
<1>2. \A i \in 1 .. n : WrittenWith(U, i, n) <=> i = n \/ (i # n /\ Pending(T, i) /\ Needy(f.stop))
  <2>1. ASSUME NEW i \in 1 .. n
        PROVE  WrittenWith(U, i, n) <=> \/ i = n /\ Wanted(f.stop) /\ ~Orphanable(f.stop)
                                        \/ i # n /\ Pending(T, i) /\ Needy(f.stop)
    BY DueGrows
  <2> QED BY <2>1
<1>3. CASE ~Needy(f.stop)
  <2>1. w = <<g>> /\ w \in Seq(Frames) /\ DOMAIN w = {1} /\ w[1] = g
    BY <1>3
  <2>2. Ids(w) = {n}
    BY <2>1 DEF Ids
  <2>3. InOrder(U, w)
    BY <2>1 DEF InOrder
  <2>4. WithLast(U, n) = {n}
    BY <1>1, <1>2, <1>3 DEF WithLast
  <2> QED BY <2>1, <2>2, <2>3, <2>4 DEF Comes
<1>4. CASE Needy(f.stop)
  <2> DEFINE m == Len(o)
  <2>1. /\ w \in Seq(Frames) /\ m \in Nat /\ DOMAIN o = 1 .. m /\ DOMAIN w = 1 .. m + 1
        /\ w[m + 1] = g /\ \A x \in 1 .. m : w[x] = o[x]
    BY <1>4
  <2> HIDE DEF m
  <2>2. /\ \A x \in 1 .. m + 1 : x = m + 1 \/ x \in 1 .. m
        /\ m + 1 \in 1 .. m + 1 /\ \A x \in 1 .. m : x \in 1 .. m + 1
    BY <2>1
  <2>3. /\ \A x \in 1 .. m : Pending(T, o[x].id)
        /\ \A i \in 1 .. n - 1 : Pending(T, i) => \E x \in 1 .. m : o[x].id = i
        /\ \A i : Pending(T, i) => i \in 1 .. n - 1
    BY <1>1, <2>1 DEF Orphans, Pending
  <2>4. Ids(w) = WithLast(U, n)
    <3>1. ASSUME NEW i \in 1 .. n, WrittenWith(U, i, n)
          PROVE  i \in Ids(w)
      <4>1. CASE i = n
        BY <2>1, <2>2, <4>1 DEF Ids
      <4>2. CASE i # n
        <5>1. PICK x \in 1 .. m : o[x].id = i
          BY <1>1, <1>2, <2>3, <3>1, <4>2
        <5>2. x \in DOMAIN w /\ w[x].id = i
          BY <2>1, <2>2, <5>1
        <5> QED BY <5>2 DEF Ids
      <4> QED BY <4>1, <4>2
    <3>2. ASSUME NEW x \in DOMAIN w
          PROVE  w[x].id \in 1 .. n /\ WrittenWith(U, w[x].id, n)
      <4>1. CASE x = m + 1
        BY <1>1, <1>2, <2>1, <4>1
      <4>2. CASE x \in 1 .. m
        BY <1>1, <1>2, <1>4, <2>1, <2>3, <4>2
      <4> QED BY <2>1, <2>2, <4>1, <4>2
    <3> QED BY <3>1, <3>2 DEF Ids, WithLast
  <2>5. PICK p \in [DOMAIN o -> Nat] :
          /\ \A x \in DOMAIN o : p[x] \in 1 .. o[x].id /\ IsPlace(T, p[x], o[x].id)
          /\ \A x, y \in DOMAIN o : x < y => p[x] < p[y]
    BY DEF Orphans
  <2>6. ASSUME NEW x \in DOMAIN w, NEW y \in DOMAIN w, x < y
        PROVE  Precedes(U, w[x].id, w[y].id)
    <3>1. x \in 1 .. m /\ w[x] = o[x] /\ x \in DOMAIN o
      BY <2>1, <2>6
    <3>2. /\ w[x].id \in 1 .. n - 1 /\ w[x].id \in 1 .. n /\ w[x].id # n
          /\ WrittenWith(U, w[x].id, n)
      BY <1>1, <1>2, <1>4, <2>3, <3>1
    <3>3. CASE y = m + 1
      <4>1. w[y].id = n /\ WrittenWith(U, n, n)
        BY <1>1, <1>2, <2>1, <3>3
      <4> QED BY <1>1, <3>2, <4>1 DEF Precedes
    <3>4. CASE y \in 1 .. m
      <4>1. w[y] = o[y] /\ y \in DOMAIN o
        BY <2>1, <3>4
      <4>2. /\ w[y].id \in 1 .. n - 1 /\ w[y].id \in 1 .. n /\ WrittenWith(U, w[y].id, n)
        BY <1>1, <1>2, <1>4, <2>3, <3>4, <4>1
      <4>3. /\ p[x] \in 1 .. w[x].id /\ p[y] \in 1 .. w[y].id /\ p[x] < p[y]
            /\ IsPlace(U, p[x], w[x].id) /\ IsPlace(U, p[y], w[y].id)
        BY <2>5, <2>6, <3>1, <3>2, <4>1, <4>2, PlacesKept
      <4>4. EarlierPlace(U, w[x].id, w[y].id)
        BY <4>3 DEF EarlierPlace
      <4> QED BY <1>1, <3>2, <4>2, <4>4 DEF Precedes
    <3> QED BY <2>1, <2>2, <3>3, <3>4
  <2> QED BY <2>1, <2>4, <2>6 DEF InOrder, Comes
<1> QED BY <1>3, <1>4


-----------------------------------------------------------------------------
(* The steps.                                                               *)

\* These are about frames and settings only.
LEMMA SettingsOnly ==
  ASSUME config' = config
  PROVE  /\ \A s : Wanted(s)' = Wanted(s)
         /\ \A frames, list : Orphans(frames, list)' = Orphans(frames, list)
         /\ \A frames, list : OneFile(frames, list)' = OneFile(frames, list)
<1>1. \A s : /\ Wanted(s)' = Wanted(s) /\ Orphanable(s)' = Orphanable(s)
             /\ Needy(s)' = Needy(s)
  BY DEF Wanted, Orphanable, Needy
<1>2. \A frames, i, j : NeedyBetween(frames, i, j)' = NeedyBetween(frames, i, j)
  BY <1>1 DEF NeedyBetween
<1>3. \A frames, i, j : /\ IsPlace(frames, i, j)' = IsPlace(frames, i, j)
                        /\ Adopts(frames, i, j)' = Adopts(frames, i, j)
  BY <1>1, <1>2 DEF IsPlace, Adopts
<1>4. \A frames, i, j : /\ WrittenWith(frames, i, j)' = WrittenWith(frames, i, j)
                        /\ EarlierPlace(frames, i, j)' = EarlierPlace(frames, i, j)
  BY <1>1, <1>3 DEF WrittenWith, EarlierPlace
<1>5. \A frames, i : Pending(frames, i)' = Pending(frames, i)
  BY <1>1 DEF Pending
<1>6. \A frames, i, j : Precedes(frames, i, j)' = Precedes(frames, i, j)
  BY <1>4 DEF Precedes
<1>7. \A frames : ToBeWritten(frames)' = ToBeWritten(frames)
  BY <1>1, <1>4 DEF ToBeWritten
<1>8. \A frames, list : Orphans(frames, list)' = Orphans(frames, list)
  BY <1>3, <1>5 DEF Orphans
<1>9. \A frames, list : OneFile(frames, list)' = OneFile(frames, list)
  BY <1>1, <1>6, <1>7 DEF OneFile
<1> QED BY <1>1, <1>8, <1>9

LEMMA Init_OneFile == Init => OneFileInv
<1> SUFFICES ASSUME Init PROVE OneFileInv
  OBVIOUS
<1>1. ModuleTyped /\ Room
  BY Init_Base DEF Base
<1>2. /\ input = <<>> /\ orphanarium = <<>> /\ configWritten = FALSE /\ pc = "opening"
      /\ files = <<>> /\ DOMAIN <<>> = {}
  BY DEF Init
<1>3. Taken = <<>> /\ Numbered(input)
  BY <1>2 DEF Taken, Numbered
<1>4. Saved = <<>>
  <2>1. files \in Seq(Files) /\ Len(files) = 0
    BY <1>2
  <2>2. Len(files) \in Nat => Saved = Joined(files, Len(files))
    BY BeforeIs
  <2>3. Joined(files, 0) = <<>>
    BY <2>1, JoinedIs
  <2> QED BY <2>1, <2>2, <2>3
<1>5. Orphans(<<>>, <<>>)
  BY <1>2, OrphansNone
<1>6. OneFile(<<>>, <<>>)
  <2>1. Ids(<<>>) = {} /\ InOrder(<<>>, <<>>) /\ Info(<<>>) = {}
    BY <1>2 DEF Ids, InOrder, Info
  <2>2. {i \in DOMAIN <<>> : Due(<<>>, i)} = {}
    BY <1>2
  <2> QED BY <2>1, <2>2, OneFileIs
<1> QED BY <1>1, <1>2, <1>3, <1>4, <1>5, <1>6 DEF OneFileInv

LEMMA Quiet_OneFile ==
  ASSUME OneFileInv, Quiet
  PROVE  OneFileInv'
<1>1. /\ UNCHANGED <<config, input, configWritten, orphanarium, files>>
      /\ BetweenFiles' = BetweenFiles /\ (pc' = "processing") = (pc = "processing")
  BY DEF Quiet, module
<1>2. Saved' = Saved
  BY <1>1, BeforeSame
<1>3. Taken' = Taken
  BY <1>1 DEF Taken, BetweenFiles
<1>4. ModuleTyped' /\ Room'
  BY <1>1 DEF OneFileInv, Quiet, module, ModuleTyped, Room, BetweenFiles
<1> QED BY <1>1, <1>2, <1>3, <1>4, SettingsOnly DEF OneFileInv, Numbered

LEMMA WriteHead_OneFile ==
  ASSUME OneFileInv, WriteHead
  PROVE  OneFileInv'
<1>1. /\ BetweenFiles /\ pc' = (IF input = <<>> THEN "idle" ELSE "processing")
      /\ UNCHANGED <<config, input, configWritten, orphanarium>> /\ Saved' = Saved
  BY WriteHeadDoes DEF OneFileInv
<1>2. Taken' = Taken
  BY <1>1 DEF Taken, BetweenFiles
<1>3. ModuleTyped' /\ Room'
  BY WriteHead_Module DEF OneFileInv
<1> QED BY <1>1, <1>2, <1>3, SettingsOnly DEF OneFileInv, Numbered

LEMMA Arrive_OneFile ==
  ASSUME OneFileInv, NEW s \in config.arriving, Arrive(s)
  PROVE  OneFileInv'
<1>1. /\ ModuleTyped' /\ Room' /\ input' = Append(input, Frame')
      /\ Frame' \in Frames /\ Frame'.id = Len(input) + 1
  BY Arrive_Module DEF OneFileInv
<1>2. /\ pc = "idle" /\ pc' \in {"opening", "processing"}
      /\ UNCHANGED <<config, configWritten, orphanarium, files>>
  BY ArriveDoes
<1>3. /\ input \in Seq(Frames) /\ input' # <<>> /\ Front(input') = input
      /\ DOMAIN input' = 1 .. Len(input) + 1 /\ DOMAIN input = 1 .. Len(input)
      /\ \A i \in 1 .. Len(input) : input'[i] = input[i]
      /\ input'[Len(input) + 1] = Frame' /\ Len(input) \in Nat
  <2>1. input \in Seq(Frames)
    BY DEF OneFileInv, ModuleTyped
  <2> QED BY <1>1, <2>1 DEF Front
<1>4. Taken' = Taken
  BY <1>2, <1>3 DEF Taken
<1>5. Numbered(input)'
  <2>1. \A i \in 1 .. Len(input) + 1 : i = Len(input) + 1 \/ i \in 1 .. Len(input)
    BY <1>3
  <2> QED BY <1>1, <1>3, <2>1 DEF Numbered, OneFileInv
<1>6. Saved' = Saved
  BY <1>2, BeforeSame
<1> QED BY <1>1, <1>2, <1>4, <1>5, <1>6, SettingsOnly DEF OneFileInv

LEMMA Process_OneFile ==
  ASSUME InfoWritten, OneFileInv, Skip \/ HoldBack \/ WriteFrame
  PROVE  OneFileInv'
<1>1. /\ pc = "processing" /\ pc' = "idle" /\ configWritten' = TRUE
      /\ UNCHANGED <<config, input>>
      /\ orphanarium' = IF ~Wanted(Frame.stop) THEN orphanarium
                        ELSE IF Orphanable(Frame.stop) THEN Kept(orphanarium, Current)
                        ELSE IF Needy(Frame.stop) THEN <<>> ELSE orphanarium
      /\ Frame \in Frames /\ Current \in Frames
      /\ ConfigPrefix \in Seq(Frames) /\ Written \in Seq(Frames)
      /\ Saved' = Saved \o Addition
  BY ProcessDoes DEF OneFileInv
<1>2. /\ ModuleTyped' /\ Room' /\ ModuleTyped /\ Room
      /\ input \in Seq(Frames) /\ orphanarium \in Seq(Frames)
  BY Process_Module DEF OneFileInv, ModuleTyped
<1>3. input # <<>> /\ Len(input) \in Nat \ {0}
  BY <1>1, <1>2 DEF Room
<1>4. Taken = Front(input) /\ Taken' = input
  BY <1>1, <1>3 DEF Taken
<1>5. PICK T, f, n, U : T = Taken /\ f = Frame /\ n = Len(input) /\ U = input
  OBVIOUS
<1>6. Longer(T, f, n, U)
  <2>1. T = SubSeq(input, 1, Len(input) - 1) /\ f = input[Len(input)]
    BY <1>4, <1>5 DEF Front, Frame, Last
  <2>2. T \in Seq(Frames) /\ n = Len(T) + 1
    BY <1>2, <1>3, <1>5, <2>1
  <2>3. U = Append(T, f)
    BY <1>2, <1>3, <1>5, <2>1
  <2> QED BY <1>1, <1>5, <2>2, <2>3 DEF Longer
<1>7. Current.stop = f.stop /\ Current.id = n
  <2>1. Frame.id = n
    BY <1>2, <1>3, <1>5 DEF OneFileInv, Numbered, Frame, Last
  <2> QED BY <1>1, <1>5, <2>1 DEF Current, Frames
<1>8. Orphans(T, orphanarium) /\ OneFile(T, Saved) /\ (configWritten <=> T # <<>>)
  BY <1>5 DEF OneFileInv
<1>9. Saved \in Seq(Frames)
  <2>1. files \in Seq(Files)
    BY <1>2 DEF ModuleTyped
  <2>2. Len(files) \in 0 .. Len(files) /\ Len(files) \in Nat
    BY <2>1
  <2> QED BY <2>1, <2>2, BeforeIs, JoinedIs
<1>10. Orphans(U, orphanarium')
  <2>1. CASE Wanted(f.stop) /\ Orphanable(f.stop)
    <3>1. orphanarium' = Kept(orphanarium, Current)
      BY <1>1, <1>5, <2>1
    <3> QED BY <1>1, <1>2, <1>6, <1>7, <1>8, <2>1, <3>1, OrphansHeld
  <2>2. CASE Needy(f.stop)
    <3>1. orphanarium' = <<>>
      BY <1>1, <1>5, <2>2 DEF Needy
    <3>2. \A i \in 1 .. n : ~Pending(U, i)
      <4>1. ~(Wanted(f.stop) /\ Orphanable(f.stop))
        BY <2>2 DEF Needy
      <4> QED BY <1>6, <2>2, <4>1, PendingGrows
    <3>3. DOMAIN U = 1 .. n
      BY <1>6, LongerIs
    <3> QED BY <3>1, <3>2, <3>3, OrphansNone
  <2>3. CASE ~Needy(f.stop) /\ ~(Wanted(f.stop) /\ Orphanable(f.stop))
    <3>1. orphanarium' = orphanarium
      BY <1>1, <1>5, <2>3
    <3> QED BY <1>2, <1>6, <1>8, <2>3, <3>1, OrphansSame
  <2> QED BY <2>1, <2>2, <2>3
<1> DEFINE base == Saved \o ConfigPrefix
<1>11. /\ base \in Seq(Frames) /\ Saved' = base \o Written
       /\ Ids(base) = {i \in DOMAIN T : Due(T, i)} \cup Info(U) /\ InOrder(U, base)
  <2>1. base \in Seq(Frames) /\ Saved' = base \o Written
    BY <1>1, <1>9, Joins DEF Addition
  <2>2. ConfigPrefix = IF T = <<>> /\ Wanted(TrayInfo) /\ f.stop # TrayInfo
                         THEN <<ConfigFrame>> ELSE <<>>
    BY <1>5, <1>8 DEF ConfigPrefix, Configures
  <2> QED BY <1>6, <1>8, <1>9, <2>1, <2>2, BaseIs
<1> HIDE DEF base
<1>12. InOrder(U, Written) /\ Ids(Written) = WithLast(U, n)
  <2>1. CASE Wanted(f.stop) /\ ~Orphanable(f.stop)
    <3>1. Written = IF Needy(f.stop) THEN Append(orphanarium, Current) ELSE <<Current>>
      BY <1>5, <2>1 DEF Written
    <3>2. /\ orphanarium \in Seq(Frames) /\ Orphans(T, orphanarium)
          /\ Current \in Frames /\ Current.id = n
      BY <1>1, <1>2, <1>7, <1>8
    <3>3. PICK o, g, w : o = orphanarium /\ g = Current /\ w = Written
      OBVIOUS
    <3>4. /\ o \in Seq(Frames) /\ Orphans(T, o) /\ g \in Frames /\ g.id = n
          /\ w = IF Needy(f.stop) THEN Append(o, g) ELSE <<g>>
      BY <3>1, <3>2, <3>3
    <3>5. Comes(U, n, w)
      BY <1>6, <2>1, <3>4, WrittenOrder
    <3> QED BY <3>3, <3>5 DEF Comes
  <2>2. CASE ~Wanted(f.stop) \/ Orphanable(f.stop)
    <3>1. Written = <<>> /\ DOMAIN <<>> = {}
      BY <1>5, <2>2 DEF Written
    <3>2. \A i \in 1 .. n : ~WrittenWith(U, i, n)
      <4>1. ~(Wanted(f.stop) /\ ~Orphanable(f.stop)) /\ ~Needy(f.stop)
        BY <2>2 DEF Needy
      <4> QED BY <1>6, <4>1, DueGrows
    <3>3. Ids(<<>>) = {} /\ InOrder(U, <<>>)
      BY <3>1 DEF Ids, InOrder
    <3> QED BY <3>1, <3>2, <3>3 DEF WithLast
  <2> QED BY <2>1, <2>2
<1>13. Ids(Saved') = {i \in DOMAIN U : Due(U, i)} \cup Info(U) /\ InOrder(U, Saved')
  BY <1>1, <1>6, <1>11, <1>12, WriteMore
<1>14. Wanted(TrayInfo) => Saved' # <<>> /\ Saved'[1].config
  <2> SUFFICES ASSUME Wanted(TrayInfo) PROVE Saved' # <<>> /\ Saved'[1].config
    OBVIOUS
  <2>1. CASE T # <<>>
    <3>1. Saved # <<>> /\ Saved[1].config
      BY <1>8, <2>1, OneFileIs
    <3>2. Addition \in Seq(Frames)
      BY <1>1, Joins DEF Addition
    <3> QED BY <1>1, <1>9, <3>1, <3>2
  <2>2. CASE T = <<>>
    <3>1. Configures /\ Saved = <<>>
      <4>1. DOMAIN T = {} /\ Info(T) = {}
        BY <2>2 DEF Info
      <4>2. Ids(Saved) = {}
        BY <1>8, <4>1, OneFileIs
      <4>3. DOMAIN Saved = {}
        BY <4>2 DEF Ids
      <4>4. DOMAIN Saved = 1 .. Len(Saved) /\ Len(Saved) \in Nat
        BY <1>9
      <4>5. Len(Saved) = 0
        BY <4>3, <4>4
      <4> QED BY <1>8, <1>9, <2>2, <4>5 DEF Configures
    <3>2. CASE f.stop # TrayInfo
      <4>0. ConfigPrefix = <<ConfigFrame>>
        BY <1>5, <3>1, <3>2 DEF ConfigPrefix
      <4>1. base = <<ConfigFrame>> /\ base[1].config
        BY <3>1, <4>0 DEF base, ConfigFrame
      <4>2. (base \o Written)[1] = base[1] /\ base \o Written # <<>>
        BY <1>1, <1>11, <4>1
      <4> QED BY <1>11, <4>1, <4>2
    <3>3. CASE f.stop = TrayInfo
      <4>1. ~Orphanable(TrayInfo)
        BY <1>2 DEF InfoWritten, Orphanable, ModuleTyped
      <4>2. Written = <<Current>> /\ ConfigPrefix = <<>>
        BY <1>5, <3>3, <4>1 DEF Written, Needy, ConfigPrefix
      <4>3. Current.config
        BY <1>1, <1>5, <3>1, <3>3 DEF Current, Frames
      <4>4. Saved' = <<Current>>
        BY <1>1, <1>11, <3>1, <4>2 DEF base
      <4> QED BY <4>3, <4>4
    <3> QED BY <3>2, <3>3
  <2> QED BY <2>1, <2>2
<1>15. OneFile(U, Saved')
  BY <1>13, <1>14, OneFileIs
<1>16. Orphans(Taken, orphanarium)' /\ OneFile(Taken, Saved)'
  BY <1>1, <1>4, <1>5, <1>10, <1>15, SettingsOnly
<1> QED BY <1>1, <1>2, <1>3, <1>4, <1>16 DEF OneFileInv, Numbered

LEMMA Next_OneFile ==
  ASSUME InfoWritten, OneFileInv, [Next]_vars
  PROVE  OneFileInv'
<1>1. ModuleTyped /\ Room
  BY DEF OneFileInv
<1>2. ASSUME NEW s \in config.arriving, Arrive(s)
      PROVE  OneFileInv'
  BY <1>2, Arrive_OneFile
<1> QED BY <1>1, <1>2, NextSorts, Quiet_OneFile, WriteHead_OneFile, Process_OneFile

LEMMA OneFileInv_Written == OneFileInv => WrittenAsOneFile
<1> SUFFICES ASSUME OneFileInv PROVE WrittenAsOneFile
  OBVIOUS
<1>1. OneFile(Taken, Saved)
  BY DEF OneFileInv
<1>2. Taken = <<>> => Saved = <<>>
  <2>1. SUFFICES ASSUME Taken = <<>> PROVE Saved = <<>>
    OBVIOUS
  <2>2. DOMAIN Taken = {} /\ Info(Taken) = {}
    BY <2>1 DEF Info
  <2>3. Ids(Saved) = {}
    BY <1>1, <2>2, OneFileIs
  <2>4. DOMAIN Saved = {}
    BY <2>3 DEF Ids
  <2>5. Saved \in Seq(Frames)
    <3>1. files \in Seq(Files)
      BY DEF OneFileInv, ModuleTyped
    <3>2. Len(files) \in 0 .. Len(files) /\ Len(files) \in Nat
      BY <3>1
    <3> QED BY <3>1, <3>2, BeforeIs, JoinedIs
  <2>6. DOMAIN Saved = 1 .. Len(Saved) /\ Len(Saved) \in Nat
    BY <2>5
  <2>7. Len(Saved) = 0
    BY <2>4, <2>6
  <2> QED BY <2>5, <2>7
<1> QED BY <1>1, <1>2 DEF OneFile, WrittenAsOneFile

\* However a writer splits its output, and whatever it holds back, the files
\* hold together what one file would, with the configuration first.
THEOREM FilesAsOne ==
  ASSUME InfoWritten
  PROVE  Spec => []WrittenAsOneFile
BY Init_OneFile, Next_OneFile, OneFileInv_Written, PTL DEF Spec
==============================================================================
