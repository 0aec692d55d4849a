------------------------------ MODULE FileStager ------------------------------
(***************************************************************************)
(* dataio's I3FileStager: a URL is read and written through a scratch file *)
(* on the local disk, which its clients share through a counted handle.    *)
(* The last one to let go of a handle removes the scratch file, after an   *)
(* upload if the handle was made for writing.  The transfers are those of  *)
(* I3FileStagerFile (http), whose download is tried again when it was seen *)
(* to be cut short: only if the server had stated the file's length.       *)
(*                                                                         *)
(* A file's contents is a sequence of items; None stands for no file.  The *)
(* stager serves one call at a time: while a download is in progress there *)
(* is no other call.                                                       *)
(***************************************************************************)
EXTENDS Integers, Sequences, SequencesExt

CONSTANTS Urls,       \* what can be read and written
          Clients,    \* readers and writers that share the stager
          None,       \* no file
          Items,      \* what files are made of
          MaxItems,   \* bound: items a client writes into a file
          Retry,      \* I3FileStagerFile's retry: attempts of a download
          Tells,      \* URLs whose length the server states, in a header that is read
          Mixed       \* may a URL be asked for to read and to write at once?

ASSUME RetryAssumption == Retry \in Nat \ {0}
ASSUME NoneAssumption == None \notin Seq(Items)

VARIABLES remote,     \* what lies under each URL
          local,      \* what lies in the scratch file of each URL
          handle,     \* what each URL's live handle was made for, "none" without
          asked,      \* what each client asked for: asked[u][c]
          download,   \* the download in progress, or None
          retries,    \* of the download of each URL in progress, and of the one
                      \* that its live handle comes from when it was over
          running     \* FALSE once an exception has left a destructor

stagerVars == <<remote, local, handle, asked, download, retries, running>>

Uses == {"none", "read", "write"}
Downloads == [url : Urls, client : Clients]

StagerInit ==
    /\ remote \in [Urls -> {None} \cup [1 .. 1 -> Items]]
    /\ local = [u \in Urls |-> None]
    /\ handle = [u \in Urls |-> "none"]
    /\ asked = [u \in Urls |-> [c \in Clients |-> "none"]]
    /\ download = None
    /\ retries = [u \in Urls |-> Retry]
    /\ running = TRUE

-----------------------------------------------------------------------------
Free == running /\ download = None

Ask(c, u, use) == asked' = [asked EXCEPT ![u][c] = use]

\* Somebody holds the handle still: the caller shares it, whatever it is for.
ShareHandle(c, u, use) ==
    /\ Free
    /\ handle[u] # "none"
    /\ asked[u][c] = "none"
    /\ Mixed \/ handle[u] = use
    /\ Ask(c, u, use)
    /\ UNCHANGED <<remote, local, handle, download, retries, running>>

\* GetReadablePath of a URL without handle: CopyFileIn begins.
StartDownload(c, u) ==
    /\ Free
    /\ handle[u] = "none"
    /\ download' = [url |-> u, client |-> c]
    /\ retries' = [retries EXCEPT ![u] = Retry]
    /\ UNCHANGED <<remote, local, handle, asked, running>>

\* CopyFileIn returned: the caller gets a handle that removes the file.
HandOver ==
    /\ handle' = [handle EXCEPT ![download.url] = "read"]
    /\ Ask(download.client, download.url, "read")
    /\ download' = None

Receive(content) ==
    /\ local' = [local EXCEPT ![download.url] = content]
    /\ HandOver
    /\ UNCHANGED <<remote, retries, running>>

Received ==
    /\ running /\ download # None
    /\ remote[download.url] # None
    /\ Receive(remote[download.url])

\* The connection ends early.
Cut ==
    /\ running /\ download # None
    /\ remote[download.url] \notin {None, <<>>}

\* The length was stated: the piece is removed, and the download begins anew.
\* After the last attempt the loop simply ends, and CopyFileIn returns.
CutNoticed ==
    /\ Cut
    /\ download.url \in Tells
    /\ retries' = [retries EXCEPT ![download.url] = @ - 1]
    /\ IF retries'[download.url] > 0 THEN UNCHANGED <<handle, asked, download>>
                                     ELSE HandOver
    /\ UNCHANGED <<remote, local, running>>

\* Without a length the piece is taken for the file.
CutUnnoticed ==
    /\ Cut
    /\ download.url \notin Tells
    /\ Receive(Front(remote[download.url]))

\* Mutant of CutShort: stated lengths are not looked at.
CutShortTaken == Cut /\ Receive(Front(remote[download.url]))

\* Mutant of CutShort: after the last attempt it begins anew.
CutShortForever ==
    /\ Cut
    /\ retries' = [retries EXCEPT ![download.url] = IF @ > 1 THEN @ - 1 ELSE Retry]
    /\ UNCHANGED <<remote, local, handle, asked, download, running>>

CutShort == CutNoticed \/ CutUnnoticed

\* Any other failure is fatal for the call: no file, no handle.
DownloadFails ==
    /\ running /\ download # None
    /\ download' = None
    /\ retries' = [retries EXCEPT ![download.url] = Retry]
    /\ UNCHANGED <<remote, local, handle, asked, running>>

\* GetWriteablePath of a URL without handle.
MakeWriteable(c, u) ==
    /\ Free
    /\ handle[u] = "none"
    /\ handle' = [handle EXCEPT ![u] = "write"]
    /\ Ask(c, u, "write")
    /\ UNCHANGED <<remote, local, download, retries, running>>

GetWriteablePath(c, u) == MakeWriteable(c, u) \/ ShareHandle(c, u, "write")

-----------------------------------------------------------------------------
Others(c, u) == \E d \in Clients \ {c} : asked[u][d] # "none"

LetGo(c, u) ==
    /\ Free
    /\ asked[u][c] # "none"
    /\ Ask(c, u, "none")

\* Not the last reference: nothing happens.
DropReference(c, u) ==
    /\ LetGo(c, u)
    /\ Others(c, u)
    /\ UNCHANGED <<remote, local, handle, download, retries, running>>

\* Cleanup, and StageFileOut of a file that is not there.
RemoveCopy(c, u) ==
    /\ LetGo(c, u)
    /\ ~Others(c, u)
    /\ handle[u] = "read" \/ local[u] = None
    /\ local' = [local EXCEPT ![u] = None]
    /\ handle' = [handle EXCEPT ![u] = "none"]
    /\ retries' = [retries EXCEPT ![u] = Retry]
    /\ UNCHANGED <<remote, download, running>>

\* StageFileOut: upload, then remove.
Upload(c, u) ==
    /\ LetGo(c, u)
    /\ ~Others(c, u)
    /\ handle[u] = "write" /\ local[u] # None
    /\ remote' = [remote EXCEPT ![u] = local[u]]
    /\ local' = [local EXCEPT ![u] = None]
    /\ handle' = [handle EXCEPT ![u] = "none"]
    /\ UNCHANGED <<download, retries, running>>

\* Mutant of UploadFails: the scratch file was removed first.
UploadFailsRemoved(c, u) ==
    /\ LetGo(c, u)
    /\ handle[u] = "write" /\ local[u] # None
    /\ local' = [local EXCEPT ![u] = None]
    /\ handle' = [handle EXCEPT ![u] = "none"]
    /\ running' = FALSE
    /\ UNCHANGED <<remote, download, retries>>

\* Mutant of UploadFails: the exception is kept from leaving the destructor.
UploadFailsQuietly(c, u) ==
    /\ LetGo(c, u)
    /\ ~Others(c, u)
    /\ handle[u] = "write" /\ local[u] # None
    /\ local' = [local EXCEPT ![u] = None]
    /\ handle' = [handle EXCEPT ![u] = "none"]
    /\ UNCHANGED <<remote, download, retries, running>>

\* CopyFileOut throws: the exception leaves the destructor of the handle and
\* the process ends.  A piece of the file may have arrived.
UploadFails(c, u) ==
    /\ LetGo(c, u)
    /\ ~Others(c, u)
    /\ handle[u] = "write" /\ local[u] # None
    /\ \/ UNCHANGED remote
       \/ local[u] # <<>> /\ remote' = [remote EXCEPT ![u] = Front(local[u])]
    /\ handle' = [handle EXCEPT ![u] = "none"]
    /\ running' = FALSE
    /\ UNCHANGED <<local, download, retries>>

Release(c, u) ==
    DropReference(c, u) \/ RemoveCopy(c, u) \/ Upload(c, u) \/ UploadFails(c, u)

\* What a client does with the scratch file of a URL it asked for to write.
WriteItem(c, u, item) ==
    /\ Free
    /\ asked[u][c] = "write"
    /\ local[u] # None => Len(local[u]) < MaxItems
    /\ local' = [local EXCEPT ![u] = IF @ = None THEN <<item>>
                                                 ELSE Append(@, item)]
    /\ UNCHANGED <<remote, handle, asked, download, retries, running>>

Transfer == Received \/ CutShort \/ DownloadFails

ReaderStep(c, u) ==
    \/ asked[u][c] = "none" /\ StartDownload(c, u)
    \/ ShareHandle(c, u, "read")
    \/ asked[u][c] = "read" /\ Release(c, u)

WriterStep(c, u) ==
    \/ asked[u][c] = "none" /\ GetWriteablePath(c, u)
    \/ \E item \in Items : WriteItem(c, u, item)
    \/ asked[u][c] = "write" /\ Release(c, u)

StagerNext ==
    \/ Transfer
    \/ \E c \in Clients, u \in Urls : ReaderStep(c, u) \/ WriterStep(c, u)

StagerSpec == StagerInit /\ [][StagerNext]_stagerVars /\ WF_stagerVars(Transfer)

-----------------------------------------------------------------------------
StagerTypeOK ==
    /\ remote \in [Urls -> {None} \cup Seq(Items)]
    /\ local \in [Urls -> {None} \cup Seq(Items)]
    /\ handle \in [Urls -> Uses]
    /\ asked \in [Urls -> [Clients -> Uses]]
    /\ download \in {None} \cup Downloads
    /\ retries \in [Urls -> 0 .. Retry]
    /\ running \in BOOLEAN

\* A handle lives as long as somebody holds it, and it was made for what its
\* holders asked for: nobody who asked for a file to write holds a handle that
\* throws the file away, nobody who reads has it written under his hands.
HandlesMatch ==
    \A u \in Urls :
      /\ handle[u] = "none" <=> \A c \in Clients : asked[u][c] = "none"
      /\ \A c \in Clients : asked[u][c] \in {"none", handle[u]}

\* No scratch file outlives its handle (a process that was ended may leave one).
ScratchHeld == running => \A u \in Urls : handle[u] = "none" => local[u] = None

HasAll(u) == local[u] # None /\ local[u] = remote[u]

\* Who was given a URL to read has all of it in the scratch file, for as long
\* as he holds it.  Only if no length was stated may it be a piece, and it is
\* missing only if all attempts of its download were seen to be cut short.
ReadersSeeRemote ==
    running => \A u \in Urls, c \in Clients : asked[u][c] = "read" =>
      \/ HasAll(u)
      \/ u \notin Tells /\ local[u] # None /\ IsPrefix(local[u], remote[u])
      \/ u \in Tells /\ local[u] = None /\ retries[u] = 0

\* What I3FileStager.h:68-70 promises: a URL asked for to read is on the disk.
ReadersHaveAll ==
    running => \A u \in Urls, c \in Clients : asked[u][c] = "read" => HasAll(u)

\* What was written is under the URL once the last writer has let go of it.
UploadedOnRelease ==
    [][\A u \in Urls :
         /\ running' /\ handle[u] # "none" /\ handle'[u] = "none"
         /\ \E c \in Clients : asked[u][c] = "write"
         /\ local[u] # None
         => remote'[u] = local[u]]_stagerVars

\* A download comes to an end, however often it is cut short.
EveryDownloadEnds == download # None ~> download = None
=============================================================================
