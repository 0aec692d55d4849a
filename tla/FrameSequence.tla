--------------------------- MODULE FrameSequence ---------------------------
(***************************************************************************)
(* dataio::I3FrameSequence (dataio/private/dataio/I3FrameSequence.cxx).    *)
(*                                                                         *)
(* Two threads share the files: the client's thread, which calls the       *)
(* sequence, and the worker of the ThreadRunner, which executes the queued *)
(* get_frame tasks one at a time and fulfils their futures.  A call of the *)
(* client is one step unless it reads what the worker changes: more() and  *)
(* pop_frame() block on a future, and seek() asks for the current size     *)
(* once per prefetched index.                                              *)
(***************************************************************************)
EXTENDS Integers, Sequences, FiniteSets, SequencesExt, FileGroup, FrameCache

CONSTANTS Frames,        \* the frames there may be in files
          FileData,      \* the contents of files a client may open
          InitialFiles,  \* the files given to the constructor
          StreamArgs,    \* stream arguments of pop_frame; AnyStream is None
          Prefetch,      \* how many frames ahead are requested (10 in the code)
          MaxFiles,      \* bound: files open at once
          MaxIndex,      \* bound: largest argument of seek
          Calls,         \* the calls this client makes
          Fatal          \* what a call answers that ends in log_fatal

ASSUME PrefetchAssumption == Prefetch \in Nat \ {0}

ASSUME FilesAssumption == FileData \subseteq Seq(Frames) /\ InitialFiles \in Seq(Seq(Frames))

VARIABLES group,    \* files_
          cache,    \* cache_
          queue,    \* tr_.data_: the indices of the queued get_frame tasks
          running,  \* the task the worker has taken off the queue
          futures,  \* tr_cache_, and the future a blocked call made for itself
          frameno,  \* frameno_, the index of the next frame
          pc,       \* where the client's thread is inside of a call
          call,     \* the locals of that call
          answer    \* the call last returned from, with its result

vars == <<group, cache, queue, running, futures, frameno, pc, call, answer>>

AnyStream == "None"

\* A task taken off the queue; live is FALSE once its future was dropped.
Idle == [index |-> -1, live |-> FALSE]
Task(index) == [index |-> index, live |-> TRUE]

Pending == [ready |-> FALSE]
Ready(ok, frames) == [ready |-> TRUE, ok |-> ok, frames |-> frames]

\* arg: the stream of pop_frame; from: frameno_ when it began; own: whether it
\* waits for a future of its own; i, capped: the prefetch loop's counter, and
\* whether the loop is seek's, which stops at the size known so far.
NoCall == [arg |-> AnyStream, from |-> 0, own |-> FALSE, i |-> 0, capped |-> FALSE]
NoFutures == [i \in {} |-> Pending]

-----------------------------------------------------------------------------
(* The prefetch loop at the end of the constructor, add_file, rewind, seek   *)
(* and pop_frame, one step per index, with the worker running in between.   *)

\* Push a get_frame task and keep its future.
Push(index) == /\ queue' = Append(queue, index)
               /\ futures' = [i \in DOMAIN futures \cup {index} |->
                                IF i = index THEN Pending ELSE futures[i]]

\* Push a task unless the frame is cached or has been asked for already.
PrefetchStep ==
  LET index == frameno + call.i
      past  == call.capped /\ index > GetCurSize(group)
  IN  /\ pc = "prefetch"
      /\ IF past \/ CacheGet(cache, index) # NoFrames \/ index \in DOMAIN futures
         THEN UNCHANGED <<queue, futures>>
         ELSE Push(index)
      /\ IF past \/ call.i = Prefetch - 1
         THEN pc' = "idle" /\ call' = NoCall
         ELSE pc' = pc /\ call' = [call EXCEPT !.i = @ + 1]
      /\ UNCHANGED <<group, cache, running, frameno, answer>>

BeginPrefetch(capped) == /\ pc' = "prefetch"
                         /\ call' = [NoCall EXCEPT !.capped = capped]

\* Mutant of DropTasks: tr_.clear() without tr_cache_.clear().
DropQueueOnly == queue' = <<>> /\ UNCHANGED <<running, futures>>

\* tr_.clear() and tr_cache_.clear(): the task the worker has already taken
\* runs on, but nobody holds its future any more.
DropTasks == /\ running' = [running EXCEPT !.live = FALSE]
             /\ queue' = <<>>
             /\ futures' = NoFutures

\* The constructor from a list of paths is about to prefetch; the one from
\* only a cache size leaves that to add_file.
Init == /\ group = NewGroup(InitialFiles)
        /\ cache = EmptyCache
        /\ queue = <<>>
        /\ running = Idle
        /\ futures = NoFutures
        /\ frameno = 0
        /\ pc \in {"prefetch"} \cup (IF InitialFiles = <<>> THEN {"idle"} ELSE {})
        /\ call = NoCall
        /\ answer = [op |-> "done"]

-----------------------------------------------------------------------------
(* The worker thread, ThreadRunner::run.                                    *)

TakeTask ==
  /\ running = Idle
  /\ queue # <<>>
  /\ running' = Task(Head(queue))
  /\ queue' = Tail(queue)
  /\ UNCHANGED <<group, cache, futures, frameno, pc, call, answer>>

\* An exception of get_frame is stored in the future like a result.
RunTask ==
  /\ running # Idle
  /\ \E r \in {GetFrame(group, running.index)} :
       /\ group' = r.group
       /\ futures' = IF running.live
                     THEN [futures EXCEPT ![running.index] = Ready(r.ok, r.frames)]
                     ELSE futures
  /\ running' = Idle
  /\ UNCHANGED <<cache, queue, frameno, pc, call, answer>>

Worker == TakeTask \/ RunTask

-----------------------------------------------------------------------------
(* Calls that need no result of the worker.                                 *)

\* Adding may copy the I3Files that are open, which may fail (then nothing
\* was added and the exception leaves add_file before it prefetches).
AddFile(data) ==
  /\ pc = "idle"
  /\ \/ "add" \in Calls
     \/ "reopen" \in Calls /\ answer.op = "close"
  /\ Len(group.files) < MaxFiles
  /\ \E added \in {AddToGroup(group, data)} :
       /\ group' = added.group
       /\ IF added.ok
          THEN /\ BeginPrefetch(FALSE)
               /\ answer' = [op |-> "done"]
          ELSE /\ answer' = [op |-> "add", value |-> Fatal]
               /\ UNCHANGED <<pc, call>>
  /\ UNCHANGED <<cache, queue, running, futures, frameno>>

\* Mutant of Close: cache_.clear() is left out.
CloseKeepingCache ==
  /\ pc = "idle"
  /\ "close" \in Calls
  /\ DropTasks
  /\ group' = ClearGroup(group)
  /\ frameno' = 0
  /\ answer' = [op |-> "close"]
  /\ UNCHANGED <<cache, pc, call>>

Close ==
  /\ pc = "idle"
  /\ "close" \in Calls
  /\ DropTasks
  /\ cache' = EmptyCache
  /\ group' = ClearGroup(group)
  /\ frameno' = 0
  /\ answer' = [op |-> "close"]
  /\ UNCHANGED <<pc, call>>

\* Leaves the frame cache and the position as they are.  (Without a file the
\* code's pop_back is undefined; no caller does that.)
CloseLastFile ==
  /\ pc = "idle"
  /\ "close_last_file" \in Calls
  /\ group.files # <<>>
  /\ DropTasks
  /\ group' = RemoveLastFile(group)
  /\ answer' = [op |-> "done"]
  /\ UNCHANGED <<cache, frameno, pc, call>>

Rewind ==
  /\ pc = "idle"
  /\ "rewind" \in Calls
  /\ DropTasks
  /\ frameno' = 0
  /\ BeginPrefetch(FALSE)
  /\ answer' = [op |-> "done"]
  /\ UNCHANGED <<group, cache>>

\* Drops no task: what was prefetched before stays in tr_cache_.
Seek(index) ==
  /\ pc = "idle"
  /\ "seek" \in Calls
  /\ frameno' = index
  /\ BeginPrefetch(TRUE)
  /\ answer' = [op |-> "done"]
  /\ UNCHANGED <<group, cache, queue, running, futures>>

\* get_current_frame_and_deps, and with it get_mixed_frames and get_stream.
Current ==
  /\ pc = "idle"
  /\ "current" \in Calls
  /\ LET frames == CacheGet(cache, frameno - 1)
     IN  answer' = [op |-> "current", index |-> frameno - 1,
                    value |-> IF frameno > 0 /\ frames = NoFrames THEN Fatal
                              ELSE IF frameno = 0 THEN <<>> ELSE frames]
  /\ UNCHANGED <<group, cache, queue, running, futures, frameno, pc, call>>

-----------------------------------------------------------------------------
(* more and pop_frame: look in the cache, then for a future, else make one, *)
(* and block until the worker has fulfilled it.                             *)

\* The future of the next frame, pushing a task unless there is one.
AskFor(index) == IF index \in DOMAIN futures THEN UNCHANGED <<queue, futures>>
                                             ELSE Push(index)

Answered == frameno \in DOMAIN futures /\ futures[frameno].ready
Without(fs, index) == [i \in DOMAIN fs \ {index} |-> fs[i]]

\* future::get: a future that throws stays in tr_cache_, used up, since the
\* exception passes the erase by; the call's own future dies with the call.
AfterGet == IF futures[frameno].ok \/ call.own THEN Without(futures, frameno)
                                              ELSE futures

MoreAnswer(value) == [op |-> "more", index |-> frameno, value |-> value]

MoreCached ==
  /\ pc = "idle"
  /\ "more" \in Calls
  /\ CacheGet(cache, frameno) # NoFrames
  /\ answer' = MoreAnswer(TRUE)
  /\ UNCHANGED <<group, cache, queue, running, futures, frameno, pc, call>>

MoreAsk ==
  /\ pc = "idle"
  /\ "more" \in Calls
  /\ CacheGet(cache, frameno) = NoFrames
  /\ AskFor(frameno)
  /\ pc' = "more"
  /\ call' = [NoCall EXCEPT !.own = frameno \notin DOMAIN futures]
  /\ UNCHANGED <<group, cache, running, frameno, answer>>

MoreReturn ==
  /\ pc = "more"
  /\ Answered
  /\ LET got == futures[frameno]
     IN  /\ cache' = IF got.ok /\ got.frames # NoFrames
                     THEN CacheAdd(cache, frameno, got.frames) ELSE cache
         /\ answer' = MoreAnswer(IF got.ok THEN got.frames # NoFrames ELSE Fatal)
  /\ futures' = AfterGet
  /\ pc' = "idle"
  /\ call' = NoCall
  /\ UNCHANGED <<group, queue, running, frameno>>

PopFrame(stream) ==
  /\ pc = "idle"
  /\ "pop_frame" \in Calls
  /\ pc' = "pop"
  /\ call' = [NoCall EXCEPT !.arg = stream, !.from = frameno]
  /\ UNCHANGED <<group, cache, queue, running, futures, frameno, answer>>

\* The frame at frameno_ is at hand: count past it, and return it (mixing
\* copies of its parents into a copy) if its stream is the one asked for.
PopTake(frames) ==
  /\ frameno' = frameno + 1
  /\ IF call.arg \in {AnyStream, Last(frames).stop}
     THEN /\ BeginPrefetch(FALSE)
          /\ answer' = [op |-> "pop", index |-> frameno, value |-> frames]
     ELSE /\ pc' = "pop"
          /\ UNCHANGED <<answer, call>>

PopCached ==
  /\ pc = "pop"
  /\ CacheGet(cache, frameno) # NoFrames
  /\ PopTake(CacheGet(cache, frameno))
  /\ UNCHANGED <<group, cache, queue, running, futures>>

PopAsk ==
  /\ pc = "pop"
  /\ CacheGet(cache, frameno) = NoFrames
  /\ AskFor(frameno)
  /\ pc' = "popwait"
  /\ call' = [call EXCEPT !.own = frameno \notin DOMAIN futures]
  /\ UNCHANGED <<group, cache, running, frameno, answer>>

PopReceive ==
  /\ pc = "popwait"
  /\ Answered
  /\ futures[frameno].ok
  /\ futures[frameno].frames # NoFrames
  /\ cache' = CacheAdd(cache, frameno, futures[frameno].frames)
  /\ futures' = AfterGet
  /\ PopTake(futures[frameno].frames)
  /\ UNCHANGED <<group, queue, running>>

\* No frame at the index, or the task ended in an exception.
PopFatal ==
  /\ pc = "popwait"
  /\ Answered
  /\ ~futures[frameno].ok \/ futures[frameno].frames = NoFrames
  /\ futures' = AfterGet
  /\ answer' = [op |-> "pop", index |-> frameno, value |-> Fatal]
  /\ pc' = "idle"
  /\ call' = NoCall
  /\ UNCHANGED <<group, cache, queue, running, frameno>>
-----------------------------------------------------------------------------

\* What the client may begin, and what its thread does inside of a call.
Client == \/ \E data \in FileData : AddFile(data)
          \/ Close
          \/ CloseLastFile
          \/ Rewind
          \/ Current
          \/ \E index \in 0 .. MaxIndex : Seek(index)
          \/ MoreCached
          \/ MoreAsk
          \/ \E stream \in StreamArgs : PopFrame(stream)

InCall == \/ PrefetchStep
          \/ MoreReturn
          \/ PopCached
          \/ PopAsk
          \/ PopReceive
          \/ PopFatal

Next == Client \/ InCall \/ Worker

\* Both threads keep running; the client need not call anything.
Fairness == WF_vars(Worker) /\ WF_vars(InCall)

Spec == Init /\ [][Next]_vars /\ Fairness

-----------------------------------------------------------------------------
(* Properties.                                                              *)

Data == [i \in DOMAIN group.files |-> group.files[i].data]

\* While a pop is looking for its stream the client has not moved yet.
Position == IF pc \in {"pop", "popwait"} THEN call.from ELSE frameno

Promise == INSTANCE FrameSequenceSpec WITH files <- Data, pos <- Position

PcValues == {"idle", "prefetch", "more", "pop", "popwait"}

CallType == [arg : StreamArgs \cup {AnyStream}, from : Nat, own : BOOLEAN, i : Nat,
             capped : BOOLEAN]

TasksTyped == /\ queue \in Seq(Nat)
              /\ running \in [index : Nat \cup {-1}, live : BOOLEAN]
              /\ DOMAIN futures \subseteq Nat
              /\ \A i \in DOMAIN futures : futures[i].ready \in BOOLEAN

ClientTyped == frameno \in Nat /\ pc \in PcValues /\ call \in CallType

CacheTyped == /\ cache.first \in Nat
              /\ cache.last \in Nat
              /\ cache.first <= cache.last
              /\ DOMAIN cache.frames = Window(cache)

\* The types of what the two threads exchange, of the client's position and
\* locals, and of the cache, which has a vector for each index of its window.
TypeOK == TasksTyped /\ ClientTyped /\ CacheTyped

\* The cache never holds more than max_size_ vectors, however the client
\* jumps about (FrameCache::add pads on one side and evicts on the other).
CacheBounded == cache.last - cache.first <= CacheSize

\* The indices some task is about to fulfil a future of.
Outstanding == ToSet(queue) \cup (IF running.live THEN {running.index} ELSE {})

TasksMatchFutures ==
  /\ \A i, j \in DOMAIN queue : queue[i] = queue[j] => i = j
  /\ running.live => running.index \notin ToSet(queue)
  /\ {i \in DOMAIN futures : ~futures[i].ready} = Outstanding

WaitsForAFuture == pc \in {"more", "popwait"} => frameno \in DOMAIN futures

\* A future that is still pending belongs to exactly one task, queued or
\* running, and each such task to a pending future: clear() drops the tasks
\* and the futures of a call together, so that no get() waits for a task
\* that was thrown away and no task fulfils a future of a later request; and
\* a call that waits, waits for a future there is.
NoOrphanedFuture == TasksMatchFutures /\ WaitsForAFuture

\* Every vector in the cache is what the open files hold at that index,
\* whatever the order in which the worker fetched and the client asked.
CacheCoherent ==
  \A i \in Window(cache) :
    CacheGet(cache, i) # NoFrames => CacheGet(cache, i) = Promise!FramesAt(Data, i)

\* So is every result the worker has delivered ahead of its use, "no frame
\* at this index" included.
FuturesCoherent ==
  \A i \in DOMAIN futures :
    futures[i].ready => futures[i].ok /\ futures[i].frames = Promise!FramesAt(Data, i)

\* get_size, once known, is the true number of frames, and get_cur_size never
\* exceeds it.
SizeCorrect ==
  /\ GetSize(group) \in {-1, Promise!Length(Data)}
  /\ GetCurSize(group) <= Promise!Length(Data)

\* The frame returned by pop_frame can be asked for again with its parents:
\* the cache still holds it (get_current_frame_and_deps is not fatal).
PoppedIsCurrent ==
  pc = "idle" /\ answer.op = "pop" /\ answer.value # Fatal
    => frameno = answer.index + 1 /\ CacheGet(cache, frameno - 1) = answer.value

\* "Frames should be read in order" (dataio/private/test/I3FrameSequence.cxx):
\* a frame pop_frame returns is the one at its index in the open files.
FramesReadInOrder ==
  answer.op = "pop" /\ answer.value # Fatal
    => answer.value = Promise!FramesAt(Data, answer.index)

\* "Test if there is another frame" (I3FrameSequence.h): more() says whether
\* the open files have a frame at the position.
MoreTellsTheTruth ==
  answer.op = "more" => answer.value = (answer.index < Promise!Length(Data))

\* A call that blocks on the worker returns, whatever was queued before it.
EveryCallReturns == pc # "idle" ~> pc = "idle"

\* The two threads together behave like one sequence of frames.
ActsAsOneSequence == Promise!Spec
=============================================================================
