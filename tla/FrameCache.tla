----------------------------- MODULE FrameCache ----------------------------
(***************************************************************************)
(* The FrameCache of dataio/private/dataio/I3FrameSequence.cxx: a window   *)
(* [first, last) of frame vectors that follows the index last added.  A    *)
(* cache is a record                                                       *)
(*   first, last - first_index_ and last_index_                            *)
(*   frames      - frames_, as a function on the indices of the window     *)
(* Only the thread that owns the sequence uses it, and each member holds   *)
(* the cache's mutex throughout, so the members are operators.             *)
(***************************************************************************)
EXTENDS Integers, Sequences

CONSTANT CacheSize  \* max_size_

ASSUME CacheSizeAssumption == CacheSize \in Nat

\* The empty vector: padding, or nothing at that index.
NoFrames == <<>>

Window(c) == c.first .. c.last - 1

EmptyCache == [first |-> 0, last |-> 0, frames |-> [i \in {} |-> NoFrames]]

\* get: the vector at an index, empty outside of the window.
CacheGet(c, index) ==
  IF index < c.first \/ index >= c.last THEN NoFrames ELSE c.frames[index]

\* The cache over the window [first, last) that holds value at index, keeps
\* what c had inside of the window and is padded with empty vectors elsewhere.
Moved(c, first, last, index, value) ==
  [first |-> first, last |-> last,
   frames |-> [i \in first .. last - 1 |-> IF i = index THEN value ELSE CacheGet(c, i)]]

\* Mutant of CacheAdd: inserting in front evicts nothing at the back.
CacheAddUnevicted(c, index, value) ==
  IF index >= c.last
  THEN Moved(c, IF index + 1 - c.first > CacheSize THEN index + 1 - CacheSize ELSE c.first,
             index + 1, index, value)
  ELSE Moved(c, IF index < c.first THEN index ELSE c.first, c.last, index, value)

\* add: insert after the window, before it or inside of it; a window that
\* has grown too large loses indices at the far end.
CacheAdd(c, index, value) ==
  IF index >= c.last
  THEN Moved(c, IF index + 1 - c.first > CacheSize THEN index + 1 - CacheSize ELSE c.first,
             index + 1, index, value)
  ELSE IF index < c.first
  THEN Moved(c, index, IF c.last - index > CacheSize THEN index + CacheSize ELSE c.last,
             index, value)
  ELSE Moved(c, c.first, c.last, index, value)
=============================================================================
