------------------------------- MODULE DirStream -------------------------------
(***************************************************************************)
(* One stream over a directory of the image: tebako_ds and the calls of    *)
(* sync_tebako_dstable that work on it (tebako-dirent.cpp).  The entries   *)
(* are read a page at a time through the descriptor of the stream, and     *)
(* readdir, telldir and seekdir work on the page that is loaded.  POSIX    *)
(* leaves calls of several threads on one stream to the program, so they   *)
(* come one after the other here.                                          *)
(*                                                                         *)
(* The stream keeps the number of its descriptor, which dirfd hands to the *)
(* program.  When the program closes it, the number may be opened again on *)
(* another directory, and pages are loaded from that one; or a page cannot *)
(* be loaded, and what readdir takes from memory afterwards may be an      *)
(* entry that was read long ago, or no entry at all.                       *)
(***************************************************************************)
EXTENDS Integers

CONSTANTS
  Directory, \* the directories of the image
  Own,       \* the one the stream was opened on
  DirSize,   \* DirSize[d]: entries of d, "." and ".." included
  PageSize,  \* TEBAKO_DIR_CACHE_SIZE
  SizeMax,   \* largest value of size_t
  Nowhere,   \* what a number is open on that is closed, or open on a file
  End,       \* readdir returned NULL and no error
  Failed,    \* readdir returned NULL and an error
  Wild       \* readdir returned memory that no entry was ever read into

ASSUME DirectoryAssumption == /\ Own \in Directory /\ Nowhere \notin Directory
                              /\ DirSize \in [Directory -> Nat \ {0}]
ASSUME PageAssumption == /\ PageSize \in Nat \ {0}
                         /\ SizeMax \in Nat
                         /\ \A d \in Directory : SizeMax > DirSize[d] + PageSize

VARIABLES
  dir_position,
  dir_size,
  cache_start,
  cache_size,
  cache,    \* cache[i]: the entry in slot i of the page
  open_on,  \* the directory that the number of the descriptor is open on, or Nowhere
  got,      \* what the last readdir returned
  lost      \* history: was a page asked of a number that is not open on Own?
streamVars == <<dir_position, dir_size, cache_start, cache_size, cache, open_on, got, lost>>

Slots == 0 .. PageSize - 1
Position(d) == 0 .. DirSize[d] - 1
Entry == UNION {{d} \X Position(d) : d \in Directory}
Lesser(a, b) == IF a <= b THEN a ELSE b

StreamTypeOK == /\ dir_position \in Int /\ dir_position >= -1
                /\ dir_size \in {DirSize[d] : d \in Directory}
                /\ cache_start \in Nat
                /\ cache_size \in 0 .. PageSize
                /\ cache \in [Slots -> Entry \cup {Wild}]
                /\ open_on \in Directory \cup {Nowhere}
                /\ got \in Entry \cup {End, Failed, Wild}
                /\ lost \in BOOLEAN

\* memfs::inode_readdir: the entries of d from start, as many as there are and
\* fit; what the other slots hold stays there.
Page(old, d, start) ==
  [i \in Slots |-> IF start + i < DirSize[d] THEN <<d, start + i>> ELSE old[i]]

PageLength(d, start) == IF start < DirSize[d] THEN Lesser(PageSize, DirSize[d] - start) ELSE 0

\* opendir has loaded the first page.
StreamInit == /\ dir_position = 0
              /\ dir_size = DirSize[Own]
              /\ cache_start = 0
              /\ cache_size = PageLength(Own, 0)
              /\ cache = Page([i \in Slots |-> Wild], Own, 0)
              /\ open_on = Own
              /\ got = End
              /\ lost = FALSE

\* readdir compares cache_start + cache_size - 1 in size_t.
LastCached == IF cache_start + cache_size = 0 THEN SizeMax ELSE cache_start + cache_size - 1

\* Mutant: one past the page counts as cached.
Cached_OffByOne == dir_position >= cache_start /\ dir_position <= cache_start + cache_size

\* The position is in the page that is loaded.
Cached == dir_position >= cache_start /\ dir_position <= LastCached

\* readdir has an entry to return.
HasNext == 0 <= dir_position /\ dir_position < dir_size

\* Mutant: the position stays.
ReadCached_Stays ==
  /\ HasNext /\ Cached
  /\ got' = cache[dir_position - cache_start]
  /\ UNCHANGED <<dir_position, dir_size, cache_start, cache_size, cache, open_on, lost>>

\* &cache[dir_position++ - cache_start], a slot of the page or not.
ReadCached ==
  /\ HasNext /\ Cached
  /\ got' = IF dir_position - cache_start \in Slots THEN cache[dir_position - cache_start] ELSE Wild
  /\ dir_position' = dir_position + 1
  /\ UNCHANGED <<dir_size, cache_start, cache_size, cache, open_on, lost>>

\* load_cache(dir_position, false) reads whatever directory the number is open on
\* (nothing, if that one has no entry there), and readdir returns slot 0.
ReadPage ==
  /\ HasNext /\ ~Cached
  /\ open_on # Nowhere
  /\ cache' = Page(cache, open_on, dir_position)
  /\ cache_start' = dir_position
  /\ cache_size' = PageLength(open_on, dir_position)
  /\ dir_size' = DirSize[open_on]
  /\ got' = cache'[0]
  /\ dir_position' = dir_position + 1
  /\ lost' = (lost \/ open_on # Own)
  /\ UNCHANGED open_on

\* load_cache fails.  The page is empty from now on and the position negative;
\* cache_start and dir_size stay.
ReadPageFails ==
  /\ HasNext /\ ~Cached
  /\ open_on = Nowhere
  /\ dir_position' = -1
  /\ cache_size' = 0
  /\ got' = Failed
  /\ lost' = TRUE
  /\ UNCHANGED <<dir_size, cache_start, cache, open_on>>

ReadEnd == /\ dir_position >= dir_size
           /\ got' = End
           /\ UNCHANGED <<dir_position, dir_size, cache_start, cache_size, cache, open_on, lost>>

\* dir_position < 0: "Should not happen ever".
ReadNegative == /\ dir_position < 0
                /\ got' = Failed
                /\ UNCHANGED <<dir_position, dir_size, cache_start, cache_size, cache, open_on, lost>>

\* seekdir takes what telldir returned, rewinddir seeks to 0.
SeekDir(loc) == /\ dir_position' = loc
                /\ UNCHANGED <<dir_size, cache_start, cache_size, cache, open_on, got, lost>>

\* tebako_close(dirfd(dirp)) by the program ...
CloseVfd == /\ open_on' = Nowhere
            /\ UNCHANGED <<dir_position, dir_size, cache_start, cache_size, cache, got, lost>>

\* ... and an open that is given the number.
ReopenVfd(d) == /\ open_on = Nowhere
                /\ open_on' = d
                /\ UNCHANGED <<dir_position, dir_size, cache_start, cache_size, cache, got, lost>>

StreamNext == \/ ReadCached \/ ReadPage \/ ReadPageFails \/ ReadEnd \/ ReadNegative
              \/ \E d \in Directory : \/ \E loc \in 0 .. DirSize[d] : SeekDir(loc)
                                      \/ ReopenVfd(d)
              \/ CloseVfd

StreamSpec == StreamInit /\ [][StreamNext]_streamVars

--------------------------------------------------------------------------------
(* Properties.                                                               *)

\* The page holds the entries from cache_start on, no more than were loaded.
PageIsContiguous == ~lost =>
  /\ cache_start + cache_size <= DirSize[Own]
  /\ \A i \in 0 .. cache_size - 1 : cache[i] = <<Own, cache_start + i>>

\* readdir takes an entry from a slot that was loaded, not past the page and not from
\* the page before, until a page is asked of a number that is not open on the directory.
\* (If none could be loaded, cache_size is 0; with a cache_start of 0 LastCached is then
\* the largest number there is, and every position counts as cached for ever.)
ReadsInsidePage == ~lost /\ HasNext /\ Cached => dir_position - cache_start < cache_size

\* The stream with its page is a position in the directory: no entry is skipped,
\* repeated or out of place, whatever the seeks and page boundaries, and even when the
\* program closed the descriptor, until a page is needed that the number of the
\* descriptor does not give.  What readdir returns from then on, an error, an entry of
\* another directory or memory that is none, is left open.
P == INSTANCE DirPosition WITH pos <- dir_position, open <- open_on = Own, N <- DirSize[Own],
                               Entry <- [i \in Position(Own) |-> <<Own, i>>]
ReadsInOrder == P!Spec

\* The inductive invariant behind them: a page that can be read is never empty.
PageIsUsable == ~lost => dir_size = DirSize[Own] /\ dir_position >= 0 /\ cache_size >= 1
StreamInv == StreamTypeOK /\ PageIsContiguous /\ PageIsUsable
================================================================================
