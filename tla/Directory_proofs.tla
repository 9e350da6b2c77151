--------------------------- MODULE Directory_proofs ---------------------------
(***************************************************************************)
(* Proofs about DirStream for all directories and every size of the page,  *)
(* and about DirTables for every number of threads, addresses, descriptors *)
(* and releases, and for every kind of program.                            *)
(***************************************************************************)
EXTENDS DirStream, DirTables, FiniteSetTheorems, TLAPS

--------------------------------------------------------------------------------
(* One stream with its page.                                                 *)

LEMMA PageFacts ==
  ASSUME NEW d \in Directory, NEW start \in Nat, NEW old \in [Slots -> Entry \cup {Wild}]
  PROVE  /\ PageLength(d, start) \in 0 .. PageSize
         /\ start < DirSize[d] => PageLength(d, start) >= 1 /\ start + PageLength(d, start) <= DirSize[d]
         /\ Page(old, d, start) \in [Slots -> Entry \cup {Wild}]
         /\ \A i \in 0 .. PageLength(d, start) - 1 : Page(old, d, start)[i] = <<d, start + i>>
  <1> USE PageAssumption, DirectoryAssumption DEF Slots
  <1>0. DirSize[d] \in Nat \ {0}
    OBVIOUS
  <1>1. /\ PageLength(d, start) \in 0 .. PageSize
        /\ start < DirSize[d] => PageLength(d, start) >= 1 /\ start + PageLength(d, start) <= DirSize[d]
    BY <1>0 DEF PageLength, Lesser
  <1>2. ASSUME NEW i \in Slots, start + i < DirSize[d] PROVE <<d, start + i>> \in Entry
    <2>1. start + i \in Position(d)
      BY <1>0, <1>2 DEF Position
    <2> QED BY <2>1 DEF Entry
  <1>3. Page(old, d, start) \in [Slots -> Entry \cup {Wild}]
    BY <1>2 DEF Page
  <1>4. ASSUME NEW i \in 0 .. PageLength(d, start) - 1 PROVE Page(old, d, start)[i] = <<d, start + i>>
    <2>1. i \in Slots /\ start + i < DirSize[d]
      BY <1>0 DEF PageLength, Lesser
    <2> QED BY <2>1 DEF Page
  <1> QED BY <1>1, <1>3, <1>4

\* A stream that was just opened has the first page of its directory.
LEMMA StreamInitInv == StreamInit => StreamInv
  <1> SUFFICES ASSUME StreamInit PROVE StreamInv
    OBVIOUS
  <1> USE PageAssumption, DirectoryAssumption DEF StreamInit
  <1>1. [i \in Slots |-> Wild] \in [Slots -> Entry \cup {Wild}] /\ 0 < DirSize[Own]
    OBVIOUS
  <1>2. PageLength(Own, 0) >= 1 /\ 0 + PageLength(Own, 0) <= DirSize[Own]
    BY <1>1, PageFacts
  <1>3. StreamTypeOK
    <2>1. cache \in [Slots -> Entry \cup {Wild}] /\ cache_size \in 0 .. PageSize
      BY <1>1, PageFacts
    <2>2. dir_size \in {DirSize[d] : d \in Directory}
      OBVIOUS
    <2>3. /\ dir_position \in Int /\ dir_position >= -1 /\ cache_start \in Nat
          /\ open_on \in Directory \cup {Nowhere} /\ got \in Entry \cup {End, Failed, Wild}
      OBVIOUS
    <2>4. lost \in BOOLEAN
      BY Zenon
    <2> HIDE DEF StreamInit
    <2> QED BY <2>1, <2>2, <2>3, <2>4 DEF StreamTypeOK
  <1>4. PageIsContiguous
    BY <1>1, <1>2, PageFacts DEF PageIsContiguous
  <1> QED BY <1>2, <1>3, <1>4 DEF StreamInv, PageIsUsable

\* A position that counts as cached is in a slot that was loaded.
LEMMA CachedSlot ==
  ASSUME StreamInv, ~lost, Cached, HasNext
  PROVE  /\ dir_position - cache_start \in 0 .. cache_size - 1
         /\ dir_position - cache_start \in Slots
         /\ cache[dir_position - cache_start] = <<Own, dir_position>>
  <1> USE PageAssumption, DirectoryAssumption
      DEF StreamInv, StreamTypeOK, PageIsUsable, PageIsContiguous
  <1>1. dir_position - cache_start \in 0 .. cache_size - 1
    BY DEF Cached, LastCached, HasNext
  <1>2. dir_position - cache_start \in Slots
    BY <1>1 DEF Slots
  <1>3. cache[dir_position - cache_start] = <<Own, cache_start + (dir_position - cache_start)>>
    BY <1>1
  <1>4. cache_start + (dir_position - cache_start) = dir_position
    OBVIOUS
  <1> QED BY <1>1, <1>2, <1>3, <1>4

\* readdir, seekdir and what becomes of the descriptor keep the page and its counters together.
LEMMA StreamNextInv == StreamInv /\ [StreamNext]_streamVars => StreamInv'
  <1> SUFFICES ASSUME StreamInv, [StreamNext]_streamVars PROVE StreamInv'
    OBVIOUS
  <1> USE PageAssumption, DirectoryAssumption
      DEF StreamInv, StreamTypeOK, PageIsContiguous, PageIsUsable
  <1>1. CASE ReadCached
    <2>1. got' \in Entry \cup {End, Failed, Wild}
      BY <1>1 DEF ReadCached
    <2> QED BY <1>1, <2>1 DEF ReadCached, HasNext
  <1>2. CASE ReadPage
    <2>1. open_on \in Directory /\ dir_position \in Nat
      BY <1>2 DEF ReadPage, HasNext
    <2>2. cache' \in [Slots -> Entry \cup {Wild}] /\ 0 \in Slots
      BY <1>2, <2>1, PageFacts DEF ReadPage, Slots
    <2>3. got' \in Entry \cup {End, Failed, Wild}
      BY <1>2, <2>2 DEF ReadPage
    <2>4. StreamTypeOK'
      BY <1>2, <2>1, <2>2, <2>3, PageFacts DEF ReadPage
    <2>5. ASSUME ~lost' PROVE PageIsContiguous' /\ PageIsUsable'
      <3>1. ~lost /\ open_on = Own
        BY <1>2, <2>5, Zenon DEF ReadPage
      <3>2. dir_position < DirSize[Own]
        BY <1>2, <3>1 DEF ReadPage, HasNext
      <3> QED BY <1>2, <2>1, <3>1, <3>2, PageFacts DEF ReadPage
    <2> QED BY <2>4, <2>5
  <1>3. CASE ReadPageFails
    BY <1>3 DEF ReadPageFails
  <1>4. CASE ReadEnd \/ ReadNegative
    BY <1>4 DEF ReadEnd, ReadNegative
  <1>5. ASSUME NEW d \in Directory, NEW loc \in 0 .. DirSize[d], SeekDir(loc) PROVE StreamInv'
    <2>1. loc \in Nat
      OBVIOUS
    <2> QED BY <1>5, <2>1 DEF SeekDir
  <1>6. ASSUME NEW d \in Directory, ReopenVfd(d) PROVE StreamInv'
    BY <1>6 DEF ReopenVfd
  <1>7. CASE CloseVfd
    BY <1>7 DEF CloseVfd
  <1>8. CASE UNCHANGED streamVars
    BY <1>8 DEF streamVars
  <1> QED BY <1>1, <1>2, <1>3, <1>4, <1>5, <1>6, <1>7, <1>8 DEF StreamNext

\* The page and its counters (tebako_ds) fit in every state.
THEOREM StreamInvHolds == StreamSpec => []StreamInv
  <1> QED BY StreamInitInv, StreamNextInv, PTL DEF StreamSpec

\* Type correctness, whatever the program does to the descriptor.
THEOREM StreamTypeCorrect == StreamSpec => []StreamTypeOK
  <1>1. StreamInv => StreamTypeOK
    BY DEF StreamInv
  <1> QED BY <1>1, StreamInvHolds, PTL

\* The page holds consecutive entries of the directory until the stream is lost.
THEOREM PageHoldsEntries == StreamSpec => []PageIsContiguous
  <1>1. StreamInv => PageIsContiguous
    BY DEF StreamInv
  <1> QED BY <1>1, StreamInvHolds, PTL

\* Until a page is asked of a number that is not open on the directory, readdir never
\* reads a slot that was not loaded.
THEOREM ReadsAreInside == StreamSpec => []ReadsInsidePage
  <1>1. StreamInv => ReadsInsidePage
    <2> SUFFICES ASSUME StreamInv, ~lost, HasNext, Cached
                 PROVE  dir_position - cache_start < cache_size
      BY DEF ReadsInsidePage
    <2>1. dir_position - cache_start \in 0 .. cache_size - 1
      BY CachedSlot
    <2> QED BY <2>1 DEF StreamInv, StreamTypeOK
  <1> QED BY <1>1, StreamInvHolds, PTL

\* A read served from the page returns the entry at the position, unless the stream is lost.
LEMMA ReadCachedRefines == StreamInv /\ ReadCached => P!Read \/ P!ReadLost
  <1> SUFFICES ASSUME StreamInv, ReadCached PROVE P!Read \/ P!ReadLost
    OBVIOUS
  <1> USE DirectoryAssumption DEF StreamInv, StreamTypeOK
  <1>1. CASE ~lost
    <2>1. dir_position \in Position(Own) /\ dir_size = DirSize[Own]
      BY <1>1 DEF ReadCached, HasNext, PageIsUsable, Position
    <2>2. got' = <<Own, dir_position>>
      BY <1>1, CachedSlot DEF ReadCached
    <2>3. [i \in Position(Own) |-> <<Own, i>>][dir_position] = <<Own, dir_position>>
      BY <2>1
    <2> QED BY <2>1, <2>2, <2>3 DEF ReadCached, P!Read, Position
  <1>2. CASE lost
    BY <1>2 DEF ReadCached, P!ReadLost
  <1> QED BY <1>1, <1>2

\* So does the first read of a page, when the number is still open on the directory.
LEMMA ReadPageRefines == StreamInv /\ ReadPage => P!Read \/ P!ReadLost
  <1> SUFFICES ASSUME StreamInv, ReadPage PROVE P!Read \/ P!ReadLost
    OBVIOUS
  <1> USE PageAssumption, DirectoryAssumption DEF StreamInv, StreamTypeOK
  <1>1. CASE ~lost /\ open_on = Own
    <2>1. dir_position \in Position(Own) /\ dir_position \in Nat /\ dir_position < DirSize[Own]
      BY <1>1 DEF ReadPage, HasNext, PageIsUsable, Position
    <2>2. PageLength(Own, dir_position) >= 1
      BY <2>1, PageFacts
    <2>3. 0 \in 0 .. PageLength(Own, dir_position) - 1
      BY <2>1, <2>2, PageFacts
    <2>4. cache'[0] = <<Own, dir_position + 0>>
      BY <1>1, <2>1, <2>3, PageFacts DEF ReadPage
    <2>5. got' = <<Own, dir_position>>
      BY <2>1, <2>4 DEF ReadPage
    <2>6. [i \in Position(Own) |-> <<Own, i>>][dir_position] = <<Own, dir_position>>
      BY <2>1
    <2>7. lost' = lost
      BY <1>1 DEF ReadPage
    <2> QED BY <2>1, <2>5, <2>6, <2>7 DEF ReadPage, P!Read, Position
  <1>2. CASE lost \/ open_on # Own
    <2>1. lost' = TRUE /\ UNCHANGED open_on
      BY <1>2 DEF ReadPage
    <2> QED BY <1>2, <2>1 DEF P!ReadLost
  <1> QED BY <1>1, <1>2

\* Every step of the paged stream is one of a position in the directory, or none.
LEMMA ReadStepRefines == StreamInv /\ [StreamNext]_streamVars => [P!Next]_P!vars
  <1> SUFFICES ASSUME StreamInv, [StreamNext]_streamVars PROVE [P!Next]_P!vars
    OBVIOUS
  <1> USE DirectoryAssumption DEF P!Next, P!vars
  <1>1. CASE ReadCached
    BY <1>1, ReadCachedRefines
  <1>2. CASE ReadPage
    BY <1>2, ReadPageRefines
  <1>3. CASE ReadPageFails
    BY <1>3 DEF ReadPageFails, P!ReadLost
  <1>4. CASE ReadEnd
    <2>1. CASE ~lost
      BY <1>4, <2>1 DEF ReadEnd, P!ReadEnd, StreamInv, PageIsUsable
    <2>2. CASE lost
      BY <1>4, <2>2 DEF ReadEnd, P!ReadLost, StreamInv, StreamTypeOK
    <2> QED BY <2>1, <2>2
  <1>5. CASE ReadNegative
    <2>1. lost
      BY <1>5 DEF ReadNegative, StreamInv, StreamTypeOK, PageIsUsable
    <2> QED BY <1>5, <2>1 DEF ReadNegative, P!ReadLost, StreamInv, StreamTypeOK
  <1>6. ASSUME NEW d \in Directory, NEW loc \in 0 .. DirSize[d], SeekDir(loc) PROVE P!Seek
    BY <1>6 DEF SeekDir, P!Seek
  <1>7. ASSUME NEW d \in Directory, ReopenVfd(d) PROVE P!Descriptor
    BY <1>7 DEF ReopenVfd, P!Descriptor
  <1>8. CASE CloseVfd
    BY <1>8 DEF CloseVfd, P!Descriptor
  <1>9. CASE UNCHANGED streamVars
    BY <1>9 DEF streamVars
  <1> QED BY <1>1, <1>2, <1>3, <1>4, <1>5, <1>6, <1>7, <1>8, <1>9 DEF StreamNext

\* The paged stream implements a position in the directory.
THEOREM StreamRefinesPosition == StreamSpec => ReadsInOrder
  <1>1. StreamInit => P!Init
    BY DEF StreamInit, P!Init
  <1> QED BY <1>1, ReadStepRefines, StreamInvHolds, PTL DEF StreamSpec, ReadsInOrder, P!Spec

--------------------------------------------------------------------------------
(* The streams and descriptors that a program holds.                         *)

LEMMA InitInv == Init => Inv
  <1> SUFFICES ASSUME Init PROVE Inv
    OBVIOUS
  <1> USE NoneAssumption, BoundAssumption DEF Init
  <1>1. TypeOK
    <2>1. 0 \in 0 .. MaxGen
      OBVIOUS
    <2>2. "idle" \in Place
      BY DEF Place
    <2> QED BY <2>1, <2>2 DEF TypeOK, Making, Releasing
  <1>2. Bounded
    <2>1. {t \in Thread : pc[t] \in Releasing} = {}
      BY DEF Releasing
    <2>2. Cardinality({t \in Thread : pc[t] \in Releasing}) = 0
      BY <2>1, FS_EmptySet
    <2> QED BY <2>2 DEF Bounded
  <1>3. Pointers
    BY DEF Pointers, Addresses, Calls, Apart, KfdIsLive
  <1>4. Calm /\ Unfailing /\ ClosesAreTheirOwn /\ NoFdLeaks
    BY DEF Calm, Cleared, Current, Settled, Ownership, Unfailing, ClosesAreTheirOwn, NoFdLeaks,
           Making, Opening, Releasing
  <1> QED BY <1>1, <1>2, <1>3, <1>4 DEF Inv

\* The threads of a program are threads.
LEMMA ThreadsAreThreads == TypeOK => prog.threads \subseteq Thread
  BY ProgramAssumption DEF TypeOK, Programs

\* A thread in a release counts, and one that leaves no longer does.
Busy == {t \in Thread : pc[t] \in Releasing}

\* The calls that still are to release an address leave room in the counter of addresses.
LEMMA BusyCount ==
  ASSUME TypeOK, Bounded
  PROVE  /\ IsFiniteSet(Busy) /\ Cardinality(Busy) \in Nat
         /\ gen + Cardinality(Busy) <= MaxGen
         /\ \A t \in Thread : pc[t] \in Releasing => gen + 1 <= MaxGen
  <1>1. IsFiniteSet(Busy)
    BY ThreadAssumption, FS_Subset DEF Busy
  <1>2. Cardinality(Busy) \in Nat
    BY <1>1, FS_CardinalityType
  <1>3. gen + Cardinality(Busy) <= MaxGen
    BY DEF Bounded, Busy
  <1>4. ASSUME NEW t \in Thread, pc[t] \in Releasing PROVE gen + 1 <= MaxGen
    <2>1. Cardinality(Busy) # 0
      BY <1>1, <1>4, FS_EmptySet DEF Busy
    <2> QED BY <1>2, <1>3, <2>1, BoundAssumption DEF TypeOK
  <1> QED BY <1>1, <1>2, <1>3, <1>4

\* Types are kept; the bound on gen is a matter of Bounded.
LEMMA NextTypeOK ==
  ASSUME TypeOK, Bounded, [Next]_vars
  PROVE  TypeOK'
  <1> USE NoneAssumption, BoundAssumption
      DEF TypeOK, Place, Making, Releasing, Goto, Return, Begins, Opens
  <1>1. ASSUME NEW t \in Thread, FindDir(t), UNCHANGED prog PROVE TypeOK'
    BY <1>1 DEF FindDir
  <1>2. ASSUME NEW t \in Thread, OpenFd(t), UNCHANGED prog PROVE TypeOK'
    BY <1>2 DEF OpenFd
  <1>3. ASSUME NEW t \in Thread, OpenFdFails(t), UNCHANGED prog PROVE TypeOK'
    BY <1>3 DEF OpenFdFails
  <1>4. ASSUME NEW t \in Thread, LoadFails(t), UNCHANGED prog PROVE TypeOK'
    BY <1>4 DEF LoadFails
  <1>5. ASSUME NEW t \in Thread, OpenThrows(t), UNCHANGED prog PROVE TypeOK'
    BY <1>5 DEF OpenThrows
  <1>6. ASSUME NEW t \in Thread, InsertThrows(t), UNCHANGED prog PROVE TypeOK'
    BY <1>6 DEF InsertThrows
  <1>7. ASSUME NEW t \in Thread, CloseUnwound(t), UNCHANGED prog PROVE TypeOK'
    <2>1. ptr[t] \in Ptr
      BY <1>7 DEF CloseUnwound
    <2>2. /\ ds' \in [Ptr -> Vfd \cup {None}] /\ heap' \in [Ptr -> {"free", "ds", "dir"}]
          /\ fdtab' \in [Vfd -> (0 .. MaxGen) \cup {None}] /\ astray' \in BOOLEAN
      BY <1>7, <2>1 DEF CloseUnwound
    <2> QED BY <1>7, <2>2 DEF CloseUnwound
  <1>8. ASSUME NEW t \in Thread, InsertDs(t), UNCHANGED prog PROVE TypeOK'
    <2>1. vfd[t] \in Vfd /\ ptr[t] \in Ptr
      BY <1>8 DEF InsertDs
    <2>2. ds' \in [Ptr -> Vfd \cup {None}] /\ held' \in [Ptr -> {"mem", "host", None}]
      BY <1>8, <2>1 DEF InsertDs
    <2> QED BY <1>8, <2>1, <2>2 DEF InsertDs
  <1>9. ASSUME NEW t \in Thread, InsertKfd(t), UNCHANGED prog PROVE TypeOK'
    <2>1. ptr[t] \in Ptr
      BY <1>9 DEF InsertKfd
    <2>2. kfd' \subseteq Ptr /\ held' \in [Ptr -> {"mem", "host", None}]
      BY <1>9, <2>1 DEF InsertKfd
    <2> QED BY <1>9, <2>2 DEF InsertKfd
  <1>10. ASSUME NEW t \in Thread, UseHostDir(t), UNCHANGED prog PROVE TypeOK'
    BY <1>10 DEF UseHostDir
  <1>11. ASSUME NEW t \in Thread, CheckKfd(t), UNCHANGED prog PROVE TypeOK'
    BY <1>11 DEF CheckKfd
  <1>12. ASSUME NEW t \in Thread, CloseHostDir(t), UNCHANGED prog PROVE TypeOK'
    BY <1>12 DEF CloseHostDir
  <1>13. ASSUME NEW t \in Thread, EraseKfd(t), UNCHANGED prog PROVE TypeOK'
    BY <1>13 DEF EraseKfd
  <1>14. ASSUME NEW t \in Thread, CloseAllDs(t), UNCHANGED prog PROVE TypeOK'
    <2>1. /\ fdtab' \in [Vfd -> (0 .. MaxGen) \cup {None}]
          /\ ds' \in [Ptr -> Vfd \cup {None}]
          /\ heap' \in [Ptr -> {"free", "ds", "dir"}]
          /\ held' \in [Ptr -> {"mem", "host", None}]
      BY <1>14 DEF CloseAllDs, ReleaseBegins
    <2> QED BY <1>14, <2>1 DEF CloseAllDs, ReleaseBegins
  <1>15. ASSUME NEW t \in Thread, CloseAllFds(t), UNCHANGED prog PROVE TypeOK'
    BY <1>15 DEF CloseAllFds
  <1>16. ASSUME NEW t \in Thread, NewImage(t), UNCHANGED prog PROVE TypeOK'
    <2>1. gen + 1 \in 0 .. MaxGen
      BY <1>16, BusyCount DEF NewImage
    <2> QED BY <1>16, <2>1 DEF NewImage
  <1>17. ASSUME NEW t \in Thread, KeepFd(t), UNCHANGED prog PROVE TypeOK'
    BY <1>17 DEF KeepFd
  <1>18. ASSUME NEW t \in Thread, NEW p \in Ptr, LoadFirst(t, p), UNCHANGED prog PROVE TypeOK'
    BY <1>18 DEF LoadFirst
  <1>19. ASSUME NEW t \in Thread, NEW p \in Ptr, LoadFailsOver(t, p), UNCHANGED prog PROVE TypeOK'
    BY <1>19 DEF LoadFailsOver, NewHostDir
  <1>20. ASSUME NEW t \in Thread, NEW p \in Ptr, OpenHostDir(t, p), UNCHANGED prog PROVE TypeOK'
    BY <1>20 DEF OpenHostDir, NewHostDir
  <1>21. ASSUME NEW t \in Thread, NEW p \in Ptr, UseMiss(t, p), UNCHANGED prog PROVE TypeOK'
    BY <1>21 DEF UseMiss
  <1>22. ASSUME NEW t \in Thread, NEW p \in Ptr, CloseDs(t, p), UNCHANGED prog PROVE TypeOK'
    BY <1>22 DEF CloseDs, EndOfDs, GoesOn
  <1>23. ASSUME NEW t \in Thread, NEW p \in Ptr, CloseMiss(t, p), UNCHANGED prog PROVE TypeOK'
    BY <1>23 DEF CloseMiss
  <1>24. ASSUME NEW t \in Thread, NEW v \in Vfd, CloseFd(t, v), UNCHANGED prog PROVE TypeOK'
    BY <1>24 DEF CloseFd
  <1>25. ASSUME NEW t \in Thread, NEW v \in Vfd, FdOpenDir(t, v), UNCHANGED prog PROVE TypeOK'
    BY <1>25 DEF FdOpenDir
  <1>26. CASE UNCHANGED vars
    BY <1>26 DEF vars
  <1> QED
    BY ThreadsAreThreads, <1>1, <1>2, <1>3, <1>4, <1>5, <1>6, <1>7, <1>8, <1>9, <1>10, <1>11,
       <1>12, <1>13, <1>14, <1>15, <1>16, <1>17, <1>18, <1>19, <1>20, <1>21, <1>22, <1>23,
       <1>24, <1>25, <1>26 DEF Next, Step

\* A release that begins was counted, one that ends has moved gen on.
LEMMA NextBounded ==
  ASSUME TypeOK, Bounded, [Next]_vars
  PROVE  Bounded'
  <1> USE BoundAssumption
  <1>0. Bounded' <=> gen' + Cardinality(Busy') <= MaxGen
    BY DEF Bounded, Busy
  <1>a. ASSUME gen' = gen, Busy' = Busy PROVE Bounded'
    BY <1>0, <1>a, BusyCount
  <1>1. ASSUME NEW t \in Thread, FindDir(t), UNCHANGED prog PROVE Bounded'
    BY <1>a, <1>1 DEF FindDir, Begins, Opens, Return, Goto, Busy, Releasing, Making, TypeOK
  <1>2. ASSUME NEW t \in Thread, OpenFd(t), UNCHANGED prog PROVE Bounded'
    BY <1>a, <1>2 DEF OpenFd, Begins, Opens, Return, Goto, Busy, Releasing, Making, TypeOK
  <1>3. ASSUME NEW t \in Thread, OpenFdFails(t), UNCHANGED prog PROVE Bounded'
    BY <1>a, <1>3 DEF OpenFdFails, Begins, Opens, Return, Goto, Busy, Releasing, Making, TypeOK
  <1>4. ASSUME NEW t \in Thread, LoadFails(t), UNCHANGED prog PROVE Bounded'
    BY <1>a, <1>4 DEF LoadFails, Begins, Opens, Return, Goto, Busy, Releasing, Making, TypeOK
  <1>5. ASSUME NEW t \in Thread, OpenThrows(t), UNCHANGED prog PROVE Bounded'
    BY <1>a, <1>5 DEF OpenThrows, Begins, Opens, Return, Goto, Busy, Releasing, Making, TypeOK
  <1>6. ASSUME NEW t \in Thread, InsertThrows(t), UNCHANGED prog PROVE Bounded'
    BY <1>a, <1>6 DEF InsertThrows, Begins, Opens, Return, Goto, Busy, Releasing, Making, TypeOK
  <1>7. ASSUME NEW t \in Thread, CloseUnwound(t), UNCHANGED prog PROVE Bounded'
    BY <1>a, <1>7 DEF CloseUnwound, Begins, Opens, Return, Goto, Busy, Releasing, Making, TypeOK
  <1>8. ASSUME NEW t \in Thread, InsertDs(t), UNCHANGED prog PROVE Bounded'
    BY <1>a, <1>8 DEF InsertDs, Begins, Opens, Return, Goto, Busy, Releasing, Making, TypeOK
  <1>9. ASSUME NEW t \in Thread, InsertKfd(t), UNCHANGED prog PROVE Bounded'
    BY <1>a, <1>9 DEF InsertKfd, Begins, Opens, Return, Goto, Busy, Releasing, Making, TypeOK
  <1>10. ASSUME NEW t \in Thread, UseHostDir(t), UNCHANGED prog PROVE Bounded'
    BY <1>a, <1>10 DEF UseHostDir, Begins, Opens, Return, Goto, Busy, Releasing, Making, TypeOK
  <1>11. ASSUME NEW t \in Thread, CheckKfd(t), UNCHANGED prog PROVE Bounded'
    BY <1>a, <1>11 DEF CheckKfd, Begins, Opens, Return, Goto, Busy, Releasing, Making, TypeOK
  <1>12. ASSUME NEW t \in Thread, CloseHostDir(t), UNCHANGED prog PROVE Bounded'
    BY <1>a, <1>12 DEF CloseHostDir, Begins, Opens, Return, Goto, Busy, Releasing, Making, TypeOK
  <1>13. ASSUME NEW t \in Thread, EraseKfd(t), UNCHANGED prog PROVE Bounded'
    BY <1>a, <1>13 DEF EraseKfd, Begins, Opens, Return, Goto, Busy, Releasing, Making, TypeOK
  <1>14. ASSUME NEW t \in Thread, CloseAllDs(t), UNCHANGED prog PROVE Bounded'
    <2>1. Busy' = Busy \cup {t} /\ t \notin Busy
      BY <1>14 DEF CloseAllDs, ReleaseBegins, Begins, Goto, Busy, Releasing, TypeOK
    <2>2. Cardinality(Busy') = Cardinality(Busy) + 1
      BY <2>1, BusyCount, FS_AddElement
    <2>3. gen + Cardinality(Busy) < MaxGen /\ gen' = gen
      BY <1>14 DEF CloseAllDs, ReleaseBegins, Busy
    <2> QED BY <1>0, <2>2, <2>3, BusyCount DEF TypeOK
  <1>15. ASSUME NEW t \in Thread, CloseAllFds(t), UNCHANGED prog PROVE Bounded'
    BY <1>a, <1>15 DEF CloseAllFds, Begins, Opens, Return, Goto, Busy, Releasing, Making, TypeOK
  <1>16. ASSUME NEW t \in Thread, NewImage(t), UNCHANGED prog PROVE Bounded'
    <2>1. Busy' = Busy \ {t} /\ t \in Busy
      BY <1>16 DEF NewImage, Return, Goto, Busy, Releasing, TypeOK
    <2>2. Cardinality(Busy') = Cardinality(Busy) - 1
      BY <2>1, BusyCount, FS_RemoveElement
    <2>3. gen' = gen + 1
      BY <1>16 DEF NewImage
    <2> QED BY <1>0, <2>2, <2>3, BusyCount DEF TypeOK
  <1>17. ASSUME NEW t \in Thread, KeepFd(t), UNCHANGED prog PROVE Bounded'
    BY <1>a, <1>17 DEF KeepFd, Begins, Opens, Return, Goto, Busy, Releasing, Making, TypeOK
  <1>18. ASSUME NEW t \in Thread, NEW p \in Ptr, LoadFirst(t, p), UNCHANGED prog PROVE Bounded'
    BY <1>a, <1>18 DEF LoadFirst, Begins, Opens, Return, Goto, Busy, Releasing, Making, TypeOK
  <1>19. ASSUME NEW t \in Thread, NEW p \in Ptr, LoadFailsOver(t, p), UNCHANGED prog PROVE Bounded'
    BY <1>a, <1>19 DEF LoadFailsOver, NewHostDir, Begins, Opens, Return, Goto, Busy, Releasing, Making, TypeOK
  <1>20. ASSUME NEW t \in Thread, NEW p \in Ptr, OpenHostDir(t, p), UNCHANGED prog PROVE Bounded'
    BY <1>a, <1>20 DEF OpenHostDir, NewHostDir, Begins, Opens, Return, Goto, Busy, Releasing, Making, TypeOK
  <1>21. ASSUME NEW t \in Thread, NEW p \in Ptr, UseMiss(t, p), UNCHANGED prog PROVE Bounded'
    BY <1>a, <1>21 DEF UseMiss, Begins, Opens, Return, Goto, Busy, Releasing, Making, TypeOK
  <1>22. ASSUME NEW t \in Thread, NEW p \in Ptr, CloseDs(t, p), UNCHANGED prog PROVE Bounded'
    BY <1>a, <1>22 DEF CloseDs, EndOfDs, GoesOn, Begins, Opens, Return, Goto, Busy, Releasing, Making, TypeOK
  <1>23. ASSUME NEW t \in Thread, NEW p \in Ptr, CloseMiss(t, p), UNCHANGED prog PROVE Bounded'
    BY <1>a, <1>23 DEF CloseMiss, Begins, Opens, Return, Goto, Busy, Releasing, Making, TypeOK
  <1>24. ASSUME NEW t \in Thread, NEW v \in Vfd, CloseFd(t, v), UNCHANGED prog PROVE Bounded'
    BY <1>a, <1>24 DEF CloseFd, Begins, Opens, Return, Goto, Busy, Releasing, Making, TypeOK
  <1>25. ASSUME NEW t \in Thread, NEW v \in Vfd, FdOpenDir(t, v), UNCHANGED prog PROVE Bounded'
    BY <1>a, <1>25 DEF FdOpenDir, Begins, Opens, Return, Goto, Busy, Releasing, Making, TypeOK
  <1>26. CASE UNCHANGED vars
    BY <1>a, <1>26 DEF vars, Begins, Opens, Return, Goto, Busy, Releasing, Making, TypeOK
  <1> QED
    BY ThreadsAreThreads, <1>1, <1>2, <1>3, <1>4, <1>5, <1>6, <1>7, <1>8, <1>9, <1>10, <1>11,
       <1>12, <1>13, <1>14, <1>15, <1>16, <1>17, <1>18, <1>19, <1>20, <1>21, <1>22, <1>23,
       <1>24, <1>25, <1>26 DEF Next, Step

\* An address is one thing: a stream of the image, one of the host, or free; until a
\* close goes astray.
LEMMA NextPointers ==
  ASSUME OneHostThread, TypeOK, Pointers, [Next]_vars, ~astray'
  PROVE  ~astray /\ Pointers'
  <1> USE NoneAssumption, ThreadAssumption
      DEF OneHostThread, TypeOK, Making, Releasing, Pointers, Addresses, Calls, Apart, KfdIsLive,
          Goto, Return, Begins, Opens, Unused, Mem
  <1>1. ASSUME NEW t \in Thread, FindDir(t), UNCHANGED prog PROVE ~astray /\ Pointers'
    BY <1>1 DEF FindDir
  <1>2. ASSUME NEW t \in Thread, OpenFd(t), UNCHANGED prog PROVE ~astray /\ Pointers'
    BY <1>2 DEF OpenFd
  <1>3. ASSUME NEW t \in Thread, OpenFdFails(t), UNCHANGED prog PROVE ~astray /\ Pointers'
    BY <1>3 DEF OpenFdFails
  <1>4. ASSUME NEW t \in Thread, LoadFails(t), UNCHANGED prog PROVE ~astray /\ Pointers'
    BY <1>4 DEF LoadFails
  <1>5. ASSUME NEW t \in Thread, OpenThrows(t), UNCHANGED prog PROVE ~astray /\ Pointers'
    BY <1>5 DEF OpenThrows
  <1>6. ASSUME NEW t \in Thread, InsertThrows(t), UNCHANGED prog PROVE ~astray /\ Pointers'
    BY <1>6 DEF InsertThrows
  <1>7. ASSUME NEW t \in Thread, CloseUnwound(t), UNCHANGED prog PROVE ~astray /\ Pointers'
    <2>1. ~astray /\ ds[ptr[t]] = None
      BY <1>7, Zenon DEF CloseUnwound
    <2>2. UNCHANGED <<ds, heap, held, kfd>>
      BY <1>7, <2>1 DEF CloseUnwound
    <2> QED BY <1>7, <2>1, <2>2 DEF CloseUnwound
  <1>8. ASSUME NEW t \in Thread, InsertDs(t), UNCHANGED prog PROVE ~astray /\ Pointers'
    BY <1>8 DEF InsertDs
  <1>9. ASSUME NEW t \in Thread, InsertKfd(t), UNCHANGED prog PROVE ~astray /\ Pointers'
    BY <1>9 DEF InsertKfd
  <1>10. ASSUME NEW t \in Thread, UseHostDir(t), UNCHANGED prog PROVE ~astray /\ Pointers'
    BY <1>10 DEF UseHostDir
  <1>11. ASSUME NEW t \in Thread, CheckKfd(t), UNCHANGED prog PROVE ~astray /\ Pointers'
    <2>1. ~astray /\ ~(pc[t] = "fallen" /\ ptr[t] \in kfd)
      BY <1>11, Zenon DEF CheckKfd
    <2>2. /\ pc[t] \in {"closek", "fallen"} /\ UNCHANGED <<ds, heap, held, kfd>>
          /\ \/ pc[t] = "closek" /\ Goto(t, "closing", ptr[t], None, None)
             \/ Return(t)
      BY <1>11, <2>1 DEF CheckKfd
    <2> QED BY <2>1, <2>2
  <1>12. ASSUME NEW t \in Thread, CloseHostDir(t), UNCHANGED prog PROVE ~astray /\ Pointers'
    BY <1>12 DEF CloseHostDir
  <1>13. ASSUME NEW t \in Thread, EraseKfd(t), UNCHANGED prog PROVE ~astray /\ Pointers'
    BY <1>13 DEF EraseKfd
  <1>14. ASSUME NEW t \in Thread, CloseAllDs(t), UNCHANGED prog PROVE ~astray /\ Pointers'
    BY <1>14 DEF CloseAllDs, ReleaseBegins
  <1>15. ASSUME NEW t \in Thread, CloseAllFds(t), UNCHANGED prog PROVE ~astray /\ Pointers'
    BY <1>15 DEF CloseAllFds
  <1>16. ASSUME NEW t \in Thread, NewImage(t), UNCHANGED prog PROVE ~astray /\ Pointers'
    BY <1>16 DEF NewImage
  <1>17. ASSUME NEW t \in Thread, KeepFd(t), UNCHANGED prog PROVE ~astray /\ Pointers'
    BY <1>17 DEF KeepFd
  <1>18. ASSUME NEW t \in Thread, NEW p \in Ptr, LoadFirst(t, p), UNCHANGED prog PROVE ~astray /\ Pointers'
    BY <1>18 DEF LoadFirst
  <1>19. ASSUME NEW t \in Thread, NEW p \in Ptr, LoadFailsOver(t, p), UNCHANGED prog PROVE ~astray /\ Pointers'
    BY <1>19 DEF LoadFailsOver, NewHostDir
  <1>20. ASSUME NEW t \in Thread, NEW p \in Ptr, OpenHostDir(t, p), UNCHANGED prog PROVE ~astray /\ Pointers'
    BY <1>20 DEF OpenHostDir, NewHostDir
  <1>21. ASSUME NEW t \in Thread, NEW p \in Ptr, UseMiss(t, p), UNCHANGED prog PROVE ~astray /\ Pointers'
    BY <1>21 DEF UseMiss
  <1>22. ASSUME NEW t \in Thread, NEW p \in Ptr, CloseDs(t, p), UNCHANGED prog PROVE ~astray /\ Pointers'
    BY <1>22 DEF CloseDs, EndOfDs, GoesOn
  <1>23. ASSUME NEW t \in Thread, NEW p \in Ptr, CloseMiss(t, p), UNCHANGED prog PROVE ~astray /\ Pointers'
    BY <1>23 DEF CloseMiss
  <1>24. ASSUME NEW t \in Thread, NEW v \in Vfd, CloseFd(t, v), UNCHANGED prog PROVE ~astray /\ Pointers'
    BY <1>24 DEF CloseFd
  <1>25. ASSUME NEW t \in Thread, NEW v \in Vfd, FdOpenDir(t, v), UNCHANGED prog PROVE ~astray /\ Pointers'
    BY <1>25 DEF FdOpenDir
  <1>26. CASE UNCHANGED vars
    BY <1>26 DEF vars
  <1> QED
    BY ThreadsAreThreads, <1>1, <1>2, <1>3, <1>4, <1>5, <1>6, <1>7, <1>8, <1>9, <1>10, <1>11,
       <1>12, <1>13, <1>14, <1>15, <1>16, <1>17, <1>18, <1>19, <1>20, <1>21, <1>22, <1>23,
       <1>24, <1>25, <1>26 DEF Next, Step

\* In a calm release nothing is opened.
LEMMA NextCleared ==
  ASSUME TypeOK, prog.calm, Cleared, [Next]_vars
  PROVE  Cleared'
  <1> USE NoneAssumption, BoundAssumption
      DEF TypeOK, Goto, Return, Begins, Opens, Making, Opening, Releasing, Cleared
  <1>1. ASSUME NEW t \in Thread, FindDir(t), UNCHANGED prog PROVE Cleared'
    BY <1>1 DEF FindDir
  <1>2. ASSUME NEW t \in Thread, OpenFd(t), UNCHANGED prog PROVE Cleared'
    BY <1>2 DEF OpenFd
  <1>3. ASSUME NEW t \in Thread, OpenFdFails(t), UNCHANGED prog PROVE Cleared'
    BY <1>3 DEF OpenFdFails
  <1>4. ASSUME NEW t \in Thread, LoadFails(t), UNCHANGED prog PROVE Cleared'
    BY <1>4 DEF LoadFails
  <1>5. ASSUME NEW t \in Thread, OpenThrows(t), UNCHANGED prog PROVE Cleared'
    BY <1>5 DEF OpenThrows
  <1>6. ASSUME NEW t \in Thread, InsertThrows(t), UNCHANGED prog PROVE Cleared'
    BY <1>6 DEF InsertThrows
  <1>7. ASSUME NEW t \in Thread, CloseUnwound(t), UNCHANGED prog PROVE Cleared'
    BY <1>7 DEF CloseUnwound
  <1>8. ASSUME NEW t \in Thread, InsertDs(t), UNCHANGED prog PROVE Cleared'
    BY <1>8 DEF InsertDs
  <1>9. ASSUME NEW t \in Thread, InsertKfd(t), UNCHANGED prog PROVE Cleared'
    BY <1>9 DEF InsertKfd
  <1>10. ASSUME NEW t \in Thread, UseHostDir(t), UNCHANGED prog PROVE Cleared'
    BY <1>10 DEF UseHostDir
  <1>11. ASSUME NEW t \in Thread, CheckKfd(t), UNCHANGED prog PROVE Cleared'
    BY <1>11 DEF CheckKfd
  <1>12. ASSUME NEW t \in Thread, CloseHostDir(t), UNCHANGED prog PROVE Cleared'
    BY <1>12 DEF CloseHostDir
  <1>13. ASSUME NEW t \in Thread, EraseKfd(t), UNCHANGED prog PROVE Cleared'
    BY <1>13 DEF EraseKfd
  <1>14. ASSUME NEW t \in Thread, CloseAllDs(t), UNCHANGED prog PROVE Cleared'
    BY <1>14 DEF CloseAllDs, ReleaseBegins
  <1>15. ASSUME NEW t \in Thread, CloseAllFds(t), UNCHANGED prog PROVE Cleared'
    BY <1>15 DEF CloseAllFds
  <1>16. ASSUME NEW t \in Thread, NewImage(t), UNCHANGED prog PROVE Cleared'
    BY <1>16 DEF NewImage
  <1>17. ASSUME NEW t \in Thread, KeepFd(t), UNCHANGED prog PROVE Cleared'
    BY <1>17 DEF KeepFd
  <1>18. ASSUME NEW t \in Thread, NEW p \in Ptr, LoadFirst(t, p), UNCHANGED prog PROVE Cleared'
    BY <1>18 DEF LoadFirst
  <1>19. ASSUME NEW t \in Thread, NEW p \in Ptr, LoadFailsOver(t, p), UNCHANGED prog PROVE Cleared'
    BY <1>19 DEF LoadFailsOver, NewHostDir
  <1>20. ASSUME NEW t \in Thread, NEW p \in Ptr, OpenHostDir(t, p), UNCHANGED prog PROVE Cleared'
    BY <1>20 DEF OpenHostDir, NewHostDir
  <1>21. ASSUME NEW t \in Thread, NEW p \in Ptr, UseMiss(t, p), UNCHANGED prog PROVE Cleared'
    BY <1>21 DEF UseMiss
  <1>22. ASSUME NEW t \in Thread, NEW p \in Ptr, CloseDs(t, p), UNCHANGED prog PROVE Cleared'
    BY <1>22 DEF CloseDs, EndOfDs, GoesOn
  <1>23. ASSUME NEW t \in Thread, NEW p \in Ptr, CloseMiss(t, p), UNCHANGED prog PROVE Cleared'
    BY <1>23 DEF CloseMiss
  <1>24. ASSUME NEW t \in Thread, NEW v \in Vfd, CloseFd(t, v), UNCHANGED prog PROVE Cleared'
    BY <1>24 DEF CloseFd
  <1>25. ASSUME NEW t \in Thread, NEW v \in Vfd, FdOpenDir(t, v), UNCHANGED prog PROVE Cleared'
    BY <1>25 DEF FdOpenDir
  <1>26. CASE UNCHANGED vars
    BY <1>26 DEF vars
  <1> QED
    BY ThreadsAreThreads, <1>1, <1>2, <1>3, <1>4, <1>5, <1>6, <1>7, <1>8, <1>9, <1>10, <1>11,
       <1>12, <1>13, <1>14, <1>15, <1>16, <1>17, <1>18, <1>19, <1>20, <1>21, <1>22, <1>23,
       <1>24, <1>25, <1>26 DEF Next, Step

\* Nothing of another image is in use, and every close ends where it began.
LEMMA NextCurrent ==
  ASSUME TypeOK, prog.calm, Cleared, Current, Settled, Ownership, [Next]_vars
  PROVE  Current' /\ Settled'
  <1> USE NoneAssumption, BoundAssumption
      DEF TypeOK, Goto, Return, Begins, Opens, Making, Opening, Releasing, Current, Settled, Cleared
  <1>1. ASSUME NEW t \in Thread, FindDir(t), UNCHANGED prog PROVE Current' /\ Settled'
    BY <1>1 DEF FindDir
  <1>2. ASSUME NEW t \in Thread, OpenFd(t), UNCHANGED prog PROVE Current' /\ Settled'
    BY <1>2 DEF OpenFd
  <1>3. ASSUME NEW t \in Thread, OpenFdFails(t), UNCHANGED prog PROVE Current' /\ Settled'
    BY <1>3 DEF OpenFdFails
  <1>4. ASSUME NEW t \in Thread, LoadFails(t), UNCHANGED prog PROVE Current' /\ Settled'
    BY <1>4 DEF LoadFails
  <1>5. ASSUME NEW t \in Thread, OpenThrows(t), UNCHANGED prog PROVE Current' /\ Settled'
    BY <1>5 DEF OpenThrows
  <1>6. ASSUME NEW t \in Thread, InsertThrows(t), UNCHANGED prog PROVE Current' /\ Settled'
    BY <1>6 DEF InsertThrows
  <1>7. ASSUME NEW t \in Thread, CloseUnwound(t), UNCHANGED prog PROVE Current' /\ Settled'
    BY <1>7 DEF CloseUnwound
  <1>8. ASSUME NEW t \in Thread, InsertDs(t), UNCHANGED prog PROVE Current' /\ Settled'
    BY <1>8 DEF InsertDs
  <1>9. ASSUME NEW t \in Thread, InsertKfd(t), UNCHANGED prog PROVE Current' /\ Settled'
    BY <1>9 DEF InsertKfd
  <1>10. ASSUME NEW t \in Thread, UseHostDir(t), UNCHANGED prog PROVE Current' /\ Settled'
    BY <1>10 DEF UseHostDir
  <1>11. ASSUME NEW t \in Thread, CheckKfd(t), UNCHANGED prog PROVE Current' /\ Settled'
    BY <1>11 DEF CheckKfd
  <1>12. ASSUME NEW t \in Thread, CloseHostDir(t), UNCHANGED prog PROVE Current' /\ Settled'
    BY <1>12 DEF CloseHostDir
  <1>13. ASSUME NEW t \in Thread, EraseKfd(t), UNCHANGED prog PROVE Current' /\ Settled'
    BY <1>13 DEF EraseKfd
  <1>14. ASSUME NEW t \in Thread, CloseAllDs(t), UNCHANGED prog PROVE Current' /\ Settled'
    BY <1>14 DEF CloseAllDs, ReleaseBegins
  <1>15. ASSUME NEW t \in Thread, CloseAllFds(t), UNCHANGED prog PROVE Current' /\ Settled'
    BY <1>15 DEF CloseAllFds
  <1>16. ASSUME NEW t \in Thread, NewImage(t), UNCHANGED prog PROVE Current' /\ Settled'
    BY <1>16 DEF NewImage
  <1>17. ASSUME NEW t \in Thread, KeepFd(t), UNCHANGED prog PROVE Current' /\ Settled'
    BY <1>17 DEF KeepFd
  <1>18. ASSUME NEW t \in Thread, NEW p \in Ptr, LoadFirst(t, p), UNCHANGED prog PROVE Current' /\ Settled'
    BY <1>18 DEF LoadFirst
  <1>19. ASSUME NEW t \in Thread, NEW p \in Ptr, LoadFailsOver(t, p), UNCHANGED prog PROVE Current' /\ Settled'
    BY <1>19 DEF LoadFailsOver, NewHostDir
  <1>20. ASSUME NEW t \in Thread, NEW p \in Ptr, OpenHostDir(t, p), UNCHANGED prog PROVE Current' /\ Settled'
    BY <1>20 DEF OpenHostDir, NewHostDir
  <1>21. ASSUME NEW t \in Thread, NEW p \in Ptr, UseMiss(t, p), UNCHANGED prog PROVE Current' /\ Settled'
    BY <1>21 DEF UseMiss
  <1>22. ASSUME NEW t \in Thread, NEW p \in Ptr, CloseDs(t, p), UNCHANGED prog PROVE Current' /\ Settled'
    <2>1. fdtab[ds[p]] # None
      BY <1>22 DEF CloseDs, EndOfDs, Ownership
    <2> QED BY <1>22, <2>1 DEF CloseDs, EndOfDs, GoesOn
  <1>23. ASSUME NEW t \in Thread, NEW p \in Ptr, CloseMiss(t, p), UNCHANGED prog PROVE Current' /\ Settled'
    BY <1>23 DEF CloseMiss
  <1>24. ASSUME NEW t \in Thread, NEW v \in Vfd, CloseFd(t, v), UNCHANGED prog PROVE Current' /\ Settled'
    BY <1>24 DEF CloseFd
  <1>25. ASSUME NEW t \in Thread, NEW v \in Vfd, FdOpenDir(t, v), UNCHANGED prog PROVE Current' /\ Settled'
    BY <1>25 DEF FdOpenDir
  <1>26. CASE UNCHANGED vars
    BY <1>26 DEF vars
  <1> QED
    BY ThreadsAreThreads, <1>1, <1>2, <1>3, <1>4, <1>5, <1>6, <1>7, <1>8, <1>9, <1>10, <1>11,
       <1>12, <1>13, <1>14, <1>15, <1>16, <1>17, <1>18, <1>19, <1>20, <1>21, <1>22, <1>23,
       <1>24, <1>25, <1>26 DEF Next, Step

\* Descriptors have one owner.
LEMMA NextOwnership ==
  ASSUME TypeOK, prog.calm, ~astray, ~astray', Cleared, Current, Ownership, Pointers, [Next]_vars
  PROVE  Ownership'
  <1> USE NoneAssumption, BoundAssumption
      DEF TypeOK, Goto, Return, Begins, Opens, Making, Opening, Releasing, Ownership, Cleared, Current,
          Mine, Pointers, Addresses, Calls
  <1>1. ASSUME NEW t \in Thread, FindDir(t), UNCHANGED prog PROVE Ownership'
    BY <1>1 DEF FindDir
  <1>2. ASSUME NEW t \in Thread, OpenFd(t), UNCHANGED prog PROVE Ownership'
    BY <1>2 DEF OpenFd
  <1>3. ASSUME NEW t \in Thread, OpenFdFails(t), UNCHANGED prog PROVE Ownership'
    BY <1>3 DEF OpenFdFails
  <1>4. ASSUME NEW t \in Thread, LoadFails(t), UNCHANGED prog PROVE Ownership'
    BY <1>4 DEF LoadFails
  <1>5. ASSUME NEW t \in Thread, OpenThrows(t), UNCHANGED prog PROVE Ownership'
    BY <1>5 DEF OpenThrows
  <1>6. ASSUME NEW t \in Thread, InsertThrows(t), UNCHANGED prog PROVE Ownership'
    BY <1>6 DEF InsertThrows
  <1>7. ASSUME NEW t \in Thread, CloseUnwound(t), UNCHANGED prog PROVE Ownership'
    BY <1>7 DEF CloseUnwound
  <1>8. ASSUME NEW t \in Thread, InsertDs(t), UNCHANGED prog PROVE Ownership'
    BY <1>8 DEF InsertDs
  <1>9. ASSUME NEW t \in Thread, InsertKfd(t), UNCHANGED prog PROVE Ownership'
    BY <1>9 DEF InsertKfd
  <1>10. ASSUME NEW t \in Thread, UseHostDir(t), UNCHANGED prog PROVE Ownership'
    BY <1>10 DEF UseHostDir
  <1>11. ASSUME NEW t \in Thread, CheckKfd(t), UNCHANGED prog PROVE Ownership'
    BY <1>11 DEF CheckKfd
  <1>12. ASSUME NEW t \in Thread, CloseHostDir(t), UNCHANGED prog PROVE Ownership'
    BY <1>12 DEF CloseHostDir
  <1>13. ASSUME NEW t \in Thread, EraseKfd(t), UNCHANGED prog PROVE Ownership'
    BY <1>13 DEF EraseKfd
  <1>14. ASSUME NEW t \in Thread, CloseAllDs(t), UNCHANGED prog PROVE Ownership'
    BY <1>14 DEF CloseAllDs, ReleaseBegins
  <1>15. ASSUME NEW t \in Thread, CloseAllFds(t), UNCHANGED prog PROVE Ownership'
    BY <1>15 DEF CloseAllFds
  <1>16. ASSUME NEW t \in Thread, NewImage(t), UNCHANGED prog PROVE Ownership'
    BY <1>16 DEF NewImage
  <1>17. ASSUME NEW t \in Thread, KeepFd(t), UNCHANGED prog PROVE Ownership'
    BY <1>17 DEF KeepFd
  <1>18. ASSUME NEW t \in Thread, NEW p \in Ptr, LoadFirst(t, p), UNCHANGED prog PROVE Ownership'
    BY <1>18 DEF LoadFirst
  <1>19. ASSUME NEW t \in Thread, NEW p \in Ptr, LoadFailsOver(t, p), UNCHANGED prog PROVE Ownership'
    BY <1>19 DEF LoadFailsOver, NewHostDir
  <1>20. ASSUME NEW t \in Thread, NEW p \in Ptr, OpenHostDir(t, p), UNCHANGED prog PROVE Ownership'
    BY <1>20 DEF OpenHostDir, NewHostDir
  <1>21. ASSUME NEW t \in Thread, NEW p \in Ptr, UseMiss(t, p), UNCHANGED prog PROVE Ownership'
    BY <1>21 DEF UseMiss
  <1>22. ASSUME NEW t \in Thread, NEW p \in Ptr, CloseDs(t, p), UNCHANGED prog PROVE Ownership'
    BY <1>22 DEF CloseDs, EndOfDs, GoesOn
  <1>23. ASSUME NEW t \in Thread, NEW p \in Ptr, CloseMiss(t, p), UNCHANGED prog PROVE Ownership'
    BY <1>23 DEF CloseMiss
  <1>24. ASSUME NEW t \in Thread, NEW v \in Vfd, CloseFd(t, v), UNCHANGED prog PROVE Ownership'
    BY <1>24 DEF CloseFd
  <1>25. ASSUME NEW t \in Thread, NEW v \in Vfd, FdOpenDir(t, v), UNCHANGED prog PROVE Ownership'
    BY <1>25 DEF FdOpenDir
  <1>26. CASE UNCHANGED vars
    BY <1>26 DEF vars
  <1> QED
    BY ThreadsAreThreads, <1>1, <1>2, <1>3, <1>4, <1>5, <1>6, <1>7, <1>8, <1>9, <1>10, <1>11,
       <1>12, <1>13, <1>14, <1>15, <1>16, <1>17, <1>18, <1>19, <1>20, <1>21, <1>22, <1>23,
       <1>24, <1>25, <1>26 DEF Next, Step

\* No call loses its descriptor.
LEMMA NextNoLeaks ==
  ASSUME TypeOK, prog.calm, ~prog.throws, ~astray, ~astray', Cleared, Current, Ownership, Unfailing,
         NoFdLeaks, Pointers, [Next]_vars
  PROVE  NoFdLeaks'
  <1> USE NoneAssumption, BoundAssumption
      DEF TypeOK, Goto, Return, Begins, Opens, Making, Opening, Releasing, Ownership, Cleared, Current,
          Mine, NoFdLeaks
  <1>1. ASSUME NEW t \in Thread, FindDir(t), UNCHANGED prog PROVE NoFdLeaks'
    BY <1>1 DEF FindDir
  <1>2. ASSUME NEW t \in Thread, OpenFd(t), UNCHANGED prog PROVE NoFdLeaks'
    BY <1>2 DEF OpenFd
  <1>3. ASSUME NEW t \in Thread, OpenFdFails(t), UNCHANGED prog PROVE NoFdLeaks'
    BY <1>3 DEF OpenFdFails
  <1>4. ASSUME NEW t \in Thread, LoadFails(t), UNCHANGED prog PROVE NoFdLeaks'
    BY <1>4 DEF LoadFails
  <1>5. ASSUME NEW t \in Thread, OpenThrows(t), UNCHANGED prog PROVE NoFdLeaks'
    BY <1>5 DEF OpenThrows
  <1>6. ASSUME NEW t \in Thread, InsertThrows(t), UNCHANGED prog PROVE NoFdLeaks'
    BY <1>6 DEF InsertThrows
  <1>7. ASSUME NEW t \in Thread, CloseUnwound(t), UNCHANGED prog PROVE NoFdLeaks'
    BY <1>7 DEF CloseUnwound
  <1>8. ASSUME NEW t \in Thread, InsertDs(t), UNCHANGED prog PROVE NoFdLeaks'
    <2>1. ptr[t] \in Ptr /\ vfd[t] \in Vfd
      BY <1>8 DEF InsertDs
    <2>2. ASSUME NEW v \in Vfd, fdtab'[v] # None
          PROVE  \/ v \in files' \/ \E p \in Ptr : ds'[p] = v
                 \/ \E u \in Thread : pc'[u] \in Making /\ vfd'[u] = v
      <3>1. CASE v = vfd[t]
        BY <1>8, <2>1, <3>1 DEF InsertDs
      <3>2. CASE \E p \in Ptr : ds[p] = v
        <4>1. PICK p \in Ptr : ds[p] = v
          BY <3>2
        <4>2. ds[ptr[t]] = None
          BY <1>8, <2>1 DEF InsertDs, Pointers, Calls, Addresses
        <4> QED BY <1>8, <2>1, <2>2, <4>1, <4>2 DEF InsertDs
      <3>3. CASE v # vfd[t] /\ ~\E p \in Ptr : ds[p] = v
        BY <1>8, <2>1, <2>2, <3>3 DEF InsertDs
      <3> QED BY <3>1, <3>2, <3>3
    <2> QED BY <2>2
  <1>9. ASSUME NEW t \in Thread, InsertKfd(t), UNCHANGED prog PROVE NoFdLeaks'
    BY <1>9 DEF InsertKfd
  <1>10. ASSUME NEW t \in Thread, UseHostDir(t), UNCHANGED prog PROVE NoFdLeaks'
    BY <1>10 DEF UseHostDir
  <1>11. ASSUME NEW t \in Thread, CheckKfd(t), UNCHANGED prog PROVE NoFdLeaks'
    BY <1>11 DEF CheckKfd
  <1>12. ASSUME NEW t \in Thread, CloseHostDir(t), UNCHANGED prog PROVE NoFdLeaks'
    BY <1>12 DEF CloseHostDir
  <1>13. ASSUME NEW t \in Thread, EraseKfd(t), UNCHANGED prog PROVE NoFdLeaks'
    BY <1>13 DEF EraseKfd
  <1>14. ASSUME NEW t \in Thread, CloseAllDs(t), UNCHANGED prog PROVE NoFdLeaks'
    BY <1>14 DEF CloseAllDs, ReleaseBegins
  <1>15. ASSUME NEW t \in Thread, CloseAllFds(t), UNCHANGED prog PROVE NoFdLeaks'
    BY <1>15 DEF CloseAllFds
  <1>16. ASSUME NEW t \in Thread, NewImage(t), UNCHANGED prog PROVE NoFdLeaks'
    BY <1>16 DEF NewImage
  <1>17. ASSUME NEW t \in Thread, KeepFd(t), UNCHANGED prog PROVE NoFdLeaks'
    BY <1>17 DEF KeepFd
  <1>18. ASSUME NEW t \in Thread, NEW p \in Ptr, LoadFirst(t, p), UNCHANGED prog PROVE NoFdLeaks'
    BY <1>18 DEF LoadFirst
  <1>19. ASSUME NEW t \in Thread, NEW p \in Ptr, LoadFailsOver(t, p), UNCHANGED prog PROVE NoFdLeaks'
    BY <1>19 DEF LoadFailsOver, NewHostDir
  <1>20. ASSUME NEW t \in Thread, NEW p \in Ptr, OpenHostDir(t, p), UNCHANGED prog PROVE NoFdLeaks'
    BY <1>20 DEF OpenHostDir, NewHostDir
  <1>21. ASSUME NEW t \in Thread, NEW p \in Ptr, UseMiss(t, p), UNCHANGED prog PROVE NoFdLeaks'
    BY <1>21 DEF UseMiss
  <1>22. ASSUME NEW t \in Thread, NEW p \in Ptr, CloseDs(t, p), UNCHANGED prog PROVE NoFdLeaks'
    BY <1>22 DEF CloseDs, EndOfDs, GoesOn
  <1>23. ASSUME NEW t \in Thread, NEW p \in Ptr, CloseMiss(t, p), UNCHANGED prog PROVE NoFdLeaks'
    BY <1>23 DEF CloseMiss
  <1>24. ASSUME NEW t \in Thread, NEW v \in Vfd, CloseFd(t, v), UNCHANGED prog PROVE NoFdLeaks'
    BY <1>24 DEF CloseFd
  <1>25. ASSUME NEW t \in Thread, NEW v \in Vfd, FdOpenDir(t, v), UNCHANGED prog PROVE NoFdLeaks'
    BY <1>25 DEF FdOpenDir
  <1>26. CASE UNCHANGED vars
    BY <1>26 DEF vars
  <1> QED
    BY ThreadsAreThreads, <1>1, <1>2, <1>3, <1>4, <1>5, <1>6, <1>7, <1>8, <1>9, <1>10, <1>11,
       <1>12, <1>13, <1>14, <1>15, <1>16, <1>17, <1>18, <1>19, <1>20, <1>21, <1>22, <1>23,
       <1>24, <1>25, <1>26 DEF Next, Step

\* While there is memory no insertion fails.
LEMMA NextUnfailing ==
  ASSUME TypeOK, Unfailing, [Next]_vars
  PROVE  Unfailing'
  <1> USE DEF TypeOK, Goto, Return, Begins, Opens, Releasing, Making, Unfailing
  <1>1. ASSUME NEW t \in Thread, FindDir(t), UNCHANGED prog PROVE Unfailing'
    BY <1>1 DEF FindDir
  <1>2. ASSUME NEW t \in Thread, OpenFd(t), UNCHANGED prog PROVE Unfailing'
    BY <1>2 DEF OpenFd
  <1>3. ASSUME NEW t \in Thread, OpenFdFails(t), UNCHANGED prog PROVE Unfailing'
    BY <1>3 DEF OpenFdFails
  <1>4. ASSUME NEW t \in Thread, LoadFails(t), UNCHANGED prog PROVE Unfailing'
    BY <1>4 DEF LoadFails
  <1>5. ASSUME NEW t \in Thread, OpenThrows(t), UNCHANGED prog PROVE Unfailing'
    BY <1>5 DEF OpenThrows
  <1>6. ASSUME NEW t \in Thread, InsertThrows(t), UNCHANGED prog PROVE Unfailing'
    BY <1>6 DEF InsertThrows
  <1>7. ASSUME NEW t \in Thread, CloseUnwound(t), UNCHANGED prog PROVE Unfailing'
    BY <1>7 DEF CloseUnwound
  <1>8. ASSUME NEW t \in Thread, InsertDs(t), UNCHANGED prog PROVE Unfailing'
    BY <1>8 DEF InsertDs
  <1>9. ASSUME NEW t \in Thread, InsertKfd(t), UNCHANGED prog PROVE Unfailing'
    BY <1>9 DEF InsertKfd
  <1>10. ASSUME NEW t \in Thread, UseHostDir(t), UNCHANGED prog PROVE Unfailing'
    BY <1>10 DEF UseHostDir
  <1>11. ASSUME NEW t \in Thread, CheckKfd(t), UNCHANGED prog PROVE Unfailing'
    BY <1>11 DEF CheckKfd
  <1>12. ASSUME NEW t \in Thread, CloseHostDir(t), UNCHANGED prog PROVE Unfailing'
    BY <1>12 DEF CloseHostDir
  <1>13. ASSUME NEW t \in Thread, EraseKfd(t), UNCHANGED prog PROVE Unfailing'
    BY <1>13 DEF EraseKfd
  <1>14. ASSUME NEW t \in Thread, CloseAllDs(t), UNCHANGED prog PROVE Unfailing'
    BY <1>14 DEF CloseAllDs, ReleaseBegins
  <1>15. ASSUME NEW t \in Thread, CloseAllFds(t), UNCHANGED prog PROVE Unfailing'
    BY <1>15 DEF CloseAllFds
  <1>16. ASSUME NEW t \in Thread, NewImage(t), UNCHANGED prog PROVE Unfailing'
    BY <1>16 DEF NewImage
  <1>17. ASSUME NEW t \in Thread, KeepFd(t), UNCHANGED prog PROVE Unfailing'
    BY <1>17 DEF KeepFd
  <1>18. ASSUME NEW t \in Thread, NEW p \in Ptr, LoadFirst(t, p), UNCHANGED prog PROVE Unfailing'
    BY <1>18 DEF LoadFirst
  <1>19. ASSUME NEW t \in Thread, NEW p \in Ptr, LoadFailsOver(t, p), UNCHANGED prog PROVE Unfailing'
    BY <1>19 DEF LoadFailsOver, NewHostDir
  <1>20. ASSUME NEW t \in Thread, NEW p \in Ptr, OpenHostDir(t, p), UNCHANGED prog PROVE Unfailing'
    BY <1>20 DEF OpenHostDir, NewHostDir
  <1>21. ASSUME NEW t \in Thread, NEW p \in Ptr, UseMiss(t, p), UNCHANGED prog PROVE Unfailing'
    BY <1>21 DEF UseMiss
  <1>22. ASSUME NEW t \in Thread, NEW p \in Ptr, CloseDs(t, p), UNCHANGED prog PROVE Unfailing'
    BY <1>22 DEF CloseDs, EndOfDs, GoesOn
  <1>23. ASSUME NEW t \in Thread, NEW p \in Ptr, CloseMiss(t, p), UNCHANGED prog PROVE Unfailing'
    BY <1>23 DEF CloseMiss
  <1>24. ASSUME NEW t \in Thread, NEW v \in Vfd, CloseFd(t, v), UNCHANGED prog PROVE Unfailing'
    BY <1>24 DEF CloseFd
  <1>25. ASSUME NEW t \in Thread, NEW v \in Vfd, FdOpenDir(t, v), UNCHANGED prog PROVE Unfailing'
    BY <1>25 DEF FdOpenDir
  <1>26. CASE UNCHANGED vars
    BY <1>26 DEF vars
  <1> QED
    BY ThreadsAreThreads, <1>1, <1>2, <1>3, <1>4, <1>5, <1>6, <1>7, <1>8, <1>9, <1>10, <1>11,
       <1>12, <1>13, <1>14, <1>15, <1>16, <1>17, <1>18, <1>19, <1>20, <1>21, <1>22, <1>23,
       <1>24, <1>25, <1>26 DEF Next, Step

\* A close goes astray only when it fell through, or when an insertion failed.
LEMMA NextAstray ==
  ASSUME TypeOK, ~astray, Settled, Unfailing, ~prog.throws, [Next]_vars
  PROVE  ~astray'
  <1> USE DEF Settled, Unfailing
  <1>1. ASSUME NEW t \in Thread, FindDir(t), UNCHANGED prog PROVE ~astray'
    BY <1>1 DEF FindDir
  <1>2. ASSUME NEW t \in Thread, OpenFd(t), UNCHANGED prog PROVE ~astray'
    BY <1>2 DEF OpenFd
  <1>3. ASSUME NEW t \in Thread, OpenFdFails(t), UNCHANGED prog PROVE ~astray'
    BY <1>3 DEF OpenFdFails
  <1>4. ASSUME NEW t \in Thread, LoadFails(t), UNCHANGED prog PROVE ~astray'
    BY <1>4 DEF LoadFails
  <1>5. ASSUME NEW t \in Thread, OpenThrows(t), UNCHANGED prog PROVE ~astray'
    BY <1>5 DEF OpenThrows
  <1>6. ASSUME NEW t \in Thread, InsertThrows(t), UNCHANGED prog PROVE ~astray'
    BY <1>6 DEF InsertThrows
  <1>7. ASSUME NEW t \in Thread, CloseUnwound(t), UNCHANGED prog PROVE ~astray'
    BY <1>7 DEF CloseUnwound
  <1>8. ASSUME NEW t \in Thread, InsertDs(t), UNCHANGED prog PROVE ~astray'
    BY <1>8 DEF InsertDs
  <1>9. ASSUME NEW t \in Thread, InsertKfd(t), UNCHANGED prog PROVE ~astray'
    BY <1>9 DEF InsertKfd
  <1>10. ASSUME NEW t \in Thread, UseHostDir(t), UNCHANGED prog PROVE ~astray'
    BY <1>10 DEF UseHostDir
  <1>11. ASSUME NEW t \in Thread, CheckKfd(t), UNCHANGED prog PROVE ~astray'
    BY <1>11 DEF CheckKfd
  <1>12. ASSUME NEW t \in Thread, CloseHostDir(t), UNCHANGED prog PROVE ~astray'
    BY <1>12 DEF CloseHostDir
  <1>13. ASSUME NEW t \in Thread, EraseKfd(t), UNCHANGED prog PROVE ~astray'
    BY <1>13 DEF EraseKfd
  <1>14. ASSUME NEW t \in Thread, CloseAllDs(t), UNCHANGED prog PROVE ~astray'
    BY <1>14 DEF CloseAllDs, ReleaseBegins
  <1>15. ASSUME NEW t \in Thread, CloseAllFds(t), UNCHANGED prog PROVE ~astray'
    BY <1>15 DEF CloseAllFds
  <1>16. ASSUME NEW t \in Thread, NewImage(t), UNCHANGED prog PROVE ~astray'
    BY <1>16 DEF NewImage
  <1>17. ASSUME NEW t \in Thread, KeepFd(t), UNCHANGED prog PROVE ~astray'
    BY <1>17 DEF KeepFd
  <1>18. ASSUME NEW t \in Thread, NEW p \in Ptr, LoadFirst(t, p), UNCHANGED prog PROVE ~astray'
    BY <1>18 DEF LoadFirst
  <1>19. ASSUME NEW t \in Thread, NEW p \in Ptr, LoadFailsOver(t, p), UNCHANGED prog PROVE ~astray'
    BY <1>19 DEF LoadFailsOver, NewHostDir
  <1>20. ASSUME NEW t \in Thread, NEW p \in Ptr, OpenHostDir(t, p), UNCHANGED prog PROVE ~astray'
    BY <1>20 DEF OpenHostDir, NewHostDir
  <1>21. ASSUME NEW t \in Thread, NEW p \in Ptr, UseMiss(t, p), UNCHANGED prog PROVE ~astray'
    BY <1>21 DEF UseMiss
  <1>22. ASSUME NEW t \in Thread, NEW p \in Ptr, CloseDs(t, p), UNCHANGED prog PROVE ~astray'
    BY <1>22 DEF CloseDs, EndOfDs, GoesOn
  <1>23. ASSUME NEW t \in Thread, NEW p \in Ptr, CloseMiss(t, p), UNCHANGED prog PROVE ~astray'
    BY <1>23 DEF CloseMiss
  <1>24. ASSUME NEW t \in Thread, NEW v \in Vfd, CloseFd(t, v), UNCHANGED prog PROVE ~astray'
    BY <1>24 DEF CloseFd
  <1>25. ASSUME NEW t \in Thread, NEW v \in Vfd, FdOpenDir(t, v), UNCHANGED prog PROVE ~astray'
    BY <1>25 DEF FdOpenDir
  <1>26. CASE UNCHANGED vars
    BY <1>26 DEF vars
  <1> QED
    BY ThreadsAreThreads, <1>1, <1>2, <1>3, <1>4, <1>5, <1>6, <1>7, <1>8, <1>9, <1>10, <1>11,
       <1>12, <1>13, <1>14, <1>15, <1>16, <1>17, <1>18, <1>19, <1>20, <1>21, <1>22, <1>23,
       <1>24, <1>25, <1>26 DEF Next, Step

\* Every step of a call on a stream keeps the invariant.
LEMMA NextInv == OneHostThread /\ Inv /\ [Next]_vars => Inv'
  <1> SUFFICES ASSUME OneHostThread, Inv, [Next]_vars PROVE Inv'
    OBVIOUS
  <1>1. TypeOK' /\ Bounded' /\ Unfailing'
    BY NextTypeOK, NextBounded, NextUnfailing DEF Inv
  <1>2. prog' = prog
    BY DEF Next, vars
  <1>3. Pointers'
    BY NextPointers DEF Inv, Pointers
  <1>4. ASSUME prog.calm, ~astray' PROVE Cleared' /\ Current' /\ Settled' /\ Ownership'
    <2>1. ~astray
      BY <1>4, NextPointers DEF Inv
    <2> QED BY <1>4, <2>1, NextCleared, NextCurrent, NextOwnership DEF Inv, Calm
  <1>5. Calm'
    BY <1>2, <1>4 DEF Calm
  <1>6. ASSUME prog.calm, ~prog.throws PROVE ~astray' /\ NoFdLeaks'
    <2>1. ~astray /\ Cleared /\ Current /\ Settled /\ Ownership
      BY <1>6 DEF Inv, ClosesAreTheirOwn, Calm
    <2>2. ~astray'
      BY <1>6, <2>1, NextAstray DEF Inv
    <2> QED BY <1>6, <2>1, <2>2, NextNoLeaks DEF Inv
  <1>7. ClosesAreTheirOwn' /\ NoFdLeaks'
    BY <1>2, <1>6 DEF ClosesAreTheirOwn, NoFdLeaks
  <1> QED BY <1>1, <1>3, <1>5, <1>7 DEF Inv

\* The invariant the properties follow from.
THEOREM InvHolds == OneHostThread => (Spec => []Inv)
  <1> SUFFICES ASSUME OneHostThread PROVE Spec => []Inv
    OBVIOUS
  <1> QED BY InitInv, NextInv, PTL DEF Spec

\* Every variable keeps its type, the number of releases its bound.
THEOREM TypeCorrect == OneHostThread => (Spec => []TypeOK)
  <1> SUFFICES ASSUME OneHostThread PROVE Spec => []TypeOK
    OBVIOUS
  <1>1. Inv => TypeOK
    BY DEF Inv
  <1> QED BY <1>1, InvHolds, PTL

\* No close finds another's stream, in a program that opens nothing of an image that is
\* released and does not run out of memory.
THEOREM ClosesFindTheirOwn == OneHostThread => (Spec => []ClosesAreTheirOwn)
  <1> SUFFICES ASSUME OneHostThread PROVE Spec => []ClosesAreTheirOwn
    OBVIOUS
  <1>1. Inv => ClosesAreTheirOwn
    BY DEF Inv
  <1> QED BY <1>1, InvHolds, PTL

\* A pointer the program holds is in the table it belongs to, alive, in
\* every program, until a close has gone astray.
THEOREM PointersRoute == OneHostThread => (Spec => []StreamsRoute)
  <1> SUFFICES ASSUME OneHostThread PROVE Spec => []StreamsRoute
    OBVIOUS
  <1>1. Inv => StreamsRoute
    BY NoneAssumption DEF Inv, Pointers, Addresses, StreamsRoute
  <1> QED BY <1>1, InvHolds, PTL

\* The system library is never called on a stream that was freed, until a
\* close has gone astray.
THEOREM HostCallsGetLiveStreams == OneHostThread => (Spec => []HostCallsAreLive)
  <1> SUFFICES ASSUME OneHostThread PROVE Spec => []HostCallsAreLive
    OBVIOUS
  <1>1. Inv => HostCallsAreLive
    BY DEF Inv, TypeOK, Making, Releasing, Pointers, Addresses, Calls, HostCallsAreLive
  <1> QED BY <1>1, InvHolds, PTL

\* An alien pointer is a live stream of the host until closedir erases it, or until a
\* close has gone astray.
THEOREM AlienPointersAreLive == OneHostThread => (Spec => []KfdIsLive)
  <1> SUFFICES ASSUME OneHostThread PROVE Spec => []KfdIsLive
    OBVIOUS
  <1>1. Inv => KfdIsLive
    BY DEF Inv, Pointers, KfdIsLive
  <1> QED BY <1>1, InvHolds, PTL

\* A stream has an open descriptor that no other stream has.
THEOREM StreamsOwnDescriptors == OneHostThread => (Spec => []StreamOwnsFd)
  <1> SUFFICES ASSUME OneHostThread PROVE Spec => []StreamOwnsFd
    OBVIOUS
  <1>1. Inv => StreamOwnsFd
    BY DEF Inv, Calm, Ownership, StreamOwnsFd
  <1> QED BY <1>1, InvHolds, PTL

\* No opendir, failed or not, leaves a descriptor that nobody can close.
THEOREM DescriptorsDoNotLeak == OneHostThread => (Spec => []NoFdLeaks)
  <1> SUFFICES ASSUME OneHostThread PROVE Spec => []NoFdLeaks
    OBVIOUS
  <1>1. Inv => NoFdLeaks
    BY DEF Inv
  <1> QED BY <1>1, InvHolds, PTL

\* What was opened in an image does not outlive its release.
THEOREM ReleaseIsComplete == OneHostThread => (Spec => []DeadAfterUnmount)
  <1> SUFFICES ASSUME OneHostThread PROVE Spec => []DeadAfterUnmount
    OBVIOUS
  <1>1. Inv => DeadAfterUnmount
    BY DEF Inv, TypeOK, Calm, Current, Ownership, DeadAfterUnmount
  <1> QED BY <1>1, InvHolds, PTL
================================================================================
