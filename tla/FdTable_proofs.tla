---------------------------- MODULE FdTable_proofs ----------------------------
(***************************************************************************)
(* Proofs about FdTable for every number of threads, descriptors and files.*)
(***************************************************************************)
EXTENDS FdTable, TLAPS

\* The table without an open file satisfies the invariant.
LEMMA InitInv == Init => Inv
  <1> SUFFICES ASSUME Init PROVE Inv
    OBVIOUS
  <1> USE MaxFdAssumption, ObjAssumption DEF Init, Fds, HostObj
  <1>1. TypeOK
    BY DEF TypeOK, Place, WithFd
  <1>2. HeldRoutes
    BY DEF HeldRoutes
  <1>3. OwnedNumbers /\ PinnedNumbers /\ UnwoundNumbers
    BY DEF OwnedNumbers, PinnedNumbers, UnwoundNumbers, Owning
  <1> QED BY <1>1, <1>2, <1>3 DEF Inv

\* A number that a thread owns is open, is nobody's and has no entry.
LEMMA Owned ==
  ASSUME Inv, NEW t \in Thread, pc[t] \in Owning
  PROVE  /\ fd[t] \in Fds /\ kernel[fd[t]] # None
         /\ held[fd[t]] = None /\ table[fd[t]] = None
  <1>1. fd[t] \in Fds
    BY DEF Inv, TypeOK, Owning, WithFd
  <1>2. kernel[fd[t]] # None /\ held[fd[t]] = None
    BY DEF Inv, OwnedNumbers
  <1> QED BY <1>1, <1>2, ObjAssumption DEF Inv, HeldRoutes

\* Every step of a call on a descriptor keeps the invariant.
LEMMA NextInv == Heap /\ Inv /\ [Next]_vars => Inv'
  <1> SUFFICES ASSUME Heap, Inv, [Next]_vars PROVE Inv'
    OBVIOUS
  <1> USE ObjAssumption, ThrowRaceAssumption
      DEF Inv, TypeOK, HeldRoutes, OwnedNumbers, PinnedNumbers, UnwoundNumbers,
          Owning, WithFd, Place, HostObj, Goto, Return
  <1>1. ASSUME NEW t \in Thread, NEW f \in File \cup {None}, NEW flags \in SUBSET OpenFlag,
               Open(t, f, flags)
        PROVE  Inv'
    <2>1. f \in File
      BY <1>1 DEF Open, Verdict
    <2> QED BY <1>1, <2>1 DEF Open
  <1>2. ASSUME NEW t \in Thread, NEW v \in Fds, NEW f \in File \cup {None},
               NEW flags \in SUBSET OpenFlag, OpenAt(t, v, f, flags)
        PROVE  Inv'
    <2>1. f \in File
      BY <1>2 DEF OpenAt, Verdict
    <2> QED BY <1>2, <2>1 DEF OpenAt
  <1>3. ASSUME NEW t \in Thread, Turn(t), Dup(t) PROVE Inv'
    <2>a. \A u \in Thread : pc[u] = "unwound" => u = t
      BY <1>3, Heap DEF Turn, Heap
    <2>1. PICK n \in Fds : /\ kernel[n] = None
                           /\ kernel' = [kernel EXCEPT ![n] = kernel[0]]
                           /\ Goto(t, "dupd", n, obj[t])
      BY <1>3 DEF Dup, Lowest, FreeFds
    <2>2. kernel[0] \in HostObj /\ 0 \in Fds /\ held[n] = None
      BY <1>3, <2>1, MaxFdAssumption DEF Dup, Fds
    <2>3. TypeOK'
      BY <1>3, <2>1, <2>2 DEF Dup
    <2>4. HeldRoutes'
      BY <1>3, <2>1, <2>2 DEF Dup
    <2>5. OwnedNumbers'
      BY <1>3, <2>1, <2>2 DEF Dup
    <2>6. PinnedNumbers' /\ UnwoundNumbers'
      BY <1>3, <2>a, <2>1, <2>2 DEF Dup
    <2> QED BY <2>3, <2>4, <2>5, <2>6
  <1>4. ASSUME NEW t \in Thread, DupFails(t) PROVE Inv'
    BY <1>4 DEF DupFails
  <1>5. ASSUME NEW t \in Thread, NEW g \in Garbage, DropHandle(t, g) PROVE Inv'
    BY <1>5 DEF DropHandle, Heap
  <1>6. ASSUME NEW t \in Thread, Insert(t) PROVE Inv'
    <2>1. /\ fd[t] \in Fds /\ kernel[fd[t]] # None
          /\ held[fd[t]] = None /\ table[fd[t]] = None
      BY <1>6, Owned DEF Insert
    <2>2. kernel' = kernel
      BY <1>6, <2>1 DEF Insert
    <2>3. TypeOK'
      BY <1>6, <2>1, <2>2 DEF Insert
    <2>4. HeldRoutes'
      BY <1>6, <2>1, <2>2 DEF Insert
    <2>5. OwnedNumbers'
      BY <1>6, <2>1, <2>2 DEF Insert
    <2>6. PinnedNumbers' /\ UnwoundNumbers'
      BY <1>6, <2>1, <2>2 DEF Insert
    <2> QED BY <2>3, <2>4, <2>5, <2>6
  <1>7. ASSUME NEW t \in Thread, InsertThrows(t) PROVE Inv'
    <2>1. fd[t] \in Fds /\ held[fd[t]] = None
      BY <1>7, Owned DEF InsertThrows
    <2>2. TypeOK'
      BY <1>7, <2>1 DEF InsertThrows
    <2>3. HeldRoutes'
      BY <1>7, <2>1 DEF InsertThrows
    <2>4. OwnedNumbers' /\ PinnedNumbers' /\ UnwoundNumbers'
      BY <1>7, <2>1 DEF InsertThrows
    <2> QED BY <2>2, <2>3, <2>4
  <1>8. ASSUME NEW t \in Thread, CatchBadAlloc(t) PROVE Inv'
    BY <1>8 DEF CatchBadAlloc
  <1>9. ASSUME NEW t \in Thread, Turn(t), NEW h \in HostFile, OpenHost(t, h) PROVE Inv'
    <2>a. \A u \in Thread : pc[u] = "unwound" => u = t
      BY <1>9, Heap DEF Turn, Heap
    <2>1. PICK n \in Fds : /\ kernel[n] = None
                           /\ kernel' = [kernel EXCEPT ![n] = h]
                           /\ held' = [held EXCEPT ![n] = h]
      BY <1>9 DEF OpenHost, Lowest, FreeFds
    <2>2. TypeOK'
      BY <1>9, <2>1 DEF OpenHost
    <2>3. HeldRoutes'
      BY <1>9, <2>1 DEF OpenHost
    <2>4. OwnedNumbers'
      BY <1>9, <2>1 DEF OpenHost
    <2>5. PinnedNumbers' /\ UnwoundNumbers'
      BY <1>9, <2>a, <2>1 DEF OpenHost
    <2> QED BY <2>2, <2>3, <2>4, <2>5
  <1>10. ASSUME NEW t \in Thread, Turn(t), NEW h \in HostFile, OpenAtHost(t, h) PROVE Inv'
    <2>a. \A u \in Thread : pc[u] = "unwound" => u = t
      BY <1>10, Heap DEF Turn, Heap
    <2>1. PICK n \in Fds : /\ kernel[n] = None
                           /\ kernel' = [kernel EXCEPT ![n] = h]
                           /\ held' = [held EXCEPT ![n] = h]
      BY <1>10 DEF OpenAtHost, Lowest, FreeFds
    <2>2. TypeOK'
      BY <1>10, <2>1 DEF OpenAtHost
    <2>3. HeldRoutes'
      BY <1>10, <2>1 DEF OpenAtHost
    <2>4. OwnedNumbers'
      BY <1>10, <2>1 DEF OpenAtHost
    <2>5. PinnedNumbers' /\ UnwoundNumbers'
      BY <1>10, <2>a, <2>1 DEF OpenAtHost
    <2> QED BY <2>2, <2>3, <2>4, <2>5
  <1>11. ASSUME NEW t \in Thread, UseHost(t) PROVE Inv'
    BY <1>11 DEF UseHost
  <1>12. ASSUME NEW t \in Thread, NEW v \in Fds, NEW place \in {"usehost", "athost"},
                MissTable(t, v, place)
         PROVE  Inv'
    BY <1>12 DEF MissTable
  <1>13. ASSUME NEW t \in Thread, NEW v \in Fds, CloseMemfs(t, v) PROVE Inv'
    BY <1>13 DEF CloseMemfs, Unused
  <1>14. ASSUME NEW t \in Thread, NEW v \in Fds, CloseMiss(t, v) PROVE Inv'
    BY <1>14 DEF CloseMiss, Unused
  <1>15. ASSUME NEW t \in Thread, CloseHost(t) PROVE Inv'
    BY <1>15 DEF CloseHost
  <1>16. CASE CloseAll
    <2>1. TypeOK'
      BY <1>16 DEF CloseAll
    <2>2. \A n \in Fds : table[n] # None <=> held[n] \in File
      OBVIOUS
    <2>3. HeldRoutes'
      BY <1>16, <2>2 DEF CloseAll
    <2>3a. \A n \in Fds : kernel[n] = None => kernel'[n] = None
      BY <1>16 DEF CloseAll
    <2>3b. \A n \in Fds : held[n] = None => kernel'[n] = kernel[n] /\ held'[n] = None
      BY <1>16, <2>2 DEF CloseAll
    <2>4a. OwnedNumbers'
      BY <1>16, <2>3b DEF CloseAll
    <2>4. UnwoundNumbers'
      BY <1>16, <2>3a DEF CloseAll
    <2>5. PinnedNumbers'
      BY <1>16, <2>2 DEF CloseAll
    <2> QED BY <2>1, <2>3, <2>4a, <2>4, <2>5
  <1>17. CASE UNCHANGED vars
    BY <1>17 DEF vars
  <1> QED
    BY <1>1, <1>2, <1>3, <1>4, <1>5, <1>6, <1>7, <1>8, <1>9, <1>10, <1>11, <1>12,
       <1>13, <1>14, <1>15, <1>16, <1>17 DEF Next, Step

\* The invariant behind the safety properties, for every number of threads,
\* descriptors and files.
THEOREM InvHolds == Heap => (Spec => []Inv)
  <1> SUFFICES ASSUME Heap PROVE Spec => []Inv
    OBVIOUS
  <1>1. Init => Inv
    BY InitInv
  <1>2. Inv /\ [Next]_vars => Inv'
    BY NextInv
  <1> QED BY <1>1, <1>2, PTL DEF Spec

\* Type correctness.
THEOREM TypeCorrect == Heap => (Spec => []TypeOK)
  <1>1. Inv => TypeOK
    BY DEF Inv
  <1> QED BY <1>1, InvHolds, PTL

\* Every number the program holds leads its calls to the file it was opened on.
THEOREM HeldNumbersRoute == Heap => (Spec => []HeldRoutes)
  <1>1. Inv => HeldRoutes
    BY DEF Inv
  <1> QED BY <1>1, InvHolds, PTL

\* A call that the table passed on to the kernel reaches the intended file.
THEOREM HostCallsReachTheirFile == Heap => (Spec => []HostCallsRoute)
  <1>1. Inv => HostCallsRoute
    <2> SUFFICES ASSUME Inv, NEW t \in Thread, pc[t] \in {"usehost", "athost", "closehost"}
                 PROVE  table[fd[t]] = None /\ kernel[fd[t]] = obj[t]
      BY DEF HostCallsRoute
    <2>1. fd[t] \in Fds
      BY DEF Inv, TypeOK, WithFd
    <2>2. CASE pc[t] = "closehost"
      BY <2>2, Owned DEF Owning, Inv, PinnedNumbers
    <2>3. CASE pc[t] \in {"usehost", "athost"}
      <3>1. held[fd[t]] = obj[t] /\ obj[t] \in HostObj
        BY <2>3 DEF Inv, PinnedNumbers
      <3> QED BY <2>1, <3>1, ObjAssumption DEF Inv, HeldRoutes
    <2> QED BY <2>2, <2>3
  <1> QED BY <1>1, InvHolds, PTL

\* No step gives a number that the program holds to another file.
LEMMA NextFresh ==
  ASSUME Heap, Inv, [Next]_vars, NEW n \in Fds, held[n] # None, held'[n] # None
  PROVE  held'[n] = held[n]
  <1>1. ASSUME NEW t \in Thread, Insert(t) PROVE held'[n] = held[n]
    <2>1. fd[t] \in Fds /\ held[fd[t]] = None
      BY <1>1, Owned DEF Insert, Owning
    <2> QED BY <1>1, <2>1 DEF Insert, Inv, TypeOK
  <1>2. ASSUME NEW t \in Thread, NEW h \in HostFile, OpenHost(t, h) \/ OpenAtHost(t, h)
        PROVE  held'[n] = held[n]
    <2>1. PICK m \in Fds : kernel[m] = None /\ held' = [held EXCEPT ![m] = h]
      BY <1>2 DEF OpenHost, OpenAtHost, Lowest, FreeFds
    <2>2. m # n
      BY <2>1, ObjAssumption DEF Inv, TypeOK, HeldRoutes
    <2> QED BY <2>1, <2>2 DEF Inv, TypeOK
  <1>3. ASSUME NEW t \in Thread, NEW v \in Fds, CloseMemfs(t, v) \/ CloseMiss(t, v)
        PROVE  held'[n] = held[n]
    BY <1>3 DEF CloseMemfs, CloseMiss, Inv, TypeOK
  <1>4. CASE CloseAll
    BY <1>4 DEF CloseAll
  <1>5. CASE UNCHANGED held
    BY <1>5
  <1> QED
    BY <1>1, <1>2, <1>3, <1>4, <1>5
       DEF Next, Step, vars, Open, OpenAt, Dup, DupFails, DropHandle, InsertThrows,
           CatchBadAlloc, UseHost, MissTable, CloseHost

\* No call returns a number that the program already holds for another file.
THEOREM NumbersAreFresh == Heap => (Spec => FreshNumbers)
  <1> SUFFICES ASSUME Heap PROVE Spec => FreshNumbers
    OBVIOUS
  <1>1. Inv /\ [Next]_vars =>
          [\A n \in Fds : held[n] # None /\ held'[n] # None => held'[n] = held[n]]_vars
    BY NextFresh
  <1>2. Spec => []Inv
    BY InvHolds
  <1> QED BY <1>1, <1>2, PTL DEF Spec, FreshNumbers

\* Before the first call the kernel holds no number for the program.
LEMMA InitNoLeaks == Init => NoDescriptorLeaks
  BY ObjAssumption DEF Init, NoDescriptorLeaks

\* A number that the kernel holds and the program does not is some call's to release.
LEMMA NextNoLeaks == Heap /\ Inv /\ NoDescriptorLeaks /\ [Next]_vars => NoDescriptorLeaks'
  <1> SUFFICES ASSUME Heap, Inv, NoDescriptorLeaks, [Next]_vars,
                      NEW n \in Fds, kernel'[n] # None, held'[n] = None
               PROVE  \E t \in Thread : pc'[t] \in Owning /\ fd'[t] = n
    BY DEF NoDescriptorLeaks
  <1> USE ObjAssumption DEF Inv, TypeOK, Goto, Return, Owning
  \* A number that was open and nobody's before the step had an owner.
  <1>a. kernel[n] # None /\ held[n] = None =>
          \E u \in Thread : pc[u] \in Owning /\ fd[u] = n
    BY DEF NoDescriptorLeaks
  <1>1. ASSUME NEW t \in Thread, NEW f, NEW flags, Open(t, f, flags)
        PROVE  \E u \in Thread : pc'[u] \in Owning /\ fd'[u] = n
    BY <1>1, <1>a DEF Open
  <1>2. ASSUME NEW t \in Thread, NEW v \in Fds, NEW f, NEW flags, OpenAt(t, v, f, flags)
        PROVE  \E u \in Thread : pc'[u] \in Owning /\ fd'[u] = n
    BY <1>2, <1>a DEF OpenAt
  <1>3. ASSUME NEW t \in Thread, Dup(t)
        PROVE  \E u \in Thread : pc'[u] \in Owning /\ fd'[u] = n
    <2>1. PICK m \in Fds : /\ kernel' = [kernel EXCEPT ![m] = kernel[0]]
                           /\ Goto(t, "dupd", m, obj[t])
      BY <1>3 DEF Dup
    <2>2. CASE n = m
      BY <1>3, <2>1, <2>2
    <2>3. CASE n # m
      BY <1>3, <2>1, <2>3, <1>a DEF Dup
    <2> QED BY <2>2, <2>3
  <1>4. ASSUME NEW t \in Thread, DupFails(t)
        PROVE  \E u \in Thread : pc'[u] \in Owning /\ fd'[u] = n
    BY <1>4, <1>a DEF DupFails
  <1>5. ASSUME NEW t \in Thread, NEW g \in Garbage, DropHandle(t, g)
        PROVE  \E u \in Thread : pc'[u] \in Owning /\ fd'[u] = n
    BY <1>5, <1>a DEF DropHandle
  <1>6. ASSUME NEW t \in Thread, Insert(t) \/ InsertThrows(t)
        PROVE  \E u \in Thread : pc'[u] \in Owning /\ fd'[u] = n
    <2>1. fd[t] \in Fds /\ held[fd[t]] = None /\ kernel[fd[t]] # None
      BY <1>6, Owned DEF Insert, InsertThrows
    <2>2. n # fd[t]
      BY <1>6, <2>1 DEF Insert, InsertThrows
    <2> QED BY <1>6, <2>1, <2>2, <1>a DEF Insert, InsertThrows
  <1>7. ASSUME NEW t \in Thread, CatchBadAlloc(t)
        PROVE  \E u \in Thread : pc'[u] \in Owning /\ fd'[u] = n
    BY <1>7, <1>a DEF CatchBadAlloc
  <1>8. ASSUME NEW t \in Thread, NEW h \in HostFile, OpenHost(t, h) \/ OpenAtHost(t, h)
        PROVE  \E u \in Thread : pc'[u] \in Owning /\ fd'[u] = n
    <2>1. PICK m \in Fds : /\ kernel' = [kernel EXCEPT ![m] = h]
                           /\ held' = [held EXCEPT ![m] = h]
      BY <1>8 DEF OpenHost, OpenAtHost
    <2>2. n # m
      BY <2>1 DEF HostObj
    <2> QED BY <1>8, <2>1, <2>2, <1>a DEF OpenHost, OpenAtHost
  <1>9. ASSUME NEW t \in Thread, UseHost(t)
        PROVE  \E u \in Thread : pc'[u] \in Owning /\ fd'[u] = n
    BY <1>9, <1>a DEF UseHost
  <1>10. ASSUME NEW t \in Thread, NEW v \in Fds, NEW place \in {"usehost", "athost"},
                MissTable(t, v, place)
         PROVE  \E u \in Thread : pc'[u] \in Owning /\ fd'[u] = n
    BY <1>10, <1>a DEF MissTable
  <1>11. ASSUME NEW t \in Thread, NEW v \in Fds, CloseMemfs(t, v)
         PROVE  \E u \in Thread : pc'[u] \in Owning /\ fd'[u] = n
    BY <1>11, <1>a DEF CloseMemfs
  <1>12. ASSUME NEW t \in Thread, NEW v \in Fds, CloseMiss(t, v)
         PROVE  \E u \in Thread : pc'[u] \in Owning /\ fd'[u] = n
    <2>1. CASE n = v
      BY <1>12, <2>1 DEF CloseMiss
    <2>2. CASE n # v
      BY <1>12, <2>2, <1>a DEF CloseMiss
    <2> QED BY <2>1, <2>2
  <1>13. ASSUME NEW t \in Thread, CloseHost(t)
         PROVE  \E u \in Thread : pc'[u] \in Owning /\ fd'[u] = n
    <2>1. fd[t] \in Fds
      BY <1>13, Owned DEF CloseHost
    <2> QED BY <1>13, <2>1, <1>a DEF CloseHost
  <1>14. CASE CloseAll
    BY <1>14, <1>a DEF CloseAll, HeldRoutes
  <1>15. CASE UNCHANGED vars
    BY <1>15, <1>a DEF vars
  <1> QED
    BY <1>1, <1>2, <1>3, <1>4, <1>5, <1>6, <1>7, <1>8, <1>9, <1>10, <1>11, <1>12,
       <1>13, <1>14, <1>15 DEF Next, Step

\* Every number that is open in the kernel is the program's or a call's.
THEOREM NumbersDoNotLeak == Heap => (Spec => []NoDescriptorLeaks)
  <1> SUFFICES ASSUME Heap PROVE Spec => []NoDescriptorLeaks
    OBVIOUS
  <1>1. Spec => []Inv
    BY InvHolds
  <1> QED BY <1>1, InitNoLeaks, NextNoLeaks, PTL DEF Spec
--------------------------------------------------------------------------------
(* The two tables are one namespace of descriptors.                          *)

Closing == {fd[t] : t \in {u \in Thread : pc[u] = "closehost"}}

\* Reserved numbers are those of the threads between the two parts of dup2.
LEMMA Reserving == \A n : n \in Reserved <=> \E t \in Thread : pc[t] = "dupd" /\ fd[t] = n
  BY DEF Reserved

\* Reserving, of the next state.
LEMMA ReservingNext ==
  \A n : n \in Reserved' <=> \E t \in Thread : pc'[t] = "dupd" /\ fd'[t] = n
  BY DEF Reserved

\* Closing numbers are those of the threads about to close them on the host.
LEMMA ClosingThreads ==
  \A n : n \in Closing <=> \E t \in Thread : pc[t] = "closehost" /\ fd[t] = n
  BY DEF Closing

\* ClosingThreads, of the next state.
LEMMA ClosingThreadsNext ==
  \A n : n \in Closing' <=> \E t \in Thread : pc'[t] = "closehost" /\ fd'[t] = n
  BY DEF Closing

\* Before the first call, no number denotes a file in either description.
LEMMA OneInit == Init => D!Init
  <1> SUFFICES ASSUME Init PROVE D!Init
    OBVIOUS
  <1>1. Closing = {}
    BY DEF Init, Closing
  <1>2. Denotes = kernel
    BY DEF Init, Denotes, Reserved
  <1>3. kernel \in [Fds -> HostObj \cup {None}]
    BY DEF Init, HostObj
  <1> QED BY <1>1, <1>2, <1>3 DEF D!Init, Closing

\* The set of closing numbers is known by its members.
LEMMA SameClosing ==
  ASSUME \A n : n \in Closing' <=> n \in Closing
  PROVE  Closing' = Closing
  OBVIOUS

\* A step that neither changes what a number denotes nor what is being closed.
LEMMA Stutter ==
  ASSUME \A n \in Fds : Denotes'[n] = Denotes[n], \A n : n \in Closing' <=> n \in Closing
  PROVE  UNCHANGED D!vars
  <1>1. Closing' = Closing
    OBVIOUS
  <1>2. Denotes' = Denotes
    BY DEF Denotes
  <1> QED BY <1>1, <1>2 DEF D!vars, Closing

\* A step that changes what one number denotes.
LEMMA Rebind ==
  ASSUME NEW m \in Fds, NEW o,
         Denotes'[m] = o, \A n \in Fds : n # m => Denotes'[n] = Denotes[n]
  PROVE  Denotes' = [Denotes EXCEPT ![m] = o]
  BY DEF Denotes

\* Every step of the two tables is one of a single table of numbers, or none.
LEMMA OneStep == Heap /\ Inv /\ Inv' /\ [Next]_vars => [D!Next]_(D!vars)
  <1> SUFFICES ASSUME Heap, Inv, Inv', [Next]_vars PROVE [D!Next]_(D!vars)
    OBVIOUS
  <1>T. /\ \A n \in Fds : Denotes[n] = IF table[n] # None THEN table[n]
                                     ELSE IF n \in Reserved THEN None ELSE kernel[n]
        /\ \A n \in Fds : Denotes'[n] = IF table'[n] # None THEN table'[n]
                                     ELSE IF n \in Reserved' THEN None ELSE kernel'[n]
    BY DEF Denotes
  <1> USE Reserving, ReservingNext, ClosingThreads, ClosingThreadsNext, ObjAssumption
      DEF Inv, TypeOK, HeldRoutes, OwnedNumbers, Owning, WithFd, Goto, Return
  <1>1. ASSUME NEW t \in Thread, NEW f \in File \cup {None}, NEW flags \in SUBSET OpenFlag,
               Open(t, f, flags) \/ (\E v \in Fds : OpenAt(t, v, f, flags))
        PROVE  UNCHANGED D!vars
    <2>1. \A n : n \in Reserved' <=> n \in Reserved
      BY <1>1 DEF Open, OpenAt
    <2>2. \A n : n \in Closing' <=> n \in Closing
      BY <1>1 DEF Open, OpenAt
    <2>3. UNCHANGED <<table, kernel>>
      BY <1>1 DEF Open, OpenAt
    <2> QED BY <1>T, <2>1, <2>2, <2>3, Stutter
  <1>2. ASSUME NEW t \in Thread, Dup(t) PROVE UNCHANGED D!vars
    <2>1. PICK m \in Fds : /\ kernel[m] = None
                           /\ kernel' = [kernel EXCEPT ![m] = kernel[0]]
                           /\ Goto(t, "dupd", m, obj[t])
      BY <1>2 DEF Dup, Lowest, FreeFds
    <2>2. \A n : n \in Reserved' <=> n \in Reserved \/ n = m
      BY <1>2, <2>1 DEF Dup
    <2>3. \A n : n \in Closing' <=> n \in Closing
      BY <1>2, <2>1 DEF Dup
    <2>4. table' = table /\ table[m] = None
      BY <1>2, <2>1 DEF Dup
    <2> QED BY <1>T, <2>1, <2>2, <2>3, <2>4, Stutter
  <1>3. ASSUME NEW t \in Thread,
               DupFails(t) \/ UseHost(t) \/ (\E g \in Garbage : DropHandle(t, g))
        PROVE  UNCHANGED D!vars
    <2>1. \A n : n \in Reserved' <=> n \in Reserved
      BY <1>3 DEF DupFails, UseHost, DropHandle
    <2>2. \A n : n \in Closing' <=> n \in Closing
      BY <1>3 DEF DupFails, UseHost, DropHandle
    <2>3. table' = table /\ \A n \in Fds : kernel'[n] = kernel[n]
      BY <1>3 DEF DupFails, UseHost, DropHandle, Heap
    <2> QED BY <1>T, <2>1, <2>2, <2>3, Stutter
  <1>4. ASSUME NEW t \in Thread, Insert(t) PROVE D!Next
    <2>1. /\ fd[t] \in Fds /\ obj[t] \in File /\ table[fd[t]] = None
          /\ table' = [table EXCEPT ![fd[t]] = obj[t]] /\ kernel' = kernel
      BY <1>4, Owned DEF Insert
    <2>2. \A n : n \in Reserved' <=> n \in Reserved /\ n # fd[t]
      BY <1>4 DEF Insert
    <2>3. \A n : n \in Closing' <=> n \in Closing
      BY <1>4 DEF Insert
    <2>4. Denotes[fd[t]] = None /\ Denotes'[fd[t]] = obj[t]
      BY <1>T, <1>4, <2>1 DEF Insert
    <2>5. Denotes' = [Denotes EXCEPT ![fd[t]] = obj[t]]
      BY <1>T, <2>1, <2>2, <2>4, Rebind
    <2>6. Closing' = Closing
      BY <2>3, SameClosing
    <2> QED BY <2>1, <2>4, <2>5, <2>6 DEF D!Next, D!Open, Closing
  <1>5. ASSUME NEW t \in Thread, InsertThrows(t) \/ CatchBadAlloc(t)
        PROVE  UNCHANGED D!vars
    <2>1. fd[t] \in Fds /\ table' = table /\ kernel' = [kernel EXCEPT ![fd[t]] = None]
      BY <1>5 DEF InsertThrows, CatchBadAlloc
    <2>2. \A n : n # fd[t] => (n \in Reserved' <=> n \in Reserved)
      BY <1>5 DEF InsertThrows, CatchBadAlloc
    <2>3. \A n : n \in Closing' <=> n \in Closing
      BY <1>5 DEF InsertThrows, CatchBadAlloc
    <2>4. table[fd[t]] = None => Denotes'[fd[t]] = None /\ Denotes[fd[t]] = None
      BY <1>T, <1>5, <2>1 DEF InsertThrows, CatchBadAlloc, UnwoundNumbers
    <2>5. Denotes'[fd[t]] = Denotes[fd[t]]
      BY <1>T, <2>1, <2>4
    <2> QED BY <1>T, <2>1, <2>2, <2>3, <2>5, Stutter
  <1>6. ASSUME NEW t \in Thread, NEW h \in HostFile, OpenHost(t, h) \/ OpenAtHost(t, h)
        PROVE  D!Next
    <2>1. PICK m \in Fds : kernel[m] = None /\ kernel' = [kernel EXCEPT ![m] = h]
      BY <1>6 DEF OpenHost, OpenAtHost, Lowest, FreeFds
    <2>2. \A n : n \in Reserved' <=> n \in Reserved
      BY <1>6 DEF OpenHost, OpenAtHost
    <2>3. \A n : n \in Closing' <=> n \in Closing
      BY <1>6 DEF OpenHost, OpenAtHost
    <2>4. table' = table /\ table[m] = None /\ m \notin Reserved
      BY <1>6, <2>1 DEF OpenHost, OpenAtHost
    <2>5. Denotes[m] = None /\ Denotes'[m] = h
      BY <1>T, <2>1, <2>2, <2>4
    <2>6. Denotes' = [Denotes EXCEPT ![m] = h]
      BY <1>T, <2>1, <2>2, <2>4, <2>5, Rebind
    <2>7. Closing' = Closing /\ h \in HostObj
      BY <2>3, SameClosing DEF HostObj
    <2> QED BY <2>1, <2>5, <2>6, <2>7 DEF D!Next, D!Open, Closing
  <1>7. ASSUME NEW t \in Thread, NEW v \in Fds, NEW place \in {"usehost", "athost"},
               MissTable(t, v, place)
        PROVE  UNCHANGED D!vars
    <2>1. \A n : n \in Reserved' <=> n \in Reserved
      BY <1>7 DEF MissTable
    <2>2. \A n : n \in Closing' <=> n \in Closing
      BY <1>7 DEF MissTable
    <2>3. UNCHANGED <<table, kernel>>
      BY <1>7 DEF MissTable
    <2> QED BY <1>T, <2>1, <2>2, <2>3, Stutter
  <1>8. ASSUME NEW t \in Thread, NEW v \in Fds, CloseMemfs(t, v) PROVE D!Next
    <2>1. /\ table[v] \in File /\ table' = [table EXCEPT ![v] = None]
          /\ kernel' = [kernel EXCEPT ![v] = None]
      BY <1>8 DEF CloseMemfs
    <2>2. \A n : n \in Reserved' <=> n \in Reserved
      BY <1>8 DEF CloseMemfs
    <2>3. \A n : n \in Closing' <=> n \in Closing
      BY <1>8 DEF CloseMemfs
    <2>4. Denotes[v] \in File /\ Denotes'[v] = None
      BY <1>T, <2>1
    <2>5. Denotes' = [Denotes EXCEPT ![v] = None]
      BY <1>T, <2>1, <2>2, <2>4, Rebind
    <2>6. Closing' = Closing
      BY <2>3, SameClosing
    <2> QED BY <2>4, <2>5, <2>6 DEF D!Next, D!CloseMemfs, Closing
  <1>9. ASSUME NEW t \in Thread, NEW v \in Fds, CloseMiss(t, v) PROVE D!Next
    <2>1. UNCHANGED <<table, kernel>> /\ table[v] = None /\ kernel[v] \in HostObj
      BY <1>9 DEF CloseMiss
    <2>2. \A n : n \in Reserved' <=> n \in Reserved
      BY <1>9 DEF CloseMiss
    <2>3. \A n : n \in Closing' <=> n \in Closing \/ n = v
      BY <1>9 DEF CloseMiss
    <2>4. Denotes[v] \in HostObj
      BY <1>T, <1>9, <2>1 DEF CloseMiss
    <2>5. Denotes' = Denotes
      BY <2>1, <2>2 DEF Denotes
    <2>6. Closing' = Closing \cup {v}
      BY <2>3
    <2> QED BY <2>4, <2>5, <2>6 DEF D!Next, D!CallClose, Closing
  <1>10. ASSUME NEW t \in Thread, CloseHost(t) PROVE D!Next
    <2>1. /\ fd[t] \in Fds /\ table[fd[t]] = None
          /\ table' = table /\ kernel' = [kernel EXCEPT ![fd[t]] = None]
      BY <1>10, Owned DEF CloseHost
    <2>2. \A n : n \in Reserved' <=> n \in Reserved
      BY <1>10 DEF CloseHost
    <2>3. fd[t] \in Closing /\ \A n : n \in Closing' <=> n \in Closing /\ n # fd[t]
      BY <1>10 DEF CloseHost
    <2>4. Denotes'[fd[t]] = None
      BY <1>T, <2>1
    <2>5. Denotes' = [Denotes EXCEPT ![fd[t]] = None]
      BY <1>T, <2>1, <2>2, <2>4, Rebind
    <2>6. Closing' = Closing \ {fd[t]}
      BY <2>3
    <2> QED BY <2>1, <2>3, <2>5, <2>6 DEF D!Next, D!CloseHost, Closing
  <1>11. CASE CloseAll
    <2>1. \A n : n \in Reserved' <=> n \in Reserved
      BY <1>11 DEF CloseAll
    <2>2. Closing' = Closing
      BY <1>11 DEF CloseAll, Closing
    <2>3. \A n \in Fds : Denotes'[n] = IF Denotes[n] \in File THEN None ELSE Denotes[n]
      BY <1>T, <1>11, <2>1 DEF CloseAll
    <2>4. Denotes' = [n \in Fds |-> IF Denotes[n] \in File THEN None ELSE Denotes[n]]
      BY <2>3 DEF Denotes
    <2> QED BY <2>2, <2>4 DEF D!Next, D!Release, Closing
  <1>12. CASE UNCHANGED vars
    BY <1>12 DEF vars, D!vars, Denotes, Reserved
  <1> HIDE DEF Inv, TypeOK, HeldRoutes, OwnedNumbers, Owning, WithFd, Goto, Return
  <1>13. ASSUME NEW t \in Thread, Step(t) PROVE D!Next \/ UNCHANGED D!vars
    BY <1>1, <1>2, <1>3, <1>4, <1>5, <1>6, <1>7, <1>8, <1>9, <1>10, <1>13 DEF Step
  <1> QED BY <1>11, <1>12, <1>13 DEF Next

\* The table of the library and the descriptors of the kernel implement one
\* namespace of descriptors.
THEOREM OneNamespaceIsSeen == Heap => (Spec => OneNamespace)
  <1> SUFFICES ASSUME Heap PROVE Spec => D!Spec
    BY DEF OneNamespace
  <1>1. Spec => []Inv
    BY InvHolds
  <1> QED BY <1>1, OneInit, OneStep, PTL DEF Spec, D!Spec
================================================================================
