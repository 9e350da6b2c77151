------------------------------- MODULE DirTables -------------------------------
(***************************************************************************)
(* The DIR pointers a program holds: streams over the image                *)
(* (sync_tebako_dstable, tebako-dirent.cpp), the set of the streams that   *)
(* the system library made (sync_tebako_kfdtable, tebako-kfd.cpp), the     *)
(* shims of dir-io.cpp that choose between them, and the release of the    *)
(* image (tebako-io-root.cpp) that takes all streams and descriptors away. *)
(*                                                                         *)
(* Both kinds of stream live on one heap: the address of a stream that was *)
(* freed may come back as the address of the next one.  Each access to a   *)
(* table is one step (its lock is held); closedir and close_all of the     *)
(* stream table hold their lock while they take the lock of the descriptor *)
(* table, so that each of them is one step.                                *)
(*                                                                         *)
(* Two closes work on an address that is no longer theirs.  tebako_closedir *)
(* takes a descriptor that was gone for a stream that is not the library's *)
(* and goes on to the host, with an address that was freed; and opendir,   *)
(* when the insertion of its stream throws, closes the address once more,  *)
(* after the stream is gone.  Who has the address by then is closed.       *)
(***************************************************************************)
EXTENDS Naturals, FiniteSets

CONSTANTS
  Thread,      \* threads of the program
  HostThread,  \* the threads that open and close directories of the host
  Ptr,         \* heap addresses
  Vfd,         \* descriptor numbers
  None,
  MaxHostDir,  \* bound on the streams of the host that are open at a time
  MaxGen,      \* bound on the number of releases
  Program      \* the kinds of program that use the library (see Programs)

ASSUME ThreadAssumption == HostThread \subseteq Thread /\ IsFiniteSet(Thread)
ASSUME BoundAssumption == MaxGen \in Nat /\ MaxHostDir \in Nat
ASSUME NoneAssumption == None \notin Ptr \cup Vfd \cup (0 .. MaxGen) /\ None \notin {"mem", "host"}

\* A program has threads, opens nothing of the image while it is released (calm) or
\* whenever it likes, and may run out of memory, so that make_shared or the
\* insertion of a stream throws, or may not.
Programs == [threads : SUBSET Thread, calm : BOOLEAN, throws : BOOLEAN]
ASSUME ProgramAssumption == Program \subseteq Programs

VARIABLES
  prog,   \* the program that runs
  gen,    \* generation of the root image
  fdtab,  \* fdtab[v]: generation of the image v was opened in, None without an entry
  files,  \* descriptors the program itself holds
  ds,     \* ds[p]: vfd of the tebako_ds at address p, None without an entry
  kfd,    \* s_tebako_kfdtable
  heap,   \* what is allocated at an address: "free", "ds" or "dir"
  held,   \* the program's DIR pointers: "mem", "host" or None
  pc, ptr, vfd, seen, \* per thread: place, address, descriptor, generation
  astray  \* history: has a close found a stream that is not its own?
vars == <<prog, gen, fdtab, files, ds, kfd, heap, held, pc, ptr, vfd, seen, astray>>

Releasing == {"freefds", "freeimage"}
Making == {"opened", "given", "loaded"}
Place == {"idle", "found", "unwound", "fallen", "closek", "closing", "erasing",
          "inserting", "usek"} \cup Making \cup Releasing

TypeOK == /\ prog \in Program
          /\ gen \in 0 .. MaxGen
          /\ fdtab \in [Vfd -> (0 .. MaxGen) \cup {None}]
          /\ files \subseteq Vfd
          /\ ds \in [Ptr -> Vfd \cup {None}]
          /\ kfd \subseteq Ptr
          /\ heap \in [Ptr -> {"free", "ds", "dir"}]
          /\ held \in [Ptr -> {"mem", "host", None}]
          /\ pc \in [Thread -> Place]
          /\ ptr \in [Thread -> Ptr \cup {None}]
          /\ vfd \in [Thread -> Vfd \cup {None}]
          /\ seen \in [Thread -> (0 .. MaxGen) \cup {None}]
          /\ astray \in BOOLEAN
          /\ \A t \in Thread :
               /\ pc[t] \in Making => vfd[t] \in Vfd
               /\ pc[t] = "found" => seen[t] \in 0 .. MaxGen
               /\ pc[t] \in {"opened", "given"} => ptr[t] = None
               /\ pc[t] \notin {"idle", "found", "opened", "given"} \cup Releasing => ptr[t] \in Ptr

Init == /\ prog \in Program
        /\ gen = 0
        /\ fdtab = [v \in Vfd |-> None]
        /\ files = {}
        /\ ds = [p \in Ptr |-> None]
        /\ kfd = {}
        /\ heap = [p \in Ptr |-> "free"]
        /\ held = [p \in Ptr |-> None]
        /\ pc = [t \in Thread |-> "idle"]
        /\ ptr = [t \in Thread |-> None]
        /\ vfd = [t \in Thread |-> None]
        /\ seen = [t \in Thread |-> None]
        /\ astray = FALSE

Goto(t, place, p, v, g) == /\ pc' = [pc EXCEPT ![t] = place]
                           /\ ptr' = [ptr EXCEPT ![t] = p]
                           /\ vfd' = [vfd EXCEPT ![t] = v]
                           /\ seen' = [seen EXCEPT ![t] = g]
Return(t) == Goto(t, "idle", None, None, None)

\* A thread begins a call, and one that opens something of the image.
Begins(t) == pc[t] = "idle"
Opens(t) == Begins(t) /\ (prog.calm => \A u \in Thread : pc[u] \notin Releasing)
Opening == {"found", "unwound"} \cup Making

\* The system library makes a stream.
NewHostDir(t, p) == /\ heap[p] = "free"
                    /\ Cardinality({q \in Ptr : heap[q] = "dir"}) < MaxHostDir
                    /\ heap' = [heap EXCEPT ![p] = "dir"]
                    /\ Goto(t, "inserting", p, None, None)

\* ---- opendir of a directory of the image (fdopendir and scandir alike) ----

\* The directory is found and a descriptor entered for it: two steps of the
\* open of FdTable, between which the image may be released.
FindDir(t) == /\ Opens(t)
              /\ Goto(t, "found", None, None, gen)
              /\ UNCHANGED <<gen, files, fdtab, ds, kfd, heap, held, astray>>

OpenFd(t) == /\ pc[t] = "found"
             /\ \E v \in Vfd : /\ fdtab[v] = None
                               /\ fdtab' = [fdtab EXCEPT ![v] = seen[t]]
                               /\ Goto(t, "opened", None, v, seen[t])
             /\ UNCHANGED <<gen, files, ds, kfd, heap, held, astray>>

\* No descriptor is left.
OpenFdFails(t) == /\ pc[t] = "found"
                  /\ \A v \in Vfd : fdtab[v] # None
                  /\ Return(t)
                  /\ UNCHANGED <<gen, files, fdtab, ds, kfd, heap, held, astray>>

\* make_shared<tebako_ds> and load_cache(0, true), which reads the directory
\* through the descriptor.
LoadFirst(t, p) == /\ pc[t] \in {"opened", "given"}
                   /\ heap[p] = "free"
                   /\ fdtab[vfd[t]] # None
                   /\ heap' = [heap EXCEPT ![p] = "ds"]
                   /\ Goto(t, "loaded", p, vfd[t], seen[t])
                   /\ UNCHANGED <<gen, files, fdtab, ds, kfd, held, astray>>

\* The descriptor is gone, or its inode is no directory: fdopendir was given the
\* descriptor of a file, or another image is mounted by now.  opendir returns NULL,
\* and nobody closes the descriptor.  (fdopendir asks the host then, which refuses
\* a descriptor of the image: that is a duplicate of descriptor 0.)
LoadFails(t) == /\ \/ pc[t] \in {"opened", "given"} /\ fdtab[vfd[t]] # gen
                   \/ pc[t] = "given"
                /\ Return(t)
                /\ UNCHANGED <<gen, files, fdtab, ds, kfd, heap, held, astray>>

\* fdopendir of a number that is no descriptor of the image any more: the host may
\* have a directory there.
LoadFailsOver(t, p) == /\ pc[t] = "given" /\ t \in HostThread
                       /\ fdtab[vfd[t]] = None
                       /\ NewHostDir(t, p)
                       /\ UNCHANGED <<gen, files, fdtab, ds, kfd, held, astray>>

InsertDs(t) == /\ pc[t] = "loaded"
               /\ ds' = [ds EXCEPT ![ptr[t]] = vfd[t]]
               /\ held' = [held EXCEPT ![ptr[t]] = "mem"]
               /\ files' = files \ {vfd[t]}
               /\ Return(t)
               /\ UNCHANGED <<gen, fdtab, kfd, heap, astray>>

\* bad_alloc from make_shared: the descriptor stays.
OpenThrows(t) == /\ pc[t] \in {"opened", "given"}
                 /\ prog.throws
                 /\ Return(t)
                 /\ UNCHANGED <<gen, files, fdtab, ds, kfd, heap, held, astray>>

\* bad_alloc from the insertion: the stream is freed before the handler runs ...
InsertThrows(t) == /\ pc[t] = "loaded"
                   /\ prog.throws
                   /\ heap' = [heap EXCEPT ![ptr[t]] = "free"]
                   /\ Goto(t, "unwound", ptr[t], None, None)
                   /\ UNCHANGED <<gen, files, fdtab, ds, kfd, held, astray>>

\* ... which closes what is in the table at its address: nothing, or the stream
\* that another thread has made there since.
CloseUnwound(t) ==
  /\ pc[t] = "unwound"
  /\ LET p == ptr[t] IN
       /\ astray' = (astray \/ ds[p] # None)
       /\ fdtab' = [v \in Vfd |-> IF v = ds[p] THEN None ELSE fdtab[v]]
       /\ heap' = IF ds[p] # None THEN [heap EXCEPT ![p] = "free"] ELSE heap
       /\ ds' = [ds EXCEPT ![p] = None]
  /\ Return(t)
  /\ UNCHANGED <<gen, files, kfd, held>>

\* ---- descriptors without a stream, and fdopendir ----

\* tebako_open: the program gets the descriptor itself.
KeepFd(t) == /\ pc[t] = "opened"
             /\ files' = files \cup {vfd[t]}
             /\ Return(t)
             /\ UNCHANGED <<gen, fdtab, ds, kfd, heap, held, astray>>

\* A number another thread is making a stream of is not touched.
Mine(v) == v \in files /\ \A u \in Thread : pc[u] \in Making => vfd[u] # v

CloseFd(t, v) == /\ Begins(t)
                 /\ Mine(v)
                 /\ files' = files \ {v}
                 /\ fdtab' = [fdtab EXCEPT ![v] = None]
                 /\ UNCHANGED <<gen, ds, kfd, heap, held, pc, ptr, vfd, seen, astray>>

\* fdopendir: from here on as opendir.  The descriptor stays the program's
\* until the stream is in the table.
FdOpenDir(t, v) == /\ Opens(t)
                   /\ Mine(v)
                   /\ Goto(t, "given", None, v, fdtab[v])
                   /\ UNCHANGED <<gen, files, fdtab, ds, kfd, heap, held, astray>>

\* ---- opendir of the host ----

OpenHostDir(t, p) == /\ Begins(t) /\ t \in HostThread
                     /\ NewHostDir(t, p)
                     /\ UNCHANGED <<gen, files, fdtab, ds, kfd, held, astray>>

\* Mutant: the pointer is not remembered.
InsertKfd_Forgets(t) == /\ pc[t] = "inserting"
                        /\ held' = [held EXCEPT ![ptr[t]] = "host"]
                        /\ Return(t)
                        /\ UNCHANGED <<gen, files, fdtab, ds, kfd, heap, astray>>

InsertKfd(t) == /\ pc[t] = "inserting"
                /\ kfd' = kfd \cup {ptr[t]}
                /\ held' = [held EXCEPT ![ptr[t]] = "host"]
                /\ Return(t)
                /\ UNCHANGED <<gen, files, fdtab, ds, heap, astray>>

\* ---- calls on a stream: readdir, telldir, seekdir, dirfd ----

\* A stream of the image is served under the lock of its table (DirStream);
\* any other pointer is looked for in kfd, and refused when it is not there.
UseMiss(t, p) == /\ Begins(t)
                 /\ held[p] # None /\ ds[p] = None
                 /\ Goto(t, "usek", p, None, None)
                 /\ UNCHANGED <<gen, files, fdtab, ds, kfd, heap, held, astray>>

UseHostDir(t) == /\ pc[t] = "usek"
                 /\ Return(t)
                 /\ UNCHANGED <<gen, files, fdtab, ds, kfd, heap, held, astray>>

\* ---- closedir ----

Unused(p) == \A u \in Thread : pc[u] = "usek" => ptr[u] # p

\* What closedir of a stream of the image does, whatever it makes of the tables.
EndOfDs(t, p) == /\ Begins(t)
                 /\ held[p] # None /\ Unused(p)
                 /\ ds[p] # None
                 /\ heap' = [heap EXCEPT ![p] = "free"]
                 /\ held' = [held EXCEPT ![p] = None]

\* close of a descriptor that is gone is told as INVALID_FD, which tebako_closedir
\* takes for a stream that is none of the library's.
GoesOn(t, p) == IF fdtab[ds[p]] = None THEN Goto(t, "fallen", p, None, None)
                ELSE UNCHANGED <<pc, ptr, vfd, seen>>

\* Mutant: the descriptor outlives its stream.
CloseDs_KeepsFd(t, p) ==
  /\ EndOfDs(t, p) /\ GoesOn(t, p)
  /\ ds' = [ds EXCEPT ![p] = None]
  /\ UNCHANGED <<gen, files, fdtab, kfd, astray>>

\* Mutant: the entry outlives its stream.
CloseDs_KeepsEntry(t, p) ==
  /\ EndOfDs(t, p) /\ GoesOn(t, p)
  /\ fdtab' = [fdtab EXCEPT ![ds[p]] = None]
  /\ UNCHANGED <<gen, files, ds, kfd, astray>>

CloseDs(t, p) == /\ EndOfDs(t, p) /\ GoesOn(t, p)
                 /\ fdtab' = [fdtab EXCEPT ![ds[p]] = None]
                 /\ ds' = [ds EXCEPT ![p] = None]
                 /\ UNCHANGED <<gen, files, kfd, astray>>

CloseMiss(t, p) == /\ Begins(t) /\ t \in HostThread
                   /\ held[p] # None /\ Unused(p)
                   /\ ds[p] = None
                   /\ held' = [held EXCEPT ![p] = None]
                   /\ Goto(t, "closek", p, None, None)
                   /\ UNCHANGED <<gen, files, fdtab, ds, kfd, heap, astray>>

\* (A close that fell through has no stream on the host: what it finds is another's.)
CheckKfd(t) == /\ pc[t] \in {"closek", "fallen"}
               /\ IF ptr[t] \in kfd THEN Goto(t, "closing", ptr[t], None, None) ELSE Return(t)
               /\ astray' = (astray \/ (pc[t] = "fallen" /\ ptr[t] \in kfd))
               /\ UNCHANGED <<gen, files, fdtab, ds, kfd, heap, held>>

\* Mutant: closedir is called until it fails.
CloseHostDir_Retries(t) == /\ pc[t] = "closing"
                           /\ heap' = [heap EXCEPT ![ptr[t]] = "free"]
                           /\ UNCHANGED <<gen, files, fdtab, ds, kfd, held, pc, ptr, vfd, seen, astray>>

\* ::closedir frees the stream ...
CloseHostDir(t) == /\ pc[t] = "closing"
                   /\ heap' = [heap EXCEPT ![ptr[t]] = "free"]
                   /\ Goto(t, "erasing", ptr[t], None, None)
                   /\ UNCHANGED <<gen, files, fdtab, ds, kfd, held, astray>>

\* Mutant: the pointer is remembered for ever.
EraseKfd_Forgets(t) == /\ pc[t] = "erasing"
                       /\ Return(t)
                       /\ UNCHANGED <<gen, files, fdtab, ds, kfd, heap, held, astray>>

\* ... and its address is erased, whoever has it by now.
EraseKfd(t) == /\ pc[t] = "erasing"
               /\ kfd' = kfd \ {ptr[t]}
               /\ Return(t)
               /\ UNCHANGED <<gen, files, fdtab, ds, heap, held, astray>>

\* ---- release_memfs_resources and the change of the root image ----

Mem(p) == ds[p] # None

ReleaseBegins(t) ==
  /\ Begins(t)
  /\ gen + Cardinality({u \in Thread : pc[u] \in Releasing}) < MaxGen
  /\ prog.calm => \A u \in Thread : pc[u] \notin Opening

\* Mutant: close_all closes the descriptors, and the streams stay in the table.
CloseAllDs_NoClear(t) ==
  /\ ReleaseBegins(t)
  /\ fdtab' = [v \in Vfd |-> IF \E p \in Ptr : ds[p] = v THEN None ELSE fdtab[v]]
  /\ Goto(t, "freefds", None, None, None)
  /\ UNCHANGED <<gen, files, ds, kfd, heap, held, astray>>

CloseAllDs(t) ==
  /\ ReleaseBegins(t)
  /\ fdtab' = [v \in Vfd |-> IF \E p \in Ptr : ds[p] = v THEN None ELSE fdtab[v]]
  /\ ds' = [p \in Ptr |-> None]
  /\ heap' = [p \in Ptr |-> IF Mem(p) THEN "free" ELSE heap[p]]
  /\ held' = [p \in Ptr |-> IF Mem(p) THEN None ELSE held[p]]
  /\ Goto(t, "freefds", None, None, None)
  /\ UNCHANGED <<gen, files, kfd, astray>>

\* Mutant: close_all of the descriptors is left out.
CloseAllFds_Skipped(t) ==
  /\ pc[t] = "freefds"
  /\ Goto(t, "freeimage", None, None, None)
  /\ UNCHANGED <<gen, files, fdtab, ds, kfd, heap, held, astray>>

CloseAllFds(t) ==
  /\ pc[t] = "freefds"
  /\ fdtab' = [v \in Vfd |-> None]
  /\ files' = {}
  /\ Goto(t, "freeimage", None, None, None)
  /\ UNCHANGED <<gen, ds, kfd, heap, held, astray>>

NewImage(t) ==
  /\ pc[t] = "freeimage"
  /\ gen' = gen + 1
  /\ Return(t)
  /\ UNCHANGED <<fdtab, files, ds, kfd, heap, held, astray>>

Step(t) ==
  \/ FindDir(t) \/ OpenFd(t) \/ OpenFdFails(t) \/ LoadFails(t) \/ InsertDs(t)
  \/ OpenThrows(t) \/ InsertThrows(t) \/ CloseUnwound(t)
  \/ InsertKfd(t) \/ UseHostDir(t)
  \/ CheckKfd(t) \/ CloseHostDir(t) \/ EraseKfd(t)
  \/ CloseAllDs(t) \/ CloseAllFds(t) \/ NewImage(t)
  \/ \E p \in Ptr : \/ LoadFirst(t, p) \/ LoadFailsOver(t, p) \/ OpenHostDir(t, p) \/ UseMiss(t, p)
                    \/ CloseDs(t, p) \/ CloseMiss(t, p)
  \/ KeepFd(t) \/ (\E v \in Vfd : CloseFd(t, v) \/ FdOpenDir(t, v))

Next == (\E t \in prog.threads : Step(t)) /\ UNCHANGED prog

Spec == Init /\ [][Next]_vars

--------------------------------------------------------------------------------
(* Properties.                                                               *)

\* A close finds the stream it was called for or none, in a program that opens nothing
\* of the image while it is released and never runs out of memory.  In others it may
\* close a stream that another thread has got at the address since
\* (tebako-dirent.cpp:64-67, dir-io.cpp:103-118); what the properties below promise
\* those is what holds until then: there is no other way to lose a stream.
ClosesAreTheirOwn == prog.calm /\ ~prog.throws => ~astray

\* A pointer the program holds is found where its stream is: in the table of
\* the image, or, for a stream of the host, in the set of alien pointers.
StreamsRoute == ~astray =>
  \A p \in Ptr : /\ held[p] = "mem" => ds[p] # None /\ heap[p] = "ds"
                 /\ held[p] = "host" => ds[p] = None /\ p \in kfd /\ heap[p] = "dir"

\* A directory call that was handed to the system library gets a live stream.
HostCallsAreLive == ~astray =>
  \A t \in Thread : pc[t] \in {"usek", "closek", "closing"} =>
                      ptr[t] \in kfd /\ heap[ptr[t]] = "dir"

\* Every stream has a descriptor of its own, open as long as the stream is, in a
\* program that opens nothing while it releases the image.
StreamOwnsFd == prog.calm /\ ~astray =>
  /\ \A p \in Ptr : ds[p] # None => fdtab[ds[p]] # None
  /\ \A p, q \in Ptr : ds[p] # None /\ ds[p] = ds[q] => p = q

\* An address of kfd is that of a live stream of the host, or about to go:
\* anything else would be passed to the system library instead of refused.
KfdIsLive == ~astray =>
  \A p \in kfd : heap[p] = "dir" \/ \E t \in Thread : pc[t] = "erasing" /\ ptr[t] = p

\* A descriptor belongs to the program, to a stream or to a call: no failing
\* opendir leaves one behind while there is memory.
NoFdLeaks == prog.calm /\ ~prog.throws =>
  \A v \in Vfd : fdtab[v] # None =>
     \/ v \in files \/ \E p \in Ptr : ds[p] = v
     \/ \E t \in Thread : pc[t] \in Making /\ vfd[t] = v

\* After the unmount a descriptor or stream opened before it is dead
\* (tests-fs-load.cpp:170-233), so what is in the tables is of the image mounted now.
\* (Holds of programs that open nothing during the release: an opendir in progress
\* enters its descriptor after the table was cleared.)
DeadAfterUnmount ==
  prog.calm /\ ~astray /\ (\A t \in Thread : pc[t] \notin Releasing) =>
     /\ \A v \in Vfd : fdtab[v] \in {None, gen}
     /\ \A p \in Ptr : ds[p] # None => fdtab[ds[p]] = gen
--------------------------------------------------------------------------------
(* The inductive invariant behind the properties.                            *)

\* With two threads that use directories of the host, closedir of one erases the
\* address that opendir has just given to the other (dir-io.cpp:117, :118).
OneHostThread == \A t, u \in HostThread : t = u

\* Releases in progress count against the bound.
Bounded == gen + Cardinality({t \in Thread : pc[t] \in Releasing}) <= MaxGen

\* What an address is, in the tables and on the heap.
Addresses ==
  \A p \in Ptr : /\ ds[p] # None => heap[p] = "ds"
                 /\ held[p] = "mem" <=> ds[p] # None
                 /\ held[p] = "host" => p \in kfd /\ heap[p] = "dir"

\* What the address in the hands of a call is.
Calls ==
  \A t \in Thread :
     /\ pc[t] = "loaded" => heap[ptr[t]] = "ds" /\ held[ptr[t]] = None
     /\ pc[t] = "usek" => held[ptr[t]] = "host"
     /\ pc[t] = "inserting" => heap[ptr[t]] = "dir" /\ held[ptr[t]] = None
     /\ pc[t] \in {"closek", "closing"} =>
          ptr[t] \in kfd /\ heap[ptr[t]] = "dir" /\ held[ptr[t]] = None
     /\ pc[t] = "erasing" => heap[ptr[t]] # "dir"
     /\ pc[t] \in {"inserting", "closek", "closing", "erasing"} => t \in HostThread

\* Two calls do not make one stream.
Apart == \A t, u \in Thread :
           pc[t] = "loaded" /\ pc[u] = "loaded" /\ ptr[t] = ptr[u] => t = u

Pointers == ~astray => Addresses /\ Calls /\ Apart /\ KfdIsLive

\* Nothing is opened in a calm release, and it finds each table empty after it cleared it.
Cleared ==
  \A t \in Thread : pc[t] \in Releasing =>
     /\ \A u \in Thread : pc[u] \notin Opening
     /\ \A p \in Ptr : ds[p] = None
     /\ pc[t] = "freeimage" => \A v \in Vfd : fdtab[v] = None /\ v \notin files

\* Then everything in use is of the image that is mounted, and no close falls through.
Current == /\ \A v \in Vfd : fdtab[v] \in {None, gen}
           /\ \A t \in Thread : pc[t] = "found" => seen[t] = gen
Settled == \A t \in Thread : pc[t] # "fallen"

\* The program, the streams and the calls have their own descriptors (a call of
\* fdopendir works on one of the program's).
Ownership ==
  /\ \A p, q \in Ptr : ds[p] # None /\ ds[p] = ds[q] => p = q
  /\ \A p \in Ptr : ds[p] # None => fdtab[ds[p]] # None /\ ds[p] \notin files
  /\ \A v \in files : fdtab[v] # None
  /\ \A t \in Thread : pc[t] \in Making =>
       fdtab[vfd[t]] # None /\ \A p \in Ptr : ds[p] # vfd[t]
  /\ \A t \in Thread : pc[t] = "given" => vfd[t] \in files
  /\ \A t, u \in Thread : pc[t] \in Making /\ pc[u] \in Making /\ vfd[t] = vfd[u] => t = u

Calm == prog.calm /\ ~astray => Cleared /\ Current /\ Settled /\ Ownership

\* Without a failing insertion nothing is closed twice.
Unfailing == ~prog.throws => \A t \in Thread : pc[t] # "unwound"

Inv == TypeOK /\ Bounded /\ Pointers /\ Calm /\ Unfailing /\ ClosesAreTheirOwn /\ NoFdLeaks
================================================================================
