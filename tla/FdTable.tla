-------------------------------- MODULE FdTable --------------------------------
(***************************************************************************)
(* The descriptor table of the image (sync_tebako_fdtable, tebako-fd.cpp   *)
(* and tebako-fd.h), the kernel's descriptor table it takes its numbers    *)
(* from, and the shims of file-io.cpp that send a call to one or the other.*)
(*                                                                         *)
(* A memfs file is addressed by a number that the kernel has reserved for  *)
(* it: open duplicates descriptor 0 and enters the new number into the     *)
(* table; the destructor of the table entry closes the duplicate.  A shim  *)
(* looks the number up in the table and, when it is not there, hands it to *)
(* the kernel.  The two tables are not updated in one step: the actions    *)
(* below are the steps another thread can come between.  Each access to    *)
(* the memfs table is one step, because it holds the lock of the table     *)
(* (folly::Synchronized), destructors of erased entries included.          *)
(***************************************************************************)
EXTENDS Naturals

CONSTANTS
  Thread,      \* threads of the program
  MaxFd,       \* RLIMIT_NOFILE - 1: the bound on descriptor numbers
  File,        \* inodes of the image
  Kind,        \* Kind[f]: "reg", "dir" or "lnk"
  Searchable,  \* directories whose owner has X permission
  HostFile,    \* files of the host
  Std,         \* what descriptor 0 is open on when the program starts
  None,        \* no descriptor, no entry
  Garbage,     \* what an uninitialised `new int' may read as
  ThrowRace    \* may other threads run between the unwinding and the handler of bad_alloc?

Fds == 0 .. MaxFd
HostObj == HostFile \cup {Std}
Kinds == {"reg", "dir", "lnk"}
OpenFlag == {"write", "directory", "nofollow"}

ASSUME MaxFdAssumption == MaxFd \in Nat
ASSUME KindAssumption == /\ Kind \in [File -> Kinds]
                         /\ Searchable \subseteq File
ASSUME ObjAssumption == /\ File \cap HostObj = {}
                        /\ None \notin File \cup HostObj
                        /\ None \notin Fds
ASSUME GarbageAssumption == Garbage \subseteq Fds \cup {None}
ASSUME ThrowRaceAssumption == ThrowRace \in BOOLEAN

VARIABLES
  kernel,  \* kernel[n]: what the kernel has open as n
  table,   \* table[n]: the inode in s_tebako_fdtable[n], None without an entry
  held,    \* held[n]: what the program opened as n and has not closed
  pc,      \* where each thread is
  fd,      \* `ret' of an open or the `vfd' of another call
  obj      \* the object that call is about
vars == <<kernel, table, held, pc, fd, obj>>

Place == {"idle", "stat", "dupd", "nodup", "unwound", "athost", "usehost", "closehost"}
WithFd == {"dupd", "unwound", "athost", "usehost", "closehost"}

TypeOK == /\ kernel \in [Fds -> HostObj \cup {None}]
          /\ table \in [Fds -> File \cup {None}]
          /\ held \in [Fds -> File \cup HostObj \cup {None}]
          /\ pc \in [Thread -> Place]
          /\ fd \in [Thread -> Fds \cup {None}]
          /\ obj \in [Thread -> File \cup HostObj \cup {None}]
          /\ \A t \in Thread : /\ pc[t] \in {"stat", "dupd"} => obj[t] \in File
                               /\ pc[t] \in WithFd => fd[t] \in Fds

Init == /\ kernel = [n \in Fds |-> IF n = 0 THEN Std ELSE None]
        /\ table = [n \in Fds |-> None]
        /\ held = kernel
        /\ pc = [t \in Thread |-> "idle"]
        /\ fd = [t \in Thread |-> None]
        /\ obj = [t \in Thread |-> None]

FreeFds == {n \in Fds : kernel[n] = None}

\* The kernel hands out the lowest number that is not in use.
Lowest(n) == n \in FreeFds /\ \A m \in FreeFds : n <= m

Goto(t, place, n, o) == /\ pc' = [pc EXCEPT ![t] = place]
                        /\ fd' = [fd EXCEPT ![t] = n]
                        /\ obj' = [obj EXCEPT ![t] = o]

Return(t) == Goto(t, "idle", None, None)


\* The verdict of the switch in open and openat on the inode f that the stat
\* of the path found, None when it found nothing.
Verdict(f, flags) ==
  IF "write" \in flags THEN "EROFS"
  ELSE IF f = None THEN "ENOENT"
  ELSE IF Kind[f] # "dir" /\ "directory" \in flags THEN "ENOTDIR"
  ELSE IF Kind[f] = "lnk" /\ "nofollow" \in flags THEN "ELOOP"
  ELSE "0"

\* A stat that follows links never returns one.
Statable(f, flags) == f # None /\ Kind[f] = "lnk" => "nofollow" \in flags

\* tebako_open of a path inside the image.  An open that is refused (the other
\* verdicts) returns its errno and changes nothing: it is a stuttering step.
Open(t, f, flags) ==
  /\ pc[t] = "idle"
  /\ Statable(f, flags) /\ Verdict(f, flags) = "0"
  /\ Goto(t, "stat", None, f)
  /\ UNCHANGED <<kernel, table, held>>

\* tebako_openat with a descriptor that is in the table: its stat is copied
\* under the lock, the rest of the look-up works on the copy (ENOTDIR, EACCES
\* and the verdicts of open refuse it).
OpenAt(t, v, f, flags) ==
  /\ pc[t] = "idle"
  /\ held[v] # None /\ table[v] # None
  /\ Kind[table[v]] = "dir" /\ table[v] \in Searchable
  /\ Statable(f, flags) /\ Verdict(f, flags) = "0"
  /\ Goto(t, "stat", None, f)
  /\ UNCHANGED <<kernel, table, held>>

\* ret = ::dup(0)
Dup(t) ==
  /\ pc[t] = "stat"
  /\ kernel[0] # None
  /\ \E n \in Fds : /\ Lowest(n)
                    /\ kernel' = [kernel EXCEPT ![n] = kernel[0]]
                    /\ Goto(t, "dupd", n, obj[t])
  /\ UNCHANGED <<table, held>>

\* ::dup(0) fails: no descriptor is left, or descriptor 0 is closed.
DupFails(t) ==
  /\ pc[t] = "stat"
  /\ kernel[0] = None \/ FreeFds = {}
  /\ Goto(t, "nodup", None, obj[t])
  /\ UNCHANGED <<kernel, table, held>>

\* Mutant: the handle is zero-initialised.
DropHandle_Zero(t, g) ==
  /\ pc[t] = "nodup"
  /\ kernel' = [kernel EXCEPT ![0] = None]
  /\ Return(t)
  /\ UNCHANGED <<table, held>>

\* The entry of a failed open dies with a handle that was allocated and never
\* assigned: its destructor closes whatever number the allocation contained.
DropHandle(t, g) ==
  /\ pc[t] = "nodup"
  /\ kernel' = [n \in Fds |-> IF n = g THEN None ELSE kernel[n]]
  /\ Return(t)
  /\ UNCHANGED <<table, held>>

\* Mutant: the dummy is given back once the entry exists.
Insert_ClosesDummy(t) ==
  /\ pc[t] = "dupd"
  /\ table' = [table EXCEPT ![fd[t]] = obj[t]]
  /\ kernel' = [kernel EXCEPT ![fd[t]] = None]
  /\ held' = [held EXCEPT ![fd[t]] = obj[t]]
  /\ Return(t)

\* (*s_tebako_fdtable.wlock())[ret] = std::move(fd).  An entry that was there
\* is destroyed by the assignment and closes its handle, which is ret.
Insert(t) ==
  /\ pc[t] = "dupd"
  /\ table' = [table EXCEPT ![fd[t]] = obj[t]]
  /\ kernel' = IF table[fd[t]] # None THEN [kernel EXCEPT ![fd[t]] = None] ELSE kernel
  /\ held' = [held EXCEPT ![fd[t]] = obj[t]]
  /\ Return(t)

\* The map node cannot be allocated: unwinding destroys fd, which closes ret ...
InsertThrows(t) ==
  /\ pc[t] = "dupd"
  /\ table[fd[t]] = None
  /\ kernel' = [kernel EXCEPT ![fd[t]] = None]
  /\ Goto(t, "unwound", fd[t], obj[t])
  /\ UNCHANGED <<table, held>>

\* ... and the handler of bad_alloc closes ret once more.
CatchBadAlloc(t) ==
  /\ pc[t] = "unwound"
  /\ kernel' = [kernel EXCEPT ![fd[t]] = None]
  /\ Return(t)
  /\ UNCHANGED <<table, held>>

\* tebako_open of a path outside the image, or of a link that leaves it.
OpenHost(t, h) ==
  /\ pc[t] = "idle"
  /\ \E n \in Fds : /\ Lowest(n)
                    /\ kernel' = [kernel EXCEPT ![n] = h]
                    /\ held' = [held EXCEPT ![n] = h]
  /\ Return(t)
  /\ UNCHANGED table

\* A call on a number that the program holds and the table does not know: a
\* read, a seek, a stat ("usehost") or an openat ("athost") of the host.
MissTable(t, v, place) ==
  /\ pc[t] = "idle"
  /\ held[v] # None /\ table[v] = None
  /\ Goto(t, place, v, held[v])
  /\ UNCHANGED <<kernel, table, held>>

\* is_valid_system_file_descriptor, then the system call (an openat that the
\* host refuses included).
UseHost(t) ==
  /\ pc[t] \in {"usehost", "athost"}
  /\ Return(t)
  /\ UNCHANGED <<kernel, table, held>>

\* openat of the host, relative to a descriptor of the host.
OpenAtHost(t, h) ==
  /\ pc[t] = "athost"
  /\ kernel[fd[t]] # None
  /\ \E n \in Fds : /\ Lowest(n)
                    /\ kernel' = [kernel EXCEPT ![n] = h]
                    /\ held' = [held EXCEPT ![n] = h]
  /\ Return(t)
  /\ UNCHANGED table

\* Nobody else is in a system call on v: a program that closes a descriptor
\* another of its threads is using gets what it asks for, with or without memfs.
Unused(v) == \A u \in Thread : pc[u] \in {"usehost", "athost"} => fd[u] # v

\* Mutants: tebako_close goes on to close the number in the kernel; the
\* destructor of the entry does not close the handle.
CloseMemfs_FallsThrough(t, v) ==
  /\ pc[t] = "idle"
  /\ held[v] # None /\ Unused(v)
  /\ table[v] # None
  /\ table' = [table EXCEPT ![v] = None]
  /\ kernel' = [kernel EXCEPT ![v] = None]
  /\ held' = [held EXCEPT ![v] = None]
  /\ Goto(t, "closehost", v, held[v])

CloseMemfs_KeepsDummy(t, v) ==
  /\ pc[t] = "idle"
  /\ held[v] # None /\ Unused(v)
  /\ table[v] # None
  /\ table' = [table EXCEPT ![v] = None]
  /\ held' = [held EXCEPT ![v] = None]
  /\ Return(t)
  /\ UNCHANGED kernel

\* tebako_close of a memfs descriptor: erase runs the destructor, which closes
\* the dummy, before the lock of the table is released.
CloseMemfs(t, v) ==
  /\ pc[t] = "idle"
  /\ held[v] # None /\ Unused(v)
  /\ table[v] # None
  /\ table' = [table EXCEPT ![v] = None]
  /\ kernel' = [kernel EXCEPT ![v] = None]
  /\ held' = [held EXCEPT ![v] = None]
  /\ Return(t)

\* tebako_close of any other descriptor: the table has no entry ...
CloseMiss(t, v) ==
  /\ Unused(v)
  /\ pc[t] = "idle"
  /\ held[v] # None /\ table[v] = None
  /\ held' = [held EXCEPT ![v] = None]
  /\ Goto(t, "closehost", v, held[v])
  /\ UNCHANGED <<kernel, table>>

\* ... is_valid_system_file_descriptor, and ::close.
CloseHost(t) ==
  /\ pc[t] = "closehost"
  /\ kernel' = [kernel EXCEPT ![fd[t]] = None]
  /\ Return(t)
  /\ UNCHANGED <<table, held>>

\* Mutant: the dummies are closed and the entries stay.
CloseAll_KeepsEntries ==
  /\ kernel' = [n \in Fds |-> IF table[n] # None THEN None ELSE kernel[n]]
  /\ held' = [n \in Fds |-> IF table[n] # None THEN None ELSE held[n]]
  /\ UNCHANGED <<table, pc, fd, obj>>

\* release_memfs_resources: the whole table is cleared, every dummy closed.
CloseAll ==
  /\ table' = [n \in Fds |-> None]
  /\ kernel' = [n \in Fds |-> IF table[n] # None THEN None ELSE kernel[n]]
  /\ held' = [n \in Fds |-> IF table[n] # None THEN None ELSE held[n]]
  /\ UNCHANGED <<pc, fd, obj>>

Step(t) ==
  \/ \E f \in File \cup {None}, flags \in SUBSET OpenFlag : Open(t, f, flags)
  \/ \E v \in Fds, f \in File \cup {None}, flags \in SUBSET OpenFlag : OpenAt(t, v, f, flags)
  \/ Dup(t) \/ DupFails(t) \/ (\E g \in Garbage : DropHandle(t, g))
  \/ Insert(t) \/ InsertThrows(t) \/ CatchBadAlloc(t)
  \/ \E h \in HostFile : OpenHost(t, h) \/ OpenAtHost(t, h)
  \/ UseHost(t)
  \/ \E v \in Fds : \/ \E place \in {"usehost", "athost"} : MissTable(t, v, place)
                    \/ CloseMemfs(t, v) \/ CloseMiss(t, v)
  \/ CloseHost(t)

\* Without ThrowRace a thread that unwinds reaches its handler undisturbed.
Turn(t) == ~ThrowRace => \A u \in Thread : pc[u] = "unwound" => u = t

Next == (\E t \in Thread : Turn(t) /\ Step(t)) \/ CloseAll

Spec == Init /\ [][Next]_vars
--------------------------------------------------------------------------------
(* Properties.                                                               *)

Owning == {"dupd", "closehost"}  \* places where a thread owns a number nobody holds

\* What the program opened and has not closed is what the shims find under its
\* number: a memfs file is mapped to its tebako_fd and its number stays reserved
\* in the kernel, a host file is not shadowed by an entry of the table.
HeldRoutes ==
  \A n \in Fds : /\ held[n] \in File => table[n] = held[n] /\ kernel[n] # None
                 /\ held[n] \notin File => table[n] = None
                 /\ held[n] \in HostObj => kernel[n] = held[n]

\* The two look-ups of a shim (table, then kernel) are not one step; the number
\* still denotes what the caller meant when the system call is made.
HostCallsRoute ==
  \A t \in Thread : pc[t] \in {"usehost", "athost", "closehost"} =>
                      table[fd[t]] = None /\ kernel[fd[t]] = obj[t]

\* No path out of open, openat or close_all, failed ones included, leaves a
\* number open in the kernel that nobody can name any more.
NoDescriptorLeaks ==
  \A n \in Fds : kernel[n] # None =>
     held[n] # None \/ \E t \in Thread : pc[t] \in Owning /\ fd[t] = n

\* A call never returns a number that the program already holds.
FreshNumbers ==
  [][\A n \in Fds : held[n] # None /\ held'[n] # None => held'[n] = held[n]]_vars

\* Each opened file is mapped to a tebako_fd structure (tebako-fd.h:60), and
\* stays mapped to it until the program closes the file.
OpenedFilesStayMapped ==
  [][\A n \in Fds : held[n] \in File /\ held'[n] # None => table'[n] = held[n]]_vars

\* To the program the two tables are one: a number reserved by an open that
\* has not returned denotes nothing yet.
Reserved == {fd[t] : t \in {u \in Thread : pc[u] = "dupd"}}
Denotes == [n \in Fds |-> IF table[n] # None THEN table[n]
                           ELSE IF n \in Reserved THEN None ELSE kernel[n]]
D == INSTANCE Descriptors WITH
       Memfs <- File, Host <- HostObj, open <- Denotes,
       closing <- {fd[t] : t \in {u \in Thread : pc[u] = "closehost"}}

\* The table and the kernel together implement one descriptor namespace.
OneNamespace == D!Spec
--------------------------------------------------------------------------------
(* The inductive invariant behind the properties.                            *)

\* What the heap must not do: an allocation that was never assigned does not
\* read as an open descriptor, and no number is closed twice while others race.
Heap == Garbage \cap Fds = {} /\ ~ThrowRace

\* A number taken from the kernel and not yet, or no longer, the program's is
\* open and belongs to one thread.
OwnedNumbers ==
  /\ \A t \in Thread : pc[t] \in Owning => kernel[fd[t]] # None /\ held[fd[t]] = None
  /\ \A t, u \in Thread : pc[t] \in Owning /\ pc[u] \in Owning /\ t # u => fd[t] # fd[u]

\* A system call in progress is about a number that is pinned.
PinnedNumbers ==
  \A t \in Thread :
     /\ pc[t] = "closehost" => kernel[fd[t]] = obj[t] /\ obj[t] \in HostObj
     /\ pc[t] \in {"usehost", "athost"} => held[fd[t]] = obj[t] /\ obj[t] \in HostObj

\* The number of a failed insert is free when the handler closes it again.
UnwoundNumbers == \A t \in Thread : pc[t] = "unwound" => kernel[fd[t]] = None

Inv == TypeOK /\ HeldRoutes /\ OwnedNumbers /\ PinnedNumbers /\ UnwoundNumbers
================================================================================
