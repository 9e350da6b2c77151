-------------------------------- MODULE DlTable --------------------------------
(***************************************************************************)
(* Libraries of the image as files the system can load: map2file of        *)
(* sync_tebako_dltable (dl-ctl.cpp), its destructor and the error that     *)
(* tebako_dlerror reports.                                                 *)
(*                                                                         *)
(* map2file takes the pointer to its table out of the lock, and the lock   *)
(* is released at the end of that statement: threads look up, extract and  *)
(* enter libraries at the same time, in the same file of the same          *)
(* directory.  The file is opened without O_TRUNC and O_EXCL.              *)
(***************************************************************************)
EXTENDS Naturals, FiniteSets

CONSTANTS
  Thread,
  Lib,      \* libraries of the image, by their paths
  Length,   \* their lengths in blocks of the copy loop
  File,     \* files of the host (inodes) that the temporary directory may name
  None,
  Program   \* the kinds of program that use the table (see Programs)

\* What may fail: making the directory; opening or examining the library in the
\* image; creating the file; reading; writing a block before the last one, or
\* the last one; entering the name of the file in the table.
Fault == {"name", "open", "stat", "create", "read", "write", "last", "insert"}

\* A program calls from several threads, or from one at a time; some of the
\* faults happen to it.
Programs == [alone : BOOLEAN, faults : SUBSET Fault]

Errors == {"ENOENT", "EIO", "ENOMEM"} \X Lib

ASSUME LengthAssumption == Length \in [Lib -> Nat]
ASSUME ProgramAssumption == Program \subseteq Programs
ASSUME NoneAssumption == None \notin File \cup Lib \cup Errors

VARIABLES
  prog,    \* the program that runs
  up,      \* the table has not been destroyed
  table,   \* the libraries in *p_dltable
  dir,     \* dir[lib]: the file its name leads to in dl_tmpdir, or None
  blocks,  \* blocks[f]: how many blocks of the library are in file f
  stash,   \* tebako_dlerror_stash
  due,     \* has a call failed since the last dlerror?
  given,   \* libraries for which the program was given a name
  pc, call \* per thread: place, and library, blocks left and file of the call
vars == <<prog, up, table, dir, blocks, stash, due, given, pc, call>>

Place == {"idle", "name", "open", "stat", "create", "copy", "unlink", "insert"}
Writing == {"copy", "unlink", "insert"}
Call == [lib : Lib \cup {None}, left : Nat, out : File \cup {None}]
NoCall == [lib |-> None, left |-> 0, out |-> None]

TypeOK == /\ prog \in Program
          /\ up \in BOOLEAN
          /\ table \subseteq Lib
          /\ dir \in [Lib -> File \cup {None}]
          /\ blocks \in [File -> Nat]
          /\ stash \in Errors \cup {None}
          /\ due \in BOOLEAN
          /\ given \subseteq Lib
          /\ pc \in [Thread -> Place]
          /\ call \in [Thread -> Call]
          /\ \A t \in Thread : /\ pc[t] # "idle" => call[t].lib \in Lib
                               /\ pc[t] \in Writing => /\ call[t].out \in File
                                                       /\ call[t].left <= Length[call[t].lib]

Init == /\ prog \in Program
        /\ up = TRUE
        /\ table = {}
        /\ dir = [l \in Lib |-> None]
        /\ blocks = [f \in File |-> 0]
        /\ stash = None
        /\ due = FALSE
        /\ given = {}
        /\ pc = [t \in Thread |-> "idle"]
        /\ call = [t \in Thread |-> NoCall]

\* ---- the ends of a call -----------------------------------------------------

Goto(t, place, c) == /\ pc' = [pc EXCEPT ![t] = place]
                     /\ call' = [call EXCEPT ![t] = c]

\* The name of the file is returned.
Deliver(t, lib) == /\ given' = given \cup {lib}
                   /\ Goto(t, "idle", NoCall)

\* An empty name is returned, and the error stashed.
Fail(t, err) == /\ stash' = <<err, call[t].lib>>
                /\ due' = TRUE
                /\ Goto(t, "idle", NoCall)
                /\ UNCHANGED <<prog, up, table, blocks, given>>

May(fault) == fault \in prog.faults

\* ---- looking a library up ---------------------------------------------------

\* Another thread is changing the map.
Torn(t) == \E u \in Thread \ {t} : pc[u] = "insert"

Begins(t) == /\ up
             /\ pc[t] = "idle"
             /\ prog.alone => \A u \in Thread : pc[u] = "idle"

FindHit(t, lib) == /\ Begins(t)
                   /\ lib \in table
                   /\ Deliver(t, lib)
                   /\ UNCHANGED <<prog, up, table, dir, blocks, stash, due>>

\* A map that is being changed may hide what is in it.
FindMiss(t, lib) == /\ Begins(t)
                    /\ lib \notin table \/ Torn(t)
                    /\ Goto(t, "name", [NoCall EXCEPT !.lib = lib])
                    /\ UNCHANGED <<prog, up, table, dir, blocks, stash, due, given>>

\* operator[] enters the library before its name is assigned: the look-up of
\* another thread may find it with an empty name.
FindEmpty(t, lib) == /\ Begins(t)
                     /\ \E u \in Thread : pc[u] = "insert" /\ call[u].lib = lib
                     /\ due' = TRUE
                     /\ UNCHANGED <<prog, up, table, dir, blocks, stash, given, pc, call>>

\* ---- before the file is open ------------------------------------------------

MapName(t) == /\ pc[t] = "name"
              /\ Goto(t, "open", call[t])
              /\ UNCHANGED <<prog, up, table, dir, blocks, stash, due, given>>

\* create_directories throws.
MapNameThrows(t) == /\ pc[t] = "name" /\ May("name")
                    /\ Fail(t, "ENOMEM")
                    /\ UNCHANGED dir

OpenLib(t) == /\ pc[t] = "open"
              /\ Goto(t, "stat", call[t])
              /\ UNCHANGED <<prog, up, table, dir, blocks, stash, due, given>>

OpenLibFails(t) == /\ pc[t] = "open" /\ May("open")
                   /\ Fail(t, "ENOENT")
                   /\ UNCHANGED dir

\* Mutant: the error is not stashed.
StatFails_Silent(t) == /\ pc[t] = "stat" /\ May("stat")
                       /\ due' = TRUE
                       /\ Goto(t, "idle", NoCall)
                       /\ UNCHANGED <<prog, up, table, dir, blocks, stash, given>>

StatLib(t) == /\ pc[t] = "stat"
              /\ Goto(t, "create", [call[t] EXCEPT !.left = Length[call[t].lib]])
              /\ UNCHANGED <<prog, up, table, dir, blocks, stash, due, given>>

StatFails(t) == /\ pc[t] = "stat" /\ May("stat")
                /\ Fail(t, "EIO")
                /\ UNCHANGED dir

\* Files that neither the directory nor a descriptor refers to.
FreeFiles == {f \in File : /\ \A l \in Lib : dir[l] # f
                           /\ \A u \in Thread : call[u].out # f}

\* Mutant: an old file is replaced, as O_EXCL after an unlink would do it.
CreateFile_Anew(t) ==
  /\ pc[t] = "create"
  /\ \E f \in FreeFiles : /\ dir' = [dir EXCEPT ![call[t].lib] = f]
                          /\ blocks' = [blocks EXCEPT ![f] = 0]
                          /\ Goto(t, "copy", [call[t] EXCEPT !.out = f])
  /\ UNCHANGED <<prog, up, table, stash, due, given>>

\* O_WRONLY | O_CREAT: the file that is there, as it is, or a new one.
CreateFile(t) ==
  LET lib == call[t].lib IN
  /\ pc[t] = "create"
  /\ \/ /\ dir[lib] # None
        /\ Goto(t, "copy", [call[t] EXCEPT !.out = dir[lib]])
        /\ UNCHANGED <<dir, blocks>>
     \/ /\ dir[lib] = None
        /\ \E f \in FreeFiles : /\ dir' = [dir EXCEPT ![lib] = f]
                                /\ blocks' = [blocks EXCEPT ![f] = 0]
                                /\ Goto(t, "copy", [call[t] EXCEPT !.out = f])
  /\ UNCHANGED <<prog, up, table, stash, due, given>>

CreateFails(t) == /\ pc[t] = "create" /\ May("create")
                  /\ Fail(t, "EIO")
                  /\ UNCHANGED dir

\* ---- the copy ---------------------------------------------------------------

\* How many blocks the copy has counted.
Done(t) == Length[call[t].lib] - call[t].left

CopyBlock(t) ==
  /\ pc[t] = "copy" /\ call[t].left > 0
  /\ blocks' = [blocks EXCEPT ![call[t].out] = IF @ > Done(t) THEN @ ELSE Done(t) + 1]
  /\ Goto(t, "copy", [call[t] EXCEPT !.left = @ - 1])
  /\ UNCHANGED <<prog, up, table, dir, stash, due, given>>

\* Mutant: a failed read starts the copy again.
CopyReadFails_Retries(t) ==
  /\ pc[t] = "copy" /\ call[t].left > 0 /\ May("read")
  /\ Goto(t, "copy", [call[t] EXCEPT !.left = Length[call[t].lib]])
  /\ UNCHANGED <<prog, up, table, dir, blocks, stash, due, given>>

\* The read fails or ends early: the count says so.
CopyReadFails(t) == /\ pc[t] = "copy" /\ call[t].left > 0 /\ May("read")
                    /\ Goto(t, "unlink", call[t])
                    /\ UNCHANGED <<prog, up, table, dir, blocks, stash, due, given>>

\* The write is short or fails.  The block is counted already: when it was the
\* last one, the copy passes for complete.
CopyWriteFails(t) ==
  /\ pc[t] = "copy" /\ call[t].left > 0
  /\ IF call[t].left = 1 THEN May("last") ELSE May("write")
  /\ Goto(t, IF call[t].left = 1 THEN "insert" ELSE "unlink", [call[t] EXCEPT !.left = @ - 1])
  /\ UNCHANGED <<prog, up, table, dir, blocks, stash, due, given>>

\* Mutant: a library whose file exists is not copied again.
CopyEnds_Early(t) == /\ pc[t] = "copy" /\ (call[t].left = 0 \/ blocks[call[t].out] > 0)
                     /\ Goto(t, "insert", call[t])
                     /\ UNCHANGED <<prog, up, table, dir, blocks, stash, due, given>>

CopyEnds(t) == /\ pc[t] = "copy" /\ call[t].left = 0
               /\ Goto(t, "insert", call[t])
               /\ UNCHANGED <<prog, up, table, dir, blocks, stash, due, given>>

\* Mutant: the partial file stays.
Unlink_Keeps(t) == /\ pc[t] = "unlink"
                   /\ Fail(t, "EIO")
                   /\ UNCHANGED dir

\* The name goes, whichever file it leads to by now.
Unlink(t) == /\ pc[t] = "unlink"
             /\ dir' = [dir EXCEPT ![call[t].lib] = None]
             /\ Fail(t, "EIO")

\* ---- entering the library ---------------------------------------------------

\* Two threads that change the map at the same time may undo each other's work.
Insert(t) == /\ pc[t] = "insert"
             /\ \E kept \in SUBSET (table \cup {call[t].lib}) :
                  /\ Torn(t) \/ kept = table \cup {call[t].lib}
                  /\ table' = kept
             /\ Deliver(t, call[t].lib)
             /\ UNCHANGED <<prog, up, dir, blocks, stash, due>>

\* bad_alloc: the name was assigned to the result before, and is returned; the
\* two descriptors stay open.
InsertThrows(t) == /\ pc[t] = "insert" /\ May("insert")
                   /\ stash' = <<"ENOMEM", call[t].lib>>
                   /\ Deliver(t, call[t].lib)
                   /\ UNCHANGED <<prog, up, table, dir, blocks, due>>

\* ---- tebako_dlerror and the destructor --------------------------------------

Dlerror == /\ stash # None \/ due
           /\ stash' = None
           /\ due' = FALSE
           /\ UNCHANGED <<prog, up, table, dir, blocks, given, pc, call>>

\* The program ends: the files of the table are unlinked one by one, and then the
\* directory is removed, or is not.
Destroy == /\ up /\ \A t \in Thread : pc[t] = "idle"
           /\ up' = FALSE
           /\ table' = {}
           /\ \/ dir' = [l \in Lib |-> None]
              \/ dir' = [l \in Lib |-> IF l \in table THEN None ELSE dir[l]]
           /\ UNCHANGED <<prog, blocks, stash, due, given, pc, call>>

\* What map2file does after it has not found the library.
Step(t) ==
  \/ MapName(t) \/ MapNameThrows(t)
  \/ OpenLib(t) \/ OpenLibFails(t)
  \/ StatLib(t) \/ StatFails(t)
  \/ CreateFile(t) \/ CreateFails(t)
  \/ CopyBlock(t) \/ CopyReadFails(t) \/ CopyWriteFails(t) \/ CopyEnds(t)
  \/ Unlink(t) \/ Insert(t) \/ InsertThrows(t)

Find(t) == \E lib \in Lib : FindHit(t, lib) \/ FindMiss(t, lib) \/ FindEmpty(t, lib)

Next == \/ \E t \in Thread : Find(t) \/ Step(t)
        \/ Dlerror
        \/ Destroy

\* The scheduler runs every thread that is in a call.
Spec == Init /\ [][Next]_vars /\ \A t \in Thread : WF_vars(Step(t))

--------------------------------------------------------------------------------
(* Properties.                                                               *)

Whole(lib) == dir[lib] # None /\ blocks[dir[lib]] = Length[lib]

\* The name of a file that map2file returned, now or before, leads to a file with
\* the whole library, as long as the table lives, whatever fails and whoever else
\* extracts it in the programs of the run.
LoadedLibrariesAreWhole == up => \A lib \in given \cup table : Whole(lib)

\* A call that returns no name leaves an error for dlerror, which is there until
\* somebody asks (tests-dl-ctl.cpp:78-88 and :219-229 compare its text).  This is
\* a promise to one thread: FindEmpty breaks it for several.
FailuresAreExplained == prog.alone => (due => stash # None)

\* What lies in the temporary directory between calls is in the table, so that the
\* destructor unlinks it even if it cannot remove the directory: a copy that failed
\* leaves nothing behind.  (An insertion that throws does.)
NoStrayFiles == prog.alone /\ ~May("insert") /\ (\A t \in Thread : pc[t] = "idle") =>
                  \A lib \in Lib : dir[lib] # None => lib \in table

\* A copy goes to the file that its name leads to, while other threads copy the
\* same library: the file a thread has made whole is the one it returns.
CopiesGoToTheName ==
  \A t \in Thread : pc[t] \in Writing => dir[call[t].lib] = call[t].out

\* Every call returns, whatever the other threads extract.
CallsReturn == \A t \in Thread : pc[t] # "idle" ~> pc[t] = "idle"
================================================================================
