------------------------------ MODULE Descriptors ------------------------------
(***************************************************************************)
(* What the shims of file-io.cpp promise to a program that calls           *)
(* tebako_open, tebako_openat and tebako_close where it would have called  *)
(* open, openat and close: ONE descriptor namespace, shared by the files   *)
(* of the memory image and the files of the host.  A number denotes one    *)
(* object from the open that returned it until the close of that number,   *)
(* whoever else opens, closes or fails in the meantime.                    *)
(***************************************************************************)
CONSTANTS Fds,     \* descriptor numbers
          Memfs,   \* files and directories of the image
          Host,    \* objects the kernel serves
          None     \* "closed"

VARIABLES open,    \* what each number denotes
          closing  \* host descriptors a close call has been made for
vars == <<open, closing>>

TypeOK == /\ open \in [Fds -> Memfs \cup Host \cup {None}]
          /\ closing \subseteq Fds

\* A process starts with a few host descriptors and no memfs file.
Init == /\ open \in [Fds -> Host \cup {None}]
        /\ closing = {}

\* An open binds a number that denoted nothing.
Open(n, o) == /\ open[n] = None
              /\ open' = [open EXCEPT ![n] = o]
              /\ UNCHANGED closing

\* A memfs descriptor is closed in one step, under the lock of its table.
CloseMemfs(n) == /\ open[n] \in Memfs
                 /\ open' = [open EXCEPT ![n] = None]
                 /\ UNCHANGED closing

\* A host descriptor is closed by a later system call of the same thread.
CallClose(n) == /\ open[n] \in Host
                /\ closing' = closing \cup {n}
                /\ UNCHANGED open

CloseHost(n) == /\ n \in closing
                /\ open' = [open EXCEPT ![n] = None]
                /\ closing' = closing \ {n}

\* Releasing the image closes every memfs descriptor and nothing else.
Release == /\ open' = [n \in Fds |-> IF open[n] \in Memfs THEN None ELSE open[n]]
           /\ UNCHANGED closing

Next == \/ \E n \in Fds, o \in Memfs \cup Host : Open(n, o)
        \/ \E n \in Fds : CloseMemfs(n) \/ CallClose(n) \/ CloseHost(n)
        \/ Release

Spec == Init /\ [][Next]_vars
================================================================================
