------------------------------- MODULE FileOffset -------------------------------
(***************************************************************************)
(* What an open file promises about its offset: a read gives the bytes     *)
(* from the offset on and moves the offset past them, whatever the number  *)
(* of buffers they go to; a seek moves it to where it asks for, or, when   *)
(* that is no file offset, fails and leaves it; a pread does not touch it. *)
(***************************************************************************)
EXTENDS Integers
CONSTANTS Size,    \* bytes 0 .. Size-1
          OffMax   \* the largest file offset
VARIABLES pos,   \* the offset
          data,  \* the bytes the last call delivered
          ret    \* what the last call returned
vars == <<pos, data, ret>>

Init == pos = 0 /\ data = {} /\ ret = 0

\* The next n bytes.
Read(n) == /\ data' = pos .. pos + n - 1
           /\ n > 0 => pos + n <= Size
           /\ ret' = n
           /\ pos' = pos + n

\* A read that fails may have moved the offset over what it read before.
ReadFails == /\ data' = {}
             /\ ret' = -1
             /\ pos' \in {pos} \cup (pos .. Size)

PRead(from, n) == /\ n > 0 => from + n <= Size
                  /\ data' = from .. from + n - 1
                  /\ ret' = n
                  /\ UNCHANGED pos

Seek(base, offset) == /\ base + offset \in 0 .. OffMax
                      /\ pos' = base + offset
                      /\ ret' = base + offset
                      /\ data' = {}

SeekFails(base, offset) == /\ base + offset \notin 0 .. OffMax
                           /\ ret' = -1
                           /\ data' = {}
                           /\ UNCHANGED pos

Refused == ret' = -1 /\ data' = {} /\ UNCHANGED pos

Next == \/ \E n \in 0 .. Size : Read(n)
        \/ ReadFails
        \/ \E from \in 0 .. OffMax, n \in 0 .. Size : PRead(from, n)
        \/ \E base \in {0, pos, Size}, offset \in -(OffMax + 1) .. OffMax :
              Seek(base, offset) \/ SeekFails(base, offset)
        \/ Refused

Spec == Init /\ [][Next]_vars
================================================================================
