------------------------------- MODULE MCCursors -------------------------------
(* The two cursors of the library in one run: the offset of an open file      *)
(* (FilePos), four bytes long with integers of four bits, and the position of *)
(* a directory stream (DirStream) with a short page, the last one not full,   *)
(* beside a directory that is shorter.  The two share no state: a behaviour   *)
(* uses the one or the other.                                                 *)
EXTENDS FilePos, DirStream, TLC
CONSTANTS t1, t2, other

MCOffset == OffMin .. OffMax
MCEndOffset == OffMin + 1 .. OffMax

MCDirSize == [d \in Directory |-> IF d = Own THEN 8 ELSE 4]

CursorsInit == Init /\ StreamInit
CursorsNext == \/ StreamInit /\ Next /\ UNCHANGED streamVars
               \/ Init /\ StreamNext /\ UNCHANGED vars
CursorsSpec == CursorsInit /\ [][CursorsNext]_<<vars, streamVars>>
================================================================================
