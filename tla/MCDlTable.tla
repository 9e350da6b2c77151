------------------------------- MODULE MCDlTable -------------------------------
(* Two threads and two libraries, of two blocks and of one, for DlTable.       *)
EXTENDS DlTable, TLC
CONSTANTS l1, l2

MCLength == (l1 :> 2) @@ (l2 :> 1)

\* Several threads, none of which unlinks a partial copy; one thread at a time
\* whose copies fail, but not in their last block; one thread at a time and
\* insertions that throw.
Together == [alone |-> FALSE, faults |-> {"name", "open", "stat", "create", "insert"}]
FullDisk == [alone |-> TRUE, faults |-> {"name", "open", "stat", "create", "read", "write"}]
NoMemory == [alone |-> TRUE, faults |-> {"name", "open", "stat", "create", "insert"}]
MCProgram == {Together, FullDisk, NoMemory}
================================================================================
