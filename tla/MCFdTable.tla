------------------------------ MODULE MCFdTable ------------------------------
(* A small image and a small process for FdTable.                            *)
EXTENDS FdTable, TLC
CONSTANTS t1, t2, dir, vault, reg, lnk, host

MCFile == {dir, vault, reg, lnk}
MCKind == dir :> "dir" @@ vault :> "dir" @@ reg :> "reg" @@ lnk :> "lnk"
MCSmallFile == {dir, reg}
MCSmallKind == dir :> "dir" @@ reg :> "reg"
MCHostFile == {host}
MCSearchable == {dir}

ThreadSymmetry == Permutations(Thread)

NoGarbage == {None}          \* the heap never reads as an open descriptor
AnyGarbage == Fds \cup {None}
================================================================================
