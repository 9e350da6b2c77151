------------------------------ MODULE MCDirTables ------------------------------
(* A small heap, few descriptors and two programs for DirTables: three threads *)
(* that open nothing while the image is released, and two that release it at   *)
(* any moment and may run out of memory.                                       *)
EXTENDS DirTables, TLC
CONSTANTS t1, t2, t3, p1, p2, p3, p4, p5, v1, v2, v3

Orderly == [threads |-> {t1, t2, t3}, calm |-> TRUE, throws |-> FALSE]
Reckless == [threads |-> {t1, t2}, calm |-> FALSE, throws |-> TRUE]
MCProgram == {Orderly, Reckless}
PtrSymmetry == {f @@ g : f \in Permutations(Ptr), g \in Permutations(Vfd)}
================================================================================
