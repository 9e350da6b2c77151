-------------------------------- MODULE MCMounts --------------------------------
(* Two threads, two images and numbers of few bits for Mounts.                *)
EXTENDS Mounts, TLC
CONSTANTS t1, t2, app, ext, lib, bin

\* Two names are enough for a mount point and an entry that is none.
Symmetry == Permutations(Thread) \cup Permutations(Image) \cup Permutations(Name)
================================================================================
