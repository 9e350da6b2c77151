--------------------------------- MODULE Mounts ---------------------------------
(***************************************************************************)
(* The images of the program: the table of the memfs objects               *)
(* (tebako-memfs-table.cpp), the table of the mount points                 *)
(* (tebako-mount-table.cpp), the calls that mount and unmount              *)
(* (tebako-io-root.cpp) and the walk along a path that crosses from one    *)
(* image into another (memfs::find_inode, tebako-memfs.cpp).               *)
(*                                                                         *)
(* An inode number carries the index of its image in its top fsBits bits:  *)
(* Images is 2^fsBits and Block is 2^(inoBits - fsBits).  fsBits is 1, and *)
(* insert_auto gives out indices up to 7: an index need not fit.  Numbers  *)
(* are uint32_t, a bit pattern of inoBits.  Each table has its own lock;   *)
(* mounting takes it for each access, and the load of the image comes in   *)
(* between.                                                                *)
(***************************************************************************)
EXTENDS Integers, FiniteSets

CONSTANTS
  Thread,
  Image,     \* contents of an image
  Name,      \* names of directory entries
  None,
  MaxIndex,  \* the largest index of insert_auto
  Images,    \* what fsBits bits can tell apart
  Block,     \* inodes an image may have
  MaxKnown,  \* bound on the inodes the program has open at a time
  MaxMount   \* bound on the mount points

ASSUME IndexAssumption == MaxIndex \in Nat \ {0}
ASSUME NumberAssumption == Images \in Nat \ {0} /\ Block \in Nat \ {0}
Index == 0 .. MaxIndex
Node == 0 .. Block - 1            \* the inodes of an image as dwarfs counts them
Ino == 0 .. Images * Block - 1    \* uint32_t

Fs == [img : Image, up : BOOLEAN]
Point == Ino \X Name
Mount == [point : Point, to : Index, img : Image]
Location == [index : Index, img : Image, node : Node]
Mounting == [index : Index, img : Image, point : Point]

ASSUME NoneAssumption == None \notin Fs \cup Location \cup Mounting

VARIABLES
  memfs,   \* memfs[i]: the image with index i, and whether it is loaded; None
  mounts,  \* mount points with the index they lead to, and the image mounted there
  known,   \* inodes the program has open, and what each of them is
  full,    \* did insert_auto find no index since the tables were emptied?
  pc,      \* where each thread is
  at,      \* the inode a walk has reached
  seen,    \* the copy of the mount table a walk uses
  mnt      \* the image a thread is mounting
vars == <<memfs, mounts, known, full, pc, at, seen, mnt>>

TypeOK == /\ memfs \in [Index -> Fs \cup {None}]
          /\ mounts \in SUBSET Mount
          /\ known \in SUBSET [ino : Ino, img : Image, node : Node]
          /\ full \in BOOLEAN
          /\ pc \in [Thread -> {"idle", "walk", "load", "publish"}]
          /\ at \in [Thread -> Location \cup {None}]
          /\ seen \in [Thread -> SUBSET Mount]
          /\ mnt \in [Thread -> Mounting \cup {None}]
          /\ \A t \in Thread : /\ pc[t] = "walk" => at[t] # None
                               /\ pc[t] \in {"load", "publish"} => mnt[t] # None

Init == /\ memfs = [i \in Index |-> None]
        /\ mounts = {}
        /\ known = {}
        /\ full = FALSE
        /\ pc = [t \in Thread |-> "idle"]
        /\ at = [t \in Thread |-> None]
        /\ seen = [t \in Thread |-> {}]
        /\ mnt = [t \in Thread |-> None]

\* fsInoFromFsAndIno(index, 0), stored in a uint32_t; getFsIndex.
RootInode(index) == (index * Block) % (Images * Block)
FsIndex(ino) == (ino \div Block) % Images

\* inode_num() + get_root_inode(), and how the image of an index reads a number.
Number(index, node) == (RootInode(index) + node) % (Images * Block)
NodeOf(index, ino) == ino - RootInode(index)

Goto(t, place) == pc' = [pc EXCEPT ![t] = place]

--------------------------------------------------------------------------------
(* Mounting an image in a directory: mount_memfs, load_memfs.                *)

\* Mutant: an index is free until its image is loaded.
FreeIndices_Unloaded == {i \in 1 .. MaxIndex : memfs[i] = None \/ ~memfs[i].up}

FreeIndices == {i \in 1 .. MaxIndex : memfs[i] = None}

\* insert_auto: the smallest free index, and the number of the root.
ClaimIndex(t, img, point) ==
  /\ pc[t] = "idle" /\ Cardinality(mounts) < MaxMount
  /\ \E i \in FreeIndices :
       /\ \A j \in FreeIndices : i <= j
       /\ memfs' = [memfs EXCEPT ![i] = [img |-> img, up |-> FALSE]]
       /\ mnt' = [mnt EXCEPT ![t] = [index |-> i, img |-> img, point |-> point]]
  /\ Goto(t, "load")
  /\ UNCHANGED <<mounts, known, full, at, seen>>

\* insert_auto returns 0, which is taken for an index: the new image is dropped
\* and the root is loaded again, when there is one.
ClaimNothing(t, img, point) ==
  /\ pc[t] = "idle" /\ Cardinality(mounts) < MaxMount
  /\ FreeIndices = {}
  /\ full' = TRUE
  /\ mnt' = [mnt EXCEPT ![t] = [index |-> 0, img |-> img, point |-> point]]
  /\ Goto(t, IF memfs[0] = None THEN "publish" ELSE "load")
  /\ UNCHANGED <<memfs, mounts, known, at, seen>>

\* Mutant: the load is left to the first use of the image.
LoadImage_Lazy(t) == /\ pc[t] = "load"
                     /\ Goto(t, "publish")
                     /\ UNCHANGED <<memfs, mounts, known, full, at, seen, mnt>>

\* memfs::load gives the object its file system.
LoadImage(t) ==
  LET i == mnt[t].index
  IN  /\ pc[t] = "load"
      /\ memfs' = IF memfs[i] = None THEN memfs ELSE [memfs EXCEPT ![i].up = TRUE]
      /\ Goto(t, "publish")
      /\ UNCHANGED <<mounts, known, full, at, seen, mnt>>

LoadFails(t) ==
  /\ pc[t] = "load"
  /\ memfs' = [memfs EXCEPT ![mnt[t].index] = None]
  /\ Goto(t, "idle")
  /\ mnt' = [mnt EXCEPT ![t] = None]
  /\ UNCHANGED <<mounts, known, full, at, seen>>

\* The mount point is entered unless it is taken; the image stays in any case.
Publish(t) ==
  LET m == [point |-> mnt[t].point, to |-> mnt[t].index, img |-> mnt[t].img]
  IN  /\ pc[t] = "publish"
      /\ mounts' = IF \E old \in mounts : old.point = m.point
                   THEN mounts ELSE mounts \cup {m}
      /\ Goto(t, "idle")
      /\ mnt' = [mnt EXCEPT ![t] = None]
      /\ UNCHANGED <<memfs, known, full, at, seen>>

--------------------------------------------------------------------------------
(* The root image: mount_root_memfs, unmount_root_memfs.  The program calls  *)
(* them while no other call of it is in progress.                            *)

Quiet == \A t \in Thread : pc[t] = "idle"

\* Mutant: the mount table is not cleared.
Release_KeepsMounts == known' = {} /\ full' = FALSE /\ UNCHANGED mounts

\* release_memfs_resources: streams and descriptors are closed, and no mount
\* point is left.
Release == known' = {} /\ full' = FALSE /\ mounts' = {}

\* The old root is released and erased before the new one is loaded, the images
\* with other indices stay.  (An option that cannot be parsed throws before this.)
MountRoot(loads, img) ==
  /\ Quiet
  /\ IF memfs[0] = None THEN UNCHANGED <<mounts, known, full>> ELSE Release
  /\ memfs' = [memfs EXCEPT ![0] = IF loads THEN [img |-> img, up |-> TRUE] ELSE None]
  /\ UNCHANGED <<pc, at, seen, mnt>>

Unmount == /\ Quiet
           /\ Release
           /\ memfs' = [i \in Index |-> None]
           /\ UNCHANGED <<pc, at, seen, mnt>>

--------------------------------------------------------------------------------
(* Walking along a path: root_memfs_call, find_inode.                        *)

Enter(t) ==
  /\ pc[t] = "idle" /\ memfs[0] # None
  /\ at' = [at EXCEPT ![t] = [index |-> 0, img |-> memfs[0].img, node |-> 0]]
  /\ seen' = [seen EXCEPT ![t] = mounts]
  /\ Goto(t, "walk")
  /\ UNCHANGED <<memfs, mounts, known, full, mnt>>

Leave(t) == /\ Goto(t, "idle")
            /\ at' = [at EXCEPT ![t] = None]
            /\ seen' = [seen EXCEPT ![t] = {}]
            /\ UNCHANGED <<memfs, mounts, full, mnt>>

Here(t) == Number(at[t].index, at[t].node)

\* The next name of the path is a mount point: on in the image it leads to.
Cross(t, m) ==
  /\ pc[t] = "walk"
  /\ m \in seen[t] /\ m.point[1] = Here(t)
  /\ IF memfs[m.to] = None
     THEN Leave(t) /\ UNCHANGED known
     ELSE /\ at' = [at EXCEPT ![t] = [index |-> m.to, img |-> memfs[m.to].img, node |-> 0]]
          /\ seen' = [seen EXCEPT ![t] = mounts]
          /\ UNCHANGED <<memfs, mounts, known, full, pc, mnt>>

\* The next name is an entry of the directory, or no entry.
Descend(t, name, node) ==
  /\ pc[t] = "walk"
  /\ \A m \in seen[t] : m.point # <<Here(t), name>>
  /\ at' = [at EXCEPT ![t].node = node]
  /\ UNCHANGED <<memfs, mounts, known, full, pc, seen, mnt>>

Missing(t, name) == /\ pc[t] = "walk"
                    /\ \A m \in seen[t] : m.point # <<Here(t), name>>
                    /\ Leave(t)
                    /\ UNCHANGED known

\* The end of the path: the number goes into an entry of the descriptor table.
Arrive(t) ==
  /\ pc[t] = "walk"
  /\ Cardinality(known) < MaxKnown
  /\ known' = known \cup {[ino |-> Here(t), img |-> at[t].img, node |-> at[t].node]}
  /\ Leave(t)

Forget(k) == /\ k \in known
             /\ known' = known \ {k}
             /\ UNCHANGED <<memfs, mounts, full, pc, at, seen, mnt>>

\* A directory whose number the program has, for the parent of a mount.
Parents == {0} \cup {k.ino : k \in known}

Next ==
  \/ \E t \in Thread :
       \/ \E img \in Image, parent \in Parents, name \in Name :
            \/ ClaimIndex(t, img, <<parent, name>>)
            \/ ClaimNothing(t, img, <<parent, name>>)
       \/ LoadImage(t) \/ LoadFails(t) \/ Publish(t)
       \/ Enter(t) \/ Arrive(t)
       \/ \E m \in seen[t] : Cross(t, m)
       \/ \E name \in Name : Missing(t, name) \/ \E node \in Node : Descend(t, name, node)
  \/ \E img \in Image, loads \in BOOLEAN : MountRoot(loads, img)
  \/ Unmount
  \/ \E k \in known : Forget(k)

Spec == Init /\ [][Next]_vars

--------------------------------------------------------------------------------
(* Properties.                                                               *)

\* The number of an open inode leads back to the image it was found in and to the inode
\* it was there (inode_memfs_call, tebako-memfs-table.h:90-104), as long as no image was
\* mounted without an index: "Only three bits to store memfs index"
\* (tebako-memfs-table.cpp:100) are enough for the seven indices there are.  The code has
\* one bit (tebako-memfs-table.h:49), and this is violated.
InodesRoute ==
  ~full => \A k \in known : LET i == FsIndex(k.ino)
                            IN  /\ i \in Index /\ memfs[i] # None
                                /\ memfs[i].img = k.img
                                /\ NodeOf(i, k.ino) = k.node

\* A walk is only ever in an image that is loaded, although the image is in the
\* table before it is (tebako-io-root.cpp:62-64).
WalksAreLoaded ==
  \A t \in Thread : pc[t] = "walk" /\ memfs[at[t].index] # None => memfs[at[t].index].up

\* A mount point leads to the image that was mounted there, and to no other
\* (tebako-io-root.cpp:85-88), as long as no image was mounted without an index.
MountPointsLead ==
  ~full => \A m \in mounts : memfs[m.to] # None /\ memfs[m.to].img = m.img

\* There is one way on from a name.
MountPointsAreUnique == \A m, n \in mounts : m.point = n.point => m = n

\* "Check that root fs is alive" (tests-fs-load2.cpp:124, 139): a mount that fails takes
\* away no image that was loaded.  The root is the exception, once an image was mounted
\* without an index: the 0 of insert_auto is taken for the root's, which is loaded anew
\* and erased when that fails (tebako-io-root.cpp:62-67).
FailedMountKeepsOthers ==
  [][\A t \in Thread : LoadFails(t) =>
        \A i \in Index : memfs[i] # None /\ memfs[i].up /\ ~(i = 0 /\ full)
                          => memfs'[i] = memfs[i]]_vars

--------------------------------------------------------------------------------
(* The inductive invariant behind MountPointsLead.                           *)

\* The image with index i is in the table, is loaded and is img.
Up(i, img) == memfs[i] # None /\ memfs[i].up /\ memfs[i].img = img

\* An image in the making is its thread's own, not loaded before "publish".
Private ==
  \A t \in Thread : pc[t] \in {"load", "publish"} =>
     /\ mnt[t].index # 0 /\ memfs[mnt[t].index] # None
     /\ memfs[mnt[t].index].img = mnt[t].img
     /\ memfs[mnt[t].index].up <=> pc[t] = "publish"
     /\ \A u \in Thread : pc[u] = "load" /\ mnt[u].index = mnt[t].index => u = t

Reached ==
  \A t \in Thread : pc[t] = "walk" =>
     /\ Up(at[t].index, at[t].img)
     /\ \A m \in seen[t] : Up(m.to, m.img)

RootIsUp == memfs[0] # None => memfs[0].up

Inv == /\ TypeOK
       /\ ~full => /\ Private /\ Reached /\ RootIsUp
                   /\ \A m \in mounts : Up(m.to, m.img)
                   /\ \A k \in known : \E i \in Index :
                         Up(i, k.img) /\ k.ino = Number(i, k.node)

--------------------------------------------------------------------------------
(* The inductive invariant behind WalksAreLoaded and MountPointsAreUnique,   *)
(* which also hold when an image was mounted without an index.               *)

\* Index i is the root's, or what has it is loaded.
Led(i) == i = 0 \/ (memfs[i] # None /\ memfs[i].up)

Making ==
  \A t \in Thread : pc[t] \in {"load", "publish"} /\ mnt[t].index # 0 =>
     /\ memfs[mnt[t].index] # None
     /\ memfs[mnt[t].index].up <=> pc[t] = "publish"
     /\ \A u \in Thread : pc[u] = "load" /\ mnt[u].index = mnt[t].index => u = t

LoadedInv == /\ TypeOK /\ RootIsUp /\ Making
             /\ \A m \in mounts : Led(m.to)
             /\ \A t \in Thread : pc[t] = "walk" =>
                  /\ Led(at[t].index)
                  /\ \A m \in seen[t] : Led(m.to)
================================================================================
