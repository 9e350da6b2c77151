------------------------------ MODULE Mounts_proofs ------------------------------
(***************************************************************************)
(* Proofs about Mounts, for every number of threads, images and indices.   *)
(***************************************************************************)
EXTENDS Mounts, TLAPS

\* The quotient of a number made of an index and a node is the index.
LEMMA Shift ==
  ASSUME NEW i \in Nat, NEW b \in Nat \ {0}, NEW n \in 0 .. b - 1
  PROVE  (i * b + n) \div b = i
  OBVIOUS

\* A number made of an index below k and a node is below k blocks.
LEMMA Below ==
  ASSUME NEW i \in Nat, NEW k \in Nat \ {0}, i < k, NEW b \in Nat \ {0}, NEW n \in 0 .. b - 1
  PROVE  i * b + n \in 0 .. k * b - 1
  OBVIOUS

\* A number below the modulus is its own remainder.
LEMMA Remainder ==
  ASSUME NEW m \in Nat \ {0}, NEW x \in 0 .. m - 1
  PROVE  x % m = x
  OBVIOUS

\* There is an inode.
LEMMA ProductPos == Images * Block \in Nat \ {0}
  BY NumberAssumption

\* A remainder is below its modulus.
LEMMA ModRange ==
  ASSUME NEW x \in Int, NEW m \in Nat \ {0}
  PROVE  x % m \in 0 .. m - 1
  OBVIOUS

\* The root of an image has an inode.
LEMMA RootInIno == ASSUME NEW i \in Index PROVE RootInode(i) \in Ino
  <1>1. i * Block \in Int
    BY IndexAssumption, NumberAssumption DEF Index
  <1> QED BY <1>1, ProductPos, ModRange DEF RootInode, Ino

\* Every node of an image has an inode.
LEMMA NumberInIno == ASSUME NEW i \in Index, NEW n \in Node PROVE Number(i, n) \in Ino
  <1>1. RootInode(i) + n \in Int
    BY RootInIno, NumberAssumption DEF Ino, Node
  <1> QED BY <1>1, ProductPos, ModRange DEF Number, Ino

\* The number of an inode is that of its index followed by that of the image, if the bits
\* hold the index.
LEMMA NumberFacts ==
  ASSUME NEW i \in Index, i < Images, NEW n \in Node
  PROVE  /\ FsIndex(Number(i, n)) = i
         /\ NodeOf(i, Number(i, n)) = n
  <1> DEFINE total == Images * Block
             first == i * Block
  <1>1. i \in Nat /\ i < Images /\ n \in 0 .. Block - 1 /\ 0 \in 0 .. Block - 1
    BY IndexAssumption, NumberAssumption DEF Index, Node
  <1>2. total \in Nat \ {0}
    BY ProductPos
  <1>3. first + n \in 0 .. total - 1
    BY <1>1, NumberAssumption, Below
  <1>4. first + 0 \in 0 .. total - 1 /\ first \in Nat
    BY <1>1, NumberAssumption, Below
  <1>5. (first + n) \div Block = i
    BY <1>1, NumberAssumption, Shift
  <1>6. i % Images = i
    BY <1>1, NumberAssumption, Remainder
  <1>7. first % total = first
    <2> HIDE DEF first, total
    <2>1. first \in 0 .. total - 1
      BY <1>2, <1>4
    <2> QED BY <1>2, <2>1, Remainder
  <1>8. (first + n) % total = first + n
    <2> HIDE DEF first, total
    <2> QED BY <1>2, <1>3, Remainder
  <1>9. RootInode(i) = first /\ Number(i, n) = first + n
    BY <1>7, <1>8 DEF RootInode, Number
  <1>10. FsIndex(Number(i, n)) = i
    BY <1>5, <1>6, <1>9 DEF FsIndex
  <1>11. NodeOf(i, Number(i, n)) = n
    <2> HIDE DEF first
    <2> QED BY <1>1, <1>4, <1>9 DEF NodeOf
  <1> QED BY <1>10, <1>11

--------------------------------------------------------------------------------

\* The first image, its root node and their inode exist.
LEMMA ZeroFacts == 0 \in Index /\ 0 \in Node /\ 0 \in Ino
  BY IndexAssumption, NumberAssumption, ProductPos DEF Index, Node, Ino

\* The state without an image satisfies the invariant.
LEMMA InitInv == Init => Inv
  <1> SUFFICES ASSUME Init PROVE Inv
    OBVIOUS
  <1>1. TypeOK
    BY DEF Init, TypeOK
  <1> QED BY <1>1, ZeroFacts DEF Init, Inv, Private, Reached, RootIsUp

\* Every step keeps the types.
LEMMA TypeNext == TypeOK /\ [Next]_vars => TypeOK'
  <1> SUFFICES ASSUME TypeOK, [Next]_vars PROVE TypeOK'
    OBVIOUS
  <1> USE NoneAssumption DEF TypeOK, Goto
  <1>1. ASSUME NEW t \in Thread, NEW img \in Image, NEW parent \in Parents, NEW name \in Name,
               ClaimIndex(t, img, <<parent, name>>) \/ ClaimNothing(t, img, <<parent, name>>)
        PROVE  TypeOK'
    <2>1. <<parent, name>> \in Point
      BY ZeroFacts DEF Parents, Point
    <2>2. CASE ClaimIndex(t, img, <<parent, name>>)
      <3>1. PICK i \in FreeIndices :
              /\ memfs' = [memfs EXCEPT ![i] = [img |-> img, up |-> FALSE]]
              /\ mnt' = [mnt EXCEPT ![t] = [index |-> i, img |-> img,
                                            point |-> <<parent, name>>]]
        BY <2>2 DEF ClaimIndex
      <3>2. i \in Index
        BY IndexAssumption DEF FreeIndices, Index
      <3>3. /\ [img |-> img, up |-> FALSE] \in Fs
            /\ [index |-> i, img |-> img, point |-> <<parent, name>>] \in Mounting
        BY <2>1, <3>2 DEF Fs, Mounting
      <3> QED BY <2>2, <3>1, <3>2, <3>3 DEF ClaimIndex
    <2>3. CASE ClaimNothing(t, img, <<parent, name>>)
      <3>1. [index |-> 0, img |-> img, point |-> <<parent, name>>] \in Mounting
        BY <2>1, ZeroFacts DEF Mounting
      <3> QED BY <2>3, <3>1 DEF ClaimNothing
    <2> QED BY <1>1, <2>2, <2>3
  <1>2. ASSUME NEW t \in Thread, LoadImage(t) PROVE TypeOK'
    BY <1>2 DEF LoadImage, Fs
  <1>3. ASSUME NEW t \in Thread, LoadFails(t) PROVE TypeOK'
    BY <1>3 DEF LoadFails
  <1>4. ASSUME NEW t \in Thread, Publish(t) PROVE TypeOK'
    BY <1>4 DEF Publish, Mounting, Mount
  <1>5. ASSUME NEW t \in Thread, Enter(t) PROVE TypeOK'
    <2>1. [index |-> 0, img |-> memfs[0].img, node |-> 0] \in Location
      BY <1>5, ZeroFacts DEF Enter, Location, Fs
    <2> QED BY <1>5, <2>1 DEF Enter
  <1>6. ASSUME NEW t \in Thread, Arrive(t) PROVE TypeOK'
    <2>1. at[t] \in Location
      BY <1>6 DEF Arrive
    <2>2. Here(t) \in Ino
      BY <2>1, NumberInIno DEF Here, Location
    <2> QED BY <1>6, <2>1, <2>2 DEF Arrive, Leave, Location
  <1>7. ASSUME NEW t \in Thread, NEW m \in seen[t], Cross(t, m) PROVE TypeOK'
    <2>1. m.to \in Index
      BY DEF Mount
    <2>2. memfs[m.to] # None =>
            [index |-> m.to, img |-> memfs[m.to].img, node |-> 0] \in Location
      BY <2>1, ZeroFacts DEF Location, Fs
    <2> QED BY <1>7, <2>2 DEF Cross, Leave
  <1>8. ASSUME NEW t \in Thread, NEW name \in Name, Missing(t, name) PROVE TypeOK'
    BY <1>8 DEF Missing, Leave
  <1>9. ASSUME NEW t \in Thread, NEW name \in Name, NEW node \in Node, Descend(t, name, node)
        PROVE  TypeOK'
    <2>1. at[t] \in Location
      BY <1>9 DEF Descend
    <2>2. [at[t] EXCEPT !.node = node] \in Location
      BY <2>1 DEF Location
    <2> QED BY <1>9, <2>2 DEF Descend
  <1>10. ASSUME NEW img \in Image, NEW loads \in BOOLEAN, MountRoot(loads, img) PROVE TypeOK'
    BY <1>10 DEF MountRoot, Release, Fs
  <1>11. CASE Unmount
    BY <1>11 DEF Unmount, Release
  <1>12. ASSUME NEW k \in known, Forget(k) PROVE TypeOK'
    BY <1>12 DEF Forget
  <1>13. CASE UNCHANGED vars
    BY <1>13 DEF vars
  <1> QED
    BY <1>1, <1>2, <1>3, <1>4, <1>5, <1>6, <1>7, <1>8, <1>9, <1>10, <1>11, <1>12, <1>13 DEF Next

--------------------------------------------------------------------------------

\* What Inv says of the tables as long as no image was mounted without an index.
Strong == /\ Private /\ Reached /\ RootIsUp
          /\ \A m \in mounts : Up(m.to, m.img)
          /\ \A k \in known : \E i \in Index : Up(i, k.img) /\ k.ino = Number(i, k.node)

\* Every step keeps Inv: the images that are loaded stay where they are.
LEMMA NextInv == Inv /\ [Next]_vars => Inv'
  <1> SUFFICES ASSUME Inv, [Next]_vars, ~full' PROVE Strong'
    BY TypeNext DEF Inv, Strong
  <1> USE NoneAssumption DEF Goto, Strong
  <1>0. TypeOK /\ TypeOK'
    BY TypeNext DEF Inv
  <1>1. ASSUME NEW t \in Thread, NEW img \in Image, NEW parent \in Parents, NEW name \in Name,
               ClaimIndex(t, img, <<parent, name>>)
        PROVE  Strong'
    <2>1. PICK i \in FreeIndices :
            /\ memfs' = [memfs EXCEPT ![i] = [img |-> img, up |-> FALSE]]
            /\ mnt' = [mnt EXCEPT ![t] = [index |-> i, img |-> img,
                                          point |-> <<parent, name>>]]
      BY <1>1 DEF ClaimIndex
    <2>2. i \in Index /\ i # 0 /\ memfs[i] = None
      BY IndexAssumption DEF FreeIndices, Index
    <2>3. Strong /\ full' = full
      BY <1>1 DEF ClaimIndex, Inv
    <2>4. \A j, g : Up(j, g) => Up(j, g)'
      BY <2>1, <2>2, <1>0 DEF Up, TypeOK
    <2>5. Private'
      <3> SUFFICES ASSUME NEW u \in Thread, pc'[u] \in {"load", "publish"}
                   PROVE  /\ mnt'[u].index # 0 /\ memfs'[mnt'[u].index] # None
                          /\ memfs'[mnt'[u].index].img = mnt'[u].img
                          /\ memfs'[mnt'[u].index].up <=> pc'[u] = "publish"
                          /\ \A v \in Thread :
                                pc'[v] = "load" /\ mnt'[v].index = mnt'[u].index => v = u
        BY DEF Private
      <3>0. /\ pc' = [pc EXCEPT ![t] = "load"]
            /\ memfs'[i].img = img /\ ~memfs'[i].up /\ memfs'[i] # None
            /\ \A j \in Index : j # i => memfs'[j] = memfs[j]
        <4>1. [img |-> img, up |-> FALSE] \in Fs
          BY DEF Fs
        <4>2. memfs'[i] = [img |-> img, up |-> FALSE]
          BY <1>0, <2>1, <2>2 DEF TypeOK
        <4>3. \A j \in Index : j # i => memfs'[j] = memfs[j]
          BY <1>0, <2>1, <2>2 DEF TypeOK
        <4>4. memfs'[i].img = img /\ ~memfs'[i].up /\ memfs'[i] # None
          <5>1. memfs'[i].img = img
            BY <4>2
          <5>2. ~memfs'[i].up
            <6> DEFINE x == memfs'[i]
            <6>1. x = [img |-> img, up |-> FALSE]
              BY <4>2
            <6> HIDE DEF x
            <6>2. ~x.up
              BY <6>1
            <6> QED BY <6>2 DEF x
          <5>3. memfs'[i] # None
            BY <4>1, <4>2
          <5> QED BY <5>1, <5>2, <5>3
        <4>5. pc' = [pc EXCEPT ![t] = "load"]
          BY <1>1 DEF ClaimIndex
        <4> QED BY <4>3, <4>4, <4>5
      <3>a. \A v \in Thread : v # t => mnt'[v] = mnt[v] /\ pc'[v] = pc[v]
        BY <1>0, <2>1, <3>0 DEF TypeOK
      <3>b. pc'[t] = "load" /\ mnt'[t].index = i /\ mnt'[t].img = img
        BY <1>0, <2>1, <3>0 DEF TypeOK
      <3>c. \A v \in Thread : v # t /\ pc[v] \in {"load", "publish"} =>
                               mnt[v].index \in Index /\ mnt[v].index # i
        BY <1>0, <2>2, <2>3 DEF TypeOK, Private, Mounting
      <3>1. CASE u = t
        BY <2>2, <3>0, <3>a, <3>b, <3>c, <3>1
      <3>2. CASE u # t
        <4>1. pc'[u] = pc[u] /\ mnt'[u] = mnt[u]
          BY <3>a, <3>2
        <4>2. mnt[u].index \in Index /\ mnt[u].index # i
          BY <3>c, <3>2, <4>1
        <4>3. memfs'[mnt[u].index] = memfs[mnt[u].index]
          BY <3>0, <4>2
        <4> QED BY <2>3, <3>a, <3>b, <4>1, <4>2, <4>3 DEF Private
      <3> QED BY <3>1, <3>2
    <2>6. Reached'
      BY <1>0, <1>1, <2>3, <2>4 DEF ClaimIndex, Reached, TypeOK
    <2>7. RootIsUp'
      BY <1>0, <2>1, <2>2, <2>3, ZeroFacts DEF RootIsUp, TypeOK
    <2> QED BY <1>1, <2>3, <2>4, <2>5, <2>6, <2>7 DEF ClaimIndex
  <1>2. ASSUME NEW t \in Thread, NEW img \in Image, NEW parent \in Parents, NEW name \in Name,
               ClaimNothing(t, img, <<parent, name>>)
        PROVE  Strong'
    BY <1>2 DEF ClaimNothing
  <1>3. ASSUME NEW t \in Thread, LoadImage(t) PROVE Strong'
    <2> DEFINE i == mnt[t].index
    <2>1. Strong /\ i \in Index /\ memfs[i] # None /\ memfs[i] \in Fs
      BY <1>0, <1>3 DEF LoadImage, Inv, TypeOK, Mounting, Private
    <2>2. memfs' = [memfs EXCEPT ![i].up = TRUE]
      BY <1>3, <2>1 DEF LoadImage
    <2>a. /\ memfs'[i] # None /\ memfs'[i].up = TRUE /\ memfs'[i].img = memfs[i].img
          /\ \A j \in Index : j # i => memfs'[j] = memfs[j]
      BY <1>0, <2>1, <2>2 DEF TypeOK, Fs
    <2>3. \A j \in Index : \A g : Up(j, g) => Up(j, g)'
      <3> HIDE DEF i
      <3> QED BY <2>a DEF Up
    <2>b. mnt' = mnt /\ pc' = [pc EXCEPT ![t] = "publish"] /\ pc[t] = "load" /\ ~memfs[i].up
      BY <1>3, <2>1 DEF LoadImage, Private
    <2>4. Private'
      <3> SUFFICES ASSUME NEW u \in Thread, pc'[u] \in {"load", "publish"}
                   PROVE  /\ mnt'[u].index # 0 /\ memfs'[mnt'[u].index] # None
                          /\ memfs'[mnt'[u].index].img = mnt'[u].img
                          /\ memfs'[mnt'[u].index].up <=> pc'[u] = "publish"
                          /\ \A v \in Thread :
                                pc'[v] = "load" /\ mnt'[v].index = mnt'[u].index => v = u
        BY DEF Private
      <3>1. CASE u = t
        BY <1>0, <2>1, <2>a, <2>b, <3>1 DEF Private, TypeOK
      <3>2. CASE u # t
        <4>1. pc'[u] = pc[u] /\ mnt[u].index \in Index
          BY <1>0, <2>b, <3>2 DEF TypeOK, Mounting
        <4>2. mnt[u].index # i
          BY <2>1, <2>b, <3>2, <4>1 DEF Private
        <4>3. memfs'[mnt[u].index] = memfs[mnt[u].index]
          BY <2>a, <4>1, <4>2
        <4>4. \A v \in Thread : pc'[v] = "load" => pc[v] = "load"
          BY <1>0, <2>b DEF TypeOK
        <4> QED BY <2>1, <2>b, <4>1, <4>3, <4>4 DEF Private
      <3> QED BY <3>1, <3>2
    <2>5. Reached'
      BY <1>0, <1>3, <2>1, <2>3 DEF LoadImage, Reached, TypeOK, Location, Mount
    <2>6. RootIsUp'
      BY <1>0, <2>1, <2>2, ZeroFacts DEF RootIsUp, TypeOK, Fs
    <2> QED BY <1>0, <1>3, <2>1, <2>3, <2>4, <2>5, <2>6 DEF LoadImage, TypeOK, Mount
  <1>4. ASSUME NEW t \in Thread, LoadFails(t) PROVE Strong'
    <2> DEFINE i == mnt[t].index
    <2>1. Strong /\ i \in Index /\ i # 0 /\ memfs[i] # None /\ ~memfs[i].up
      BY <1>0, <1>4 DEF LoadFails, Inv, TypeOK, Mounting, Private, Fs
    <2>2. memfs' = [memfs EXCEPT ![i] = None]
      BY <1>4 DEF LoadFails
    <2>3. \A j, g : Up(j, g) => Up(j, g)'
      BY <1>0, <2>1, <2>2 DEF Up, TypeOK
    <2>4. Private'
      <3> SUFFICES ASSUME NEW u \in Thread, pc'[u] \in {"load", "publish"}
                   PROVE  /\ mnt'[u].index # 0 /\ memfs'[mnt'[u].index] # None
                          /\ memfs'[mnt'[u].index].img = mnt'[u].img
                          /\ memfs'[mnt'[u].index].up <=> pc'[u] = "publish"
                          /\ \A v \in Thread :
                                pc'[v] = "load" /\ mnt'[v].index = mnt'[u].index => v = u
        BY DEF Private
      <3>1. u # t /\ pc[u] = pc'[u] /\ mnt'[u] = mnt[u] /\ mnt[u].index \in Index
        BY <1>0, <1>4 DEF LoadFails, TypeOK, Mounting
      <3>2. mnt[u].index # i
        BY <1>4, <2>1, <3>1 DEF Private, LoadFails
      <3> QED BY <1>0, <1>4, <2>1, <2>2, <3>1, <3>2 DEF Private, LoadFails, TypeOK
    <2>5. Reached'
      BY <1>0, <1>4, <2>1, <2>3 DEF LoadFails, Reached, TypeOK
    <2>6. RootIsUp'
      BY <1>0, <2>1, <2>2, ZeroFacts DEF RootIsUp, TypeOK
    <2> QED BY <1>4, <2>1, <2>3, <2>4, <2>5, <2>6 DEF LoadFails
  <1>5. ASSUME NEW t \in Thread, Publish(t) PROVE Strong'
    <2>1. Strong /\ memfs' = memfs
      BY <1>5 DEF Publish, Inv
    <2>2. Up(mnt[t].index, mnt[t].img)
      BY <1>5, <2>1 DEF Publish, Private, Up
    <2>3. \A m \in mounts' : Up(m.to, m.img)
      BY <1>5, <2>1, <2>2 DEF Publish
    <2>4. Private'
      BY <1>0, <1>5, <2>1 DEF Publish, Private, TypeOK
    <2> QED BY <1>0, <1>5, <2>1, <2>3, <2>4 DEF Publish, Reached, RootIsUp, Up, TypeOK
  <1>6. ASSUME NEW t \in Thread, Enter(t) PROVE Strong'
    <2>1. Strong /\ memfs' = memfs
      BY <1>6 DEF Enter, Inv
    <2>2. Up(0, memfs[0].img)
      BY <1>6, <2>1 DEF Enter, RootIsUp, Up
    <2>3. Reached'
      BY <1>0, <1>6, <2>1, <2>2 DEF Enter, Reached, TypeOK, Up
    <2>4. Private'
      BY <1>0, <1>6, <2>1 DEF Enter, Private, TypeOK
    <2> QED BY <1>6, <2>1, <2>3, <2>4 DEF Enter, RootIsUp, Up
  <1>7. ASSUME NEW t \in Thread, Arrive(t) PROVE Strong'
    <2>1. Strong /\ memfs' = memfs /\ at[t] \in Location
      BY <1>0, <1>7 DEF Arrive, Leave, Inv, TypeOK
    <2>2. Up(at[t].index, at[t].img) /\ at[t].index \in Index
      BY <1>7, <2>1 DEF Arrive, Reached, Location
    <2>3. \A k \in known' : \E i \in Index : Up(i, k.img) /\ k.ino = Number(i, k.node)
      BY <1>7, <2>1, <2>2 DEF Arrive, Here
    <2>4. Private' /\ Reached'
      BY <1>0, <1>7, <2>1 DEF Arrive, Leave, Private, Reached, TypeOK, Up
    <2> QED BY <1>7, <2>1, <2>3, <2>4 DEF Arrive, Leave, RootIsUp, Up
  <1>8. ASSUME NEW t \in Thread, NEW m \in seen[t], Cross(t, m) PROVE Strong'
    <2>1. Strong /\ memfs' = memfs /\ mounts' = mounts /\ known' = known /\ mnt' = mnt
      BY <1>8 DEF Cross, Leave, Inv
    <2>2. Up(m.to, m.img)
      BY <1>8, <2>1 DEF Cross, Reached
    <2>3. Private'
      BY <1>0, <1>8, <2>1 DEF Cross, Leave, Private, TypeOK
    <2>4. Reached'
      BY <1>0, <1>8, <2>1, <2>2 DEF Cross, Leave, Reached, TypeOK, Up
    <2> QED BY <2>1, <2>3, <2>4 DEF RootIsUp, Up
  <1>9. ASSUME NEW t \in Thread, NEW name \in Name, Missing(t, name) PROVE Strong'
    BY <1>0, <1>9 DEF Missing, Leave, Inv, Private, Reached, RootIsUp, TypeOK, Up
  <1>10. ASSUME NEW t \in Thread, NEW name \in Name, NEW node \in Node, Descend(t, name, node)
         PROVE  Strong'
    <2>1. Strong /\ memfs' = memfs /\ at[t] \in Location
      BY <1>0, <1>10 DEF Descend, Inv, TypeOK
    <2>2. Reached'
      BY <1>0, <1>10, <2>1 DEF Descend, Reached, TypeOK, Location, Up
    <2> QED BY <1>0, <1>10, <2>1, <2>2 DEF Descend, Private, RootIsUp, TypeOK, Up
  <1>11. ASSUME NEW img \in Image, NEW loads \in BOOLEAN, MountRoot(loads, img) PROVE Strong'
    <2>1. Private' /\ Reached'
      BY <1>11 DEF MountRoot, Quiet, Private, Reached
    <2>2. RootIsUp'
      BY <1>0, <1>11, ZeroFacts DEF MountRoot, RootIsUp, TypeOK
    <2>3. CASE memfs[0] # None
      BY <1>11, <2>1, <2>2, <2>3 DEF MountRoot, Release
    <2>4. CASE memfs[0] = None
      <3>1. Strong /\ mounts' = mounts /\ known' = known
        BY <1>11, <2>4 DEF MountRoot, Inv
      <3>2. \A j, g : Up(j, g) => Up(j, g)'
        BY <1>0, <1>11, <2>4, ZeroFacts DEF MountRoot, Up, TypeOK
      <3> QED BY <2>1, <2>2, <3>1, <3>2
    <2> QED BY <2>3, <2>4
  <1>12. CASE Unmount
    BY <1>12, ZeroFacts DEF Unmount, Release, Quiet, Private, Reached, RootIsUp
  <1>13. ASSUME NEW k \in known, Forget(k) PROVE Strong'
    BY <1>13 DEF Forget, Inv, Private, Reached, RootIsUp, Up
  <1>14. CASE UNCHANGED vars
    BY <1>14 DEF vars, Inv, Private, Reached, RootIsUp, Up
  <1> QED
    BY <1>1, <1>2, <1>3, <1>4, <1>5, <1>6, <1>7, <1>8, <1>9, <1>10, <1>11, <1>12, <1>13, <1>14
    DEF Next

--------------------------------------------------------------------------------

\* The images, what leads to them and their inodes fit in every state.
THEOREM InvHolds == Spec => []Inv
  BY InitInv, NextInv, PTL DEF Spec

\* Every variable stays in its type (TypeOK), for every instance.
THEOREM TypeCorrect == Spec => []TypeOK
  <1>1. Inv => TypeOK
    BY DEF Inv
  <1> QED BY <1>1, InvHolds, PTL

\* What the code makes true of InodesRoute: every open inode is in an image that is loaded,
\* and its number leads to that image and to the inode if the bits hold the index of the
\* image.  With the one bit of tebako-memfs-table.h:49 these are the root and index 1.
NumbersOfLowImages ==
  ~full => \A k \in known : \E i \in Index :
              /\ Up(i, k.img)
              /\ i < Images => FsIndex(k.ino) = i /\ NodeOf(i, k.ino) = k.node

\* Numbers lead home as far as their bits reach, in spite of concurrent mounts, of loads
\* that fail and of indices that are given out again.
THEOREM NumbersRoute == Spec => []NumbersOfLowImages
  <1>1. Inv => NumbersOfLowImages
    <2> SUFFICES ASSUME Inv, ~full, NEW k \in known
                 PROVE  \E i \in Index :
                           /\ Up(i, k.img)
                           /\ i < Images => FsIndex(k.ino) = i /\ NodeOf(i, k.ino) = k.node
      BY DEF NumbersOfLowImages
    <2>1. PICK i \in Index : Up(i, k.img) /\ k.ino = Number(i, k.node)
      BY DEF Inv
    <2>2. k.node \in Node
      BY DEF Inv, TypeOK
    <2>3. i < Images => FsIndex(k.ino) = i /\ NodeOf(i, k.ino) = k.node
      BY <2>1, <2>2, NumberFacts
    <2> QED BY <2>1, <2>3
  <1> QED BY <1>1, InvHolds, PTL

\* A mount point leads to the image that was mounted there.
THEOREM MountPointsLeadHome == Spec => []MountPointsLead
  <1>1. Inv => MountPointsLead
    BY DEF Inv, MountPointsLead, Up
  <1> QED BY <1>1, InvHolds, PTL

--------------------------------------------------------------------------------

\* No step gives a directory a second mount point.
LEMMA UniqueNext == MountPointsAreUnique /\ [Next]_vars => MountPointsAreUnique'
  <1> SUFFICES ASSUME MountPointsAreUnique, Next PROVE MountPointsAreUnique'
    BY DEF vars, MountPointsAreUnique
  <1>1. ASSUME NEW t \in Thread, Publish(t) PROVE MountPointsAreUnique'
    BY <1>1 DEF Publish, MountPointsAreUnique
  <1>2. ASSUME mounts' = mounts \/ mounts' = {} PROVE MountPointsAreUnique'
    BY <1>2 DEF MountPointsAreUnique
  <1> QED
    BY <1>1, <1>2 DEF Next, ClaimIndex, ClaimNothing, LoadImage, LoadFails, Enter, Arrive, Leave,
                      Cross, Missing, Descend, MountRoot, Release, Unmount, Forget

\* A mount point is entered once, whoever is mounting and whatever fails.
THEOREM OneWayOn == Spec => []MountPointsAreUnique
  <1>1. Init => MountPointsAreUnique
    BY DEF Init, MountPointsAreUnique
  <1> QED BY <1>1, UniqueNext, PTL DEF Spec

\* Before the first call every walk and mount point is in a loaded image.
LEMMA LoadedInit == Init => LoadedInv
  BY InitInv DEF Init, Inv, RootIsUp, Making, LoadedInv

\* An image is not unloaded by a step of another thread, except for the root's.
LEMMA LoadedNext == LoadedInv /\ [Next]_vars => LoadedInv'
  <1> SUFFICES ASSUME LoadedInv, [Next]_vars PROVE LoadedInv'
    OBVIOUS
  <1> USE NoneAssumption DEF Goto
  <1> DEFINE Walking == \A t \in Thread : pc[t] = "walk" =>
                          /\ Led(at[t].index)
                          /\ \A m \in seen[t] : Led(m.to)
             Leading == \A m \in mounts : Led(m.to)
  <1>0. TypeOK /\ TypeOK' /\ RootIsUp /\ Making /\ Leading /\ Walking
    BY TypeNext DEF LoadedInv
  <1> SUFFICES RootIsUp' /\ Making' /\ Leading' /\ Walking'
    BY <1>0 DEF LoadedInv
  <1>1. ASSUME NEW t \in Thread, NEW img \in Image, NEW parent \in Parents, NEW name \in Name,
               ClaimIndex(t, img, <<parent, name>>)
        PROVE  RootIsUp' /\ Making' /\ Leading' /\ Walking'
    <2>1. PICK i \in FreeIndices :
            /\ memfs' = [memfs EXCEPT ![i] = [img |-> img, up |-> FALSE]]
            /\ mnt' = [mnt EXCEPT ![t] = [index |-> i, img |-> img,
                                          point |-> <<parent, name>>]]
      BY <1>1 DEF ClaimIndex
    <2>2. i \in Index /\ i # 0 /\ memfs[i] = None
      BY IndexAssumption DEF FreeIndices, Index
    <2>3. /\ memfs'[i] # None /\ ~memfs'[i].up
          /\ \A j : j # i => memfs'[j] = memfs[j]
      <3> DEFINE x == [img |-> img, up |-> FALSE]
      <3>1. x \in Fs /\ ~x.up
        BY DEF Fs
      <3>2. memfs'[i] = x
        BY <1>0, <2>1, <2>2 DEF TypeOK
      <3>3. \A j : j # i => memfs'[j] = memfs[j]
        BY <1>0, <2>1, <2>2 DEF TypeOK
      <3> QED BY <3>1, <3>2, <3>3
    <2>4. \A j : Led(j) => Led(j)'
      BY <2>2, <2>3 DEF Led
    <2>5. /\ pc'[t] = "load" /\ mnt'[t].index = i
          /\ \A v \in Thread : v # t => mnt'[v] = mnt[v] /\ pc'[v] = pc[v]
      BY <1>0, <1>1, <2>1 DEF ClaimIndex, TypeOK
    <2>6. \A v \in Thread : v # t /\ pc[v] \in {"load", "publish"} => mnt[v].index # i
      BY <2>2, <1>0 DEF Making
    <2>7. Making'
      <3> SUFFICES ASSUME NEW v \in Thread, pc'[v] \in {"load", "publish"}, mnt'[v].index # 0
                   PROVE  /\ memfs'[mnt'[v].index] # None
                          /\ memfs'[mnt'[v].index].up <=> pc'[v] = "publish"
                          /\ \A u \in Thread :
                                pc'[u] = "load" /\ mnt'[u].index = mnt'[v].index => u = v
        BY DEF Making
      <3>1. CASE v = t
        BY <2>3, <2>5, <2>6, <3>1
      <3>2. CASE v # t
        <4>1. pc'[v] = pc[v] /\ mnt'[v] = mnt[v] /\ mnt[v].index # i
          BY <2>5, <2>6, <3>2
        <4>2. memfs'[mnt[v].index] = memfs[mnt[v].index]
          BY <2>3, <4>1
        <4> QED BY <1>0, <2>5, <4>1, <4>2 DEF Making
      <3> QED BY <3>1, <3>2
    <2>8. RootIsUp'
      BY <1>0, <2>2, <2>3 DEF RootIsUp
    <2>9. Leading' /\ Walking'
      BY <1>0, <1>1, <2>4, <2>5 DEF ClaimIndex, TypeOK
    <2> QED BY <2>7, <2>8, <2>9
  <1>2. ASSUME NEW t \in Thread, NEW img \in Image, NEW parent \in Parents, NEW name \in Name,
               ClaimNothing(t, img, <<parent, name>>)
        PROVE  RootIsUp' /\ Making' /\ Leading' /\ Walking'
    <2>1. /\ memfs' = memfs /\ mounts' = mounts /\ at' = at /\ seen' = seen
          /\ mnt'[t].index = 0 /\ pc'[t] # "walk"
          /\ \A v \in Thread : v # t => mnt'[v] = mnt[v] /\ pc'[v] = pc[v]
      BY <1>0, <1>2 DEF ClaimNothing, TypeOK
    <2> QED BY <1>0, <2>1 DEF RootIsUp, Making, Led
  <1>3. ASSUME NEW t \in Thread, LoadImage(t)
        PROVE  RootIsUp' /\ Making' /\ Leading' /\ Walking'
    <2> DEFINE i == mnt[t].index
    <2>1. i \in Index /\ pc[t] = "load" /\ mnt' = mnt /\ mounts' = mounts /\ at' = at /\ seen' = seen
      BY <1>0, <1>3 DEF LoadImage, TypeOK, Mounting
    <2>2. /\ \A v \in Thread : v # t => pc'[v] = pc[v]
          /\ pc'[t] = "publish"
      BY <1>0, <1>3 DEF LoadImage, TypeOK
    <2>3. /\ \A j : j # i => memfs'[j] = memfs[j]
          /\ memfs[i] = None => memfs'[i] = None
          /\ memfs[i] # None => memfs'[i] # None /\ memfs'[i].up
      <3>1. CASE memfs[i] = None
        BY <1>3, <3>1 DEF LoadImage
      <3>2. CASE memfs[i] # None
        <4>1. memfs[i] \in Fs /\ memfs' = [memfs EXCEPT ![i].up = TRUE]
          BY <1>0, <1>3, <2>1, <3>2 DEF LoadImage, TypeOK
        <4>2. memfs'[i] = [memfs[i] EXCEPT !.up = TRUE]
          BY <1>0, <2>1, <4>1 DEF TypeOK
        <4>3. memfs'[i] \in Fs /\ memfs'[i].up
          BY <4>1, <4>2 DEF Fs
        <4>4. \A j : j # i => memfs'[j] = memfs[j]
          BY <1>0, <2>1, <4>1 DEF TypeOK
        <4> QED BY <3>2, <4>3, <4>4
      <3> QED BY <3>1, <3>2
    <2> HIDE DEF i
    <2>4. \A j : Led(j) => Led(j)'
      BY <2>3 DEF Led
    <2>5. RootIsUp'
      BY <1>0, <2>3 DEF RootIsUp
    <2>6. Making'
      <3> SUFFICES ASSUME NEW v \in Thread, pc'[v] \in {"load", "publish"}, mnt[v].index # 0
                   PROVE  /\ memfs'[mnt[v].index] # None
                          /\ memfs'[mnt[v].index].up <=> pc'[v] = "publish"
                          /\ \A u \in Thread :
                                pc'[u] = "load" /\ mnt[u].index = mnt[v].index => u = v
        BY <2>1 DEF Making
      <3>0. pc[v] \in {"load", "publish"} /\ \A u \in Thread : pc'[u] = "load" => pc[u] = "load"
        BY <2>1, <2>2
      <3>1. CASE v = t
        BY <1>0, <2>1, <2>2, <2>3, <3>0, <3>1 DEF Making, i
      <3>2. CASE v # t
        <4>1. mnt[v].index # i
          BY <1>0, <2>1, <3>0, <3>2 DEF Making, i
        <4> QED BY <1>0, <2>2, <2>3, <3>0, <3>2, <4>1 DEF Making
      <3> QED BY <3>1, <3>2
    <2> QED BY <1>0, <2>1, <2>2, <2>4, <2>5, <2>6
  <1>4. ASSUME NEW t \in Thread, LoadFails(t)
        PROVE  RootIsUp' /\ Making' /\ Leading' /\ Walking'
    <2> DEFINE i == mnt[t].index
    <2>1. i \in Index /\ pc[t] = "load" /\ mounts' = mounts /\ at' = at /\ seen' = seen
      BY <1>0, <1>4 DEF LoadFails, TypeOK, Mounting
    <2>2. /\ \A v \in Thread : v # t => pc'[v] = pc[v] /\ mnt'[v] = mnt[v]
          /\ pc'[t] = "idle"
      BY <1>0, <1>4 DEF LoadFails, TypeOK
    <2>3. memfs'[i] = None /\ \A j : j # i => memfs'[j] = memfs[j]
      BY <1>0, <1>4, <2>1 DEF LoadFails, TypeOK
    <2>4. \A j : Led(j) => Led(j)'
      BY <1>0, <2>1, <2>3 DEF Led, Making
    <2>5. RootIsUp'
      BY <1>0, <2>3 DEF RootIsUp
    <2> HIDE DEF i
    <2>6. Making'
      <3> SUFFICES ASSUME NEW v \in Thread, pc'[v] \in {"load", "publish"}, mnt'[v].index # 0
                   PROVE  /\ memfs'[mnt'[v].index] # None
                          /\ memfs'[mnt'[v].index].up <=> pc'[v] = "publish"
                          /\ \A u \in Thread :
                                pc'[u] = "load" /\ mnt'[u].index = mnt'[v].index => u = v
        BY DEF Making
      <3>1. v # t /\ pc[v] \in {"load", "publish"} /\ mnt'[v] = mnt[v] /\ pc'[v] = pc[v]
        BY <2>2
      <3>2. mnt[v].index # i
        BY <1>0, <2>1, <3>1 DEF Making, i
      <3> QED BY <1>0, <2>2, <2>3, <3>1, <3>2 DEF Making
    <2> QED BY <1>0, <2>1, <2>2, <2>4, <2>5, <2>6
  <1>5. ASSUME NEW t \in Thread, Publish(t)
        PROVE  RootIsUp' /\ Making' /\ Leading' /\ Walking'
    <2>1. /\ memfs' = memfs /\ at' = at /\ seen' = seen /\ pc'[t] = "idle" /\ pc[t] = "publish"
          /\ \A v \in Thread : v # t => pc'[v] = pc[v] /\ mnt'[v] = mnt[v]
      BY <1>0, <1>5 DEF Publish, TypeOK
    <2>2. Led(mnt[t].index)
      BY <1>0, <2>1 DEF Making, Led
    <2>3. Leading'
      BY <1>0, <1>5, <2>1, <2>2 DEF Publish, Led
    <2> QED BY <1>0, <2>1, <2>3 DEF RootIsUp, Making, Led
  <1>6. ASSUME NEW t \in Thread, Enter(t)
        PROVE  RootIsUp' /\ Making' /\ Leading' /\ Walking'
    <2>1. /\ memfs' = memfs /\ mounts' = mounts /\ mnt' = mnt /\ pc'[t] = "walk"
          /\ at'[t].index = 0 /\ seen'[t] = mounts
          /\ \A v \in Thread : v # t => pc'[v] = pc[v] /\ at'[v] = at[v] /\ seen'[v] = seen[v]
      BY <1>0, <1>6 DEF Enter, TypeOK
    <2> QED BY <1>0, <2>1 DEF RootIsUp, Making, Led
  <1>7. ASSUME NEW t \in Thread, Leave(t)
        PROVE  RootIsUp' /\ Making' /\ Leading' /\ Walking'
    <2>1. /\ memfs' = memfs /\ mounts' = mounts /\ mnt' = mnt /\ pc'[t] = "idle"
          /\ \A v \in Thread : v # t => pc'[v] = pc[v] /\ at'[v] = at[v] /\ seen'[v] = seen[v]
      BY <1>0, <1>7 DEF Leave, TypeOK
    <2> QED BY <1>0, <2>1 DEF RootIsUp, Making, Led
  <1>8. ASSUME NEW t \in Thread, NEW m \in seen[t], Cross(t, m)
        PROVE  RootIsUp' /\ Making' /\ Leading' /\ Walking'
    <2>1. CASE memfs[m.to] = None
      BY <1>7, <1>8, <2>1 DEF Cross
    <2>2. CASE memfs[m.to] # None
      <3>1. /\ memfs' = memfs /\ mounts' = mounts /\ mnt' = mnt /\ pc' = pc /\ pc[t] = "walk"
            /\ at'[t].index = m.to /\ seen'[t] = mounts
            /\ \A v \in Thread : v # t => at'[v] = at[v] /\ seen'[v] = seen[v]
        BY <1>0, <1>8, <2>2 DEF Cross, TypeOK
      <3> QED BY <1>0, <3>1 DEF RootIsUp, Making, Led
    <2> QED BY <2>1, <2>2
  <1>9. ASSUME NEW t \in Thread, NEW name \in Name, NEW node \in Node, Descend(t, name, node)
        PROVE  RootIsUp' /\ Making' /\ Leading' /\ Walking'
    <2>1. /\ memfs' = memfs /\ mounts' = mounts /\ mnt' = mnt /\ pc' = pc /\ seen' = seen
          /\ at[t] \in Location /\ at' = [at EXCEPT ![t] = [at[t] EXCEPT !.node = node]]
      BY <1>0, <1>9 DEF Descend, TypeOK
    <2>2. \A v \in Thread : pc[v] = "walk" => at'[v].index = at[v].index
      BY <1>0, <2>1 DEF TypeOK, Location
    <2> QED BY <1>0, <2>1, <2>2 DEF RootIsUp, Making, Led
  <1>10. ASSUME NEW img \in Image, NEW loads \in BOOLEAN, MountRoot(loads, img)
         PROVE  RootIsUp' /\ Making' /\ Leading' /\ Walking'
    <2>1. /\ \A t \in Thread : pc'[t] = "idle"
          /\ mounts' = mounts \/ mounts' = {}
          /\ \A j : j # 0 => memfs'[j] = memfs[j]
      BY <1>0, <1>10 DEF MountRoot, Release, Quiet, TypeOK
    <2>2. memfs'[0] # None => memfs'[0].up
      BY <1>0, <1>10, ZeroFacts DEF MountRoot, TypeOK
    <2>3. \A j : Led(j) => Led(j)'
      BY <2>1 DEF Led
    <2>4. Making'
      BY <2>1 DEF Making
    <2>5. Leading'
      BY <1>0, <2>1, <2>3
    <2> QED BY <2>1, <2>2, <2>4, <2>5 DEF RootIsUp
  <1>11. CASE Unmount
    <2>1. mounts' = {} /\ memfs'[0] = None /\ \A t \in Thread : pc'[t] = "idle"
      BY <1>0, <1>11, ZeroFacts DEF Unmount, Release, Quiet
    <2> QED BY <2>1 DEF RootIsUp, Making
  <1>12. ASSUME UNCHANGED <<memfs, mounts, pc, at, seen, mnt>>
         PROVE  RootIsUp' /\ Making' /\ Leading' /\ Walking'
    BY <1>0, <1>12 DEF RootIsUp, Making, Led
  <1>13. ASSUME NEW t \in Thread, Arrive(t) \/ \E name \in Name : Missing(t, name)
         PROVE  RootIsUp' /\ Making' /\ Leading' /\ Walking'
    BY <1>7, <1>13 DEF Arrive, Missing
  <1> QED
    BY <1>1, <1>2, <1>3, <1>4, <1>5, <1>6, <1>8, <1>9, <1>10, <1>11, <1>12, <1>13
    DEF Next, Forget, vars

\* No walk is in an image that is still being loaded (find_inode and load_memfs), also
\* when an image was mounted without an index.
THEOREM WalksStayInLoaded == Spec => []WalksAreLoaded
  <1>1. LoadedInv => WalksAreLoaded
    BY DEF LoadedInv, WalksAreLoaded, RootIsUp, Led
  <1> QED BY <1>1, LoadedInit, LoadedNext, PTL DEF Spec

\* A mount that fails takes away no image that was loaded (load_memfs), but for the root
\* when an image was mounted without an index.
THEOREM FailedMountsKeepOthers == Spec => FailedMountKeepsOthers
  <1>1. Inv /\ LoadedInv /\ [Next]_vars =>
          [\A t \in Thread : LoadFails(t) =>
             \A i \in Index : memfs[i] # None /\ memfs[i].up /\ ~(i = 0 /\ full)
                               => memfs'[i] = memfs[i]]_vars
    <2> SUFFICES ASSUME Inv, LoadedInv, NEW t \in Thread, LoadFails(t),
                        NEW i \in Index, memfs[i] # None, memfs[i].up, ~(i = 0 /\ full)
                 PROVE  memfs'[i] = memfs[i]
      OBVIOUS
    <2>1. CASE full
      <3>1. i # mnt[t].index
        BY <2>1 DEF LoadedInv, Making, LoadFails
      <3> QED BY <3>1 DEF LoadFails, Inv, TypeOK
    <2>2. CASE ~full
      <3>1. i # mnt[t].index
        BY <2>2 DEF Inv, Private, LoadFails
      <3> QED BY <3>1 DEF LoadFails, Inv, TypeOK
    <2> QED BY <2>1, <2>2
  <1> QED BY <1>1, InvHolds, LoadedInit, LoadedNext, PTL DEF Spec, FailedMountKeepsOthers
================================================================================
