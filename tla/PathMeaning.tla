------------------------------ MODULE PathMeaning ------------------------------
(***************************************************************************)
(* What a path means, against which PathWalk is checked: the path without  *)
(* its last name means a directory, and the last name is looked up there.  *)
(* This goes through a path from the left, where the code rewrites what is *)
(* left of it.  Links may lead in circles: the meaning of such a path is   *)
(* "loop", which is found when links and mounted paths stand in one        *)
(* another deeper than there are names to find them under.                 *)
(*                                                                         *)
(* A text means what it means when it is made lexically normal by itself:  *)
(* "a/../b" is "b", wherever a leads, which is the rule of the code and    *)
(* not that of POSIX.  One that still begins with ".." means nothing,      *)
(* since no image has an entry of that name.  Of one that becomes "." or   *)
(* ends in a "/" nothing is said: the code finds a name behind it and not  *)
(* the directory itself.  Nothing is said either of calls whose own path   *)
(* is given with "..", "." or a "/" at the end.                            *)
(***************************************************************************)
EXTENDS PathWalk

ASSUME FiniteAssumption == IsFiniteSet(Node) /\ IsFiniteSet(Name)
\* No link is empty, and no empty path is mounted; an inode is not what the host told.
ASSUME MeaningAssumption ==
  /\ \A text \in Text : text.abs \/ text.names # <<>>
  /\ \A to \in Points : to.kind = "path" => to.path.abs \/ to.path.names # <<>>
  /\ \A path \in HostPath : [host |-> path] \notin Node

InImage(node) == [kind |-> "node", node |-> node]
AtHost(path) == [kind |-> "host", path |-> path]
Nowhere == [kind |-> "none"]
Loop == [kind |-> "loop"]
Unsaid == [kind |-> "unsaid"]
Meanings == [kind : {"node"}, node : Node] \cup [kind : {"host"}, path : Names]
              \cup {Nowhere, Loop, Unsaid}

\* A path of names only, and what is read of a text.
Plain(names) == names \in Names
Read(text) == LexicallyNormal(text.abs, text.names)

\* A meaning, and whether an absolute path led back into the image on the way.
Way(place, jumps) == [place |-> place, jumps |-> jumps]
Then(way, next) == Way(next.place, way.jumps \/ next.jumps)

\* The way of a path that leads in a circle, on which nobody knows what happens.
Lost == Way(Loop, TRUE)

\* What the links say, and what is mounted.
World == [link |-> link, points |-> points]

\* The way of a text that stands in a directory; deeper has the ways of all paths.
Behind(deeper, text, from, follow) ==
  IF Plain(Read(text)) THEN deeper[<<IF text.abs THEN AtHost(<<>>) ELSE from, Read(text), follow>>]
  ELSE Way(IF Head(Read(text)) = Up THEN Nowhere ELSE Unsaid, FALSE)

\* The way from a place by one name.  What is mounted is followed in any case; and a
\* path that is mounted is kept as its last name says, like the path of the call.
Lookup(world, deeper, place, name, follow) ==
  CASE place.kind = "host" ->
         IF place.path = <<>> /\ name = Home THEN Way(InImage(RootOf[0]), TRUE)
         ELSE Way(AtHost(Append(place.path, name)), FALSE)
    [] place.kind = "node" ->
         LET over == world.points[<<place.node, name>>]
             node == Entry[place.node][name]
         IN  IF over # None
             THEN IF over.kind = "image" THEN Way(InImage(RootOf[over.index]), FALSE)
                  ELSE Behind(deeper, over.path, place, follow)
             ELSE IF place.node \notin Dir \/ name \notin DOMAIN Entry[place.node]
             THEN Way(Nowhere, FALSE)
             ELSE IF node \in Link /\ follow THEN Behind(deeper, world.link[node], place, TRUE)
             ELSE Way(InImage(node), FALSE)
    [] OTHER -> Way(place, FALSE)

\* The way along a path, of which only the last name may be kept.
Along(world, deeper, from, names, follow) ==
  LET way[k \in 0 .. Len(names)] ==
        IF k = 0 THEN Way(from, FALSE)
        ELSE Then(way[k - 1], Lookup(world, deeper, way[k - 1].place, names[k],
                                     follow \/ k < Len(names)))
  IN  way[Len(names)]

\* The ways of all paths on which no more than n links stand in one another.
Deep(world) ==
  LET ways[n \in Nat] ==
        [p \in Meanings \X Names \X BOOLEAN |->
           IF n = 0 THEN Lost ELSE Along(world, ways[n - 1], p[1], p[2], p[3])]
  IN  ways

\* The names by which a walk goes on with another path: those of links that it follows,
\* and those that something is mounted over.
Linked == {over \in Dir \X Name : over[2] \in DOMAIN Entry[over[1]] /\ Entry[over[1]][over[2]] \in Link}
Turns(world) == Linked \X {TRUE}
                  \cup {over \in DOMAIN world.points : world.points[over] # None} \X BOOLEAN

\* The way along a path: a turn within itself is a circle.
Meaning(world, from, names, follow) ==
  Along(world, Deep(world)[Cardinality(Turns(world))], from, names, follow)
Meant(from, names, follow) == Meaning(World, InImage(from), names, follow)
CallMeans == Meant(call.from, call.names, Follows(call.op))
\* Does the path of the call mean anything that is said here?
Told == Plain(call.names) /\ CallMeans.place # Unsaid
MeansALink == CallMeans.place \in {InImage(n) : n \in Link}

\* A last name that is not followed may lead in a circle only as a link.
Circular == CallMeans.place = Loop

--------------------------------------------------------------------------------
(* Properties.                                                               *)

\* What a struct stat tells, as a meaning; a path of the host may lead nowhere.
Shown(answer) ==
  CASE answer.what = "node" -> IF answer.node \in Node THEN InImage(answer.node)
                               ELSE AtHost(answer.node.host)
    [] answer.what = "host" -> IF answer.path \in HostPath THEN AtHost(answer.path) ELSE Nowhere
    [] OTHER -> Nowhere
Visible(place) == IF place = Loop \/ (place.kind = "host" /\ place.path \notin HostPath)
                  THEN Nowhere ELSE place

\* Whatever the code has made of the path, a call that follows links is still on the
\* way to what the path meant (the loop of find_inode, tebako-memfs.cpp:184-246), although
\* the code makes a path normal together with what is left behind a link, and the meaning
\* only the text of the link.  A ".." is left when the path means nothing, and only then.
WalksKeepTheMeaning ==
  pc = "walk" /\ Follows(call.op) /\ Told =>
     IF Plain(rest) THEN Meant(at, rest, TRUE).place = CallMeans.place
     ELSE Head(rest) = Up /\ CallMeans.place = Nowhere

\* stat, access and open answer for what the path means, in whichever image or on the
\* host it lies (tests-ln.cpp:121-140, tests-mount-dwarfs.cpp); through a link whose text
\* begins with ".." when it is made normal, they answer that there is nothing.
FollowingCallsFindTheFile ==
  pc = "done" /\ Follows(call.op) /\ Told /\ ans.what # "memory" =>
     Shown(ans) = Visible(CallMeans.place)

\* An open file has an inode of an image (tebako-fd.cpp:86-91), unless a link that
\* leads into the image led out of it by another one: see README, "What was met".
OpenedFilesAreInTheImage ==
  pc = "done" /\ call.op = "open" /\ Told /\ ans.what = "node" =>
     ans.node \in Node \/ (CallMeans.jumps /\ CallMeans.place.kind = "host")

\* lstat, readlink and open with O_NOFOLLOW answer for the last name itself, and the
\* host is asked not to follow either: when no absolute path led back into the image,
\* and it is not fstatat that goes to the host.
LastNameIsKept ==
  pc = "done" /\ ~Follows(call.op) /\ call.op # "mount" /\ Told /\ ans.what # "memory"
    /\ ~CallMeans.jumps =>
     /\ ans.what # "error" => Shown(ans) = Visible(CallMeans.place)
     /\ ans.what = "error" => \/ Visible(CallMeans.place) = Nowhere
                              \/ call.op = "readlink" /\ ~MeansALink
                              \/ call.op = "open_nofollow" /\ MeansALink
     /\ ans.what = "host" => ~ans.follow \/ (call.rel /\ call.op = "lstat")

\* "If the trailing component (i.e., basename) of pathname is a symbolic link, then
\* the open fails, with the error ELOOP" (tebako-fd.cpp:66-68): and only then.
OnlyTheLastLinkIsRefused ==
  pc = "done" /\ call.op = "open_nofollow" /\ Told /\ ans.what = "error" =>
     Visible(CallMeans.place) = Nowhere \/ MeansALink

\* A mount point that was accepted is on the way: its path means what was mounted
\* there (tests-process-mps.cpp:98-105), when its folder was a directory by name, the
\* mount point does not cover the way to its own folder, and neither the folder nor
\* what is mounted climbs or stands still.
Before == [link |-> link, points |-> asked.before]
MountsTakeEffect ==
  asked # None /\ Plain(asked.names) /\ (asked.to.kind = "path" => Plain(Read(asked.to.path))) =>
    LET top == InImage(RootOf[0])
        folder == Meaning(Before, top, asked.names, FALSE)
        there == Meant(RootOf[0], Append(asked.names, asked.name), TRUE)
        target == IF asked.to.kind = "image" THEN InImage(RootOf[asked.to.index])
                  ELSE Meaning(World, IF asked.to.path.abs THEN AtHost(<<>>) ELSE folder.place,
                               Read(asked.to.path), TRUE).place
    IN  /\ ~folder.jumps /\ folder.place # Unsaid
        /\ folder = Meaning(Before, top, asked.names, TRUE)
        /\ folder = Meant(RootOf[0], asked.names, TRUE)
        => there.place = target

\* A call comes back, when the links on its way do not lead in a circle.
CallsComeBack == pc = "walk" /\ Told /\ ~Circular ~> pc = "done"
================================================================================
