-------------------------------- MODULE PathWalk --------------------------------
(***************************************************************************)
(* The walk along a path (find_inode, process_inode, process_link and      *)
(* find_inode_abs, tebako-memfs.cpp) with the calls that start one         *)
(* (file-ctl.cpp, tebako-fd.cpp, file-io.cpp) and the mount points that    *)
(* the command line asks for (process_mountpoints, tebako-cmdline.cpp).    *)
(*                                                                         *)
(* The code walks by rewriting: it keeps the directory it has reached and  *)
(* the rest of the path.  A link that is read relative replaces the rest;  *)
(* an absolute one ends the walk, and when it leads into the image the     *)
(* whole path is handed to tebako_stat, which starts again at the root.    *)
(* A mount point is a link that only this library knows of, or an image    *)
(* the walk goes on in.                                                    *)
(*                                                                         *)
(* The shims expand a path before they start a walk, so that it has no     *)
(* "..".  The texts of links and of mount points, the folders of mount     *)
(* points and what openat and fstatat are given come as they are written;  *)
(* only what a link is rewritten to is made lexically normal, which takes  *)
(* a name away with the ".." behind it whatever the name leads to.  What   *)
(* is left of ".." and "." is looked up, and dwarfs has no such entries:   *)
(* a link to "../x" leads nowhere.                                         *)
(***************************************************************************)
EXTENDS Naturals, Sequences, FiniteSets, SequencesExt

CONSTANTS
  Name,     \* names of entries of the images
  Home,     \* the name of the mount point, in the root of the host
  Up, Here, \* ".." and "."
  Slash,    \* the empty element behind a "/" that ends a path
  Dir, File, Link,  \* the inodes of the images
  Index,    \* the images
  RootOf,   \* RootOf[i]: the root directory of image i
  Entry,    \* Entry[d]: the entries of the directory d, names to inodes
  Text,     \* what a link may be to: [abs : BOOLEAN, names : a sequence]
  Links,    \* the contents of the links that are looked at: functions on Link
  Points,   \* what may be asked to be mounted
  HostPath, \* the paths of the host that exist
  Path,     \* the paths that are asked for, expanded
  RawPath,  \* and those that are asked for from a directory, as they are given
  OpenDir,  \* the directories the program has open
  Parent, MountName,  \* the parents and the names of the mount points that are asked for
  MaxPoint, \* bound on the number of mount points
  MaxLen,   \* the length of a path that memory is too small for
  None

Node == Dir \cup File \cup Link
Names == Seq(Name \cup {Home})
Written == Seq(Name \cup {Home, Up, Here, Slash})
Place == Node \cup [host : Written]   \* what a struct stat tells of
Point == [kind : {"path"}, path : [abs : BOOLEAN, names : Written]]
           \cup [kind : {"image"}, index : Index]

ASSUME WordAssumption == /\ {Up, Here, Slash} \cap (Name \cup {Home}) = {}
                         /\ Up # Here /\ Up # Slash /\ Here # Slash
ASSUME TreeAssumption == /\ 0 \in Index
                         /\ RootOf \in [Index -> Dir]
                         /\ DOMAIN Entry = Dir
                         /\ \A d \in Dir : /\ DOMAIN Entry[d] \subseteq Name
                                           /\ \A n \in DOMAIN Entry[d] : Entry[d][n] \in Node
ASSUME TextAssumption == /\ Text \subseteq [abs : BOOLEAN, names : Written]
                         /\ Links \subseteq [Link -> Text]
                         /\ Points \subseteq Point
                         /\ Path \cup RawPath \cup Parent \subseteq Written
                         /\ MountName \subseteq Name /\ OpenDir \subseteq Dir
\* rel: the path is read from the directory of a descriptor.
Op == {"stat", "lstat", "readlink", "access", "open", "open_nofollow", "mount"}
Follows(op) == op \in {"stat", "access", "open"}
Call == [op : Op \ {"mount"}, rel : BOOLEAN, from : Dir, names : Written]
          \cup [op : {"mount"}, rel : {TRUE}, from : Dir, names : Written, name : Name, to : Point]
Result == [ret : {"continue"}, st : Place] \cup [ret : {"outside"}, lnk : Written]
            \cup [ret : {"error", "memory"}]
Answer == [what : {"node"}, node : Place] \cup [what : {"host"}, path : Written, follow : BOOLEAN]
            \cup [what : {"error", "memory", "mounted"}]

ASSUME NoneAssumption == None \notin Node \cup Point \cup Call \cup Result \cup Answer

VARIABLES
  link,    \* link[l]: the contents of the link l
  points,  \* the mount table: what is mounted over a name in a directory
  pc,      \* where the call is
  call,    \* the call
  nested,  \* is the walk that of a tebako_stat inside find_inode_abs?
  at,      \* the inode that is reached
  rest,    \* the rest of the path
  seen,    \* the inode whose attributes were read last
  res,     \* what find_inode_abs returned
  ans,     \* what the call returned
  asked    \* the last mount point that was made, as it was asked for, and the table before
vars == <<link, points, pc, call, nested, at, rest, seen, res, ans, asked>>

MountTable == [Node \X (Name \cup {Home}) -> Point \cup {None}]

TypeOK == /\ link \in [Link -> Text]
          /\ points \in MountTable
          /\ pc \in {"idle", "walk", "reply", "done"}
          /\ call \in Call \cup {None} /\ (pc # "idle" => call # None)
          /\ nested \in BOOLEAN
          /\ at \in Node /\ seen \in Node
          /\ rest \in Written
          /\ res \in Result \cup {None} /\ (pc = "reply" => res # None)
          /\ pc = "reply" /\ call.op = "mount" /\ res.ret = "continue" => res.st \in Node
          /\ ans \in Answer \cup {None} /\ (pc = "done" => ans # None)
          /\ asked \in [names : Written, name : Name, to : Point, before : MountTable] \cup {None}

NoCall == /\ pc = "idle" /\ call = None /\ nested = FALSE /\ at = RootOf[0]
          /\ seen = RootOf[0] /\ rest = <<>> /\ res = None /\ ans = None

Init == /\ link \in Links
        /\ points = [p \in Node \X (Name \cup {Home}) |-> None]
        /\ NoCall
        /\ asked = None

--------------------------------------------------------------------------------
(* The walk.  The guards of the steps are those of the loop of find_inode.   *)

Error == [ret |-> "error"]
OutOfMemory == [ret |-> "memory"]
Continue(st) == [ret |-> "continue", st |-> st]

Finish(result) == /\ pc' = "reply"
                  /\ res' = result
                  /\ UNCHANGED <<link, points, call, nested, at, rest, seen, ans, asked>>

Go(node, path, st) == /\ at' = node
                      /\ rest' = path
                      /\ seen' = st
                      /\ UNCHANGED <<link, points, pc, call, res, ans, asked>>

OnHost(path) == IF path \in HostPath THEN Continue([host |-> path]) ELSE Error

\* Mutant: the host is asked by find_inode_abs, as it is in the nested call.
AbsoluteLink_AsksHost(path, st) ==
  IF path = <<>> \/ Head(path) # Home
  THEN Finish(OnHost(path))
  ELSE IF Follows(call.op)
  THEN Go(RootOf[0], Tail(path), RootOf[0]) /\ nested' = TRUE
  ELSE Finish(Continue(st))

\* find_inode_abs, when find_inode stopped at a path that is absolute: st is what it
\* had looked at last.  The nested call answers for the host as well.
AbsoluteLink(path, st) ==
  IF path = <<>> \/ Head(path) # Home
  THEN Finish(IF nested THEN OnHost(path) ELSE [ret |-> "outside", lnk |-> path])
  ELSE IF Follows(call.op)
  THEN Go(RootOf[0], Tail(path), RootOf[0]) /\ nested' = TRUE
  ELSE Finish(Continue(st))

\* stdfs::path::lexically_normal: a name goes with the ".." that follows it; one at
\* the root goes, and one at the start of a relative path stays.  Nothing left is ".",
\* and what ended in a directory ends in a "/".
Extended(abs, path, name) ==
  IF name \in {Here, Slash} THEN path
  ELSE IF name # Up THEN Append(path, name)
  ELSE IF path # <<>> /\ Last(path) # Up THEN Front(path)
  ELSE IF abs THEN path ELSE Append(path, Up)
Shortened(abs, names) ==
  LET path[k \in 0 .. Len(names)] ==
        IF k = 0 THEN <<>> ELSE Extended(abs, path[k - 1], names[k])
  IN  path[Len(names)]
LexicallyNormal(abs, names) ==
  LET path == Shortened(abs, names)
  IN  IF names = <<>> \/ (abs /\ path = <<>>) THEN <<>>
      ELSE IF path = <<>> THEN <<Here>>
      ELSE IF Last(names) \in {Up, Here, Slash} /\ Last(path) # Up THEN Append(path, Slash)
      ELSE path

\* Mutant: the link is read from the root of the image.
ProcessLink_FromRoot(text, tail, st) ==
  LET path == LexicallyNormal(text.abs, text.names \o tail)
  IN  IF Len(path) > MaxLen THEN Finish(OutOfMemory)
      ELSE IF text.abs THEN AbsoluteLink(path, st)
      ELSE Go(RootOf[0], path, st) /\ UNCHANGED nested

\* Mutant: the new path is not made normal.
ProcessLink_AsWritten(text, tail, st) ==
  LET path == text.names \o tail
  IN  IF Len(path) > MaxLen THEN Finish(OutOfMemory)
      ELSE IF text.abs THEN AbsoluteLink(path, st)
      ELSE Go(at, path, st) /\ UNCHANGED nested

\* process_link; bad_alloc ends as ENOMEM.
ProcessLink(text, tail, st) ==
  LET path == LexicallyNormal(text.abs, text.names \o tail)
  IN  IF Len(path) > MaxLen THEN Finish(OutOfMemory)
      ELSE IF text.abs THEN AbsoluteLink(path, st)
      ELSE Go(at, path, st) /\ UNCHANGED nested

\* An empty element ends the loop; nothing can be mounted over "..".
Walking == pc = "walk" /\ rest # <<>> /\ Head(rest) # Slash
Over == IF Head(rest) \in Name \cup {Home} THEN points[<<at, Head(rest)>>] ELSE None
HasEntry == at \in Dir /\ Head(rest) \in DOMAIN Entry[at]
Found == Entry[at][Head(rest)]

\* Mutant: the last link is followed by every call.
ToBeFollowed_Always == Found \in Link

\* The condition of process_inode.
ToBeFollowed == Found \in Link /\ (Len(rest) > 1 \/ Follows(call.op))

CrossToPath == /\ Walking /\ Over # None /\ Over.kind = "path"
               /\ ProcessLink(Over.path, Tail(rest), seen)

CrossToImage == /\ Walking /\ Over # None /\ Over.kind = "image"
                /\ Go(RootOf[Over.index], Tail(rest), RootOf[Over.index])
                /\ UNCHANGED nested

NoEntry == Walking /\ Over = None /\ ~HasEntry /\ Finish(Error)

Descend == /\ Walking /\ Over = None /\ HasEntry /\ ~ToBeFollowed
           /\ Go(Found, Tail(rest), Found)
           /\ UNCHANGED nested

\* Mutant: a relative link is tried again at once, with the name it was found under.
FollowLink_Again == /\ Walking /\ Over = None /\ HasEntry /\ ToBeFollowed
                    /\ IF link[Found].abs THEN ProcessLink(link[Found], Tail(rest), Found)
                       ELSE UNCHANGED vars

FollowLink == /\ Walking /\ Over = None /\ HasEntry /\ ToBeFollowed
              /\ ProcessLink(link[Found], Tail(rest), Found)

Arrive == pc = "walk" /\ ~Walking /\ Finish(Continue(seen))

Walk == CrossToPath \/ CrossToImage \/ NoEntry \/ Descend \/ FollowLink \/ Arrive

--------------------------------------------------------------------------------
(* The calls.                                                                *)

Start(from, names) == /\ pc = "idle"
                      /\ pc' = "walk"
                      /\ at' = from /\ rest' = names /\ seen' = from
                      /\ UNCHANGED <<link, points, nested, res, ans, asked>>

\* A path in the image, and one that is read from an open directory, as it is given.
StartAtRoot(op, names) ==
  /\ Start(RootOf[0], names)
  /\ call' = [op |-> op, rel |-> FALSE, from |-> RootOf[0], names |-> names]
StartAtDir(op, dir, names) ==
  /\ Start(dir, names)
  /\ call' = [op |-> op, rel |-> TRUE, from |-> dir, names |-> names]

\* One item of process_mountpoints: the parent is looked up from the root.
StartMount(parent, name, to) ==
  /\ Start(RootOf[0], parent)
  /\ call' = [op |-> "mount", rel |-> TRUE, from |-> RootOf[0], names |-> parent,
              name |-> name, to |-> to]

Done(answer) == /\ pc' = "done"
                /\ ans' = answer
                /\ UNCHANGED <<link, call, nested, at, rest, seen, res>>

OfHost(path, follow) == [what |-> "host", path |-> path, follow |-> follow]

\* A path outside is handed to the host; fstatat does that with tebako_stat.
HostAnswer == OfHost(res.lnk, Follows(call.op) \/ (call.rel /\ call.op = "lstat"))

\* The text of the link, or EINVAL; ELOOP.
Refused == \/ call.op = "readlink" /\ res.st \notin Link
           \/ call.op = "open_nofollow" /\ res.st \in Link
NodeAnswer == IF Refused THEN [what |-> "error"] ELSE [what |-> "node", node |-> res.st]

Reply == /\ pc = "reply" /\ call.op # "mount"
         /\ Done(CASE res.ret \in {"error", "memory"} -> [what |-> res.ret]
                   [] res.ret = "outside" -> HostAnswer
                   [] res.ret = "continue" -> NodeAnswer)
         /\ UNCHANGED <<points, asked>>

Return == /\ pc = "done"
          /\ pc' = "idle" /\ call' = None /\ nested' = FALSE /\ at' = RootOf[0]
          /\ seen' = RootOf[0] /\ rest' = <<>> /\ res' = None /\ ans' = None
          /\ UNCHANGED <<link, points, asked>>

Taken == points[<<res.st, call.name>>] # None

\* Mutant: the mount point is entered in the root of the image.
Mount_AtRoot == /\ pc = "reply" /\ call.op = "mount" /\ res.ret = "continue" /\ ~Taken
                /\ points' = [points EXCEPT ![<<RootOf[0], call.name>>] = call.to]
                /\ asked' = [names |-> call.names, name |-> call.name, to |-> call.to, before |-> points]
                /\ Done([what |-> "mounted"])

Mount == /\ pc = "reply" /\ call.op = "mount" /\ res.ret = "continue" /\ ~Taken
         /\ points' = [points EXCEPT ![<<res.st, call.name>>] = call.to]
         /\ asked' = [names |-> call.names, name |-> call.name, to |-> call.to, before |-> points]
         /\ Done([what |-> "mounted"])

\* emplace keeps what is there.  Nobody looks at its answer for a path of the host.
MountTaken == /\ pc = "reply" /\ call.op = "mount" /\ res.ret = "continue" /\ Taken
              /\ Done([what |-> IF call.to.kind = "image" THEN "error" ELSE "mounted"])
              /\ UNCHANGED <<points, asked>>

MountThrows == /\ pc = "reply" /\ call.op = "mount" /\ res.ret # "continue"
               /\ Done([what |-> "error"])
               /\ UNCHANGED <<points, asked>>

Mounted == {p \in DOMAIN points : points[p] # None}
MayMount(parent, name) == \/ Cardinality(Mounted) < MaxPoint
                          \/ asked # None /\ asked.names = parent /\ asked.name = name

Next == \/ \E op \in Op \ {"mount"}, names \in Path : StartAtRoot(op, names)
        \/ \E op \in {"stat", "lstat", "open", "open_nofollow"}, dir \in OpenDir, names \in RawPath :
             StartAtDir(op, dir, names)
        \/ \E parent \in Parent, name \in MountName, to \in Points :
             MayMount(parent, name) /\ StartMount(parent, name, to)
        \/ Walk \/ Reply \/ Mount \/ MountTaken \/ MountThrows \/ Return

\* A call is one thread's loop, and nothing in it waits.
Spec == Init /\ [][Next]_vars /\ WF_vars(Walk \/ Reply \/ Mount \/ MountTaken \/ MountThrows)
================================================================================
