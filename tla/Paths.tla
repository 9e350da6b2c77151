--------------------------------- MODULE Paths ---------------------------------
(***************************************************************************)
(* Paths, and the tree they lead through: the directories of the host, and *)
(* the image at its mount point.  A path is a sequence of names; what the  *)
(* program passes may be relative and may climb with "..", what the        *)
(* library keeps is absolute and lexically normal.                         *)
(***************************************************************************)
EXTENDS Naturals, Sequences, SequencesExt

CONSTANTS
  Name, Up,    \* names, and ".."
  Mount,       \* the name of the mount point, in the root of the host
  ImageFile,   \* paths of the files of the image
  LinkTo       \* paths of the links that lead out of the image, and where to

Normal == Seq(Name)
Given == [abs : BOOLEAN, names : Seq(Name \cup {Up})]

\* stdfs::path::lexically_normal: a name goes with the ".." that follows it; one at
\* the root goes, and one at the start of a relative path stays.
Extended(abs, path, name) ==
  IF name # Up THEN Append(path, name)
  ELSE IF path # <<>> /\ Last(path) # Up THEN Front(path)
  ELSE IF abs THEN path ELSE Append(path, Up)
LexicallyNormal(abs, names) ==
  LET path[k \in 0 .. Len(names)] ==
        IF k = 0 THEN <<>> ELSE Extended(abs, path[k - 1], names[k])
  IN  path[Len(names)]

\* A path that is read from a directory.
Expanded(dir, path) ==
  LexicallyNormal(TRUE, IF path.abs THEN path.names
                        ELSE dir \o LexicallyNormal(FALSE, path.names))

InMemfs(path) == path # <<>> /\ Head(path) = Mount

\* ---- what a path leads to ---------------------------------------------------
\* image: the directories of the image, none when it is not mounted
\* there: the directories of the host

\* lstat and readlink do not follow a link at the end.
LinksOn(op, path) == {l \in DOMAIN LinkTo : IsPrefix(l, path) /\ (op = "lstat" => l # path)}

Leaves(op, image, path) == image # {} /\ LinksOn(op, path) # {}

Followed(op, path) == LET l == CHOOSE l \in LinksOn(op, path) : TRUE
                      IN LinkTo[l] \o SubSeq(path, Len(l) + 1, Len(path))

ImageKind(image, path) == IF path \in image THEN "dir"
                          ELSE IF image # {} /\ path \in ImageFile THEN "file"
                          ELSE IF image # {} /\ path \in DOMAIN LinkTo THEN "link"
                          ELSE "none"

HostKind(there, path) == IF path \in there THEN "dir" ELSE "none"

\* As stat sees it.
Kind(image, there, path) ==
  IF ~InMemfs(path) THEN HostKind(there, path)
  ELSE IF Leaves("look", image, path) THEN HostKind(there, Followed("look", path))
  ELSE ImageKind(image, path)

\* mkdir and rmdir on the host, where nothing is made at the mount point.
CanMake(there, path) == path # <<>> /\ ~InMemfs(path) /\ path \notin there /\ Front(path) \in there
CanRemove(there, path) == /\ path \in there \ {<<>>}
                          /\ \A d \in there : IsPrefix(path, d) => d = path

\* What a call that changes a tree makes of the directories of the host.
Changed(op, there, path) == IF op = "make" /\ CanMake(there, path) THEN there \cup {path}
                            ELSE IF op = "remove" /\ CanRemove(there, path) THEN there \ {path}
                            ELSE there

\* ---- answers of the calls ---------------------------------------------------

Answer(what) == [what |-> what, where |-> <<>>]
Here(dir) == [what |-> "ok", where |-> dir]
OnHost(op, there, path) ==
  Answer(IF op \in {"look", "lstat"} THEN HostKind(there, path)
         ELSE IF Changed(op, there, path) # there THEN "ok" ELSE "fail")
================================================================================
