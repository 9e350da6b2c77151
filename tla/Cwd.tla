---------------------------------- MODULE Cwd ----------------------------------
(***************************************************************************)
(* The working directory: tebako_cwd of tebako-io-helpers.cpp beside the   *)
(* one the system keeps for the process, chdir and getcwd of dir-ctl.cpp,  *)
(* and the calls on paths that go to the image or to the host by it        *)
(* (dir-ctl.cpp, file-ctl.cpp).                                            *)
(*                                                                         *)
(* Each access to tebako_cwd takes its lock; a call makes several, and     *)
(* system calls between them.                                              *)
(***************************************************************************)
EXTENDS Paths

CONSTANTS
  Thread,
  Image,    \* what may be mounted: sets of directories of an image
  HostDir,  \* the directories of the host at the start
  Nothing,
  Program   \* the kinds of program (see Programs)

Op == {"chdir", "getcwd", "look", "lstat", "make", "remove"}
CallOf == [op : Op, path : Given]

\* Does a program call from one thread at a time; do its paths stay on their side
\* of the mount point (see KeepsSide); may memory not suffice to keep a directory;
\* which threads change the directory; which calls does it make.
Programs == [alone : BOOLEAN, tame : BOOLEAN, throws : BOOLEAN,
             walkers : SUBSET Thread, calls : SUBSET CallOf]

ASSUME ProgramAssumption == Program \subseteq Programs
ASSUME NothingAssumption == Nothing \notin CallOf
ASSUME MountAssumption == Mount \in Name /\ Up \notin Name
ASSUME ImageAssumption == \A i \in Image : i # {} /\ \A d \in i : d \in Normal /\ InMemfs(d)
ASSUME FileAssumption == ImageFile \subseteq Normal
ASSUME HostAssumption == \A d \in HostDir : d \in Normal /\ ~InMemfs(d)
ASSUME LinkAssumption == /\ \A l \in DOMAIN LinkTo : l \in Normal /\ InMemfs(l)
                         /\ \A l \in DOMAIN LinkTo : LinkTo[l] \in Normal /\ ~InMemfs(LinkTo[l])

VARIABLES
  prog,    \* the program that runs
  root,    \* how far mounting and unmounting are
  alive,   \* tebako_cwd points to an object
  inside,  \* its path p is not empty: is_in
  cwd,     \* the path p
  host,    \* the working directory the system keeps
  image,   \* the directories of the image
  there,   \* the directories of the host
  pc,      \* per thread: place in a call
  call,    \* and the call
  meant,   \* what the last chdir asked for that succeeded, or failed after it took effect
  inForce  \* per thread: the directories in force since its call began
mountVars == <<prog, root, alive, image>>
vars == <<prog, root, alive, inside, cwd, host, image, there, pc, call, meant, inForce>>

Place == {"idle", "stat", "set", "chdir", "clear", "copy", "getcwd", "image", "host", "done"}
NoCall == [op |-> "getcwd", path |-> [abs |-> FALSE, names |-> <<>>],
           to |-> <<>>,     \* t_path, what the library takes the path for
           base |-> {},     \* the directory it was read from, if it was relative
           answer |-> {}]   \* what is returned

TypeOK == /\ prog \in Program
          /\ root \in {"up", "dropped", "down", "loaded"}
          /\ alive = (root = "up")
          /\ inside \in BOOLEAN /\ (inside => alive)
          /\ cwd \in Normal
          /\ host \in Normal
          /\ image \in Image \cup {{}} /\ (image = {}) = (root = "down")
          /\ \A d \in there : d \in Normal /\ ~InMemfs(d)
          /\ pc \in [Thread -> Place]
          /\ meant \in Normal
          /\ \A t \in Thread : /\ DOMAIN call[t] = DOMAIN NoCall
                               /\ [op |-> call[t].op, path |-> call[t].path] \in CallOf
                               /\ (pc[t] = "done") = (call[t].answer # {})
                               /\ \A d \in inForce[t] \cup call[t].base : d \in Normal

Init == /\ prog \in Program
        /\ root = "up" /\ alive = TRUE
        /\ inside = FALSE /\ cwd = <<>>
        /\ host \in HostDir
        /\ image \in Image
        /\ there = HostDir
        /\ pc = [t \in Thread |-> "idle"]
        /\ call = [t \in Thread |-> NoCall]
        /\ meant = host
        /\ inForce = [t \in Thread |-> {}]

\* ---- where a path goes ------------------------------------------------------

\* Mutant: a relative path goes to the host, as before there was a directory in memfs.
IsTebakoPath_AbsoluteOnly(path) == path.abs /\ InMemfs(path.names)

\* Is the path for memfs?  The test for the mount point looks at the path as it was
\* given: a path that leads to memfs by a detour is not seen.
IsTebakoPath(path) == IF path.abs THEN InMemfs(path.names) ELSE inside

\* The path for memfs, normal: it may lie outside of memfs.
ToTebakoPath(path) == Expanded(cwd, path)

\* What the system makes of it.
OnHostSide(path) == Expanded(host, path)

\* A tame program names the image by its mount point first, and goes over the mount
\* point by absolute paths only.
KeepsSide(path) == IF path.abs THEN InMemfs(path.names) = InMemfs(Expanded(cwd, path))
                   ELSE IF inside THEN InMemfs(Expanded(cwd, path))
                   ELSE ~InMemfs(OnHostSide(path))

\* ---- the beginning and the end of a call ------------------------------------

\* The directories in force: the one the program has gone to, and one it is going to.
Coming == {call[u].to : u \in {v \in Thread : pc[v] \in {"set", "clear"}}}
Watch == inForce' = [t \in Thread |-> IF pc'[t] = "idle" THEN {}
                                      ELSE inForce[t] \cup {meant} \cup Coming']

Goto(t, place, c) == /\ pc' = [pc EXCEPT ![t] = place]
                     /\ call' = [call EXCEPT ![t] = c]
                     /\ Watch

Begins(t, c) == /\ pc[t] = "idle" /\ c \in prog.calls
                /\ root \in {"up", "down"}
                /\ prog.alone => \A u \in Thread : pc[u] = "idle"
                /\ prog.tame => KeepsSide(c.path)

Entered(c, to, base) == [op |-> c.op, path |-> c.path, to |-> to, base |-> base, answer |-> {}]

Finish(t, base, answer) == Goto(t, "done", [call[t] EXCEPT !.base = base, !.answer = {answer}])

Return(t) == /\ pc[t] = "done"
             /\ Goto(t, "idle", NoCall)
             /\ UNCHANGED <<mountVars, inside, cwd, host, there, meant>>

\* The directory a path was read from, when it was relative.
From(path, dir) == IF path.abs THEN {} ELSE {dir}

\* ---- chdir ------------------------------------------------------------------

Chdir(t, c) ==
  /\ c.op = "chdir" /\ t \in prog.walkers
  /\ Begins(t, c)
  /\ IF IsTebakoPath(c.path)
     THEN Goto(t, "stat", Entered(c, ToTebakoPath(c.path), From(c.path, cwd)))
     ELSE Goto(t, "chdir", Entered(c, <<>>, {}))
  /\ UNCHANGED <<mountVars, inside, cwd, host, there, meant>>

\* Mutant: anything that is there will do.
TebakoStat_NoDirTest(t) ==
  LET kind == Kind(image, there, call[t].to) IN
  /\ pc[t] = "stat"
  /\ IF kind # "none" THEN Goto(t, "set", call[t]) ELSE Finish(t, call[t].base, Answer("fail"))
  /\ UNCHANGED <<mountVars, inside, cwd, host, there, meant>>

\* tebako_stat asks to_tebako_path a second time, of a path that is absolute and
\* normal by now: one outside memfs goes to the host.
TebakoStat(t) ==
  LET kind == Kind(image, there, call[t].to) IN
  /\ pc[t] = "stat"
  /\ IF kind = "dir" THEN Goto(t, "set", call[t]) ELSE Finish(t, call[t].base, Answer("fail"))
  /\ UNCHANGED <<mountVars, inside, cwd, host, there, meant>>

\* tebako_set_cwd(p_path).
SetCwd(t) ==
  /\ pc[t] = "set"
  /\ cwd' = IF alive THEN call[t].to ELSE cwd
  /\ inside' = (alive \/ inside)
  /\ meant' = call[t].to
  /\ Finish(t, call[t].base, Answer("ok"))
  /\ UNCHANGED <<mountVars, host, there>>

\* Mutant: the library forgets its directory before the system has changed to the
\* other one.
HostChdir_ClearsFirst(t) ==
  LET d == OnHostSide(call[t].path)  base == From(call[t].path, host) IN
  /\ pc[t] = "chdir"
  /\ cwd' = <<>> /\ inside' = FALSE
  /\ IF inside THEN UNCHANGED <<host, pc, call>> /\ Watch
     ELSE IF d \in there
     THEN host' = d /\ Goto(t, "clear", [call[t] EXCEPT !.to = d, !.base = base])
     ELSE host' = host /\ Finish(t, base, Answer("fail"))
  /\ UNCHANGED <<mountVars, there, meant>>

\* tebako_set_cwd throws, and chdir fails with ENOMEM: before p is assigned, or after
\* it, when the '/' is appended.
SetCwdFails(t) ==
  /\ pc[t] = "set" /\ alive /\ prog.throws
  /\ \/ cwd' = call[t].to /\ inside' = TRUE /\ meant' = call[t].to
     \/ UNCHANGED <<cwd, inside, meant>>
  /\ Finish(t, call[t].base, Answer("fail"))
  /\ UNCHANGED <<mountVars, host, there>>

\* The chdir of the system.
HostChdir(t) ==
  LET d == OnHostSide(call[t].path)  base == From(call[t].path, host) IN
  /\ pc[t] = "chdir"
  /\ IF d \in there
     THEN host' = d /\ Goto(t, "clear", [call[t] EXCEPT !.to = d, !.base = base])
     ELSE host' = host /\ Finish(t, base, Answer("fail"))
  /\ UNCHANGED <<mountVars, inside, cwd, there, meant>>

\* Mutant: the library keeps its directory when the program has gone to the host.
ClearCwd_Keeps(t) ==
  /\ pc[t] = "clear"
  /\ meant' = call[t].to
  /\ Finish(t, call[t].base, Answer("ok"))
  /\ UNCHANGED <<mountVars, inside, cwd, host, there>>

\* tebako_set_cwd(NULL).
ClearCwd(t) ==
  /\ pc[t] = "clear"
  /\ cwd' = <<>> /\ inside' = FALSE
  /\ meant' = call[t].to
  /\ Finish(t, call[t].base, Answer("ok"))
  /\ UNCHANGED <<mountVars, host, there>>

\* tebako_set_cwd(NULL) throws, and chdir fails with ENOMEM: the host has moved all the
\* same, and with it the program, if it was there.
ClearCwdFails(t) ==
  /\ pc[t] = "clear" /\ alive /\ prog.throws
  /\ meant' = IF inside THEN meant ELSE call[t].to
  /\ Finish(t, call[t].base, Answer("fail"))
  /\ UNCHANGED <<mountVars, inside, cwd, host, there>>

\* ---- getcwd -----------------------------------------------------------------

\* tebako_get_cwd copies the path.
Getcwd(t, c) ==
  /\ c.op = "getcwd"
  /\ Begins(t, c)
  /\ IF inside THEN Goto(t, "copy", Entered(c, cwd, {cwd})) ELSE Goto(t, "getcwd", Entered(c, <<>>, {}))
  /\ UNCHANGED <<mountVars, inside, cwd, host, there, meant>>

\* The buffer has no size, or is too small, or there is none, or the copy fits.
CopyCwd(t) ==
  /\ pc[t] = "copy"
  /\ \E a \in {Here(call[t].to), Answer("fail")} : Finish(t, call[t].base, a)
  /\ UNCHANGED <<mountVars, inside, cwd, host, there, meant>>

HostGetcwd(t) ==
  /\ pc[t] = "getcwd"
  /\ \/ host \in there /\ Finish(t, {host}, Here(host))
     \/ Finish(t, {host}, Answer("fail"))
  /\ UNCHANGED <<mountVars, inside, cwd, host, there, meant>>

\* ---- the calls on paths -----------------------------------------------------

Use(t, c) ==
  /\ c.op \in {"look", "lstat", "make", "remove"}
  /\ Begins(t, c)
  /\ IF IsTebakoPath(c.path)
     THEN Goto(t, "image", Entered(c, ToTebakoPath(c.path), From(c.path, cwd)))
     ELSE Goto(t, "host", Entered(c, <<>>, {}))
  /\ UNCHANGED <<mountVars, inside, cwd, host, there, meant>>

\* What dwarfs looks for: the path without the letters of the mount point.  When the
\* path is not in memfs it is too short, or what is left may name anything.
Searched(p) == IF InMemfs(p) THEN {p}
               ELSE {p} \cup image \cup (IF image = {} THEN {} ELSE ImageFile \cup DOMAIN LinkTo)

\* dwarfs_stat and its like.  A link that leads outside is handed to the host, and a
\* call that would change the image fails with EROFS, whatever the path leads to.
UseImage(t) ==
  LET op == call[t].op IN
  /\ pc[t] = "image"
  /\ \E p \in Searched(call[t].to) :
       IF Leaves(op, image, p)
       THEN /\ Finish(t, call[t].base, OnHost(op, there, Followed(op, p)))
            /\ there' = Changed(op, there, Followed(op, p))
       ELSE /\ Finish(t, call[t].base,
                      Answer(IF op \in {"look", "lstat"} THEN ImageKind(image, p) ELSE "fail"))
            /\ UNCHANGED there
  /\ UNCHANGED <<mountVars, inside, cwd, host, meant>>

UseHost(t) ==
  LET op == call[t].op  h == OnHostSide(call[t].path) IN
  /\ pc[t] = "host"
  /\ Finish(t, From(call[t].path, host), OnHost(op, there, h))
  /\ there' = Changed(op, there, h)
  /\ UNCHANGED <<mountVars, inside, cwd, host, meant>>

\* ---- mounting and unmounting, while no call runs ----------------------------

\* Mutant: the release forgets the working directory.
DropCwd_Keeps ==
  /\ root = "up" /\ \A t \in Thread : pc[t] = "idle"
  /\ root' = "dropped" /\ alive' = FALSE
  /\ UNCHANGED <<prog, image, inside, cwd, host, there, pc, call, meant, inForce>>

\* release_memfs_resources, of unmounting or of mounting another root.
DropCwd == /\ root = "up" /\ \A t \in Thread : pc[t] = "idle"
           /\ root' = "dropped"
           /\ alive' = FALSE
           /\ cwd' = <<>> /\ inside' = FALSE
           /\ meant' = host
           /\ UNCHANGED <<prog, image, host, there, pc, call, inForce>>

EraseImage == /\ root = "dropped"
              /\ root' = "down"
              /\ image' = {}
              /\ UNCHANGED <<prog, alive, inside, cwd, host, there, pc, call, meant, inForce>>

\* An image that does not load is erased again: nothing is left of it.
LoadImage == /\ root = "down" /\ \A t \in Thread : pc[t] = "idle"
             /\ root' = "loaded"
             /\ image' \in Image
             /\ UNCHANGED <<prog, alive, inside, cwd, host, there, pc, call, meant, inForce>>

InitCwd == /\ root = "loaded"
           /\ root' = "up"
           /\ alive' = TRUE
           /\ UNCHANGED <<prog, image, inside, cwd, host, there, pc, call, meant, inForce>>

\* ---- specification ----------------------------------------------------------

AnyCall == UNION {p.calls : p \in Program}

Step(t) == \/ \E c \in AnyCall : Chdir(t, c) \/ Getcwd(t, c) \/ Use(t, c)
           \/ TebakoStat(t) \/ SetCwd(t) \/ SetCwdFails(t)
           \/ HostChdir(t) \/ ClearCwd(t) \/ ClearCwdFails(t)
           \/ CopyCwd(t) \/ HostGetcwd(t) \/ UseImage(t) \/ UseHost(t) \/ Return(t)

Next == \/ \E t \in Thread : Step(t)
        \/ DropCwd \/ EraseImage \/ LoadImage \/ InitCwd

Spec == Init /\ [][Next]_vars

--------------------------------------------------------------------------------
(* Properties.                                                               *)

Walking == \E t \in Thread : pc[t] \in {"set", "clear"}
OneWalker == prog.alone \/ \A t, u \in prog.walkers : t = u

\* The working directory of the library is a directory of the mounted image, or is
\* reached through a link of it, for a program that keeps to its side of the mount
\* point, whatever is mounted meanwhile and whichever threads change it.
CwdIsADirectory ==
  prog.tame /\ inside =>
    InMemfs(cwd) /\ (cwd \in image \/ Leaves("look", image, cwd))

\* Whichever of the two directories counts is the one that the last chdir asked for that
\* took effect, although they are changed one after the other: one that succeeded, or one
\* that failed with ENOMEM after it had changed the library's directory, or the host's when
\* the program was there.  That one answers -1 and the program is elsewhere; but the
\* two directories never disagree, and any other chdir that fails moves the program nowhere,
\* the one included that moved the host behind a program that is still in the image.
\* (A program that is not tame may ask for "/memfs/../usr" when no image is mounted: chdir
\* returns 0 and changes nothing, for both properties.)
DirectoryIsAsMeant ==
  prog.tame /\ OneWalker /\ ~Walking => (IF inside THEN cwd ELSE host) = meant

\* A relative path is read from a directory that the program was in, or was going to,
\* at some time during the call: never from one that the host or the image was left
\* in long ago, although the two are consulted one after the other, and a chdir that
\* ran out of memory may have changed one of them alone.
RelativePathsAreAnchored ==
  prog.tame /\ OneWalker => \A t \in Thread : pc[t] = "done" => call[t].base \subseteq inForce[t]

\* A program that makes one call at a time and keeps to its side sees one working
\* directory in one tree of host and image (WorkingDir), which moves when chdir returns
\* 0 and, if memory may run out, at times when it returns -1.
Asked(t) == IF pc[t] = "idle" THEN Nothing ELSE [op |-> call[t].op, path |-> call[t].path]
One == INSTANCE WorkingDir WITH
         wd <- meant,
         scarce <- prog.throws,
         asked <- [t \in Thread |-> Asked(t)],
         answer <- [t \in Thread |-> call[t].answer]
Careful == prog.alone /\ prog.tame
OneDirectory == One!Init /\ [][Careful => [One!Next]_One!vars]_vars
================================================================================
