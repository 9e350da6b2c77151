------------------------------- MODULE Cwd_proofs -------------------------------
(* What holds of the working directory for every tree, image and program.       *)
EXTENDS Cwd, SequenceTheorems, Induction

Walks == {"stat", "set", "chdir", "clear"}
Uses == {"look", "lstat", "make", "remove"}

Fields(r) == [op |-> r.op, path |-> r.path, to |-> r.to, base |-> r.base, answer |-> r.answer]

\* The parts of the invariant.  Everything a step may do to a call, and no more.
Shape == /\ pc \in [Thread -> Place]
         /\ call = [t \in Thread |-> call[t]]
         /\ inForce = [t \in Thread |-> inForce[t]]
         /\ \A t \in Thread : call[t] = Fields(call[t])

\* An image, and an object for the working directory, unless something is being
\* mounted; nothing is while a call runs.
Mounted == /\ prog \in Program
           /\ root \in {"up", "dropped", "down", "loaded"}
           /\ alive = (root = "up")
           /\ inside \in BOOLEAN /\ (inside => alive)
           /\ image \in Image \cup {{}}
           /\ (image = {}) = (root = "down")
           /\ root \in {"dropped", "loaded"} => \A t \in Thread : pc[t] = "idle"

\* Which call is in which place, and who may be in it.
Owned == /\ \A t \in Thread :
              /\ pc[t] \in Walks => t \in prog.walkers /\ call[t].op = "chdir"
              /\ pc[t] \in {"copy", "getcwd"} => call[t].op = "getcwd"
              /\ pc[t] \in {"image", "host"} => call[t].op \in Uses
              /\ pc[t] # "idle" => [op |-> call[t].op, path |-> call[t].path] \in CallOf
              /\ (pc[t] = "done") = (call[t].answer # {})
         /\ prog.alone => \A t, u \in Thread : pc[t] # "idle" /\ pc[u] # "idle" => t = u

Basics == Shape /\ Mounted /\ Owned

--------------------------------------------------------------------------------

\* What a step of thread t does to the calls: t goes on to a place, the others stay.
Moved(t, place, c) ==
  /\ Shape'
  /\ pc'[t] = place /\ call'[t] = c
  /\ \A u \in Thread : u # t => pc'[u] = pc[u] /\ call'[u] = call[u]
  /\ \A u \in Thread : inForce'[u] = IF pc'[u] = "idle" THEN {}
                                     ELSE inForce[u] \cup {meant} \cup Coming'

Ended(t, base, a) == [op |-> call[t].op, path |-> call[t].path, to |-> call[t].to,
                      base |-> base, answer |-> {a}]
Cleared(t, to, base) == [op |-> call[t].op, path |-> call[t].path, to |-> to,
                         base |-> base, answer |-> call[t].answer]

\* A call that goes to its next place moves only its own thread.
LEMMA GoesOn ==
  ASSUME Shape, NEW t \in Thread, NEW place \in Place, NEW c, Goto(t, place, c), c = Fields(c)
  PROVE Moved(t, place, c)
<1>1. pc' = [pc EXCEPT ![t] = place] /\ call' = [call EXCEPT ![t] = c] /\ Watch
  BY DEF Goto
<1>2. /\ pc' \in [Thread -> Place] /\ pc'[t] = place
      /\ \A u \in Thread : u # t => pc'[u] = pc[u]
  BY <1>1 DEF Shape
<1>3. /\ call' = [u \in Thread |-> call'[u]] /\ call'[t] = c
      /\ \A u \in Thread : u # t => call'[u] = call[u]
  BY <1>1 DEF Shape
<1>4. inForce' = [u \in Thread |-> IF pc'[u] = "idle" THEN {} ELSE inForce[u] \cup {meant} \cup Coming']
  BY <1>1 DEF Watch
<1>5. \A u \in Thread : call'[u] = Fields(call'[u])
  BY <1>3 DEF Shape
<1> QED
  BY <1>2, <1>3, <1>4, <1>5 DEF Shape, Moved

\* A call that finishes moves only its own thread, to the place where it returns.
LEMMA Ends ==
  ASSUME Shape, NEW t \in Thread, NEW base, NEW a, Finish(t, base, a)
  PROVE Moved(t, "done", Ended(t, base, a))
<1> DEFINE c == [call[t] EXCEPT !.base = base, !.answer = {a}]
<1>1. c = Ended(t, base, a)
  <2> DEFINE d == [call[t] EXCEPT !.base = base]
  <2>1. d = [op |-> call[t].op, path |-> call[t].path, to |-> call[t].to, base |-> base,
             answer |-> call[t].answer]
    BY DEF Shape, Fields
  <2>2. c = [d EXCEPT !.answer = {a}]
    BY Zenon
  <2> HIDE DEF c, d
  <2> QED
    BY <2>1, <2>2 DEF Ended
<1>2. Ended(t, base, a) = Fields(Ended(t, base, a))
  BY DEF Fields, Ended
<1>3. Goto(t, "done", c) /\ "done" \in Place
  BY DEF Finish, Place
<1> HIDE DEF c
<1> QED
  BY <1>1, <1>2, <1>3, GoesOn

\* A chdir on the host goes on to clear the directory in the image.
LEMMA GoesToClear ==
  ASSUME Shape, NEW t \in Thread, NEW to, NEW base,
         Goto(t, "clear", [call[t] EXCEPT !.to = to, !.base = base])
  PROVE Moved(t, "clear", Cleared(t, to, base))
<1> DEFINE c == [call[t] EXCEPT !.to = to, !.base = base]
<1>1. c = Cleared(t, to, base)
  <2> DEFINE d == [call[t] EXCEPT !.to = to]
  <2>1. d = [op |-> call[t].op, path |-> call[t].path, to |-> to, base |-> call[t].base,
             answer |-> call[t].answer]
    BY DEF Shape, Fields
  <2>2. c = [d EXCEPT !.base = base]
    BY Zenon
  <2> HIDE DEF c, d
  <2> QED
    BY <2>1, <2>2 DEF Cleared
<1>2. Cleared(t, to, base) = Fields(Cleared(t, to, base))
  BY DEF Fields, Cleared
<1>3. Goto(t, "clear", c) /\ "clear" \in Place
  BY DEF Place
<1> HIDE DEF c
<1> QED
  BY <1>1, <1>2, <1>3, GoesOn

\* A call that begins goes on to its first place.
LEMMA Enters ==
  ASSUME Shape, NEW t \in Thread, NEW place \in Place, NEW c, NEW to, NEW base,
         Goto(t, place, Entered(c, to, base))
  PROVE Moved(t, place, Entered(c, to, base))
<1>1. Entered(c, to, base) = Fields(Entered(c, to, base))
  BY DEF Entered, Fields
<1> QED
  BY <1>1, GoesOn

\* What the steps of a thread do to the calls.
LEMMA Moves ==
  ASSUME Shape, NEW t \in Thread
  PROVE /\ \A c : Chdir(t, c) => IF IsTebakoPath(c.path)
                                 THEN Moved(t, "stat", Entered(c, ToTebakoPath(c.path), From(c.path, cwd)))
                                 ELSE Moved(t, "chdir", Entered(c, <<>>, {}))
        /\ \A c : Getcwd(t, c) => IF inside THEN Moved(t, "copy", Entered(c, cwd, {cwd}))
                                  ELSE Moved(t, "getcwd", Entered(c, <<>>, {}))
        /\ \A c : Use(t, c) => IF IsTebakoPath(c.path)
                               THEN Moved(t, "image", Entered(c, ToTebakoPath(c.path), From(c.path, cwd)))
                               ELSE Moved(t, "host", Entered(c, <<>>, {}))
        /\ TebakoStat(t) => IF Kind(image, there, call[t].to) = "dir" THEN Moved(t, "set", call[t])
                            ELSE Moved(t, "done", Ended(t, call[t].base, Answer("fail")))
        /\ SetCwd(t) => Moved(t, "done", Ended(t, call[t].base, Answer("ok")))
        /\ SetCwdFails(t) => Moved(t, "done", Ended(t, call[t].base, Answer("fail")))
        /\ HostChdir(t) => LET d == OnHostSide(call[t].path)  base == From(call[t].path, host) IN
                           IF d \in there THEN Moved(t, "clear", Cleared(t, d, base))
                           ELSE Moved(t, "done", Ended(t, base, Answer("fail")))
        /\ ClearCwd(t) => Moved(t, "done", Ended(t, call[t].base, Answer("ok")))
        /\ ClearCwdFails(t) => Moved(t, "done", Ended(t, call[t].base, Answer("fail")))
        /\ CopyCwd(t) => \E a \in {Here(call[t].to), Answer("fail")} :
                           Moved(t, "done", Ended(t, call[t].base, a))
        /\ HostGetcwd(t) => \E a \in {Here(host), Answer("fail")} : Moved(t, "done", Ended(t, {host}, a))
        /\ UseImage(t) => \E a : Moved(t, "done", Ended(t, call[t].base, a))
        /\ UseHost(t) => Moved(t, "done", Ended(t, From(call[t].path, host),
                                               OnHost(call[t].op, there, OnHostSide(call[t].path))))
        /\ Return(t) => Moved(t, "idle", NoCall)
<1>1. ASSUME NEW c, Chdir(t, c)
      PROVE IF IsTebakoPath(c.path)
            THEN Moved(t, "stat", Entered(c, ToTebakoPath(c.path), From(c.path, cwd)))
            ELSE Moved(t, "chdir", Entered(c, <<>>, {}))
  BY <1>1, Enters DEF Chdir, Place
<1>2. ASSUME NEW c, Getcwd(t, c)
      PROVE IF inside THEN Moved(t, "copy", Entered(c, cwd, {cwd}))
            ELSE Moved(t, "getcwd", Entered(c, <<>>, {}))
  BY <1>2, Enters DEF Getcwd, Place
<1>3. ASSUME NEW c, Use(t, c)
      PROVE IF IsTebakoPath(c.path)
            THEN Moved(t, "image", Entered(c, ToTebakoPath(c.path), From(c.path, cwd)))
            ELSE Moved(t, "host", Entered(c, <<>>, {}))
  BY <1>3, Enters DEF Use, Place
<1>4. ASSUME TebakoStat(t)
      PROVE IF Kind(image, there, call[t].to) = "dir" THEN Moved(t, "set", call[t])
            ELSE Moved(t, "done", Ended(t, call[t].base, Answer("fail")))
  <2>1. call[t] = Fields(call[t]) /\ "set" \in Place
    BY DEF Shape, Place
  <2> QED
    BY <1>4, <2>1, GoesOn, Ends DEF TebakoStat
<1>5. ASSUME SetCwd(t) PROVE Moved(t, "done", Ended(t, call[t].base, Answer("ok")))
  BY <1>5, Ends DEF SetCwd
<1>6. ASSUME HostChdir(t)
      PROVE LET d == OnHostSide(call[t].path)  base == From(call[t].path, host) IN
            IF d \in there THEN Moved(t, "clear", Cleared(t, d, base))
            ELSE Moved(t, "done", Ended(t, base, Answer("fail")))
  BY <1>6, GoesToClear, Ends DEF HostChdir
<1>7. ASSUME ClearCwd(t) PROVE Moved(t, "done", Ended(t, call[t].base, Answer("ok")))
  BY <1>7, Ends DEF ClearCwd
<1>13. ASSUME SetCwdFails(t) PROVE Moved(t, "done", Ended(t, call[t].base, Answer("fail")))
  BY <1>13, Ends DEF SetCwdFails
<1>14. ASSUME ClearCwdFails(t) PROVE Moved(t, "done", Ended(t, call[t].base, Answer("fail")))
  BY <1>14, Ends DEF ClearCwdFails
<1>8. ASSUME CopyCwd(t)
      PROVE \E a \in {Here(call[t].to), Answer("fail")} : Moved(t, "done", Ended(t, call[t].base, a))
  BY <1>8, Ends DEF CopyCwd
<1>9. ASSUME HostGetcwd(t)
      PROVE \E a \in {Here(host), Answer("fail")} : Moved(t, "done", Ended(t, {host}, a))
  BY <1>9, Ends DEF HostGetcwd
<1>10. ASSUME UseImage(t) PROVE \E a : Moved(t, "done", Ended(t, call[t].base, a))
  BY <1>10, Ends DEF UseImage
<1>11. ASSUME UseHost(t)
       PROVE Moved(t, "done", Ended(t, From(call[t].path, host),
                                    OnHost(call[t].op, there, OnHostSide(call[t].path))))
  BY <1>11, Ends DEF UseHost
<1>12. ASSUME Return(t) PROVE Moved(t, "idle", NoCall)
  <2>1. NoCall = Fields(NoCall) /\ "idle" \in Place
    BY DEF NoCall, Fields, Place
  <2> QED
    BY <1>12, <2>1, GoesOn DEF Return
<1> QED
  BY <1>1, <1>2, <1>3, <1>4, <1>5, <1>6, <1>7, <1>8, <1>9, <1>10, <1>11, <1>12, <1>13,
     <1>14

--------------------------------------------------------------------------------
(* Every program of the specification is one of Programs: its calls are calls.  *)

\* A step of a thread leaves mounting alone.
LEMMA StepsKeepMounts ==
  ASSUME NEW t \in Thread, Step(t)
  PROVE UNCHANGED mountVars
  BY DEF Step, Chdir, Getcwd, Use, TebakoStat, SetCwd, SetCwdFails, HostChdir, ClearCwd, ClearCwdFails,
         CopyCwd, HostGetcwd, UseImage, UseHost, Return

\* Steps of a call that has begun.
Going(t) == \/ TebakoStat(t) \/ SetCwd(t) \/ SetCwdFails(t) \/ HostChdir(t) \/ ClearCwd(t)
            \/ ClearCwdFails(t) \/ CopyCwd(t) \/ HostGetcwd(t) \/ UseImage(t) \/ UseHost(t)

\* Where such a step leads, and what it keeps.
LEMMA GoingOn ==
  ASSUME Basics, NEW t \in Thread, Going(t)
  PROVE /\ pc[t] # "idle" /\ pc[t] # "done"
        /\ pc'[t] \in {"set", "clear", "done"}
        /\ pc'[t] \in {"set", "clear"} => pc[t] \in Walks
        /\ call'[t].op = call[t].op /\ call'[t].path = call[t].path
        /\ (pc'[t] = "done") = (call'[t].answer # {})
        /\ Shape'
        /\ \A u \in Thread : u # t => pc'[u] = pc[u] /\ call'[u] = call[u]
<1>1. ASSUME NEW base, NEW a, pc[t] \notin {"idle", "done"}, Moved(t, "done", Ended(t, base, a))
      PROVE /\ pc'[t] = "done" /\ call'[t].op = call[t].op /\ call'[t].path = call[t].path
            /\ call'[t].answer # {}
            /\ Shape'
            /\ \A u \in Thread : u # t => pc'[u] = pc[u] /\ call'[u] = call[u]
  BY <1>1 DEF Moved, Ended
<1>2. CASE TebakoStat(t)
  <2>1. pc[t] = "stat"
    BY <1>2 DEF TebakoStat
  <2>2. CASE Moved(t, "set", call[t])
    BY <2>1, <2>2 DEF Moved, Basics, Owned, Walks
  <2>3. CASE Moved(t, "done", Ended(t, call[t].base, Answer("fail")))
    BY <1>1, <2>1, <2>3
  <2> QED
    BY <1>2, <2>2, <2>3, Moves DEF Basics
<1>3. CASE SetCwd(t) \/ SetCwdFails(t)
  BY <1>1, <1>3, Moves DEF SetCwd, SetCwdFails, Basics
<1>4. CASE HostChdir(t)
  <2> DEFINE d == OnHostSide(call[t].path)
             base == From(call[t].path, host)
  <2>1. pc[t] = "chdir"
    BY <1>4 DEF HostChdir
  <2>2. IF d \in there THEN Moved(t, "clear", Cleared(t, d, base))
        ELSE Moved(t, "done", Ended(t, base, Answer("fail")))
    BY <1>4, Moves DEF Basics
  <2> HIDE DEF d, base
  <2>3. CASE Moved(t, "clear", Cleared(t, d, base))
    <3>1. call[t].answer = {} /\ pc[t] \in Walks
      BY <2>1 DEF Basics, Owned, Walks
    <3>2. pc'[t] = "clear" /\ call'[t] = Cleared(t, d, base)
      BY <2>3 DEF Moved
    <3>3. call'[t].op = call[t].op /\ call'[t].path = call[t].path /\ call'[t].answer = {}
      BY <3>1, <3>2 DEF Cleared
    <3> QED
      BY <2>1, <2>3, <3>1, <3>2, <3>3 DEF Moved
  <2> QED
    BY <1>1, <2>1, <2>2, <2>3
<1>5. CASE ClearCwd(t) \/ ClearCwdFails(t)
  BY <1>1, <1>5, Moves DEF ClearCwd, ClearCwdFails, Basics
<1>6. CASE CopyCwd(t)
  BY <1>1, <1>6, Moves DEF CopyCwd, Basics
<1>7. CASE HostGetcwd(t)
  BY <1>1, <1>7, Moves DEF HostGetcwd, Basics
<1>8. CASE UseImage(t)
  <2>1. pc[t] = "image"
    BY <1>8 DEF UseImage
  <2>2. PICK a : Moved(t, "done", Ended(t, call[t].base, a))
    BY <1>8, Moves DEF Basics
  <2> QED
    BY <1>1, <2>1, <2>2
<1>9. CASE UseHost(t)
  <2>1. pc[t] = "host"
    BY <1>9 DEF UseHost
  <2>2. Moved(t, "done", Ended(t, From(call[t].path, host),
                               OnHost(call[t].op, there, OnHostSide(call[t].path))))
    BY <1>9, Moves DEF Basics
  <2> QED
    BY <1>1, <2>1, <2>2
<1> QED
  BY <1>2, <1>3, <1>4, <1>5, <1>6, <1>7, <1>8, <1>9 DEF Going

\* What it does to the two directories.
LEMMA GoingKeeps ==
  ASSUME NEW t \in Thread, Going(t)
  PROVE /\ pc[t] = "set" => inside' \in {inside, alive \/ inside}
        /\ pc[t] = "set" => \/ cwd' = cwd /\ (inside' => inside)
                            \/ cwd' = call[t].to
        /\ pc[t] = "clear" => inside' = FALSE \/ UNCHANGED <<inside, cwd>>
        /\ pc[t] \notin {"set", "clear"} => UNCHANGED <<inside, cwd, meant>>
        /\ pc[t] # "chdir" => UNCHANGED host
        /\ pc[t] \notin {"image", "host"} => UNCHANGED there
<1>1. CASE SetCwd(t)
  <2>1. pc[t] = "set" /\ inside' = (alive \/ inside) /\ UNCHANGED <<host, there>>
    BY <1>1 DEF SetCwd
  <2>2. (cwd' = cwd /\ (inside' => inside)) \/ cwd' = call[t].to
    <3>1. CASE alive
      BY <1>1, <3>1 DEF SetCwd
    <3>2. CASE ~alive
      BY <1>1, <3>2 DEF SetCwd
    <3> QED
      BY <3>1, <3>2
  <2> QED
    BY <2>1, <2>2
<1>4. CASE SetCwdFails(t)
  <2>1. /\ pc[t] = "set" /\ alive /\ UNCHANGED <<host, there>>
        /\ (cwd' = call[t].to /\ inside' = TRUE) \/ UNCHANGED <<cwd, inside>>
    BY <1>4 DEF SetCwdFails
  <2>2. inside' = inside \/ inside' = (alive \/ inside)
    BY <2>1
  <2> QED
    BY <2>1, <2>2
<1>2. CASE ClearCwd(t) \/ ClearCwdFails(t)
  BY <1>2 DEF ClearCwd, ClearCwdFails
<1>3. CASE ~(SetCwd(t) \/ SetCwdFails(t) \/ ClearCwd(t) \/ ClearCwdFails(t))
  BY <1>3 DEF Going, TebakoStat, HostChdir, CopyCwd, HostGetcwd, UseImage, UseHost
<1> QED
  BY <1>1, <1>2, <1>3, <1>4

\* A call that begins.
Begun(t, c) == Chdir(t, c) \/ Getcwd(t, c) \/ Use(t, c)

\* What a thread may call, where the call then is, and what its beginning leaves alone.
LEMMA Beginning ==
  ASSUME Basics, NEW t \in Thread, NEW c, Begun(t, c)
  PROVE /\ pc[t] = "idle" /\ c \in prog.calls /\ c \in CallOf
        /\ root \in {"up", "down"}
        /\ prog.alone => \A u \in Thread : pc[u] = "idle"
        /\ prog.tame => KeepsSide(c.path)
        /\ pc'[t] \in {"stat", "chdir", "copy", "getcwd", "image", "host"}
        /\ pc'[t] \in {"stat", "chdir"} => t \in prog.walkers /\ c.op = "chdir"
        /\ pc'[t] \in {"copy", "getcwd"} => c.op = "getcwd"
        /\ pc'[t] \in {"image", "host"} => c.op \in Uses
        /\ call'[t].op = c.op /\ call'[t].path = c.path /\ call'[t].answer = {}
        /\ Shape'
        /\ \A u \in Thread : u # t => pc'[u] = pc[u] /\ call'[u] = call[u]
        /\ UNCHANGED <<inside, cwd, host, there, meant>>
<1> USE Moves DEF Basics, Moved, Entered
<1>1. Begins(t, c)
  BY DEF Begun, Chdir, Getcwd, Use
<1>2. c \in CallOf
  BY <1>1, ProgramAssumption DEF Begins, Mounted, Programs
<1>3. CASE Chdir(t, c)
  BY <1>1, <1>2, <1>3 DEF Begins, Chdir
<1>4. CASE Getcwd(t, c)
  BY <1>1, <1>2, <1>4 DEF Begins, Getcwd
<1>5. CASE Use(t, c)
  BY <1>1, <1>2, <1>5 DEF Begins, Use, Uses
<1> QED
  BY <1>3, <1>4, <1>5 DEF Begun

\* The shape of the state and the order of the calls hold in every state.
LEMMA BasicsHold == Spec => []Basics
<1>1. Init => Basics
  <2> SUFFICES ASSUME Init PROVE Basics
    OBVIOUS
  <2>1. Shape
    <3>1. \A t \in Thread : call[t] = NoCall /\ pc[t] = "idle"
      BY DEF Init
    <3>2. NoCall = Fields(NoCall)
      BY DEF NoCall, Fields
    <3> QED
      BY <3>1, <3>2 DEF Init, Shape, Place
  <2>2. Mounted
    BY ImageAssumption DEF Init, Mounted
  <2>3. Owned
    BY DEF Init, Owned, Walks, NoCall
  <2> QED
    BY <2>1, <2>2, <2>3 DEF Basics
<1>2. Basics /\ [Next]_vars => Basics'
  <2> SUFFICES ASSUME Basics, [Next]_vars PROVE Basics'
    OBVIOUS
  <2> USE DEF Basics
  <2>1. ASSUME NEW t \in Thread, NEW c, Begun(t, c) PROVE Basics'
    <3>1. UNCHANGED mountVars
      BY <2>1, StepsKeepMounts DEF Begun, Chdir, Getcwd, Use
    <3>2. Mounted'
      BY <2>1, <3>1, Beginning DEF Mounted, mountVars
    <3>3. [op |-> call'[t].op, path |-> call'[t].path] \in CallOf
      BY <2>1, Beginning DEF CallOf
    <3>4. Owned'
      BY <2>1, <3>1, <3>3, Beginning DEF Owned, Walks, mountVars
    <3> QED
      BY <2>1, <3>2, <3>4, Beginning
  <2>2. ASSUME NEW t \in Thread, Going(t) PROVE Basics'
    <3>1. UNCHANGED mountVars /\ UNCHANGED prog
      BY <2>2, StepsKeepMounts DEF Going, Step, mountVars
    <3>2. Mounted'
      <4>1. inside' \in BOOLEAN /\ (inside' => alive)
        BY <2>2, GoingKeeps DEF Mounted
      <4>2. root \notin {"dropped", "loaded"}
        BY <2>2, GoingOn DEF Mounted
      <4> QED
        BY <3>1, <4>1, <4>2 DEF Mounted, mountVars
    <3>3. Owned'
      BY <2>2, <3>1, GoingOn DEF Owned, Walks
    <3> QED
      BY <2>2, <3>2, <3>3, GoingOn
  <2>3. ASSUME NEW t \in Thread, Return(t) PROVE Basics'
    <3>1. UNCHANGED <<mountVars, inside>> /\ pc[t] = "done" /\ Moved(t, "idle", NoCall)
      BY <2>3, Moves DEF Return
    <3>2. Mounted'
      BY <3>1 DEF Mounted, mountVars, Moved
    <3>3. NoCall.answer = {}
      BY DEF NoCall
    <3>4. Owned'
      BY <3>1, <3>3 DEF Owned, Walks, Moved, mountVars
    <3> QED
      BY <3>1, <3>2, <3>4 DEF Moved
  <2>4. CASE DropCwd \/ EraseImage \/ LoadImage \/ InitCwd
    <3>1. UNCHANGED <<pc, call, inForce, prog>>
      BY <2>4 DEF DropCwd, EraseImage, LoadImage, InitCwd
    <3>2. Shape' /\ Owned'
      BY <3>1 DEF Shape, Owned
    <3>3. Mounted'
      BY <2>4, <3>1, ImageAssumption DEF Mounted, DropCwd, EraseImage, LoadImage, InitCwd
    <3> QED
      BY <3>2, <3>3
  <2>5. CASE UNCHANGED vars
    BY <2>5 DEF vars, Shape, Mounted, Owned
  <2> QED
    BY <2>1, <2>2, <2>3, <2>4, <2>5 DEF Next, Step, Begun, Going
<1> QED
  BY <1>1, <1>2, PTL DEF Spec

--------------------------------------------------------------------------------
(* The working directory of the library is a directory.                         *)

Reached(d) == InMemfs(d) /\ (d \in image \/ Leaves("look", image, d))

\* It was one when chdir looked, and the image is not taken away meanwhile.
Sited == prog.tame => /\ inside => Reached(cwd)
                      /\ \A t \in Thread : /\ pc[t] \in {"stat", "image"} => InMemfs(call[t].to)
                                           /\ pc[t] = "set" => Reached(call[t].to)

\* A step keeps the directory in the image one that chdir found there.
LEMMA SitedStep == Basics /\ Sited /\ [Next]_vars => Sited'
<1> SUFFICES ASSUME Basics, Sited, [Next]_vars, prog.tame, prog'.tame PROVE Sited'
  BY DEF Sited, Next, Step, vars, mountVars, Chdir, Getcwd, Use, TebakoStat, SetCwd, SetCwdFails, HostChdir,
         ClearCwd, ClearCwdFails, CopyCwd, HostGetcwd, UseImage, UseHost, Return, DropCwd, EraseImage, LoadImage, InitCwd
<1>1. ASSUME NEW t \in Thread, NEW c, Begun(t, c) PROVE Sited'
  <2>1. UNCHANGED <<inside, cwd, image>> /\ KeepsSide(c.path)
    BY <1>1, Beginning DEF Begun, Chdir, Getcwd, Use, mountVars
  <2>2. ASSUME pc'[t] \in {"stat", "image"} PROVE InMemfs(call'[t].to)
    <3>1. IsTebakoPath(c.path) /\ call'[t] = Entered(c, ToTebakoPath(c.path), From(c.path, cwd))
      BY <1>1, <2>2, Moves DEF Begun, Basics, Moved
    <3>2. InMemfs(ToTebakoPath(c.path))
      BY <2>1, <3>1 DEF KeepsSide, IsTebakoPath, ToTebakoPath
    <3> QED
      BY <3>1, <3>2 DEF Entered
  <2> QED
    BY <1>1, <2>1, <2>2, Beginning DEF Sited, Reached
<1>2. ASSUME NEW t \in Thread, Going(t) PROVE Sited'
  <2>1. UNCHANGED image
    BY <1>2, StepsKeepMounts DEF Going, Step, mountVars
  <2>2. ASSUME inside' PROVE Reached(cwd)'
    <3>1. CASE pc[t] = "set"
      <4>2. cwd' = call[t].to \/ (inside /\ cwd' = cwd)
        BY <1>2, <2>2, <3>1, GoingKeeps
      <4>3. Reached(cwd')
        BY <3>1, <4>2 DEF Sited
      <4> QED
        BY <2>1, <4>3 DEF Reached
    <3>2. CASE pc[t] # "set"
      <4>1. inside /\ cwd' = cwd
        BY <1>2, <2>2, <3>2, GoingKeeps, Zenon
      <4> QED
        BY <2>1, <4>1 DEF Sited, Reached
    <3> QED
      BY <3>1, <3>2
  <2>3. ASSUME pc'[t] = "set" PROVE Reached(call'[t].to)
    <3>1. TebakoStat(t) /\ pc[t] = "stat"
      <4>1. TebakoStat(t) \/ HostChdir(t) \/ \E b, a : Moved(t, "done", Ended(t, b, a))
        BY <1>2, Moves DEF Going, Basics
      <4>2. CASE HostChdir(t)
        BY <2>3, <4>2, Moves DEF Basics, Moved
      <4> QED
        BY <2>3, <4>1, <4>2 DEF Moved, TebakoStat
    <3>2. Kind(image, there, call[t].to) = "dir" /\ call'[t] = call[t]
      BY <2>3, <3>1, Moves DEF Basics, Moved
    <3>3. InMemfs(call[t].to)
      BY <3>1 DEF Sited
    <3> QED
      BY <3>2, <3>3 DEF Kind, ImageKind, Reached
  <2>4. pc'[t] \notin {"stat", "image"}
    BY <1>2, GoingOn
  <2> QED
    BY <1>2, <2>1, <2>2, <2>3, <2>4, GoingOn DEF Sited, Reached
<1>3. ASSUME NEW t \in Thread, Return(t) PROVE Sited'
  <2>1. UNCHANGED <<inside, cwd, image>> /\ Moved(t, "idle", NoCall)
    BY <1>3, Moves DEF Return, Basics, mountVars
  <2> QED
    BY <2>1 DEF Sited, Moved, Reached
<1>4. CASE DropCwd \/ EraseImage \/ LoadImage \/ InitCwd
  <2>1. UNCHANGED pc /\ ~inside' /\ \A t \in Thread : pc[t] = "idle"
    BY <1>4 DEF DropCwd, EraseImage, LoadImage, InitCwd, Basics, Mounted
  <2> QED
    BY <2>1 DEF Sited
<1>5. CASE UNCHANGED vars
  BY <1>5 DEF vars, Sited, Reached
<1> QED
  BY <1>1, <1>2, <1>3, <1>4, <1>5 DEF Next, Step, Begun, Going

\* tebako_chdir and the release: for every tree, image and program, the working
\* directory of the library is a directory of the mounted image, or beyond a link of it.
THEOREM DirectoriesAreThere == Spec => []CwdIsADirectory
<1>1. Init => Sited
  BY DEF Init, Sited
<1>2. Sited => CwdIsADirectory
  BY DEF Sited, Reached, CwdIsADirectory
<1> QED
  BY <1>1, <1>2, SitedStep, BasicsHold, PTL DEF Spec

--------------------------------------------------------------------------------
(* The two directories and the one that is meant.                               *)

InPlace == ~\E t \in Thread : pc[t] = "clear"

\* Between the chdir of the host and the change of the library's directory the host is
\* where the call goes to, and the library, if inside, where the program is.  A thread
\* that found the program outside will look at the host later: wherever the host is
\* by then has been in force.
Anchored ==
  prog.tame /\ OneWalker =>
    /\ InPlace => (IF inside THEN cwd ELSE host) = meant
    /\ \A t \in Thread :
         /\ pc[t] = "clear" => host = call[t].to /\ (inside => cwd = meant)
         /\ pc[t] # "idle" => call[t].base \subseteq inForce[t]
         /\ pc[t] \in {"chdir", "host"} /\ ~call[t].path.abs => host \in inForce[t]
         /\ pc[t] = "getcwd" => host \in inForce[t]

\* Of a program with one walker, no two calls that set a directory are in progress.
LEMMA OneAtATime ==
  ASSUME Basics, OneWalker, NEW t \in Thread, NEW u \in Thread, pc[t] \in Walks, pc[u] \in Walks
  PROVE t = u
  BY DEF Basics, Owned, OneWalker, Walks

\* What the program may call is fixed when it starts.
LEMMA StepsKeepProgram == [Next]_vars => prog' = prog
  BY DEF Next, Step, vars, mountVars, Chdir, Getcwd, Use, TebakoStat, SetCwd, SetCwdFails, HostChdir,
         ClearCwd, ClearCwdFails, CopyCwd, HostGetcwd, UseImage, UseHost, Return, DropCwd, EraseImage, LoadImage, InitCwd

\* A thread in a call remembers which directories were in force.
LEMMA Remembers ==
  ASSUME NEW t, NEW place, NEW c, Moved(t, place, c), NEW u \in Thread, pc'[u] # "idle"
  PROVE inForce'[u] = inForce[u] \cup {meant} \cup Coming'
<1> DEFINE now == inForce[u] \cup {meant} \cup Coming'
<1>1. inForce'[u] = IF pc'[u] = "idle" THEN {} ELSE now
  BY Zenon DEF Moved
<1> HIDE DEF now
<1>2. inForce'[u] = now
  BY <1>1
<1> QED
  BY <1>2 DEF now

\* A call that ends leaves the bases of the others, and its own is in force.
LEMMA EndsAnchored ==
  ASSUME Basics, Anchored, prog.tame, OneWalker, UNCHANGED prog,
         NEW t \in Thread, NEW base, NEW a, Moved(t, "done", Ended(t, base, a)),
         base \subseteq inForce[t] \cup {meant} \cup Coming',
         UNCHANGED host,
         InPlace' => (IF inside THEN cwd ELSE host)' = meant',
         \A u \in Thread : u # t /\ pc[u] = "clear" => (inside => cwd = meant)'
  PROVE Anchored'
<1>1. \A u \in Thread : u # t => /\ pc'[u] = pc[u] /\ call'[u] = call[u]
                                 /\ pc[u] # "idle" => inForce[u] \subseteq inForce'[u]
  BY DEF Moved
<1>2. pc'[t] = "done" /\ call'[t].base = base
  BY DEF Moved, Ended
<1>3. inForce'[t] = inForce[t] \cup {meant} \cup Coming'
  BY <1>2, Remembers
<1> QED
  BY <1>1, <1>2, <1>3 DEF Anchored, OneWalker

\* A step leaves every relative path resolved against a directory that was in force.
LEMMA AnchoredStep == Basics /\ Sited /\ Anchored /\ [Next]_vars => Anchored'
<1> SUFFICES ASSUME Basics, Sited, Anchored, [Next]_vars, prog.tame, OneWalker, UNCHANGED prog
             PROVE Anchored'
  BY StepsKeepProgram DEF Anchored, OneWalker
<1>1. ASSUME NEW t \in Thread, NEW c, Begun(t, c) PROVE Anchored'
  <2>1. /\ UNCHANGED <<inside, cwd, host, meant>>
        /\ pc[t] = "idle" /\ pc'[t] # "clear" /\ pc'[t] # "idle"
    BY <1>1, Beginning
  <2>2. \E place, to, base : /\ Moved(t, place, Entered(c, to, base))
                             /\ base \subseteq (IF inside THEN {cwd} ELSE {})
                             /\ place \in {"chdir", "host"} /\ ~c.path.abs => ~inside
                             /\ place = "getcwd" => ~inside
    <3>1. CASE Chdir(t, c)
      BY <1>1, <3>1, Moves DEF Basics, IsTebakoPath, From
    <3>2. CASE Getcwd(t, c)
      BY <1>1, <3>2, Moves DEF Basics
    <3>3. CASE Use(t, c)
      BY <1>1, <3>3, Moves DEF Basics, IsTebakoPath, From
    <3> QED
      BY <1>1, <3>1, <3>2, <3>3 DEF Begun
  <2>3. PICK place, to, base : /\ Moved(t, place, Entered(c, to, base))
                               /\ base \subseteq (IF inside THEN {cwd} ELSE {})
                               /\ place \in {"chdir", "host"} /\ ~c.path.abs => ~inside
                               /\ place = "getcwd" => ~inside
    BY <2>2
  <2>4. pc'[t] = place /\ call'[t].base = base /\ call'[t].path = c.path
    BY <2>3 DEF Moved, Entered
  <2>5. \A u \in Thread : u # t => /\ pc'[u] = pc[u] /\ call'[u] = call[u]
                                   /\ pc[u] # "idle" => inForce[u] \subseteq inForce'[u]
    BY <2>3 DEF Moved
  <2>6. inside => cwd = meant
    BY DEF Anchored, InPlace
  <2>7. ~inside => host \in {meant} \cup Coming'
    <3>1. CASE InPlace
      BY <3>1 DEF Anchored
    <3>2. CASE ~InPlace
      <4>1. PICK u \in Thread : pc[u] = "clear"
        BY <3>2 DEF InPlace
      <4>2. pc'[u] = "clear" /\ call'[u].to = host
        BY <2>1, <2>5, <4>1 DEF Anchored
      <4> QED
        BY <4>2 DEF Coming
    <3> QED
      BY <3>1, <3>2
  <2>8. InPlace' => InPlace
    BY <2>1, <2>5 DEF InPlace
  <2>9. inForce'[t] = inForce[t] \cup {meant} \cup Coming'
    BY <2>1, <2>3, Remembers
  <2> QED
    BY <2>1, <2>3, <2>4, <2>5, <2>6, <2>7, <2>8, <2>9 DEF Anchored
<1>2. ASSUME NEW t \in Thread, TebakoStat(t) \/ CopyCwd(t) \/ UseImage(t)
      PROVE Anchored'
  <2>1. UNCHANGED <<inside, cwd, host, meant>> /\ pc[t] \in {"stat", "copy", "image"}
    BY <1>2 DEF TebakoStat, CopyCwd, UseImage
  <2>2. InPlace' => InPlace
    BY <1>2, <2>1, GoingOn DEF InPlace, Going
  <2>3. call[t].base \subseteq inForce[t]
    BY <2>1 DEF Anchored
  <2>4. CASE TebakoStat(t) /\ Moved(t, "set", call[t])
    <3>1. /\ pc'[t] = "set" /\ call'[t] = call[t]
          /\ \A u \in Thread : u # t => pc'[u] = pc[u] /\ call'[u] = call[u]
          /\ \A u \in Thread : pc'[u] # "idle" => inForce[u] \subseteq inForce'[u]
      BY <2>4 DEF Moved
    <3> QED
      BY <2>1, <2>2, <2>3, <3>1 DEF Anchored
  <2>5. ASSUME NEW a, Moved(t, "done", Ended(t, call[t].base, a)) PROVE Anchored'
    BY <2>1, <2>2, <2>3, <2>5, EndsAnchored DEF Anchored
  <2> QED
    BY <1>2, <2>4, <2>5, Moves DEF Basics
<1>3. ASSUME NEW t \in Thread, SetCwd(t) PROVE Anchored'
  <2>1. pc[t] = "set" /\ Moved(t, "done", Ended(t, call[t].base, Answer("ok")))
    BY <1>3, Moves DEF SetCwd, Basics
  <2>2. alive
    BY <2>1 DEF Basics, Mounted, Sited, Reached, Leaves
  <2>3. inside' /\ cwd' = call[t].to /\ meant' = cwd' /\ UNCHANGED host
    BY <1>3, <2>2 DEF SetCwd
  <2>4. call[t].base \subseteq inForce[t]
    BY <2>1 DEF Anchored
  <2> QED
    BY <2>1, <2>3, <2>4, EndsAnchored
<1>11. ASSUME NEW t \in Thread, SetCwdFails(t) PROVE Anchored'
  <2>1. pc[t] = "set" /\ Moved(t, "done", Ended(t, call[t].base, Answer("fail")))
    BY <1>11, Moves DEF SetCwdFails, Basics
  <2>2. \A u \in Thread : pc[u] # "clear"
    BY <2>1, OneAtATime DEF Walks
  <2>3. (IF inside THEN cwd ELSE host) = meant
    BY <2>2 DEF Anchored, InPlace
  <2>4. UNCHANGED host /\ (IF inside THEN cwd ELSE host)' = meant'
    BY <1>11, <2>3 DEF SetCwdFails
  <2>5. call[t].base \subseteq inForce[t]
    BY <2>1 DEF Anchored
  <2> QED
    BY <2>1, <2>2, <2>4, <2>5, EndsAnchored
<1>12. ASSUME NEW t \in Thread, ClearCwdFails(t) PROVE Anchored'
  <2>1. pc[t] = "clear" /\ Moved(t, "done", Ended(t, call[t].base, Answer("fail")))
    BY <1>12, Moves DEF ClearCwdFails, Basics
  <2>2. call[t].base \subseteq inForce[t] /\ host = call[t].to /\ (inside => cwd = meant)
    BY <2>1 DEF Anchored
  <2>3. /\ UNCHANGED <<inside, cwd, host>>
        /\ meant' = IF inside THEN meant ELSE call[t].to
    BY <1>12 DEF ClearCwdFails
  <2>4. (IF inside THEN cwd ELSE host)' = meant' /\ (inside => cwd = meant)'
    BY <2>2, <2>3
  <2> QED
    BY <2>1, <2>2, <2>3, <2>4, EndsAnchored
<1>4. ASSUME NEW t \in Thread, HostChdir(t) PROVE Anchored'
  <2> DEFINE d == OnHostSide(call[t].path)
             base == From(call[t].path, host)
  <2>1. pc[t] = "chdir" /\ UNCHANGED <<inside, cwd, meant>>
    BY <1>4 DEF HostChdir
  <2>2. base \subseteq inForce[t]
    BY <2>1 DEF Anchored, From
  <2>3. \A u \in Thread : pc[u] # "clear"
    BY <2>1, OneAtATime DEF Walks
  <2>4. (IF inside THEN cwd ELSE host) = meant
    BY <2>3 DEF Anchored, InPlace
  <2>5. IF d \in there THEN host' = d /\ Moved(t, "clear", Cleared(t, d, base))
        ELSE host' = host /\ Moved(t, "done", Ended(t, base, Answer("fail")))
    BY <1>4, Moves DEF HostChdir, Basics
  <2> HIDE DEF d, base
  <2>6. CASE d \in there
    <3>1. /\ pc'[t] = "clear" /\ call'[t].to = d /\ call'[t].base = base
          /\ \A u \in Thread : u # t => pc'[u] = pc[u] /\ call'[u] = call[u]
      BY <2>5, <2>6 DEF Moved, Cleared
    <3>2. d \in Coming'
      BY <3>1 DEF Coming
    <3>3. ~InPlace'
      BY <3>1 DEF InPlace
    <3>4. \A u \in Thread : pc'[u] # "idle" => /\ inForce[u] \subseteq inForce'[u]
                                              /\ Coming' \subseteq inForce'[u]
      BY <2>5, <2>6, Remembers
    <3> QED
      BY <2>1, <2>2, <2>3, <2>4, <2>5, <2>6, <3>1, <3>2, <3>3, <3>4 DEF Anchored
  <2>7. CASE d \notin there
    BY <2>1, <2>2, <2>3, <2>4, <2>5, <2>7, EndsAnchored
  <2> QED
    BY <2>6, <2>7
<1>5. ASSUME NEW t \in Thread, ClearCwd(t) PROVE Anchored'
  <2>1. pc[t] = "clear" /\ Moved(t, "done", Ended(t, call[t].base, Answer("ok")))
    BY <1>5, Moves DEF ClearCwd, Basics
  <2>2. ~inside' /\ meant' = call[t].to /\ UNCHANGED host
    BY <1>5 DEF ClearCwd
  <2>3. call[t].base \subseteq inForce[t] /\ host = call[t].to
    BY <2>1 DEF Anchored
  <2> QED
    BY <2>1, <2>2, <2>3, EndsAnchored
<1>6. ASSUME NEW t \in Thread, HostGetcwd(t) \/ UseHost(t) PROVE Anchored'
  <2>1. UNCHANGED <<inside, cwd, host, meant>> /\ pc[t] \in {"getcwd", "host"}
    BY <1>6 DEF HostGetcwd, UseHost
  <2>2. InPlace' => InPlace
    BY <1>6, <2>1, GoingOn DEF InPlace, Going
  <2>3. CASE HostGetcwd(t)
    <3>1. PICK a : Moved(t, "done", Ended(t, {host}, a))
      BY <2>3, Moves DEF Basics
    <3>2. host \in inForce[t]
      BY <2>3 DEF HostGetcwd, Anchored
    <3> QED
      BY <2>1, <2>2, <3>1, <3>2, EndsAnchored DEF Anchored
  <2>4. CASE UseHost(t)
    <3>1. PICK a : Moved(t, "done", Ended(t, From(call[t].path, host), a))
      BY <2>4, Moves DEF Basics
    <3>2. From(call[t].path, host) \subseteq inForce[t]
      BY <2>4 DEF UseHost, Anchored, From
    <3> QED
      BY <2>1, <2>2, <3>1, <3>2, EndsAnchored DEF Anchored
  <2> QED
    BY <1>6, <2>3, <2>4
<1>7. ASSUME NEW t \in Thread, Return(t) PROVE Anchored'
  <2>1. UNCHANGED <<inside, cwd, host, meant>> /\ pc[t] = "done" /\ Moved(t, "idle", NoCall)
    BY <1>7, Moves DEF Return, Basics
  <2> QED
    BY <2>1 DEF Anchored, Moved, InPlace
<1>8. CASE DropCwd
  BY <1>8 DEF DropCwd, Anchored
<1>9. CASE EraseImage \/ LoadImage \/ InitCwd
  BY <1>9 DEF EraseImage, LoadImage, InitCwd, Anchored, InPlace
<1>10. CASE UNCHANGED vars
  BY <1>10 DEF vars, Anchored, InPlace
<1> QED
  BY <1>1, <1>2, <1>3, <1>4, <1>5, <1>6, <1>7, <1>8, <1>9, <1>10, <1>11, <1>12
     DEF Next, Step, Begun

\* Relative paths stay anchored in every state.
LEMMA AnchoredHolds == Spec => []Anchored
<1>1. Init => Anchored
  BY DEF Init, Anchored
<1>2. Init => Sited
  BY DEF Init, Sited
<1> QED
  BY <1>1, <1>2, SitedStep, AnchoredStep, BasicsHold, PTL DEF Spec

\* tebako_chdir: when no chdir is between its two changes, the directory that counts is
\* the one the last chdir asked for that took effect, wherever tebako_set_cwd throws.
THEOREM DirectoriesAreMeant == Spec => []DirectoryIsAsMeant
<1>1. Anchored => DirectoryIsAsMeant
  BY DEF Anchored, DirectoryIsAsMeant, InPlace, Walking
<1> QED
  BY <1>1, AnchoredHolds, PTL

\* tebako_getcwd and every call with a relative path, while a thread changes the
\* directory: what it is read from has been in force since the call began.
THEOREM PathsAreAnchored == Spec => []RelativePathsAreAnchored
<1>1. Anchored => RelativePathsAreAnchored
  BY DEF Anchored, RelativePathsAreAnchored
<1> QED
  BY <1>1, AnchoredHolds, PTL

--------------------------------------------------------------------------------
(* One working directory.                                                       *)

\* The host has nothing at the mount point.
Outside == ~InMemfs(host) /\ \A d \in there : ~InMemfs(d)

\* The host has nothing at the mount point in any state.
LEMMA OutsideHolds == Spec => []Outside
<1>1. Init => Outside
  BY HostAssumption DEF Init, Outside
<1>2. Outside /\ [Next]_vars => Outside'
  <2> SUFFICES ASSUME Outside, [Next]_vars PROVE Outside'
    OBVIOUS
  <2>1. \A op, path : \A d \in Changed(op, there, path) : ~InMemfs(d)
    BY DEF Outside, Changed, CanMake
  <2>2. ASSUME NEW t \in Thread, UseImage(t) PROVE Outside'
    <3>1. UNCHANGED host /\ (UNCHANGED there \/ \E p : there' = Changed(call[t].op, there, p))
      BY <2>2 DEF UseImage
    <3> QED
      BY <2>1, <3>1 DEF Outside
  <2>3. ASSUME NEW t \in Thread, UseHost(t) PROVE Outside'
    BY <2>1, <2>3 DEF Outside, UseHost
  <2>4. ASSUME NEW t \in Thread, HostChdir(t) PROVE Outside'
    <3>1. UNCHANGED there /\ (host' \in there \/ UNCHANGED host)
      BY <2>4 DEF HostChdir
    <3> QED
      BY <3>1 DEF Outside
  <2>5. ASSUME NEW t \in Thread, \/ \E c \in AnyCall : Chdir(t, c) \/ Getcwd(t, c) \/ Use(t, c)
                                \/ TebakoStat(t) \/ SetCwd(t) \/ SetCwdFails(t) \/ ClearCwd(t)
                                \/ ClearCwdFails(t) \/ CopyCwd(t) \/ HostGetcwd(t) \/ Return(t)
        PROVE Outside'
    <3>1. UNCHANGED <<host, there>>
      BY <2>5 DEF Chdir, Getcwd, Use, TebakoStat, SetCwd, SetCwdFails, ClearCwd, ClearCwdFails,
                  CopyCwd, HostGetcwd, Return
    <3> QED
      BY <3>1 DEF Outside
  <2>6. CASE DropCwd \/ EraseImage \/ LoadImage \/ InitCwd \/ UNCHANGED vars
    <3>1. UNCHANGED <<host, there>>
      BY <2>6 DEF DropCwd, EraseImage, LoadImage, InitCwd, vars
    <3> QED
      BY <3>1 DEF Outside
  <2> QED
    BY <2>2, <2>3, <2>4, <2>5, <2>6 DEF Next, Step
<1> QED
  BY <1>1, <1>2, PTL DEF Spec

\* What the path of a call means to the program.
Goal(t) == Expanded(meant, call[t].path)

\* One call at a time: what the call has found out still holds.
Serial ==
  Careful => \A t \in Thread :
    /\ pc[t] \in {"stat", "set", "image", "clear"} => call[t].to = Goal(t)
    /\ pc[t] \in {"chdir", "host"} => OnHostSide(call[t].path) = Goal(t) /\ ~InMemfs(Goal(t))
    /\ pc[t] \in {"set", "clear"} => Kind(image, there, Goal(t)) = "dir"
    /\ pc[t] = "copy" => call[t].to = meant
    /\ pc[t] = "getcwd" => host = meant

\* An absolute path is the same from every directory.
LEMMA AbsoluteIsFixed ==
  ASSUME NEW path, path.abs PROVE \A d, e : Expanded(d, path) = Expanded(e, path)
  BY DEF Expanded

\* The facts of a call that begins.
LEMMA SerialBegins ==
  ASSUME Basics, Anchored, Careful, NEW t \in Thread, NEW c, Begun(t, c)
  PROVE /\ pc'[t] \in {"stat", "image"} => call'[t].to = Expanded(meant, c.path)
        /\ pc'[t] \in {"chdir", "host"} => /\ OnHostSide(c.path) = Expanded(meant, c.path)
                                           /\ ~InMemfs(Expanded(meant, c.path))
        /\ pc'[t] = "copy" => call'[t].to = meant
        /\ pc'[t] = "getcwd" => host = meant
<1>1. \A u \in Thread : pc[u] = "idle"
  BY Beginning DEF Careful
<1>2. (IF inside THEN cwd ELSE host) = meant
  BY <1>1 DEF Anchored, InPlace, Careful, OneWalker
<1>3. KeepsSide(c.path) /\ c.path.abs \in BOOLEAN
  BY Beginning DEF Careful, CallOf, Given
<1>4. ASSUME IsTebakoPath(c.path) PROVE ToTebakoPath(c.path) = Expanded(meant, c.path)
  <2>1. CASE c.path.abs
    BY <2>1, AbsoluteIsFixed DEF ToTebakoPath
  <2>2. CASE ~c.path.abs
    BY <1>2, <1>4, <2>2 DEF ToTebakoPath, IsTebakoPath
  <2> QED
    BY <1>3, <2>1, <2>2
<1>5. ASSUME ~IsTebakoPath(c.path)
      PROVE OnHostSide(c.path) = Expanded(meant, c.path) /\ ~InMemfs(Expanded(meant, c.path))
  <2>1. CASE c.path.abs
    <3>1. Expanded(host, c.path) = Expanded(meant, c.path) /\ Expanded(cwd, c.path) = Expanded(meant, c.path)
      BY <2>1, AbsoluteIsFixed
    <3>2. ~InMemfs(Expanded(cwd, c.path))
      BY <1>3, <1>5, <2>1 DEF KeepsSide, IsTebakoPath
    <3> QED
      BY <3>1, <3>2 DEF OnHostSide
  <2>2. CASE ~c.path.abs
    <3>1. ~inside /\ host = meant
      BY <1>2, <1>5, <2>2 DEF IsTebakoPath
    <3>2. ~InMemfs(OnHostSide(c.path))
      BY <1>3, <2>2, <3>1 DEF KeepsSide
    <3> QED
      BY <3>1, <3>2 DEF OnHostSide
  <2> QED
    BY <1>3, <2>1, <2>2
<1>6. CASE Chdir(t, c)
  <2>1. IF IsTebakoPath(c.path)
        THEN Moved(t, "stat", Entered(c, ToTebakoPath(c.path), From(c.path, cwd)))
        ELSE Moved(t, "chdir", Entered(c, <<>>, {}))
    BY <1>6, Moves DEF Basics
  <2> QED
    BY <1>4, <1>5, <2>1 DEF Moved, Entered
<1>7. CASE Getcwd(t, c)
  <2>1. IF inside THEN Moved(t, "copy", Entered(c, cwd, {cwd}))
        ELSE Moved(t, "getcwd", Entered(c, <<>>, {}))
    BY <1>7, Moves DEF Basics
  <2> QED
    BY <1>2, <2>1 DEF Moved, Entered
<1>8. CASE Use(t, c)
  <2>1. IF IsTebakoPath(c.path)
        THEN Moved(t, "image", Entered(c, ToTebakoPath(c.path), From(c.path, cwd)))
        ELSE Moved(t, "host", Entered(c, <<>>, {}))
    BY <1>8, Moves DEF Basics
  <2> QED
    BY <1>4, <1>5, <2>1 DEF Moved, Entered
<1> QED
  BY <1>6, <1>7, <1>8 DEF Begun

\* A step of a careful program keeps true what its call has found out.
LEMMA SerialStep == Basics /\ Anchored /\ Outside /\ Serial /\ [Next]_vars => Serial'
<1> SUFFICES ASSUME Basics, Anchored, Outside, Serial, [Next]_vars, Careful, UNCHANGED prog
             PROVE Serial'
  BY StepsKeepProgram DEF Serial, Careful
<1>1. ASSUME NEW t \in Thread, NEW c, Begun(t, c) PROVE Serial'
  <2>1. \A u \in Thread : u # t => pc'[u] = "idle"
    BY <1>1, Beginning DEF Careful
  <2>2. UNCHANGED <<meant, host>> /\ call'[t].path = c.path
        /\ pc'[t] \in {"stat", "chdir", "copy", "getcwd", "image", "host"}
    BY <1>1, Beginning
  <2> QED
    BY <1>1, <2>1, <2>2, SerialBegins DEF Serial, Goal, OnHostSide
<1>2. ASSUME NEW t \in Thread, Going(t) PROVE Serial'
  <2>1. \A u \in Thread : u # t => pc'[u] = "idle"
    BY <1>2, GoingOn DEF Careful, Basics, Owned, Shape, Place
  <2>2. call'[t].path = call[t].path /\ pc'[t] \in {"set", "clear", "done"}
    BY <1>2, GoingOn
  <2>3. ASSUME pc'[t] = "set" PROVE /\ UNCHANGED <<meant, image, there>>
                                    /\ call'[t].to = Goal(t)
                                    /\ Kind(image, there, Goal(t)) = "dir"
    <3>1. TebakoStat(t)
      <4>1. \/ TebakoStat(t) \/ HostChdir(t) \/ \E b, a : Moved(t, "done", Ended(t, b, a))
        BY <1>2, Moves DEF Going, Basics
      <4>2. CASE HostChdir(t)
        BY <2>3, <4>2, Moves DEF Basics, Moved
      <4> QED
        BY <2>3, <4>1, <4>2 DEF Moved
    <3>2. Kind(image, there, call[t].to) = "dir" /\ call'[t] = call[t]
      BY <2>3, <3>1, Moves DEF Basics, Moved
    <3> QED
      BY <3>1, <3>2 DEF TebakoStat, mountVars, Serial
  <2>4. ASSUME pc'[t] = "clear" PROVE /\ UNCHANGED <<meant, image, there>>
                                      /\ call'[t].to = Goal(t)
                                      /\ Kind(image, there, Goal(t)) = "dir"
    <3>1. HostChdir(t)
      <4>1. \/ TebakoStat(t) \/ HostChdir(t) \/ \E b, a : Moved(t, "done", Ended(t, b, a))
        BY <1>2, Moves DEF Going, Basics
      <4>2. CASE TebakoStat(t)
        BY <2>4, <4>2, Moves DEF Basics, Moved
      <4> QED
        BY <2>4, <4>1, <4>2 DEF Moved
    <3>2. /\ OnHostSide(call[t].path) \in there
          /\ call'[t].to = OnHostSide(call[t].path)
      <4> DEFINE d == OnHostSide(call[t].path)
                 base == From(call[t].path, host)
      <4>1. IF d \in there THEN Moved(t, "clear", Cleared(t, d, base))
            ELSE Moved(t, "done", Ended(t, base, Answer("fail")))
        BY <3>1, Moves DEF Basics
      <4> HIDE DEF d, base
      <4>2. d \in there /\ call'[t].to = d
        BY <2>4, <4>1 DEF Moved, Cleared
      <4> QED
        BY <4>2 DEF d
    <3>3. OnHostSide(call[t].path) = Goal(t) /\ ~InMemfs(Goal(t))
      BY <3>1 DEF HostChdir, Serial
    <3>4. Kind(image, there, Goal(t)) = "dir"
      BY <3>2, <3>3 DEF Kind, HostKind
    <3> QED
      BY <3>1, <3>2, <3>3, <3>4 DEF HostChdir, mountVars
  <2> QED
    BY <2>1, <2>2, <2>3, <2>4 DEF Serial, Goal
<1>3. ASSUME NEW t \in Thread, Return(t) PROVE Serial'
  <2>1. pc[t] = "done" /\ Moved(t, "idle", NoCall)
    BY <1>3, Moves DEF Return, Basics
  <2>2. \A u \in Thread : pc'[u] = "idle"
    BY <2>1 DEF Moved, Careful, Basics, Owned
  <2> QED
    BY <2>2 DEF Serial
<1>4. CASE DropCwd \/ EraseImage \/ LoadImage \/ InitCwd
  <2>1. \A t \in Thread : pc'[t] = "idle"
    BY <1>4 DEF DropCwd, EraseImage, LoadImage, InitCwd, Basics, Mounted
  <2> QED
    BY <2>1 DEF Serial
<1>5. CASE UNCHANGED vars
  BY <1>5 DEF vars, Serial, Goal, OnHostSide
<1> QED
  BY <1>1, <1>2, <1>3, <1>4, <1>5 DEF Next, Step, Begun, Going

\* What a call of a careful program has found out is true in every state.
LEMMA SerialHolds == Spec => []Serial
<1>1. Init => Anchored /\ Sited /\ Serial
  BY DEF Init, Anchored, Sited, Serial
<1>2. Spec => []Anchored
  BY AnchoredHolds
<1> QED
  BY <1>1, <1>2, SerialStep, BasicsHold, OutsideHolds, PTL DEF Spec

\* What a step does to the calls that the program sees.
AskedNow == [t \in Thread |-> Asked(t)]
AnswersNow == [t \in Thread |-> call[t].answer]

\* A step of one thread changes what the program sees of that thread alone.
LEMMA SeenByProgram ==
  ASSUME Basics, NEW t \in Thread, \A u \in Thread : u # t => pc'[u] = pc[u] /\ call'[u] = call[u]
  PROVE /\ AskedNow' = [AskedNow EXCEPT ![t] = Asked(t)']
        /\ AnswersNow' = [AnswersNow EXCEPT ![t] = call'[t].answer]
<1>1. \A u \in Thread : u # t => Asked(u)' = Asked(u)
  BY DEF Asked
<1> QED
  BY <1>1 DEF AskedNow, AnswersNow

\* A call that ends gives its answer; what it asked for stays.
LEMMA EndsReply ==
  ASSUME Basics, NEW t \in Thread, NEW base, NEW a, Moved(t, "done", Ended(t, base, a)),
         pc[t] # "idle", pc[t] # "done"
  PROVE /\ AskedNow' = AskedNow /\ AnswersNow[t] = {}
        /\ AnswersNow' = [AnswersNow EXCEPT ![t] = {a}]
        /\ AskedNow[t] = [op |-> call[t].op, path |-> call[t].path] /\ AskedNow[t] # Nothing
<1>1. /\ pc'[t] = "done" /\ call'[t].op = call[t].op /\ call'[t].path = call[t].path
      /\ call'[t].answer = {a}
      /\ \A u \in Thread : u # t => pc'[u] = pc[u] /\ call'[u] = call[u]
  BY DEF Moved, Ended
<1>2. Asked(t)' = Asked(t) /\ Asked(t) = [op |-> call[t].op, path |-> call[t].path]
  BY <1>1 DEF Asked
<1>3. Asked(t) # Nothing
  BY <1>2, NothingAssumption DEF Basics, Owned
<1>4. call[t].answer = {}
  BY DEF Basics, Owned
<1> QED
  BY <1>1, <1>2, <1>3, <1>4, SeenByProgram DEF AskedNow, AnswersNow

\* The initial states are those of one directory.
LEMMA OneInit == Init => One!Init
<1> SUFFICES ASSUME Init PROVE One!Init
  OBVIOUS
<1>1. \A t \in Thread : Asked(t) = Nothing /\ call[t].answer = {}
  BY DEF Init, Asked, NoCall
<1> QED
  BY <1>1, ProgramAssumption DEF Init, One!Init, Programs

\* So the one directory sees an answer, to a path with the meaning that the call found.
LEMMA OneReplies ==
  ASSUME Basics, NEW t \in Thread, NEW base, NEW a, Moved(t, "done", Ended(t, base, a)),
         pc[t] # "idle", pc[t] # "done", UNCHANGED image
  PROVE One!Replies(t, a) /\ One!Meaning(t) = Goal(t)
<1>1. /\ AskedNow' = AskedNow /\ AnswersNow[t] = {}
      /\ AnswersNow' = [AnswersNow EXCEPT ![t] = {a}]
      /\ AskedNow[t] = [op |-> call[t].op, path |-> call[t].path]
  BY EndsReply
<1>2. One!Replies(t, a)
  BY <1>1 DEF One!Replies, AskedNow, AnswersNow
<1>3. One!Meaning(t) = Goal(t)
  <2>1. AskedNow[t].path = call[t].path
    BY <1>1
  <2> QED
    BY <2>1 DEF One!Meaning, AskedNow, Goal
<1> QED
  BY <1>2, <1>3

\* A call in progress that goes on to its next place: nothing to see.
LEMMA OneStutters ==
  ASSUME Basics, NEW t \in Thread, pc[t] # "idle", pc'[t] # "idle",
         call'[t].op = call[t].op, call'[t].path = call[t].path, call'[t].answer = call[t].answer,
         \A u \in Thread : u # t => pc'[u] = pc[u] /\ call'[u] = call[u],
         UNCHANGED <<meant, prog, image, there>>
  PROVE UNCHANGED One!vars
<1>1. Asked(t)' = Asked(t)
  BY DEF Asked
<1>2. AskedNow' = AskedNow /\ AnswersNow' = AnswersNow
  BY <1>1, SeenByProgram DEF AskedNow, AnswersNow
<1> QED
  BY <1>2 DEF One!vars, AskedNow, AnswersNow

\* A call begins.
LEMMA OneAsks ==
  ASSUME Basics, NEW t \in Thread, NEW c, Begun(t, c), UNCHANGED image
  PROVE One!Change
<1>1. /\ pc[t] = "idle" /\ pc'[t] # "idle" /\ c \in CallOf
      /\ call'[t].op = c.op /\ call'[t].path = c.path /\ call'[t].answer = {}
      /\ \A u \in Thread : u # t => pc'[u] = pc[u] /\ call'[u] = call[u]
      /\ UNCHANGED <<there, meant>>
  BY Beginning
<1>2. Asked(t) = Nothing /\ Asked(t)' = c
  BY <1>1 DEF Asked, CallOf
<1>3. AskedNow[t] = Nothing /\ AskedNow' = [AskedNow EXCEPT ![t] = c] /\ AskedNow'[t] = c
  BY <1>1, <1>2, SeenByProgram DEF AskedNow
<1>4. AnswersNow' = AnswersNow
  BY <1>1 DEF AnswersNow, Basics, Owned
<1>5. c # Nothing
  BY <1>1, NothingAssumption
<1>6. One!Ask(t, AskedNow'[t])
  BY <1>1, <1>3, <1>4 DEF One!Ask, AskedNow, AnswersNow
<1> QED
  BY <1>3, <1>5, <1>6 DEF One!Change, AskedNow

\* What a call in progress asked for, as the one directory sees it.
LEMMA OneAsked ==
  ASSUME Basics, NEW t \in Thread, pc[t] # "idle"
  PROVE /\ AskedNow[t] # Nothing
        /\ AskedNow[t].op = call[t].op
<1>1. AskedNow[t] = [op |-> call[t].op, path |-> call[t].path]
  BY DEF AskedNow, Asked
<1> QED
  BY <1>1, NothingAssumption DEF Basics, Owned

\* chdir takes effect when it ends.
LEMMA OneChdirs ==
  ASSUME Basics, Outside, Serial, Careful, NEW t \in Thread,
         \/ TebakoStat(t) \/ SetCwd(t) \/ SetCwdFails(t)
         \/ HostChdir(t) \/ ClearCwd(t) \/ ClearCwdFails(t)
  PROVE One!Change \/ UNCHANGED One!vars
<1>1. /\ pc[t] \in Walks /\ call[t].op = "chdir" /\ UNCHANGED <<prog, image, there>>
      /\ call[t].path.abs \in BOOLEAN
  BY DEF TebakoStat, SetCwd, SetCwdFails, HostChdir, ClearCwd, ClearCwdFails, mountVars, Walks, Basics, Owned, CallOf, Given
<1>2. AskedNow[t] # Nothing /\ AskedNow[t].op = "chdir"
  BY <1>1, OneAsked DEF Walks
<1>3. ASSUME NEW base, Moved(t, "done", Ended(t, base, Answer("ok"))),
             Kind(image, there, Goal(t)) = "dir", meant' = Goal(t)
      PROVE One!Change
  <2>1. One!Replies(t, Answer("ok")) /\ One!Meaning(t) = Goal(t)
    BY <1>1, <1>3, OneReplies DEF Walks
  <2>2. One!Chdir(t)
    BY <1>1, <1>2, <1>3, <2>1 DEF One!Chdir, AskedNow
  <2> QED
    BY <2>2 DEF One!Change
<1>4. ASSUME NEW base, Moved(t, "done", Ended(t, base, Answer("fail"))),
             Kind(image, there, Goal(t)) # "dir", UNCHANGED meant
      PROVE One!Change
  <2>1. One!Replies(t, Answer("fail")) /\ One!Meaning(t) = Goal(t)
    BY <1>1, <1>4, OneReplies DEF Walks
  <2>2. One!Chdir(t)
    BY <1>1, <1>2, <1>4, <2>1 DEF One!Chdir, AskedNow
  <2> QED
    BY <2>2 DEF One!Change
<1>9. ASSUME NEW base, Moved(t, "done", Ended(t, base, Answer("fail"))), prog.throws,
             Kind(image, there, Goal(t)) = "dir", meant' \in {meant, Goal(t)}
      PROVE One!Change
  <2>1. One!Replies(t, Answer("fail")) /\ One!Meaning(t) = Goal(t)
    BY <1>1, <1>9, OneReplies DEF Walks
  <2>2. One!Chdir(t)
    BY <1>1, <1>2, <1>9, <2>1, Zenon DEF One!Chdir, AskedNow
  <2> QED
    BY <2>2 DEF One!Change
<1>10. CASE SetCwdFails(t) \/ ClearCwdFails(t)
  <2>1. /\ meant' \in {meant, Goal(t)} /\ Kind(image, there, Goal(t)) = "dir"
        /\ Moved(t, "done", Ended(t, call[t].base, Answer("fail"))) /\ prog.throws
    BY <1>10, Moves DEF SetCwdFails, ClearCwdFails, Serial, Basics
  <2> QED
    BY <1>9, <2>1
<1>5. CASE TebakoStat(t)
  <2>1. /\ UNCHANGED meant /\ call[t].to = Goal(t)
        /\ IF Kind(image, there, call[t].to) = "dir" THEN Moved(t, "set", call[t])
           ELSE Moved(t, "done", Ended(t, call[t].base, Answer("fail")))
    BY <1>5, Moves DEF TebakoStat, Serial, Basics
  <2>2. CASE Moved(t, "set", call[t])
    BY <1>1, <2>1, <2>2, OneStutters DEF Moved, Walks
  <2> QED
    BY <1>4, <2>1, <2>2
<1>6. CASE SetCwd(t)
  <2>1. /\ meant' = Goal(t) /\ Kind(image, there, Goal(t)) = "dir"
        /\ Moved(t, "done", Ended(t, call[t].base, Answer("ok")))
    BY <1>6, Moves DEF SetCwd, Serial, Basics
  <2> QED
    BY <1>3, <2>1
<1>7. CASE HostChdir(t)
  <2> DEFINE d == OnHostSide(call[t].path)
             base == From(call[t].path, host)
  <2>1. UNCHANGED meant /\ d = Goal(t) /\ ~InMemfs(d)
    BY <1>7 DEF HostChdir, Serial
  <2>2. IF d \in there THEN Moved(t, "clear", Cleared(t, d, base))
        ELSE Moved(t, "done", Ended(t, base, Answer("fail")))
    BY <1>7, Moves DEF Basics
  <2> HIDE DEF d, base
  <2>3. CASE d \in there
    <3>1. /\ pc'[t] = "clear" /\ call'[t].op = call[t].op /\ call'[t].path = call[t].path
          /\ call'[t].answer = call[t].answer
          /\ \A u \in Thread : u # t => pc'[u] = pc[u] /\ call'[u] = call[u]
      BY <2>2, <2>3 DEF Moved, Cleared
    <3> QED
      BY <1>1, <2>1, <3>1, OneStutters DEF Walks
  <2>4. CASE d \notin there
    <3>1. Kind(image, there, Goal(t)) # "dir"
      BY <2>1, <2>4 DEF Kind, HostKind
    <3> QED
      BY <1>4, <2>1, <2>2, <2>4, <3>1
  <2> QED
    BY <2>3, <2>4
<1>8. CASE ClearCwd(t)
  <2>1. /\ meant' = Goal(t) /\ Kind(image, there, Goal(t)) = "dir"
        /\ Moved(t, "done", Ended(t, call[t].base, Answer("ok")))
    BY <1>8, Moves DEF ClearCwd, Serial, Basics
  <2> QED
    BY <1>3, <2>1
<1> QED
  BY <1>5, <1>6, <1>7, <1>8, <1>10

\* getcwd tells the one directory.
LEMMA OneGetcwds ==
  ASSUME Basics, Serial, Careful, NEW t \in Thread, CopyCwd(t) \/ HostGetcwd(t)
  PROVE One!Change
<1>1. /\ pc[t] \in {"copy", "getcwd"} /\ call[t].op = "getcwd"
      /\ UNCHANGED <<image, there, meant>>
  BY DEF CopyCwd, HostGetcwd, mountVars, Basics, Owned
<1>2. AskedNow[t] # Nothing /\ AskedNow[t].op = "getcwd"
  BY <1>1, OneAsked
<1>3. \E base : \E a \in {Here(meant), Answer("fail")} : Moved(t, "done", Ended(t, base, a))
  <2>1. CASE CopyCwd(t)
    <3>1. call[t].to = meant
      BY <2>1 DEF CopyCwd, Serial
    <3>2. \E a \in {Here(call[t].to), Answer("fail")} : Moved(t, "done", Ended(t, call[t].base, a))
      BY <2>1, Moves DEF Basics
    <3> QED
      BY <3>1, <3>2
  <2>2. CASE HostGetcwd(t)
    <3>1. host = meant
      BY <2>2 DEF HostGetcwd, Serial
    <3>2. \E a \in {Here(host), Answer("fail")} : Moved(t, "done", Ended(t, {host}, a))
      BY <2>2, Moves DEF Basics
    <3> QED
      BY <3>1, <3>2
  <2> QED
    BY <2>1, <2>2
<1>4. PICK base, a : a \in {Here(meant), Answer("fail")} /\ Moved(t, "done", Ended(t, base, a))
  BY <1>3
<1>5. One!Replies(t, Here(meant)) \/ One!Replies(t, Answer("fail"))
  <2>1. One!Replies(t, a)
    BY <1>1, <1>4, OneReplies
  <2>2. a = Here(meant) \/ a = Answer("fail")
    BY <1>4
  <2> QED
    BY <2>1, <2>2 DEF One!Replies
<1>6. One!Getcwd(t)
  BY <1>1, <1>2, <1>4, <1>5 DEF One!Getcwd, AskedNow
<1> QED
  BY <1>6 DEF One!Change

\* The calls on paths reach what the path means.
LEMMA OneUses ==
  ASSUME Basics, Sited, Serial, Careful, NEW t \in Thread, UseImage(t) \/ UseHost(t)
  PROVE One!Change
<1> DEFINE op == call[t].op
           h == IF InMemfs(Goal(t)) THEN Followed(op, Goal(t)) ELSE Goal(t)
<1>1. /\ pc[t] \in {"image", "host"} /\ op \in Uses /\ UNCHANGED <<image, meant>>
  BY DEF UseImage, UseHost, mountVars, Basics, Owned
<1>2. AskedNow[t] # Nothing /\ AskedNow[t].op = op
  BY <1>1, OneAsked
<1>3. ASSUME NEW base, NEW a, Moved(t, "done", Ended(t, base, a)),
             IF InMemfs(Goal(t)) /\ ~Leaves(op, image, Goal(t))
             THEN /\ a = Answer(IF op \in {"look", "lstat"} THEN ImageKind(image, Goal(t)) ELSE "fail")
                  /\ UNCHANGED there
             ELSE a = OnHost(op, there, h) /\ there' = Changed(op, there, h)
      PROVE One!Change
  <2> DEFINE o == AskedNow[t].op
             m == One!Meaning(t)
             g == IF InMemfs(m) THEN Followed(o, m) ELSE m
  <2>1. One!Replies(t, a) /\ m = Goal(t) /\ o = op
    BY <1>1, <1>2, <1>3, OneReplies
  <2> HIDE DEF o, m
  <2>2. CASE InMemfs(m) /\ ~Leaves(o, image, m)
    <3>1. a = Answer(IF o \in {"look", "lstat"} THEN ImageKind(image, m) ELSE "fail")
      BY <1>3, <2>1, <2>2
    <3>2. One!Replies(t, Answer(IF o \in {"look", "lstat"} THEN ImageKind(image, m) ELSE "fail"))
      BY <2>1, <3>1 DEF One!Replies
    <3>3. UNCHANGED <<there, meant>> /\ o \in Uses /\ AskedNow[t] # Nothing
      BY <1>1, <1>2, <1>3, <2>1, <2>2
    <3>4. One!Use(t)
      BY <2>2, <3>2, <3>3 DEF One!Use, AskedNow, Uses, o, m
    <3> QED
      BY <3>4 DEF One!Change
  <2>3. CASE ~(InMemfs(m) /\ ~Leaves(o, image, m))
    <3>1. a = OnHost(o, there, g)
      BY <1>3, <2>1, <2>3
    <3>2. One!Replies(t, OnHost(o, there, g))
      BY <2>1, <3>1 DEF One!Replies
    <3>3. there' = Changed(o, there, g) /\ UNCHANGED meant /\ o \in Uses /\ AskedNow[t] # Nothing
      BY <1>1, <1>2, <1>3, <2>1, <2>3
    <3>4. One!Use(t)
      BY <2>3, <3>2, <3>3 DEF One!Use, AskedNow, Uses, o, m
    <3> QED
      BY <3>4 DEF One!Change
  <2> QED
    BY <2>2, <2>3
<1>4. CASE UseImage(t)
  <2>1. call[t].to = Goal(t) /\ InMemfs(Goal(t))
    BY <1>4 DEF UseImage, Serial, Sited, Careful
  <2>2. Searched(call[t].to) = {Goal(t)}
    BY <2>1 DEF Searched
  <2>3. CASE Leaves(op, image, Goal(t))
    <3>1. /\ Finish(t, call[t].base, OnHost(op, there, Followed(op, Goal(t))))
          /\ there' = Changed(op, there, Followed(op, Goal(t)))
      BY <1>4, <2>2, <2>3 DEF UseImage
    <3> QED
      BY <1>3, <2>1, <2>3, <3>1, Ends DEF Basics
  <2>4. CASE ~Leaves(op, image, Goal(t))
    <3>1. /\ Finish(t, call[t].base,
                    Answer(IF op \in {"look", "lstat"} THEN ImageKind(image, Goal(t)) ELSE "fail"))
          /\ UNCHANGED there
      BY <1>4, <2>2, <2>4 DEF UseImage
    <3> QED
      BY <1>3, <2>1, <2>4, <3>1, Ends DEF Basics
  <2> QED
    BY <2>3, <2>4
<1>5. CASE UseHost(t)
  <2>1. OnHostSide(call[t].path) = Goal(t) /\ ~InMemfs(Goal(t))
    BY <1>5 DEF UseHost, Serial
  <2>2. /\ Moved(t, "done", Ended(t, From(call[t].path, host), OnHost(op, there, Goal(t))))
        /\ there' = Changed(op, there, Goal(t))
    BY <1>5, <2>1, Moves DEF UseHost, Basics
  <2> QED
    BY <1>3, <2>1, <2>2
<1> QED
  BY <1>4, <1>5

\* A call that returns is a return of the directory that all the threads share.
LEMMA OneReturns ==
  ASSUME Basics, NEW t \in Thread, Return(t)
  PROVE One!Change
<1>1. pc[t] = "done" /\ Moved(t, "idle", NoCall) /\ UNCHANGED <<image, there, meant>>
  BY Moves DEF Return, Basics, mountVars
<1>2. NoCall.answer = {}
  BY DEF NoCall
<1>3. /\ Asked(t)' = Nothing /\ call'[t].answer = {}
      /\ \A u \in Thread : u # t => pc'[u] = pc[u] /\ call'[u] = call[u]
  BY <1>1, <1>2 DEF Moved, Asked
<1>4. AskedNow' = [AskedNow EXCEPT ![t] = Nothing] /\ AnswersNow' = [AnswersNow EXCEPT ![t] = {}]
  BY <1>3, SeenByProgram
<1>5. AnswersNow[t] # {}
  BY <1>1 DEF AnswersNow, Basics, Owned
<1>6. One!Return(t)
  BY <1>1, <1>4, <1>5 DEF One!Return, AskedNow, AnswersNow
<1> QED
  BY <1>6 DEF One!Change

\* Mounting and unmounting, seen one step at a time.
LEMMA OneRemounts ==
  ASSUME Basics, Outside, DropCwd \/ EraseImage \/ LoadImage \/ InitCwd
  PROVE One!Change
<1>1. \A t \in Thread : pc[t] = "idle"
  BY DEF DropCwd, EraseImage, LoadImage, InitCwd, Basics, Mounted
<1>2. UNCHANGED <<there, pc, call>> /\ image' \in Image \cup {{}}
  BY DEF DropCwd, EraseImage, LoadImage, InitCwd, Basics, Mounted
<1>3. UNCHANGED meant \/ ~InMemfs(meant')
  BY DEF DropCwd, EraseImage, LoadImage, InitCwd, Outside
<1>4. \A t \in Thread : AskedNow[t] = Nothing
  BY <1>1 DEF AskedNow, Asked
<1>5. AskedNow' = AskedNow /\ AnswersNow' = AnswersNow
  BY <1>2 DEF AskedNow, AnswersNow, Asked
<1>6. One!Remount
  BY <1>2, <1>3, <1>4, <1>5 DEF One!Remount, AskedNow, AnswersNow
<1> QED
  BY <1>6 DEF One!Change

\* Every step of a careful program is one of the directory they share, or none.
LEMMA OneStep ==
  Basics /\ Sited /\ Anchored /\ Outside /\ Serial /\ [Next]_vars =>
    (Careful => [One!Next]_One!vars)
<1> SUFFICES ASSUME Basics, Sited, Anchored, Outside, Serial, [Next]_vars, Careful
             PROVE One!Change \/ UNCHANGED One!vars
  BY StepsKeepProgram DEF One!Next
<1>1. ASSUME NEW t \in Thread, Step(t) PROVE One!Change \/ UNCHANGED One!vars
  <2>1. UNCHANGED image
    BY <1>1, StepsKeepMounts DEF mountVars
  <2>2. ASSUME NEW c, Begun(t, c) PROVE One!Change
    BY <2>1, <2>2, OneAsks
  <2> QED
    BY <1>1, <2>2, OneChdirs, OneGetcwds, OneUses, OneReturns DEF Step, Begun
<1>2. CASE DropCwd \/ EraseImage \/ LoadImage \/ InitCwd
  BY <1>2, OneRemounts
<1>3. CASE UNCHANGED vars
  <2>1. AskedNow' = AskedNow /\ AnswersNow' = AnswersNow /\ UNCHANGED <<meant, prog, image, there>>
    BY <1>3 DEF vars, mountVars, AskedNow, AnswersNow, Asked
  <2> QED
    BY <2>1 DEF One!vars, AskedNow, AnswersNow
<1> QED
  BY <1>1, <1>2, <1>3 DEF Next

\* chdir, getcwd and the calls on paths: for every tree, image and set of threads, a
\* program that makes one call at a time and keeps to its side of the mount point
\* sees one working directory, whichever of the two the library consults.
THEOREM OneDirectoryIsSeen == Spec => OneDirectory
<1>1. Spec => []Sited
  <2>1. Init => Sited
    BY DEF Init, Sited
  <2> QED
    BY <2>1, SitedStep, BasicsHold, PTL DEF Spec
<1> QED
  BY <1>1, OneInit, OneStep, BasicsHold, AnchoredHolds, OutsideHolds, SerialHolds, PTL
     DEF Spec, OneDirectory

--------------------------------------------------------------------------------
(* Normal paths.                                                             *)

\* What the library keeps of a path: absolute it holds no "..".
Written(abs) == IF abs THEN Normal ELSE Seq(Name \cup {Up})

\* One name more leaves a path of the kind it was.
LEMMA ExtendedIsPath ==
  ASSUME NEW abs \in BOOLEAN, NEW path \in Written(abs), NEW name \in Name \cup {Up}
  PROVE  Extended(abs, path, name) \in Written(abs)
<1> DEFINE Letters == IF abs THEN Name ELSE Name \cup {Up}
<1>1. path \in Seq(Letters) /\ Written(abs) = Seq(Letters)
  BY DEF Written, Normal
<1> HIDE DEF Letters
<1>2. ASSUME NEW x \in Letters PROVE Append(path, x) \in Seq(Letters)
  BY <1>1, <1>2, AppendProperties
<1>3. CASE name # Up
  <2>1. name \in Letters
    BY <1>3 DEF Letters
  <2> QED BY <1>1, <1>2, <1>3, <2>1 DEF Extended
<1>4. CASE name = Up /\ path # <<>> /\ Last(path) # Up
  <2>1. Len(path) \in Nat \ {0}
    BY <1>1, <1>4, EmptySeq, LenProperties
  <2>2. \A i \in 1 .. Len(path) - 1 : path[i] \in Letters
    BY <1>1, <2>1, ElementOfSeq
  <2>3. Front(path) \in Seq(Letters)
    BY <1>1, <2>1, <2>2, SubSeqProperties DEF Front
  <2> QED BY <1>1, <1>4, <2>3 DEF Extended
<1>5. CASE name = Up /\ ~(path # <<>> /\ Last(path) # Up)
  <2>1. ~abs => Up \in Letters
    BY DEF Letters
  <2> QED BY <1>1, <1>2, <1>5, <2>1 DEF Extended
<1> QED BY <1>3, <1>4, <1>5

\* lexically_normal gives such a path.
LEMMA NormalIsPath ==
  ASSUME NEW abs \in BOOLEAN, NEW names \in Seq(Name \cup {Up})
  PROVE  LexicallyNormal(abs, names) \in Written(abs)
<1> DEFINE V == Written(abs)
           n == Len(names)
           Def(f) == [k \in 0 .. n |-> IF k = 0 THEN <<>> ELSE Extended(abs, f[k - 1], names[k])]
           path == CHOOSE f : f = Def(f)
           step == [k \in 1 .. n |-> [p \in V |-> Extended(abs, p, names[k])]]
<1>1. n \in Nat /\ <<>> \in V
  BY DEF Written, Normal
<1>2. ASSUME NEW k \in 1 .. n, NEW p \in V PROVE Extended(abs, p, names[k]) \in V
  BY ExtendedIsPath, ElementOfSeq
<1>3. step \in [1 .. n -> [V -> V]]
  BY <1>2
<1>4. PICK g : Steps(g, V, <<>>, step, n)
  <2> HIDE DEF step, V, n
  <2> QED BY <1>1, <1>3, Recursion
<1>5. \A k \in 1 .. n : g[k] = Extended(abs, g[k - 1], names[k])
  <2> TAKE k \in 1 .. n
  <2>1. g[k] = step[k][g[k - 1]] /\ g[k - 1] \in V
    BY <1>1, <1>4 DEF Steps
  <2> QED BY <2>1
<1>6. g \in [0 .. n -> V] /\ g[0] = <<>>
  BY <1>4 DEF Steps
<1> HIDE DEF V, n
<1>7. g = Def(g)
  <2>1. \A k \in 0 .. n : k # 0 => k \in 1 .. n
    BY <1>1
  <2>2. \A k \in 0 .. n : g[k] = Def(g)[k]
    BY <1>5, <1>6, <2>1
  <2>3. g = [k \in 0 .. n |-> g[k]]
    BY <1>6
  <2> QED BY <2>2, <2>3
<1>8. path = Def(path)
  <2> HIDE DEF Def
  <2> QED BY <1>7
<1>9. LexicallyNormal(abs, names) = path[n]
  BY DEF LexicallyNormal, n
<1>10. path[0] = <<>> /\ \A k \in 1 .. n : path[k] = Extended(abs, path[k - 1], names[k])
  <2> HIDE DEF path
  <2> QED BY <1>1, <1>8
<1> DEFINE S == {k \in 0 .. n : path[k] \in V}
<1> HIDE DEF path
<1>11. 0 \in S
  <2>1. 0 \in 0 .. n
    BY <1>1
  <2> QED BY <1>1, <1>10, <2>1
<1>12. ASSUME NEW k \in 1 .. n, k - 1 \in S PROVE k \in S
  <2>1. k \in 0 .. n
    BY <1>1
  <2> QED BY <1>2, <1>10, <1>12, <2>1
<1> HIDE DEF S
<1>13. 0 .. n \subseteq S
  BY <1>1, <1>11, <1>12, UpTo
<1>14. n \in S
  BY <1>1, <1>13
<1> QED BY <1>9, <1>14 DEF S, V

\* A path that is read from a directory is normal.
LEMMA ExpandedIsNormal ==
  ASSUME NEW dir \in Normal, NEW path \in Given
  PROVE  Expanded(dir, path) \in Normal
<1>1. path.abs \in BOOLEAN /\ path.names \in Seq(Name \cup {Up})
  BY DEF Given
<1>2. LexicallyNormal(FALSE, path.names) \in Seq(Name \cup {Up})
  BY <1>1, NormalIsPath DEF Written
<1>3. dir \in Seq(Name \cup {Up})
  <2>1. Name \subseteq Name \cup {Up}
    OBVIOUS
  <2> QED BY <2>1, SeqMonotonic DEF Normal
<1>4. dir \o LexicallyNormal(FALSE, path.names) \in Seq(Name \cup {Up})
  BY <1>2, <1>3, ConcatProperties
<1> DEFINE names == IF path.abs THEN path.names ELSE dir \o LexicallyNormal(FALSE, path.names)
<1>5. names \in Seq(Name \cup {Up})
  BY <1>1, <1>4
<1> HIDE DEF names
<1>6. LexicallyNormal(TRUE, names) \in Written(TRUE)
  BY <1>5, NormalIsPath
<1> QED BY <1>6 DEF Expanded, Written, names

\* The paths that a call keeps, and those of the two trees.
TypedCall(c) == /\ [op |-> c.op, path |-> c.path] \in CallOf
                /\ c.to \in Normal /\ c.base \subseteq Normal
TypedCalls == \A t \in Thread : TypedCall(call[t]) /\ inForce[t] \subseteq Normal
TypedDirs == /\ cwd \in Normal /\ host \in Normal /\ meant \in Normal
             /\ there \subseteq Normal

\* What a link of the image leads to is a path of the host.
LEMMA FollowedIsNormal ==
  ASSUME NEW op, NEW path \in Normal, Leaves(op, image, path)
  PROVE  Followed(op, path) \in Normal
<1> DEFINE l == CHOOSE x \in LinksOn(op, path) : TRUE
<1>1. l \in LinksOn(op, path)
  BY DEF Leaves
<1> HIDE DEF l
<1>2. l \in DOMAIN LinkTo /\ IsPrefix(l, path)
  BY <1>1 DEF LinksOn
<1>3. l \in Normal /\ LinkTo[l] \in Normal
  BY <1>2, LinkAssumption
<1>4. Len(l) \in Nat /\ Len(path) \in Nat
  BY <1>3, LenProperties DEF Normal
<1>5. \A i \in Len(l) + 1 .. Len(path) : path[i] \in Name
  BY <1>4, ElementOfSeq DEF Normal
<1>6. SubSeq(path, Len(l) + 1, Len(path)) \in Normal
  BY <1>4, <1>5, SubSeqProperties DEF Normal
<1>7. LinkTo[l] \o SubSeq(path, Len(l) + 1, Len(path)) \in Normal
  BY <1>3, <1>6, ConcatProperties DEF Normal
<1> QED BY <1>7 DEF Followed, l

\* A step of one call leaves the others typed; what comes into force is where chdir goes.
LEMMA MovedTyped ==
  ASSUME TypedCalls, meant \in Normal, NEW t \in Thread, NEW place, NEW c, Moved(t, place, c), TypedCall(c)
  PROVE  TypedCalls'
<1>1. \A u \in Thread : TypedCall(call'[u])
  BY DEF Moved, TypedCalls
<1>2. Coming' \subseteq Normal
  BY <1>1 DEF Coming, TypedCall
<1>3. \A u \in Thread : inForce'[u] \subseteq Normal
  BY <1>2 DEF Moved, TypedCalls
<1> QED BY <1>1, <1>3 DEF TypedCalls, TypedCall

\* What a call becomes.
LEMMA CallsTyped ==
  ASSUME TypedCalls, TypedDirs, NEW t \in Thread
  PROVE  /\ TypedCall(NoCall)
         /\ \A c \in CallOf, to \in Normal, base \in SUBSET Normal : TypedCall(Entered(c, to, base))
         /\ \A base \in SUBSET Normal : \A a : TypedCall(Ended(t, base, a))
         /\ \A to \in Normal, base \in SUBSET Normal : TypedCall(Cleared(t, to, base))
         /\ \A path : \A dir \in Normal : From(path, dir) \in SUBSET Normal
         /\ call[t].base \in SUBSET Normal /\ call[t].to \in Normal /\ call[t].path \in Given
         /\ <<>> \in Normal
<1>1. <<>> \in Normal /\ <<>> \in Seq(Name \cup {Up})
  BY DEF Normal
<1>2. TypedCall(NoCall)
  BY <1>1 DEF TypedCall, NoCall, CallOf, Op, Given
<1>3. ASSUME NEW c \in CallOf, NEW to \in Normal, NEW base \in SUBSET Normal PROVE TypedCall(Entered(c, to, base))
  BY DEF Entered, TypedCall, CallOf
<1>4. TypedCall(call[t])
  BY DEF TypedCalls
<1>5. \A base \in SUBSET Normal : \A a : TypedCall(Ended(t, base, a))
  BY <1>4 DEF TypedCall, Ended
<1>6. \A to \in Normal, base \in SUBSET Normal : TypedCall(Cleared(t, to, base))
  BY <1>4 DEF TypedCall, Cleared
<1>7. \A path : \A dir \in Normal : From(path, dir) \in SUBSET Normal
  BY DEF From
<1>8. call[t].base \in SUBSET Normal /\ call[t].to \in Normal /\ call[t].path \in Given
  BY <1>4 DEF TypedCall, CallOf
<1> QED BY <1>1, <1>2, <1>3, <1>5, <1>6, <1>7, <1>8

\* A directory that is made on the host has a normal path.
LEMMA ChangedTyped ==
  ASSUME there \subseteq Normal, NEW op, NEW path \in Normal
  PROVE  Changed(op, there, path) \subseteq Normal
BY DEF Changed

\* Every step keeps the paths normal.
LEMMA TypedStep == Basics /\ TypedCalls /\ TypedDirs /\ [Next]_vars => TypedCalls' /\ TypedDirs'
<1> SUFFICES ASSUME Basics, TypedCalls, TypedDirs, [Next]_vars PROVE TypedCalls' /\ TypedDirs'
  OBVIOUS
<1>0. /\ Shape /\ meant \in Normal /\ cwd \in Normal /\ host \in Normal /\ there \subseteq Normal
  BY DEF Basics, TypedDirs
<1>1. ASSUME NEW t \in Thread, NEW c, Begun(t, c) PROVE TypedCalls' /\ TypedDirs'
  <2>1. c \in CallOf /\ c.path \in Given /\ UNCHANGED <<cwd, host, meant, there>>
    <3>1. c \in CallOf /\ UNCHANGED <<cwd, host, meant, there>>
      BY <1>1, Beginning
    <3> QED BY <3>1 DEF CallOf
  <2>2. TypedDirs'
    BY <2>1 DEF TypedDirs
  <2>3. ToTebakoPath(c.path) \in Normal
    BY <1>0, <2>1, ExpandedIsNormal DEF ToTebakoPath
  <2>4. From(c.path, cwd) \in SUBSET Normal
    BY <1>0, CallsTyped
  <2>5. \E place : \E to \in Normal, base \in SUBSET Normal : Moved(t, place, Entered(c, to, base))
    <3>1. <<>> \in Normal /\ {} \in SUBSET Normal /\ {cwd} \in SUBSET Normal
      BY <1>0, CallsTyped
    <3>2. CASE Chdir(t, c)
      BY <1>0, <2>3, <2>4, <3>1, <3>2, Moves
    <3>3. CASE Getcwd(t, c)
      BY <1>0, <3>1, <3>3, Moves
    <3>4. CASE Use(t, c)
      BY <1>0, <2>3, <2>4, <3>1, <3>4, Moves
    <3> QED BY <1>1, <3>2, <3>3, <3>4 DEF Begun
  <2>6. PICK place : \E to \in Normal, base \in SUBSET Normal : Moved(t, place, Entered(c, to, base))
    BY <2>5
  <2>7. \A to \in Normal, base \in SUBSET Normal : TypedCall(Entered(c, to, base))
    BY <2>1, CallsTyped
  <2>8. TypedCalls'
    BY <1>0, <2>6, <2>7, MovedTyped
  <2> QED BY <2>2, <2>8
<1>2. ASSUME NEW t \in Thread, Going(t) PROVE TypedCalls' /\ TypedDirs'
  <2>1. call[t].path \in Given /\ call[t].to \in Normal /\ call[t].base \in SUBSET Normal
    BY CallsTyped
  <2>2. OnHostSide(call[t].path) \in Normal /\ From(call[t].path, host) \in SUBSET Normal
    BY <1>0, <2>1, CallsTyped, ExpandedIsNormal DEF OnHostSide
  <2>3. \E place, c : Moved(t, place, c) /\ TypedCall(c)
    <3> DEFINE d == OnHostSide(call[t].path)
               base == From(call[t].path, host)
    <3>1. \A b \in SUBSET Normal : \A a : TypedCall(Ended(t, b, a))
      BY CallsTyped
    <3>2. TypedCall(call[t]) /\ {host} \in SUBSET Normal
      BY <1>0 DEF TypedCalls
    <3>3. TypedCall(Cleared(t, d, base))
      BY <2>2, CallsTyped
    <3> HIDE DEF d, base
    <3>4. CASE TebakoStat(t)
      <4>1. Moved(t, "set", call[t]) \/ Moved(t, "done", Ended(t, call[t].base, Answer("fail")))
        BY <1>0, <3>4, Moves
      <4> QED BY <2>1, <3>1, <3>2, <4>1
    <3>5. CASE HostChdir(t)
      <4>1. Moved(t, "clear", Cleared(t, d, base)) \/ Moved(t, "done", Ended(t, base, Answer("fail")))
        BY <1>0, <3>5, Moves DEF d, base
      <4>2. base \in SUBSET Normal
        BY <2>2 DEF base
      <4> QED BY <3>1, <3>3, <4>1, <4>2
    <3>6. CASE SetCwd(t) \/ SetCwdFails(t) \/ ClearCwd(t) \/ ClearCwdFails(t) \/ CopyCwd(t) \/ UseImage(t)
      <4>1. \E a : Moved(t, "done", Ended(t, call[t].base, a))
        BY <1>0, <3>6, Moves
      <4> QED BY <2>1, <3>1, <4>1
    <3>7. CASE HostGetcwd(t)
      <4>1. \E a : Moved(t, "done", Ended(t, {host}, a))
        BY <1>0, <3>7, Moves
      <4> QED BY <3>1, <3>2, <4>1
    <3>8. CASE UseHost(t)
      <4>1. \E a : Moved(t, "done", Ended(t, base, a))
        BY <1>0, <3>8, Moves DEF base
      <4>2. base \in SUBSET Normal
        BY <2>2 DEF base
      <4> QED BY <3>1, <4>1, <4>2
    <3> QED BY <1>2, <3>4, <3>5, <3>6, <3>7, <3>8 DEF Going
  <2>4. TypedCalls'
    BY <1>0, <2>3, MovedTyped
  <2>5. cwd' \in Normal /\ meant' \in Normal
    <3>1. \/ UNCHANGED <<cwd, meant>>
          \/ cwd' \in {cwd, call[t].to, <<>>} /\ meant' \in {meant, call[t].to}
      BY <1>2 DEF Going, TebakoStat, SetCwd, SetCwdFails, HostChdir, ClearCwd, ClearCwdFails,
             CopyCwd, HostGetcwd, UseImage, UseHost
    <3> QED BY <1>0, <2>1, <3>1, CallsTyped
  <2>6. host' \in Normal
    <3>1. host' = host \/ host' = OnHostSide(call[t].path)
      BY <1>2 DEF Going, TebakoStat, SetCwd, SetCwdFails, HostChdir, ClearCwd, ClearCwdFails,
             CopyCwd, HostGetcwd, UseImage, UseHost
    <3> QED BY <1>0, <2>2, <3>1
  <2>7. there' \subseteq Normal
    <3>1. CASE UseImage(t)
      <4>1. \/ there' = there
            \/ \E p \in Searched(call[t].to) : /\ Leaves(call[t].op, image, p)
                                               /\ there' = Changed(call[t].op, there, Followed(call[t].op, p))
        BY <3>1 DEF UseImage
      <4>2. image \subseteq Normal
        BY ImageAssumption DEF Basics, Mounted
      <4>3. Searched(call[t].to) \subseteq Normal
        BY <2>1, <4>2, FileAssumption, LinkAssumption DEF Searched
      <4> QED BY <1>0, <4>1, <4>3, FollowedIsNormal, ChangedTyped
    <3>2. CASE UseHost(t)
      <4>1. there' = Changed(call[t].op, there, OnHostSide(call[t].path))
        BY <3>2 DEF UseHost
      <4> QED BY <1>0, <2>2, <4>1, ChangedTyped
    <3>3. CASE ~UseImage(t) /\ ~UseHost(t)
      BY <1>0, <1>2, <3>3 DEF Going, TebakoStat, SetCwd, SetCwdFails, HostChdir, ClearCwd,
                        ClearCwdFails, CopyCwd, HostGetcwd
    <3> QED BY <3>1, <3>2, <3>3
  <2> QED BY <2>4, <2>5, <2>6, <2>7 DEF TypedDirs
<1>3. ASSUME NEW t \in Thread, Return(t) PROVE TypedCalls' /\ TypedDirs'
  <2>1. UNCHANGED <<cwd, host, there, meant>> /\ Moved(t, "idle", NoCall)
    BY <1>0, <1>3, Moves DEF Return
  <2>2. TypedCalls'
    BY <1>0, <2>1, CallsTyped, MovedTyped
  <2> QED BY <2>1, <2>2 DEF TypedDirs
<1>4. CASE DropCwd \/ EraseImage \/ LoadImage \/ InitCwd
  <2>1. /\ UNCHANGED <<call, inForce, host, there>> /\ cwd' \in {cwd, <<>>} /\ meant' \in {meant, host}
    BY <1>4 DEF DropCwd, EraseImage, LoadImage, InitCwd
  <2>2. <<>> \in Normal
    BY DEF Normal
  <2> QED BY <1>0, <2>1, <2>2 DEF TypedCalls, TypedCall, TypedDirs
<1>5. CASE UNCHANGED vars
  BY <1>0, <1>5 DEF vars, TypedCalls, TypedCall, TypedDirs
<1> QED BY <1>1, <1>2, <1>3, <1>4, <1>5 DEF Next, Step, Begun, Going

\* Type correctness, whatever the paths of the program are: in particular, every directory
\* that the library keeps or that is in force is lexically normal.
THEOREM TypeCorrect == Spec => []TypeOK
<1>1. Init => TypedCalls /\ TypedDirs
  <2> SUFFICES ASSUME Init PROVE TypedCalls /\ TypedDirs
    OBVIOUS
  <2>1. <<>> \in Normal /\ <<>> \in Seq(Name \cup {Up})
    BY DEF Normal
  <2>2. TypedCall(NoCall)
    BY <2>1 DEF TypedCall, NoCall, CallOf, Op, Given
  <2> QED BY <2>1, <2>2, HostAssumption DEF Init, TypedCalls, TypedDirs
<1>2. Spec => [](TypedCalls /\ TypedDirs)
  BY <1>1, TypedStep, BasicsHold, PTL DEF Spec
<1>3. Basics /\ Outside /\ TypedCalls /\ TypedDirs => TypeOK
  <2> SUFFICES ASSUME Basics, Outside, TypedCalls, TypedDirs PROVE TypeOK
    OBVIOUS
  <2>1. /\ prog \in Program /\ root \in {"up", "dropped", "down", "loaded"} /\ alive = (root = "up")
        /\ inside \in BOOLEAN /\ (inside => alive)
        /\ image \in Image \cup {{}} /\ (image = {}) = (root = "down")
        /\ pc \in [Thread -> Place]
    BY DEF Basics, Mounted, Shape
  <2>2. \A d \in there : d \in Normal /\ ~InMemfs(d)
    BY DEF Outside, TypedDirs
  <2>3. ASSUME NEW t \in Thread
        PROVE  /\ DOMAIN call[t] = DOMAIN NoCall
               /\ [op |-> call[t].op, path |-> call[t].path] \in CallOf
               /\ (pc[t] = "done") = (call[t].answer # {})
               /\ \A d \in inForce[t] \cup call[t].base : d \in Normal
    <3>1. call[t] = Fields(call[t])
      BY DEF Basics, Shape
    <3>2. DOMAIN Fields(call[t]) = DOMAIN NoCall
      BY DEF Fields, NoCall
    <3>3. (pc[t] = "done") = (call[t].answer # {})
      BY DEF Basics, Owned
    <3>4. TypedCall(call[t]) /\ inForce[t] \subseteq Normal
      BY DEF TypedCalls
    <3> QED BY <3>1, <3>2, <3>3, <3>4 DEF TypedCall
  <2> QED BY <2>1, <2>2, <2>3 DEF TypeOK, TypedDirs
<1> QED BY <1>2, <1>3, BasicsHold, OutsideHolds, PTL
================================================================================
