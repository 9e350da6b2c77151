----------------------------- MODULE DlTable_proofs -----------------------------
(***************************************************************************)
(* Proofs for DlTable: the type of its state, for every program, and that  *)
(* the libraries it hands out are whole, for the programs that meet none   *)
(* of the faults the code has no answer to.                                *)
(***************************************************************************)
EXTENDS DlTable, TLAPS

\* Programs the table serves well: the last block of a copy is never short, and a
\* copy fails half way only in a program that calls from one thread at a time and
\* whose insertions do not throw.
Sound(p) == /\ "last" \notin p.faults
            /\ ("read" \in p.faults \/ "write" \in p.faults) =>
                  p.alone /\ "insert" \notin p.faults
SoundPrograms == \A p \in Program : Sound(p)

\* No two libraries share a file, and no file is longer than its library.
Names == /\ \A l, m \in Lib : dir[l] # None /\ dir[l] = dir[m] => l = m
         /\ \A l \in Lib : dir[l] # None => blocks[dir[l]] <= Length[l]

\* A copy has written what it counted to the file of its library.
CopyGoesOn(t) ==
  /\ dir[call[t].lib] = call[t].out
  /\ pc[t] # "unlink" => blocks[call[t].out] >= Length[call[t].lib] - call[t].left
  /\ pc[t] = "insert" => call[t].left = 0
Copies == \A t \in Thread :
            /\ pc[t] = "create" => call[t].left = Length[call[t].lib]
            /\ pc[t] \in Writing => CopyGoesOn(t)
\* In a program of one call at a time, the library being extracted is in nobody's
\* hands, unless an insertion threw.
Single == prog.alone =>
            /\ \A t, u \in Thread : pc[t] # "idle" /\ pc[u] # "idle" => t = u
            /\ up /\ ~May("insert") => /\ given \subseteq table
                                       /\ \A t \in Thread : pc[t] # "idle" => call[t].lib \notin table

\* Only such a program unlinks a file.
Unlinking == \A t \in Thread : pc[t] = "unlink" => prog.alone /\ ~May("insert")

Ended == ~up => \A t \in Thread : pc[t] = "idle"

Inv == /\ TypeOK /\ Sound(prog)
       /\ Names /\ Copies /\ Single /\ Unlinking /\ Ended
       /\ LoadedLibrariesAreWhole

\* What a step of thread t inside a call must say of where it goes.
Arrives(t, place, c) ==
  /\ place \in Place /\ c \in Call
  /\ place # "idle" => pc[t] # "idle" /\ c.lib = call[t].lib
  /\ place = "create" => c.left = Length[c.lib]
  /\ place \in Writing =>
       /\ c.out \in File /\ c.left <= Length[c.lib] /\ dir[c.lib] = c.out
       /\ place # "unlink" => blocks[c.out] >= Length[c.lib] - c.left
       /\ place = "insert" => c.left = 0
       /\ place = "unlink" => prog.alone /\ ~May("insert")

\* The frame of a thread outside every call is a frame.
LEMMA NoCallIsCall == NoCall \in Call /\ NoCall.lib = None
  BY DEF NoCall, Call

\* The empty table satisfies the invariant.
LEMMA InitInv == SoundPrograms /\ Init => Inv
  <1> SUFFICES ASSUME SoundPrograms, Init PROVE Inv
    OBVIOUS
  <1>1. TypeOK
    BY NoCallIsCall DEF Init, TypeOK, Place, Writing
  <1>2. Sound(prog)
    BY DEF Init, SoundPrograms
  <1>3. Names /\ Copies /\ Single /\ Unlinking /\ Ended /\ LoadedLibrariesAreWhole
    BY DEF Init, Names, Copies, CopyGoesOn, Single, Unlinking, Ended, LoadedLibrariesAreWhole, Writing
  <1> QED BY <1>1, <1>2, <1>3 DEF Inv

\* A step that changes nothing but the place of one thread.
LEMMA GotoInv ==
  ASSUME Inv, NEW t \in Thread, NEW place, NEW c, Goto(t, place, c), Arrives(t, place, c),
         stash' \in Errors \cup {None}, due' \in BOOLEAN,
         UNCHANGED <<prog, up, table, dir, blocks, given>>
  PROVE  Inv'
  <1> USE DEF Inv
  <1>1. /\ pc'[t] = place /\ call'[t] = c
        /\ \A u \in Thread \ {t} : pc'[u] = pc[u] /\ call'[u] = call[u]
        /\ pc' \in [Thread -> Place] /\ call' \in [Thread -> Call]
    BY DEF Goto, TypeOK, Arrives
  <1>2. TypeOK'
    BY <1>1 DEF TypeOK, Arrives, Writing
  <1>3. Names' /\ Sound(prog)' /\ LoadedLibrariesAreWhole'
    BY DEF Names, Sound, LoadedLibrariesAreWhole, Whole
  <1>4. Copies'
    BY <1>1 DEF Copies, CopyGoesOn, Arrives
  <1>5. Single'
    BY <1>1 DEF Single, Arrives, May
  <1>6. Unlinking' /\ Ended'
    BY <1>1 DEF Unlinking, Ended, Arrives, May, Writing
  <1> QED BY <1>2, <1>3, <1>4, <1>5, <1>6

\* A call returns the name of a library that is whole.
LEMMA DeliverInv ==
  ASSUME Inv, NEW t \in Thread, NEW lib \in Lib, Whole(lib), Deliver(t, lib),
         NEW kept, table' = kept, kept \subseteq table \cup {lib},
         prog.alone => \A u \in Thread \ {t} : pc[u] = "idle",
         prog.alone /\ ~May("insert") => kept = table \cup {lib},
         stash' \in Errors \cup {None}, up, UNCHANGED <<prog, up, dir, blocks, due>>
  PROVE  Inv'
  <1> USE DEF Inv
  <1>1. /\ pc'[t] = "idle" /\ call'[t] = NoCall /\ given' = given \cup {lib}
        /\ \A u \in Thread \ {t} : pc'[u] = pc[u] /\ call'[u] = call[u]
        /\ pc' \in [Thread -> Place] /\ call' \in [Thread -> Call]
    BY NoCallIsCall DEF Deliver, Goto, TypeOK, Place
  <1>2. TypeOK'
    BY <1>1 DEF TypeOK, Writing
  <1>3. Names' /\ Sound(prog)' /\ LoadedLibrariesAreWhole'
    BY <1>1 DEF Names, Sound, LoadedLibrariesAreWhole, Whole
  <1>4. Copies'
    BY <1>1 DEF Copies, CopyGoesOn, Writing
  <1>5. Single'
    BY <1>1 DEF Single, May
  <1>6. Unlinking' /\ Ended'
    BY <1>1 DEF Unlinking, Ended, May
  <1> QED BY <1>1, <1>2, <1>3, <1>4, <1>5, <1>6

\* Looking up a library that is there keeps the invariant.
LEMMA FindInv == ASSUME Inv, NEW t \in Thread, Find(t) PROVE Inv'
  <1> USE DEF Inv
  <1>0. TypeOK /\ up /\ (prog.alone => ~Torn(t)) /\ pc[t] = "idle"
    BY DEF Find, FindHit, FindMiss, FindEmpty, Begins, Torn
  <1>1. ASSUME NEW lib \in Lib, FindHit(t, lib) PROVE Inv'
    <2>1. Whole(lib) /\ (prog.alone => \A u \in Thread \ {t} : pc[u] = "idle")
      BY <1>1 DEF FindHit, LoadedLibrariesAreWhole, Begins
    <2>2. table' = table /\ table = table \cup {lib} /\ stash' \in Errors \cup {None}
      BY <1>1, <1>0 DEF FindHit, TypeOK
    <2>3. Deliver(t, lib) /\ UNCHANGED <<prog, up, dir, blocks, due>>
      BY <1>1 DEF FindHit
    <2> HIDE DEF Inv
    <2> QED BY <1>0, <2>1, <2>2, <2>3, DeliverInv
  <1>2. ASSUME NEW lib \in Lib, FindMiss(t, lib) PROVE Inv'
    <2> DEFINE c == [NoCall EXCEPT !.lib = lib]
    <2>1. c \in Call /\ c.lib = lib
      BY DEF NoCall, Call
    <2>2. /\ pc'[t] = "name" /\ call'[t] = c
          /\ \A u \in Thread \ {t} : pc'[u] = pc[u] /\ call'[u] = call[u]
          /\ pc' \in [Thread -> Place] /\ call' \in [Thread -> Call]
          /\ UNCHANGED <<prog, up, table, dir, blocks, stash, due, given>>
      BY <1>0, <1>2, <2>1 DEF FindMiss, Goto, TypeOK, Place
    <2> HIDE DEF c
    <2>3. TypeOK'
      BY <1>0, <2>1, <2>2 DEF TypeOK, Writing
    <2>4. Names' /\ Sound(prog)' /\ LoadedLibrariesAreWhole'
      BY <2>2 DEF Names, Sound, LoadedLibrariesAreWhole, Whole
    <2>5. Copies' /\ Unlinking' /\ Ended'
      BY <1>0, <2>2 DEF Copies, CopyGoesOn, Unlinking, Ended, May, Writing
    <2>6. Single'
      BY <1>0, <1>2, <2>1, <2>2 DEF Single, FindMiss, Begins, May
    <2> QED BY <2>3, <2>4, <2>5, <2>6
  <1>3. ASSUME NEW lib \in Lib, FindEmpty(t, lib) PROVE Inv'
    <2>1. due' = TRUE /\ UNCHANGED <<prog, up, table, dir, blocks, stash, given, pc, call>>
      BY <1>3 DEF FindEmpty
    <2>2. TypeOK'
      BY <1>0, <2>1 DEF TypeOK
    <2> QED BY <2>1, <2>2 DEF Names, Copies, CopyGoesOn, Single, Unlinking, Ended, LoadedLibrariesAreWhole,
                              Whole, Sound, May
  <1> QED BY <1>1, <1>2, <1>3 DEF Find

\* A step inside a call that touches neither the directory nor the table.
LEMMA InnerInv ==
  ASSUME Inv, NEW t \in Thread,
         \/ MapName(t) \/ MapNameThrows(t) \/ OpenLib(t) \/ OpenLibFails(t) \/ StatLib(t)
         \/ StatFails(t) \/ CreateFails(t) \/ CopyReadFails(t) \/ CopyWriteFails(t) \/ CopyEnds(t)
  PROVE  Inv'
  <1> USE DEF Inv
  <1>0. /\ TypeOK /\ call[t] \in Call /\ pc[t] # "idle" /\ call[t].lib \in Lib
        /\ Length[call[t].lib] \in Nat
        /\ stash \in Errors \cup {None} /\ due \in BOOLEAN
    BY LengthAssumption DEF TypeOK, MapName, MapNameThrows, OpenLib, OpenLibFails, StatLib, StatFails, CreateFails,
           CopyReadFails, CopyWriteFails, CopyEnds
  <1>1. ASSUME NEW err \in {"ENOENT", "EIO", "ENOMEM"}, Fail(t, err), UNCHANGED dir PROVE Inv'
    <2>1. Arrives(t, "idle", NoCall)
      BY NoCallIsCall DEF Arrives, Place, Writing
    <2>2. stash' \in Errors \cup {None} /\ due' \in BOOLEAN
      BY <1>0, <1>1 DEF Fail, Errors
    <2> QED BY <1>1, <2>1, <2>2, GotoInv DEF Fail
  <1>2. CASE MapNameThrows(t) \/ OpenLibFails(t) \/ StatFails(t) \/ CreateFails(t)
    BY <1>1, <1>2 DEF MapNameThrows, OpenLibFails, StatFails, CreateFails
  <1>3. CASE MapName(t) \/ OpenLib(t)
    <2>1. Arrives(t, "open", call[t]) /\ Arrives(t, "stat", call[t])
      BY <1>0 DEF Arrives, Place, Writing
    <2> QED BY <1>0, <1>3, <2>1, GotoInv DEF MapName, OpenLib
  <1>4. CASE StatLib(t)
    <2> DEFINE c == [call[t] EXCEPT !.left = Length[call[t].lib]]
    <2>1. c \in Call /\ c.lib = call[t].lib /\ c.left = Length[c.lib]
      BY <1>0 DEF Call
    <2>2. Arrives(t, "create", c)
      <3> HIDE DEF c
      <3> QED BY <1>0, <2>1 DEF Arrives, Place, Writing
    <2> QED BY <1>0, <1>4, <2>2, GotoInv DEF StatLib
  <1>5. ASSUME pc[t] = "copy"
        PROVE  /\ call[t].out \in File /\ call[t].left <= Length[call[t].lib]
               /\ dir[call[t].lib] = call[t].out /\ call[t].left \in Nat
               /\ blocks[call[t].out] >= Length[call[t].lib] - call[t].left
    BY <1>0, <1>5 DEF TypeOK, Copies, CopyGoesOn, Writing, Call
  <1>6. CASE CopyReadFails(t)
    <2>1. Arrives(t, "unlink", call[t])
      BY <1>0, <1>5, <1>6 DEF CopyReadFails, Arrives, Place, Sound, May
    <2> QED BY <1>0, <1>6, <2>1, GotoInv DEF CopyReadFails
  <1>7. CASE CopyWriteFails(t)
    <2> DEFINE c == [call[t] EXCEPT !.left = call[t].left - 1]
    <2>0. pc[t] = "copy" /\ call[t].left > 0 /\ call[t].left # 1 /\ May("write")
      BY <1>7 DEF CopyWriteFails, Sound, May
    <2>1. c \in Call /\ c.lib = call[t].lib /\ c.out = call[t].out /\ c.left = call[t].left - 1
      BY <1>0, <1>5, <2>0 DEF Call
    <2>2. Arrives(t, "unlink", c)
      <3> HIDE DEF c
      <3> QED BY <1>0, <1>5, <2>0, <2>1 DEF Arrives, Place, Sound, May
    <2> QED BY <1>0, <1>7, <2>0, <2>2, GotoInv DEF CopyWriteFails
  <1>8. CASE CopyEnds(t)
    <2>1. Arrives(t, "insert", call[t])
      BY <1>0, <1>5, <1>8 DEF CopyEnds, Arrives, Place
    <2> QED BY <1>0, <1>8, <2>1, GotoInv DEF CopyEnds
  <1> QED BY <1>2, <1>3, <1>4, <1>6, <1>7, <1>8

\* The file that is opened holds at most the library, and nobody else's.
LEMMA CreateInv == ASSUME Inv, NEW t \in Thread, CreateFile(t) PROVE Inv'
  <1> USE DEF Inv
  <1> DEFINE lib == call[t].lib
  <1>0. /\ TypeOK /\ call[t] \in Call /\ pc[t] = "create" /\ lib \in Lib
        /\ Length[lib] \in Nat /\ stash \in Errors \cup {None} /\ due \in BOOLEAN
    BY LengthAssumption DEF TypeOK, CreateFile
  <1>1. CASE dir[lib] # None
    <2> DEFINE c == [call[t] EXCEPT !.out = dir[lib]]
    <2>0. dir[lib] \in File /\ blocks[dir[lib]] \in Nat
      BY <1>0, <1>1 DEF TypeOK
    <2>1. c \in Call /\ c.lib = lib /\ c.out = dir[lib] /\ c.left = call[t].left
      BY <1>0, <2>0 DEF Call
    <2>2. call[t].left = Length[lib]
      BY <1>0 DEF Copies
    <2>3. Arrives(t, "copy", c)
      <3> HIDE DEF c
      <3> QED BY <1>0, <2>0, <2>1, <2>2 DEF Arrives, Place
    <2> QED BY <1>0, <1>1, <2>3, GotoInv DEF CreateFile
  <1>2. CASE dir[lib] = None
    <2>1. PICK f \in FreeFiles : /\ dir' = [dir EXCEPT ![lib] = f]
                                 /\ blocks' = [blocks EXCEPT ![f] = 0]
                                 /\ Goto(t, "copy", [call[t] EXCEPT !.out = f])
      BY <1>2 DEF CreateFile
    <2> DEFINE c == [call[t] EXCEPT !.out = f]
    <2>2. /\ f \in File /\ f # None /\ (\A l \in Lib : dir[l] # f)
          /\ \A u \in Thread : call[u].out # f
      BY NoneAssumption DEF FreeFiles
    <2>3. /\ c \in Call /\ c.lib = lib /\ c.out = f /\ c.left = Length[lib]
      BY <1>0, <2>2 DEF Call, Copies
    <2>4. /\ pc'[t] = "copy" /\ call'[t] = c
          /\ \A u \in Thread \ {t} : pc'[u] = pc[u] /\ call'[u] = call[u]
          /\ pc' \in [Thread -> Place] /\ call' \in [Thread -> Call]
      BY <1>0, <2>1, <2>3 DEF Goto, TypeOK, Place
    <2>5. /\ dir'[lib] = f /\ blocks'[f] = 0
          /\ \A l \in Lib \ {lib} : dir'[l] = dir[l]
          /\ \A g \in File \ {f} : blocks'[g] = blocks[g]
          /\ dir' \in [Lib -> File \cup {None}] /\ blocks' \in [File -> Nat]
          /\ UNCHANGED <<prog, up, table, stash, due, given>>
      BY <1>0, <2>1, <2>2 DEF TypeOK, CreateFile
    <2> HIDE DEF c
    <2>6. TypeOK'
      BY <1>0, <2>2, <2>3, <2>4, <2>5 DEF TypeOK, Writing
    <2>7. Names'
      <3>1. \A l \in Lib : dir'[l] # None => blocks'[dir'[l]] <= Length[l]
        BY <1>0, <2>2, <2>5 DEF TypeOK, Names
      <3>2. \A l, m \in Lib : dir'[l] # None /\ dir'[l] = dir'[m] => l = m
        BY <2>2, <2>5 DEF Names
      <3> QED BY <3>1, <3>2 DEF Names
    <2>8. LoadedLibrariesAreWhole'
      BY <1>0, <1>2, <2>2, <2>5 DEF TypeOK, LoadedLibrariesAreWhole, Whole
    <2>9. Copies'
      <3> SUFFICES ASSUME NEW u \in Thread \ {t}
                   PROVE  /\ pc[u] = "create" => call[u].left = Length[call[u].lib]
                          /\ pc[u] \in Writing => CopyGoesOn(u)'
        BY <1>0, <2>3, <2>4, <2>5 DEF Copies, CopyGoesOn
      <3>1. ASSUME pc[u] \in Writing PROVE CopyGoesOn(u)'
        <4>1. CopyGoesOn(u) /\ call[u].out \in File \ {f} /\ call[u].lib \in Lib
          BY <1>0, <2>2, <3>1 DEF Copies, TypeOK, Writing
        <4>2. call[u].lib # lib
          BY <1>2, <4>1, NoneAssumption DEF CopyGoesOn
        <4> QED BY <2>4, <2>5, <4>1, <4>2 DEF CopyGoesOn
      <3> QED BY <3>1 DEF Copies
    <2>10. Single' /\ Unlinking' /\ Ended' /\ Sound(prog)'
      BY <1>0, <2>3, <2>4, <2>5 DEF Single, Unlinking, Ended, Sound, May
    <2> QED BY <2>6, <2>7, <2>8, <2>9, <2>10
  <1> QED BY <1>1, <1>2

\* A block that is written makes no whole file less whole.
LEMMA CopyBlockInv == ASSUME Inv, NEW t \in Thread, CopyBlock(t) PROVE Inv'
  <1> USE DEF Inv
  <1> DEFINE lib == call[t].lib
             f == call[t].out
             n == Length[lib] - call[t].left
             c == [call[t] EXCEPT !.left = call[t].left - 1]
  <1>0. /\ TypeOK /\ call[t] \in Call /\ pc[t] = "copy" /\ lib \in Lib /\ f \in File
        /\ Length[lib] \in Nat /\ call[t].left \in Nat /\ call[t].left > 0
        /\ call[t].left <= Length[lib] /\ n \in Nat /\ n < Length[lib]
        /\ dir[lib] = f /\ f # None /\ blocks[f] \in Nat /\ n <= blocks[f] /\ blocks[f] <= Length[lib]
    <2>1. pc[t] = "copy" /\ pc[t] \in Writing /\ call[t].left > 0
      BY DEF CopyBlock, Writing
    <2>2. /\ call[t] \in Call /\ lib \in Lib /\ f \in File /\ call[t].left <= Length[lib]
          /\ blocks[f] \in Nat /\ Length[lib] \in Nat
      BY <2>1, LengthAssumption DEF TypeOK, Writing
    <2>3. call[t].left \in Nat
      BY <2>2 DEF Call
    <2>4. dir[lib] = f /\ n <= blocks[f] /\ f # None
      BY <2>1, <2>2, NoneAssumption DEF Copies, CopyGoesOn
    <2>5. blocks[f] <= Length[lib]
      BY <2>2, <2>4 DEF Names
    <2> QED BY <2>1, <2>2, <2>3, <2>4, <2>5
  <1>1. c \in Call /\ c.lib = lib /\ c.out = f /\ c.left = call[t].left - 1
    BY <1>0 DEF Call
  <1>2. /\ pc'[t] = "copy" /\ call'[t] = c
        /\ \A u \in Thread \ {t} : pc'[u] = pc[u] /\ call'[u] = call[u]
        /\ pc' \in [Thread -> Place] /\ call' \in [Thread -> Call]
        /\ UNCHANGED <<prog, up, table, dir, stash, due, given>>
    BY <1>0, <1>1 DEF CopyBlock, Goto, TypeOK, Place
  <1>3. /\ blocks' = [blocks EXCEPT ![f] = IF blocks[f] > n THEN blocks[f] ELSE n + 1]
    BY DEF CopyBlock, Done
  <1>4. /\ blocks' \in [File -> Nat] /\ blocks'[f] >= n + 1 /\ blocks'[f] <= Length[lib]
        /\ blocks'[f] >= blocks[f] /\ \A g \in File \ {f} : blocks'[g] = blocks[g]
    <2> HIDE DEF n, f, lib, c
    <2> QED BY <1>0, <1>3 DEF TypeOK
  <1> HIDE DEF c
  <1>5. TypeOK'
    BY <1>0, <1>1, <1>2, <1>4 DEF TypeOK, Writing
  <1>6. Names'
    BY <1>0, <1>2, <1>4 DEF TypeOK, Names
  <1>7. Copies'
    <2>1. CopyGoesOn(t)'
      BY <1>0, <1>1, <1>2, <1>4 DEF CopyGoesOn
    <2>2. ASSUME NEW u \in Thread \ {t}, pc[u] \in Writing PROVE CopyGoesOn(u)'
      <3>1. /\ CopyGoesOn(u) /\ call[u].out \in File /\ call[u].lib \in Lib
            /\ Length[call[u].lib] \in Nat /\ call[u].left \in Nat /\ blocks[call[u].out] \in Nat
        BY <1>0, <2>2, LengthAssumption DEF Copies, TypeOK, Writing, Call
      <3> QED BY <1>0, <1>2, <1>4, <3>1 DEF CopyGoesOn, TypeOK
    <2> QED BY <1>2, <2>1, <2>2 DEF Copies
  <1>8. LoadedLibrariesAreWhole'
    <2> SUFFICES ASSUME up, NEW m \in given \cup table PROVE Whole(m)'
      BY <1>2 DEF LoadedLibrariesAreWhole
    <2>1. Whole(m) /\ m \in Lib /\ dir[m] \in File
      BY <1>0 DEF LoadedLibrariesAreWhole, Whole, TypeOK
    <2>2. CASE dir[m] = f
      BY <1>0, <1>2, <1>4, <2>1, <2>2 DEF Whole, Names, TypeOK
    <2> QED BY <1>2, <1>4, <2>1, <2>2 DEF Whole
  <1>9. Single' /\ Unlinking' /\ Ended' /\ Sound(prog)'
    BY <1>0, <1>1, <1>2 DEF Single, Unlinking, Ended, Sound, May
  <1> QED BY <1>5, <1>6, <1>7, <1>8, <1>9

\* The file that is unlinked is in nobody's hands.
LEMMA UnlinkInv == ASSUME Inv, NEW t \in Thread, Unlink(t) PROVE Inv'
  <1> USE DEF Inv
  <1> DEFINE lib == call[t].lib
  <1>0. /\ TypeOK /\ pc[t] = "unlink" /\ lib \in Lib /\ prog.alone /\ ~May("insert")
        /\ up /\ lib \notin given \cup table /\ \A u \in Thread \ {t} : pc[u] = "idle"
    BY DEF Unlink, TypeOK, Unlinking, Single, Ended
  <1>1. /\ dir' = [dir EXCEPT ![lib] = None] /\ stash' = <<"EIO", lib>> /\ due' = TRUE
        /\ pc'[t] = "idle" /\ call'[t] = NoCall
        /\ \A u \in Thread \ {t} : pc'[u] = pc[u] /\ call'[u] = call[u]
        /\ pc' \in [Thread -> Place] /\ call' \in [Thread -> Call]
        /\ UNCHANGED <<prog, up, table, blocks, given>>
    BY <1>0, NoCallIsCall DEF Unlink, Fail, Goto, TypeOK, Place
  <1>2. /\ dir'[lib] = None /\ \A l \in Lib \ {lib} : dir'[l] = dir[l]
        /\ dir' \in [Lib -> File \cup {None}]
    BY <1>0, <1>1 DEF TypeOK
  <1>3. TypeOK'
    <2>1. stash' \in Errors
      BY <1>0, <1>1 DEF Errors
    <2> QED BY <1>0, <1>1, <1>2, <2>1 DEF TypeOK, Writing
  <1>4. Names'
    BY <1>1, <1>2 DEF Names
  <1>5. Copies' /\ Single' /\ Unlinking' /\ Ended' /\ Sound(prog)'
    BY <1>0, <1>1 DEF Copies, Single, Unlinking, Ended, Sound, May, Writing
  <1>6. LoadedLibrariesAreWhole'
    BY <1>0, <1>1, <1>2 DEF LoadedLibrariesAreWhole, Whole, TypeOK
  <1> QED BY <1>3, <1>4, <1>5, <1>6

\* Inserting the copied library, or failing to, keeps the invariant.
LEMMA InsertInv == ASSUME Inv, NEW t \in Thread, Insert(t) \/ InsertThrows(t) PROVE Inv'
  <1> USE DEF Inv
  <1>0. /\ TypeOK /\ up /\ pc[t] = "insert" /\ call[t].lib \in Lib
        /\ stash \in Errors \cup {None}
        /\ prog.alone => \A u \in Thread \ {t} : pc[u] = "idle"
    BY DEF Insert, InsertThrows, TypeOK, Ended, Single
  <1>1. Whole(call[t].lib)
    <2>1. CopyGoesOn(t) /\ call[t].left = 0 /\ call[t].out \in File
      BY <1>0 DEF Copies, CopyGoesOn, TypeOK, Writing
    <2>2. /\ dir[call[t].lib] = call[t].out /\ call[t].out # None
          /\ blocks[call[t].out] \in Nat /\ Length[call[t].lib] \in Nat
          /\ blocks[call[t].out] >= Length[call[t].lib]
      BY <1>0, <2>1, NoneAssumption, LengthAssumption DEF CopyGoesOn, TypeOK
    <2>3. blocks[call[t].out] <= Length[call[t].lib]
      BY <1>0, <2>2 DEF Names
    <2> QED BY <2>2, <2>3 DEF Whole
  <1>2. CASE Insert(t)
    <2>1. /\ table' \subseteq table \cup {call[t].lib}
          /\ prog.alone => table' = table \cup {call[t].lib}
          /\ Deliver(t, call[t].lib)
          /\ UNCHANGED <<prog, up, dir, blocks, stash, due>>
      BY <1>0, <1>2 DEF Insert, Torn
    <2> HIDE DEF Inv
    <2> QED BY <1>0, <1>1, <2>1, DeliverInv
  <1>3. CASE InsertThrows(t)
    <2>1. /\ table' = table /\ May("insert") /\ stash' \in Errors
          /\ Deliver(t, call[t].lib)
          /\ UNCHANGED <<prog, up, dir, blocks, due>>
      BY <1>0, <1>3 DEF InsertThrows, Errors
    <2> HIDE DEF Inv
    <2> QED BY <1>0, <1>1, <2>1, DeliverInv
  <1> QED BY <1>2, <1>3

\* Destroying the table, with the files it lists, keeps the invariant.
LEMMA DestroyInv == ASSUME Inv, Destroy PROVE Inv'
  <1> USE DEF Inv
  <1>1. /\ \A t \in Thread : pc[t] = "idle"
        /\ up' = FALSE /\ table' = {}
        /\ UNCHANGED <<prog, blocks, stash, due, given, pc, call>>
        /\ \A l \in Lib : dir'[l] \in {dir[l], None}
        /\ dir' \in [Lib -> File \cup {None}]
    BY DEF Destroy, TypeOK
  <1>2. TypeOK'
    BY <1>1 DEF TypeOK, Writing
  <1>3. Names'
    BY <1>1 DEF Names
  <1>4. Copies' /\ Single' /\ Unlinking' /\ Ended' /\ Sound(prog)' /\ LoadedLibrariesAreWhole'
    BY <1>1 DEF Copies, Single, Unlinking, Ended, Sound, May, Writing, LoadedLibrariesAreWhole
  <1> QED BY <1>2, <1>3, <1>4

\* Every step of dlmap2file keeps the invariant.
LEMMA NextInv == Inv /\ [Next]_vars => Inv'
  <1> SUFFICES ASSUME Inv, [Next]_vars PROVE Inv'
    OBVIOUS
  <1>1. ASSUME NEW t \in Thread, Find(t) PROVE Inv'
    BY <1>1, FindInv
  <1>2. ASSUME NEW t \in Thread, Step(t) PROVE Inv'
    BY <1>2, InnerInv, CreateInv, CopyBlockInv, UnlinkInv, InsertInv DEF Step
  <1>3. CASE Dlerror
    BY <1>3 DEF Dlerror, Inv, TypeOK, Names, Copies, CopyGoesOn, Single, Unlinking, Ended, Sound,
                May, LoadedLibrariesAreWhole, Whole
  <1>4. CASE Destroy
    BY <1>4, DestroyInv
  <1>5. CASE UNCHANGED vars
    BY <1>5 DEF vars, Inv, TypeOK, Names, Copies, CopyGoesOn, Single, Unlinking, Ended, Sound,
                May, LoadedLibrariesAreWhole, Whole
  <1> QED BY <1>1, <1>2, <1>3, <1>4, <1>5 DEF Next

\* A file of the directory is in the table, or a call is writing it.
Tidy == prog.alone /\ ~May("insert") =>
          \A l \in Lib : dir[l] # None =>
             l \in table \/ \E t \in Thread : pc[t] \in Writing /\ call[t].lib = l

Told == FailuresAreExplained

\* After every step a file of the directory is listed or being written.
LEMMA TidyInv == Inv /\ Tidy /\ [Next]_vars => Tidy'
  <1> SUFFICES ASSUME Inv, Tidy, [Next]_vars, prog.alone, ~May("insert"), prog' = prog,
                      NEW l \in Lib, dir'[l] # None
               PROVE  l \in table' \/ \E t \in Thread : pc'[t] \in Writing /\ call'[t].lib = l
    BY DEF Tidy, May, Next, vars, Find, Step, Dlerror, Destroy, FindHit, FindMiss, FindEmpty,
           MapName, MapNameThrows, OpenLib, OpenLibFails, StatLib, StatFails, CreateFile,
           CreateFails, CopyBlock, CopyReadFails, CopyWriteFails, CopyEnds, Unlink, Insert,
           InsertThrows, Fail
  <1>0. TypeOK /\ Single
    BY DEF Inv
  <1>1. CASE UNCHANGED vars
    BY <1>1 DEF vars, Tidy, Writing
  <1>2. CASE Dlerror
    BY <1>2 DEF Dlerror, Tidy, Writing
  <1>3. CASE Destroy
    BY <1>0, <1>3 DEF Destroy, Tidy, Writing, TypeOK
  <1>4. ASSUME NEW t \in Thread, Find(t)
        PROVE  l \in table' \/ \E u \in Thread : pc'[u] \in Writing /\ call'[u].lib = l
    <2>1. /\ dir' = dir /\ table' = table /\ pc[t] = "idle"
          /\ \A u \in Thread \ {t} : pc'[u] = pc[u] /\ call'[u] = call[u]
      BY <1>0, <1>4 DEF Find, FindHit, FindMiss, FindEmpty, Begins, Deliver, Goto, TypeOK
    <2> QED BY <2>1 DEF Tidy, Writing
  <1>5. ASSUME NEW t \in Thread, Step(t)
        PROVE  l \in table' \/ \E u \in Thread : pc'[u] \in Writing /\ call'[u].lib = l
    <2>0. /\ pc[t] # "idle"
          /\ \A u \in Thread \ {t} : pc[u] = "idle"
      BY <1>0, <1>5 DEF Single, Step, MapName, MapNameThrows, OpenLib, OpenLibFails, StatLib,
           StatFails, CreateFile, CreateFails, CopyBlock, CopyReadFails, CopyWriteFails,
           CopyEnds, Unlink, Insert, InsertThrows
    <2>1. l \in table \/ dir[l] = None \/ (pc[t] \in Writing /\ call[t].lib = l)
      BY <2>0 DEF Tidy, Writing
    <2>2. CASE \/ MapName(t) \/ MapNameThrows(t) \/ OpenLib(t) \/ OpenLibFails(t) \/ StatLib(t)
               \/ StatFails(t) \/ CreateFails(t)
      BY <2>1, <2>2 DEF MapName, MapNameThrows, OpenLib, OpenLibFails, StatLib, StatFails,
           CreateFails, Fail, Writing
    <2>3. CASE CreateFile(t)
      <3>1. /\ \A m \in Lib : dir'[m] # dir[m] => m = call[t].lib
            /\ pc'[t] = "copy" /\ call'[t].lib = call[t].lib /\ table' = table
            /\ pc[t] = "create"
        BY <1>0, <2>3 DEF CreateFile, Goto, TypeOK, Call
      <3> QED BY <2>1, <3>1 DEF Writing
    <2>4. CASE CopyBlock(t) \/ CopyReadFails(t) \/ CopyWriteFails(t) \/ CopyEnds(t)
      <3>1. /\ dir' = dir /\ table' = table
            /\ pc'[t] \in Writing /\ call'[t].lib = call[t].lib /\ pc[t] = "copy"
        BY <1>0, <2>4 DEF CopyBlock, CopyReadFails, CopyWriteFails, CopyEnds, Goto, TypeOK,
             Call, Writing
      <3> QED BY <2>1, <3>1
    <2>5. CASE Unlink(t)
      BY <1>0, <2>1, <2>5 DEF Unlink, Fail, TypeOK
    <2>6. CASE Insert(t)
      BY <2>0, <2>1, <2>6 DEF Insert, Torn
    <2>7. CASE InsertThrows(t)
      BY <2>7 DEF InsertThrows
    <2> QED BY <1>5, <2>2, <2>3, <2>4, <2>5, <2>6, <2>7 DEF Step
  <1> QED BY <1>1, <1>2, <1>3, <1>4, <1>5 DEF Next

\* Every step keeps a reason for each failure that is reported.
LEMMA ToldInv == Inv /\ Told /\ [Next]_vars => Told'
  <1> SUFFICES ASSUME Inv, Told, [Next]_vars PROVE Told'
    OBVIOUS
  <1> USE DEF Told, FailuresAreExplained
  <1>0. TypeOK /\ Single
    BY DEF Inv
  <1>1. CASE UNCHANGED vars \/ Dlerror \/ Destroy
    BY <1>1 DEF vars, Dlerror, Destroy
  <1>2. ASSUME NEW t \in Thread, Find(t) PROVE Told'
    BY <1>2 DEF Find, FindHit, FindMiss, FindEmpty, Begins
  <1>3. ASSUME NEW t \in Thread, NEW err \in {"ENOENT", "EIO", "ENOMEM"}, Fail(t, err),
               call[t].lib \in Lib
        PROVE  Told'
    BY <1>3, NoneAssumption DEF Fail, Errors
  <1>4. ASSUME NEW t \in Thread, Step(t) PROVE Told'
    <2>1. pc[t] # "idle" /\ call[t].lib \in Lib
      BY <1>0, <1>4 DEF TypeOK, Step, MapName, MapNameThrows, OpenLib, OpenLibFails, StatLib,
           StatFails, CreateFile, CreateFails, CopyBlock, CopyReadFails, CopyWriteFails,
           CopyEnds, Unlink, Insert, InsertThrows
    <2>2. CASE \/ MapNameThrows(t) \/ OpenLibFails(t) \/ StatFails(t) \/ CreateFails(t) \/ Unlink(t)
      BY <1>3, <2>1, <2>2 DEF MapNameThrows, OpenLibFails, StatFails, CreateFails, Unlink
    <2>3. CASE InsertThrows(t)
      BY <2>1, <2>3, NoneAssumption DEF InsertThrows, Errors
    <2>4. CASE \/ MapName(t) \/ OpenLib(t) \/ StatLib(t) \/ CreateFile(t) \/ CopyBlock(t)
               \/ CopyReadFails(t) \/ CopyWriteFails(t) \/ CopyEnds(t) \/ Insert(t)
      BY <2>4 DEF MapName, OpenLib, StatLib, CreateFile, CopyBlock, CopyReadFails,
           CopyWriteFails, CopyEnds, Insert
    <2> QED BY <1>4, <2>2, <2>3, <2>4 DEF Step
  <1> QED BY <1>1, <1>2, <1>4 DEF Next

\* The invariant and its two extensions hold in every state.
LEMMA AllHolds == SoundPrograms => (Spec => [](Inv /\ Tidy /\ Told))
  <1> SUFFICES ASSUME SoundPrograms PROVE Spec => [](Inv /\ Tidy /\ Told)
    OBVIOUS
  <1>1. Init => Inv /\ Tidy /\ Told
    BY InitInv DEF Init, Tidy, Told, FailuresAreExplained
  <1>2. (Inv /\ Tidy /\ Told) /\ [Next]_vars => (Inv /\ Tidy /\ Told)'
    BY NextInv, TidyInv, ToldInv
  <1> QED BY <1>1, <1>2, PTL DEF Spec

\* The state keeps its type in the programs the table serves well.
THEOREM TypeCorrect == SoundPrograms => (Spec => []TypeOK)
  <1>1. Inv => TypeOK
    BY DEF Inv
  <1> QED BY <1>1, AllHolds, PTL

\* Every name map2file returned leads to a whole library, for any number of
\* threads and libraries of any length.
THEOREM LibrariesAreWhole == SoundPrograms => (Spec => []LoadedLibrariesAreWhole)
  <1>1. Inv => LoadedLibrariesAreWhole
    BY DEF Inv
  <1> QED BY <1>1, AllHolds, PTL

\* A copy goes to the file that the name of its library leads to.
THEOREM CopiesAreNamed == SoundPrograms => (Spec => []CopiesGoToTheName)
  <1>1. Inv => CopiesGoToTheName
    BY DEF Inv, Copies, CopyGoesOn, CopiesGoToTheName
  <1> QED BY <1>1, AllHolds, PTL

\* In a program that calls from one thread at a time, a call that returned no name
\* left an error.
THEOREM FailuresExplained == SoundPrograms => (Spec => []FailuresAreExplained)
  <1>1. Told => FailuresAreExplained
    BY DEF Told
  <1> QED BY <1>1, AllHolds, PTL

\* In such a program a copy that failed leaves no file behind, and neither does the
\* destructor.
THEOREM NoFileIsStray == SoundPrograms => (Spec => []NoStrayFiles)
  <1>1. Tidy => NoStrayFiles
    BY DEF Tidy, NoStrayFiles, Writing
  <1> QED BY <1>1, AllHolds, PTL
================================================================================
