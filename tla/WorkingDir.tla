------------------------------- MODULE WorkingDir -------------------------------
(***************************************************************************)
(* What a program expects of its working directory: there is one, in a     *)
(* tree that holds the host and the image; chdir moves it or fails and     *)
(* leaves it, getcwd tells it, and a relative path starts from it.  Where  *)
(* memory is scarce a chdir may fail that could have succeeded, and only   *)
(* getcwd tells whether it has moved the directory.                        *)
(* A call is asked for, takes effect at once, and returns.                 *)
(***************************************************************************)
CONSTANTS
  Thread, Image, Nothing,
  \* the tree, see Paths
  Expanded(_, _), InMemfs(_), Kind(_, _, _), ImageKind(_, _), Leaves(_, _, _), Followed(_, _),
  Changed(_, _, _), OnHost(_, _, _), Answer(_), Here(_)
VARIABLES wd,     \* the working directory
          scarce, \* may memory not suffice
          image,  \* the directories of the image; {} when none is mounted
          there,  \* the directories of the host
          asked,  \* per thread, the call in progress
          answer  \* and its answer, a set of at most one
vars == <<wd, scarce, image, there, asked, answer>>

Init == /\ wd \in there
        /\ scarce \in BOOLEAN
        /\ image \in Image
        /\ asked = [t \in Thread |-> Nothing]
        /\ answer = [t \in Thread |-> {}]

Ask(t, call) == /\ asked[t] = Nothing
                /\ asked' = [asked EXCEPT ![t] = call]
                /\ UNCHANGED <<wd, image, there, answer>>

Replies(t, a) == /\ answer[t] = {}
                 /\ answer' = [answer EXCEPT ![t] = {a}]
                 /\ UNCHANGED <<image, asked>>

Meaning(t) == Expanded(wd, asked[t].path)

Chdir(t) == LET d == Meaning(t) IN
  /\ asked[t] # Nothing /\ asked[t].op = "chdir"
  /\ IF Kind(image, there, d) = "dir"
     THEN \/ wd' = d /\ Replies(t, Answer("ok"))
          \/ scarce /\ wd' \in {wd, d} /\ Replies(t, Answer("fail"))
     ELSE wd' = wd /\ Replies(t, Answer("fail"))
  /\ UNCHANGED there

\* It fails when the buffer is too small, or the directory is gone.
Getcwd(t) ==
  /\ asked[t] # Nothing /\ asked[t].op = "getcwd"
  /\ Replies(t, Here(wd)) \/ Replies(t, Answer("fail"))
  /\ UNCHANGED <<wd, there>>

\* The image cannot be changed; what a link in it leads to can.
Use(t) == LET d == Meaning(t)  op == asked[t].op IN
  /\ asked[t] # Nothing /\ op \in {"look", "lstat", "make", "remove"}
  /\ IF InMemfs(d) /\ ~Leaves(op, image, d)
     THEN /\ Replies(t, Answer(IF op \in {"look", "lstat"} THEN ImageKind(image, d) ELSE "fail"))
          /\ UNCHANGED there
     ELSE LET h == IF InMemfs(d) THEN Followed(op, d) ELSE d IN
          /\ Replies(t, OnHost(op, there, h))
          /\ there' = Changed(op, there, h)
  /\ UNCHANGED wd

Return(t) == /\ answer[t] # {}
             /\ asked' = [asked EXCEPT ![t] = Nothing]
             /\ answer' = [answer EXCEPT ![t] = {}]
             /\ UNCHANGED <<wd, image, there>>

\* Another image comes, or none; the working directory goes back to the host.
Remount == /\ \A t \in Thread : asked[t] = Nothing
           /\ image' \in Image \cup {{}}
           /\ wd' = wd \/ ~InMemfs(wd')
           /\ UNCHANGED <<there, asked, answer>>

Change == \/ \E t \in Thread : Chdir(t) \/ Getcwd(t) \/ Use(t) \/ Return(t)
          \/ \E t \in Thread : asked'[t] # Nothing /\ Ask(t, asked'[t])
          \/ Remount

Next == Change /\ UNCHANGED scarce

Spec == Init /\ [][Next]_vars
================================================================================
