--------------------------------- MODULE MCCwd ---------------------------------
(* Two threads; an image with a directory, a file and a link to the host, or   *)
(* without the directory; a host with two directories.                         *)
EXTENDS Cwd
CONSTANTS t1, t2, m, a, f, link, u, v, up

MCName == {m, a, f, link, u, v}
MCImage == {{<<m>>, <<m, a>>}, {<<m>>}}
MCImageFile == {<<m, f>>}
MCLinkTo == [p \in {<<m, link>>} |-> <<u>>]
MCHostDir == {<<>>, <<u>>}

Abs(names) == [abs |-> TRUE, names |-> names]
Rel(names) == [abs |-> FALSE, names |-> names]
Calls(ops, paths) == [op : ops, path : paths]
MCGetcwd == Calls({"getcwd"}, {Rel(<<>>)})

\* One call at a time, everywhere: in and out of the image, through the link, up,
\* to what is not there and to what is no directory.
Careful1 == [alone |-> TRUE, tame |-> TRUE, throws |-> FALSE, walkers |-> {t1},
             calls |-> MCGetcwd
               \cup Calls({"chdir", "look", "lstat"},
                          {Abs(<<m>>), Abs(<<m, a, up>>), Abs(<<u>>), Abs(<<m, link>>), Abs(<<m, f>>),
                           Rel(<<a>>), Rel(<<up>>), Rel(<<up, a>>), Rel(<<a, up, link>>), Rel(<<u>>)})
               \cup Calls({"make", "remove"}, {Abs(<<m, a>>), Abs(<<m, link, v>>), Rel(<<v>>), Rel(<<link, v>>)})]

\* One thread changes the directory while the other uses it.
Walker == [alone |-> FALSE, tame |-> TRUE, throws |-> FALSE, walkers |-> {t1},
           calls |-> MCGetcwd
             \cup Calls({"chdir"}, {Abs(<<m>>), Abs(<<u>>), Rel(<<a>>), Rel(<<up>>)})
             \cup Calls({"look"}, {Rel(<<a>>), Rel(<<u>>)})]

\* The same two where memory may run out: one call at a time, or a walker beside a user.
Scarce(p) == [p EXCEPT !.throws = TRUE]

\* Both change it.
Walkers == [alone |-> FALSE, tame |-> TRUE, throws |-> TRUE, walkers |-> {t1, t2},
            calls |-> Calls({"chdir"}, {Abs(<<m>>), Abs(<<m, a>>), Abs(<<u>>), Rel(<<a>>)})]

\* One thread that climbs over the mount point.
Climber == [alone |-> TRUE, tame |-> FALSE, throws |-> TRUE, walkers |-> {t1},
            calls |-> MCGetcwd
              \cup Calls({"chdir", "look"},
                         {Abs(<<m, a>>), Rel(<<up>>), Rel(<<up, up>>), Rel(<<up, up, u>>),
                          Abs(<<m, up, u>>), Rel(<<m, a>>)})]

MCProgram == {Careful1, Scarce(Careful1), Walker, Scarce(Walker), Walkers, Climber}
================================================================================
