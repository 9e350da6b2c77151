-------------------------------- MODULE MCCmdLine --------------------------------
(* Every vector of a few arguments for CmdLine, and packages of two-bit bytes.  *)
EXTENDS CmdLine, TLC
CONSTANTS prog, word, dash, empty, copy, dashe, source, folder, app, cut, long, gone,
          rule, same, image, over, bad, target, other, name, top, sub, out

MCText == {prog, word, dash, empty, copy, dashe, source, folder, app, cut, long, gone,
           rule, same, image, over, bad, target, other, name, top, sub, out}
MCLetters == [t \in MCText |-> CASE t = empty -> 0 [] t = dashe -> 2 [] t = copy -> 5 [] t = word -> 2
                              [] OTHER -> 1]

RuleTo(separator, in, what) ==
  [separator |-> separator, absolute |-> FALSE, folder |-> in, name |-> name, target |-> what]
\* rule, same and image ask for one place, over asks for the same folder by another path.
MCRuleOf == [t \in MCText |->
  CASE t = rule -> RuleTo(":", sub, target)
    [] t = same -> RuleTo(":", sub, other)
    [] t = image -> RuleTo(">", sub, app)
    [] t = over -> RuleTo(">", top, target)
    [] t = bad -> RuleTo(":", out, target)
    [] OTHER -> RuleTo("none", sub, empty)]
MCFolder == [t \in MCText |-> CASE t = sub -> 2 [] t = top -> 1 [] OTHER -> None]

Option(key, eq, texts) == [key : {key}, eq : {eq}, text : texts]
Other(texts) == Option("other", FALSE, texts)
Some == Other({word, dash, empty, rule}) \cup Option("run", TRUE, {app, empty})
          \cup Option("mount", TRUE, {rule, empty}) \cup Option("extract", TRUE, {folder, empty})
          \cup Option("run", FALSE, {empty}) \cup Option("mount", FALSE, {empty})
          \cup Option("extract", FALSE, {empty})
Mounts == Option("mount", TRUE, {rule, same, image, over, bad, word})
Apps == Option("run", TRUE, {app, cut, long, gone})
Behind(args) == {<<[key |-> "other", eq |-> FALSE, text |-> prog]>> \o v : v \in args}
Vectors(args, n) == UNION {[1 .. k -> args] : k \in 0 .. n}
MCArgv == Behind(Vectors(Some, 3) \cup Vectors(Mounts, 3) \cup Vectors(Apps, 1))
MCSignature == <<1, 0>>
MCPoint == {<<folder, word>>, <<empty, word>>}

V(n, dots) == [numbers |-> <<n, 0, 1>>, dots |-> dots]
Package(mount, entry, cwd, missing, rest) ==
  [ruby |-> V(3, <<".", ".">>), tebako |-> V(2, <<".", ".">>), mount_point |-> mount,
   entry_point |-> entry, cwd |-> cwd, missing |-> missing, rest |-> rest]
MCMade == app :> Package(<<1, 1, 0>>, <<1>>, <<0>>, 0, <<1, 0>>)
          @@ cut :> Package(<<1>>, <<0>>, <<1, 1>>, 1, <<>>)
          @@ long :> Package(<<1, 0, 1, 1, 0, 1>>, <<1>>, None, 0, <<1>>)
================================================================================
