------------------------------- MODULE MCPathWalk -------------------------------
(* Two images, two links, one mount point for PathWalk.                       *)
EXTENDS PathMeaning
CONSTANTS a, b, l, p, up, here, slash, home, out, root, dir, file, outer, inner, root1, file1

RootOfDef == 0 :> root @@ 1 :> root1
EntryDef == root :> (a :> dir @@ l :> outer)
            @@ dir :> (a :> file @@ b :> inner)
            @@ root1 :> (a :> file1)

Rel(names) == [abs |-> FALSE, names |-> names]
Abs(names) == [abs |-> TRUE, names |-> names]
HostPathDef == {<<out>>, <<out, a>>}
OuterText == {Rel(<<a>>), Rel(<<a, b>>), Rel(<<p>>), Abs(<<home, a, b>>), Abs(<<out>>)}
InnerText == {Rel(<<a>>), Rel(<<b, a>>), Abs(<<home, l>>), Abs(<<out>>)}
\* Texts that are not normal, or become so only with what is left behind them.
OuterClimbs == {Rel(<<up, a>>), Rel(<<a, up, l>>), Rel(<<l, up, a, b>>), Rel(<<a, up>>), Rel(<<a, slash>>)}
InnerClimbs == {Rel(<<up, a>>), Rel(<<b, up, a>>), Abs(<<home, up, out>>)}
Contents == (OuterText \X InnerText)
              \cup (OuterClimbs \X {Rel(<<b, up, a>>)})
              \cup ({Abs(<<home, a, b>>)} \X InnerClimbs)
              \cup ({Rel(<<l>>), Abs(<<home, a>>)} \X {Abs(<<b>>)})
LinksDef == {outer :> t[1] @@ inner :> t[2] : t \in Contents}
TextDef == {t[1] : t \in Contents} \cup {t[2] : t \in Contents}
PointsDef == {[kind |-> "image", index |-> 1]}
               \cup {[kind |-> "path", path |-> t] :
                       t \in {Abs(<<out>>), Rel(<<a>>), Abs(<<home, l>>), Rel(<<a, up, l>>)}}
PathDef == {<<>>, <<a>>, <<l>>, <<a, b>>, <<l, a>>, <<p, a>>, <<a, p>>,
            <<a, b, a>>, <<l, p, a>>, <<l, slash>>}
RawPathDef == {<<b>>, <<p>>, <<b, a>>, <<b, slash>>, <<up, a>>, <<b, up, a>>, <<here, a>>}
ParentDef == {<<>>, <<a>>, <<l>>, <<l, up>>}
================================================================================
