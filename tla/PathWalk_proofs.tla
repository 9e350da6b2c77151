---------------------------- MODULE PathWalk_proofs ----------------------------
(***************************************************************************)
(* Walks find what paths mean, for every tree, every contents of its links *)
(* and every mount table, circles and climbing links included.             *)
(*                                                                         *)
(* The first part is about texts: what becomes of one, and of one with     *)
(* names behind it, when it is made lexically normal.  The second is about *)
(* meanings: a path means what its first name leads to, and from there the *)
(* rest; and a link, or a mounted path, means what its text means.  The    *)
(* latter is no definition, but holds because the ways behind the links    *)
(* are known as deep as there are links to be followed.  The third has the *)
(* types of PathWalk.  The fourth has the invariant of its loop: the way   *)
(* so far, and then what the rest of the path means from where the walk    *)
(* stands, is the way of the call; or the rest begins with "..", and the   *)
(* call means nothing.                                                     *)
(***************************************************************************)
EXTENDS PathMeaning, SequenceTheorems, FiniteSetTheorems, Induction

--------------------------------------------------------------------------------
(* Lexically normal paths.                                                   *)

\* What is kept of a path while it is shortened: of an absolute one, no "..".
Kept(abs) == IF abs THEN Names ELSE Seq(Name \cup {Home, Up})

\* The words of a path, and those that are no names.
LEMMA WordFacts ==
  /\ \A path \in Names : path \in Written
  /\ \A abs \in BOOLEAN : \A path \in Kept(abs) : path \in Written /\ path \in Seq(Name \cup {Home, Up})
  /\ \A path \in Written : path # <<>> => /\ Head(path) \in Name \cup {Home, Up, Here, Slash}
                                          /\ Tail(path) \in Written
  /\ \A path, tail \in Written : path \o tail \in Written
  /\ \A name \in Name \cup {Home} : name # Up /\ name # Here /\ name # Slash
  /\ \A path \in Names : path # <<>> => Head(path) \in Name \cup {Home} /\ Last(path) \in Name \cup {Home}
<1>1. \A path \in Names : path \in Written
  <2>1. Name \cup {Home} \subseteq Name \cup {Home, Up, Here, Slash}
    OBVIOUS
  <2> QED BY <2>1, SeqMonotonic DEF Names, Written
<1>2. \A abs \in BOOLEAN : \A path \in Kept(abs) : path \in Written /\ path \in Seq(Name \cup {Home, Up})
  <2> TAKE abs \in BOOLEAN
  <2> TAKE path \in Kept(abs)
  <2>1. /\ Name \cup {Home} \subseteq Name \cup {Home, Up}
        /\ Name \cup {Home, Up} \subseteq Name \cup {Home, Up, Here, Slash}
    OBVIOUS
  <2>2. path \in Seq(Name \cup {Home, Up})
    BY <2>1, SeqMonotonic DEF Kept, Names
  <2> QED BY <2>1, <2>2, SeqMonotonic DEF Written
<1>3. \A path \in Written : path # <<>> => /\ Head(path) \in Name \cup {Home, Up, Here, Slash}
                                           /\ Tail(path) \in Written
  BY DEF Written
<1>4. \A path, tail \in Written : path \o tail \in Written
  BY DEF Written
<1>5. \A name \in Name \cup {Home} : name # Up /\ name # Here /\ name # Slash
  BY WordAssumption
<1>6. ASSUME NEW path \in Names, path # <<>>
      PROVE  Head(path) \in Name \cup {Home} /\ Last(path) \in Name \cup {Home}
  <2>1. path \in Seq(Name \cup {Home}) /\ Len(path) \in Nat \ {0}
    BY <1>6, EmptySeq DEF Names
  <2>2. Len(path) \in 1 .. Len(path)
    BY <2>1
  <2>3. Last(path) \in Name \cup {Home}
    BY <2>1, <2>2, ElementOfSeq DEF Last
  <2> QED BY <1>6, <2>1, <2>3
<1> QED BY <1>1, <1>2, <1>3, <1>4, <1>5, <1>6

\* One word more leaves a path of the kind it was; a name is put at its end.
LEMMA ExtendedFacts ==
  ASSUME NEW abs \in BOOLEAN, NEW path \in Kept(abs)
  PROVE  /\ \A word \in Name \cup {Home, Up, Here, Slash} : Extended(abs, path, word) \in Kept(abs)
         /\ \A name \in Name \cup {Home} : Extended(abs, path, name) = Append(path, name)
<1> DEFINE Letters == IF abs THEN Name \cup {Home} ELSE Name \cup {Home, Up}
<1>1. path \in Seq(Letters) /\ Kept(abs) = Seq(Letters)
  BY DEF Kept, Names
<1>2. ASSUME NEW name \in Name \cup {Home} PROVE Extended(abs, path, name) = Append(path, name)
  BY WordFacts DEF Extended
<1>3. ASSUME NEW word \in Name \cup {Home, Up, Here, Slash} PROVE Extended(abs, path, word) \in Kept(abs)
  <2>1. ASSUME NEW x \in Letters PROVE Append(path, x) \in Seq(Letters)
    <3> HIDE DEF Letters
    <3> QED BY <1>1, <2>1, AppendProperties
  <2>2. CASE word \in {Here, Slash}
    BY <2>2 DEF Extended
  <2>3. CASE word \in Name \cup {Home}
    <3>1. word \in Letters
      BY <2>3
    <3> QED BY <1>1, <1>2, <2>1, <2>3, <3>1
  <2>4. CASE word = Up /\ path # <<>> /\ Last(path) # Up
    <3> HIDE DEF Letters
    <3>1. Len(path) \in Nat \ {0}
      BY <1>1, <2>4, EmptySeq, LenProperties
    <3>2. \A i \in 1 .. Len(path) - 1 : path[i] \in Letters
      BY <1>1, <3>1, ElementOfSeq
    <3>3. Front(path) \in Seq(Letters)
      BY <1>1, <3>1, <3>2, SubSeqProperties DEF Front
    <3>4. Extended(abs, path, Up) = Front(path)
      BY <2>4, WordAssumption DEF Extended
    <3> QED BY <1>1, <2>4, <3>3, <3>4
  <2>5. CASE word = Up /\ ~(path # <<>> /\ Last(path) # Up)
    <3>1. ~abs => Up \in Letters
      OBVIOUS
    <3>2. Extended(abs, path, Up) = IF abs THEN path ELSE Append(path, Up)
      BY <2>5, WordAssumption DEF Extended
    <3> QED BY <1>1, <2>1, <2>5, <3>1, <3>2
  <2> QED BY <2>2, <2>3, <2>4, <2>5
<1> QED BY <1>2, <1>3

\* What is kept of a path, word after word.
Shortening(f, abs, names) ==
  /\ f \in [0 .. Len(names) -> Kept(abs)] /\ f[0] = <<>>
  /\ \A k \in 1 .. Len(names) : f[k] = Extended(abs, f[k - 1], names[k])

\* The function by which Shortened is defined.
LEMMA ShortenedSteps ==
  ASSUME NEW abs \in BOOLEAN, NEW names \in Written
  PROVE  \E f : Shortening(f, abs, names) /\ Shortened(abs, names) = f[Len(names)]
<1> DEFINE V == Kept(abs)
           n == Len(names)
           Def(f) == [k \in 0 .. n |-> IF k = 0 THEN <<>> ELSE Extended(abs, f[k - 1], names[k])]
           path == CHOOSE f : f = Def(f)
           step == [k \in 1 .. n |-> [p \in V |-> Extended(abs, p, names[k])]]
<1>1. n \in Nat /\ <<>> \in V
  BY DEF Written, Kept, Names
<1>2. ASSUME NEW k \in 1 .. n, NEW p \in V PROVE Extended(abs, p, names[k]) \in V
  <2>1. names[k] \in Name \cup {Home, Up, Here, Slash}
    BY ElementOfSeq DEF Written
  <2> QED BY <2>1, ExtendedFacts
<1>3. step \in [1 .. n -> [V -> V]]
  BY <1>2
<1>4. PICK g : Steps(g, V, <<>>, step, n)
  <2> HIDE DEF step, V, n
  <2> QED BY <1>1, <1>3, Recursion
<1>5. \A k \in 1 .. n : g[k] = Extended(abs, g[k - 1], names[k])
  <2> TAKE k \in 1 .. n
  <2>1. k - 1 \in 0 .. n
    BY <1>1
  <2>2. g[k] = step[k][g[k - 1]] /\ g[k - 1] \in V
    <3> HIDE DEF V, step, n
    <3> QED BY <1>4, <2>1 DEF Steps
  <2> QED BY <2>2
<1>6. g \in [0 .. n -> V] /\ g[0] = <<>>
  BY <1>4 DEF Steps
<1> HIDE DEF V, n
<1>7. g = Def(g)
  <2>1. \A k \in 0 .. n : k # 0 => k \in 1 .. n
    BY <1>1
  <2>2. \A k \in 0 .. n : g[k] = Def(g)[k]
    BY <1>5, <1>6, <2>1
  <2>3. g = [k \in 0 .. n |-> g[k]]
    BY <1>6
  <2> QED BY <2>2, <2>3
<1>8. path = Def(path)
  <2> HIDE DEF Def
  <2> QED BY <1>7
<1>9. Shortened(abs, names) = path[n]
  BY DEF Shortened, n
<1>10. path[0] = <<>> /\ \A k \in 1 .. n : path[k] = Extended(abs, path[k - 1], names[k])
  <2> HIDE DEF path
  <2> QED BY <1>1, <1>8
<1>11. DOMAIN path = 0 .. n
  <2> HIDE DEF path
  <2> QED BY <1>8
<1> DEFINE S == {k \in 0 .. n : path[k] \in V}
<1> HIDE DEF path
<1>12. 0 \in S
  <2>1. 0 \in 0 .. n
    BY <1>1
  <2> QED BY <1>1, <1>10, <2>1
<1>13. ASSUME NEW k \in 1 .. n, k - 1 \in S PROVE k \in S
  <2>1. k \in 0 .. n
    BY <1>1
  <2> QED BY <1>2, <1>10, <1>13, <2>1
<1> HIDE DEF S
<1>14. 0 .. n \subseteq S
  BY <1>1, <1>12, <1>13, UpTo
<1>15. path \in [0 .. n -> V]
  <2>1. \A k \in 0 .. n : path[k] \in V
    BY <1>14 DEF S
  <2>2. path = [k \in 0 .. n |-> path[k]]
    BY <1>8
  <2> QED BY <2>1, <2>2
<1>16. Shortening(path, abs, names)
  BY <1>10, <1>15 DEF Shortening, V, n
<1> QED BY <1>9, <1>16 DEF n

\* Names behind a path stay as they are.
LEMMA ShortenedBehind ==
  ASSUME NEW abs \in BOOLEAN, NEW front \in Written, NEW back \in Names
  PROVE  /\ Shortened(abs, front \o back) = Shortened(abs, front) \o back
         /\ Shortened(abs, front) \in Kept(abs)
         /\ Shortened(abs, <<>>) = <<>>
<1> DEFINE whole == front \o back
           m == Len(front)
<1>0. back \in Written /\ back \in Seq(Name \cup {Home})
  BY WordFacts DEF Names
<1>1. /\ whole \in Written /\ Len(whole) = m + Len(back)
      /\ m \in Nat /\ Len(back) \in Nat
      /\ \A k \in 1 .. m : whole[k] = front[k]
      /\ \A k \in 1 .. Len(back) : whole[m + k] = back[k]
  <2>1. m \in Nat /\ Len(back) \in Nat
    BY <1>0 DEF Written
  <2>2. /\ whole \in Written /\ Len(whole) = m + Len(back)
        /\ \A i \in 1 .. m + Len(back) : whole[i] = IF i <= m THEN front[i] ELSE back[i - m]
    BY <1>0, ConcatProperties DEF Written
  <2> HIDE DEF whole
  <2>3. \A k \in 1 .. m : k \in 1 .. m + Len(back) /\ k <= m
    BY <2>1
  <2>4. \A k \in 1 .. Len(back) : m + k \in 1 .. m + Len(back) /\ ~(m + k <= m) /\ (m + k) - m = k
    BY <2>1
  <2> QED BY <2>1, <2>2, <2>3, <2>4
<1> HIDE DEF whole, m
<1>2. PICK f : Shortening(f, abs, whole) /\ Shortened(abs, whole) = f[Len(whole)]
  BY <1>1, ShortenedSteps
<1>3. PICK g : Shortening(g, abs, front) /\ Shortened(abs, front) = g[m]
  BY ShortenedSteps DEF m
<1>4. g[m] \in Kept(abs)
  <2>1. m \in 0 .. m
    BY <1>1
  <2> QED BY <1>3, <2>1 DEF Shortening, m
<1>5. f[m] = g[m]
  <2> DEFINE S == {k \in 0 .. m : f[k] = g[k]}
  <2>1. 0 \in S
    <3>1. 0 \in 0 .. m
      BY <1>1
    <3> QED BY <1>2, <1>3, <3>1 DEF Shortening
  <2>2. ASSUME NEW k \in 1 .. m, k - 1 \in S PROVE k \in S
    <3>1. k \in 1 .. Len(whole) /\ whole[k] = front[k] /\ k \in 0 .. m
      BY <1>1
    <3>2. f[k] = Extended(abs, f[k - 1], front[k])
      BY <1>2, <3>1 DEF Shortening
    <3>3. g[k] = Extended(abs, g[k - 1], front[k])
      BY <1>3 DEF Shortening, m
    <3> QED BY <2>2, <3>1, <3>2, <3>3
  <2> HIDE DEF S
  <2>3. 0 .. m \subseteq S
    BY <1>1, <2>1, <2>2, UpTo
  <2>4. m \in 0 .. m
    BY <1>1
  <2> QED BY <2>3, <2>4 DEF S
<1>6. f[Len(whole)] = g[m] \o back
  <2> DEFINE S == {k \in 0 .. Len(back) : f[m + k] = g[m] \o SubSeq(back, 1, k)}
  <2>0. g[m] \in Seq(Name \cup {Home, Up}) /\ back \in Seq(Name \cup {Home, Up})
    <3>1. Name \cup {Home} \subseteq Name \cup {Home, Up}
      OBVIOUS
    <3> QED BY <1>0, <1>4, <3>1, WordFacts, SeqMonotonic
  <2>1. 0 \in S
    <3>1. 0 \in 0 .. Len(back) /\ m + 0 = m /\ SubSeq(back, 1, 0) = <<>>
      BY <1>0, <1>1
    <3>2. g[m] \o <<>> = g[m]
      BY <2>0, ConcatEmptySeq
    <3> QED BY <1>5, <3>1, <3>2
  <2>2. ASSUME NEW k \in 1 .. Len(back), k - 1 \in S PROVE k \in S
    <3> DEFINE sofar == SubSeq(back, 1, k - 1)
    <3>1. /\ m + k \in 1 .. Len(whole) /\ whole[m + k] = back[k] /\ k \in 0 .. Len(back)
          /\ (m + k) - 1 = m + (k - 1) /\ m + (k - 1) \in 0 .. Len(whole)
      BY <1>1
    <3>2. f[m + k] = Extended(abs, f[m + (k - 1)], back[k])
      BY <1>2, <3>1 DEF Shortening
    <3>3. f[m + (k - 1)] = g[m] \o sofar
      BY <2>2
    <3>4. f[m + (k - 1)] \in Kept(abs) /\ back[k] \in Name \cup {Home}
      BY <1>0, <1>2, <3>1, ElementOfSeq DEF Shortening
    <3>5. f[m + k] = Append(g[m] \o sofar, back[k])
      <4> DEFINE path == f[m + (k - 1)]
      <4>1. path \in Kept(abs) /\ path = g[m] \o sofar /\ f[m + k] = Extended(abs, path, back[k])
        BY <3>2, <3>3, <3>4
      <4> HIDE DEF path, sofar
      <4>2. Extended(abs, path, back[k]) = Append(path, back[k])
        BY <3>4, <4>1, ExtendedFacts
      <4> QED BY <4>1, <4>2
    <3>6. SubSeq(back, 1, k) = Append(sofar, back[k]) /\ sofar \in Seq(Name \cup {Home, Up})
          /\ back[k] \in Name \cup {Home, Up}
      BY <1>0, <1>1, <2>0, <3>4
    <3> HIDE DEF sofar
    <3>7. Append(g[m] \o sofar, back[k]) = g[m] \o Append(sofar, back[k])
      <4> DEFINE L == Name \cup {Home, Up}
                 s == g[m]
                 e == back[k]
      <4>1. s \in Seq(L) /\ sofar \in Seq(L) /\ e \in L /\ <<e>> \in Seq(L) /\ s \o sofar \in Seq(L)
        BY <2>0, <3>6, ConcatProperties
      <4> HIDE DEF L, s, e
      <4>2. Append(s \o sofar, e) = (s \o sofar) \o <<e>> /\ Append(sofar, e) = sofar \o <<e>>
        BY <4>1, AppendIsConcat
      <4>3. (s \o sofar) \o <<e>> = s \o (sofar \o <<e>>)
        BY <4>1, ConcatAssociative
      <4> QED BY <4>2, <4>3 DEF s, e
    <3> QED BY <3>1, <3>5, <3>6, <3>7
  <2> HIDE DEF S
  <2>3. 0 .. Len(back) \subseteq S
    BY <1>1, <2>1, <2>2, UpTo
  <2>4. Len(back) \in 0 .. Len(back) /\ SubSeq(back, 1, Len(back)) = back
    BY <1>0, <1>1
  <2> QED BY <1>1, <2>3, <2>4 DEF S
<1>7. Shortened(abs, <<>>) = <<>>
  <2>1. <<>> \in Written /\ Len(<<>>) = 0
    BY DEF Written
  <2>2. PICK h : Shortening(h, abs, <<>>) /\ Shortened(abs, <<>>) = h[Len(<<>>)]
    BY <2>1, ShortenedSteps
  <2> QED BY <2>1, <2>2 DEF Shortening
<1> QED BY <1>2, <1>3, <1>4, <1>6, <1>7 DEF whole

\* What becomes of a path: it is what is kept of it, or that and a "/", or ".".
LEMMA NormalForms ==
  ASSUME NEW abs \in BOOLEAN, NEW names \in Written
  PROVE  LET path == Shortened(abs, names)
             read == LexicallyNormal(abs, names)
         IN  /\ path \in Kept(abs) /\ read \in Written
             /\ names = <<>> => path = <<>> /\ read = <<>>
             /\ path = <<>> => read = IF abs \/ names = <<>> THEN <<>> ELSE <<Here>>
             /\ path # <<>> => \/ read = path
                               \/ read = Append(path, Slash) /\ Head(read) = Head(path)
             /\ path # <<>> /\ Last(names) \in Name \cup {Home} => read = path
             /\ <<Here>> \notin Names /\ Append(path, Slash) \notin Names
<1> DEFINE path == Shortened(abs, names)
           read == LexicallyNormal(abs, names)
<1>1. <<>> \in Names
  BY DEF Names
<1>2. path \in Kept(abs) /\ (names = <<>> => path = <<>>)
  BY <1>1, ShortenedBehind
<1>3. path \in Seq(Name \cup {Home, Up, Here, Slash}) /\ path \in Seq(Name \cup {Home, Up})
  BY <1>2, WordFacts DEF Written
<1>4. /\ read = IF names = <<>> \/ (abs /\ path = <<>>) THEN <<>>
                ELSE IF path = <<>> THEN <<Here>>
                ELSE IF Last(names) \in {Up, Here, Slash} /\ Last(path) # Up THEN Append(path, Slash)
                ELSE path
  BY DEF LexicallyNormal
<1> HIDE DEF path, read
<1>5. Append(path, Slash) \in Written /\ Head(Append(path, Slash)) = IF path = <<>> THEN Slash ELSE Head(path)
  BY <1>3, AppendProperties, HeadTailAppend DEF Written
<1>6. <<>> \in Written /\ <<Here>> \in Written /\ path \in Written
  BY <1>3 DEF Written
<1>7. <<Here>> \notin Names
  <2>1. Len(<<Here>>) = 1 /\ <<Here>>[1] = Here
    OBVIOUS
  <2>2. ASSUME <<Here>> \in Names PROVE FALSE
    <3>1. <<Here>>[1] \in Name \cup {Home}
      BY <2>1, <2>2, ElementOfSeq DEF Names
    <3> QED BY <2>1, <3>1, WordFacts
  <2> QED BY <2>2
<1>8. Append(path, Slash) \notin Names
  <2>1. Len(path) \in Nat /\ Len(Append(path, Slash)) = Len(path) + 1 /\ Append(path, Slash)[Len(path) + 1] = Slash
    BY <1>3
  <2>2. ASSUME Append(path, Slash) \in Names PROVE FALSE
    <3>1. Len(path) + 1 \in 1 .. Len(Append(path, Slash))
      BY <2>1
    <3>2. Append(path, Slash)[Len(path) + 1] \in Name \cup {Home}
      BY <2>2, <3>1, ElementOfSeq DEF Names
    <3> QED BY <2>1, <3>2, WordFacts
  <2> QED BY <2>2
<1>9. Last(names) \in Name \cup {Home} => Last(names) \notin {Up, Here, Slash}
  BY WordFacts
<1> QED BY <1>2, <1>4, <1>5, <1>6, <1>7, <1>8, <1>9 DEF path, read

\* What is read of a text, and of the text with names behind it: the names stay behind
\* it, when it reads as names; and a ".." at the start of it stays there.
LEMMA NormalBehind ==
  ASSUME NEW abs \in BOOLEAN, NEW names \in Written, NEW tail \in Names
  PROVE  LET read == LexicallyNormal(abs, names)
             both == LexicallyNormal(abs, names \o tail)
         IN  /\ read \in Names /\ (abs \/ names # <<>>) => both = read \o tail /\ (abs \/ read # <<>>)
             /\ read \notin Names /\ Head(read) = Up => ~abs /\ both # <<>> /\ Head(both) = Up
<1> DEFINE read == LexicallyNormal(abs, names)
           both == LexicallyNormal(abs, names \o tail)
           path == Shortened(abs, names)
           longer == Shortened(abs, names \o tail)
<1>1. /\ tail \in Written /\ names \o tail \in Written
      /\ longer = path \o tail
  BY WordFacts, ShortenedBehind
<1>2. /\ path \in Kept(abs) /\ read \in Written
      /\ names = <<>> => path = <<>> /\ read = <<>>
      /\ path = <<>> => read = IF abs \/ names = <<>> THEN <<>> ELSE <<Here>>
      /\ path # <<>> => \/ read = path
                        \/ read = Append(path, Slash) /\ Head(read) = Head(path)
      /\ <<Here>> \notin Names /\ Append(path, Slash) \notin Names
  BY NormalForms
<1>3. /\ longer # <<>> => \/ both = longer
                          \/ both = Append(longer, Slash) /\ Head(both) = Head(longer)
      /\ longer # <<>> /\ Last(names \o tail) \in Name \cup {Home} => both = longer
  BY <1>1, NormalForms
<1>4. /\ path \in Seq(Name \cup {Home, Up}) /\ tail \in Seq(Name \cup {Home, Up})
      /\ names \in Seq(Name \cup {Home, Up, Here, Slash}) /\ tail \in Seq(Name \cup {Home, Up, Here, Slash})
  <2>1. Name \cup {Home} \subseteq Name \cup {Home, Up}
    OBVIOUS
  <2> QED BY <1>1, <1>2, <2>1, WordFacts, SeqMonotonic DEF Written, Names
<1> HIDE DEF read, both, path, longer
<1>5. CASE tail = <<>>
  <2>1. names \o tail = names
    BY <1>4, <1>5, ConcatEmptySeq
  <2>2. both = read
    BY <2>1 DEF both, read
  <2>3. read \in Names => read \o tail = read
    BY <1>5, ConcatEmptySeq DEF Names
  <2>4. read \in Names /\ ~abs /\ names # <<>> => read # <<>>
    <3>1. ASSUME path = <<>>, ~abs, names # <<>> PROVE read \notin Names
      BY <1>2, <3>1
    <3>2. ASSUME path # <<>>, read \in Names PROVE read # <<>>
      BY <1>2, <3>2
    <3> QED BY <3>1, <3>2
  <2>5. read \notin Names /\ Head(read) = Up => ~abs /\ read # <<>>
    <3>1. <<>> \in Names
      BY DEF Names
    <3>2. ASSUME abs, read \notin Names, Head(read) = Up PROVE FALSE
      <4>1. path # <<>> /\ path \in Names /\ Head(read) = Head(path)
        BY <1>2, <3>1, <3>2 DEF Kept
      <4> QED BY <3>2, <4>1, WordFacts
    <3> QED BY <3>1, <3>2
  <2> QED BY <2>2, <2>3, <2>4, <2>5 DEF both, read
<1>6. CASE tail # <<>>
  <2>1. longer # <<>>
    BY <1>1, <1>4, <1>6, ConcatEqualIffEmpty
  <2>2. Last(names \o tail) \in Name \cup {Home}
    <3>1. Len(tail) \in Nat \ {0} /\ Len(names) \in Nat
      BY <1>4, <1>6, EmptySeq, LenProperties
    <3>2. Len(names \o tail) = Len(names) + Len(tail) /\ (names \o tail)[Len(names) + Len(tail)] = tail[Len(tail)]
      <4> DEFINE L == Name \cup {Home, Up, Here, Slash}
      <4>1. /\ Len(names \o tail) = Len(names) + Len(tail)
            /\ \A i \in 1 .. Len(names) + Len(tail) : (names \o tail)[i] =
                       IF i <= Len(names) THEN names[i] ELSE tail[i - Len(names)]
        BY <1>4, ConcatProperties
      <4>2. /\ Len(names) + Len(tail) \in 1 .. Len(names) + Len(tail)
            /\ ~(Len(names) + Len(tail) <= Len(names)) /\ (Len(names) + Len(tail)) - Len(names) = Len(tail)
        BY <3>1
      <4> QED BY <4>1, <4>2
    <3>3. Last(tail) \in Name \cup {Home}
      BY <1>6, WordFacts
    <3> QED BY <3>2, <3>3 DEF Last
  <2>3. both = path \o tail
    BY <1>1, <1>3, <2>1, <2>2
  <2>4. ASSUME read \in Names, abs \/ names # <<>> PROVE both = read \o tail /\ (abs \/ read # <<>>)
    <3>1. CASE path = <<>>
      <4>1. read = <<>> /\ abs
        BY <1>2, <2>4, <3>1
      <4> QED BY <2>3, <3>1, <4>1
    <3>2. CASE path # <<>>
      BY <1>2, <2>3, <2>4, <3>2
    <3> QED BY <3>1, <3>2
  <2>5. ASSUME read \notin Names, Head(read) = Up PROVE ~abs /\ both # <<>> /\ Head(both) = Up
    <3>1. <<>> \in Names /\ Head(<<Here>>) = Here
      BY DEF Names
    <3>2. path # <<>> /\ Head(path) = Up
      <4>1. path # <<>>
        BY <1>2, <2>5, <3>1, WordAssumption
      <4> QED BY <1>2, <2>5, <4>1
    <3>3. ~abs
      <4>1. ASSUME abs PROVE FALSE
        <5>1. path \in Names
          BY <1>2, <4>1 DEF Kept
        <5> QED BY <3>2, <5>1, WordFacts
      <4> QED BY <4>1
    <3>4. both # <<>>
      BY <1>1, <2>1, <2>3
    <3>5. Head(path \o tail) = Head(path)
      <4>1. Len(path) \in Nat \ {0} /\ Len(tail) \in Nat
        BY <1>4, <3>2, EmptySeq, LenProperties
      <4>2. (path \o tail)[1] = path[1]
        <5>1. \A i \in 1 .. Len(path) + Len(tail) : (path \o tail)[i] =
                       IF i <= Len(path) THEN path[i] ELSE tail[i - Len(path)]
          BY <1>4, ConcatProperties
        <5>2. 1 \in 1 .. Len(path) + Len(tail) /\ 1 <= Len(path)
          BY <4>1
        <5> QED BY <5>1, <5>2
      <4>3. path \o tail \in Seq(Name \cup {Home, Up})
        BY <1>4, ConcatProperties
      <4>4. path \o tail # <<>>
        BY <1>1, <2>1
      <4>5. Head(path \o tail) = (path \o tail)[1]
        <5> DEFINE s == path \o tail
        <5>1. s \in Seq(Name \cup {Home, Up}) /\ s # <<>>
          BY <4>3, <4>4
        <5> HIDE DEF s
        <5>2. Head(s) = s[1]
          BY <5>1, HeadTailProperties
        <5> QED BY <5>2 DEF s
      <4>6. Head(path) = path[1]
        BY <1>4, <3>2, HeadTailProperties
      <4> QED BY <4>2, <4>5, <4>6
    <3> QED BY <2>3, <3>2, <3>3, <3>4, <3>5
  <2> QED BY <2>4, <2>5 DEF both, read
<1> QED BY <1>5, <1>6

--------------------------------------------------------------------------------
(* What a path means: the ways behind a name, and along a path.              *)

USE DEF MountTable

Ways == [place : Meanings, jumps : BOOLEAN]
Worlds == [link : [Link -> Text], points : MountTable]
\* The ways of all paths, as far as they are known.
Deeper == [Meanings \X Names \X BOOLEAN -> Ways]

\* What the constructors of meanings and ways give.
LEMMA MeaningTypes ==
  /\ \A n \in Node : InImage(n) \in Meanings
  /\ \A path \in Names : AtHost(path) \in Meanings
  /\ Nowhere \in Meanings /\ Loop \in Meanings /\ Unsaid \in Meanings
  /\ \A place \in Meanings, jumps \in BOOLEAN : Way(place, jumps) \in Ways
  /\ \A way, next \in Ways : Then(way, next) \in Ways
BY DEF InImage, AtHost, Nowhere, Loop, Unsaid, Meanings, Way, Ways, Then

\* What stands behind a text is a way.
LEMMA BehindWay ==
  ASSUME NEW deeper \in Deeper, NEW text, NEW from \in Meanings, NEW follow \in BOOLEAN
  PROVE  Behind(deeper, text, from, follow) \in Ways
<1>1. AtHost(<<>>) \in Meanings
  <2>1. <<>> \in Names
    BY DEF Names
  <2> QED BY <2>1, MeaningTypes
<1> DEFINE read == Read(text)
           p == <<IF text.abs THEN AtHost(<<>>) ELSE from, read, follow>>
<1> HIDE DEF read
<1>2. CASE Plain(read)
  <2>1. p \in Meanings \X Names \X BOOLEAN
    BY <1>1, <1>2 DEF Plain
  <2>2. Behind(deeper, text, from, follow) = deeper[p]
    BY <1>2 DEF Behind, read
  <2> HIDE DEF p
  <2> QED BY <2>1, <2>2 DEF Deeper
<1>3. CASE ~Plain(read)
  <2>1. Behind(deeper, text, from, follow) = Way(IF Head(read) = Up THEN Nowhere ELSE Unsaid, FALSE)
    BY <1>3 DEF Behind, read
  <2> QED BY <2>1, MeaningTypes
<1> QED BY <1>2, <1>3

\* One name leads somewhere.
LEMMA LookupWay ==
  ASSUME NEW world \in Worlds, NEW deeper \in Deeper, NEW place \in Meanings,
         NEW name \in Name \cup {Home}, NEW follow \in BOOLEAN
  PROVE  Lookup(world, deeper, place, name, follow) \in Ways
<1> DEFINE over == world.points[<<place.node, name>>]
           node == Entry[place.node][name]
           way == Lookup(world, deeper, place, name, follow)
<1>1. CASE place.kind = "host"
  <2>1. place.path \in Names
    BY <1>1 DEF Meanings, Nowhere, Loop, Unsaid
  <2>2. Append(place.path, name) \in Names
    BY <2>1 DEF Names
  <2>3. RootOf[0] \in Node
    BY TreeAssumption DEF Node
  <2> QED BY <1>1, <2>2, <2>3, MeaningTypes DEF Lookup
<1>2. CASE place.kind = "node"
  <2>1. place.node \in Node
    BY <1>2 DEF Meanings, Nowhere, Loop, Unsaid
  <2>2. over \in Point \cup {None}
    BY <2>1 DEF Worlds
  <2>3. CASE over # None
    <3>1. over \in Point
      BY <2>2, <2>3
    <3>2. CASE over.kind = "image"
      <4>1. RootOf[over.index] \in Node
        BY <3>1, <3>2, TreeAssumption DEF Point, Node
      <4>2. way = Way(InImage(RootOf[over.index]), FALSE)
        BY <1>2, <2>3, <3>2 DEF Lookup
      <4> QED BY <4>1, <4>2, MeaningTypes
    <3>3. CASE over.kind # "image"
      <4>1. way = Behind(deeper, over.path, place, follow)
        BY <1>2, <2>3, <3>3 DEF Lookup
      <4> QED BY <4>1, BehindWay
    <3> QED BY <3>2, <3>3
  <2>4. CASE over = None /\ (place.node \notin Dir \/ name \notin DOMAIN Entry[place.node])
    <3>1. way = Way(Nowhere, FALSE)
      BY <1>2, <2>4 DEF Lookup
    <3> QED BY <3>1, MeaningTypes
  <2>5. CASE over = None /\ place.node \in Dir /\ name \in DOMAIN Entry[place.node]
    <3>1. node \in Node
      BY <2>5, TreeAssumption
    <3>2. CASE node \in Link /\ follow
      <4>1. way = Behind(deeper, world.link[node], place, TRUE)
        BY <1>2, <2>5, <3>2 DEF Lookup
      <4> QED BY <4>1, BehindWay
    <3>3. CASE ~(node \in Link /\ follow)
      <4>1. way = Way(InImage(node), FALSE)
        BY <1>2, <2>5, <3>3 DEF Lookup
      <4> QED BY <3>1, <4>1, MeaningTypes
    <3> QED BY <3>2, <3>3
  <2> QED BY <2>3, <2>4, <2>5
<1>3. CASE place.kind \notin {"host", "node"}
  <2>1. way = Way(place, FALSE)
    BY <1>3 DEF Lookup
  <2> QED BY <2>1, MeaningTypes
<1> QED BY <1>1, <1>2, <1>3

\* The ways to the places on a path, one after the other.
WaysAlong(f, world, deeper, from, names, follow) ==
  /\ f \in [0 .. Len(names) -> Ways] /\ f[0] = Way(from, FALSE)
  /\ \A k \in 1 .. Len(names) :
       f[k] = Then(f[k - 1], Lookup(world, deeper, f[k - 1].place, names[k], follow \/ k < Len(names)))

\* The function by which Along is defined: its first way, and each way from the one before.
LEMMA AlongWays ==
  ASSUME NEW world \in Worlds, NEW deeper \in Deeper, NEW from \in Meanings, NEW names \in Names,
         NEW follow \in BOOLEAN
  PROVE  \E f : /\ WaysAlong(f, world, deeper, from, names, follow)
                /\ Along(world, deeper, from, names, follow) = f[Len(names)]
<1> DEFINE Look(w, k) == Lookup(world, deeper, w.place, names[k], follow \/ k < Len(names))
           Def(f) == [k \in 0 .. Len(names) |->
                        IF k = 0 THEN Way(from, FALSE) ELSE Then(f[k - 1], Look(f[k - 1], k))]
           way == CHOOSE f : f = Def(f)
           step == [k \in 1 .. Len(names) |-> [w \in Ways |-> Then(w, Look(w, k))]]
<1>1. Len(names) \in Nat
  BY DEF Names
<1>2. ASSUME NEW k \in 1 .. Len(names), NEW w \in Ways PROVE Then(w, Look(w, k)) \in Ways
  <2>1. names[k] \in Name \cup {Home} /\ w.place \in Meanings /\ (follow \/ k < Len(names)) \in BOOLEAN
    BY ElementOfSeq DEF Names, Ways
  <2>2. Look(w, k) \in Ways
    BY <2>1, LookupWay
  <2> QED BY <2>2, MeaningTypes
<1>3. step \in [1 .. Len(names) -> [Ways -> Ways]]
  BY <1>2
<1>4. Way(from, FALSE) \in Ways
  BY MeaningTypes
<1>5. PICK g : Steps(g, Ways, Way(from, FALSE), step, Len(names))
  <2> HIDE DEF step
  <2> QED BY <1>1, <1>3, <1>4, Recursion
<1>6. \A k \in 1 .. Len(names) : g[k] = Then(g[k - 1], Look(g[k - 1], k))
  <2> TAKE k \in 1 .. Len(names)
  <2>1. g[k] = step[k][g[k - 1]] /\ g[k - 1] \in Ways
    BY <1>1, <1>5 DEF Steps
  <2> QED BY <2>1
<1>7. g = Def(g)
  <2>1. g \in [0 .. Len(names) -> Ways] /\ g[0] = Way(from, FALSE)
    BY <1>5 DEF Steps
  <2> HIDE DEF Look
  <2>2. \A k \in 0 .. Len(names) : k # 0 => k \in 1 .. Len(names)
    BY <1>1
  <2>3. \A k \in 0 .. Len(names) : g[k] = Def(g)[k]
    BY <1>6, <2>1, <2>2
  <2>4. g = [k \in 0 .. Len(names) |-> g[k]]
    BY <2>1
  <2> QED BY <2>3, <2>4
<1>8. way = Def(way)
  <2> HIDE DEF Def
  <2> QED BY <1>7
<1>9. Along(world, deeper, from, names, follow) = way[Len(names)]
  BY DEF Along
<1>10. way[0] = Way(from, FALSE) /\ \A k \in 1 .. Len(names) : way[k] = Then(way[k - 1], Look(way[k - 1], k))
  <2> HIDE DEF way, Look
  <2> QED BY <1>1, <1>8
<1>11. way \in [0 .. Len(names) -> Ways]
  <2> HIDE DEF way, Look
  <2> DEFINE S == {k \in 0 .. Len(names) : way[k] \in Ways}
  <2>1. 0 \in S
    <3>1. 0 \in 0 .. Len(names)
      BY <1>1
    <3> QED BY <1>4, <1>10, <3>1
  <2>2. ASSUME NEW k \in 1 .. Len(names), k - 1 \in S PROVE k \in S
    BY <1>2, <1>10, <2>2
  <2> HIDE DEF S
  <2>3. 0 .. Len(names) \subseteq S
    BY <1>1, <2>1, <2>2, UpTo
  <2>4. \A k \in 0 .. Len(names) : way[k] \in Ways
    BY <2>3 DEF S
  <2> QED BY <1>8, <2>4
<1>12. WaysAlong(way, world, deeper, from, names, follow)
  BY <1>10, <1>11 DEF WaysAlong
<1> QED BY <1>9, <1>12

\* Ways in a row: standing still changes nothing, and it does not matter which two are joined first.
LEMMA ThenFacts ==
  /\ \A place, jumps : Way(place, jumps).place = place /\ Way(place, jumps).jumps = jumps
  /\ \A way, next : Then(way, next).place = next.place
  /\ \A way \in Ways : way = Way(way.place, way.jumps)
  /\ \A way \in Ways : \A place : Then(Way(place, FALSE), way) = way
  /\ \A way \in Ways : Then(way, Way(way.place, FALSE)) = way
  /\ \A a, b, c \in Ways : Then(Then(a, b), c) = Then(a, Then(b, c))
<1>1. \A way \in Ways : way = Way(way.place, way.jumps)
  BY DEF Ways, Way
<1>2. \A way \in Ways : way.jumps \in BOOLEAN
  BY DEF Ways
<1>3. \A way \in Ways : \A place : Then(Way(place, FALSE), way) = way
  BY <1>1, <1>2 DEF Way, Then
<1>4. \A way \in Ways : Then(way, Way(way.place, FALSE)) = way
  BY <1>1, <1>2 DEF Way, Then
<1>5. \A a, b, c \in Ways : Then(Then(a, b), c) = Then(a, Then(b, c))
  BY <1>2 DEF Way, Then
<1> QED BY <1>1, <1>3, <1>4, <1>5 DEF Way, Then

\* No name leads nowhere else.
LEMMA AlongEmpty ==
  ASSUME NEW world \in Worlds, NEW deeper \in Deeper, NEW from \in Meanings, NEW follow \in BOOLEAN
  PROVE  Along(world, deeper, from, <<>>, follow) = Way(from, FALSE)
<1>1. <<>> \in Names
  BY DEF Names
<1>2. PICK f : /\ WaysAlong(f, world, deeper, from, <<>>, follow)
               /\ Along(world, deeper, from, <<>>, follow) = f[Len(<<>>)]
  BY <1>1, AlongWays
<1> QED BY <1>2 DEF WaysAlong

\* A path of one name is what is looked up under the name.
LEMMA AlongOne ==
  ASSUME NEW world \in Worlds, NEW deeper \in Deeper, NEW from \in Meanings,
         NEW name \in Name \cup {Home}, NEW follow \in BOOLEAN
  PROVE  Along(world, deeper, from, <<name>>, follow) = Lookup(world, deeper, from, name, follow)
<1>1. <<name>> \in Names /\ Len(<<name>>) = 1 /\ <<name>>[1] = name
  BY DEF Names
<1>2. PICK f : /\ WaysAlong(f, world, deeper, from, <<name>>, follow)
               /\ Along(world, deeper, from, <<name>>, follow) = f[Len(<<name>>)]
  BY <1>1, AlongWays
<1>3. 1 \in 1 .. Len(<<name>>) /\ 1 - 1 = 0 /\ (follow \/ 1 < Len(<<name>>)) = follow
  BY <1>1
<1>4. f[1] = Then(f[0], Lookup(world, deeper, f[0].place, name, follow))
  BY <1>1, <1>2, <1>3 DEF WaysAlong
<1>5. f[0] = Way(from, FALSE)
  BY <1>2 DEF WaysAlong
<1>6. f[1] = Then(Way(from, FALSE), Lookup(world, deeper, from, name, follow))
  <2>1. f[0].place = from
    BY <1>5 DEF Way
  <2> QED BY <1>4, <1>5, <2>1
<1>7. Lookup(world, deeper, from, name, follow) \in Ways
  BY LookupWay
<1> QED BY <1>1, <1>2, <1>6, <1>7, ThenFacts

\* A path has a way, as far as the ways behind its links are known.
LEMMA AlongWay ==
  ASSUME NEW world \in Worlds, NEW deeper \in Deeper, NEW from \in Meanings, NEW names \in Names,
         NEW follow \in BOOLEAN
  PROVE  Along(world, deeper, from, names, follow) \in Ways
<1>1. PICK f : /\ WaysAlong(f, world, deeper, from, names, follow)
               /\ Along(world, deeper, from, names, follow) = f[Len(names)]
  BY AlongWays
<1>2. Len(names) \in 0 .. Len(names)
  BY DEF Names
<1> QED BY <1>1, <1>2 DEF WaysAlong

\* Two paths, one behind the other: the first is followed, unless the second is empty.
LEMMA AlongBoth ==
  ASSUME NEW world \in Worlds, NEW deeper \in Deeper, NEW from \in Meanings,
         NEW front \in Names, NEW back \in Names, NEW follow \in BOOLEAN
  PROVE  LET first == Along(world, deeper, from, front, follow \/ back # <<>>)
         IN  Along(world, deeper, from, front \o back, follow)
               = Then(first, Along(world, deeper, first.place, back, follow))
<1> DEFINE first == Along(world, deeper, from, front, follow \/ back # <<>>)
           whole == front \o back
           Look(place, name, last) == Lookup(world, deeper, place, name, last)
<1>1. /\ whole \in Names /\ Len(whole) = Len(front) + Len(back)
      /\ Len(front) \in Nat /\ Len(back) \in Nat
      /\ \A k \in 1 .. Len(front) : whole[k] = front[k]
      /\ \A k \in 1 .. Len(back) : whole[Len(front) + k] = back[k]
  <2>1. Len(front) \in Nat /\ Len(back) \in Nat
    BY DEF Names
  <2>2. /\ whole \in Names /\ Len(whole) = Len(front) + Len(back)
        /\ \A i \in 1 .. Len(front) + Len(back) : whole[i] =
                     IF i <= Len(front) THEN front[i] ELSE back[i - Len(front)]
    BY ConcatProperties DEF Names
  <2> HIDE DEF whole
  <2>3. \A k \in 1 .. Len(front) : k \in 1 .. Len(front) + Len(back) /\ k <= Len(front)
    BY <2>1
  <2>4. \A k \in 1 .. Len(back) : /\ Len(front) + k \in 1 .. Len(front) + Len(back)
                                  /\ ~(Len(front) + k <= Len(front)) /\ (Len(front) + k) - Len(front) = k
    BY <2>1
  <2> QED BY <2>1, <2>2, <2>3, <2>4
<1>2. first \in Ways /\ first.place \in Meanings
  BY AlongWay DEF Ways
<1>3. CASE back = <<>>
  <2>1. whole = front
    BY <1>3, ConcatEmptySeq DEF Names
  <2>2. (follow \/ back # <<>>) = follow
    BY <1>3
  <2>3. Along(world, deeper, first.place, back, follow) = Way(first.place, FALSE)
    BY <1>2, <1>3, AlongEmpty
  <2>4. Then(first, Way(first.place, FALSE)) = first
    BY <1>2, ThenFacts
  <2> QED BY <2>1, <2>2, <2>3, <2>4
<1>4. CASE back # <<>>
  <2> DEFINE m == Len(front)
  <2>1. (follow \/ back # <<>>) = TRUE /\ Len(back) > 0
    BY <1>1, <1>4, EmptySeq DEF Names
  <2>2. PICK f : WaysAlong(f, world, deeper, from, whole, follow)
                 /\ Along(world, deeper, from, whole, follow) = f[Len(whole)]
    BY <1>1, AlongWays
  <2>3. PICK g : WaysAlong(g, world, deeper, from, front, TRUE) /\ first = g[m]
    <3>1. first = Along(world, deeper, from, front, TRUE)
      BY <2>1
    <3>2. \E g : WaysAlong(g, world, deeper, from, front, TRUE) /\ Along(world, deeper, from, front, TRUE) = g[m]
      BY AlongWays
    <3> QED BY <3>1, <3>2
  <2>4. PICK h : WaysAlong(h, world, deeper, first.place, back, follow)
                 /\ Along(world, deeper, first.place, back, follow) = h[Len(back)]
    BY <1>2, AlongWays
  <2> HIDE DEF first, whole
  <2>5. 0 .. m \subseteq {k \in 0 .. m : f[k] = g[k]}
    <3> DEFINE S == {k \in 0 .. m : f[k] = g[k]}
    <3>1. 0 \in S
      <4>1. 0 \in 0 .. m
        BY <1>1
      <4> QED BY <2>2, <2>3, <4>1 DEF WaysAlong
    <3>2. ASSUME NEW k \in 1 .. m, k - 1 \in S PROVE k \in S
      <4>1. k \in 1 .. Len(whole) /\ k < Len(whole) /\ whole[k] = front[k] /\ k \in 0 .. m
        BY <1>1, <2>1
      <4>2. f[k] = Then(f[k - 1], Lookup(world, deeper, f[k - 1].place, front[k], TRUE))
        <5>1. (follow \/ k < Len(whole)) = TRUE
          BY <4>1
        <5>2. f[k] = Then(f[k - 1], Lookup(world, deeper, f[k - 1].place, whole[k], follow \/ k < Len(whole)))
          BY <2>2, <4>1 DEF WaysAlong
        <5> QED BY <4>1, <5>1, <5>2
      <4>3. g[k] = Then(g[k - 1], Lookup(world, deeper, g[k - 1].place, front[k], TRUE))
        <5>1. (TRUE \/ k < Len(front)) = TRUE
          OBVIOUS
        <5>2. g[k] = Then(g[k - 1], Lookup(world, deeper, g[k - 1].place, front[k], TRUE \/ k < Len(front)))
          BY <2>3 DEF WaysAlong
        <5> QED BY <5>1, <5>2
      <4>4. f[k - 1] = g[k - 1]
        BY <3>2
      <4> QED BY <4>1, <4>2, <4>3, <4>4
    <3> HIDE DEF S
    <3>3. 0 .. m \subseteq S
      BY <1>1, <3>1, <3>2, UpTo
    <3> QED BY <3>3 DEF S
  <2>6. f[m] = first
    <3>1. m \in 0 .. m
      BY <1>1
    <3> QED BY <2>3, <2>5, <3>1
  <2>7. 0 .. Len(back) \subseteq {k \in 0 .. Len(back) : f[m + k] = Then(first, h[k])}
    <3> DEFINE S == {k \in 0 .. Len(back) : f[m + k] = Then(first, h[k])}
    <3>1. 0 \in S
      <4>1. 0 \in 0 .. Len(back) /\ m + 0 = m
        BY <1>1
      <4>2. Then(first, h[0]) = first
        BY <1>2, <2>4, ThenFacts DEF WaysAlong
      <4> QED BY <2>6, <4>1, <4>2
    <3>2. ASSUME NEW k \in 1 .. Len(back), k - 1 \in S PROVE k \in S
      <4>1. /\ m + k \in 1 .. Len(whole) /\ whole[m + k] = back[k] /\ k \in 0 .. Len(back)
            /\ (m + k) - 1 = m + (k - 1) /\ (m + k < Len(whole)) = (k < Len(back))
            /\ k - 1 \in 0 .. Len(back)
        BY <1>1
      <4>2. f[m + k] = Then(f[m + (k - 1)], Lookup(world, deeper, f[m + (k - 1)].place, back[k], follow \/ k < Len(back)))
        BY <2>2, <4>1 DEF WaysAlong
      <4>3. h[k] = Then(h[k - 1], Lookup(world, deeper, h[k - 1].place, back[k], follow \/ k < Len(back)))
        BY <2>4 DEF WaysAlong
      <4>4. f[m + (k - 1)] = Then(first, h[k - 1])
        BY <3>2
      <4> DEFINE next == Lookup(world, deeper, h[k - 1].place, back[k], follow \/ k < Len(back))
      <4>5. f[m + (k - 1)].place = h[k - 1].place
        BY <4>4, ThenFacts
      <4>6. h[k - 1] \in Ways /\ back[k] \in Name \cup {Home}
        BY <2>4, <4>1, ElementOfSeq DEF WaysAlong, Names
      <4>7. next \in Ways
        <5>1. (follow \/ k < Len(back)) \in BOOLEAN /\ h[k - 1].place \in Meanings
          BY <4>6 DEF Ways
        <5> QED BY <4>6, <5>1, LookupWay
      <4>8. f[m + k] = Then(Then(first, h[k - 1]), next) /\ h[k] = Then(h[k - 1], next)
        BY <4>2, <4>3, <4>4, <4>5
      <4> HIDE DEF next
      <4>9. f[m + k] = Then(first, h[k])
        BY <1>2, <4>6, <4>7, <4>8, ThenFacts
      <4> QED BY <4>1, <4>9
    <3> HIDE DEF S
    <3>3. 0 .. Len(back) \subseteq S
      BY <1>1, <3>1, <3>2, UpTo
    <3> QED BY <3>3 DEF S
  <2>8. f[Len(whole)] = Then(first, h[Len(back)])
    <3>1. Len(back) \in 0 .. Len(back) /\ Len(whole) = m + Len(back)
      BY <1>1
    <3> QED BY <2>7, <3>1
  <2> QED BY <2>2, <2>4, <2>8 DEF first, whole
<1> QED BY <1>3, <1>4

Walks3 == Meanings \X Names \X BOOLEAN

\* The function by which Deep is defined: nothing is known at first, and each depth looks into the one before.
LEMMA DeepFacts ==
  ASSUME NEW world \in Worlds
  PROVE  /\ \A n \in Nat : Deep(world)[n] \in Deeper
         /\ \A p \in Walks3 : Deep(world)[0][p] = Lost
         /\ \A n \in Nat, p \in Walks3 :
              Deep(world)[n + 1][p] = Along(world, Deep(world)[n], p[1], p[2], p[3])
<1> DEFINE Deepen(d) == [p \in Walks3 |-> Along(world, d, p[1], p[2], p[3])]
           none == [p \in Walks3 |-> Lost]
           Def(f) == [n \in Nat |-> [p \in Walks3 |->
                        IF n = 0 THEN Lost ELSE Along(world, f[n - 1], p[1], p[2], p[3])]]
           ways == CHOOSE f : f = Def(f)
           step == [n \in Nat \ {0} |-> [d \in Deeper |-> Deepen(d)]]
<1>1. \A d \in Deeper : Deepen(d) \in Deeper
  <2> TAKE d \in Deeper
  <2>1. ASSUME NEW p \in Walks3 PROVE Along(world, d, p[1], p[2], p[3]) \in Ways
    <3>1. p[1] \in Meanings /\ p[2] \in Names /\ p[3] \in BOOLEAN
      BY DEF Walks3
    <3> QED BY <3>1, AlongWay
  <2> QED BY <2>1 DEF Deeper, Walks3
<1>2. none \in Deeper
  BY MeaningTypes DEF Deeper, Walks3, Lost
<1>3. step \in [Nat \ {0} -> [Deeper -> Deeper]]
  <2> HIDE DEF Deepen
  <2> QED BY <1>1
<1>4. PICK g : Recurs(g, Deeper, none, step)
  <2> HIDE DEF none, step
  <2> QED BY <1>2, <1>3, RecursionOnNat
<1>5. \A n \in Nat \ {0} : g[n] = Deepen(g[n - 1])
  <2> TAKE n \in Nat \ {0}
  <2>1. n - 1 \in Nat
    OBVIOUS
  <2>2. g[n] = step[n][g[n - 1]] /\ g[n - 1] \in Deeper
    BY <1>4, <2>1 DEF Recurs
  <2> HIDE DEF Deepen
  <2> QED BY <2>2
<1>6. g = Def(g)
  <2>1. g[0] = Def(g)[0]
    BY <1>4 DEF Recurs
  <2>2. ASSUME NEW n \in Nat, n # 0 PROVE g[n] = Def(g)[n]
    <3>1. Def(g)[n] = Deepen(g[n - 1])
      BY <2>2
    <3> HIDE DEF Def, Deepen
    <3> QED BY <1>5, <2>2, <3>1
  <2>3. DOMAIN g = Nat /\ g = [n \in Nat |-> g[n]]
    BY <1>4 DEF Recurs
  <2>4. DOMAIN Def(g) = Nat /\ Def(g) = [n \in Nat |-> Def(g)[n]]
    OBVIOUS
  <2>5. \A n \in Nat : g[n] = Def(g)[n]
    BY <2>1, <2>2
  <2> HIDE DEF Def
  <2> QED BY <2>3, <2>4, <2>5
<1>7. ways = Def(ways)
  <2> HIDE DEF Def
  <2> QED BY <1>6
<1>8. Deep(world) = ways
  BY DEF Deep, Walks3
<1> HIDE DEF ways
<1>9. /\ ways[0] = none
      /\ \A n \in Nat : ways[n + 1] = Deepen(ways[n])
  <2>1. ways[0] = Def(ways)[0]
    BY <1>7
  <2>2. Def(ways)[0] = none
    OBVIOUS
  <2>3. ASSUME NEW n \in Nat PROVE ways[n + 1] = Deepen(ways[n])
    <3>1. (n + 1) - 1 = n /\ n + 1 \in Nat /\ n + 1 # 0
      OBVIOUS
    <3>2. ways[n + 1] = Def(ways)[n + 1]
      <4> HIDE DEF Def
      <4> QED BY <1>7
    <3>3. Def(ways)[n + 1] = [p \in Walks3 |-> Along(world, ways[(n + 1) - 1], p[1], p[2], p[3])]
      BY <3>1
    <3>4. Def(ways)[n + 1] = Deepen(ways[n])
      BY <3>1, <3>3
    <3> QED BY <3>2, <3>4
  <2> QED BY <2>1, <2>2, <2>3
<1>10. \A n \in Nat : ways[n] \in Deeper
  <2> DEFINE S == {n \in Nat : ways[n] \in Deeper}
  <2>1. 0 \in S
    <3> HIDE DEF none
    <3> QED BY <1>2, <1>9
  <2>2. ASSUME NEW n \in S PROVE n + 1 \in S
    <3> HIDE DEF Deepen
    <3> QED BY <1>1, <1>9, <2>2
  <2>3. S \in SUBSET Nat
    OBVIOUS
  <2> HIDE DEF S
  <2>4. S = Nat
    BY <2>1, <2>2, <2>3, SetInduction
  <2> QED BY <2>4 DEF S
<1>11. \A p \in Walks3 : ways[0][p] = Lost
  BY <1>9
<1>12. \A n \in Nat, p \in Walks3 : ways[n + 1][p] = Along(world, ways[n], p[1], p[2], p[3])
  BY <1>9
<1> QED BY <1>8, <1>10, <1>11, <1>12

--------------------------------------------------------------------------------
(* Who knows more ways behind links, and when that tells nothing new.        *)

\* All that d knows of the ways of paths is known to e.
Less(d, e) == \A p \in Walks3 : d[p] = Lost \/ d[p] = e[p]

\* What stands over a name, or is found under it, when the way goes on with a path.
Turning(world, over, follow) ==
  \/ world.points[over] # None
  \/ over \in Linked /\ follow

\* A name at which the walk does not turn to another path does not depend on what is known of others.
LEMMA LookupStays ==
  ASSUME NEW world \in Worlds, NEW d, NEW e, NEW place \in Meanings,
         NEW name \in Name \cup {Home}, NEW follow \in BOOLEAN,
         place.kind = "node" => ~Turning(world, <<place.node, name>>, follow)
  PROVE  Lookup(world, d, place, name, follow) = Lookup(world, e, place, name, follow)
<1>1. CASE place.kind # "node"
  BY <1>1 DEF Lookup
<1>2. CASE place.kind = "node"
  <2>1. world.points[<<place.node, name>>] = None /\ (<<place.node, name>> \in Linked => ~follow)
    BY <1>2 DEF Turning
  <2>2. CASE place.node \notin Dir \/ name \notin DOMAIN Entry[place.node]
    BY <1>2, <2>1, <2>2 DEF Lookup
  <2>3. CASE place.node \in Dir /\ name \in DOMAIN Entry[place.node]
    <3>1. name \in Name
      BY <2>3, TreeAssumption
    <3>2. Entry[place.node][name] \in Link => <<place.node, name>> \in Linked
      BY <2>3, <3>1 DEF Linked
    <3>3. ~(Entry[place.node][name] \in Link /\ follow)
      BY <2>1, <3>2
    <3> QED BY <1>2, <2>1, <2>3, <3>3 DEF Lookup
  <2> QED BY <2>2, <2>3
<1> QED BY <1>1, <1>2

\* The path that a turn goes on with, the place from which it is read, and whether its
\* last name is followed.
LEMMA LookupTurns ==
  ASSUME NEW world \in Worlds, NEW place \in Meanings,
         NEW name \in Name \cup {Home}, NEW follow \in BOOLEAN
  PROVE  \/ \A d, e \in Deeper : Lookup(world, d, place, name, follow) = Lookup(world, e, place, name, follow)
         \/ \E p \in Walks3 : \A d \in Deeper : Lookup(world, d, place, name, follow) = d[p]
<1>1. CASE place.kind = "node" /\ Turning(world, <<place.node, name>>, follow)
  <2>0. place.node \in Node
    BY <1>1 DEF Meanings, Nowhere, Loop, Unsaid
  <2> DEFINE over == world.points[<<place.node, name>>]
             node == Entry[place.node][name]
  <2>1. ASSUME NEW text, NEW f \in BOOLEAN,
               \A d \in Deeper : Lookup(world, d, place, name, follow) = Behind(d, text, place, f)
        PROVE  \/ \A d, e \in Deeper :
                    Lookup(world, d, place, name, follow) = Lookup(world, e, place, name, follow)
               \/ \E p \in Walks3 : \A d \in Deeper : Lookup(world, d, place, name, follow) = d[p]
    <3> DEFINE read == Read(text)
               p == <<IF text.abs THEN AtHost(<<>>) ELSE place, read, f>>
    <3> HIDE DEF read
    <3>1. CASE Plain(read)
      <4>1. <<>> \in Names
        BY DEF Names
      <4>2. p \in Walks3
        BY <3>1, <4>1, MeaningTypes DEF Walks3, Plain
      <4>3. \A d \in Deeper : Behind(d, text, place, f) = d[p]
        BY <3>1 DEF Behind, read
      <4> HIDE DEF p
      <4> QED BY <2>1, <4>2, <4>3
    <3>2. CASE ~Plain(read)
      <4>1. \A d \in Deeper : Behind(d, text, place, f) = Way(IF Head(read) = Up THEN Nowhere ELSE Unsaid, FALSE)
        BY <3>2 DEF Behind, read
      <4> QED BY <2>1, <4>1
    <3> QED BY <3>1, <3>2
  <2>2. CASE over # None
    <3>0. over \in Point
      BY <2>0, <2>2 DEF Worlds
    <3>1. CASE over.kind = "image"
      BY <1>1, <2>2, <3>1 DEF Lookup
    <3>2. CASE over.kind # "image"
      <4>1. \A d \in Deeper : Lookup(world, d, place, name, follow) = Behind(d, over.path, place, follow)
        BY <1>1, <2>2, <3>2 DEF Lookup
      <4> QED BY <2>1, <4>1
    <3> QED BY <3>1, <3>2
  <2>3. CASE over = None
    <3>1. <<place.node, name>> \in Linked /\ follow
      BY <1>1, <2>3 DEF Turning
    <3>2. place.node \in Dir /\ name \in DOMAIN Entry[place.node] /\ node \in Link
      BY <3>1 DEF Linked
    <3>3. \A d \in Deeper : Lookup(world, d, place, name, follow) = Behind(d, world.link[node], place, TRUE)
      BY <1>1, <2>3, <3>1, <3>2 DEF Lookup
    <3> QED BY <2>1, <3>3
  <2> QED BY <2>2, <2>3
<1>2. CASE ~(place.kind = "node" /\ Turning(world, <<place.node, name>>, follow))
  BY <1>2, LookupStays
<1> QED BY <1>1, <1>2

\* Who knows more knows what another knows of a name.
LEMMA LookupLess ==
  ASSUME NEW world \in Worlds, NEW d \in Deeper, NEW e \in Deeper, Less(d, e), NEW place \in Meanings,
         NEW name \in Name \cup {Home}, NEW follow \in BOOLEAN
  PROVE  \/ Lookup(world, d, place, name, follow) = Lost
         \/ Lookup(world, d, place, name, follow) = Lookup(world, e, place, name, follow)
BY LookupTurns DEF Less

\* What is lost stays lost.
LEMMA LostStays ==
  ASSUME NEW world, NEW d, NEW name, NEW follow
  PROVE  /\ Then(Lost, Lookup(world, d, Lost.place, name, follow)) = Lost
         /\ \A way : way.jumps \in BOOLEAN => Then(way, Lost) = Lost
<1>1. Lost.place = Loop /\ Lost.jumps = TRUE
  BY DEF Lost, Way
<1>2. Lookup(world, d, Lost.place, name, follow) = Way(Loop, FALSE)
  BY <1>1 DEF Lookup, Loop
<1>3. Then(Lost, Way(Loop, FALSE)) = Lost
  BY DEF Lost, Then, Way
<1>4. ASSUME NEW way, way.jumps \in BOOLEAN PROVE Then(way, Lost) = Lost
  BY <1>1, <1>4 DEF Lost, Then, Way
<1> QED BY <1>2, <1>3, <1>4

\* Who knows more knows what another knows of a path.
LEMMA AlongLess ==
  ASSUME NEW world \in Worlds, NEW d \in Deeper, NEW e \in Deeper, Less(d, e), NEW from \in Meanings,
         NEW names \in Names, NEW follow \in BOOLEAN
  PROVE  \/ Along(world, d, from, names, follow) = Lost
         \/ Along(world, d, from, names, follow) = Along(world, e, from, names, follow)
<1> DEFINE m == Len(names)
<1>1. PICK f : WaysAlong(f, world, d, from, names, follow) /\ Along(world, d, from, names, follow) = f[m]
  BY AlongWays
<1>2. PICK g : WaysAlong(g, world, e, from, names, follow) /\ Along(world, e, from, names, follow) = g[m]
  BY AlongWays
<1>3. m \in Nat
  BY DEF Names
<1> DEFINE S == {k \in 0 .. m : f[k] = Lost \/ f[k] = g[k]}
<1>4. 0 \in S
  <2>1. 0 \in 0 .. m
    BY <1>3
  <2> QED BY <1>1, <1>2, <2>1 DEF WaysAlong
<1>5. ASSUME NEW k \in 1 .. m, k - 1 \in S PROVE k \in S
  <2> DEFINE last == follow \/ k < Len(names)
  <2>1. k \in 0 .. m /\ k - 1 \in 0 .. m /\ last \in BOOLEAN /\ names[k] \in Name \cup {Home}
    BY <1>3, ElementOfSeq DEF Names
  <2>2. f[k] = Then(f[k - 1], Lookup(world, d, f[k - 1].place, names[k], last))
    BY <1>1 DEF WaysAlong
  <2>3. g[k] = Then(g[k - 1], Lookup(world, e, g[k - 1].place, names[k], last))
    BY <1>2 DEF WaysAlong
  <2>4. f[k - 1] \in Ways /\ f[k - 1].place \in Meanings /\ f[k - 1].jumps \in BOOLEAN
    BY <1>1, <2>1 DEF WaysAlong, Ways
  <2> HIDE DEF last
  <2>5. CASE f[k - 1] = Lost
    BY <2>1, <2>2, <2>5, LostStays
  <2>6. CASE f[k - 1] = g[k - 1]
    <3> DEFINE a == Lookup(world, d, f[k - 1].place, names[k], last)
               b == Lookup(world, e, f[k - 1].place, names[k], last)
    <3>1. a = Lost \/ a = b
      BY <2>1, <2>4, LookupLess
    <3>2. f[k] = Then(f[k - 1], a) /\ g[k] = Then(f[k - 1], b)
      BY <2>2, <2>3, <2>6
    <3> HIDE DEF a, b
    <3>3. f[k] = Lost \/ f[k] = g[k]
      BY <2>4, <3>1, <3>2, LostStays
    <3> QED BY <2>1, <3>3
  <2> QED BY <1>5, <2>5, <2>6
<1> HIDE DEF S
<1>6. 0 .. m \subseteq S
  BY <1>3, <1>4, <1>5, UpTo
<1>7. m \in 0 .. m
  BY <1>3
<1> QED BY <1>1, <1>2, <1>6, <1>7 DEF S

\* The ways are the same when the turns on them are.
Same(world, d, e) ==
  \A place \in Meanings, name \in Name \cup {Home}, follow \in BOOLEAN :
     Lookup(world, d, place, name, follow) = Lookup(world, e, place, name, follow)

\* Who agree on the turns agree on every path.
LEMMA AlongSame ==
  ASSUME NEW world \in Worlds, NEW d \in Deeper, NEW e \in Deeper, Same(world, d, e), NEW from \in Meanings,
         NEW names \in Names, NEW follow \in BOOLEAN
  PROVE  Along(world, d, from, names, follow) = Along(world, e, from, names, follow)
<1> DEFINE m == Len(names)
<1>1. PICK f : WaysAlong(f, world, d, from, names, follow) /\ Along(world, d, from, names, follow) = f[m]
  BY AlongWays
<1>2. PICK g : WaysAlong(g, world, e, from, names, follow) /\ Along(world, e, from, names, follow) = g[m]
  BY AlongWays
<1>3. m \in Nat
  BY DEF Names
<1> DEFINE S == {k \in 0 .. m : f[k] = g[k]}
<1>4. 0 \in S
  <2>1. 0 \in 0 .. m
    BY <1>3
  <2> QED BY <1>1, <1>2, <2>1 DEF WaysAlong
<1>5. ASSUME NEW k \in 1 .. m, k - 1 \in S PROVE k \in S
  <2> DEFINE last == follow \/ k < Len(names)
  <2>1. k \in 0 .. m /\ k - 1 \in 0 .. m /\ last \in BOOLEAN /\ names[k] \in Name \cup {Home}
    BY <1>3, ElementOfSeq DEF Names
  <2>2. f[k] = Then(f[k - 1], Lookup(world, d, f[k - 1].place, names[k], last))
    BY <1>1 DEF WaysAlong
  <2>3. g[k] = Then(g[k - 1], Lookup(world, e, g[k - 1].place, names[k], last))
    BY <1>2 DEF WaysAlong
  <2>4. f[k - 1] = g[k - 1] /\ f[k - 1].place \in Meanings
    BY <1>1, <1>5, <2>1 DEF WaysAlong, Ways
  <2> HIDE DEF last
  <2>5. f[k] = g[k]
    BY <2>1, <2>2, <2>3, <2>4 DEF Same
  <2> QED BY <2>1, <2>5
<1> HIDE DEF S
<1>6. 0 .. m \subseteq S
  BY <1>3, <1>4, <1>5, UpTo
<1>7. m \in 0 .. m
  BY <1>3
<1> QED BY <1>1, <1>2, <1>6, <1>7 DEF S

\* Going deeper, nothing that is known gets lost.
LEMMA DeepGrows ==
  ASSUME NEW world \in Worlds, NEW n \in Nat
  PROVE  Less(Deep(world)[n], Deep(world)[n + 1])
<1> DEFINE D == Deep(world)
           S == {k \in Nat : Less(D[k], D[k + 1])}
<1>1. 0 \in S
  BY DeepFacts DEF Less
<1>2. ASSUME NEW k \in S PROVE k + 1 \in S
  <2>1. k + 1 \in Nat /\ Less(D[k], D[k + 1]) /\ k \in Nat
    OBVIOUS
  <2>2. D[k] \in Deeper /\ D[k + 1] \in Deeper
    BY <2>1, DeepFacts
  <2> HIDE DEF D, S
  <2>3. ASSUME NEW p \in Walks3 PROVE D[k + 1][p] = Lost \/ D[k + 1][p] = D[(k + 1) + 1][p]
    <3>1. D[k + 1][p] = Along(world, D[k], p[1], p[2], p[3])
      BY <2>1, DeepFacts DEF D
    <3>2. D[(k + 1) + 1][p] = Along(world, D[k + 1], p[1], p[2], p[3])
      BY <2>1, DeepFacts DEF D
    <3>3. p[1] \in Meanings /\ p[2] \in Names /\ p[3] \in BOOLEAN
      BY DEF Walks3
    <3> QED BY <2>1, <2>2, <3>1, <3>2, <3>3, AlongLess
  <2>4. Less(D[k + 1], D[(k + 1) + 1])
    BY <2>3 DEF Less
  <2> QED BY <2>1, <2>4 DEF S
<1>3. S \in SUBSET Nat
  OBVIOUS
<1> HIDE DEF S
<1>4. S = Nat
  BY <1>1, <1>2, <1>3, SetInduction
<1> QED BY <1>4 DEF S

\* Once a further step tells nothing of the turns, no step does.
LEMMA SameStays ==
  ASSUME NEW world \in Worlds, NEW n \in Nat, Same(world, Deep(world)[n], Deep(world)[n + 1])
  PROVE  \A m \in Nat : n <= m => Same(world, Deep(world)[m], Deep(world)[m + 1])
<1> DEFINE D == Deep(world)
           S == {k \in Nat : Same(world, D[n + k], D[(n + k) + 1])}
<1>1. 0 \in S
  <2>1. n + 0 = n
    OBVIOUS
  <2> QED BY <2>1
<1>2. ASSUME NEW k \in S PROVE k + 1 \in S
  <2> DEFINE j == n + k
  <2>1. k \in Nat /\ k + 1 \in Nat /\ j \in Nat /\ j + 1 \in Nat /\ n + (k + 1) = j + 1 /\ Same(world, D[j], D[j + 1])
    OBVIOUS
  <2> HIDE DEF j, S, D
  <2>2. D[j] \in Deeper /\ D[j + 1] \in Deeper /\ D[(j + 1) + 1] \in Deeper
    BY <2>1, DeepFacts DEF D
  <2>3. ASSUME NEW p \in Walks3 PROVE D[j + 1][p] = D[(j + 1) + 1][p]
    <3>1. D[j + 1][p] = Along(world, D[j], p[1], p[2], p[3])
      BY <2>1, DeepFacts DEF D
    <3>2. D[(j + 1) + 1][p] = Along(world, D[j + 1], p[1], p[2], p[3])
      BY <2>1, DeepFacts DEF D
    <3>3. p[1] \in Meanings /\ p[2] \in Names /\ p[3] \in BOOLEAN
      BY DEF Walks3
    <3> QED BY <2>1, <2>2, <3>1, <3>2, <3>3, AlongSame
  <2>4. D[j + 1] = D[(j + 1) + 1]
    <3>1. D[j + 1] = [p \in Walks3 |-> D[j + 1][p]] /\ D[(j + 1) + 1] = [p \in Walks3 |-> D[(j + 1) + 1][p]]
      BY <2>2 DEF Deeper, Walks3
    <3> QED BY <2>3, <3>1
  <2>5. Same(world, D[j + 1], D[(j + 1) + 1])
    BY <2>4 DEF Same
  <2> QED BY <2>1, <2>5 DEF S
<1>3. S \in SUBSET Nat
  OBVIOUS
<1> HIDE DEF S
<1>4. S = Nat
  BY <1>1, <1>2, <1>3, SetInduction
<1>5. ASSUME NEW m \in Nat, n <= m PROVE Same(world, D[m], D[m + 1])
  <2>1. m - n \in Nat /\ n + (m - n) = m
    BY <1>5
  <2>2. m - n \in S
    BY <1>4, <2>1
  <2> QED BY <2>1, <2>2 DEF S
<1> QED BY <1>5

\* A growing sequence of subsets of a finite set does not grow at every step.
LEMMA GrowthEnds ==
  ASSUME NEW T, IsFiniteSet(T), NEW s, \A n \in Nat : s[n] \in SUBSET T /\ s[n] \subseteq s[n + 1]
  PROVE  \E n \in 0 .. Cardinality(T) : s[n] = s[n + 1]
<1> DEFINE N == Cardinality(T)
           G == {n \in Nat : n <= N + 1 => Cardinality(s[n]) >= n}
<1> SUFFICES ASSUME \A n \in 0 .. N : s[n] # s[n + 1] PROVE FALSE
  OBVIOUS
<1>1. N \in Nat
  BY FS_CardinalityType
<1>2. \A n \in Nat : IsFiniteSet(s[n]) /\ Cardinality(s[n]) \in Nat /\ Cardinality(s[n]) <= N
  <2> TAKE n \in Nat
  <2>1. s[n] \in SUBSET T
    OBVIOUS
  <2>2. IsFiniteSet(s[n]) /\ Cardinality(s[n]) <= N
    BY <2>1, FS_Subset
  <2>3. Cardinality(s[n]) \in Nat
    BY <2>2, FS_CardinalityType
  <2> QED BY <2>2, <2>3
<1> HIDE DEF N
<1>3. 0 \in G
  BY <1>2
<1>4. ASSUME NEW n \in G PROVE n + 1 \in G
  <2>1. n \in Nat /\ n + 1 \in Nat /\ (n <= N + 1 => Cardinality(s[n]) >= n)
    OBVIOUS
  <2>2. ASSUME n + 1 <= N + 1 PROVE Cardinality(s[n + 1]) >= n + 1
    <3>1. n \in 0 .. N /\ n <= N + 1
      BY <1>1, <2>1, <2>2
    <3>2. s[n] # s[n + 1] /\ s[n] \subseteq s[n + 1]
      BY <2>1, <3>1
    <3>3. Cardinality(s[n]) < Cardinality(s[n + 1])
      <4>1. IsFiniteSet(s[n + 1]) /\ s[n] \in SUBSET s[n + 1]
        BY <1>2, <2>1, <3>2
      <4>2. Cardinality(s[n]) <= Cardinality(s[n + 1]) /\ (Cardinality(s[n]) = Cardinality(s[n + 1]) => s[n] = s[n + 1])
        BY <4>1, FS_Subset
      <4> QED BY <1>2, <2>1, <3>2, <4>2
    <3> QED BY <1>2, <2>1, <3>1, <3>3
  <2> QED BY <2>1, <2>2
<1>5. G \in SUBSET Nat
  OBVIOUS
<1> HIDE DEF G
<1>6. G = Nat
  BY <1>3, <1>4, <1>5, SetInduction
<1>7. Cardinality(s[N + 1]) >= N + 1
  BY <1>1, <1>6 DEF G
<1> QED BY <1>1, <1>2, <1>7

Best(world) == Deep(world)[Cardinality(Turns(world))]

\* There are finitely many turns, and every turn is one of them.
LEMMA TurnsFacts ==
  ASSUME NEW world \in Worlds
  PROVE  /\ IsFiniteSet(Turns(world)) /\ Cardinality(Turns(world)) \in Nat
         /\ \A node \in Node, name \in Name \cup {Home}, follow \in BOOLEAN :
              Turning(world, <<node, name>>, follow) => <<<<node, name>>, follow>> \in Turns(world)
<1> DEFINE overs == Node \X (Name \cup {Home})
<1>1. IsFiniteSet(overs)
  <2>1. IsFiniteSet(Node) /\ IsFiniteSet(Name \cup {Home})
    BY FiniteAssumption, FS_AddElement
  <2> QED BY <2>1, FS_Product
<1>2. IsFiniteSet(overs \X BOOLEAN)
  <2>1. IsFiniteSet({TRUE})
    BY FS_Singleton
  <2>2. IsFiniteSet({TRUE} \cup {FALSE})
    BY <2>1, FS_AddElement
  <2>3. BOOLEAN = {TRUE} \cup {FALSE}
    OBVIOUS
  <2>4. IsFiniteSet(BOOLEAN)
    BY <2>2, <2>3
  <2> QED BY <1>1, <2>4, FS_Product
<1>3. DOMAIN world.points = overs
  BY DEF Worlds
<1>4. Turns(world) \in SUBSET (overs \X BOOLEAN)
  BY <1>3 DEF Turns, Linked, Node
<1>5. IsFiniteSet(Turns(world))
  BY <1>2, <1>4, FS_Subset
<1>6. Cardinality(Turns(world)) \in Nat
  BY <1>5, FS_CardinalityType
<1>7. ASSUME NEW node \in Node, NEW name \in Name \cup {Home}, NEW follow \in BOOLEAN,
             Turning(world, <<node, name>>, follow)
      PROVE  <<<<node, name>>, follow>> \in Turns(world)
  BY <1>3, <1>7 DEF Turns, Turning
<1> QED BY <1>5, <1>6, <1>7

\* As deep as there are turns, looking one deeper tells nothing more of any turn: each depth at
\* which it did would have made one turn more known, and known it stays (GrowthEnds).
LEMMA DeepEnough ==
  ASSUME NEW world \in Worlds
  PROVE  LET N == Cardinality(Turns(world)) IN Same(world, Deep(world)[N], Deep(world)[N + 1])
<1> DEFINE N == Cardinality(Turns(world))
           D == Deep(world)
           Look(n, t) == Lookup(world, D[n], InImage(t[1][1]), t[1][2], t[2])
           s == [n \in Nat |-> {t \in Turns(world) : Look(n, t) # Lost}]
<1>1. N \in Nat /\ IsFiniteSet(Turns(world))
  BY TurnsFacts
<1>2. \A n \in Nat : n + 1 \in Nat /\ D[n] \in Deeper /\ D[n + 1] \in Deeper /\ Less(D[n], D[n + 1])
  <2> TAKE n \in Nat
  <2>1. n + 1 \in Nat
    OBVIOUS
  <2> QED BY <2>1, DeepFacts, DeepGrows
<1>3. \A t \in Turns(world) : InImage(t[1][1]) \in Meanings /\ t[1][2] \in Name \cup {Home} /\ t[2] \in BOOLEAN
  <2>1. \A t \in Turns(world) : t[1][1] \in Node /\ t[1][2] \in Name \cup {Home} /\ t[2] \in BOOLEAN
    BY DEF Turns, Linked, Worlds, Node
  <2> QED BY <2>1, MeaningTypes
<1> HIDE DEF D, N
<1>4. ASSUME NEW n \in Nat, NEW t \in Turns(world) PROVE Look(n, t) = Lost \/ Look(n, t) = Look(n + 1, t)
  BY <1>2, <1>3, LookupLess
<1>5. \A n \in Nat : s[n] \in SUBSET Turns(world) /\ s[n] \subseteq s[n + 1]
  <2> TAKE n \in Nat
  <2> HIDE DEF Look
  <2> QED BY <1>2, <1>4
<1>6. \E n \in 0 .. N : s[n] = s[n + 1]
  <2> HIDE DEF s
  <2> QED BY <1>1, <1>5, GrowthEnds DEF N
<1>7. PICK n \in 0 .. N : s[n] = s[n + 1]
  BY <1>6
<1>8. n \in Nat /\ n <= N
  BY <1>1, <1>7
<1>9. ASSUME NEW place \in Meanings, NEW name \in Name \cup {Home}, NEW follow \in BOOLEAN
      PROVE  Lookup(world, D[n], place, name, follow) = Lookup(world, D[n + 1], place, name, follow)
  <2>1. CASE place.kind = "node" /\ Turning(world, <<place.node, name>>, follow)
    <3> DEFINE t == <<<<place.node, name>>, follow>>
    <3>1. place.node \in Node /\ place = InImage(place.node)
      BY <2>1 DEF Meanings, Nowhere, Loop, Unsaid, AtHost, InImage
    <3>2. t \in Turns(world)
      BY <2>1, <3>1, TurnsFacts
    <3>3. Look(n, t) = Lost \/ Look(n, t) = Look(n + 1, t)
      BY <1>4, <1>8, <3>2
    <3>4. (Look(n, t) # Lost) <=> (Look(n + 1, t) # Lost)
      <4> HIDE DEF t, Look
      <4>1. (t \in s[n]) <=> (Look(n, t) # Lost)
        BY <1>8, <3>2
      <4>2. (t \in s[n + 1]) <=> (Look(n + 1, t) # Lost)
        BY <1>2, <1>8, <3>2
      <4> QED BY <1>7, <4>1, <4>2
    <3>5. Look(n, t) = Look(n + 1, t)
      BY <3>3, <3>4
    <3> QED BY <3>1, <3>5
  <2>2. CASE ~(place.kind = "node" /\ Turning(world, <<place.node, name>>, follow))
    BY <2>2, LookupStays
  <2> QED BY <2>1, <2>2
<1>10. Same(world, D[n], D[n + 1])
  BY <1>9 DEF Same
<1>11. Same(world, D[N], D[N + 1])
  BY <1>1, <1>8, <1>10, SameStays DEF D
<1> QED BY <1>11 DEF D, N

\* So the ways are those of a path that is read where the turn is found: the equation
\* that the walk goes by.
\* Where the path of a turn is read from.
Base(text, node) == IF text.abs THEN AtHost(<<>>) ELSE InImage(node)

GoesOn(world, node, name, follow, text, last) ==
  \A d \in Deeper : Lookup(world, d, InImage(node), name, follow) = Behind(d, text, InImage(node), last)

\* What is found at a turn is what the text there means: this is where a circle comes out as a circle.
LEMMA TurnMeaning ==
  ASSUME NEW world \in Worlds, NEW node \in Node, NEW name \in Name \cup {Home}, NEW follow \in BOOLEAN,
         NEW text, Plain(Read(text)), NEW last \in BOOLEAN,
         GoesOn(world, node, name, follow, text, last)
  PROVE  Lookup(world, Best(world), InImage(node), name, follow)
           = Meaning(world, Base(text, node), Read(text), last)
<1> DEFINE N == Cardinality(Turns(world))
           D == Deep(world)
           read == Read(text)
           p == <<Base(text, node), read, last>>
<1>1. N \in Nat /\ N + 1 \in Nat /\ InImage(node) \in Meanings
  BY TurnsFacts, MeaningTypes
<1>2. D[N] \in Deeper /\ D[N + 1] \in Deeper
  <2> HIDE DEF N
  <2> QED BY <1>1, DeepFacts
<1>3. Same(world, D[N], D[N + 1])
  BY DeepEnough
<1>4. Lookup(world, D[N], InImage(node), name, follow) = Lookup(world, D[N + 1], InImage(node), name, follow)
  BY <1>1, <1>3 DEF Same
<1>5. Lookup(world, D[N + 1], InImage(node), name, follow) = Behind(D[N + 1], text, InImage(node), last)
  BY <1>2 DEF GoesOn
<1>6. Behind(D[N + 1], text, InImage(node), last) = D[N + 1][p]
  BY DEF Behind, Base
<1>7. p \in Walks3
  <2>1. <<>> \in Names /\ read \in Names
    BY DEF Names, Plain
  <2> HIDE DEF read
  <2> QED BY <1>1, <2>1, MeaningTypes DEF Walks3, Base
<1>8. D[N + 1][p] = Along(world, D[N], p[1], p[2], p[3])
  <2> HIDE DEF N, p
  <2> QED BY <1>1, <1>7, DeepFacts
<1>9. Along(world, D[N], p[1], p[2], p[3])
        = Meaning(world, Base(text, node), Read(text), last)
  BY DEF Meaning
<1> QED BY <1>4, <1>5, <1>6, <1>8, <1>9 DEF Best

\* The ways that give the meanings are ways.
LEMMA BestWays ==
  ASSUME NEW world \in Worlds
  PROVE  Best(world) \in Deeper
BY TurnsFacts, DeepFacts DEF Best

\* A path is empty or a first name and a rest.
LEMMA NamesFacts ==
  /\ <<>> \in Names
  /\ \A names \in Names : /\ Len(names) \in Nat
                          /\ names # <<>> => /\ Head(names) \in Name \cup {Home} /\ Tail(names) \in Names
                                             /\ <<Head(names)>> \in Names
                                             /\ names = <<Head(names)>> \o Tail(names)
                                             /\ Len(names) > 1 <=> Tail(names) # <<>>
  /\ \A front, back \in Names : front \o back \in Names
<1>1. <<>> \in Names /\ \A front, back \in Names : front \o back \in Names
  BY DEF Names
<1>2. ASSUME NEW names \in Names, names # <<>>
      PROVE  /\ Head(names) \in Name \cup {Home} /\ Tail(names) \in Names
             /\ <<Head(names)>> \in Names
             /\ names = <<Head(names)>> \o Tail(names)
             /\ Len(names) > 1 <=> Tail(names) # <<>>
  <2>1. /\ Head(names) \in Name \cup {Home} /\ Tail(names) \in Names
        /\ <<Head(names)>> \in Names
    BY <1>2 DEF Names
  <2>2. names = <<Head(names)>> \o Tail(names)
    <3> DEFINE s == <<Head(names)>> \o Tail(names)
    <3>1. Len(names) \in Nat /\ Len(names) >= 1 /\ Len(Tail(names)) = Len(names) - 1
          /\ \A i \in 1 .. Len(Tail(names)) : Tail(names)[i] = names[i + 1]
      BY <1>2 DEF Names
    <3>2. s \in Seq(Name \cup {Home}) /\ Len(s) = Len(names)
      BY <2>1, <3>1 DEF Names
    <3>3. ASSUME NEW i \in 1 .. Len(names) PROVE s[i] = names[i]
      BY <1>2, <2>1, <3>1, <3>2 DEF Names
    <3> HIDE DEF s
    <3>4. names \in Seq(Name \cup {Home})
      BY DEF Names
    <3>5. \A i \in 1 .. Len(s) : s[i] = names[i]
      BY <3>2, <3>3
    <3>6. s = names
      BY <3>2, <3>4, <3>5, SeqEqual
    <3> QED BY <3>6 DEF s
  <2>3. Len(names) > 1 <=> Tail(names) # <<>>
    <3> DEFINE t == Tail(names)
    <3>1. Len(t) = Len(names) - 1 /\ Len(names) \in Nat
      BY <1>2 DEF Names
    <3>2. t \in Seq(Name \cup {Home})
      BY <2>1 DEF Names
    <3> HIDE DEF t
    <3>3. Len(t) # 0 <=> t # <<>>
      BY <3>2, EmptySeq
    <3>4. Len(names) > 1 <=> Len(t) # 0
      <4>1. Len(t) \in Nat
        BY <3>2
      <4> QED BY <3>1, <4>1
    <3> QED BY <3>3, <3>4 DEF t
  <2> QED BY <2>1, <2>2, <2>3
<1>3. \A names \in Names : Len(names) \in Nat
  BY DEF Names
<1> QED BY <1>1, <1>2, <1>3

\* The empty path means where it starts.
LEMMA MeaningOfNothing ==
  ASSUME NEW world \in Worlds, NEW from \in Meanings, NEW follow \in BOOLEAN
  PROVE  Meaning(world, from, <<>>, follow) = Way(from, FALSE)
BY BestWays, AlongEmpty DEF Meaning, Best

\* A path means a way.
LEMMA MeaningType ==
  ASSUME NEW world \in Worlds, NEW from \in Meanings, NEW names \in Names, NEW follow \in BOOLEAN
  PROVE  Meaning(world, from, names, follow) \in Ways
BY BestWays, AlongWay DEF Meaning, Best

\* Two paths, one behind the other.
LEMMA MeaningOfBoth ==
  ASSUME NEW world \in Worlds, NEW from \in Meanings, NEW front \in Names, NEW back \in Names,
         NEW follow \in BOOLEAN
  PROVE  LET first == Meaning(world, from, front, follow \/ back # <<>>)
         IN  Meaning(world, from, front \o back, follow)
               = Then(first, Meaning(world, first.place, back, follow))
BY BestWays, AlongBoth DEF Meaning, Best

\* The first name, and the path behind it.
LEMMA MeaningOfFirst ==
  ASSUME NEW world \in Worlds, NEW from \in Meanings, NEW names \in Names, names # <<>>,
         NEW follow \in BOOLEAN
  PROVE  LET first == Lookup(world, Best(world), from, Head(names), follow \/ Tail(names) # <<>>)
         IN  /\ Meaning(world, from, names, follow)
                  = Then(first, Meaning(world, first.place, Tail(names), follow))
             /\ first \in Ways
<1> DEFINE name == Head(names)
           last == follow \/ Tail(names) # <<>>
           first == Lookup(world, Best(world), from, name, last)
<1>1. name \in Name \cup {Home} /\ Tail(names) \in Names /\ <<name>> \in Names /\ names = <<name>> \o Tail(names)
      /\ last \in BOOLEAN
  BY NamesFacts
<1>2. Meaning(world, from, <<name>>, last) = first
  <2> HIDE DEF name, last
  <2> QED BY <1>1, BestWays, AlongOne DEF Meaning, Best
<1>3. first \in Ways
  <2> HIDE DEF name, last
  <2> QED BY <1>1, BestWays, LookupWay
<1> HIDE DEF name
<1>4. Meaning(world, from, <<name>> \o Tail(names), follow)
        = Then(first, Meaning(world, first.place, Tail(names), follow))
  <2> DEFINE one == Meaning(world, from, <<name>>, follow \/ Tail(names) # <<>>)
  <2>1. one = first
    BY <1>2
  <2>2. Meaning(world, from, <<name>> \o Tail(names), follow)
          = Then(one, Meaning(world, one.place, Tail(names), follow))
    BY <1>1, MeaningOfBoth
  <2> QED BY <2>1, <2>2
<1> QED BY <1>1, <1>3, <1>4 DEF name

\* A turn: what is left of the path is put behind the path that the turn goes on with.
LEMMA MeaningOfTurn ==
  ASSUME NEW world \in Worlds, NEW node \in Node, NEW names \in Names, names # <<>>, NEW follow \in BOOLEAN,
         NEW text, Plain(Read(text)),
         NEW last \in BOOLEAN, last <=> (follow \/ Tail(names) # <<>>),
         GoesOn(world, node, Head(names), last, text, last)
  PROVE  Meaning(world, InImage(node), names, follow)
           = Meaning(world, Base(text, node), Read(text) \o Tail(names), follow)
<1> DEFINE name == Head(names)
           tail == Tail(names)
           from == Base(text, node)
           read == Read(text)
           first == Lookup(world, Best(world), InImage(node), name, last)
<1>1. name \in Name \cup {Home} /\ tail \in Names /\ last \in BOOLEAN /\ InImage(node) \in Meanings
      /\ from \in Meanings /\ read \in Names
  BY NamesFacts, MeaningTypes DEF Base, Plain
<1>2. first = Meaning(world, from, read, last)
  BY <1>1, TurnMeaning
<1>3. Meaning(world, InImage(node), names, follow) = Then(first, Meaning(world, first.place, tail, follow))
  BY <1>1, MeaningOfFirst
<1> HIDE DEF first, from, tail, read
<1>4. Meaning(world, from, read \o tail, follow) = Then(first, Meaning(world, first.place, tail, follow))
  <2> DEFINE one == Meaning(world, from, read, follow \/ tail # <<>>)
  <2>1. one = first
    BY <1>2 DEF tail
  <2>2. Meaning(world, from, read \o tail, follow) = Then(one, Meaning(world, one.place, tail, follow))
    BY <1>1, MeaningOfBoth
  <2> QED BY <2>1, <2>2
<1> QED BY <1>3, <1>4 DEF from, tail, read

\* A name that is no turn.
LeadsTo(world, from, name, last, first) == Lookup(world, Best(world), from, name, last) = first

\* What is found under the first name, and then what the rest means there.
LEMMA MeaningOfStep ==
  ASSUME NEW world \in Worlds, NEW from \in Meanings, NEW names \in Names, names # <<>>, NEW follow \in BOOLEAN,
         NEW last \in BOOLEAN, last <=> (follow \/ Tail(names) # <<>>),
         NEW first, LeadsTo(world, from, Head(names), last, first),
         NEW next, first.place = next
  PROVE  Meaning(world, from, names, follow) = Then(first, Meaning(world, next, Tail(names), follow))
<1>1. Lookup(world, Best(world), from, Head(names), follow \/ Tail(names) # <<>>) = first
  BY DEF LeadsTo
<1> QED BY <1>1, MeaningOfFirst

\* Behind what is not there, nothing is, and behind what is not said nothing is said.
LEMMA MeaningOfNowhere ==
  ASSUME NEW world \in Worlds, NEW names \in Names, NEW follow \in BOOLEAN,
         NEW place \in Meanings, place.kind \notin {"host", "node"}
  PROVE  Meaning(world, place, names, follow) = Way(place, FALSE)
<1> DEFINE m == Len(names)
<1>1. PICK f : WaysAlong(f, world, Best(world), place, names, follow)
               /\ Along(world, Best(world), place, names, follow) = f[m]
  BY AlongWays, BestWays
<1>2. m \in Nat
  BY DEF Names
<1> DEFINE S == {k \in 0 .. m : f[k] = Way(place, FALSE)}
<1>3. 0 \in S
  <2>1. 0 \in 0 .. m
    BY <1>2
  <2> QED BY <1>1, <2>1 DEF WaysAlong
<1>4. ASSUME NEW k \in 1 .. m, k - 1 \in S PROVE k \in S
  <2> DEFINE last == follow \/ k < Len(names)
  <2>1. f[k] = Then(f[k - 1], Lookup(world, Best(world), f[k - 1].place, names[k], last))
    BY <1>1 DEF WaysAlong
  <2>2. f[k - 1] = Way(place, FALSE) /\ f[k - 1].place = place
    BY <1>4, ThenFacts
  <2> HIDE DEF last
  <2>3. Lookup(world, Best(world), place, names[k], last) = Way(place, FALSE)
    BY DEF Lookup
  <2>4. Then(Way(place, FALSE), Way(place, FALSE)) = Way(place, FALSE)
    BY DEF Then, Way
  <2>5. f[k] = Way(place, FALSE)
    BY <2>1, <2>2, <2>3, <2>4
  <2>6. k \in 0 .. m
    BY <1>2
  <2> QED BY <2>5, <2>6
<1> HIDE DEF S
<1>5. 0 .. m \subseteq S
  BY <1>2, <1>3, <1>4, UpTo
<1>6. m \in 0 .. m
  BY <1>2
<1> QED BY <1>1, <1>5, <1>6 DEF S, Meaning, Best

\* A turn to a text that is no path of names: with names behind it, it means nothing, or
\* nothing is said of it, as before.
LEMMA MeaningOfNoPath ==
  ASSUME NEW world \in Worlds, NEW node \in Node, NEW names \in Names, names # <<>>, NEW follow \in BOOLEAN,
         NEW text, ~Plain(Read(text)),
         NEW last \in BOOLEAN, last <=> (follow \/ Tail(names) # <<>>),
         GoesOn(world, node, Head(names), last, text, last)
  PROVE  Meaning(world, InImage(node), names, follow).place = IF Head(Read(text)) = Up THEN Nowhere ELSE Unsaid
<1> DEFINE place == IF Head(Read(text)) = Up THEN Nowhere ELSE Unsaid
<1>1. Lookup(world, Best(world), InImage(node), Head(names), last) = Behind(Best(world), text, InImage(node), last)
  BY BestWays DEF GoesOn
<1>2. Behind(Best(world), text, InImage(node), last) = Way(place, FALSE)
  BY DEF Behind
<1>3. place \in Meanings /\ place.kind \notin {"host", "node"}
  BY MeaningTypes DEF Nowhere, Unsaid
<1>4. InImage(node) \in Meanings /\ Tail(names) \in Names
  BY MeaningTypes, NamesFacts
<1> HIDE DEF place
<1>5. LeadsTo(world, InImage(node), Head(names), last, Way(place, FALSE))
  BY <1>1, <1>2 DEF LeadsTo
<1>6. Way(place, FALSE).place = place
  BY ThenFacts
<1>7. Meaning(world, InImage(node), names, follow)
        = Then(Way(place, FALSE), Meaning(world, place, Tail(names), follow))
  <2> DEFINE first == Way(place, FALSE)
  <2>1. first.place = place /\ LeadsTo(world, InImage(node), Head(names), last, first)
    BY <1>5, <1>6
  <2> HIDE DEF first
  <2>2. Meaning(world, InImage(node), names, follow) = Then(first, Meaning(world, place, Tail(names), follow))
    BY <1>4, <2>1, MeaningOfStep
  <2> QED BY <2>2 DEF first
<1>8. Meaning(world, place, Tail(names), follow) = Way(place, FALSE)
  BY <1>3, <1>4, MeaningOfNowhere
<1>9. \A way, next : Then(way, next).place = next.place
  BY ThenFacts
<1>10. Meaning(world, InImage(node), names, follow).place = place
  BY <1>6, <1>7, <1>8, <1>9
<1> QED BY <1>10 DEF place

\* On the host nothing is looked up, but the mount point in its root.
LEMMA MeaningOfHostPath ==
  ASSUME NEW world \in Worlds, NEW path \in Names, NEW follow \in BOOLEAN
  PROVE  /\ path = <<>> \/ Head(path) # Home =>
              Meaning(world, AtHost(<<>>), path, follow) = Way(AtHost(path), FALSE)
         /\ path # <<>> /\ Head(path) = Home =>
              Meaning(world, AtHost(<<>>), path, follow)
                = Then(Way(InImage(RootOf[0]), TRUE), Meaning(world, InImage(RootOf[0]), Tail(path), follow))
<1> DEFINE m == Len(path)
<1>1. <<>> \in Names /\ AtHost(<<>>) \in Meanings
  BY NamesFacts, MeaningTypes
<1>2. ASSUME path = <<>> \/ Head(path) # Home
      PROVE  Meaning(world, AtHost(<<>>), path, follow) = Way(AtHost(path), FALSE)
  <2>1. PICK f : WaysAlong(f, world, Best(world), AtHost(<<>>), path, follow)
                 /\ Along(world, Best(world), AtHost(<<>>), path, follow) = f[m]
    BY <1>1, AlongWays, BestWays
  <2>2. m \in Nat /\ path \in Seq(Name \cup {Home})
    BY DEF Names
  <2>3. path # <<>> => path[1] # Home
    BY <1>2, <2>2
  <2> DEFINE S == {k \in 0 .. m : f[k] = Way(AtHost(SubSeq(path, 1, k)), FALSE)}
  <2>4. 0 \in S
    <3>1. 0 \in 0 .. m /\ SubSeq(path, 1, 0) = <<>>
      BY <2>2
    <3> QED BY <2>1, <3>1 DEF WaysAlong
  <2>5. ASSUME NEW k \in 1 .. m, k - 1 \in S PROVE k \in S
    <3> DEFINE last == follow \/ k < Len(path)
               front == SubSeq(path, 1, k - 1)
    <3>1. f[k] = Then(f[k - 1], Lookup(world, Best(world), f[k - 1].place, path[k], last))
      BY <2>1 DEF WaysAlong
    <3>2. f[k - 1] = Way(AtHost(front), FALSE) /\ f[k - 1].place = AtHost(front)
      <4>1. f[k - 1] = Way(AtHost(front), FALSE)
        BY <2>5
      <4> HIDE DEF front
      <4> QED BY <4>1, ThenFacts
    <3>3. SubSeq(path, 1, k) = Append(front, path[k])
      BY <2>2
    <3>4. front = <<>> => path[k] # Home
      <4>1. ASSUME k # 1 PROVE front # <<>>
        BY <2>2, <4>1
      <4>2. path # <<>>
        BY <2>2
      <4> QED BY <2>3, <4>1, <4>2
    <3> HIDE DEF last, front
    <3>5. Lookup(world, Best(world), AtHost(front), path[k], last) = Way(AtHost(Append(front, path[k])), FALSE)
      BY <3>4 DEF Lookup, AtHost
    <3>6. Then(Way(AtHost(front), FALSE), Way(AtHost(Append(front, path[k])), FALSE))
            = Way(AtHost(Append(front, path[k])), FALSE)
      BY DEF Then, Way
    <3>7. f[k] = Way(AtHost(SubSeq(path, 1, k)), FALSE)
      BY <3>1, <3>2, <3>3, <3>5, <3>6
    <3>8. k \in 0 .. m
      BY <2>2
    <3> QED BY <3>7, <3>8
  <2> HIDE DEF S
  <2>6. 0 .. m \subseteq S
    BY <2>2, <2>4, <2>5, UpTo
  <2>7. m \in 0 .. m /\ SubSeq(path, 1, m) = path
    BY <2>2
  <2> QED BY <2>1, <2>6, <2>7 DEF S, Meaning, Best
<1>3. ASSUME path # <<>>, Head(path) = Home
      PROVE  Meaning(world, AtHost(<<>>), path, follow)
                = Then(Way(InImage(RootOf[0]), TRUE), Meaning(world, InImage(RootOf[0]), Tail(path), follow))
  <2>1. InImage(RootOf[0]) \in Meanings
    <3>1. RootOf[0] \in Node
      BY TreeAssumption DEF Node
    <3> QED BY <3>1, MeaningTypes
  <2> DEFINE last == follow \/ Tail(path) # <<>>
  <2> DEFINE first == Way(InImage(RootOf[0]), TRUE)
  <2>2. LeadsTo(world, AtHost(<<>>), Head(path), last, first)
    BY <1>3 DEF LeadsTo, Lookup, AtHost
  <2>4. first.place = InImage(RootOf[0])
    BY DEF Way
  <2>3. last \in BOOLEAN /\ (last <=> (follow \/ Tail(path) # <<>>))
    OBVIOUS
  <2> HIDE DEF last, first
  <2>5. Meaning(world, AtHost(<<>>), path, follow) = Then(first, Meaning(world, InImage(RootOf[0]), Tail(path), follow))
    BY <1>1, <1>3, <2>1, <2>2, <2>3, <2>4, MeaningOfStep
  <2> QED BY <2>5 DEF first
<1> QED BY <1>2, <1>3
--------------------------------------------------------------------------------
(* The types.                                                                *)

\* What a walk that is not to follow the last link found, it found in an image: only
\* the nested call, which follows, brings back what the host told.
Unfollowed == /\ nested => pc # "idle" /\ Follows(call.op)
              /\ pc = "reply" /\ ~Follows(call.op) /\ res.ret = "continue" => res.st \in Node

IInv == TypeOK /\ Unfollowed

\* The roots are directories, and an entry is an inode.
LEMMA TreeFacts ==
  /\ RootOf[0] \in Dir
  /\ \A i \in Index : RootOf[i] \in Dir
  /\ \A d \in Dir, n \in Name : n \in DOMAIN Entry[d] => Entry[d][n] \in Node
BY TreeAssumption

\* What is written keeps its words when it is made normal, alone or before another path.
LEMMA PathFacts ==
  /\ <<>> \in Written
  /\ \A text \in [abs : BOOLEAN, names : Written], tail \in Written :
        LexicallyNormal(text.abs, text.names \o tail) \in Written
<1>1. <<>> \in Written
  BY DEF Written
<1>2. ASSUME NEW text \in [abs : BOOLEAN, names : Written], NEW tail \in Written
      PROVE  LexicallyNormal(text.abs, text.names \o tail) \in Written
  <2>1. text.abs \in BOOLEAN /\ text.names \o tail \in Written
    BY WordFacts
  <2> QED BY <2>1, NormalForms
<1> QED BY <1>1, <1>2

\* No call has started.
LEMMA InitInv == Init => IInv
<1> SUFFICES ASSUME Init PROVE IInv
  OBVIOUS
<1>1. RootOf[0] \in Node
  BY TreeFacts DEF Node
<1>2. link \in [Link -> Text]
  BY TextAssumption DEF Init
<1>3. points \in MountTable
  BY DEF Init
<1>4. <<>> \in Written
  BY PathFacts
<1>5. pc = "idle" /\ nested = FALSE
  BY DEF Init, NoCall
<1>6. Unfollowed
  BY <1>5 DEF Unfollowed
<1>7. TypeOK
  BY <1>1, <1>2, <1>3, <1>4 DEF Init, NoCall, TypeOK
<1>8. QED
  BY <1>6, <1>7 DEF IInv

\* What find_inode returns.
LEMMA ResultFacts ==
  /\ \A st \in Place : Continue(st) \in Result
  /\ \A path \in Written : /\ [host |-> path] \in Place
                            /\ [ret |-> "outside", lnk |-> path] \in Result
                            /\ OnHost(path) \in Result
  /\ Error \in Result /\ OutOfMemory \in Result
<1>1. \A st \in Place : Continue(st) \in Result
  BY DEF Continue, Result
<1>2. Error \in Result /\ OutOfMemory \in Result
  BY DEF Error, OutOfMemory, Result
<1>3. ASSUME NEW path \in Written
      PROVE  /\ [host |-> path] \in Place
             /\ [ret |-> "outside", lnk |-> path] \in Result
  BY DEF Place, Result
<1>4. QED
  BY <1>1, <1>2, <1>3 DEF OnHost

\* A walk that ends keeps the invariant, when what it found is fit for the call.
LEMMA FinishInv ==
  ASSUME IInv, pc = "walk", NEW r \in Result, Finish(r),
         r.ret = "continue" /\ ~Follows(call.op) => r.st \in Node
  PROVE  IInv'
<1>1. Follows(call.op) => call.op # "mount"
  BY DEF Follows
<1>2. r # None
  BY NoneAssumption
<1>3. TypeOK'
  BY <1>1, <1>2 DEF IInv, TypeOK, Finish
<1>4. Unfollowed'
  BY DEF IInv, Unfollowed, Finish
<1>5. QED
  BY <1>3, <1>4 DEF IInv

\* A walk that goes on keeps the types.
LEMMA GoInv ==
  ASSUME IInv, pc = "walk", NEW node \in Node, NEW path \in Written, NEW st \in Node, Go(node, path, st),
         nested' \in BOOLEAN, nested' => Follows(call.op)
  PROVE  IInv'
<1>1. TypeOK'
  BY DEF IInv, TypeOK, Go
<1>2. Unfollowed'
  BY DEF IInv, Unfollowed, Go
<1>3. QED
  BY <1>1, <1>2 DEF IInv

\* An absolute path, into the image or out of it, keeps the types.
LEMMA AbsoluteLinkInv ==
  ASSUME IInv, pc = "walk", NEW path \in Written, NEW st \in Node, AbsoluteLink(path, st)
  PROVE  IInv'
<1> DEFINE outside == path = <<>> \/ Head(path) # Home
           r == IF nested THEN OnHost(path) ELSE [ret |-> "outside", lnk |-> path]
<1>1. CASE outside
  <2>1. Finish(r)
    BY <1>1 DEF AbsoluteLink
  <2>2. r \in Result
    BY ResultFacts
  <2>3. r.ret = "continue" => Follows(call.op)
    BY DEF IInv, Unfollowed
  <2>4. QED
    BY <2>1, <2>2, <2>3, FinishInv
<1>2. CASE ~outside /\ Follows(call.op)
  <2>1. Go(RootOf[0], Tail(path), RootOf[0]) /\ nested' = TRUE
    BY <1>2 DEF AbsoluteLink
  <2>2. RootOf[0] \in Node /\ Tail(path) \in Written
    BY <1>2, TreeFacts, WordFacts DEF Node
  <2>3. QED
    BY <1>2, <2>1, <2>2, GoInv
<1>3. CASE ~outside /\ ~Follows(call.op)
  <2>1. Finish(Continue(st))
    BY <1>3 DEF AbsoluteLink
  <2>2. Continue(st) \in Result /\ Continue(st).st = st
    BY ResultFacts DEF Continue, Place
  <2>3. QED
    BY <2>1, <2>2, FinishInv
<1>4. QED
  BY <1>1, <1>2, <1>3

\* An error keeps the types.
LEMMA ErrorInv == ASSUME IInv, pc = "walk", Finish(Error) \/ Finish(OutOfMemory) PROVE IInv'
<1>1. /\ Error \in Result /\ Error.ret # "continue"
      /\ OutOfMemory \in Result /\ OutOfMemory.ret # "continue"
  BY ResultFacts DEF Error, OutOfMemory
<1>2. QED
  BY <1>1, FinishInv

\* A link, or a mounted path, keeps the types.
LEMMA ProcessLinkInv ==
  ASSUME IInv, pc = "walk", NEW text \in [abs : BOOLEAN, names : Written], NEW tail \in Written,
         NEW st \in Node, ProcessLink(text, tail, st)
  PROVE  IInv'
<1> DEFINE path == LexicallyNormal(text.abs, text.names \o tail)
<1>1. path \in Written
  BY PathFacts
<1>2. at \in Node /\ nested \in BOOLEAN /\ (nested => Follows(call.op))
  BY DEF IInv, TypeOK, Unfollowed
<1>3. \/ Finish(OutOfMemory)
      \/ AbsoluteLink(path, st)
      \/ Go(at, path, st) /\ UNCHANGED nested
  BY DEF ProcessLink
<1> HIDE DEF path
<1>4. QED
  BY <1>1, <1>2, <1>3, ErrorInv, AbsoluteLinkInv, GoInv

\* Where a walk may go on.
LEMMA WalkingFacts ==
  ASSUME IInv, Walking
  PROVE  /\ pc = "walk" /\ at \in Node /\ seen \in Node
         /\ Tail(rest) \in Written
         /\ nested \in BOOLEAN /\ (nested => Follows(call.op))
         /\ HasEntry => Found \in Node
         /\ HasEntry /\ Found \in Link => link[Found] \in [abs : BOOLEAN, names : Written]
<1>1. pc = "walk" /\ rest # <<>> /\ rest \in Written /\ at \in Node /\ link \in [Link -> Text]
  BY DEF IInv, TypeOK, Walking
<1>2. HasEntry => Found \in Node
  BY <1>1, TreeAssumption DEF HasEntry, Found
<1>3. HasEntry /\ Found \in Link => link[Found] \in [abs : BOOLEAN, names : Written]
  BY <1>1, TextAssumption
<1>4. QED
  BY <1>1, <1>2, <1>3, WordFacts DEF IInv, TypeOK, Unfollowed

\* A mount point over a name: over an inode and a name, in the table that is typed.
LEMMA OverFacts ==
  ASSUME IInv, Walking, Over # None
  PROVE  Over \in Point /\ Over = points[<<at, Head(rest)>>] /\ Head(rest) \in Name \cup {Home}
<1>1. at \in Node /\ points \in MountTable
  BY DEF IInv, TypeOK
<1>2. Head(rest) \in Name \cup {Home}
  BY DEF Over
<1>3. QED
  BY <1>1, <1>2 DEF Over

\* A step of the loop keeps the types.
LEMMA WalkInv == ASSUME IInv, Walk PROVE IInv'
<1>1. CASE CrossToPath
  <2>1. Walking /\ Over \in Point /\ Over.kind = "path"
    BY <1>1, OverFacts DEF CrossToPath
  <2>2. Over.path \in [abs : BOOLEAN, names : Written]
    BY <2>1 DEF Point
  <2>3. QED
    BY <1>1, <2>1, <2>2, WalkingFacts, ProcessLinkInv DEF CrossToPath, Node
<1>2. CASE CrossToImage
  <2>1. Walking /\ Over \in Point /\ Over.kind = "image"
    BY <1>2, OverFacts DEF CrossToImage
  <2>2. RootOf[Over.index] \in Node
    BY <2>1, TreeFacts DEF Point, Node
  <2>3. Go(RootOf[Over.index], Tail(rest), RootOf[Over.index]) /\ UNCHANGED nested
    BY <1>2 DEF CrossToImage
  <2>4. QED
    BY <2>1, <2>2, <2>3, WalkingFacts, GoInv
<1>3. CASE NoEntry
  BY <1>3, ErrorInv DEF NoEntry, Walking
<1>4. CASE Descend
  <2>1. Walking /\ HasEntry /\ Go(Found, Tail(rest), Found) /\ UNCHANGED nested
    BY <1>4 DEF Descend
  <2>2. QED
    BY <2>1, WalkingFacts, GoInv
<1>5. CASE FollowLink
  <2>1. Walking /\ HasEntry /\ Found \in Link /\ ProcessLink(link[Found], Tail(rest), Found)
    BY <1>5 DEF FollowLink, ToBeFollowed
  <2>2. QED
    BY <2>1, WalkingFacts, ProcessLinkInv
<1>6. CASE Arrive
  <2>1. pc = "walk" /\ Finish(Continue(seen)) /\ seen \in Node
    BY <1>6 DEF Arrive, IInv, TypeOK
  <2>2. Continue(seen) \in Result /\ Continue(seen).st = seen
    BY <2>1, ResultFacts DEF Continue, Place
  <2>3. QED
    BY <2>1, <2>2, FinishInv
<1>7. QED
  BY <1>1, <1>2, <1>3, <1>4, <1>5, <1>6 DEF Walk

--------------------------------------------------------------------------------
(* The calls.                                                                *)

\* A walk that starts keeps the types.
LEMMA StartInv ==
  ASSUME IInv, NEW from \in Node, NEW names \in Written, Start(from, names), call' \in Call
  PROVE  IInv'
<1>1. call' # None
  BY NoneAssumption
<1>2. ~nested
  BY DEF Start, IInv, TypeOK, Unfollowed
<1>3. TypeOK'
  BY <1>1 DEF IInv, TypeOK, Start
<1>4. Unfollowed'
  BY <1>2 DEF Unfollowed, Start
<1>5. QED
  BY <1>3, <1>4 DEF IInv

\* A call that starts keeps the types.
LEMMA StartsInv ==
  ASSUME IInv,
         \/ \E op \in Op \ {"mount"}, names \in Path : StartAtRoot(op, names)
         \/ \E op \in Op \ {"mount"}, dir \in OpenDir, names \in RawPath : StartAtDir(op, dir, names)
         \/ \E parent \in Parent, name \in MountName, to \in Points : StartMount(parent, name, to)
  PROVE  IInv'
<1>1. CASE \E op \in Op \ {"mount"}, names \in Path : StartAtRoot(op, names)
  <2>1. PICK op \in Op \ {"mount"}, names \in Path : StartAtRoot(op, names)
    BY <1>1
  <2> DEFINE c == [op |-> op, rel |-> FALSE, from |-> RootOf[0], names |-> names]
  <2>2. c \in Call
    BY TextAssumption, TreeFacts DEF Call
  <2>3. Start(RootOf[0], names) /\ call' = c
    BY <2>1 DEF StartAtRoot
  <2>4. RootOf[0] \in Node /\ names \in Written
    BY TextAssumption, TreeFacts DEF Node
  <2>5. QED
    BY <2>2, <2>3, <2>4, StartInv
<1>2. CASE \E op \in Op \ {"mount"}, dir \in OpenDir, names \in RawPath : StartAtDir(op, dir, names)
  <2>1. PICK op \in Op \ {"mount"}, dir \in OpenDir, names \in RawPath : StartAtDir(op, dir, names)
    BY <1>2
  <2> DEFINE c == [op |-> op, rel |-> TRUE, from |-> dir, names |-> names]
  <2>2. c \in Call
    BY TextAssumption DEF Call
  <2>3. Start(dir, names) /\ call' = c
    BY <2>1 DEF StartAtDir
  <2>4. dir \in Node /\ names \in Written
    BY TextAssumption, TreeFacts DEF Node
  <2>5. QED
    BY <2>2, <2>3, <2>4, StartInv
<1>3. CASE \E parent \in Parent, name \in MountName, to \in Points : StartMount(parent, name, to)
  <2>1. PICK parent \in Parent, name \in MountName, to \in Points : StartMount(parent, name, to)
    BY <1>3
  <2> DEFINE c == [op |-> "mount", rel |-> TRUE, from |-> RootOf[0], names |-> parent,
                   name |-> name, to |-> to]
  <2>2. c \in Call
    BY TextAssumption, TreeFacts DEF Call, Op
  <2>3. Start(RootOf[0], parent) /\ call' = c
    BY <2>1 DEF StartMount
  <2>4. RootOf[0] \in Node /\ parent \in Written
    BY TextAssumption, TreeFacts DEF Node
  <2>5. QED
    BY <2>2, <2>3, <2>4, StartInv
<1>4. QED
  BY <1>1, <1>2, <1>3

\* The end of a call changes what it answered and nothing else of the types.
LEMMA DoneInv ==
  ASSUME IInv, pc = "reply", NEW answer \in Answer, Done(answer),
         points' \in MountTable,
         asked' \in [names : Written, name : Name, to : Point, before : MountTable] \cup {None}
  PROVE  IInv'
<1>1. answer # None
  BY NoneAssumption
<1>2. TypeOK'
  BY <1>1 DEF IInv, TypeOK, Done
<1>3. Unfollowed'
  BY DEF IInv, Unfollowed, Done
<1>4. QED
  BY <1>2, <1>3 DEF IInv

\* An answer keeps the types.
LEMMA ReplyInv == ASSUME IInv, Reply PROVE IInv'
<1>1. res \in Result
  BY DEF Reply, IInv, TypeOK
<1>2. res.ret = "outside" => HostAnswer \in Answer
  BY <1>1 DEF Result, HostAnswer, OfHost, Answer, Follows
<1>3. res.ret = "continue" => NodeAnswer \in Answer
  BY <1>1 DEF Result, NodeAnswer, Answer
<1>4. res.ret \in {"error", "memory"} => [what |-> res.ret] \in Answer
  BY DEF Answer
<1>5. res.ret \in {"error", "memory", "outside", "continue"}
  BY <1>1 DEF Result
<1>6. PICK answer \in Answer : Done(answer)
  BY <1>2, <1>3, <1>4, <1>5 DEF Reply
<1>7. QED
  BY <1>6, DoneInv DEF Reply, IInv, TypeOK

\* The end of a mount keeps the types.
LEMMA MountInv == ASSUME IInv, Mount \/ MountTaken \/ MountThrows PROVE IInv'
<1>1. [what |-> "error"] \in Answer /\ [what |-> "mounted"] \in Answer
  BY DEF Answer
<1>2. CASE Mount
  <2>1. /\ res.st \in Node /\ points \in MountTable
        /\ call \in Call /\ call.op = "mount"
    BY <1>2 DEF Mount, IInv, TypeOK
  <2>2. call.names \in Written /\ call.name \in Name /\ call.to \in Point
    BY <2>1 DEF Call
  <2> DEFINE entry == [names |-> call.names, name |-> call.name, to |-> call.to, before |-> points]
  <2>3. points' \in MountTable
    BY <1>2, <2>1, <2>2 DEF Mount
  <2>4. asked' = entry /\ entry \in [names : Written, name : Name, to : Point, before : MountTable]
    BY <1>2, <2>1, <2>2 DEF Mount
  <2>5. pc = "reply" /\ Done([what |-> "mounted"])
    BY <1>2 DEF Mount
  <2>6. QED
    BY <1>1, <2>3, <2>4, <2>5, DoneInv
<1>3. CASE MountTaken \/ MountThrows
  <2>1. PICK answer \in Answer : Done(answer)
    BY <1>1, <1>3 DEF MountTaken, MountThrows
  <2>2. QED
    BY <1>3, <2>1, DoneInv DEF MountTaken, MountThrows, IInv, TypeOK
<1>4. QED
  BY <1>2, <1>3

\* The return to the program keeps the types.
LEMMA ReturnInv == ASSUME IInv, Return PROVE IInv'
<1>1. RootOf[0] \in Node /\ <<>> \in Written
  BY TreeFacts, PathFacts DEF Node
<1>2. TypeOK'
  BY <1>1 DEF IInv, TypeOK, Return
<1>3. Unfollowed'
  BY DEF Unfollowed, Return
<1>4. QED
  BY <1>2, <1>3 DEF IInv

\* Every step keeps the types.
LEMMA NextInv == IInv /\ [Next]_vars => IInv'
<1> SUFFICES ASSUME IInv, [Next]_vars PROVE IInv'
  OBVIOUS
<1>1. CASE UNCHANGED vars
  BY <1>1 DEF vars, IInv, TypeOK, Unfollowed
<1>2. CASE Next
  <2>1. \/ \E op \in Op \ {"mount"}, names \in Path : StartAtRoot(op, names)
        \/ \E op \in Op \ {"mount"}, dir \in OpenDir, names \in RawPath : StartAtDir(op, dir, names)
        \/ \E parent \in Parent, name \in MountName, to \in Points : StartMount(parent, name, to)
        \/ Walk \/ Reply \/ Mount \/ MountTaken \/ MountThrows \/ Return
    BY <1>2 DEF Next, Op
  <2>2. QED
    BY <2>1, StartsInv, WalkInv, ReplyInv, MountInv, ReturnInv
<1>3. QED
  BY <1>1, <1>2

\* The state has its type, and a mount point is entered under an inode of an image
\* (tebako-cmdline.cpp:287-297), whatever the links of the images say.
THEOREM TypeCorrect == Spec => []TypeOK
<1>1. Init => IInv
  BY InitInv
<1>2. IInv /\ [Next]_vars => IInv'
  BY NextInv
<1>3. IInv => TypeOK
  BY DEF IInv
<1>4. QED
  BY <1>1, <1>2, <1>3, PTL DEF Spec

\* A call that does not follow the last link answers for an inode of an image, or sends
\* the host a path: it never passes off what the host said as an inode.
THEOREM UnfollowedStaysInTheImage == Spec => []Unfollowed
<1>1. Init => IInv
  BY InitInv
<1>2. IInv /\ [Next]_vars => IInv'
  BY NextInv
<1>3. IInv => Unfollowed
  BY DEF IInv
<1>4. QED
  BY <1>1, <1>2, <1>3, PTL DEF Spec
--------------------------------------------------------------------------------
(* A walk is on the way to what its path meant.                              *)

\* The way that is left.
Left == Meaning(World, InImage(at), rest, Follows(call.op))

\* What was mounted was asked for, in the first image.
Asked == /\ \A p \in DOMAIN points : points[p] \in Points \cup {None}
         /\ call # None /\ call.op = "mount" => call.to \in Points /\ call.from = RootOf[0]

\* A walk is on the way to what the path meant, and has read the attributes of the
\* inode where it arrives; or it has read a text that climbs, and will find nothing.
Onward == /\ Plain(rest)
          /\ CallMeans = Then(Way(InImage(at), nested), Left)
          /\ rest = <<>> => seen = at
Climbing == rest # <<>> /\ Head(rest) = Up /\ CallMeans.place = Nowhere
OnTheWay == pc = "walk" /\ Told => Onward \/ Climbing

\* What find_inode_abs returns: an inode; what the host told the nested call of; or
\* the link that a call did not follow into the image.
FoundNode == res.st \in Node /\ CallMeans.place = InImage(res.st)
FoundOnHost == /\ nested
               /\ \E path \in HostPath : /\ res.st = [host |-> path]
                                         /\ CallMeans = Way(AtHost(path), TRUE)
KeptLink == ~Follows(call.op) /\ CallMeans.jumps

Returned ==
  pc = "reply" /\ Told =>
    /\ res.ret = "continue" => FoundNode \/ FoundOnHost \/ KeptLink
    /\ res.ret = "outside" => CallMeans = Way(AtHost(res.lnk), FALSE)
    /\ res.ret = "error" => Visible(CallMeans.place) = Nowhere

Answered == FollowingCallsFindTheFile /\ OpenedFilesAreInTheImage /\ LastNameIsKept

MInv == IInv /\ Asked /\ OnTheWay /\ Returned /\ Answered

\* What the links say and what is mounted is a world.
LEMMA WorldTyped == ASSUME TypeOK PROVE World \in Worlds
BY DEF TypeOK, World, Worlds

\* The meaning of the call changes with the links, the mount points and the call only.
LEMMA CallMeansKept ==
  ASSUME link' = link, points' = points, call' = call
  PROVE  CallMeans' = CallMeans /\ Told' = Told
<1>1. World' = World
  BY DEF World
<1>2. CallMeans' = CallMeans
  BY <1>1 DEF CallMeans, Meant
<1> QED BY <1>2 DEF Told

\* What is left of a walk has a meaning.
LEMMA LeftTyped ==
  ASSUME IInv, pc = "walk", Plain(rest)
  PROVE  /\ World \in Worlds /\ InImage(at) \in Meanings /\ rest \in Names
         /\ Follows(call.op) \in BOOLEAN /\ nested \in BOOLEAN /\ Left \in Ways /\ at \in Node
<1>1. World \in Worlds
  BY WorldTyped DEF IInv
<1>2. at \in Node /\ rest \in Names /\ nested \in BOOLEAN
  BY DEF IInv, TypeOK, Plain
<1>3. InImage(at) \in Meanings
  BY <1>2, MeaningTypes
<1>4. Follows(call.op) \in BOOLEAN
  BY DEF Follows
<1>5. Left \in Ways
  BY <1>1, <1>2, <1>3, <1>4, MeaningType DEF Left
<1> QED BY <1>1, <1>2, <1>3, <1>4, <1>5

\* A walk that ends, and one that goes on.
LEMMA FinishReturns ==
  ASSUME MInv, pc = "walk", NEW r, Finish(r), IInv',
         /\ r.ret = "continue" => \/ r.st \in Node /\ CallMeans.place = InImage(r.st)
                                  \/ nested /\ \E path \in HostPath : /\ r.st = [host |-> path]
                                                            /\ CallMeans = Way(AtHost(path), TRUE)
                                  \/ KeptLink
         /\ r.ret = "outside" => CallMeans = Way(AtHost(r.lnk), FALSE)
         /\ r.ret = "error" => Visible(CallMeans.place) = Nowhere
  PROVE  MInv'
<1>1. /\ pc' = "reply" /\ res' = r /\ link' = link /\ points' = points /\ call' = call
      /\ nested' = nested /\ asked' = asked
  BY DEF Finish
<1>2. CallMeans' = CallMeans
  BY <1>1, CallMeansKept
<1>3. Asked'
  BY <1>1 DEF MInv, Asked
<1>4. OnTheWay'
  BY <1>1 DEF OnTheWay
<1>5. Returned'
  BY <1>1, <1>2 DEF Returned, FoundNode, FoundOnHost, KeptLink, Visible
<1>6. Answered'
  BY <1>1 DEF Answered, FollowingCallsFindTheFile, OpenedFilesAreInTheImage, LastNameIsKept
<1> QED BY <1>3, <1>4, <1>5, <1>6 DEF MInv

\* A walk that goes on from where its path means the same is on its way.
LEMMA GoKeeps ==
  ASSUME MInv, pc = "walk", NEW node \in Node, NEW path \in Names, NEW st, Go(node, path, st), IInv',
         CallMeans = Then(Way(InImage(node), nested'), Meaning(World, InImage(node), path, Follows(call.op))),
         path = <<>> => st = node
  PROVE  MInv'
<1>1. /\ pc' = pc /\ at' = node /\ rest' = path /\ seen' = st
      /\ link' = link /\ points' = points /\ call' = call /\ asked' = asked
  BY DEF Go
<1>2. CallMeans' = CallMeans
  BY <1>1, CallMeansKept
<1>3. Asked'
  BY <1>1 DEF MInv, Asked
<1>4. OnTheWay'
  <2>1. World' = World
    BY <1>1 DEF World
  <2>2. Left' = Meaning(World, InImage(node), path, Follows(call.op))
    BY <1>1, <2>1 DEF Left
  <2>3. CallMeans' = Then(Way(InImage(node), nested'), Left')
    BY <1>2, <2>2
  <2>4. Onward'
    BY <1>1, <2>3 DEF Onward, Plain
  <2> QED BY <2>4 DEF OnTheWay
<1>5. Returned'
  BY <1>1 DEF Returned
<1>6. Answered'
  BY <1>1 DEF Answered, FollowingCallsFindTheFile, OpenedFilesAreInTheImage, LastNameIsKept
<1> QED BY <1>3, <1>4, <1>5, <1>6 DEF MInv

\* A walk that goes on with "..", of a call that means nothing.
LEMMA GoClimbs ==
  ASSUME MInv, pc = "walk", NEW node, NEW path, NEW st, Go(node, path, st), IInv',
         path # <<>>, Head(path) = Up, CallMeans.place = Nowhere
  PROVE  MInv'
<1>1. /\ pc' = pc /\ rest' = path /\ link' = link /\ points' = points /\ call' = call /\ asked' = asked
  BY DEF Go
<1>2. CallMeans' = CallMeans
  BY <1>1, CallMeansKept
<1>3. Asked'
  BY <1>1 DEF MInv, Asked
<1>4. OnTheWay'
  BY <1>1, <1>2 DEF OnTheWay, Climbing
<1>5. Returned'
  BY <1>1 DEF Returned
<1>6. Answered'
  BY <1>1 DEF Answered, FollowingCallsFindTheFile, OpenedFilesAreInTheImage, LastNameIsKept
<1> QED BY <1>3, <1>4, <1>5, <1>6 DEF MInv

\* What is left of the way is the way of the path that find_inode_abs takes over.
LEMMA AbsoluteLinkKeeps ==
  ASSUME MInv, Onward, pc = "walk", NEW path \in Names, NEW st \in Node, AbsoluteLink(path, st), IInv',
         Left = Meaning(World, AtHost(<<>>), path, Follows(call.op))
  PROVE  MInv'
<1> DEFINE follow == Follows(call.op)
           outside == path = <<>> \/ Head(path) # Home
           root == InImage(RootOf[0])
           back == Meaning(World, root, Tail(path), follow)
<1>1. /\ World \in Worlds /\ follow \in BOOLEAN /\ nested \in BOOLEAN
      /\ CallMeans = Then(Way(InImage(at), nested), Left)
      /\ IInv
  BY LeftTyped DEF MInv, Onward
<1>2. CASE outside
  <2>1. Left = Way(AtHost(path), FALSE)
    BY <1>1, <1>2, MeaningOfHostPath
  <2>2. CallMeans = Way(AtHost(path), nested)
    BY <1>1, <2>1 DEF Then, Way
  <2>3. Finish(IF nested THEN OnHost(path) ELSE [ret |-> "outside", lnk |-> path])
    BY <1>2 DEF AbsoluteLink
  <2>4. CASE nested /\ path \in HostPath
    <3> DEFINE r == [ret |-> "continue", st |-> [host |-> path]]
    <3>1. Finish(r)
      BY <2>3, <2>4 DEF OnHost, Continue
    <3>2. CallMeans = Way(AtHost(path), TRUE)
      BY <2>2, <2>4
    <3> QED BY <2>4, <3>1, <3>2, FinishReturns
  <2>5. CASE nested /\ path \notin HostPath
    <3>1. Finish(Error)
      BY <2>3, <2>5 DEF OnHost
    <3>2. Visible(CallMeans.place) = Nowhere
      BY <2>2, <2>5 DEF Visible, Way, AtHost
    <3>3. Error.ret = "error"
      BY DEF Error
    <3> QED BY <3>1, <3>2, <3>3, FinishReturns
  <2>6. CASE ~nested
    <3> DEFINE r == [ret |-> "outside", lnk |-> path]
    <3>1. Finish(r)
      BY <2>3, <2>6
    <3>2. CallMeans = Way(AtHost(path), FALSE)
      BY <1>1, <2>2, <2>6
    <3> QED BY <3>1, <3>2, FinishReturns
  <2> QED BY <2>4, <2>5, <2>6
<1>3. CASE ~outside
  <2>1. Left = Then(Way(root, TRUE), back)
    BY <1>1, <1>3, MeaningOfHostPath
  <2>2. CallMeans = Then(Way(root, TRUE), back) /\ CallMeans.jumps = TRUE
    <3> HIDE DEF root, back
    <3>2. Then(Way(root, TRUE), back) = Way(back.place, TRUE)
      BY DEF Then, Way
    <3>3. Then(Way(InImage(at), nested), Way(back.place, TRUE)) = Way(back.place, TRUE)
      BY <1>1 DEF Then, Way
    <3>4. Way(back.place, TRUE).jumps = TRUE
      BY DEF Way
    <3> QED BY <1>1, <2>1, <3>2, <3>3, <3>4
  <2>3. CASE follow
    <3>1. Go(RootOf[0], Tail(path), RootOf[0]) /\ nested' = TRUE
      BY <1>3, <2>3 DEF AbsoluteLink
    <3>2. RootOf[0] \in Node /\ Tail(path) \in Names
      BY <1>3, TreeFacts, NamesFacts DEF Node
    <3>3. CallMeans = Then(Way(root, nested'), back)
      BY <2>2, <3>1
    <3> QED BY <3>1, <3>2, <3>3, GoKeeps
  <2>4. CASE ~follow
    <3>1. Finish(Continue(st))
      BY <1>3, <2>4 DEF AbsoluteLink
    <3>2. Continue(st).ret = "continue"
      BY DEF Continue
    <3>3. KeptLink
      BY <2>2, <2>4 DEF KeptLink
    <3> QED BY <3>1, <3>2, <3>3, FinishReturns
  <2> QED BY <2>3, <2>4
<1> QED BY <1>2, <1>3

\* A link is replaced by its text and made normal (process_link): what is left means the
\* same, or climbs.
LEMMA ProcessLinkKeeps ==
  ASSUME MInv, Told, Onward, pc = "walk", NEW text \in [abs : BOOLEAN, names : Written],
         text.abs \/ text.names # <<>>,
         NEW tail \in Names, NEW st \in Node, ProcessLink(text, tail, st), IInv',
         Plain(Read(text)) => Left = Meaning(World, Base(text, at), Read(text) \o tail, Follows(call.op)),
         ~Plain(Read(text)) => Left.place = IF Head(Read(text)) = Up THEN Nowhere ELSE Unsaid
  PROVE  MInv'
<1> DEFINE read == Read(text)
           path == LexicallyNormal(text.abs, text.names \o tail)
<1>1. at \in Node /\ CallMeans = Then(Way(InImage(at), nested), Left)
  BY DEF MInv, Onward, IInv, TypeOK
<1>2. /\ Plain(read) => path = read \o tail /\ (text.abs \/ read # <<>>)
      /\ ~Plain(read) /\ Head(read) = Up => ~text.abs /\ path # <<>> /\ Head(path) = Up
  <2>1. text.abs \in BOOLEAN /\ text.names \in Written
    OBVIOUS
  <2> QED BY <2>1, NormalBehind DEF Plain, Read
<1>3. \/ Finish(OutOfMemory)
      \/ text.abs /\ AbsoluteLink(path, st)
      \/ ~text.abs /\ Go(at, path, st) /\ nested' = nested
  BY DEF ProcessLink
<1> HIDE DEF path, read
<1>4. CASE Finish(OutOfMemory)
  <2>1. OutOfMemory.ret = "memory"
    BY DEF OutOfMemory
  <2> QED BY <1>4, <2>1, FinishReturns
<1>5. CASE Plain(read) /\ ~Finish(OutOfMemory)
  <2>1. path \in Names /\ path = read \o tail /\ (text.abs \/ read # <<>>)
    BY <1>2, <1>5, NamesFacts DEF Plain
  <2>2. Left = Meaning(World, Base(text, at), path, Follows(call.op))
    BY <1>5, <2>1 DEF read
  <2>3. CASE text.abs
    <3>1. AbsoluteLink(path, st)
      BY <1>3, <1>5, <2>3
    <3>2. Left = Meaning(World, AtHost(<<>>), path, Follows(call.op))
      BY <2>2, <2>3 DEF Base
    <3> QED BY <2>1, <3>1, <3>2, AbsoluteLinkKeeps
  <2>4. CASE ~text.abs
    <3>1. Go(at, path, st) /\ nested' = nested
      BY <1>3, <1>5, <2>4
    <3>2. Left = Meaning(World, InImage(at), path, Follows(call.op))
      BY <2>2, <2>4 DEF Base
    <3>3. path # <<>>
      <4>1. read # <<>> /\ read \in Seq(Name \cup {Home}) /\ tail \in Seq(Name \cup {Home})
        BY <1>5, <2>1, <2>4 DEF Names, Plain
      <4> QED BY <2>1, <4>1, ConcatEqualIffEmpty
    <3>4. CallMeans = Then(Way(InImage(at), nested'), Meaning(World, InImage(at), path, Follows(call.op)))
      BY <1>1, <3>1, <3>2
    <3> QED BY <1>1, <2>1, <3>1, <3>3, <3>4, GoKeeps
  <2> QED BY <2>3, <2>4
<1>6. CASE ~Plain(read) /\ ~Finish(OutOfMemory)
  <2>1. Left.place = IF Head(read) = Up THEN Nowhere ELSE Unsaid
    BY <1>6 DEF read
  <2>2. CallMeans.place = Left.place
    BY <1>1, ThenFacts
  <2>3. Head(read) = Up /\ CallMeans.place = Nowhere
    BY <2>1, <2>2 DEF Told
  <2>4. Go(at, path, st) /\ path # <<>> /\ Head(path) = Up
    BY <1>2, <1>3, <1>6, <2>3
  <2> QED BY <2>3, <2>4, GoClimbs
<1> QED BY <1>4, <1>5, <1>6

\* The name that is looked up next, when nothing is mounted over it or something is.
LEMMA NextName ==
  ASSUME MInv, Onward, Walking
  PROVE  /\ pc = "walk" /\ rest \in Names /\ rest # <<>> /\ at \in Node /\ seen \in Node
         /\ World \in Worlds /\ World.points = points /\ World.link = link
         /\ Head(rest) \in Name \cup {Home} /\ Tail(rest) \in Names
         /\ Follows(call.op) \in BOOLEAN /\ nested \in BOOLEAN
         /\ CallMeans = Then(Way(InImage(at), nested), Left)
         /\ InImage(at).kind = "node" /\ InImage(at).node = at
<1>1. pc = "walk" /\ rest # <<>> /\ IInv
  BY DEF MInv, Walking
<1>2. rest \in Names /\ at \in Node /\ World \in Worlds /\ Follows(call.op) \in BOOLEAN /\ nested \in BOOLEAN
  BY <1>1, LeftTyped DEF Onward
<1>3. Head(rest) \in Name \cup {Home} /\ Tail(rest) \in Names
  BY <1>1, <1>2, NamesFacts
<1>4. seen \in Node /\ CallMeans = Then(Way(InImage(at), nested), Left)
  BY <1>1 DEF MInv, Onward, IInv, TypeOK
<1>5. World.points = points /\ World.link = link /\ InImage(at).kind = "node" /\ InImage(at).node = at
  BY DEF World, InImage
<1> QED BY <1>1, <1>2, <1>3, <1>4, <1>5

\* One name that leads on in the image.
LEMMA StepKeeps ==
  ASSUME MInv, Onward, Walking, NEW next \in Node, Go(next, Tail(rest), next), nested' = nested, IInv',
         NEW last \in BOOLEAN, last <=> (Follows(call.op) \/ Tail(rest) # <<>>),
         LeadsTo(World, InImage(at), Head(rest), last, Way(InImage(next), FALSE))
  PROVE  MInv'
<1> DEFINE follow == Follows(call.op)
           back == Meaning(World, InImage(next), Tail(rest), follow)
<1>1. /\ pc = "walk" /\ rest \in Names /\ rest # <<>> /\ at \in Node
      /\ World \in Worlds /\ Tail(rest) \in Names /\ follow \in BOOLEAN
      /\ CallMeans = Then(Way(InImage(at), nested), Left)
      /\ InImage(at) \in Meanings /\ InImage(next) \in Meanings
  BY NextName, MeaningTypes
<1>2. last <=> (follow \/ Tail(rest) # <<>>)
  OBVIOUS
<1>3. Left = Then(Way(InImage(next), FALSE), back)
  <2> DEFINE first == Way(InImage(next), FALSE)
  <2>1. LeadsTo(World, InImage(at), Head(rest), last, first) /\ first.place = InImage(next)
    BY DEF Way
  <2> HIDE DEF follow, first
  <2>2. Meaning(World, InImage(at), rest, follow) = Then(first, back)
    BY <1>1, <1>2, <2>1, MeaningOfStep
  <2> QED BY <2>2 DEF Left, follow, first
<1>4. back \in Ways
  BY <1>1, MeaningType
<1>5. Left = back
  <2> HIDE DEF back
  <2> QED BY <1>3, <1>4, ThenFacts
<1>6. CallMeans = Then(Way(InImage(next), nested'), back)
  BY <1>1, <1>5 DEF Then, Way
<1> QED BY <1>1, <1>6, GoKeeps

\* A mounted path is gone on with like a link.
LEMMA CrossToPathKeeps == ASSUME MInv, Told, Onward, CrossToPath, IInv' PROVE MInv'
<1> DEFINE follow == Follows(call.op)
           text == Over.path
           last == follow \/ Tail(rest) # <<>>
<1>1. Walking /\ Over # None /\ Over.kind = "path" /\ ProcessLink(text, Tail(rest), seen)
  BY DEF CrossToPath
<1>2. /\ pc = "walk" /\ rest \in Names /\ rest # <<>> /\ at \in Node /\ seen \in Node /\ World \in Worlds
      /\ World.points = points /\ Head(rest) \in Name \cup {Home} /\ Tail(rest) \in Names /\ follow \in BOOLEAN
      /\ InImage(at).kind = "node" /\ InImage(at).node = at
  BY <1>1, NextName
<1>3. Over \in Point
  BY <1>1, OverFacts DEF MInv
<1>4. text \in [abs : BOOLEAN, names : Written]
  BY <1>1, <1>3 DEF Point
<1>5. text.abs \/ text.names # <<>>
  <2>1. DOMAIN points = Node \X (Name \cup {Home})
    BY DEF MInv, IInv, TypeOK
  <2>2. <<at, Head(rest)>> \in DOMAIN points
    BY <1>2, <2>1
  <2>3. Over \in Points
    BY <1>1, <1>2, <2>2 DEF MInv, Asked, Over
  <2> QED BY <1>1, <2>3, MeaningAssumption
<1>6. GoesOn(World, at, Head(rest), last, text, last)
  <2> HIDE DEF last, text
  <2>1. World.points[<<InImage(at).node, Head(rest)>>] = Over
    BY <1>2 DEF Over
  <2> QED BY <1>1, <1>2, <2>1 DEF GoesOn, Lookup, text
<1>7. /\ Plain(Read(text)) => Left = Meaning(World, Base(text, at), Read(text) \o Tail(rest), follow)
      /\ ~Plain(Read(text)) => Left.place = IF Head(Read(text)) = Up THEN Nowhere ELSE Unsaid
  <2> HIDE DEF text
  <2>1. last \in BOOLEAN /\ (last <=> (follow \/ Tail(rest) # <<>>))
    OBVIOUS
  <2> HIDE DEF last, follow
  <2>2. ASSUME Plain(Read(text))
        PROVE  Meaning(World, InImage(at), rest, follow)
                 = Meaning(World, Base(text, at), Read(text) \o Tail(rest), follow)
    BY <1>2, <1>6, <2>1, <2>2, MeaningOfTurn
  <2>3. ASSUME ~Plain(Read(text))
        PROVE  Meaning(World, InImage(at), rest, follow).place
                 = IF Head(Read(text)) = Up THEN Nowhere ELSE Unsaid
    BY <1>2, <1>6, <2>1, <2>3, MeaningOfNoPath
  <2> QED BY <2>2, <2>3 DEF Left, follow
<1> HIDE DEF text
<1> QED BY <1>1, <1>2, <1>4, <1>5, <1>7, ProcessLinkKeeps

\* A link that is followed is replaced by its text.
LEMMA FollowLinkKeeps == ASSUME MInv, Told, Onward, FollowLink, IInv' PROVE MInv'
<1> DEFINE follow == Follows(call.op)
           text == link[Found]
           last == follow \/ Tail(rest) # <<>>
<1>1. Walking /\ Over = None /\ HasEntry /\ ToBeFollowed /\ ProcessLink(text, Tail(rest), Found)
  BY DEF FollowLink
<1>2. /\ pc = "walk" /\ rest \in Names /\ rest # <<>> /\ at \in Node /\ World \in Worlds
      /\ World.points = points /\ World.link = link
      /\ Head(rest) \in Name \cup {Home} /\ Tail(rest) \in Names /\ follow \in BOOLEAN
      /\ InImage(at).kind = "node" /\ InImage(at).node = at
  BY <1>1, NextName
<1>3. Found \in Link /\ Found \in Node /\ link \in [Link -> Text]
  BY <1>1 DEF ToBeFollowed, Node, MInv, IInv, TypeOK
<1>4. text \in Text
  BY <1>3
<1>5. text \in [abs : BOOLEAN, names : Written] /\ (text.abs \/ text.names # <<>>)
  BY <1>4, TextAssumption, MeaningAssumption
<1>6. last = TRUE
  <2>1. Len(rest) > 1 \/ follow
    BY <1>1 DEF ToBeFollowed
  <2>2. Len(rest) > 1 <=> Tail(rest) # <<>>
    BY <1>2, NamesFacts
  <2> QED BY <2>1, <2>2
<1>7. GoesOn(World, at, Head(rest), last, text, last)
  <2> HIDE DEF text
  <2>1. World.points[<<InImage(at).node, Head(rest)>>] = None /\ Entry[InImage(at).node][Head(rest)] = Found
        /\ World.link[Found] = text /\ at \in Dir /\ Head(rest) \in DOMAIN Entry[at]
    BY <1>1, <1>2 DEF Over, Found, HasEntry, text
  <2>2. GoesOn(World, at, Head(rest), TRUE, text, TRUE)
    BY <1>2, <1>3, <2>1 DEF GoesOn, Lookup
  <2> HIDE DEF last
  <2> QED BY <1>6, <2>2
<1>8. /\ Plain(Read(text)) => Left = Meaning(World, Base(text, at), Read(text) \o Tail(rest), follow)
      /\ ~Plain(Read(text)) => Left.place = IF Head(Read(text)) = Up THEN Nowhere ELSE Unsaid
  <2> HIDE DEF text
  <2>1. last \in BOOLEAN /\ (last <=> (follow \/ Tail(rest) # <<>>))
    OBVIOUS
  <2> HIDE DEF last, follow
  <2>2. ASSUME Plain(Read(text))
        PROVE  Meaning(World, InImage(at), rest, follow)
                 = Meaning(World, Base(text, at), Read(text) \o Tail(rest), follow)
    BY <1>2, <1>7, <2>1, <2>2, MeaningOfTurn
  <2>3. ASSUME ~Plain(Read(text))
        PROVE  Meaning(World, InImage(at), rest, follow).place
                 = IF Head(Read(text)) = Up THEN Nowhere ELSE Unsaid
    BY <1>2, <1>7, <2>1, <2>3, MeaningOfNoPath
  <2> QED BY <2>2, <2>3 DEF Left, follow
<1> HIDE DEF text
<1> QED BY <1>1, <1>2, <1>3, <1>5, <1>8, ProcessLinkKeeps

\* A mounted image is entered at its root.
LEMMA CrossToImageKeeps == ASSUME MInv, Onward, CrossToImage, IInv' PROVE MInv'
<1> DEFINE last == Follows(call.op) \/ Tail(rest) # <<>>
           next == RootOf[Over.index]
<1>1. Walking /\ Over # None /\ Over.kind = "image" /\ Go(next, Tail(rest), next) /\ nested' = nested
  BY DEF CrossToImage
<1>2. /\ World.points = points /\ InImage(at).kind = "node" /\ InImage(at).node = at
      /\ Head(rest) \in Name \cup {Home}
  BY <1>1, NextName
<1>3. Over \in Point
  BY <1>1, OverFacts DEF MInv
<1>4. next \in Node
  BY <1>1, <1>3, TreeFacts DEF Point, Node
<1>5. LeadsTo(World, InImage(at), Head(rest), last, Way(InImage(next), FALSE))
  <2>1. World.points[<<InImage(at).node, Head(rest)>>] = Over
    BY <1>2 DEF Over
  <2> HIDE DEF last
  <2> QED BY <1>1, <1>2, <2>1 DEF LeadsTo, Lookup
<1>6. last \in BOOLEAN /\ (last <=> (Follows(call.op) \/ Tail(rest) # <<>>))
  BY DEF Follows
<1> HIDE DEF last, next
<1> QED BY <1>1, <1>4, <1>5, <1>6, StepKeeps

\* A name that is neither leads down.
LEMMA DescendKeeps == ASSUME MInv, Onward, Descend, IInv' PROVE MInv'
<1> DEFINE last == Follows(call.op) \/ Tail(rest) # <<>>
<1>1. Walking /\ Over = None /\ HasEntry /\ ~ToBeFollowed /\ Go(Found, Tail(rest), Found) /\ nested' = nested
  BY DEF Descend
<1>2. /\ World.points = points /\ InImage(at).kind = "node" /\ InImage(at).node = at /\ rest \in Names /\ rest # <<>>
      /\ Head(rest) \in Name \cup {Home}
  BY <1>1, NextName
<1>3. Found \in Node
  BY <1>1, WalkingFacts DEF MInv
<1>4. ~(Found \in Link /\ last)
  <2>1. Len(rest) > 1 <=> Tail(rest) # <<>>
    BY <1>2, NamesFacts
  <2> QED BY <1>1, <2>1 DEF ToBeFollowed
<1>5. LeadsTo(World, InImage(at), Head(rest), last, Way(InImage(Found), FALSE))
  <2>1. World.points[<<InImage(at).node, Head(rest)>>] = None /\ Entry[InImage(at).node][Head(rest)] = Found
        /\ at \in Dir /\ Head(rest) \in DOMAIN Entry[at]
    BY <1>1, <1>2 DEF Over, Found, HasEntry
  <2> HIDE DEF last
  <2> QED BY <1>2, <1>4, <2>1 DEF LeadsTo, Lookup
<1>6. last \in BOOLEAN /\ (last <=> (Follows(call.op) \/ Tail(rest) # <<>>))
  BY DEF Follows
<1> HIDE DEF last
<1> QED BY <1>1, <1>3, <1>5, <1>6, StepKeeps

\* A name that is not there leads nowhere.
LEMMA NoEntryKeeps == ASSUME MInv, Onward, NoEntry, IInv' PROVE MInv'
<1> DEFINE follow == Follows(call.op)
           last == follow \/ Tail(rest) # <<>>
<1>1. Walking /\ Over = None /\ ~HasEntry /\ Finish(Error)
  BY DEF NoEntry
<1>2. /\ pc = "walk" /\ World \in Worlds /\ World.points = points /\ InImage(at).kind = "node" /\ InImage(at).node = at
      /\ rest \in Names /\ rest # <<>> /\ Tail(rest) \in Names /\ follow \in BOOLEAN /\ at \in Node
      /\ Head(rest) \in Name \cup {Home} /\ nested \in BOOLEAN /\ CallMeans = Then(Way(InImage(at), nested), Left)
      /\ InImage(at) \in Meanings /\ Nowhere \in Meanings
  BY <1>1, NextName, MeaningTypes
<1>3. LeadsTo(World, InImage(at), Head(rest), last, Way(Nowhere, FALSE))
  <2>1. World.points[<<InImage(at).node, Head(rest)>>] = None /\ ~(at \in Dir /\ Head(rest) \in DOMAIN Entry[at])
    BY <1>1, <1>2 DEF Over, HasEntry
  <2> HIDE DEF last
  <2> QED BY <1>2, <2>1 DEF LeadsTo, Lookup
<1>4. Left = Then(Way(Nowhere, FALSE), Meaning(World, Nowhere, Tail(rest), follow))
  <2>1. last \in BOOLEAN /\ (last <=> (follow \/ Tail(rest) # <<>>))
    OBVIOUS
  <2> DEFINE first == Way(Nowhere, FALSE)
  <2>2. LeadsTo(World, InImage(at), Head(rest), last, first) /\ first.place = Nowhere
    BY <1>3 DEF Way
  <2> HIDE DEF follow, last, first
  <2>3. Meaning(World, InImage(at), rest, follow) = Then(first, Meaning(World, Nowhere, Tail(rest), follow))
    BY <1>2, <2>1, <2>2, MeaningOfStep
  <2> QED BY <2>3 DEF Left, follow, first
<1>5. Left = Way(Nowhere, FALSE)
  <2>1. Meaning(World, Nowhere, Tail(rest), follow) = Way(Nowhere, FALSE)
    <3>1. Nowhere.kind \notin {"host", "node"}
      BY DEF Nowhere
    <3> QED BY <1>2, <3>1, MeaningOfNowhere
  <2>2. Then(Way(Nowhere, FALSE), Way(Nowhere, FALSE)) = Way(Nowhere, FALSE)
    BY DEF Then, Way
  <2> QED BY <1>4, <2>1, <2>2
<1>6. CallMeans.place = Nowhere
  BY <1>2, <1>5 DEF Then, Way
<1>7. Visible(CallMeans.place) = Nowhere
  BY <1>6 DEF Visible
<1>8. Error.ret = "error"
  BY DEF Error
<1> QED BY <1>1, <1>2, <1>7, <1>8, FinishReturns

\* A walk ends where the path means.
LEMMA ArriveKeeps == ASSUME MInv, Onward, Arrive, IInv' PROVE MInv'
<1>1. pc = "walk" /\ rest = <<>> /\ Finish(Continue(seen)) /\ IInv
  <2>1. rest # <<>> => Head(rest) # Slash
    BY WordFacts DEF Onward, Plain
  <2> QED BY <2>1 DEF Arrive, Walking, MInv
<1>2. seen = at /\ at \in Node /\ CallMeans = Then(Way(InImage(at), nested), Left)
  BY <1>1, LeftTyped DEF MInv, Onward
<1>3. Left = Way(InImage(at), FALSE)
  BY <1>1, LeftTyped, MeaningOfNothing DEF Left, Onward
<1>4. CallMeans.place = InImage(seen)
  BY <1>2, <1>3 DEF Then, Way
<1>5. Continue(seen).ret = "continue" /\ Continue(seen).st = seen
  BY DEF Continue
<1> QED BY <1>1, <1>2, <1>4, <1>5, FinishReturns

\* Nothing is found under "..": no mount point, and no entry.
LEMMA ClimbingFails == ASSUME MInv, Climbing, Walk, IInv' PROVE MInv'
<1>1. Up \notin Name \cup {Home} /\ Up # Slash
  BY WordAssumption
<1>2. rest # <<>> /\ Head(rest) = Up
  BY DEF Climbing
<1>3. Over = None /\ ~HasEntry
  BY <1>1, <1>2, TreeAssumption DEF Over, HasEntry
<1>4. pc = "walk" /\ Finish(Error)
  BY <1>1, <1>2, <1>3 DEF Walk, CrossToPath, CrossToImage, NoEntry, Descend, FollowLink, Arrive, Walking
<1>5. Error.ret = "error" /\ Visible(CallMeans.place) = Nowhere
  BY DEF Error, Visible, Climbing
<1> QED BY <1>4, <1>5, FinishReturns

\* Nothing is claimed of a call of which nothing is said.
LEMMA UntoldWalks == ASSUME MInv, ~Told, Walk, IInv' PROVE MInv'
<1>1. /\ link' = link /\ points' = points /\ call' = call /\ asked' = asked
      /\ pc' \in {"walk", "reply"}
  BY DEF Walk, CrossToPath, CrossToImage, NoEntry, Descend, FollowLink, Arrive, Walking, ProcessLink,
     AbsoluteLink, Go, Finish
<1>2. ~Told'
  BY <1>1, CallMeansKept
<1>3. Asked'
  BY <1>1 DEF MInv, Asked
<1> QED BY <1>1, <1>2, <1>3 DEF MInv, OnTheWay, Returned, Answered, FollowingCallsFindTheFile,
     OpenedFilesAreInTheImage, LastNameIsKept

\* A step of the loop is on the way to what the path meant.
LEMMA WalkKeeps == ASSUME MInv, Walk PROVE MInv'
<1>1. IInv'
  BY WalkInv DEF MInv
<1>2. CASE ~Told
  BY <1>1, <1>2, UntoldWalks
<1>3. CASE Told /\ Climbing
  BY <1>1, <1>3, ClimbingFails
<1>4. CASE Told /\ Onward
  BY <1>1, <1>4, CrossToPathKeeps, CrossToImageKeeps, NoEntryKeeps, DescendKeeps, FollowLinkKeeps, ArriveKeeps
     DEF Walk
<1>5. Told => Onward \/ Climbing
  <2>1. pc = "walk"
    BY DEF Walk, CrossToPath, CrossToImage, NoEntry, Descend, FollowLink, Arrive, Walking
  <2> QED BY <2>1 DEF MInv, OnTheWay
<1> QED BY <1>2, <1>3, <1>4, <1>5

\* A walk starts with the whole path before it.
LEMMA StartKeeps ==
  ASSUME MInv, IInv', NEW from \in Node, NEW names \in Written, Start(from, names),
         call' \in Call, call'.from = from, call'.names = names,
         call'.op = "mount" => call'.to \in Points /\ from = RootOf[0]
  PROVE  MInv'
<1>1. /\ pc' = "walk" /\ at' = from /\ rest' = names /\ seen' = from
      /\ link' = link /\ points' = points /\ nested' = FALSE
  BY DEF Start, MInv, IInv, TypeOK, Unfollowed
<1>2. Asked'
  BY <1>1 DEF MInv, Asked
<1>3. OnTheWay'
  <2> SUFFICES ASSUME Told' PROVE Onward'
    BY DEF OnTheWay
  <2>0. names \in Names
    BY DEF Told, Plain
  <2> DEFINE way == Meaning(World, InImage(from), names, Follows(call'.op))
  <2>1. World' = World
    BY <1>1 DEF World
  <2>2. CallMeans' = way /\ Left' = way
    BY <1>1, <2>1 DEF CallMeans, Meant, Left
  <2>3. way \in Ways
    <3>1. World \in Worlds /\ InImage(from) \in Meanings /\ names \in Names /\ Follows(call'.op) \in BOOLEAN
      BY <2>0, WorldTyped, MeaningTypes DEF MInv, IInv, Follows
    <3> QED BY <3>1, MeaningType
  <2> HIDE DEF way
  <2>4. CallMeans' = Then(Way(InImage(from), FALSE), Left')
    BY <2>2, <2>3, ThenFacts
  <2> QED BY <1>1, <2>0, <2>4 DEF Onward, Plain
<1>4. Returned'
  BY <1>1 DEF Returned
<1>5. Answered'
  BY <1>1 DEF Answered, FollowingCallsFindTheFile, OpenedFilesAreInTheImage, LastNameIsKept
<1> QED BY <1>2, <1>3, <1>4, <1>5 DEF MInv

\* A call that starts is on the way to what its path means.
LEMMA StartsKeep ==
  ASSUME MInv,
         \/ \E op \in Op \ {"mount"}, names \in Path : StartAtRoot(op, names)
         \/ \E op \in Op \ {"mount"}, dir \in OpenDir, names \in RawPath : StartAtDir(op, dir, names)
         \/ \E parent \in Parent, name \in MountName, to \in Points : StartMount(parent, name, to)
  PROVE  MInv'
<1>0. IInv'
  BY StartsInv DEF MInv
<1>1. CASE \E op \in Op \ {"mount"}, names \in Path : StartAtRoot(op, names)
  <2>1. PICK op \in Op \ {"mount"}, names \in Path : StartAtRoot(op, names)
    BY <1>1
  <2> DEFINE c == [op |-> op, rel |-> FALSE, from |-> RootOf[0], names |-> names]
  <2>2. c \in Call
    BY TextAssumption, TreeFacts DEF Call
  <2>3. Start(RootOf[0], names) /\ call' = c
    BY <2>1 DEF StartAtRoot
  <2>4. RootOf[0] \in Node /\ names \in Written
    BY TextAssumption, TreeFacts DEF Node
  <2>5. QED
    BY <1>0, <2>2, <2>3, <2>4, StartKeeps
<1>2. CASE \E op \in Op \ {"mount"}, dir \in OpenDir, names \in RawPath : StartAtDir(op, dir, names)
  <2>1. PICK op \in Op \ {"mount"}, dir \in OpenDir, names \in RawPath : StartAtDir(op, dir, names)
    BY <1>2
  <2> DEFINE c == [op |-> op, rel |-> TRUE, from |-> dir, names |-> names]
  <2>2. c \in Call
    BY TextAssumption DEF Call
  <2>3. Start(dir, names) /\ call' = c
    BY <2>1 DEF StartAtDir
  <2>4. dir \in Node /\ names \in Written
    BY TextAssumption, TreeFacts DEF Node
  <2>5. QED
    BY <1>0, <2>2, <2>3, <2>4, StartKeeps
<1>3. CASE \E parent \in Parent, name \in MountName, to \in Points : StartMount(parent, name, to)
  <2>1. PICK parent \in Parent, name \in MountName, to \in Points : StartMount(parent, name, to)
    BY <1>3
  <2> DEFINE c == [op |-> "mount", rel |-> TRUE, from |-> RootOf[0], names |-> parent,
                   name |-> name, to |-> to]
  <2>2. c \in Call
    BY TextAssumption, TreeFacts DEF Call, Op
  <2>3. Start(RootOf[0], parent) /\ call' = c
    BY <2>1 DEF StartMount
  <2>4. RootOf[0] \in Node /\ parent \in Written
    BY TextAssumption, TreeFacts DEF Node
  <2>5. QED
    BY <1>0, <2>2, <2>3, <2>4, StartKeeps
<1>4. QED
  BY <1>1, <1>2, <1>3

\* The answers, by what find_inode_abs returned.
Given == CASE res.ret \in {"error", "memory"} -> [what |-> res.ret]
           [] res.ret = "outside" -> HostAnswer
           [] res.ret = "continue" -> NodeAnswer

\* What the answer shows is what the path meant, of a call that follows and of one that does not.
LEMMA AnswerFits ==
  ASSUME MInv, Told, pc = "reply", call.op # "mount", NEW answer,
         answer = Given
  PROVE  /\ Follows(call.op) /\ answer.what # "memory" => Shown(answer) = Visible(CallMeans.place)
         /\ call.op = "open" /\ answer.what = "node" =>
              answer.node \in Node \/ (CallMeans.jumps /\ CallMeans.place.kind = "host")
         /\ ~Follows(call.op) /\ answer.what # "memory" /\ ~CallMeans.jumps =>
              /\ answer.what # "error" => Shown(answer) = Visible(CallMeans.place)
              /\ answer.what = "error" => \/ Visible(CallMeans.place) = Nowhere
                                          \/ call.op = "readlink" /\ ~MeansALink
                                          \/ call.op = "open_nofollow" /\ MeansALink
              /\ answer.what = "host" => ~answer.follow \/ (call.rel /\ call.op = "lstat")
<1>1. res \in Result /\ (nested => Follows(call.op))
  BY DEF MInv, IInv, TypeOK, Unfollowed
<1>2. res.ret \in {"error", "memory", "outside", "continue"}
  BY <1>1 DEF Result
<1>3. CASE res.ret = "memory"
  <2>1. answer = [what |-> "memory"]
    BY <1>3 DEF Given
  <2>2. answer.what = "memory"
    BY <2>1
  <2> QED BY <2>2
<1>4. CASE res.ret = "error"
  <2>1. Visible(CallMeans.place) = Nowhere
    BY <1>4 DEF MInv, Returned
  <2>2. answer = [what |-> "error"]
    BY <1>4 DEF Given
  <2>3. Shown(answer) = Nowhere
    BY <2>2 DEF Shown
  <2> QED BY <2>1, <2>2, <2>3
<1>5. CASE res.ret = "outside"
  <2>1. CallMeans.place = AtHost(res.lnk)
    BY <1>5 DEF MInv, Returned, Way
  <2>2. answer = OfHost(res.lnk, Follows(call.op) \/ (call.rel /\ call.op = "lstat"))
    BY <1>5 DEF Given, HostAnswer
  <2>3. answer.what = "host" /\ answer.path = res.lnk
        /\ answer.follow = (Follows(call.op) \/ (call.rel /\ call.op = "lstat"))
    BY <2>2 DEF OfHost
  <2>4. Shown(answer) = IF res.lnk \in HostPath THEN AtHost(res.lnk) ELSE Nowhere
    BY <2>3 DEF Shown
  <2>5. Visible(AtHost(res.lnk)) = IF res.lnk \in HostPath THEN AtHost(res.lnk) ELSE Nowhere
    BY DEF Visible, AtHost, Loop
  <2> QED BY <2>1, <2>3, <2>4, <2>5
<1>6. CASE res.ret = "continue"
  <2>1. answer = NodeAnswer
    BY <1>6 DEF Given
  <2>2. FoundNode \/ FoundOnHost \/ KeptLink
    BY <1>6 DEF MInv, Returned
  <2>3. CASE FoundNode
    <3>1. res.st \in Node /\ CallMeans.place = InImage(res.st)
      BY <2>3 DEF FoundNode
    <3>2. Visible(InImage(res.st)) = InImage(res.st)
      BY DEF Visible, InImage, Loop
    <3>3. MeansALink <=> res.st \in Link
      <4>1. \A m, n : InImage(m) = InImage(n) => m = n
        BY DEF InImage
      <4> QED BY <3>1, <4>1 DEF MeansALink
    <3>4. CASE Refused
      <4>1. answer = [what |-> "error"]
        BY <2>1, <3>4 DEF NodeAnswer
      <4>2. /\ ~Follows(call.op) /\ call.op # "open"
            /\ \/ call.op = "readlink" /\ ~MeansALink
               \/ call.op = "open_nofollow" /\ MeansALink
        BY <3>3, <3>4 DEF Refused, Follows
      <4> QED BY <4>1, <4>2
    <3>5. CASE ~Refused
      <4>1. answer = [what |-> "node", node |-> res.st]
        BY <2>1, <3>5 DEF NodeAnswer
      <4>2. Shown(answer) = InImage(res.st)
        BY <3>1, <4>1 DEF Shown
      <4>3. answer.what = "node" /\ answer.node \in Node
        BY <3>1, <4>1
      <4> QED BY <3>1, <3>2, <4>2, <4>3
    <3> QED BY <3>4, <3>5
  <2>4. CASE FoundOnHost
    <3>1. PICK path \in HostPath : res.st = [host |-> path] /\ CallMeans = Way(AtHost(path), TRUE)
      BY <2>4 DEF FoundOnHost
    <3>2. Follows(call.op)
      BY <1>1, <2>4 DEF FoundOnHost
    <3>3. answer = [what |-> "node", node |-> [host |-> path]]
      BY <2>1, <3>1, <3>2 DEF NodeAnswer, Refused, Follows
    <3>4. Shown(answer) = AtHost(path)
      <4>1. [host |-> path] \notin Node /\ answer.what = "node" /\ answer.node = [host |-> path]
        BY <3>3, MeaningAssumption
      <4> QED BY <4>1 DEF Shown
    <3>5. Visible(CallMeans.place) = AtHost(path) /\ CallMeans.jumps /\ CallMeans.place.kind = "host"
      BY <3>1 DEF Visible, AtHost, Loop, Way
    <3> QED BY <3>2, <3>4, <3>5
  <2>5. CASE KeptLink
    BY <2>5 DEF KeptLink, Follows
  <2> QED BY <2>2, <2>3, <2>4, <2>5
<1> QED BY <1>2, <1>3, <1>4, <1>5, <1>6

\* An answer keeps the invariant.
LEMMA ReplyKeeps == ASSUME MInv, Reply PROVE MInv'
<1> DEFINE answer == Given
<1>1. /\ pc = "reply" /\ call.op # "mount" /\ pc' = "done" /\ ans' = answer
      /\ link' = link /\ points' = points /\ call' = call
  BY DEF Reply, Done, Given
<1>2. CallMeans' = CallMeans /\ Told' = Told /\ MeansALink' = MeansALink
  BY <1>1, CallMeansKept DEF MeansALink
<1>3. IInv'
  BY ReplyInv DEF MInv
<1>4. Asked' /\ OnTheWay' /\ Returned'
  BY <1>1 DEF MInv, Asked, OnTheWay, Returned
<1>5. CASE ~Told
  BY <1>2, <1>3, <1>4, <1>5 DEF MInv, Answered, FollowingCallsFindTheFile, OpenedFilesAreInTheImage,
     LastNameIsKept
<1>6. CASE Told
  <2> HIDE DEF answer
  <2>1. /\ Follows(call.op) /\ answer.what # "memory" => Shown(answer) = Visible(CallMeans.place)
        /\ call.op = "open" /\ answer.what = "node" =>
              answer.node \in Node \/ (CallMeans.jumps /\ CallMeans.place.kind = "host")
        /\ ~Follows(call.op) /\ answer.what # "memory" /\ ~CallMeans.jumps =>
              /\ answer.what # "error" => Shown(answer) = Visible(CallMeans.place)
              /\ answer.what = "error" => \/ Visible(CallMeans.place) = Nowhere
                                          \/ call.op = "readlink" /\ ~MeansALink
                                          \/ call.op = "open_nofollow" /\ MeansALink
              /\ answer.what = "host" => ~answer.follow \/ (call.rel /\ call.op = "lstat")
    BY <1>1, <1>6, AnswerFits DEF answer
  <2>2. Shown(ans)' = Shown(answer) /\ Visible(CallMeans.place)' = Visible(CallMeans.place)
    BY <1>1, <1>2 DEF Shown, Visible
  <2>3. FollowingCallsFindTheFile'
    BY <1>1, <2>1, <2>2 DEF FollowingCallsFindTheFile
  <2>4. OpenedFilesAreInTheImage'
    BY <1>1, <1>2, <2>1 DEF OpenedFilesAreInTheImage
  <2>5. LastNameIsKept'
    BY <1>1, <1>2, <2>1, <2>2 DEF LastNameIsKept
  <2> QED BY <1>3, <1>4, <2>3, <2>4, <2>5 DEF Answered, MInv
<1> QED BY <1>5, <1>6

\* The end of a mount keeps the invariant: no walk is under way then.
LEMMA MountKeeps == ASSUME MInv, Mount \/ MountTaken \/ MountThrows PROVE MInv'
<1>1. IInv'
  BY MountInv DEF MInv
<1>2. /\ pc = "reply" /\ pc' = "done" /\ call.op = "mount" /\ call' = call /\ call # None
  BY DEF Mount, MountTaken, MountThrows, Done, MInv, IInv, TypeOK
<1>3. Asked'
  <2>1. CASE Mount
    <3>1. points' = [points EXCEPT ![<<res.st, call.name>>] = call.to]
      BY <2>1 DEF Mount
    <3>2. call.to \in Points /\ call.from = RootOf[0]
      BY <1>2 DEF MInv, Asked
    <3>3. \A p \in DOMAIN points' : points'[p] \in Points \cup {None}
      BY <3>1, <3>2 DEF MInv, Asked
    <3> QED BY <1>2, <3>2, <3>3 DEF Asked
  <2>2. CASE MountTaken \/ MountThrows
    BY <1>2, <2>2 DEF MountTaken, MountThrows, MInv, Asked
  <2> QED BY <2>1, <2>2
<1>4. OnTheWay' /\ Returned'
  BY <1>2 DEF OnTheWay, Returned
<1>5. Answered'
  BY <1>2 DEF Answered, FollowingCallsFindTheFile, OpenedFilesAreInTheImage, LastNameIsKept, Follows
<1> QED BY <1>1, <1>3, <1>4, <1>5 DEF MInv

\* The return to the program keeps the invariant.
LEMMA ReturnKeeps == ASSUME MInv, Return PROVE MInv'
<1>1. IInv'
  BY ReturnInv DEF MInv
<1>2. pc' = "idle" /\ call' = None /\ points' = points
  BY DEF Return
<1> QED BY <1>1, <1>2 DEF MInv, Asked, OnTheWay, Returned, Answered, FollowingCallsFindTheFile,
     OpenedFilesAreInTheImage, LastNameIsKept

\* Nothing happens.
LEMMA StutterKeeps == ASSUME MInv, UNCHANGED vars PROVE MInv'
<1>1. /\ link' = link /\ points' = points /\ pc' = pc /\ call' = call /\ nested' = nested /\ at' = at
      /\ rest' = rest /\ seen' = seen /\ res' = res /\ ans' = ans
  BY DEF vars
<1>2. IInv'
  BY NextInv DEF MInv
<1>3. CallMeans' = CallMeans /\ Told' = Told /\ World' = World
  BY <1>1, CallMeansKept DEF World
<1>4. Left' = Left
  BY <1>1, <1>3 DEF Left
<1>5. Asked' /\ OnTheWay'
  BY <1>1, <1>3, <1>4 DEF MInv, Asked, OnTheWay, Onward, Climbing, Plain
<1>6. Returned'
  BY <1>1, <1>3 DEF MInv, Returned, FoundNode, FoundOnHost, KeptLink, Visible
<1>7. Answered'
  BY <1>1, <1>3 DEF MInv, Answered, FollowingCallsFindTheFile, OpenedFilesAreInTheImage, LastNameIsKept,
     MeansALink, Shown, Visible
<1> QED BY <1>2, <1>5, <1>6, <1>7 DEF MInv

\* No call has started.
LEMMA MeaningInit == Init => MInv
<1> SUFFICES ASSUME Init PROVE MInv
  OBVIOUS
<1>1. IInv
  BY InitInv
<1>2. pc = "idle" /\ call = None /\ \A p \in DOMAIN points : points[p] = None
  BY DEF Init, NoCall
<1> QED BY <1>1, <1>2 DEF MInv, Asked, OnTheWay, Returned, Answered, FollowingCallsFindTheFile,
     OpenedFilesAreInTheImage, LastNameIsKept

\* Every step keeps the invariant.
LEMMA MeaningKept == MInv /\ [Next]_vars => MInv'
<1> SUFFICES ASSUME MInv, [Next]_vars PROVE MInv'
  OBVIOUS
<1>1. CASE UNCHANGED vars
  BY <1>1, StutterKeeps
<1>2. CASE Next
  <2>1. \/ \E op \in Op \ {"mount"}, names \in Path : StartAtRoot(op, names)
        \/ \E op \in Op \ {"mount"}, dir \in OpenDir, names \in RawPath : StartAtDir(op, dir, names)
        \/ \E parent \in Parent, name \in MountName, to \in Points : StartMount(parent, name, to)
        \/ Walk \/ Reply \/ Mount \/ MountTaken \/ MountThrows \/ Return
    BY <1>2 DEF Next, Op
  <2>2. QED
    BY <2>1, StartsKeep, WalkKeeps, ReplyKeeps, MountKeeps, ReturnKeeps
<1>3. QED
  BY <1>1, <1>2

\* The invariant holds at all times.
LEMMA MeaningHolds == Spec => []MInv
BY MeaningInit, MeaningKept, PTL DEF Spec

\* Whatever the code has made of a path, what is left of it means what the path of the
\* call meant: for every tree, every mount table and every link, those in circles and
\* those with ".." too, whose text means what it means when it is made normal by itself.
THEOREM WalkMeansWhatTheCallMeant == Spec => []WalksKeepTheMeaning
<1>1. MInv => WalksKeepTheMeaning
  <2> SUFFICES ASSUME MInv, pc = "walk", Follows(call.op), Told
               PROVE  IF Plain(rest) THEN Meant(at, rest, TRUE).place = CallMeans.place
                      ELSE Head(rest) = Up /\ CallMeans.place = Nowhere
    BY DEF WalksKeepTheMeaning
  <2>1. CASE Onward
    <3>1. CallMeans.place = Left.place
      BY <2>1, ThenFacts DEF Onward
    <3>2. Follows(call.op) = TRUE
      BY DEF Follows
    <3>3. Left = Meant(at, rest, TRUE)
      BY <3>2 DEF Left, Meant
    <3> QED BY <2>1, <3>1, <3>3 DEF Onward
  <2>2. CASE Climbing
    <3>1. ~Plain(rest)
      BY <2>2, WordFacts DEF Climbing, Plain
    <3> QED BY <2>2, <3>1 DEF Climbing
  <2> QED BY <2>1, <2>2 DEF MInv, OnTheWay
<1> QED BY <1>1, MeaningHolds, PTL

\* stat, access and open answer for what the path means, and with ENOENT where a text that
\* begins with ".." is on the way.
THEOREM FollowedPathsAreFound == Spec => []FollowingCallsFindTheFile
<1>1. MInv => FollowingCallsFindTheFile
  BY DEF MInv, Answered
<1> QED BY <1>1, MeaningHolds, PTL

\* What is opened is in an image, but for the way through the image and out of it.
THEOREM OpenedFilesHaveInodes == Spec => []OpenedFilesAreInTheImage
<1>1. MInv => OpenedFilesAreInTheImage
  BY DEF MInv, Answered
<1> QED BY <1>1, MeaningHolds, PTL

\* lstat, readlink and open with O_NOFOLLOW answer for the last name itself.
THEOREM LastNamesAreKept == Spec => []LastNameIsKept
<1>1. MInv => LastNameIsKept
  BY DEF MInv, Answered
<1> QED BY <1>1, MeaningHolds, PTL

\* What was mounted last does not change unless something is mounted.
LEMMA EffectStays ==
  ASSUME MountsTakeEffect, link' = link, points' = points, asked' = asked
  PROVE  MountsTakeEffect'
<1>1. World' = World /\ Before' = Before
  BY DEF World, Before
<1> QED BY <1>1 DEF MountsTakeEffect, Meant

\* The folder of a mount point that was found is the one that its path meant.
LEMMA FolderFound ==
  ASSUME MInv, Mount, Told
  PROVE  /\ ~CallMeans.jumps => res.st \in Node /\ CallMeans.place = InImage(res.st)
         /\ CallMeans = Meaning(World, InImage(RootOf[0]), call.names, FALSE)
         /\ call.names \in Names /\ call.name \in Name /\ call.to \in Point /\ call.to \in Points
<1>1. /\ pc = "reply" /\ res.ret = "continue" /\ call # None /\ call.op = "mount" /\ call \in Call
  BY DEF Mount, MInv, IInv, TypeOK
<1>2. ~Follows(call.op) /\ Follows(call.op) = FALSE
  BY <1>1 DEF Follows
<1>3. ~nested
  BY <1>2 DEF MInv, IInv, Unfollowed
<1>4. ~CallMeans.jumps => FoundNode
  BY <1>1, <1>3 DEF MInv, Returned, FoundOnHost, KeptLink
<1>5. call.from = RootOf[0] /\ call.to \in Points
  BY <1>1 DEF MInv, Asked
<1>6. call.names \in Names /\ call.name \in Name /\ call.to \in Point
  BY <1>1 DEF Call, Told, Plain
<1> QED BY <1>2, <1>4, <1>5, <1>6 DEF FoundNode, CallMeans, Meant

\* What is mounted over a name is found there.
LEMMA MountedIsFound ==
  ASSUME NEW world \in Worlds, NEW node \in Node, NEW name \in Name, NEW to \in Point, to \in Points,
         world.points[<<node, name>>] = to, to.kind = "path" => Plain(Read(to.path))
  PROVE  Meaning(world, InImage(node), <<name>>, TRUE).place
           = IF to.kind = "image" THEN InImage(RootOf[to.index])
             ELSE Meaning(world, IF to.path.abs THEN AtHost(<<>>) ELSE InImage(node), Read(to.path), TRUE).place
<1>1. InImage(node) \in Meanings /\ name \in Name \cup {Home} /\ to # None
  BY MeaningTypes, NoneAssumption
<1>2. Meaning(world, InImage(node), <<name>>, TRUE) = Lookup(world, Best(world), InImage(node), name, TRUE)
  BY <1>1, BestWays, AlongOne DEF Meaning, Best
<1>3. \A d : Lookup(world, d, InImage(node), name, TRUE)
               = IF to.kind = "image" THEN Way(InImage(RootOf[to.index]), FALSE)
                 ELSE Behind(d, to.path, InImage(node), TRUE)
  BY <1>1 DEF Lookup, InImage
<1>4. CASE to.kind = "image"
  <2>1. Lookup(world, Best(world), InImage(node), name, TRUE) = Way(InImage(RootOf[to.index]), FALSE)
    BY <1>3, <1>4
  <2>2. Way(InImage(RootOf[to.index]), FALSE).place = InImage(RootOf[to.index])
    BY ThenFacts
  <2>3. Meaning(world, InImage(node), <<name>>, TRUE).place = InImage(RootOf[to.index])
    BY <1>2, <2>1, <2>2
  <2> QED BY <1>4, <2>3
<1>5. CASE to.kind # "image"
  <2>1. Plain(Read(to.path))
    BY <1>5 DEF Point
  <2>2. GoesOn(world, node, name, TRUE, to.path, TRUE)
    BY <1>3, <1>5 DEF GoesOn
  <2>3. Lookup(world, Best(world), InImage(node), name, TRUE)
          = Meaning(world, Base(to.path, node), Read(to.path), TRUE)
    <3> DEFINE text == to.path
               follow == TRUE
    <3>1. /\ Plain(Read(text)) /\ follow \in BOOLEAN
          /\ GoesOn(world, node, name, follow, text, follow)
      BY <2>1, <2>2
    <3> HIDE DEF text, follow
    <3>2. Lookup(world, Best(world), InImage(node), name, follow)
            = Meaning(world, Base(text, node), Read(text), follow)
      BY <1>1, <3>1, TurnMeaning
    <3> QED BY <3>2 DEF text, follow
  <2> QED BY <1>2, <1>5, <2>3 DEF Base
<1> QED BY <1>4, <1>5

\* A mount point that is made takes effect.
LEMMA MountTakesEffect == ASSUME MInv, Mount PROVE MountsTakeEffect'
<1> DEFINE top == InImage(RootOf[0])
           name == call.name
           names == call.names
           to == call.to
           folder == Meaning(World, top, names, FALSE)
           world == [link |-> link, points |-> points']
<1>1. /\ asked' = [names |-> names, name |-> name, to |-> to, before |-> points]
      /\ link' = link /\ points' = [points EXCEPT ![<<res.st, name>>] = to]
  BY DEF Mount, Done
<1>2. World' = world /\ Before' = World
  BY <1>1 DEF World, Before
<1>3. SUFFICES ASSUME Plain(names), to.kind = "path" => Plain(Read(to.path)),
                      ~folder.jumps, folder.place # Unsaid, folder = Meaning(World, top, names, TRUE),
                      folder = Meaning(world, top, names, TRUE)
               PROVE  Meaning(world, top, Append(names, name), TRUE).place
                        = IF to.kind = "image" THEN InImage(RootOf[to.index])
                          ELSE Meaning(world, IF to.path.abs THEN AtHost(<<>>) ELSE folder.place,
                                       Read(to.path), TRUE).place
  <2>1. /\ asked'.names = names /\ asked'.name = name /\ asked'.to = to
    BY <1>1
  <2> HIDE DEF world, folder, names, name, to
  <2> QED BY <1>2, <2>1 DEF MountsTakeEffect, Meant, folder, world
<1>4. /\ res.st \in Node /\ folder.place = InImage(res.st)
      /\ names \in Names /\ name \in Name /\ to \in Point /\ to \in Points
  <2>1. CallMeans = folder
    <3>1. call.op = "mount" /\ call # None
      BY DEF Mount, MInv, IInv, TypeOK
    <3>2. call.from = RootOf[0] /\ Follows(call.op) = FALSE
      BY <3>1 DEF MInv, Asked, Follows
    <3> QED BY <3>2 DEF CallMeans, Meant
  <2> HIDE DEF folder
  <2>2. Told
    BY <1>3, <2>1 DEF Told
  <2> QED BY <1>3, <2>1, <2>2, FolderFound
<1>5. world \in Worlds /\ top \in Meanings
  <2>1. IInv'
    BY MountInv DEF MInv
  <2>2. World' \in Worlds
    BY <2>1, WorldTyped DEF IInv, World, Worlds, TypeOK
  <2> QED BY <1>2, <2>2, TreeFacts, MeaningTypes DEF Node
<1>6. names \in Names /\ <<name>> \in Names /\ <<name>> # <<>> /\ Append(names, name) = names \o <<name>>
  BY <1>4 DEF Names
<1>7. world.points[<<res.st, name>>] = to
  BY <1>1, <1>4 DEF MInv, IInv, TypeOK
<1> HIDE DEF world, folder, names, name, to, top
<1>8. Meaning(world, top, names \o <<name>>, TRUE)
        = Then(folder, Meaning(world, folder.place, <<name>>, TRUE))
  <2> DEFINE first == Meaning(world, top, names, TRUE \/ <<name>> # <<>>)
  <2>1. first = folder
    BY <1>3
  <2>2. Meaning(world, top, names \o <<name>>, TRUE)
          = Then(first, Meaning(world, first.place, <<name>>, TRUE))
    BY <1>5, <1>6, MeaningOfBoth
  <2> QED BY <2>1, <2>2
<1>9. Meaning(world, top, names \o <<name>>, TRUE).place = Meaning(world, InImage(res.st), <<name>>, TRUE).place
  <2> DEFINE next == Meaning(world, InImage(res.st), <<name>>, TRUE)
  <2>1. Meaning(world, top, names \o <<name>>, TRUE) = Then(folder, next)
    BY <1>4, <1>8
  <2> HIDE DEF next
  <2>2. Then(folder, next).place = next.place
    BY ThenFacts
  <2> QED BY <2>1, <2>2 DEF next
<1>10. Meaning(world, InImage(res.st), <<name>>, TRUE).place
         = IF to.kind = "image" THEN InImage(RootOf[to.index])
           ELSE Meaning(world, IF to.path.abs THEN AtHost(<<>>) ELSE InImage(res.st), Read(to.path), TRUE).place
  BY <1>3, <1>4, <1>5, <1>7, MountedIsFound
<1> QED BY <1>4, <1>6, <1>9, <1>10

\* A step makes a mount point, or leaves the table and the links alone.
LEMMA EffectKept == MInv /\ MountsTakeEffect /\ [Next]_vars => MountsTakeEffect'
<1> SUFFICES ASSUME MInv, MountsTakeEffect, [Next]_vars PROVE MountsTakeEffect'
  OBVIOUS
<1>1. CASE Mount
  BY <1>1, MountTakesEffect
<1>2. CASE ~Mount
  <2>1. link' = link /\ points' = points /\ asked' = asked
    BY <1>2 DEF Next, vars, StartAtRoot, StartAtDir, StartMount, Start, Walk, CrossToPath, CrossToImage,
       NoEntry, Descend, FollowLink, Arrive, ProcessLink, AbsoluteLink, Go, Finish, Reply, Done,
       MountTaken, MountThrows, Return
  <2> QED BY <2>1, EffectStays
<1> QED BY <1>1, <1>2

\* A mount point that was accepted is on the way, for every tree and mount table: its path
\* means what was mounted there (process_mountpoints, and the loop of find_inode).
THEOREM MountPointsTakeEffect == Spec => []MountsTakeEffect
<1>1. Init => MountsTakeEffect
  BY DEF Init, MountsTakeEffect
<1> QED BY <1>1, MeaningHolds, EffectKept, PTL DEF Spec
================================================================================
