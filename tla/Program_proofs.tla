----------------------------- MODULE Program_proofs -----------------------------
(***************************************************************************)
(* Proofs about what a program is started with, CmdLine, for every vector  *)
(* of arguments, every list of mount rules and every package, and about    *)
(* what it then reads from a file, FilePos, for every size of the file and *)
(* of the integers.                                                        *)
(***************************************************************************)
EXTENDS CmdLine, FilePos, SequenceTheorems, FiniteSetTheorems, Induction

--------------------------------------------------------------------------------
(* The package descriptor: what is written is read.                          *)

\* The two bytes of a number below Wide, and the number they give.
LEMMA NumberFacts ==
  /\ Wide \in Nat \ {0}
  /\ \A n \in Nat : n % Wide \in 0 .. Wide - 1 /\ n % Wide <= n
  /\ \A n \in 0 .. Wide - 1 : /\ n % Base \in Byte /\ n \div Base \in Byte
                              /\ (n % Base) + Base * (n \div Base) = n
  /\ \A low, high \in Byte : low + Base * high \in 0 .. Wide - 1
<1>1. Wide \in Nat \ {0}
  BY ByteAssumption, SMTT(30) DEF Wide
<1>2. \A n \in Nat : n % Wide \in 0 .. Wide - 1 /\ n % Wide <= n
  <2> HIDE DEF Wide
  <2> QED BY <1>1, SMTT(30)
<1>3. ASSUME NEW n \in Nat
      PROVE n % Base \in Byte /\ n = Base * (n \div Base) + (n % Base) /\ n \div Base \in Nat
  BY ByteAssumption, SMTT(30) DEF Byte
<1>4. ASSUME NEW n \in 0 .. Wide - 1 PROVE n \div Base \in Byte
  <2> DEFINE q == n \div Base
  <2>1. n \in Nat
    BY <1>1
  <2>2. q \in Nat /\ Base * q <= n
    BY <1>3, <2>1, ByteAssumption DEF Byte
  <2>3. ASSUME q >= Base PROVE FALSE
    <3> HIDE DEF q
    <3>1. Base * q >= Base * Base
      BY <2>2, <2>3, ByteAssumption, SMTT(30)
    <3> QED BY <1>1, <2>1, <2>2, <3>1, ByteAssumption DEF Wide
  <2> QED BY <2>2, <2>3, ByteAssumption DEF Byte
<1>5. ASSUME NEW n \in 0 .. Wide - 1
      PROVE  /\ n % Base \in Byte /\ n \div Base \in Byte
             /\ (n % Base) + Base * (n \div Base) = n
  <2>1. n \in Nat
    BY <1>1
  <2>2. n % Base \in Byte /\ n = Base * (n \div Base) + (n % Base) /\ n \div Base \in Byte
    BY <1>3, <1>4, <2>1
  <2> QED BY <2>2, ByteAssumption DEF Byte
<1>6. ASSUME NEW low \in Byte, NEW high \in Byte PROVE low + Base * high \in 0 .. Wide - 1
  <2>1. Base * high \in Nat /\ Base * high <= Base * (Base - 1)
    BY ByteAssumption, SMTT(30) DEF Byte
  <2>2. Base * (Base - 1) = Base * Base - Base
    BY ByteAssumption
  <2> QED BY <2>1, <2>2, ByteAssumption DEF Byte, Wide
<1> QED BY <1>1, <1>2, <1>5, <1>6

\* A number takes two bytes, and a string as many more as are told of it.
LEMMA SizedFacts ==
  /\ \A n \in 0 .. Wide - 1 : Number(n) \in String /\ Len(Number(n)) = 2
  /\ \A s \in String : /\ Len(s) % Wide \in 0 .. Wide - 1 /\ Len(s) % Wide <= Len(s) /\ Len(s) \in Nat
                       /\ Told(s) \in String /\ Len(Told(s)) = Len(s) % Wide
                       /\ Sized(s) = Number(Len(s) % Wide) \o Told(s)
                       /\ Sized(s) \in String /\ Len(Sized(s)) = 2 + (Len(s) % Wide)
<1>1. ASSUME NEW n \in 0 .. Wide - 1 PROVE Number(n) \in String /\ Len(Number(n)) = 2
  <2>1. n % Base \in Byte /\ n \div Base \in Byte
    BY NumberFacts
  <2> QED BY <2>1 DEF Number, String
<1>2. ASSUME NEW s \in String
      PROVE  /\ Len(s) % Wide \in 0 .. Wide - 1 /\ Len(s) % Wide <= Len(s) /\ Len(s) \in Nat
             /\ Told(s) \in String /\ Len(Told(s)) = Len(s) % Wide
             /\ Sized(s) = Number(Len(s) % Wide) \o Told(s)
             /\ Sized(s) \in String /\ Len(Sized(s)) = 2 + (Len(s) % Wide)
  <2> DEFINE n == Len(s) % Wide
  <2>0. Len(s) \in Nat
    BY LenProperties DEF String
  <2>1. n \in 0 .. Wide - 1 /\ n <= Len(s) /\ Wide \in Nat /\ n \in Nat
    <3>1. n \in 0 .. Wide - 1 /\ n <= Len(s) /\ Wide \in Nat
      BY <2>0, NumberFacts
    <3> HIDE DEF n
    <3> QED BY <3>1
  <2>2. Sized(s) = Number(n) \o Told(s)
    BY DEF Sized, Told
  <2>3. Told(s) = SubSeq(s, 1, n)
    BY DEF Told
  <2> HIDE DEF n
  <2>4. \A k \in 1 .. n : s[k] \in Byte
    BY <2>0, <2>1, ElementOfSeq DEF String
  <2>5. Told(s) \in String /\ Len(Told(s)) = n
    BY <2>1, <2>3, <2>4, SubSeqProperties DEF String
  <2>6. Number(n) \in String /\ Len(Number(n)) = 2
    BY <1>1, <2>1
  <2>7. Sized(s) \in String /\ Len(Sized(s)) = 2 + n
    <3>1. /\ Number(n) \in Seq(Byte) /\ Told(s) \in Seq(Byte)
          /\ Len(Number(n)) = 2 /\ Len(Told(s)) = n
      BY <2>5, <2>6 DEF String
    <3>2. /\ Number(n) \o Told(s) \in Seq(Byte)
          /\ Len(Number(n) \o Told(s)) = Len(Number(n)) + Len(Told(s))
      BY <3>1, ConcatProperties
    <3> QED BY <2>2, <3>1, <3>2 DEF String
  <2> QED BY <2>0, <2>1, <2>2, <2>5, <2>7 DEF n
<1> QED BY <1>1, <1>2

\* b begins with p.
Starts(p, b) == Len(p) <= Len(b) /\ \A k \in 1 .. Len(p) : b[k] = p[k]

\* What a joined text begins with, and what comes then.
LEMMA StartsFacts ==
  ASSUME NEW x \in String, NEW y \in String, NEW b \in String, Starts(x \o y, b)
  PROVE  /\ Starts(x, b) /\ Len(x) + Len(y) <= Len(b)
         /\ \A k \in 1 .. Len(y) : b[Len(x) + k] = y[k]
         /\ x \o y \in String /\ Len(x \o y) = Len(x) + Len(y)
<1>1. /\ x \o y \in String /\ Len(x \o y) = Len(x) + Len(y)
      /\ \A k \in 1 .. Len(x) : (x \o y)[k] = x[k]
      /\ \A k \in 1 .. Len(y) : (x \o y)[Len(x) + k] = y[k]
  BY ConcatProperties DEF String
<1>2. Len(x) \in Nat /\ Len(y) \in Nat /\ Len(b) \in Nat
  BY LenProperties DEF String
<1>3. Starts(x, b) /\ Len(x) + Len(y) <= Len(b)
  BY <1>1, <1>2 DEF Starts
<1>4. ASSUME NEW k \in 1 .. Len(y) PROVE b[Len(x) + k] = y[k]
  <2>1. Len(x) + k \in 1 .. Len(x \o y)
    BY <1>1, <1>2
  <2> QED BY <1>1, <2>1 DEF Starts
<1> QED BY <1>1, <1>3, <1>4

\* A number that was written is read.
LEMMA ReadsNumber ==
  ASSUME NEW x \in String, NEW n \in 0 .. Wide - 1, NEW b \in String, Starts(x \o Number(n), b)
  PROVE  /\ NumberAt(b, Len(x)) = n /\ Starts(x, b)
         /\ x \o Number(n) \in String /\ Len(x \o Number(n)) = Len(x) + 2
<1>1. Number(n) \in String /\ Len(Number(n)) = 2
  BY SizedFacts
<1>2. /\ Starts(x, b) /\ x \o Number(n) \in String /\ Len(x \o Number(n)) = Len(x) + 2
      /\ \A k \in 1 .. 2 : b[Len(x) + k] = Number(n)[k]
  <2> DEFINE y == Number(n)
  <2>1. y \in String /\ Len(y) = 2 /\ Starts(x \o y, b)
    BY <1>1
  <2> HIDE DEF y
  <2>2. /\ Starts(x, b) /\ x \o y \in String /\ Len(x \o y) = Len(x) + Len(y)
        /\ \A k \in 1 .. Len(y) : b[Len(x) + k] = y[k]
    BY <2>1, StartsFacts
  <2>3. /\ Starts(x, b) /\ x \o y \in String /\ Len(x \o y) = Len(x) + 2
        /\ \A k \in 1 .. 2 : b[Len(x) + k] = y[k]
    BY <2>1, <2>2
  <2> QED BY <2>3 DEF y
<1>3. b[Len(x) + 1] = n % Base /\ b[Len(x) + 2] = n \div Base
  BY <1>2 DEF Number
<1>4. (n % Base) + Base * (n \div Base) = n
  BY NumberFacts
<1> QED BY <1>2, <1>3, <1>4 DEF NumberAt

\* And so is a string, as far as its size tells it.
LEMMA ReadsString ==
  ASSUME NEW x \in String, NEW s \in String, NEW b \in String, Starts(x \o Sized(s), b)
  PROVE  /\ StringAt(b, Len(x)) = Told(s) /\ After(b, Len(x)) = Len(x) + Len(Sized(s))
         /\ Starts(x, b) /\ Len(x) + Len(Sized(s)) <= Len(b)
         /\ x \o Sized(s) \in String /\ Len(x \o Sized(s)) = Len(x) + Len(Sized(s))
<1> DEFINE n == Len(s) % Wide
<1>1. /\ n \in 0 .. Wide - 1 /\ Told(s) \in String /\ Len(Told(s)) = n /\ n \in Nat
      /\ Sized(s) = Number(n) \o Told(s) /\ Sized(s) \in String /\ Len(Sized(s)) = 2 + n
      /\ Number(n) \in String /\ Len(Number(n)) = 2
  <2>1. /\ n \in 0 .. Wide - 1 /\ Told(s) \in String /\ Len(Told(s)) = n
        /\ Sized(s) = Number(n) \o Told(s) /\ Sized(s) \in String /\ Len(Sized(s)) = 2 + n
    BY SizedFacts
  <2>2. Wide \in Nat
    BY NumberFacts
  <2> HIDE DEF n
  <2>3. n \in Nat /\ Number(n) \in String /\ Len(Number(n)) = 2
    BY <2>1, <2>2, SizedFacts
  <2> QED BY <2>1, <2>3
<1> HIDE DEF n
<1>2. /\ Starts(x, b) /\ Len(x) + Len(Sized(s)) <= Len(b)
      /\ x \o Sized(s) \in String /\ Len(x \o Sized(s)) = Len(x) + Len(Sized(s))
      /\ \A k \in 1 .. 2 + n : b[Len(x) + k] = Sized(s)[k]
  <2> DEFINE y == Sized(s)
  <2>0. y \in String /\ Starts(x \o y, b)
    BY <1>1
  <2>1. Len(y) = 2 + n
    BY <1>1
  <2> HIDE DEF y, n
  <2>2. /\ Starts(x, b) /\ Len(x) + Len(y) <= Len(b)
        /\ x \o y \in String /\ Len(x \o y) = Len(x) + Len(y)
        /\ \A k \in 1 .. Len(y) : b[Len(x) + k] = y[k]
    BY <2>0, StartsFacts
  <2>3. \A k \in 1 .. 2 + n : b[Len(x) + k] = y[k]
    BY <2>1, <2>2
  <2> QED BY <2>2, <2>3 DEF y
<1>3. Len(x) \in Nat /\ Len(b) \in Nat
  BY LenProperties DEF String
<1>4. /\ \A k \in 1 .. 2 : Sized(s)[k] = Number(n)[k]
      /\ \A k \in 1 .. n : Sized(s)[2 + k] = Told(s)[k]
  BY <1>1, ConcatProperties DEF String
<1>5. b[Len(x) + 1] = n % Base /\ b[Len(x) + 2] = n \div Base
  <2>1. 1 \in 1 .. 2 + n /\ 2 \in 1 .. 2 + n
    BY <1>1
  <2> QED BY <1>2, <1>4, <2>1 DEF Number
<1>6. NumberAt(b, Len(x)) = n
  <2>1. (n % Base) + Base * (n \div Base) = n
    BY <1>1, NumberFacts
  <2> QED BY <1>5, <2>1 DEF NumberAt
<1>7. After(b, Len(x)) = Len(x) + Len(Sized(s))
  BY <1>1, <1>3, <1>6 DEF After
<1>8. StringAt(b, Len(x)) = Told(s)
  <2> DEFINE t == SubSeq(b, Len(x) + 3, Len(x) + 2 + n)
  <2>1. \A k \in Len(x) + 3 .. Len(x) + 2 + n : b[k] \in Byte
    BY <1>1, <1>2, <1>3, ElementOfSeq DEF String
  <2>2. t \in String /\ Len(t) = n /\ \A k \in 1 .. n : t[k] = b[Len(x) + 3 + k - 1]
    <3>1. Len(x) + 3 \in Int /\ Len(x) + 2 + n \in Int
      BY <1>1, <1>3
    <3>2. t \in Seq(Byte) /\ Len(t) = n
      BY <1>1, <1>3, <2>1, <3>1, SubSeqProperties
    <3>3. ASSUME NEW k \in 1 .. n PROVE t[k] = b[Len(x) + 3 + k - 1]
      BY <1>1, <1>3
    <3> QED BY <3>2, <3>3 DEF String
  <2>3. ASSUME NEW k \in 1 .. n PROVE t[k] = Told(s)[k]
    <3>1. Len(x) + 3 + k - 1 = Len(x) + (2 + k) /\ 2 + k \in 1 .. 2 + n
      BY <1>1, <1>3
    <3> QED BY <1>2, <1>4, <2>2, <3>1
  <2> HIDE DEF t
  <2>4. t = Told(s)
    BY <1>1, <2>2, <2>3, SeqEqual DEF String
  <2> QED BY <1>6, <2>4 DEF StringAt, t
<1> QED BY <1>2, <1>7, <1>8

\* The parts of what is written, and where they begin when they are read.
Versions(d) == Signature \o Number(d.version[1]) \o Number(d.version[2]) \o Number(d.version[3])
                 \o Number(d.version[4]) \o Number(d.version[5]) \o Number(d.version[6])
ToEntry(d) == Versions(d) \o Sized(d.mount_point)
ToFlag(d) == ToEntry(d) \o Sized(d.entry_point)
Behind(d) == IF d.cwd = None THEN <<0>> ELSE <<1>> \o Sized(d.cwd)

MountPos == Len(Signature) + 12
EntryPos(b) == After(b, MountPos)
FlagPos(b) == After(b, EntryPos(b))
Enough(b) == /\ IsPrefix(Signature, b) /\ MountPos + 2 <= Len(b) /\ EntryPos(b) <= Len(b)
             /\ EntryPos(b) + 2 <= Len(b) /\ FlagPos(b) <= Len(b) /\ FlagPos(b) + 1 <= Len(b)
             /\ b[FlagPos(b) + 1] # 0 =>
                  FlagPos(b) + 3 <= Len(b) /\ After(b, FlagPos(b) + 1) <= Len(b)
ReadFrom(b) ==
  [version |-> [n \in 1 .. 6 |-> NumberAt(b, Len(Signature) + 2 * (n - 1))],
   mount_point |-> StringAt(b, MountPos), entry_point |-> StringAt(b, EntryPos(b)),
   cwd |-> IF b[FlagPos(b) + 1] = 0 THEN None ELSE StringAt(b, FlagPos(b) + 1)]

\* Parse is what its parts say.
LEMMA ParseParts ==
  ASSUME NEW b
  PROVE  Parse(b) = IF Enough(b) THEN ReadFrom(b) ELSE None
BY DEF Parse, Enough, ReadFrom, MountPos, EntryPos, FlagPos

\* A descriptor is written as a string of bytes.
LEMMA WrittenFacts ==
  ASSUME NEW d \in Descriptor
  PROVE  /\ Signature \in String
         /\ \A n \in 1 .. 6 : d.version[n] \in 0 .. Wide - 1 /\ Number(d.version[n]) \in String
         /\ Versions(d) \in String /\ ToEntry(d) \in String /\ ToFlag(d) \in String
         /\ Behind(d) \in String /\ Serialize(d) \in String
         /\ Serialize(d) = ToFlag(d) \o Behind(d)
         /\ d.mount_point \in String /\ d.entry_point \in String /\ d.cwd \in String \cup {None}
<1>1. Signature \in String
  BY ByteAssumption DEF String, Byte
<1>2. /\ d.version \in [1 .. 6 -> 0 .. Wide - 1]
      /\ d.mount_point \in String /\ d.entry_point \in String /\ d.cwd \in String \cup {None}
  BY DEF Descriptor
<1>3. \A n \in 1 .. 6 : d.version[n] \in 0 .. Wide - 1
  BY <1>2
<1>4. \A n \in 1 .. 6 : Number(d.version[n]) \in String
  BY <1>3, SizedFacts
<1>5. \A x, y \in String : x \o y \in String
  BY DEF String
<1>6. Versions(d) \in String
  BY <1>1, <1>4, <1>5 DEF Versions
<1>7. ToEntry(d) \in String /\ ToFlag(d) \in String
  BY <1>2, <1>5, <1>6, SizedFacts DEF ToEntry, ToFlag
<1>8. <<0>> \in String /\ <<1>> \in String
  BY ByteAssumption DEF String, Byte
<1>9. Behind(d) \in String
  BY <1>2, <1>5, <1>8, SizedFacts DEF Behind
<1>10. Serialize(d) = ToFlag(d) \o Behind(d)
  BY DEF Serialize, ToFlag, ToEntry, Versions, Behind
<1> QED BY <1>1, <1>2, <1>3, <1>4, <1>5, <1>6, <1>7, <1>9, <1>10

\* The six numbers of the versions.
LEMMA ReadsVersions ==
  ASSUME NEW d \in Descriptor, NEW b \in String, Starts(Versions(d), b)
  PROVE  /\ Len(Versions(d)) = MountPos /\ Starts(Signature, b)
         /\ \A n \in 1 .. 6 : NumberAt(b, Len(Signature) + 2 * (n - 1)) = d.version[n]
<1> DEFINE v(n) == d.version[n]
           b1 == Signature \o Number(v(1))
           b2 == b1 \o Number(v(2))
           b3 == b2 \o Number(v(3))
           b4 == b3 \o Number(v(4))
           b5 == b4 \o Number(v(5))
           b6 == b5 \o Number(v(6))
<1>1. \A n \in 1 .. 6 : v(n) \in 0 .. Wide - 1 /\ Number(v(n)) \in String
  BY WrittenFacts
<1>2. Signature \in String /\ Len(Signature) \in Nat
  BY WrittenFacts, LenProperties DEF String
<1>3. b6 = Versions(d)
  BY DEF Versions
<1> HIDE DEF v
<1>4. \A x, y \in String : x \o y \in String
  BY DEF String
<1>5. b1 \in String /\ b2 \in String /\ b3 \in String /\ b4 \in String /\ b5 \in String /\ b6 \in String
  BY <1>1, <1>2, <1>4
<1> HIDE DEF b1, b2, b3, b4, b5, b6
<1>6. NumberAt(b, Len(b5)) = v(6) /\ Starts(b5, b) /\ Len(b6) = Len(b5) + 2
  <2>1. Starts(b6, b)
    BY <1>3
  <2> QED BY <1>1, <1>5, <2>1, ReadsNumber DEF b6
<1>7. NumberAt(b, Len(b4)) = v(5) /\ Starts(b4, b) /\ Len(b5) = Len(b4) + 2
  BY <1>1, <1>5, <1>6, ReadsNumber DEF b5
<1>8. NumberAt(b, Len(b3)) = v(4) /\ Starts(b3, b) /\ Len(b4) = Len(b3) + 2
  BY <1>1, <1>5, <1>7, ReadsNumber DEF b4
<1>9. NumberAt(b, Len(b2)) = v(3) /\ Starts(b2, b) /\ Len(b3) = Len(b2) + 2
  BY <1>1, <1>5, <1>8, ReadsNumber DEF b3
<1>10. NumberAt(b, Len(b1)) = v(2) /\ Starts(b1, b) /\ Len(b2) = Len(b1) + 2
  BY <1>1, <1>5, <1>9, ReadsNumber DEF b2
<1>11. NumberAt(b, Len(Signature)) = v(1) /\ Starts(Signature, b) /\ Len(b1) = Len(Signature) + 2
  BY <1>1, <1>2, <1>10, ReadsNumber DEF b1
<1>12. /\ Len(b1) = Len(Signature) + 2 /\ Len(b2) = Len(Signature) + 4 /\ Len(b3) = Len(Signature) + 6
       /\ Len(b4) = Len(Signature) + 8 /\ Len(b5) = Len(Signature) + 10 /\ Len(b6) = Len(Signature) + 12
  BY <1>2, <1>6, <1>7, <1>8, <1>9, <1>10, <1>11
<1>13. ASSUME NEW n \in 1 .. 6 PROVE NumberAt(b, Len(Signature) + 2 * (n - 1)) = v(n)
  <2>1. n \in {1, 2, 3, 4, 5, 6}
    BY <1>13
  <2>2. CASE n = 1
    <3>1. Len(Signature) + 2 * (n - 1) = Len(Signature)
      BY <1>2, <2>2
    <3> QED BY <1>11, <2>2, <3>1
  <2>3. CASE n = 2
    BY <1>2, <1>10, <1>12, <2>3
  <2>4. CASE n = 3
    BY <1>2, <1>9, <1>12, <2>4
  <2>5. CASE n = 4
    BY <1>2, <1>8, <1>12, <2>5
  <2>6. CASE n = 5
    BY <1>2, <1>7, <1>12, <2>6
  <2>7. CASE n = 6
    BY <1>2, <1>6, <1>12, <2>7
  <2> QED BY <2>1, <2>2, <2>3, <2>4, <2>5, <2>6, <2>7
<1> QED BY <1>3, <1>11, <1>12, <1>13 DEF MountPos, v

\* What Parse makes of a descriptor.
ToldOf(d) == [version |-> d.version, mount_point |-> Told(d.mount_point),
              entry_point |-> Told(d.entry_point),
              cwd |-> IF d.cwd = None THEN None ELSE Told(d.cwd)]

\* There are bytes enough when the parts come one after the other.
LEMMA ForEnough ==
  ASSUME NEW b \in String, NEW e \in Nat, NEW f \in Nat, IsPrefix(Signature, b),
         EntryPos(b) = e, FlagPos(b) = f, MountPos + 2 <= e, e + 2 <= f, f + 1 <= Len(b),
         b[f + 1] # 0 => f + 3 <= Len(b) /\ After(b, f + 1) <= Len(b)
  PROVE  Enough(b)
<1>1. Len(b) \in Nat
  BY LenProperties DEF String
<1>2. MountPos \in Nat
  BY LenProperties, ByteAssumption DEF MountPos
<1>3. MountPos + 2 <= Len(b) /\ e <= Len(b) /\ e + 2 <= Len(b) /\ f <= Len(b)
  BY <1>1, <1>2
<1> QED BY <1>3 DEF Enough

\* Where the parts of a descriptor are found, whatever comes behind it.
LEMMA ReadsParts ==
  ASSUME NEW d \in Descriptor, NEW b \in String, Starts(Serialize(d), b)
  PROVE  /\ Enough(b) /\ ReadFrom(b) = ToldOf(d)
         /\ IF b[FlagPos(b) + 1] # 0 THEN After(b, FlagPos(b) + 1) = Len(Serialize(d))
            ELSE FlagPos(b) + 1 = Len(Serialize(d))
<1>1. /\ Versions(d) \in String /\ ToEntry(d) \in String /\ ToFlag(d) \in String /\ Behind(d) \in String
      /\ Signature \in String
      /\ d.mount_point \in String /\ d.entry_point \in String /\ d.cwd \in String \cup {None}
      /\ Serialize(d) = ToFlag(d) \o Behind(d)
  BY WrittenFacts
<1>2. /\ Starts(ToFlag(d), b) /\ Len(ToFlag(d)) + Len(Behind(d)) <= Len(b)
      /\ \A k \in 1 .. Len(Behind(d)) : b[Len(ToFlag(d)) + k] = Behind(d)[k]
      /\ Len(Serialize(d)) = Len(ToFlag(d)) + Len(Behind(d))
  BY <1>1, StartsFacts
<1>3. /\ StringAt(b, Len(ToEntry(d))) = Told(d.entry_point)
      /\ After(b, Len(ToEntry(d))) = Len(ToFlag(d)) /\ Starts(ToEntry(d), b)
      /\ Len(ToFlag(d)) = Len(ToEntry(d)) + Len(Sized(d.entry_point))
  BY <1>1, <1>2, ReadsString DEF ToFlag
<1>4. /\ StringAt(b, Len(Versions(d))) = Told(d.mount_point)
      /\ After(b, Len(Versions(d))) = Len(ToEntry(d)) /\ Starts(Versions(d), b)
      /\ Len(ToEntry(d)) = Len(Versions(d)) + Len(Sized(d.mount_point))
  BY <1>1, <1>3, ReadsString DEF ToEntry
<1>5. /\ Len(Versions(d)) = MountPos /\ Starts(Signature, b)
      /\ \A n \in 1 .. 6 : NumberAt(b, Len(Signature) + 2 * (n - 1)) = d.version[n]
  BY <1>4, ReadsVersions
<1>6. EntryPos(b) = Len(ToEntry(d)) /\ FlagPos(b) = Len(ToFlag(d))
  BY <1>3, <1>4, <1>5 DEF EntryPos, FlagPos
<1>7. /\ Len(Signature) \in Nat /\ Len(b) \in Nat /\ MountPos \in Nat
      /\ Len(ToEntry(d)) \in Nat /\ Len(ToFlag(d)) \in Nat /\ Len(Behind(d)) \in Nat
  BY <1>1, LenProperties DEF String, MountPos
<1>8. /\ Len(Sized(d.mount_point)) \in Nat /\ Len(Sized(d.mount_point)) >= 2
      /\ Len(Sized(d.entry_point)) \in Nat /\ Len(Sized(d.entry_point)) >= 2
      /\ d.cwd \in String => Len(Sized(d.cwd)) >= 2
  <2>1. ASSUME NEW s \in String PROVE Len(Sized(s)) \in Nat /\ Len(Sized(s)) >= 2
    <3>1. Len(Sized(s)) = 2 + (Len(s) % Wide) /\ Len(s) % Wide \in 0 .. Wide - 1 /\ Wide \in Nat
      BY SizedFacts, NumberFacts
    <3> DEFINE r == Len(s) % Wide
    <3> HIDE DEF r
    <3> QED BY <3>1 DEF r
  <2> QED BY <1>1, <2>1
<1>9. IsPrefix(Signature, b)
  <2>1. Len(Signature) <= Len(b) /\ \A k \in 1 .. Len(Signature) : b[k] = Signature[k]
    BY <1>5 DEF Starts
  <2> DEFINE x == SubSeq(Signature, 1, Len(Signature))
             y == SubSeq(b, 1, Len(Signature))
  <2>2. \A k \in 1 .. Len(Signature) : Signature[k] \in Byte /\ b[k] \in Byte
    BY <1>1, <1>7, <2>1, ElementOfSeq DEF String
  <2>3. x \in Seq(Byte) /\ Len(x) = Len(Signature) /\ \A k \in 1 .. Len(Signature) : x[k] = Signature[k]
    BY <1>7, <2>2, SubSeqProperties
  <2>4. y \in Seq(Byte) /\ Len(y) = Len(Signature) /\ \A k \in 1 .. Len(Signature) : y[k] = b[k]
    BY <1>7, <2>2, SubSeqProperties
  <2> HIDE DEF x, y
  <2>5. x = y
    BY <2>1, <2>3, <2>4, SeqEqual
  <2> QED BY <2>1, <2>5 DEF IsPrefix, x, y
<1>10. CASE d.cwd = None
  <2>1. Behind(d) = <<0>> /\ Len(Behind(d)) = 1
    BY <1>10 DEF Behind
  <2>2. b[FlagPos(b) + 1] = 0 /\ FlagPos(b) + 1 = Len(Serialize(d))
    BY <1>2, <1>6, <1>7, <2>1
  <2>3. Enough(b)
    <3>1. /\ MountPos + 2 <= Len(ToEntry(d)) /\ Len(ToEntry(d)) + 2 <= Len(ToFlag(d))
          /\ Len(ToFlag(d)) + 1 <= Len(b)
      BY <1>2, <1>3, <1>4, <1>5, <1>7, <1>8, <2>1
    <3>2. b[Len(ToFlag(d)) + 1] = 0
      BY <1>6, <2>2
    <3> QED BY <1>6, <1>7, <1>9, <3>1, <3>2, ForEnough
  <2>4. ReadFrom(b) = ToldOf(d)
    <3>1. [n \in 1 .. 6 |-> NumberAt(b, Len(Signature) + 2 * (n - 1))] = d.version
      BY <1>5 DEF Descriptor
    <3> QED BY <1>3, <1>4, <1>5, <1>6, <1>10, <2>2, <3>1 DEF ReadFrom, ToldOf
  <2> QED BY <2>2, <2>3, <2>4
<1>11. CASE d.cwd # None
  <2>1. Behind(d) = <<1>> \o Sized(d.cwd) /\ d.cwd \in String
    BY <1>1, <1>11 DEF Behind
  <2>2. <<1>> \in String /\ Sized(d.cwd) \in String /\ Len(<<1>>) = 1 /\ <<1>>[1] = 1
    BY <2>1, ByteAssumption, SizedFacts DEF String, Byte
  <2>3. /\ Len(Behind(d)) = 1 + Len(Sized(d.cwd)) /\ Behind(d)[1] = 1
        /\ Len(Sized(d.cwd)) \in Nat
    <3>1. Len(Sized(d.cwd)) \in Nat
      BY <2>2, LenProperties DEF String
    <3> QED BY <2>1, <2>2, <3>1, ConcatProperties DEF String
  <2>4. b[FlagPos(b) + 1] = 1
    BY <1>2, <1>6, <1>7, <2>3
  <2> DEFINE x == ToFlag(d) \o <<1>>
  <2>5. x \o Sized(d.cwd) = Serialize(d)
    <3>1. \A u, v, w \in Seq(Byte) : (u \o v) \o w = u \o (v \o w)
      BY ConcatAssociative
    <3>2. ToFlag(d) \in Seq(Byte) /\ <<1>> \in Seq(Byte) /\ Sized(d.cwd) \in Seq(Byte)
      BY <1>1, <2>2 DEF String
    <3> QED BY <1>1, <2>1, <3>1, <3>2
  <2>6. x \in String /\ Len(x) = FlagPos(b) + 1
    BY <1>1, <1>6, <2>2, ConcatProperties DEF String
  <2> HIDE DEF x
  <2>7. /\ StringAt(b, Len(x)) = Told(d.cwd) /\ After(b, Len(x)) = Len(x) + Len(Sized(d.cwd))
        /\ Len(x) + Len(Sized(d.cwd)) <= Len(b) /\ Len(Serialize(d)) = Len(x) + Len(Sized(d.cwd))
    BY <2>1, <2>5, <2>6, ReadsString
  <2>8. Len(Sized(d.cwd)) >= 2
    BY <1>8, <2>1
  <2>9. Enough(b)
    <3>1. /\ MountPos + 2 <= Len(ToEntry(d)) /\ Len(ToEntry(d)) + 2 <= Len(ToFlag(d))
          /\ Len(ToFlag(d)) + 1 <= Len(b) /\ Len(ToFlag(d)) + 3 <= Len(b)
      <4>1. MountPos + 2 <= Len(ToEntry(d))
        BY <1>4, <1>5, <1>7, <1>8
      <4>2. Len(ToEntry(d)) + 2 <= Len(ToFlag(d))
        BY <1>3, <1>7, <1>8
      <4>3. Len(Behind(d)) >= 3
        BY <2>1, <2>3, <2>8
      <4> QED BY <1>2, <1>7, <4>1, <4>2, <4>3
    <3>2. After(b, Len(ToFlag(d)) + 1) <= Len(b)
      BY <1>6, <2>6, <2>7
    <3> QED BY <1>6, <1>7, <1>9, <3>1, <3>2, ForEnough
  <2>10. ReadFrom(b) = ToldOf(d)
    <3>1. [n \in 1 .. 6 |-> NumberAt(b, Len(Signature) + 2 * (n - 1))] = d.version
      BY <1>5 DEF Descriptor
    <3>2. b[FlagPos(b) + 1] # 0 /\ StringAt(b, FlagPos(b) + 1) = Told(d.cwd)
      BY <2>4, <2>6, <2>7
    <3>3. StringAt(b, MountPos) = Told(d.mount_point) /\ StringAt(b, EntryPos(b)) = Told(d.entry_point)
      BY <1>3, <1>4, <1>5, <1>6
    <3> QED BY <1>11, <3>1, <3>2, <3>3 DEF ReadFrom, ToldOf
  <2> QED BY <2>4, <2>6, <2>7, <2>9, <2>10
<1> QED BY <1>10, <1>11

\* The elements of a joined sequence.
LEMMA Joined ==
  ASSUME NEW S, NEW x \in Seq(S), NEW y \in Seq(S)
  PROVE  /\ x \o y \in Seq(S) /\ Len(x \o y) = Len(x) + Len(y)
         /\ Len(x) \in Nat /\ Len(y) \in Nat
         /\ \A n \in 1 .. Len(x) : (x \o y)[n] = x[n]
         /\ \A n \in 1 .. Len(y) : (x \o y)[Len(x) + n] = y[n]
<1>1. Len(x) \in Nat /\ Len(y) \in Nat
  BY LenProperties
<1>2. /\ x \o y \in Seq(S) /\ Len(x \o y) = Len(x) + Len(y)
      /\ \A n \in 1 .. Len(x) + Len(y) :
            (x \o y)[n] = IF n <= Len(x) THEN x[n] ELSE y[n - Len(x)]
  BY ConcatProperties
<1>3. ASSUME NEW n \in 1 .. Len(x) PROVE (x \o y)[n] = x[n]
  <2>1. n \in 1 .. Len(x) + Len(y) /\ n <= Len(x)
    BY <1>1
  <2> QED BY <1>2, <2>1
<1>4. ASSUME NEW n \in 1 .. Len(y) PROVE (x \o y)[Len(x) + n] = y[n]
  <2>1. Len(x) + n \in 1 .. Len(x) + Len(y) /\ ~(Len(x) + n <= Len(x)) /\ (Len(x) + n) - Len(x) = n
    BY <1>1
  <2> QED BY <1>2, <2>1
<1> QED BY <1>1, <1>2, <1>3, <1>4

\* What lies within a string of bytes is read as a number, and as a string.
LEMMA ReadFacts ==
  ASSUME NEW b \in String, NEW at \in Nat, at + 2 <= Len(b)
  PROVE  /\ NumberAt(b, at) \in 0 .. Wide - 1 /\ NumberAt(b, at) \in Nat
         /\ After(b, at) \in Nat /\ After(b, at) >= at + 2
         /\ After(b, at) <= Len(b) => StringAt(b, at) \in String
<1>1. Len(b) \in Nat
  BY LenProperties DEF String
<1>2. b[at + 1] \in Byte /\ b[at + 2] \in Byte
  <2>1. at + 1 \in 1 .. Len(b) /\ at + 2 \in 1 .. Len(b)
    BY <1>1
  <2> QED BY <2>1, ElementOfSeq DEF String
<1>3. NumberAt(b, at) \in 0 .. Wide - 1 /\ NumberAt(b, at) \in Nat
  <2>1. NumberAt(b, at) \in 0 .. Wide - 1 /\ Wide \in Nat
    BY <1>2, NumberFacts DEF NumberAt
  <2> QED BY <2>1
<1>4. After(b, at) \in Nat /\ After(b, at) >= at + 2
  BY <1>3 DEF After
<1>5. ASSUME After(b, at) <= Len(b) PROVE StringAt(b, at) \in String
  <2> DEFINE n == NumberAt(b, at)
  <2>1. at + 2 + n <= Len(b) /\ n \in Nat
    BY <1>3, <1>5 DEF After
  <2> HIDE DEF n
  <2>2. \A k \in at + 3 .. at + 2 + n : b[k] \in Byte
    BY <1>1, <2>1, ElementOfSeq DEF String
  <2>3. at + 3 \in Int /\ at + 2 + n \in Int
    BY <2>1
  <2>4. SubSeq(b, at + 3, at + 2 + n) \in Seq(Byte)
    BY <1>1, <2>1, <2>2, <2>3, SubSeqProperties
  <2> QED BY <2>4 DEF StringAt, n, String
<1> QED BY <1>3, <1>4, <1>5

\* What is read is a descriptor.
LEMMA ParseType ==
  ASSUME NEW b \in String
  PROVE  Parse(b) \in Descriptor \cup {None}
<1>1. CASE ~Enough(b)
  BY <1>1, ParseParts
<1>2. CASE Enough(b)
  <2>1. Len(b) \in Nat /\ Len(Signature) \in Nat
    BY LenProperties, ByteAssumption DEF String
  <2>2. MountPos \in Nat /\ MountPos = Len(Signature) + 12 /\ MountPos + 2 <= Len(b)
    BY <1>2, <2>1 DEF MountPos, Enough
  <2>3. EntryPos(b) \in Nat /\ StringAt(b, MountPos) \in String
    BY <1>2, <2>2, ReadFacts DEF EntryPos, Enough
  <2>4. FlagPos(b) \in Nat /\ StringAt(b, EntryPos(b)) \in String
    BY <1>2, <2>3, ReadFacts DEF FlagPos, Enough
  <2>5. b[FlagPos(b) + 1] # 0 => StringAt(b, FlagPos(b) + 1) \in String
    <3>1. SUFFICES ASSUME b[FlagPos(b) + 1] # 0 PROVE StringAt(b, FlagPos(b) + 1) \in String
      OBVIOUS
    <3>2. FlagPos(b) + 1 \in Nat /\ (FlagPos(b) + 1) + 2 <= Len(b) /\ After(b, FlagPos(b) + 1) <= Len(b)
      BY <1>2, <2>1, <2>4, <3>1 DEF Enough
    <3> QED BY <3>2, ReadFacts
  <2>6. ASSUME NEW n \in 1 .. 6 PROVE NumberAt(b, Len(Signature) + 2 * (n - 1)) \in 0 .. Wide - 1
    <3>1. Len(Signature) + 2 * (n - 1) \in Nat /\ Len(Signature) + 2 * (n - 1) + 2 <= Len(b)
      BY <2>1, <2>2
    <3> QED BY <3>1, ReadFacts
  <2>7. [n \in 1 .. 6 |-> NumberAt(b, Len(Signature) + 2 * (n - 1))] \in [1 .. 6 -> 0 .. Wide - 1]
    BY <2>6
  <2>8. ReadFrom(b) \in Descriptor
    BY <2>3, <2>4, <2>5, <2>7 DEF ReadFrom, Descriptor
  <2> QED BY <1>2, <2>8, ParseParts
<1> QED BY <1>1, <1>2

\* Whatever is cut off, too little is left to read.
LEMMA CutOff ==
  ASSUME NEW d \in Descriptor, NEW b \in String, Len(b) < Len(Serialize(d)),
         \A k \in 1 .. Len(b) : b[k] = Serialize(d)[k]
  PROVE  Parse(b) = None
<1> DEFINE w == Serialize(d)
<1>1. SUFFICES ASSUME Enough(b) PROVE FALSE
  BY ParseParts
<1>2. w \in String /\ Len(w) \in Nat /\ Len(b) \in Nat
  BY WrittenFacts, LenProperties DEF String
<1>3. Starts(w, w)
  BY <1>2 DEF Starts
<1>4. IF w[FlagPos(w) + 1] # 0 THEN After(w, FlagPos(w) + 1) = Len(w) ELSE FlagPos(w) + 1 = Len(w)
  <2> HIDE DEF w
  <2>1. w = Serialize(d)
    BY DEF w
  <2> QED BY <1>2, <1>3, <2>1, ReadsParts
<1> HIDE DEF w
<1>5. \A k \in 1 .. Len(b) : b[k] = w[k]
  BY DEF w
<1>6. ASSUME NEW at \in Nat, at + 2 <= Len(b) PROVE After(b, at) = After(w, at) /\ After(b, at) \in Nat
  <2>1. at + 1 \in 1 .. Len(b) /\ at + 2 \in 1 .. Len(b)
    BY <1>2, <1>6
  <2> QED BY <1>5, <1>6, <2>1, ReadFacts DEF After, NumberAt
<1>7. MountPos \in Nat /\ MountPos + 2 <= Len(b)
  BY <1>1, LenProperties, ByteAssumption DEF MountPos, Enough
<1>8. EntryPos(b) = EntryPos(w) /\ EntryPos(b) \in Nat
  BY <1>6, <1>7 DEF EntryPos
<1>9. FlagPos(b) = FlagPos(w) /\ FlagPos(b) \in Nat
  BY <1>1, <1>6, <1>8 DEF FlagPos, Enough
<1>10. b[FlagPos(b) + 1] = w[FlagPos(w) + 1] /\ FlagPos(b) + 1 <= Len(b)
  <2>1. FlagPos(b) + 1 \in 1 .. Len(b)
    BY <1>1, <1>2, <1>9 DEF Enough
  <2> QED BY <1>1, <1>5, <1>9, <2>1 DEF Enough
<1>11. CASE w[FlagPos(w) + 1] # 0
  <2>1. FlagPos(b) + 1 \in Nat /\ (FlagPos(b) + 1) + 2 <= Len(b) /\ After(b, FlagPos(b) + 1) <= Len(b)
    BY <1>1, <1>2, <1>9, <1>10, <1>11 DEF Enough
  <2>2. After(b, FlagPos(b) + 1) = Len(w)
    BY <1>4, <1>6, <1>9, <1>11, <2>1
  <2>3. Len(b) < Len(w)
    BY DEF w
  <2> QED BY <1>2, <2>1, <2>2, <2>3
<1>12. CASE w[FlagPos(w) + 1] = 0
  <2>1. FlagPos(b) + 1 = Len(w)
    BY <1>4, <1>9, <1>12
  <2>2. Len(b) < Len(w)
    BY DEF w
  <2> QED BY <1>2, <1>10, <2>1, <2>2
<1> QED BY <1>11, <1>12

\* What a package was made from can be written.
LEMMA MakingFacts ==
  ASSUME NEW t \in DOMAIN Made
  PROVE  /\ Written(Made[t]) \in Descriptor
         /\ Written(Made[t]).mount_point = Made[t].mount_point
         /\ Written(Made[t]).entry_point = Made[t].entry_point
         /\ Written(Made[t]).cwd = Made[t].cwd
         /\ Made[t].missing \in Nat /\ Made[t].rest \in String
         /\ Made[t].missing > 0 => Made[t].rest = <<>>
<1> DEFINE m == Made[t]
           r == m.ruby.numbers
           e == m.tebako.numbers
<1>1. m \in Making /\ IsVersion(m.ruby) /\ IsVersion(m.tebako) /\ (m.missing > 0 => m.rest = <<>>)
  BY MadeAssumption
<1>2. Written(m) = [version |-> r \o e, mount_point |-> m.mount_point,
                    entry_point |-> m.entry_point, cwd |-> m.cwd]
  BY <1>1 DEF Written, Described
<1>3. /\ m.mount_point \in String /\ m.entry_point \in String /\ m.cwd \in String \cup {None}
      /\ m.missing \in Nat /\ m.rest \in String /\ m.ruby \in Version /\ m.tebako \in Version
  BY <1>1 DEF Making
<1>4. Wide \in Nat
  BY NumberFacts
<1>5. /\ r \in [1 .. 3 -> Nat] /\ e \in [1 .. 3 -> Nat]
      /\ \A n \in 1 .. 3 : r[n] \in 0 .. Wide - 1 /\ e[n] \in 0 .. Wide - 1
  BY <1>1, <1>3, <1>4 DEF Version, IsVersion
<1> HIDE DEF r, e, m
<1>6. /\ r \in Seq(Nat) /\ e \in Seq(Nat) /\ Len(r) = 3 /\ Len(e) = 3
  <2>1. ASSUME NEW x \in [1 .. 3 -> Nat] PROVE x \in Seq(Nat) /\ Len(x) = 3
    <3>1. x \in Seq(Nat)
      <4> DEFINE fs(n) == [1 .. n -> Nat]
      <4>1. x \in fs(3) /\ 3 \in Nat
        OBVIOUS
      <4>2. Seq(Nat) = UNION {fs(n) : n \in Nat}
        BY SeqDef
      <4> HIDE DEF fs
      <4> QED BY <4>1, <4>2
    <3>2. DOMAIN x = 1 .. Len(x) /\ Len(x) \in Nat /\ DOMAIN x = 1 .. 3
      BY <3>1, LenProperties
    <3> QED BY <3>1, <3>2
  <2> QED BY <1>5, <2>1
<1>7. r \o e \in Seq(Nat) /\ Len(r \o e) = 6
  <2> DEFINE x == r \o e
  <2>1. x \in Seq(Nat) /\ Len(x) = Len(r) + Len(e)
    BY <1>6, ConcatProperties
  <2> HIDE DEF x
  <2>2. x \in Seq(Nat) /\ Len(x) = 6
    BY <1>6, <2>1
  <2> QED BY <2>2 DEF x
<1>8. \A n \in 1 .. 6 : (r \o e)[n] \in 0 .. Wide - 1
  <2>1. /\ \A n \in 1 .. Len(r) : (r \o e)[n] = r[n]
        /\ \A n \in 1 .. Len(e) : (r \o e)[Len(r) + n] = e[n]
    <3>1. ASSUME NEW x \in Seq(Nat), NEW y \in Seq(Nat)
          PROVE  /\ \A n \in 1 .. Len(x) : (x \o y)[n] = x[n]
                 /\ \A n \in 1 .. Len(y) : (x \o y)[Len(x) + n] = y[n]
      BY Joined
    <3> QED BY <1>6, <3>1
  <2>2. ASSUME NEW n \in 1 .. 6, n \notin 1 .. 3 PROVE (r \o e)[n] \in 0 .. Wide - 1
    <3>1. n - 3 \in 1 .. 3 /\ 3 + (n - 3) = n
      BY <2>2
    <3>2. (r \o e)[3 + (n - 3)] = e[n - 3]
      BY <1>6, <2>1, <3>1
    <3> QED BY <1>5, <3>1, <3>2
  <2> QED BY <1>5, <1>6, <2>1, <2>2
<1>9. r \o e \in [1 .. 6 -> 0 .. Wide - 1]
  <2> DEFINE x == r \o e
  <2>1. x \in Seq(Nat) /\ Len(x) = 6 /\ \A n \in 1 .. 6 : x[n] \in 0 .. Wide - 1
    BY <1>7, <1>8
  <2> HIDE DEF x
  <2>2. x \in [1 .. 6 -> Nat]
    BY <2>1, LenProperties
  <2>3. x \in [1 .. 6 -> 0 .. Wide - 1]
    BY <2>1, <2>2
  <2> QED BY <2>3 DEF x
<1>10. Written(m) \in Descriptor
  BY <1>2, <1>3, <1>9 DEF Descriptor
<1> QED BY <1>1, <1>2, <1>3, <1>10 DEF m

\* The bytes of a package, and what is read from them.
LEMMA PackageFacts ==
  ASSUME NEW t \in DOMAIN Made
  PROVE  /\ PackageFile(t) \in String
         /\ Made[t].missing > 0 => Parse(PackageFile(t)) = None
         /\ Made[t].missing = 0 => Parse(PackageFile(t)) = ToldOf(Written(Made[t]))
<1> DEFINE d == Written(Made[t])
           w == Serialize(d)
           k == Made[t].missing
           rest == Made[t].rest
           cut == SubSeq(w, 1, Len(w) - k)
<1>1. d \in Descriptor /\ k \in Nat /\ rest \in String /\ (k > 0 => rest = <<>>)
  BY MakingFacts
<1> HIDE DEF d, k, rest
<1>2. w \in String /\ Len(w) \in Nat
  BY <1>1, WrittenFacts, LenProperties DEF String
<1>3. PackageFile(t) = cut \o rest
  BY DEF PackageFile, d, k, rest
<1> HIDE DEF w
<1>4. /\ cut \in String /\ Len(cut) = IF k <= Len(w) THEN Len(w) - k ELSE 0
      /\ \A n \in 1 .. Len(cut) : cut[n] = w[n]
  <2> DEFINE m == Len(w) - k
  <2>1. m \in Int /\ m <= Len(w)
    BY <1>1, <1>2
  <2>2. \A n \in 1 .. m : w[n] \in Byte
    BY <1>2, <2>1, ElementOfSeq DEF String
  <2>3. SubSeq(w, 1, m) \in Seq(Byte) /\ Len(SubSeq(w, 1, m)) = IF 1 <= m THEN m - 1 + 1 ELSE 0
    <3> HIDE DEF m
    <3> QED BY <2>1, <2>2, SubSeqProperties
  <2>4. \A n \in 1 .. Len(cut) : cut[n] = w[n]
    <3>1. \A n \in 1 .. m : SubSeq(w, 1, m)[n] = w[1 + n - 1]
      <4> HIDE DEF m
      <4> QED BY <2>1, <2>2, SubSeqProperties
    <3>2. Len(cut) = IF 1 <= m THEN m - 1 + 1 ELSE 0
      BY <2>3
    <3>3. ASSUME NEW n \in 1 .. Len(cut) PROVE n \in 1 .. m /\ 1 + n - 1 = n
      <4> HIDE DEF m, cut
      <4> QED BY <2>1, <3>2
    <3>4. cut = SubSeq(w, 1, m)
      OBVIOUS
    <3> HIDE DEF m, cut
    <3> QED BY <3>1, <3>3, <3>4
  <2> QED BY <1>1, <1>2, <2>3, <2>4 DEF String
<1> HIDE DEF cut
<1>5. PackageFile(t) \in String
  BY <1>1, <1>3, <1>4 DEF String
<1>6. CASE k > 0
  <2>1. PackageFile(t) = cut
    BY <1>1, <1>3, <1>4, <1>6, ConcatEmptySeq DEF String
  <2>2. Len(cut) < Len(w)
    <3>1. Len(w) # 0
      <4>1. Starts(w, w)
        BY <1>2 DEF Starts
      <4>2. Enough(w)
        BY <1>1, <1>2, <4>1, ReadsParts DEF w
      <4>3. MountPos + 2 <= Len(w) /\ MountPos \in Nat
        BY <4>2, LenProperties, ByteAssumption DEF MountPos, Enough
      <4> QED BY <4>3
    <3> QED BY <1>1, <1>2, <1>4, <1>6, <3>1
  <2>3. Parse(cut) = None
    BY <1>1, <1>4, <2>2, CutOff DEF w
  <2> QED BY <1>5, <1>6, <2>1, <2>3 DEF k
<1>7. CASE k = 0
  <2>1. Len(cut) = Len(w)
    BY <1>2, <1>4, <1>7
  <2>2. Starts(w, cut \o rest)
    <3>1. /\ Len(cut \o rest) = Len(cut) + Len(rest) /\ Len(rest) \in Nat
          /\ \A n \in 1 .. Len(cut) : (cut \o rest)[n] = cut[n]
      BY <1>1, <1>4, Joined DEF String
    <3> QED BY <1>2, <1>4, <2>1, <3>1 DEF Starts
  <2>3. Enough(PackageFile(t)) /\ ReadFrom(PackageFile(t)) = ToldOf(d)
    BY <1>1, <1>3, <1>5, <2>2, ReadsParts DEF w
  <2>4. Parse(PackageFile(t)) = ToldOf(d)
    BY <2>3, ParseParts
  <2> QED BY <1>5, <1>7, <2>4 DEF k, d
<1> QED BY <1>1, <1>6, <1>7

--------------------------------------------------------------------------------
(* Sums.                                                                     *)

\* A sum comes about number by number.
LEMMA SumParts ==
  ASSUME NEW s \in Seq(Nat)
  PROVE  \E f \in [0 .. Len(s) -> Nat] :
            f[0] = 0 /\ (\A k \in 1 .. Len(s) : f[k] = f[k - 1] + s[k]) /\ Sum(s) = f[Len(s)]
<1> DEFINE n == Len(s)
           Def(f) == [k \in 0 .. n |-> IF k = 0 THEN 0 ELSE f[k - 1] + s[k]]
           sum == CHOOSE f : f = Def(f)
           step == [k \in 1 .. n |-> [p \in Nat |-> p + s[k]]]
<1>1. n \in Nat
  BY LenProperties
<1>2. \A k \in 1 .. n : s[k] \in Nat
  BY ElementOfSeq
<1>3. step \in [1 .. n -> [Nat -> Nat]]
  BY <1>2
<1>4. PICK g : Steps(g, Nat, 0, step, n)
  <2> HIDE DEF step, n
  <2> QED BY <1>1, <1>3, Recursion
<1>5. \A k \in 1 .. n : g[k] = g[k - 1] + s[k]
  <2> TAKE k \in 1 .. n
  <2>1. k - 1 \in 0 .. n
    BY <1>1
  <2>2. g[k] = step[k][g[k - 1]] /\ g[k - 1] \in Nat
    BY <1>4, <2>1 DEF Steps
  <2> QED BY <2>2
<1>6. g \in [0 .. n -> Nat] /\ g[0] = 0
  BY <1>4 DEF Steps
<1>7. Sum(s) = sum[n]
  BY DEF Sum
<1> HIDE DEF n
<1>8. g = Def(g)
  <2>1. \A k \in 0 .. n : k # 0 => k \in 1 .. n
    BY <1>1
  <2>2. \A k \in 0 .. n : g[k] = Def(g)[k]
    BY <1>5, <1>6, <2>1
  <2>3. g = [k \in 0 .. n |-> g[k]]
    BY <1>6
  <2> QED BY <2>2, <2>3
<1>9. sum = Def(sum)
  <2> HIDE DEF Def
  <2> QED BY <1>8
<1>10. sum[0] = 0 /\ \A k \in 1 .. n : sum[k] = sum[k - 1] + s[k]
  <2> HIDE DEF sum
  <2>1. 0 \in 0 .. n /\ \A k \in 1 .. n : k \in 0 .. n /\ k # 0
    BY <1>1
  <2>2. \A k \in 0 .. n : sum[k] = IF k = 0 THEN 0 ELSE sum[k - 1] + s[k]
    BY <1>9
  <2> QED BY <2>1, <2>2
<1>11. DOMAIN sum = 0 .. n
  <2> HIDE DEF sum
  <2> QED BY <1>9
<1> HIDE DEF sum
<1> DEFINE S == {k \in 0 .. n : sum[k] \in Nat}
<1>12. 0 \in S
  <2>1. 0 \in 0 .. n
    BY <1>1
  <2> QED BY <1>10, <2>1
<1>13. ASSUME NEW k \in 1 .. n, k - 1 \in S PROVE k \in S
  <2>1. k \in 0 .. n
    BY <1>1
  <2> QED BY <1>2, <1>10, <1>13, <2>1
<1> HIDE DEF S
<1>14. 0 .. n \subseteq S
  BY <1>1, <1>12, <1>13, UpTo
<1>15. sum = [k \in 0 .. n |-> sum[k]] /\ \A k \in 0 .. n : sum[k] \in Nat
  <2>1. sum = [k \in 0 .. n |-> sum[k]]
    <3> HIDE DEF Def
    <3>1. sum = [k \in DOMAIN sum |-> sum[k]]
      BY <1>9 DEF Def
    <3> QED BY <1>11, <3>1
  <2> QED BY <1>14, <2>1 DEF S
<1>16. sum \in [0 .. n -> Nat]
  BY <1>15
<1> QED BY <1>7, <1>10, <1>16 DEF n

\* The sum of no numbers.
LEMMA SumFacts ==
  /\ Sum(<<>>) = 0
  /\ \A s \in Seq(Nat) : Sum(s) \in Nat
<1>1. Sum(<<>>) = 0
  <2>1. <<>> \in Seq(Nat) /\ Len(<<>>) = 0
    BY EmptySeq
  <2> QED BY <2>1, SumParts
<1>2. ASSUME NEW s \in Seq(Nat) PROVE Sum(s) \in Nat
  <2>1. Len(s) \in 0 .. Len(s)
    BY LenProperties
  <2> QED BY <2>1, SumParts
<1> QED BY <1>1, <1>2

\* And of a few.
LEMMA SumOfFew ==
  ASSUME NEW s \in Seq(Nat)
  PROVE  /\ Len(s) = 1 => Sum(s) = s[1]
         /\ Len(s) = 2 => Sum(s) = s[1] + s[2]
         /\ Len(s) = 3 => Sum(s) = s[1] + s[2] + s[3]
<1>1. PICK f \in [0 .. Len(s) -> Nat] :
        f[0] = 0 /\ (\A k \in 1 .. Len(s) : f[k] = f[k - 1] + s[k]) /\ Sum(s) = f[Len(s)]
  BY SumParts
<1>2. \A k \in 1 .. Len(s) : s[k] \in Nat
  BY ElementOfSeq
<1>3. CASE Len(s) = 1
  <2>1. f[1] = f[0] + s[1] /\ s[1] \in Nat
    BY <1>1, <1>2, <1>3
  <2> QED BY <1>1, <1>3, <2>1
<1>4. CASE Len(s) = 2
  <2>1. f[1] = f[0] + s[1] /\ f[2] = f[1] + s[2] /\ s[1] \in Nat /\ s[2] \in Nat
    BY <1>1, <1>2, <1>4
  <2> QED BY <1>1, <1>4, <2>1
<1>5. CASE Len(s) = 3
  <2>1. /\ f[1] = f[0] + s[1] /\ f[2] = f[1] + s[2] /\ f[3] = f[2] + s[3]
        /\ s[1] \in Nat /\ s[2] \in Nat /\ s[3] \in Nat
    BY <1>1, <1>2, <1>5
  <2> QED BY <1>1, <1>5, <2>1
<1> QED BY <1>3, <1>4, <1>5

\* What is put in front of numbers, in place of the first, changes the sum as much.
LEMMA SumShifted ==
  ASSUME NEW s \in Seq(Nat), s # <<>>, NEW c \in Nat, NEW t \in Seq(Nat),
         Len(t) = Len(s) + 1, t[1] = s[1], t[2] = c, \A k \in 2 .. Len(s) : t[k + 1] = s[k]
  PROVE  Sum(t) = Sum(s) + c
<1>1. Len(s) \in Nat \ {0} /\ Len(t) \in Nat
  BY EmptySeq, LenProperties
<1>2. PICK f \in [0 .. Len(s) -> Nat] :
        f[0] = 0 /\ (\A k \in 1 .. Len(s) : f[k] = f[k - 1] + s[k]) /\ Sum(s) = f[Len(s)]
  BY SumParts
<1>3. PICK g \in [0 .. Len(t) -> Nat] :
        g[0] = 0 /\ (\A k \in 1 .. Len(t) : g[k] = g[k - 1] + t[k]) /\ Sum(t) = g[Len(t)]
  BY SumParts
<1> DEFINE S == {k \in 0 .. Len(s) : k >= 1 => g[k + 1] = f[k] + c}
<1>4. 0 \in S
  BY <1>1
<1>5. ASSUME NEW k \in 1 .. Len(s), k - 1 \in S PROVE k \in S
  <2>1. k \in 0 .. Len(s) /\ k + 1 \in 1 .. Len(t) /\ (k + 1) - 1 = k /\ k \in 1 .. Len(t)
    BY <1>1
  <2>2. g[k + 1] = g[k] + t[k + 1] /\ f[k] = f[k - 1] + s[k] /\ g[k] \in Nat
        /\ f[k - 1] \in Nat /\ s[k] \in Nat
    <3>1. k - 1 \in 0 .. Len(s) /\ k \in 0 .. Len(t)
      BY <1>1
    <3> QED BY <1>2, <1>3, <2>1, <3>1, ElementOfSeq
  <2>3. CASE k = 1
    <3>1. g[1] = g[0] + t[1] /\ f[1] = f[0] + s[1]
      BY <1>2, <1>3, <2>1, <2>3
    <3>2. s[1] \in Nat
      BY <2>2, <2>3
    <3> QED BY <1>2, <1>3, <2>1, <2>2, <2>3, <3>1, <3>2
  <2>4. CASE k # 1
    <3>1. k \in 2 .. Len(s) /\ k - 1 >= 1 /\ (k - 1) + 1 = k
      BY <1>1, <2>4
    <3>2. g[k] = f[k - 1] + c /\ t[k + 1] = s[k]
      BY <1>5, <3>1
    <3> QED BY <2>1, <2>2, <3>2
  <2> QED BY <2>3, <2>4
<1> HIDE DEF S
<1>6. 0 .. Len(s) \subseteq S
  BY <1>1, <1>4, <1>5, UpTo
<1>7. Len(s) \in S /\ Len(s) >= 1 /\ Len(s) + 1 = Len(t)
  <2>1. Len(s) \in 0 .. Len(s) /\ Len(s) >= 1 /\ Len(s) + 1 = Len(t)
    BY <1>1
  <2> QED BY <1>6, <2>1
<1> QED BY <1>2, <1>3, <1>7 DEF S

\* The letters of a few texts.
LEMMA LengthFacts ==
  /\ \A texts \in Seq(Text) : Length(texts) \in Nat
  /\ \A a \in Text : Length(<<a>>) = Letters[a]
  /\ \A a \in Text : \A b \in Text : Length(<<a, b>>) = Letters[a] + Letters[b]
<1>1. \A a \in Text : Letters[a] \in Nat
  BY TextAssumption
<1>2. ASSUME NEW texts \in Seq(Text) PROVE Length(texts) \in Nat
  <2>1. Len(texts) \in Nat /\ \A n \in 1 .. Len(texts) : texts[n] \in Text
    BY LenProperties, ElementOfSeq
  <2>2. [n \in 1 .. Len(texts) |-> Letters[texts[n]]] \in Seq(Nat)
    BY <1>1, <2>1, IsASeq
  <2> QED BY <2>2, SumFacts DEF Length
<1>3. ASSUME NEW a \in Text PROVE Length(<<a>>) = Letters[a]
  <2> DEFINE s == [n \in 1 .. Len(<<a>>) |-> Letters[<<a>>[n]]]
  <2>1. s = <<Letters[a]>>
    OBVIOUS
  <2>2. s \in Seq(Nat) /\ Len(s) = 1 /\ s[1] = Letters[a]
    BY <1>1, <2>1
  <2>3. Length(<<a>>) = Sum(s)
    BY DEF Length
  <2> HIDE DEF s
  <2> QED BY <2>2, <2>3, SumOfFew
<1>4. ASSUME NEW a \in Text, NEW b \in Text PROVE Length(<<a, b>>) = Letters[a] + Letters[b]
  <2> DEFINE s == [n \in 1 .. Len(<<a, b>>) |-> Letters[<<a, b>>[n]]]
  <2>1. s = <<Letters[a], Letters[b]>>
    OBVIOUS
  <2>2. s \in Seq(Nat) /\ Len(s) = 2 /\ s[1] = Letters[a] /\ s[2] = Letters[b]
    BY <1>1, <2>1
  <2>3. Length(<<a, b>>) = Sum(s)
    BY DEF Length
  <2> HIDE DEF s
  <2> QED BY <2>2, <2>3, SumOfFew
<1> QED BY <1>2, <1>3, <1>4

\* The memory that is counted for one program is what its texts take.
Needed(texts) == Sum([n \in 1 .. Len(texts) |-> Length(texts[n]) + 1])

\* For an application.
LEMMA RunFits ==
  ASSUME NEW m \in Text, NEW e \in Text, other_args \in Seq(Text), other_args # <<>>
  PROVE  /\ ForRun(m, e) \in Seq(Seq(Text)) /\ RoomForRun(m, e) \in Nat
         /\ Needed(ForRun(m, e)) = RoomForRun(m, e)
<1> DEFINE o == other_args
           front == <<<<o[1]>>, <<m, e>>>>
           rest == [n \in 1 .. Len(o) - 1 |-> <<o[n + 1]>>]
           texts == front \o rest
           s == [n \in 1 .. Len(o) |-> Letters[o[n]] + 1]
           c == Letters[m] + Letters[e] + 1
           t == [n \in 1 .. Len(texts) |-> Length(texts[n]) + 1]
<1>1. Len(o) \in Nat \ {0} /\ \A n \in 1 .. Len(o) : o[n] \in Text
  BY EmptySeq, ElementOfSeq
<1> HIDE DEF o
<1>2. c \in Nat /\ \A n \in 1 .. Len(o) : Letters[o[n]] \in Nat
  BY <1>1, TextAssumption
<1>3. front \in Seq(Seq(Text)) /\ Len(front) = 2 /\ front[1] = <<o[1]>> /\ front[2] = <<m, e>>
  <2>1. <<o[1]>> \in Seq(Text) /\ <<m, e>> \in Seq(Text)
    BY <1>1
  <2> QED BY <2>1
<1>4. rest \in Seq(Seq(Text)) /\ Len(rest) = Len(o) - 1 /\ \A n \in 1 .. Len(rest) : rest[n] = <<o[n + 1]>>
  <2>1. \A n \in 1 .. Len(o) - 1 : <<o[n + 1]>> \in Seq(Text)
    BY <1>1
  <2>2. Len(o) - 1 \in Nat
    BY <1>1
  <2>3. rest \in Seq(Seq(Text))
    BY <2>1, <2>2, IsASeq
  <2> QED BY <2>2, <2>3
<1> HIDE DEF front, rest
<1>5. /\ texts \in Seq(Seq(Text)) /\ Len(texts) = Len(o) + 1
      /\ texts[1] = <<o[1]>> /\ texts[2] = <<m, e>>
      /\ \A k \in 2 .. Len(o) : texts[k + 1] = <<o[k]>>
  <2>1. /\ texts \in Seq(Seq(Text)) /\ Len(texts) = Len(front) + Len(rest)
        /\ \A n \in 1 .. Len(front) : texts[n] = front[n]
        /\ \A n \in 1 .. Len(rest) : texts[Len(front) + n] = rest[n]
    <3>1. ASSUME NEW x \in Seq(Seq(Text)), NEW y \in Seq(Seq(Text))
          PROVE  /\ x \o y \in Seq(Seq(Text)) /\ Len(x \o y) = Len(x) + Len(y)
                 /\ \A n \in 1 .. Len(x) : (x \o y)[n] = x[n]
                 /\ \A n \in 1 .. Len(y) : (x \o y)[Len(x) + n] = y[n]
      BY Joined
    <3>2. front \in Seq(Seq(Text)) /\ rest \in Seq(Seq(Text))
      BY <1>3, <1>4
    <3> QED BY <3>1, <3>2, Zenon
  <2> HIDE DEF texts
  <2>2. Len(texts) = Len(o) + 1
    BY <1>1, <1>3, <1>4, <2>1
  <2>3. texts[1] = <<o[1]>> /\ texts[2] = <<m, e>>
    BY <1>3, <2>1
  <2>4. ASSUME NEW k \in 2 .. Len(o) PROVE texts[k + 1] = <<o[k]>>
    <3>1. k - 1 \in 1 .. Len(rest) /\ (k - 1) + 1 = k /\ 2 + (k - 1) = k + 1
      BY <1>1, <1>4
    <3>2. texts[Len(front) + (k - 1)] = <<o[(k - 1) + 1]>>
      BY <1>4, <2>1, <3>1
    <3> QED BY <1>3, <3>1, <3>2
  <2> QED BY <2>1, <2>2, <2>3, <2>4
<1> HIDE DEF texts
<1>6. s \in Seq(Nat) /\ Len(s) = Len(o) /\ \A k \in 1 .. Len(o) : s[k] = Letters[o[k]] + 1
  <2>1. \A n \in 1 .. Len(o) : Letters[o[n]] + 1 \in Nat
    BY <1>2
  <2>2. s \in Seq(Nat)
    BY <1>1, <2>1, IsASeq
  <2> QED BY <1>1, <2>2
<1>7. t \in Seq(Nat) /\ Len(t) = Len(o) + 1 /\ \A n \in 1 .. Len(o) + 1 : t[n] = Length(texts[n]) + 1
  <2>1. \A n \in 1 .. Len(texts) : Length(texts[n]) + 1 \in Nat
    BY <1>5, LengthFacts, ElementOfSeq
  <2>2. Len(texts) \in Nat
    BY <1>1, <1>5
  <2>3. t \in Seq(Nat)
    BY <2>1, <2>2, IsASeq
  <2> QED BY <1>1, <1>5, <2>3
<1> HIDE DEF c
<1>8. s # <<>>
  <2>1. Len(s) # Len(<<>>)
    BY <1>1, <1>6, EmptySeq
  <2> QED BY <2>1, Zenon
<1>9. t[1] = s[1] /\ t[2] = c /\ \A k \in 2 .. Len(s) : t[k + 1] = s[k]
  <2>1. t[1] = s[1]
    <3>1. Length(<<o[1]>>) = Letters[o[1]] /\ 1 \in 1 .. Len(o) /\ 1 \in 1 .. Len(o) + 1
      BY <1>1, LengthFacts
    <3> HIDE DEF t, s
    <3>2. t[1] = Length(texts[1]) + 1
      BY <1>7, <3>1
    <3>3. s[1] = Letters[o[1]] + 1
      BY <1>6, <3>1
    <3>4. Length(texts[1]) = Letters[o[1]]
      BY <1>5, <3>1
    <3> QED BY <3>2, <3>3, <3>4
  <2>2. t[2] = c
    <3>1. Length(<<m, e>>) = Letters[m] + Letters[e] /\ 2 \in 1 .. Len(o) + 1
      BY <1>1, LengthFacts
    <3> HIDE DEF t, s
    <3> QED BY <1>5, <1>7, <3>1 DEF c
  <2>3. ASSUME NEW k \in 2 .. Len(s) PROVE t[k + 1] = s[k]
    <3>1. k \in 2 .. Len(o) /\ k \in 1 .. Len(o) /\ k + 1 \in 1 .. Len(o) + 1
      BY <1>1, <1>6
    <3>2. Length(<<o[k]>>) = Letters[o[k]]
      BY <1>1, <3>1, LengthFacts
    <3> HIDE DEF t, s
    <3> QED BY <1>5, <1>6, <1>7, <3>1, <3>2
  <2> QED BY <2>1, <2>2, <2>3
<1>10. Sum(t) = Sum(s) + c
  <2> HIDE DEF t, s
  <2>1. Len(t) = Len(s) + 1
    BY <1>6, <1>7
  <2> QED BY <1>2, <1>6, <1>7, <1>8, <1>9, <2>1, SumShifted
<1>11. Needed(ForRun(m, e)) = Sum(t)
  BY DEF Needed, ForRun, t, texts, front, rest, o
<1>12. RoomForRun(m, e) = c + Sum(s)
  BY DEF RoomForRun, s, c, o
<1>13. Sum(s) \in Nat
  BY <1>6, SumFacts
<1>14. ForRun(m, e) = texts
  BY DEF ForRun, texts, front, rest, o
<1> QED BY <1>2, <1>5, <1>10, <1>11, <1>12, <1>13, <1>14

\* For the copy of an image.
LEMMA ExtractFits ==
  ASSUME NEW m \in Text, argv \in Argv, extract_folder \in Text
  PROVE  /\ ForExtract(m) \in Seq(Seq(Text)) /\ RoomForExtract(m) \in Nat
         /\ Needed(ForExtract(m)) = RoomForExtract(m)
<1> DEFINE a == argv[1].text
           three == <<CopyEntry, m, extract_folder>>
           texts == <<<<a>>, <<DashE>>, three>>
           t == [n \in 1 .. Len(texts) |-> Length(texts[n]) + 1]
<1>1. a \in Text
  <2>1. argv \in Seq(Arg) /\ argv # <<>>
    BY ArgvAssumption
  <2>2. 1 \in 1 .. Len(argv)
    BY <2>1, EmptySeq
  <2>3. argv[1] \in Arg
    BY <2>1, <2>2, ElementOfSeq
  <2> QED BY <2>3 DEF Arg
<1> HIDE DEF a
<1>2. /\ DashE \in Text /\ CopyEntry \in Text /\ Letters[DashE] = 2 /\ Letters[a] \in Nat
  BY <1>1, TextAssumption
<1>3. three \in Seq(Text) /\ Length(three) \in Nat
  <2>1. three \in Seq(Text)
    BY <1>2
  <2> HIDE DEF three
  <2> QED BY <2>1, LengthFacts
<1> HIDE DEF three
<1>4. texts \in Seq(Seq(Text)) /\ Len(texts) = 3
  <2>1. <<a>> \in Seq(Text) /\ <<DashE>> \in Seq(Text)
    BY <1>1, <1>2
  <2> QED BY <1>3, <2>1
<1>5. t \in Seq(Nat) /\ Len(t) = 3 /\ t[1] = Letters[a] + 1 /\ t[2] = 3 /\ t[3] = Length(three) + 1
  <2>1. Length(<<a>>) = Letters[a] /\ Length(<<DashE>>) = 2
    BY <1>1, <1>2, LengthFacts
  <2>2. t = <<Letters[a] + 1, 3, Length(three) + 1>>
    BY <1>4, <2>1
  <2> QED BY <1>2, <1>3, <2>2
<1>6. Needed(ForExtract(m)) = Sum(t)
  BY DEF Needed, ForExtract, a, three
<1>7. ForExtract(m) = texts /\ RoomForExtract(m) = 3 + Length(three) + 1 + Letters[a] + 1
  BY DEF ForExtract, RoomForExtract, a, three
<1> HIDE DEF t, texts
<1>8. Sum(t) = (Letters[a] + 1) + 3 + (Length(three) + 1)
  BY <1>5, SumOfFew
<1>9. RoomForExtract(m) \in Nat /\ Sum(t) = RoomForExtract(m)
  <2> DEFINE k == Length(three)
  <2>1. k \in Nat /\ Sum(t) = (Letters[a] + 1) + 3 + (k + 1) /\ RoomForExtract(m) = 3 + k + 1 + Letters[a] + 1
    BY <1>3, <1>7, <1>8
  <2> HIDE DEF k
  <2> QED BY <1>2, <2>1
<1> QED BY <1>4, <1>6, <1>7, <1>9

--------------------------------------------------------------------------------
(* The types.                                                                *)

\* The program's name is kept first; nothing is mounted while arguments are looked at; and
\* an image that is about to be mounted is one, and has its buffer.
NameKept == other_args # <<>> \/ (stage = "parse" /\ i = 1)
Loaded == item <= Len(mountpoints) /\ ~IsRefused /\ There.separator = ">"
MountInv == /\ stage = "parse" => item = 1 /\ points = {} /\ package = None
            /\ stage = "mount" => Loaded
            /\ stage \in {"mount", "release", "unwind"} => buffer \in Address
CmdTyped == CmdTypeOK /\ NameKept /\ MountInv

\* A value that is there is a text, and behind it the arguments go on or end.
LEMMA ValueFacts ==
  ASSUME argv \in Argv, i \in 1 .. Len(argv) + 1, i <= Len(argv)
  PROVE  /\ Len(argv) \in Nat \ {0} /\ i \in 1 .. Len(argv) /\ argv[1].key = "other"
         /\ \A n \in 1 .. Len(argv) : argv[n] \in Arg /\ argv[n].text \in Text /\ argv[n].eq \in BOOLEAN
         /\ i + 1 \in 1 .. Len(argv) + 1
         /\ HasValue => Value \in Text /\ (~argv[i].eq => i + 1 \in 1 .. Len(argv) /\ i + 2 \in 1 .. Len(argv) + 1)
<1>1. argv \in Seq(Arg) /\ argv # <<>> /\ argv[1].key = "other"
  BY ArgvAssumption
<1>2. Len(argv) \in Nat \ {0}
  BY <1>1, EmptySeq
<1>3. ASSUME NEW n \in 1 .. Len(argv)
      PROVE argv[n] \in Arg /\ argv[n].text \in Text /\ argv[n].eq \in BOOLEAN
  <2>1. argv[n] \in Arg
    BY <1>1, ElementOfSeq
  <2> QED BY <2>1 DEF Arg
<1>4. i \in 1 .. Len(argv) /\ i + 1 \in 1 .. Len(argv) + 1
  BY <1>2
<1>5. ASSUME HasValue
      PROVE Value \in Text /\ (~argv[i].eq => i + 1 \in 1 .. Len(argv) /\ i + 2 \in 1 .. Len(argv) + 1)
  <2>1. CASE argv[i].eq
    BY <1>3, <1>4, <2>1 DEF Value
  <2>2. CASE ~argv[i].eq
    <3>1. i < Len(argv)
      BY <1>5, <2>2 DEF HasValue
    <3>2. i + 1 \in 1 .. Len(argv) /\ i + 2 \in 1 .. Len(argv) + 1
      BY <1>2, <3>1
    <3> QED BY <1>3, <2>2, <3>2 DEF Value
  <2> QED BY <2>1, <2>2
<1> QED BY <1>1, <1>2, <1>3, <1>4, <1>5

\* What the options leave alone.
LEMMA KeepTyped ==
  ASSUME CmdTyped, Keep, stage = "parse", stage' \in {"parse", "parsed", "error"},
         i' \in 1 .. Len(argv) + 1, mountpoints' \in Seq(Text), other_args' \in Seq(Text),
         app_image' \in Text \cup {None}, run' \in BOOLEAN, extract_folder' \in Text \cup {None},
         other_args' # <<>>
  PROVE  CmdTyped'
<1>1. /\ UNCHANGED <<argv, package, descriptor, item, points, images, heap, buffer, new>>
      /\ item = 1 /\ points = {} /\ package = None
  BY DEF Keep, mounted, CmdTyped, MountInv
<1>2. 1 \in 1 .. Len(mountpoints') + 1
  BY LenProperties
<1>3. CmdTypeOK'
  <2>1. stage' \in {"parse", "parsed", "item", "mount", "release", "unwind", "mounted", "built", "error"}
    OBVIOUS
  <2> QED BY <1>1, <1>2, <2>1 DEF CmdTyped, CmdTypeOK
<1>4. MountInv'
  BY <1>1 DEF MountInv
<1> QED BY <1>3, <1>4 DEF CmdTyped, NameKept

\* The arguments are looked at.
LEMMA ParsingTyped == CmdTyped /\ Parsing => CmdTyped'
<1> SUFFICES ASSUME CmdTyped, Parsing PROVE CmdTyped'
  OBVIOUS
<1>1. /\ argv \in Argv /\ i \in 1 .. Len(argv) + 1 /\ mountpoints \in Seq(Text)
      /\ other_args \in Seq(Text) /\ app_image \in Text \cup {None} /\ run \in BOOLEAN
      /\ extract_folder \in Text \cup {None}
  BY DEF CmdTyped, CmdTypeOK
<1>2. ASSUME NEW key, Looking(key)
      PROVE  /\ stage = "parse" /\ i <= Len(argv) /\ i + 1 \in 1 .. Len(argv) + 1
             /\ argv[i].text \in Text /\ (key # "other" => other_args # <<>>)
             /\ HasValue => Value \in Text
             /\ HasValue /\ PastValue => i' \in 1 .. Len(argv) + 1
  <2>1. stage = "parse" /\ i <= Len(argv) /\ argv[i].key = key
    BY <1>2 DEF Looking
  <2>2. /\ i \in 1 .. Len(argv) /\ argv[i].text \in Text /\ i + 1 \in 1 .. Len(argv) + 1
        /\ argv[1].key = "other" /\ (HasValue => Value \in Text)
        /\ (HasValue /\ ~argv[i].eq => i + 2 \in 1 .. Len(argv) + 1)
    BY <1>1, <2>1, ValueFacts
  <2>3. ASSUME key # "other" PROVE other_args # <<>>
    <3>1. i # 1
      BY <2>1, <2>2, <2>3
    <3> QED BY <3>1 DEF CmdTyped, NameKept
  <2>4. ASSUME HasValue, PastValue PROVE i' \in 1 .. Len(argv) + 1
    BY <2>2, <2>4 DEF PastValue
  <2> QED BY <2>1, <2>2, <2>3, <2>4
<1>3. CASE ParseRun
  <2>1. Looking("run") /\ HasValue /\ PastValue /\ run' = TRUE /\ app_image' = Value
        /\ UNCHANGED <<mountpoints, other_args, extract_folder, stage>> /\ Keep
    BY <1>3 DEF ParseRun
  <2>2. /\ stage = "parse" /\ other_args # <<>> /\ Value \in Text /\ i' \in 1 .. Len(argv) + 1
    BY <1>2, <2>1
  <2>3. stage' \in {"parse", "parsed", "error"}
    BY <2>1, <2>2
  <2> QED BY <1>1, <2>1, <2>2, <2>3, KeepTyped
<1>4. CASE ParseMount
  <2>1. Looking("mount") /\ HasValue /\ PastValue /\ mountpoints' = Append(mountpoints, Value)
        /\ UNCHANGED <<other_args, app_image, run, extract_folder, stage>> /\ Keep
    BY <1>4 DEF ParseMount
  <2>2. /\ stage = "parse" /\ other_args # <<>> /\ Value \in Text /\ i' \in 1 .. Len(argv) + 1
    BY <1>2, <2>1
  <2>3. stage' \in {"parse", "parsed", "error"} /\ mountpoints' \in Seq(Text)
    BY <1>1, <2>1, <2>2, AppendProperties
  <2> QED BY <1>1, <2>1, <2>2, <2>3, KeepTyped
<1>5. CASE ParseExtract
  <2>1. /\ Looking("extract") /\ extract_folder' = IF HasValue THEN Value ELSE SourceFilesystem
        /\ stage' = "parsed" /\ UNCHANGED <<i, mountpoints, other_args, app_image, run>> /\ Keep
    BY <1>5 DEF ParseExtract
  <2>2. stage = "parse" /\ other_args # <<>> /\ (HasValue => Value \in Text)
    BY <1>2, <2>1
  <2>3. extract_folder' \in Text \cup {None}
    BY <2>1, <2>2, TextAssumption
  <2> QED BY <1>1, <2>1, <2>2, <2>3, KeepTyped
<1>6. CASE ParseOther
  <2>1. /\ Looking("other") /\ other_args' = Append(other_args, argv[i].text) /\ i' = i + 1
        /\ UNCHANGED <<mountpoints, app_image, run, extract_folder, stage>> /\ Keep
    BY <1>6 DEF ParseOther, OneOn
  <2>2. stage = "parse" /\ argv[i].text \in Text /\ i' \in 1 .. Len(argv) + 1
    BY <1>2, <2>1
  <2>3. other_args' \in Seq(Text) /\ other_args' # <<>>
    <3>1. other_args' \in Seq(Text) /\ Len(other_args') = Len(other_args) + 1 /\ Len(other_args) \in Nat
      BY <1>1, <2>1, <2>2, AppendProperties, LenProperties
    <3>2. Len(other_args') # Len(<<>>)
      BY <3>1, EmptySeq
    <3>3. other_args' # <<>>
      BY <3>2, Zenon
    <3> QED BY <3>1, <3>3
  <2>4. stage' \in {"parse", "parsed", "error"}
    BY <2>1, <2>2
  <2> QED BY <1>1, <2>1, <2>2, <2>3, <2>4, KeepTyped
<1>7. CASE ParseThrows
  <2>1. /\ Looking("run") \/ Looking("mount")
        /\ run' = (run \/ (Looking("run") /\ ~argv[i].eq)) /\ stage' = "error"
        /\ UNCHANGED <<i, mountpoints, other_args, app_image, extract_folder>> /\ Keep
    BY <1>7 DEF ParseThrows
  <2>2. stage = "parse" /\ other_args # <<>>
    BY <1>2, <2>1
  <2>3. run' \in BOOLEAN
    BY <2>1
  <2> QED BY <1>1, <2>1, <2>2, <2>3, KeepTyped
<1>8. CASE ParseEnds
  <2>1. /\ stage = "parse" /\ i > Len(argv) /\ stage' = "parsed"
        /\ UNCHANGED <<i, mountpoints, other_args, app_image, run, extract_folder>> /\ Keep
    BY <1>8 DEF ParseEnds, parsed
  <2>2. other_args # <<>>
    <3>1. argv # <<>> /\ argv \in Seq(Arg)
      BY <1>1, ArgvAssumption
    <3>2. Len(argv) \in Nat \ {0}
      BY <3>1, EmptySeq
    <3>3. i # 1
      BY <2>1, <3>2
    <3> QED BY <3>3 DEF CmdTyped, NameKept
  <2> QED BY <1>1, <2>1, <2>2, KeepTyped
<1> QED BY <1>3, <1>4, <1>5, <1>6, <1>7, <1>8 DEF Parsing

\* The package is read.
LEMMA PackageTyped == CmdTyped /\ ProcessPackage => CmdTyped'
<1> SUFFICES ASSUME CmdTyped, ProcessPackage PROVE CmdTyped'
  OBVIOUS
<1> DEFINE found == app_image \in DOMAIN Made
<1>1. /\ stage = "parsed" /\ stage' \in {"parsed", "error"}
      /\ UNCHANGED <<argv, i, mountpoints, other_args, app_image, run, extract_folder,
                     item, points, images, heap, buffer, new>>
      /\ package' = IF found THEN PackageFile(app_image) ELSE None
      /\ descriptor' = IF found THEN Parse(PackageFile(app_image)) ELSE None
  BY DEF ProcessPackage, parsed, mounted
<1>2. package' \in String \cup {None} /\ descriptor' \in Descriptor \cup {None}
  BY <1>1, PackageFacts, ParseType
<1>3. CmdTypeOK'
  <2>1. stage' \in {"parse", "parsed", "item", "mount", "release", "unwind", "mounted", "built", "error"}
    BY <1>1
  <2> QED BY <1>1, <1>2, <2>1 DEF CmdTyped, CmdTypeOK
<1>4. MountInv'
  BY <1>1 DEF MountInv
<1>5. NameKept'
  BY <1>1 DEF CmdTyped, NameKept
<1> QED BY <1>3, <1>4, <1>5 DEF CmdTyped

\* The rule that is looked at.
LEMMA ThereFacts ==
  ASSUME CmdTyped, item <= Len(mountpoints)
  PROVE  /\ item \in 1 .. Len(mountpoints) /\ item + 1 \in 1 .. Len(mountpoints) + 1
         /\ There \in Rule /\ There.target \in Text /\ There.name \in Text
         /\ ~IsRefused => At \in Nat \X Text
         /\ ~IsRefused /\ There.separator = ">" => There.target \in ImageFile
         /\ ~IsRefused => There.separator \in {":", ">"}
<1>1. mountpoints \in Seq(Text) /\ item \in 1 .. Len(mountpoints) + 1
  BY DEF CmdTyped, CmdTypeOK
<1>2. Len(mountpoints) \in Nat
  BY <1>1, LenProperties
<1>3. item \in 1 .. Len(mountpoints) /\ item + 1 \in 1 .. Len(mountpoints) + 1
  BY <1>1, <1>2
<1>4. There \in Rule
  BY <1>1, <1>3, ElementOfSeq, TextAssumption DEF There
<1> HIDE DEF There
<1>5. /\ There.separator \in {":", ">", "none"} /\ There.folder \in Text /\ There.name \in Text
      /\ There.target \in Text
  BY <1>4 DEF Rule
<1>6. Folder[There.folder] \in Nat \cup {None}
  BY <1>5, PointAssumption
<1>7. ASSUME ~IsRefused
      PROVE /\ At \in Nat \X Text /\ There.separator \in {":", ">"}
            /\ There.separator = ">" => There.target \in ImageFile
  BY <1>5, <1>6, <1>7 DEF IsRefused, At
<1> QED BY <1>3, <1>4, <1>5, <1>7

\* The rules are gone through.
LEMMA MountingTyped == CmdTyped /\ Mounting => CmdTyped'
<1> SUFFICES ASSUME CmdTyped, Mounting PROVE CmdTyped'
  OBVIOUS
<1>1. CmdTypeOK /\ NameKept /\ MountInv
  BY DEF CmdTyped
<1>2. ASSUME KeepArguments, UNCHANGED mounted, stage # "parse",
             stage' \in {"item", "mounted", "error"}
      PROVE  CmdTyped'
  <2>1. UNCHANGED <<argv, i, mountpoints, other_args, app_image, run, extract_folder,
                    package, descriptor, item, points, images, heap, buffer, new>>
    BY <1>2 DEF KeepArguments, parsed, mounted
  <2>2. CmdTypeOK'
    <3>1. stage' \in {"parse", "parsed", "item", "mount", "release", "unwind", "mounted", "built", "error"}
      BY <1>2
    <3> QED BY <1>1, <2>1, <3>1 DEF CmdTypeOK
  <2>3. MountInv'
    BY <1>2, <2>1 DEF MountInv
  <2>4. NameKept'
    BY <1>1, <1>2, <2>1 DEF NameKept
  <2> QED BY <2>2, <2>3, <2>4 DEF CmdTyped
<1>3. ASSUME KeepArguments, stage # "parse"
      PROVE  /\ NameKept'
             /\ UNCHANGED <<argv, i, mountpoints, other_args, app_image, run, extract_folder,
                            package, descriptor, new>>
  BY <1>1, <1>3 DEF KeepArguments, parsed, NameKept
<1>4. CASE ProcessMountpoints
  BY <1>2, <1>4 DEF ProcessMountpoints
<1>5. CASE RefuseItem
  BY <1>2, <1>5 DEF RefuseItem, Item
<1>6. CASE MountsEnd
  BY <1>2, <1>6 DEF MountsEnd
<1>7. CASE MountFolder
  <2>1. /\ stage = "item" /\ stage' = "item" /\ item <= Len(mountpoints) /\ ~IsRefused
        /\ points' = IF IsTaken THEN points ELSE points \cup {[at |-> At, to |-> There.target]}
        /\ item' = item + 1 /\ UNCHANGED <<images, heap, buffer>> /\ KeepArguments
    BY <1>7 DEF MountFolder, Item
  <2>2. At \in Nat \X Text /\ There.target \in Text /\ item + 1 \in 1 .. Len(mountpoints) + 1
    BY <2>1, ThereFacts
  <2>3. \A p \in points' : p.at \in Nat \X Text /\ p.to \in Text
    BY <1>1, <2>1, <2>2 DEF CmdTypeOK
  <2>4. CmdTypeOK'
    BY <1>1, <1>3, <2>1, <2>2, <2>3 DEF CmdTypeOK
  <2>5. MountInv'
    BY <2>1 DEF MountInv
  <2> QED BY <1>3, <2>1, <2>4, <2>5 DEF CmdTyped
<1>8. CASE ReadImage
  <2>1. /\ stage = "item" /\ stage' = "mount" /\ item <= Len(mountpoints) /\ ~IsRefused
        /\ There.separator = ">"
        /\ UNCHANGED <<item, points, images>> /\ KeepArguments
    BY <1>8 DEF ReadImage, Item
  <2>2. PICK a \in Address \ heap : heap' = heap \cup {a} /\ buffer' = a
    BY <1>8 DEF ReadImage
  <2>3. CmdTypeOK'
    BY <1>1, <1>3, <2>1, <2>2 DEF CmdTypeOK
  <2>4. Loaded'
    BY <1>3, <2>1 DEF Loaded, IsRefused, There
  <2>5. MountInv'
    BY <2>1, <2>2, <2>4 DEF MountInv
  <2> QED BY <1>3, <2>1, <2>3, <2>5 DEF CmdTyped
<1>9. CASE MountImage
  <2>1. /\ stage = "mount" /\ images' = images \cup {Image(There.target, buffer)}
        /\ IF IsTaken THEN stage' = "unwind" /\ UNCHANGED <<points, item>>
           ELSE /\ stage' = "release" /\ item' = item + 1
                /\ points' = points \cup {[at |-> At, to |-> There.target]}
        /\ UNCHANGED <<heap, buffer>> /\ KeepArguments
    BY <1>9 DEF MountImage
  <2>2. item <= Len(mountpoints) /\ ~IsRefused /\ There.separator = ">" /\ buffer \in Address
    BY <1>1, <2>1 DEF MountInv, Loaded
  <2>3. /\ At \in Nat \X Text /\ There.target \in Text /\ There.target \in ImageFile
        /\ item + 1 \in 1 .. Len(mountpoints) + 1
    BY <2>2, ThereFacts
  <2>4. \A p \in points' : p.at \in Nat \X Text /\ p.to \in Text
    BY <1>1, <2>1, <2>3 DEF CmdTypeOK
  <2>5. \A m \in images' : m.file \in ImageFile /\ m.buffer \in Address
    BY <1>1, <2>1, <2>2, <2>3 DEF CmdTypeOK, Image
  <2>6. item' \in 1 .. Len(mountpoints) + 1 /\ stage' \in {"unwind", "release"}
    BY <1>1, <2>1, <2>3 DEF CmdTypeOK
  <2>7. CmdTypeOK'
    BY <1>1, <1>3, <2>1, <2>4, <2>5, <2>6 DEF CmdTypeOK
  <2>8. MountInv'
    BY <2>1, <2>2, <2>6 DEF MountInv
  <2> QED BY <1>3, <2>1, <2>7, <2>8 DEF CmdTyped
<1>10. CASE LoadFails
  <2>1. /\ stage = "mount" /\ stage' = "unwind"
        /\ UNCHANGED <<item, points, images, heap, buffer>> /\ KeepArguments
    BY <1>10 DEF LoadFails
  <2>2. CmdTypeOK'
    BY <1>1, <1>3, <2>1 DEF CmdTypeOK
  <2>3. MountInv'
    BY <1>1, <2>1 DEF MountInv
  <2> QED BY <1>3, <2>1, <2>2, <2>3 DEF CmdTyped
<1>11. CASE EndOfBody
  <2>1. /\ stage \in {"release", "unwind"} /\ heap' = heap \ {buffer} /\ buffer' = None
        /\ stage' \in {"item", "error"} /\ UNCHANGED <<item, points, images>> /\ KeepArguments
    BY <1>11 DEF EndOfBody
  <2>2. CmdTypeOK'
    <3>1. stage' \in {"parse", "parsed", "item", "mount", "release", "unwind", "mounted", "built", "error"}
      BY <2>1
    <3> QED BY <1>1, <1>3, <2>1, <3>1 DEF CmdTypeOK
  <2>3. MountInv'
    BY <2>1 DEF MountInv
  <2> QED BY <1>3, <2>1, <2>2, <2>3 DEF CmdTyped
<1> QED BY <1>4, <1>5, <1>6, <1>7, <1>8, <1>9, <1>10, <1>11 DEF Mounting

\* The arguments are built, and fit.
LEMMA BuildTyped ==
  ASSUME CmdTyped, NEW p \in Point, BuildArguments(p[1], p[2])
  PROVE  CmdTyped' /\ ArgumentsFit'
<1> DEFINE m == p[1]
           e == p[2]
<1>1. m \in Text /\ e \in Text
  BY PointAssumption
<1>2. CmdTypeOK /\ NameKept /\ stage = "mounted" /\ stage' \in {"error", "built"}
  BY DEF CmdTyped, BuildArguments
<1>3. UNCHANGED <<argv, i, mountpoints, other_args, app_image, run, extract_folder,
                  package, descriptor, item, points, images, heap, buffer>>
  BY DEF BuildArguments, parsed, mounted
<1>4. \/ stage' = "error" /\ UNCHANGED new
      \/ new' = [texts |-> IF extract_folder # None THEN ForExtract(m) ELSE ForRun(m, e),
                 room |-> IF extract_folder # None THEN RoomForExtract(m) ELSE RoomForRun(m, e),
                 point |-> <<m, e>>]
  BY DEF BuildArguments
<1> HIDE DEF m, e
<1>5. other_args \in Seq(Text) /\ other_args # <<>> /\ argv \in Argv /\ extract_folder \in Text \cup {None}
  BY <1>2 DEF CmdTypeOK, NameKept
<1>6. /\ ForRun(m, e) \in Seq(Seq(Text)) /\ RoomForRun(m, e) \in Nat
      /\ Needed(ForRun(m, e)) = RoomForRun(m, e)
  BY <1>1, <1>5, RunFits
<1>7. extract_folder # None =>
        /\ ForExtract(m) \in Seq(Seq(Text)) /\ RoomForExtract(m) \in Nat
        /\ Needed(ForExtract(m)) = RoomForExtract(m)
  BY <1>1, <1>5, ExtractFits
<1>8. CASE stage' = "error" /\ UNCHANGED new
  <2>1. CmdTypeOK'
    BY <1>2, <1>3, <1>8 DEF CmdTypeOK
  <2>2. MountInv'
    BY <1>8 DEF MountInv
  <2>3. NameKept'
    BY <1>3, <1>5 DEF NameKept
  <2> QED BY <1>8, <2>1, <2>2, <2>3 DEF CmdTyped, ArgumentsFit
<1>9. CASE new' = [texts |-> IF extract_folder # None THEN ForExtract(m) ELSE ForRun(m, e),
                   room |-> IF extract_folder # None THEN RoomForExtract(m) ELSE RoomForRun(m, e),
                   point |-> <<m, e>>]
  <2>1. new'.texts \in Seq(Seq(Text)) /\ new'.room \in Nat /\ Needed(new'.texts) = new'.room
    BY <1>6, <1>7, <1>9
  <2>2. CmdTypeOK'
    <3>1. stage' \in {"parse", "parsed", "item", "mount", "release", "unwind", "mounted", "built", "error"}
      BY <1>2
    <3> QED BY <1>2, <1>3, <2>1, <3>1 DEF CmdTypeOK
  <2>3. MountInv'
    BY <1>2 DEF MountInv
  <2>4. NameKept'
    BY <1>3, <1>5 DEF NameKept
  <2>5. ArgumentsFit'
    <3>1. new'.room <= new'.room
      BY <2>1
    <3> QED BY <2>1, <3>1 DEF ArgumentsFit, Needed
  <2> QED BY <2>2, <2>3, <2>4, <2>5 DEF CmdTyped
<1> QED BY <1>4, <1>8, <1>9

\* It begins typed.
LEMMA InitTyped == CmdInit => CmdTyped /\ ArgumentsFit
<1> SUFFICES ASSUME CmdInit PROVE CmdTyped /\ ArgumentsFit
  OBVIOUS
<1>1. 1 \in 1 .. Len(argv) + 1 /\ <<>> \in Seq(Text) /\ 1 \in 1 .. Len(<<>>) + 1
  <2>1. argv \in Seq(Arg)
    BY ArgvAssumption DEF CmdInit
  <2>2. Len(argv) \in Nat /\ Len(<<>>) = 0
    BY <2>1, LenProperties
  <2> QED BY <2>2
<1>2. CmdTypeOK
  BY <1>1 DEF CmdInit, CmdTypeOK
<1> QED BY <1>2 DEF CmdInit, CmdTyped, NameKept, MountInv, ArgumentsFit

\* Each step keeps the types, and what was built fits.
LEMMA StepTyped == CmdTyped /\ ArgumentsFit /\ [CmdNext]_cmdVars => CmdTyped' /\ ArgumentsFit'
<1> SUFFICES ASSUME CmdTyped, ArgumentsFit, [CmdNext]_cmdVars PROVE CmdTyped' /\ ArgumentsFit'
  OBVIOUS
<1>1. ASSUME UNCHANGED new, stage' = "built" => stage = "built" PROVE ArgumentsFit'
  BY <1>1 DEF ArgumentsFit
<1>2. CASE Parsing
  <2>1. UNCHANGED new /\ stage' # "built"
    BY <1>2 DEF Parsing, ParseRun, ParseMount, ParseExtract, ParseOther, ParseThrows, ParseEnds,
                Keep, Looking
  <2> QED BY <1>1, <1>2, <2>1, ParsingTyped
<1>3. CASE ProcessPackage
  <2>1. UNCHANGED new /\ stage' # "built"
    BY <1>3 DEF ProcessPackage
  <2> QED BY <1>1, <1>3, <2>1, PackageTyped
<1>4. CASE Mounting
  <2>1. UNCHANGED new /\ stage' # "built"
    BY <1>4 DEF Mounting, ProcessMountpoints, RefuseItem, MountFolder, ReadImage, MountImage,
                LoadFails, EndOfBody, MountsEnd, KeepArguments, Item
  <2> QED BY <1>1, <1>4, <2>1, MountingTyped
<1>5. CASE \E p \in Point : BuildArguments(p[1], p[2])
  BY <1>5, BuildTyped
<1>6. CASE UNCHANGED cmdVars
  BY <1>6 DEF cmdVars, parsed, mounted, CmdTyped, CmdTypeOK, NameKept, MountInv, Loaded, IsRefused,
              There, ArgumentsFit
<1> QED BY <1>2, <1>3, <1>4, <1>5, <1>6 DEF CmdNext

\* Whatever the program is called with, its variables have their types (CmdTypeOK).
THEOREM CmdTypeCorrect == CmdSpec => []CmdTypeOK
<1>1. CmdSpec => [](CmdTyped /\ ArgumentsFit)
  BY InitTyped, StepTyped, PTL DEF CmdSpec
<1>2. CmdTyped => CmdTypeOK
  BY DEF CmdTyped
<1> QED BY <1>1, <1>2, PTL

\* What an application is started with fits into the memory that was counted for it, however
\* many arguments are left, and however long they are (build_arguments_for_run and _for_extract).
THEOREM BuiltArgumentsFit == CmdSpec => []ArgumentsFit
<1>1. CmdSpec => [](CmdTyped /\ ArgumentsFit)
  BY InitTyped, StepTyped, PTL DEF CmdSpec
<1> QED BY <1>1, PTL

--------------------------------------------------------------------------------
(* The package and the mount table.                                          *)

\* A package was read once the arguments were, and is that of the application.
PackageInv ==
  package # None =>
    /\ stage # "parse" /\ app_image \in DOMAIN Made
    /\ descriptor = Parse(PackageFile(app_image)) /\ (descriptor = None => stage = "error")

\* Nobody changes a package that was read, and only the error ends it.
LEMMA StepPackage == CmdTyped /\ PackageInv /\ [CmdNext]_cmdVars => PackageInv'
<1> SUFFICES ASSUME CmdTyped, PackageInv, [CmdNext]_cmdVars PROVE PackageInv'
  OBVIOUS
<1>1. CASE Parsing
  <2>1. UNCHANGED package /\ stage = "parse"
    BY <1>1 DEF Parsing, ParseRun, ParseMount, ParseExtract, ParseOther, ParseThrows, ParseEnds,
                Keep, Looking
  <2> QED BY <2>1 DEF PackageInv
<1>2. CASE ProcessPackage
  <2> DEFINE found == app_image \in DOMAIN Made
             bytes == IF found THEN PackageFile(app_image) ELSE None
  <2>1. /\ stage = "parsed" /\ package' = bytes /\ app_image' = app_image
        /\ descriptor' = IF found THEN Parse(bytes) ELSE None
        /\ stage' = IF descriptor' = None THEN "error" ELSE stage
    BY <1>2 DEF ProcessPackage, parsed
  <2> QED BY <2>1 DEF PackageInv
<1>3. CASE Mounting
  <2>1. UNCHANGED <<package, descriptor, app_image>> /\ stage \notin {"parse", "error"} /\ stage' # "parse"
    BY <1>3 DEF Mounting, ProcessMountpoints, RefuseItem, MountFolder, ReadImage, MountImage,
                LoadFails, EndOfBody, MountsEnd, KeepArguments, Item, parsed
  <2> QED BY <2>1 DEF PackageInv
<1>4. CASE \E p \in Point : BuildArguments(p[1], p[2])
  <2>1. UNCHANGED <<package, descriptor, app_image>> /\ stage = "mounted" /\ stage' # "parse"
    BY <1>4 DEF BuildArguments, parsed
  <2> QED BY <2>1 DEF PackageInv
<1>5. CASE UNCHANGED cmdVars
  BY <1>5 DEF cmdVars, parsed, PackageInv
<1> QED BY <1>1, <1>2, <1>3, <1>4, <1>5 DEF CmdNext

\* What was read from the package is what it was made to say.
LEMMA PackageMeaning == PackageInv => PackageIsUnderstood
<1> SUFFICES ASSUME PackageInv, package # None
             PROVE  LET m == Made[app_image]  d == Written(m)
                    IN  IF m.missing > 0 THEN stage = "error"
                        ELSE /\ descriptor.version = d.version
                             /\ descriptor.mount_point = Told(m.mount_point)
                             /\ descriptor.entry_point = Told(m.entry_point)
                             /\ descriptor.cwd = IF m.cwd = None THEN None ELSE Told(m.cwd)
  BY DEF PackageIsUnderstood
<1> DEFINE m == Made[app_image]
           d == Written(m)
<1>1. /\ app_image \in DOMAIN Made /\ descriptor = Parse(PackageFile(app_image))
      /\ (descriptor = None => stage = "error")
  BY DEF PackageInv
<1>2. /\ m.missing \in Nat /\ d.mount_point = m.mount_point /\ d.entry_point = m.entry_point
      /\ d.cwd = m.cwd
  BY <1>1, MakingFacts
<1>3. /\ m.missing > 0 => descriptor = None
      /\ m.missing = 0 => descriptor = ToldOf(d)
  BY <1>1, PackageFacts
<1> HIDE DEF m, d
<1>4. CASE m.missing > 0
  BY <1>1, <1>3, <1>4 DEF m
<1>5. CASE ~(m.missing > 0)
  <2>1. descriptor = ToldOf(d)
    BY <1>2, <1>3, <1>5
  <2>2. /\ descriptor.version = d.version
        /\ descriptor.mount_point = Told(m.mount_point)
        /\ descriptor.entry_point = Told(m.entry_point)
        /\ descriptor.cwd = IF m.cwd = None THEN None ELSE Told(m.cwd)
    BY <1>2, <2>1 DEF ToldOf
  <2> QED BY <1>5, <2>2 DEF m, d
<1> QED BY <1>4, <1>5

\* A package says what it was made to say, and one that lacks any byte is refused: for every
\* package, every width of a byte and every signature (process_package and the two
\* constructors of package_descriptor).
THEOREM PackagesAreUnderstood == CmdSpec => []PackageIsUnderstood
<1>1. CmdInit => PackageInv
  BY DEF CmdInit, PackageInv
<1>2. CmdSpec => [](CmdTyped /\ ArgumentsFit)
  BY InitTyped, StepTyped, PTL DEF CmdSpec
<1>3. CmdSpec => []PackageInv
  BY <1>1, <1>2, StepPackage, PTL DEF CmdSpec
<1> QED BY <1>3, PackageMeaning, PTL

\* The record of a rule, those that come first for their place, and what the table holds.
Record(n) == [at |-> PlaceOf(n), to |-> RuleAt(n).target]
Firsts == {k \in Done : \A l \in 1 .. k - 1 : PlaceOf(l) # PlaceOf(k)}
TableInv == /\ points = {Record(n) : n \in Firsts}
            /\ \A n \in Done : \E k \in Firsts : PlaceOf(k) = PlaceOf(n)
            /\ \A n \in Done : RuleAt(n).separator = ">" => Record(n) \in points

\* A rule that was gone through is at its place in the table.
LEMMA RuleDone ==
  ASSUME CmdTyped, item <= Len(mountpoints), ~IsRefused, TableInv,
         item' = item + 1, UNCHANGED mountpoints,
         points' = IF IsTaken THEN points ELSE points \cup {[at |-> At, to |-> There.target]},
         There.separator = ">" => ~IsTaken
  PROVE  TableInv'
<1>1. item \in 1 .. Len(mountpoints) /\ Len(mountpoints) \in Nat
  BY ThereFacts, LenProperties DEF CmdTyped, CmdTypeOK
<1>2. /\ PlaceOf(item) = At /\ RuleAt(item) = There
      /\ Record(item) = [at |-> At, to |-> There.target]
  BY DEF PlaceOf, RuleAt, At, There, Record
<1>3. /\ \A n : PlaceOf(n)' = PlaceOf(n) /\ RuleAt(n)' = RuleAt(n) /\ Record(n)' = Record(n)
  BY DEF PlaceOf, RuleAt, Record
<1>4. Done = 1 .. item - 1 /\ Done' = 1 .. item /\ Done' = Done \cup {item} /\ item \notin Done
  BY <1>1 DEF Done
<1>5. \A k : Record(k).at = PlaceOf(k)
  BY DEF Record
<1>6. IsTaken <=> \E l \in Done : PlaceOf(l) = PlaceOf(item)
  <2>1. ASSUME IsTaken PROVE \E l \in Done : PlaceOf(l) = PlaceOf(item)
    BY <1>2, <1>5, <2>1 DEF IsTaken, TableInv, Firsts
  <2>2. ASSUME NEW l \in Done, PlaceOf(l) = PlaceOf(item) PROVE IsTaken
    <3>1. PICK k \in Firsts : PlaceOf(k) = PlaceOf(l)
      BY DEF TableInv
    <3>2. Record(k) \in points
      BY DEF TableInv
    <3> QED BY <1>2, <1>5, <2>2, <3>1, <3>2 DEF IsTaken
  <2> QED BY <2>1, <2>2
<1>7. Firsts' = IF IsTaken THEN Firsts ELSE Firsts \cup {item}
  <2>1. Firsts' = {k \in Done' : \A l \in 1 .. k - 1 : PlaceOf(l) # PlaceOf(k)}
    BY <1>3 DEF Firsts
  <2>2. item \in Firsts' <=> ~IsTaken
    BY <1>4, <1>6, <2>1
  <2>3. \A k \in Done : k \in Firsts' <=> k \in Firsts
    BY <1>4, <2>1 DEF Firsts
  <2>4. Firsts \subseteq Done /\ Firsts' \subseteq Done \cup {item}
    BY <1>4, <2>1 DEF Firsts
  <2> DEFINE F == Firsts
             G == Firsts'
  <2> HIDE DEF F, G
  <2>5. /\ \A k \in Done : k \in G <=> k \in F
        /\ F \subseteq Done /\ G \subseteq Done \cup {item} /\ (item \in G <=> ~IsTaken)
    BY <2>2, <2>3, <2>4 DEF F, G
  <2>6. CASE IsTaken
    <3>1. G = F
      BY <2>5, <2>6
    <3> QED BY <2>6, <3>1 DEF F, G
  <2>7. CASE ~IsTaken
    <3>1. G = F \cup {item}
      BY <2>5, <2>7
    <3> QED BY <2>7, <3>1 DEF F, G
  <2> QED BY <2>6, <2>7
<1>8. points' = {Record(n) : n \in Firsts'}
  BY <1>2, <1>7 DEF TableInv
<1>9. ASSUME NEW n \in Done' PROVE \E k \in Firsts' : PlaceOf(k) = PlaceOf(n)
  <2>1. CASE n \in Done
    BY <1>7, <2>1 DEF TableInv
  <2>2. CASE n = item /\ IsTaken
    BY <1>6, <1>7, <2>2 DEF TableInv
  <2>3. CASE n = item /\ ~IsTaken
    BY <1>7, <2>3
  <2> QED BY <1>4, <2>1, <2>2, <2>3
<1>10. ASSUME NEW n \in Done', RuleAt(n).separator = ">" PROVE Record(n) \in points'
  <2>1. CASE n \in Done
    BY <1>10, <2>1 DEF TableInv
  <2>2. CASE n = item
    BY <1>2, <1>10, <2>2
  <2> QED BY <1>4, <2>1, <2>2
<1>11. (points = {Record(n) : n \in Firsts})' /\ (\A n \in Done : \E k \in Firsts : PlaceOf(k) = PlaceOf(n))'
  BY <1>3, <1>8, <1>9
<1>12. (\A n \in Done : RuleAt(n).separator = ">" => Record(n) \in points)'
  BY <1>3, <1>10
<1> QED BY <1>11, <1>12 DEF TableInv

\* The table stays as it is when no rule is.
LEMMA TableStays ==
  ASSUME TableInv, UNCHANGED <<mountpoints, item, points>>
  PROVE  TableInv'
<1>1. \A n : PlaceOf(n)' = PlaceOf(n) /\ RuleAt(n)' = RuleAt(n) /\ Record(n)' = Record(n)
  BY DEF PlaceOf, RuleAt, Record
<1>2. Done' = Done
  BY DEF Done
<1>3. Firsts' = Firsts
  BY <1>1, <1>2 DEF Firsts
<1>4. (points = {Record(n) : n \in Firsts})'
  BY <1>1, <1>3 DEF TableInv
<1>5. (\A n \in Done : \E k \in Firsts : PlaceOf(k) = PlaceOf(n))'
  BY <1>1, <1>2, <1>3 DEF TableInv
<1>6. (\A n \in Done : RuleAt(n).separator = ">" => Record(n) \in points)'
  BY <1>1, <1>2 DEF TableInv
<1> QED BY <1>4, <1>5, <1>6 DEF TableInv

\* While nothing was gone through, the table is empty.
LEMMA TableEmpty ==
  /\ item = 1 /\ points = {} => TableInv
  /\ item' = 1 /\ points' = {} => TableInv'
<1>1. ASSUME item = 1, points = {} PROVE TableInv
  <2>1. Done = {}
    BY <1>1 DEF Done
  <2> QED BY <1>1, <2>1 DEF TableInv, Firsts
<1>2. ASSUME item' = 1, points' = {} PROVE TableInv'
  <2>1. Done' = {}
    BY <1>2 DEF Done
  <2>2. Firsts' = {}
    BY <2>1 DEF Firsts
  <2> QED BY <1>2, <2>1, <2>2 DEF TableInv
<1> QED BY <1>1, <1>2

\* Each step keeps the table.
LEMMA StepTable == CmdTyped /\ TableInv /\ [CmdNext]_cmdVars => TableInv'
<1> SUFFICES ASSUME CmdTyped, TableInv, [CmdNext]_cmdVars PROVE TableInv'
  OBVIOUS
<1>1. CASE Parsing
  <2>1. UNCHANGED <<item, points>> /\ item = 1 /\ points = {}
    BY <1>1 DEF Parsing, ParseRun, ParseMount, ParseExtract, ParseOther, ParseThrows, ParseEnds,
                Keep, Looking, mounted, CmdTyped, MountInv
  <2>2. item' = 1 /\ points' = {}
    BY <2>1
  <2> QED BY <2>2, TableEmpty
<1>2. CASE ProcessPackage
  BY <1>2, TableStays DEF ProcessPackage, parsed, mounted
<1>3. CASE Mounting
  <2>1. UNCHANGED mountpoints
    BY <1>3 DEF Mounting, ProcessMountpoints, RefuseItem, MountFolder, ReadImage, MountImage,
                LoadFails, EndOfBody, MountsEnd, KeepArguments, parsed
  <2>2. CASE UNCHANGED <<item, points>>
    BY <2>1, <2>2, TableStays
  <2>3. CASE MountFolder
    <3>1. /\ item <= Len(mountpoints) /\ ~IsRefused /\ There.separator # ">" /\ item' = item + 1
          /\ points' = IF IsTaken THEN points ELSE points \cup {[at |-> At, to |-> There.target]}
      BY <2>3 DEF MountFolder, Item
    <3> QED BY <2>1, <3>1, RuleDone
  <2>4. CASE MountImage /\ ~IsTaken
    <3>1. /\ item' = item + 1
          /\ points' = points \cup {[at |-> At, to |-> There.target]} /\ stage = "mount"
      BY <2>4 DEF MountImage
    <3>2. item <= Len(mountpoints) /\ ~IsRefused
      BY <3>1 DEF CmdTyped, MountInv, Loaded
    <3> QED BY <2>1, <2>4, <3>1, <3>2, RuleDone
  <2>5. CASE MountImage /\ IsTaken
    <3>1. UNCHANGED <<item, points>>
      BY <2>5 DEF MountImage
    <3> QED BY <2>2, <3>1
  <2>6. MountFolder \/ MountImage \/ UNCHANGED <<item, points>>
    BY <1>3 DEF Mounting, ProcessMountpoints, RefuseItem, ReadImage, LoadFails, EndOfBody, MountsEnd, mounted
  <2> QED BY <2>2, <2>3, <2>4, <2>5, <2>6
<1>4. CASE \E p \in Point : BuildArguments(p[1], p[2])
  BY <1>4, TableStays DEF BuildArguments, parsed, mounted
<1>5. CASE UNCHANGED cmdVars
  BY <1>5, TableStays DEF cmdVars, parsed, mounted
<1> QED BY <1>1, <1>2, <1>3, <1>4, <1>5 DEF CmdNext

\* The mount table holds what the rules that were gone through ask for, the first one for a
\* place, and no image is passed over in silence, for every list of rules (process_mountpoints).
THEOREM FirstRulesWin == CmdSpec => []FirstRuleWins
<1>1. CmdInit => TableInv
  BY TableEmpty DEF CmdInit
<1>2. CmdSpec => [](CmdTyped /\ ArgumentsFit)
  BY InitTyped, StepTyped, PTL DEF CmdSpec
<1>3. CmdSpec => []TableInv
  BY <1>1, <1>2, StepTable, PTL DEF CmdSpec
<1>4. TableInv => FirstRuleWins
  BY DEF TableInv, FirstRuleWins, Firsts, Record
<1> QED BY <1>3, <1>4, PTL

--------------------------------------------------------------------------------
(* The order of the arguments.                                               *)

\* A text more stands behind the others when its position does.
LEMMA ListedMore ==
  ASSUME NEW k \in Nat, NEW j \in Nat, NEW texts \in Seq(Text), NEW x \in Text,
         NEW f, DOMAIN f \subseteq 1 .. k, \A n \in DOMAIN f : n < j,
         NEW g, DOMAIN g = DOMAIN f \cup {j}, g[j] = x, \A n \in DOMAIN f : g[n] = f[n],
         Listed(texts, f)
  PROVE  Listed(Append(texts, x), g)
<1> DEFINE P == DOMAIN f
           Q == DOMAIN g
           up(n) == {m \in P : m <= n}
<1>1. /\ Len(texts) = Cardinality(P) /\ \A n \in P : texts[Cardinality(up(n))] = f[n]
  BY DEF Listed
<1>2. IsFiniteSet(P) /\ P \subseteq 1 .. k /\ Q = P \cup {j} /\ j \notin P /\ \A n \in P : n \in Nat /\ n < j
  <2>1. IsFiniteSet(1 .. k)
    BY FS_Interval
  <2> QED BY <2>1, FS_Subset
<1>3. Cardinality(P) \in Nat /\ Cardinality(Q) = Cardinality(P) + 1
  BY <1>2, FS_AddElement, FS_CardinalityType
<1>4. /\ Len(Append(texts, x)) = Len(texts) + 1 /\ Len(texts) \in Nat
      /\ \A n \in 1 .. Len(texts) : Append(texts, x)[n] = texts[n]
      /\ Append(texts, x)[Len(texts) + 1] = x
  BY AppendProperties, LenProperties
<1>5. ASSUME NEW n \in P PROVE Append(texts, x)[Cardinality({m \in Q : m <= n})] = g[n]
  <2>1. {m \in Q : m <= n} = up(n)
    BY <1>2
  <2>2. up(n) \subseteq P /\ n \in up(n)
    BY <1>2
  <2> HIDE DEF up
  <2>3. IsFiniteSet(up(n)) /\ Cardinality(up(n)) <= Cardinality(P) /\ Cardinality(up(n)) \in Nat
    BY <1>2, <2>2, FS_Subset, FS_CardinalityType
  <2>4. Cardinality(up(n)) # 0
    BY <2>2, <2>3, FS_EmptySet
  <2>5. Cardinality(up(n)) \in 1 .. Len(texts)
    BY <1>1, <2>3, <2>4
  <2> QED BY <1>1, <1>4, <2>1, <2>5
<1>6. Append(texts, x)[Cardinality({m \in Q : m <= j})] = g[j]
  <2>1. {m \in Q : m <= j} = Q
    BY <1>2
  <2> QED BY <1>1, <1>3, <1>4, <2>1
<1>7. \A n \in Q : Append(texts, x)[Cardinality({m \in Q : m <= n})] = g[n]
  BY <1>2, <1>5, <1>6
<1>8. Len(Append(texts, x)) = Cardinality(Q)
  BY <1>1, <1>3, <1>4
<1> QED BY <1>7, <1>8 DEF Listed

\* The arguments that were looked at, and what was found among them: no --tebako-extract,
\* each option with its value, all other arguments and all mounts in order, and at most one
\* application.
Before == 1 .. i - 1
Others == Before \ (Options \cup Values)
OfKey(key) == {n \in Before : argv[n].key = key}
Found == /\ \A n \in Before : argv[n].key # "extract"
         /\ \A n \in Before : argv[n].key # "other" => ~HasNone(n) /\ (~argv[n].eq => n + 1 \in Before)
         /\ \A n, m \in OfKey("run") : n = m
         /\ run = (OfKey("run") # {}) /\ \A n \in OfKey("run") : app_image = ValueAt(n)
OthersFound == Listed(other_args, [n \in Others |-> argv[n].text])
MountsFound == Listed(mountpoints, [n \in OfKey("mount") |-> ValueAt(n)])
Sorted == Found /\ OthersFound /\ MountsFound

SortedInv ==
  /\ stage # "error" => Sorted
  /\ stage \notin {"parse", "error"} => Used = Before /\ (i > Len(argv) \/ extract_folder # None)
  /\ stage = "error" /\ i <= Len(argv) /\ extract_folder = None => Wrong

\* What stands behind an option that has its value is no option.
LEMMA OptionPassed ==
  ASSUME CmdTyped, Found, NEW key \in {"run", "mount"}, Looking(key), HasValue, PastValue, UNCHANGED argv
  PROVE  /\ Before' = IF argv[i].eq THEN Before \cup {i} ELSE Before \cup {i, i + 1}
         /\ i \in 1 .. Len(argv) /\ i \notin Before /\ argv[i].key = key
         /\ ~HasNone(i) /\ (~argv[i].eq => argv[i + 1].key = "other") /\ ValueAt(i) = Value
         /\ Others' = Others
         /\ \A k \in {"run", "mount"} : OfKey(k)' = IF k = key THEN OfKey(k) \cup {i} ELSE OfKey(k)
<1>1. /\ argv \in Argv /\ i \in 1 .. Len(argv) + 1 /\ i <= Len(argv) /\ argv[i].key = key
  BY DEF CmdTyped, CmdTypeOK, Looking
<1>2. /\ Len(argv) \in Nat /\ i \in 1 .. Len(argv) /\ argv[i].eq \in BOOLEAN
      /\ (~argv[i].eq => i + 1 \in 1 .. Len(argv))
  BY <1>1, ValueFacts
<1>3. ~HasNone(i) /\ (~argv[i].eq => argv[i + 1].key = "other") /\ ValueAt(i) = Value
  <2>1. CASE argv[i].eq
    BY <2>1 DEF HasValue, HasNone, ValueAt, Value
  <2>2. CASE ~argv[i].eq
    <3>1. i < Len(argv) /\ ~IsOption(argv[i + 1])
      BY <2>2 DEF HasValue
    <3>2. i # Len(argv) /\ argv[i + 1].key = "other"
      BY <1>2, <3>1 DEF IsOption
    <3> QED BY <2>2, <3>1, <3>2 DEF HasNone, ValueAt, Value
  <2> QED BY <2>1, <2>2
<1>4. i' = IF argv[i].eq THEN i + 1 ELSE i + 2
  BY DEF PastValue
<1>5. Before = 1 .. i - 1 /\ Before' = 1 .. i' - 1
  BY DEF Before
<1>6. Before' = IF argv[i].eq THEN Before \cup {i} ELSE Before \cup {i, i + 1}
  <2>1. CASE argv[i].eq
    <3>1. i' - 1 = i
      BY <1>2, <1>4, <2>1
    <3>2. 1 .. i = (1 .. i - 1) \cup {i}
      BY <1>2
    <3> QED BY <1>5, <2>1, <3>1, <3>2
  <2>2. CASE ~argv[i].eq
    <3>1. i' - 1 = i + 1
      BY <1>2, <1>4, <2>2
    <3>2. 1 .. i + 1 = (1 .. i - 1) \cup {i, i + 1}
      BY <1>2
    <3> QED BY <1>5, <2>2, <3>1, <3>2
  <2> QED BY <1>2, <2>1, <2>2
<1>7. Options' = Options /\ Values' = Values
  BY DEF Options, Values
<1>8. i \in Options /\ (~argv[i].eq => i + 1 \in Values)
  BY <1>1, <1>2 DEF Options, Values
<1>9. Others' = Others
  BY <1>6, <1>7, <1>8 DEF Others
<1>10. ASSUME NEW k \in {"run", "mount"}
       PROVE OfKey(k)' = IF k = key THEN OfKey(k) \cup {i} ELSE OfKey(k)
  <2>1. OfKey(k)' = {n \in Before' : argv[n].key = k}
    BY DEF OfKey
  <2>2. argv[i + 1].key = k => argv[i].eq
    BY <1>2, <1>3
  <2>3. OfKey(k) = {n \in Before : argv[n].key = k}
    BY DEF OfKey
  <2>4. CASE argv[i].eq
    BY <1>1, <1>6, <2>1, <2>3, <2>4
  <2>5. CASE ~argv[i].eq
    BY <1>1, <1>6, <2>1, <2>2, <2>3, <2>5
  <2> QED BY <1>2, <2>4, <2>5
<1>11. i \notin Before
  BY <1>2, <1>5
<1> QED BY <1>1, <1>2, <1>3, <1>6, <1>9, <1>10, <1>11

\* Nor is what stands there the value of one that was passed.
LEMMA OtherPassed ==
  ASSUME CmdTyped, Found, Looking("other"), OneOn, UNCHANGED argv
  PROVE  /\ Before' = Before \cup {i} /\ i \in 1 .. Len(argv) /\ argv[i].key = "other"
         /\ Others' = Others \cup {i} /\ i \notin Others /\ \A n \in Others : n < i
         /\ \A k \in {"run", "mount"} : OfKey(k)' = OfKey(k)
<1>1. argv \in Argv /\ i \in 1 .. Len(argv) + 1 /\ i <= Len(argv) /\ argv[i].key = "other"
  BY DEF CmdTyped, CmdTypeOK, Looking
<1>2. Len(argv) \in Nat /\ i \in 1 .. Len(argv)
  BY <1>1, ValueFacts
<1>3. Before = 1 .. i - 1 /\ Before' = 1 .. i' - 1 /\ i' = i + 1
  BY DEF Before, OneOn
<1>4. Before' = Before \cup {i}
  BY <1>2, <1>3
<1>5. Options' = Options /\ Values' = Values
  BY DEF Options, Values
<1>6. i \notin Options
  BY <1>1 DEF Options
<1>7. i \notin Values
  <2> SUFFICES ASSUME NEW m \in Options, ~argv[m].eq, i = m + 1 PROVE FALSE
    BY DEF Values
  <2>1. m \in Before /\ argv[m].key # "other"
    BY <1>2, <1>3 DEF Options
  <2>2. m + 1 \in Before
    BY <2>1 DEF Found
  <2> QED BY <1>2, <1>3, <2>2
<1>8. Others' = Others \cup {i}
  BY <1>4, <1>5, <1>6, <1>7 DEF Others
<1>9. \A n \in Others : n < i
  BY <1>2, <1>3 DEF Others
<1>10. ASSUME NEW k \in {"run", "mount"} PROVE OfKey(k)' = OfKey(k)
  BY <1>1, <1>4 DEF OfKey
<1>11. i \notin Others
  BY <1>2, <1>9
<1> QED BY <1>1, <1>2, <1>4, <1>8, <1>9, <1>10, <1>11

\* What depends on the vector alone.
LEMMA VectorFacts ==
  ASSUME UNCHANGED argv
  PROVE  /\ \A n : HasNone(n)' = HasNone(n) /\ ValueAt(n)' = ValueAt(n)
         /\ Options' = Options /\ Values' = Values /\ Used' = Used /\ Wrong' = Wrong
<1>1. \A n : HasNone(n)' = HasNone(n) /\ ValueAt(n)' = ValueAt(n)
  BY DEF HasNone, ValueAt
<1>2. Options' = Options /\ Values' = Values
  BY DEF Options, Values
<1>3. Used' = Used
  BY <1>2 DEF Used
<1>4. \A key : Given(key)' = Given(key)
  BY <1>3 DEF Given
<1>5. Wrong' = Wrong
  BY <1>1, <1>4 DEF Wrong
<1> QED BY <1>1, <1>2, <1>3, <1>5

\* When nothing more is looked at, what was found stays.
LEMMA FoundStays ==
  ASSUME Sorted, UNCHANGED <<argv, i, mountpoints, other_args, app_image, run>>
  PROVE  Sorted' /\ Before' = Before
<1>1. Before' = Before /\ Others' = Others /\ (\A key : OfKey(key)' = OfKey(key))
  BY DEF Before, Others, OfKey, Options, Values
<1>2. Found'
  BY <1>1, VectorFacts DEF Found, Sorted
<1>3. OthersFound'
  BY <1>1 DEF OthersFound, Sorted
<1>4. MountsFound'
  <2>1. [n \in OfKey("mount") |-> ValueAt(n)]' = [n \in OfKey("mount") |-> ValueAt(n)]
    BY <1>1, VectorFacts
  <2> QED BY <2>1 DEF MountsFound, Sorted
<1> QED BY <1>1, <1>2, <1>3, <1>4 DEF Sorted

\* An option that has its value is found.
LEMMA OptionFound ==
  ASSUME CmdTyped, Sorted, NEW key \in {"run", "mount"}, Looking(key), HasValue, PastValue,
         UNCHANGED <<argv, other_args>>,
         IF key = "run" THEN run' = TRUE /\ ~run /\ app_image' = Value /\ UNCHANGED mountpoints
         ELSE mountpoints' = Append(mountpoints, Value) /\ UNCHANGED <<run, app_image>>
  PROVE  Sorted'
<1>1. Found
  BY DEF Sorted
<1>2. /\ Before' = IF argv[i].eq THEN Before \cup {i} ELSE Before \cup {i, i + 1}
      /\ i \in 1 .. Len(argv) /\ i \notin Before /\ argv[i].key = key
      /\ ~HasNone(i) /\ (~argv[i].eq => argv[i + 1].key = "other") /\ ValueAt(i) = Value
      /\ Others' = Others
  BY <1>1, OptionPassed
<1>3. \A k \in {"run", "mount"} : OfKey(k)' = IF k = key THEN OfKey(k) \cup {i} ELSE OfKey(k)
  BY <1>1, OptionPassed
<1>4. /\ argv \in Argv /\ i \in 1 .. Len(argv) + 1 /\ i <= Len(argv) /\ mountpoints \in Seq(Text)
  BY DEF CmdTyped, CmdTypeOK, Looking
<1>5. Value \in Text /\ Len(argv) \in Nat
  BY <1>4, ValueFacts
<1>6. /\ \A n \in Before : argv[n].key # "extract"
      /\ \A n \in Before : argv[n].key # "other" => ~HasNone(n) /\ (~argv[n].eq => n + 1 \in Before)
      /\ \A n, m \in OfKey("run") : n = m
      /\ run = (OfKey("run") # {}) /\ \A n \in OfKey("run") : app_image = ValueAt(n)
  BY <1>1 DEF Found
<1>7. \A n \in Before' : argv[n].key # "extract"
  BY <1>2, <1>6
<1>8. ASSUME NEW n \in Before', argv[n].key # "other"
      PROVE  ~HasNone(n) /\ (~argv[n].eq => n + 1 \in Before')
  <2>1. n \in Before \/ n = i
    BY <1>2, <1>8
  <2> QED BY <1>2, <1>6, <1>8, <2>1
<1>9. /\ \A n, m \in OfKey("run")' : n = m
      /\ run' = (OfKey("run")' # {}) /\ \A n \in OfKey("run")' : app_image' = ValueAt(n)
  <2>1. CASE key = "run"
    <3>1. OfKey("run")' = OfKey("run") \cup {i} /\ OfKey("run") = {}
      BY <1>3, <1>6, <2>1
    <3> QED BY <1>2, <2>1, <3>1
  <2>2. CASE key = "mount"
    <3>1. OfKey("run")' = OfKey("run")
      BY <1>3, <2>2
    <3> QED BY <1>6, <2>2, <3>1
  <2> QED BY <2>1, <2>2
<1>10. Found'
  BY <1>7, <1>8, <1>9, VectorFacts DEF Found
<1>11. OthersFound'
  BY <1>2 DEF OthersFound, Sorted
<1>12. MountsFound'
  <2> DEFINE f == [n \in OfKey("mount") |-> ValueAt(n)]
             g == [n \in OfKey("mount")' |-> ValueAt(n)]
  <2>1. g = f' /\ Listed(mountpoints, f)
    BY VectorFacts DEF MountsFound, Sorted
  <2>2. CASE key = "run"
    <3>1. OfKey("mount")' = OfKey("mount")
      BY <1>3, <2>2
    <3>2. g = f /\ mountpoints' = mountpoints
      BY <2>2, <3>1
    <3> QED BY <2>1, <3>2 DEF MountsFound
  <2>3. CASE key = "mount"
    <3>1. OfKey("mount")' = OfKey("mount") \cup {i} /\ mountpoints' = Append(mountpoints, Value)
      BY <1>3, <2>3
    <3>2. /\ DOMAIN g = DOMAIN f \cup {i} /\ g[i] = Value /\ \A n \in DOMAIN f : g[n] = f[n]
          /\ DOMAIN f \subseteq 1 .. Len(argv) /\ \A n \in DOMAIN f : n < i
      <4>1. \A n \in Before : n \in 1 .. Len(argv) /\ n < i
        BY <1>2, <1>5 DEF Before
      <4>2. DOMAIN f = OfKey("mount") /\ OfKey("mount") \subseteq Before
        BY DEF OfKey
      <4> QED BY <1>2, <3>1, <4>1, <4>2
    <3> HIDE DEF f, g
    <3>3. Listed(Append(mountpoints, Value), g)
      BY <1>2, <1>4, <1>5, <2>1, <3>2, ListedMore
    <3> QED BY <2>1, <3>1, <3>3 DEF MountsFound, f, g
  <2> QED BY <2>2, <2>3
<1> QED BY <1>10, <1>11, <1>12 DEF Sorted

\* And any other argument is kept.
LEMMA OtherFound ==
  ASSUME CmdTyped, Sorted, Looking("other"), OneOn, UNCHANGED <<argv, mountpoints, run, app_image>>,
         other_args' = Append(other_args, argv[i].text)
  PROVE  Sorted'
<1>1. Found
  BY DEF Sorted
<1>2. /\ Before' = Before \cup {i} /\ i \in 1 .. Len(argv) /\ argv[i].key = "other"
      /\ Others' = Others \cup {i} /\ i \notin Others /\ \A n \in Others : n < i
      /\ \A k \in {"run", "mount"} : OfKey(k)' = OfKey(k)
  BY <1>1, OtherPassed
<1>3. argv \in Argv /\ i \in 1 .. Len(argv) + 1 /\ i <= Len(argv) /\ other_args \in Seq(Text)
  BY DEF CmdTyped, CmdTypeOK, Looking
<1>4. argv[i].text \in Text /\ Len(argv) \in Nat
  BY <1>2, <1>3, ValueFacts
<1>5. Found'
  <2>1. /\ \A n \in Before' : argv[n].key # "extract"
        /\ \A n \in Before' : argv[n].key # "other" =>
             ~HasNone(n) /\ (~argv[n].eq => n + 1 \in Before')
    BY <1>1, <1>2 DEF Found
  <2>2. OfKey("run")' = OfKey("run")
    BY <1>2
  <2> QED BY <1>1, <2>1, <2>2, VectorFacts DEF Found
<1>6. MountsFound'
  <2>1. OfKey("mount")' = OfKey("mount")
    BY <1>2
  <2>2. [n \in OfKey("mount") |-> ValueAt(n)]' = [n \in OfKey("mount") |-> ValueAt(n)]
    BY <2>1, VectorFacts
  <2> QED BY <2>2 DEF MountsFound, Sorted
<1>7. OthersFound'
  <2> DEFINE f == [n \in Others |-> argv[n].text]
             g == [n \in Others' |-> argv[n].text]
  <2>1. g = f' /\ Listed(other_args, f)
    BY DEF OthersFound, Sorted
  <2>2. /\ DOMAIN g = DOMAIN f \cup {i} /\ g[i] = argv[i].text /\ \A n \in DOMAIN f : g[n] = f[n]
        /\ DOMAIN f \subseteq 1 .. Len(argv) /\ \A n \in DOMAIN f : n < i
    <3>1. \A n \in Before : n \in 1 .. Len(argv)
      BY <1>2, <1>4 DEF Before
    <3>2. DOMAIN f = Others /\ Others \subseteq Before
      BY DEF Others
    <3> QED BY <1>2, <3>1, <3>2
  <2> HIDE DEF f, g
  <2>3. Listed(Append(other_args, argv[i].text), g)
    <3>1. PICK x \in Text : x = argv[i].text
      BY <1>4
    <3>2. /\ i \in Nat /\ Len(argv) \in Nat /\ other_args \in Seq(Text) /\ Listed(other_args, f)
          /\ DOMAIN g = DOMAIN f \cup {i} /\ g[i] = x /\ \A n \in DOMAIN f : g[n] = f[n]
          /\ DOMAIN f \subseteq 1 .. Len(argv) /\ \A n \in DOMAIN f : n < i
      BY <1>2, <1>3, <1>4, <2>1, <2>2, <3>1
    <3>3. Listed(Append(other_args, x), g)
      BY <3>2, ListedMore
    <3> QED BY <3>1, <3>3
  <2> QED BY <2>1, <2>3 DEF OthersFound, f, g
<1> QED BY <1>5, <1>6, <1>7 DEF Sorted

\* What is refused is wrong.
LEMMA Refused ==
  ASSUME CmdTyped, Found, NEW key \in {"run", "mount"}, Looking(key), ~HasValue \/ (key = "run" /\ run)
  PROVE  Wrong
<1>1. argv \in Argv /\ i \in 1 .. Len(argv) + 1 /\ i <= Len(argv) /\ argv[i].key = key
  BY DEF CmdTyped, CmdTypeOK, Looking
<1>2. Len(argv) \in Nat /\ i \in 1 .. Len(argv)
  BY <1>1, ValueFacts
<1>3. ASSUME NEW n \in 1 .. Len(argv), n <= i PROVE n \in Used
  <2> SUFFICES ASSUME NEW m \in Options, argv[m].key = "extract" PROVE n < m
    BY DEF Used
  <2>1. m \in 1 .. Len(argv) /\ m \notin Before /\ m # i
    BY <1>1 DEF Options, Found
  <2> QED BY <1>2, <1>3, <2>1 DEF Before
<1>4. i \in Given(key)
  BY <1>1, <1>2, <1>3 DEF Given
<1>5. CASE ~HasValue
  <2>1. HasNone(i)
    <3>1. CASE argv[i].eq
      BY <1>5, <3>1 DEF HasValue, HasNone
    <3>2. CASE ~argv[i].eq
      <4>1. ~(i < Len(argv)) \/ IsOption(argv[i + 1])
        BY <1>5, <3>2 DEF HasValue
      <4> QED BY <1>2, <3>2, <4>1 DEF HasNone
    <3> QED BY <3>1, <3>2
  <2> QED BY <1>4, <2>1 DEF Wrong
<1>6. CASE key = "run" /\ run
  <2>1. PICK n \in Before : argv[n].key = "run"
    BY <1>6 DEF Found, OfKey
  <2>2. n \in 1 .. Len(argv) /\ n < i
    BY <1>2 DEF Before
  <2>3. n \in Given("run") /\ i \in Given("run") /\ n # i
    BY <1>2, <1>3, <1>4, <1>6, <2>1, <2>2 DEF Given
  <2>4. IsFiniteSet(Given("run"))
    <3>1. Given("run") \subseteq 1 .. Len(argv) /\ IsFiniteSet(1 .. Len(argv))
      BY <1>2, FS_Interval DEF Given, Used
    <3> QED BY <3>1, FS_Subset
  <2>5. Cardinality({n, i}) = 2 /\ {n, i} \subseteq Given("run")
    <3>1. IsFiniteSet({n}) /\ Cardinality({n}) = 1
      BY FS_Singleton
    <3>2. Cardinality({n} \cup {i}) = 2
      BY <2>3, <3>1, FS_AddElement
    <3>3. {n} \cup {i} = {n, i}
      OBVIOUS
    <3> QED BY <2>3, <3>2, <3>3
  <2>6. Cardinality(Given("run")) > 1
    <3>1. Cardinality({n, i}) <= Cardinality(Given("run")) /\ Cardinality(Given("run")) \in Nat
      BY <2>4, <2>5, FS_Subset, FS_CardinalityType
    <3> QED BY <2>5, <3>1
  <2> QED BY <2>6 DEF Wrong
<1> QED BY <1>5, <1>6

\* Where the arguments end, or --tebako-extract stands, all that count were looked at.
LEMMA AllLookedAt ==
  ASSUME CmdTyped, Found, i > Len(argv) \/ Looking("extract")
  PROVE  Used = Before
<1>1. argv \in Argv /\ i \in 1 .. Len(argv) + 1
  BY DEF CmdTyped, CmdTypeOK
<1>2. Len(argv) \in Nat
  <2>1. argv \in Seq(Arg)
    BY <1>1, ArgvAssumption
  <2> QED BY <2>1, LenProperties
<1>3. Before = 1 .. i - 1
  BY DEF Before
<1>4. ASSUME NEW n \in Before PROVE n \in Used
  <2>1. n \in 1 .. Len(argv)
    BY <1>1, <1>2, <1>3
  <2>2. ASSUME NEW m \in Options, argv[m].key = "extract" PROVE n < m
    <3>1. m \notin Before /\ m \in 1 .. Len(argv)
      BY <2>2 DEF Found, Options
    <3> QED BY <1>1, <1>2, <1>3, <3>1
  <2> QED BY <2>1, <2>2 DEF Used
<1>5. ASSUME NEW n \in Used PROVE n \in Before
  <2>1. n \in 1 .. Len(argv)
    BY DEF Used
  <2>2. CASE i > Len(argv)
    BY <1>1, <1>2, <1>3, <2>1, <2>2
  <2>3. CASE Looking("extract")
    <3>1. i <= Len(argv) /\ argv[i].key = "extract"
      BY <2>3 DEF Looking
    <3>2. i \in Options
      BY <1>1, <1>2, <3>1 DEF Options
    <3>3. n < i
      BY <3>1, <3>2 DEF Used
    <3> QED BY <1>1, <1>2, <1>3, <2>1, <3>3
  <2> QED BY <2>2, <2>3
<1> QED BY <1>4, <1>5

\* Each step keeps what was found in order.
LEMMA StepSorted == CmdTyped /\ SortedInv /\ [CmdNext]_cmdVars => SortedInv'
<1> SUFFICES ASSUME CmdTyped, SortedInv, [CmdNext]_cmdVars PROVE SortedInv'
  OBVIOUS
<1>1. /\ stage # "error" => Sorted
      /\ stage \notin {"parse", "error"} => Used = Before /\ (i > Len(argv) \/ extract_folder # None)
      /\ stage = "error" /\ i <= Len(argv) /\ extract_folder = None => Wrong
  BY DEF SortedInv
<1>2. CASE UNCHANGED <<argv, i, parsed>> /\ stage # "parse" /\ stage' # "parse" /\ (stage = "error" => stage' = "error")
  <2>1. UNCHANGED <<argv, i, mountpoints, other_args, app_image, run, extract_folder>>
    BY <1>2 DEF parsed
  <2>2. stage # "error" => Sorted' /\ Before' = Before
    BY <1>1, <2>1, FoundStays
  <2>3. Used' = Used /\ Wrong' = Wrong
    BY <2>1, VectorFacts
  <2>4. ~(i > Len(argv) /\ i <= Len(argv))
    <3>1. argv \in Seq(Arg) /\ i \in 1 .. Len(argv) + 1
      BY ArgvAssumption DEF CmdTyped, CmdTypeOK
    <3>2. Len(argv) \in Nat
      BY <3>1, LenProperties
    <3> QED BY <3>1, <3>2
  <2>5. stage' # "error" => Sorted' /\ Used' = Before' /\ (i' > Len(argv') \/ extract_folder' # None)
    BY <1>1, <1>2, <2>1, <2>2, <2>3
  <2>6. stage' = "error" /\ i' <= Len(argv') /\ extract_folder' = None => Wrong'
    <3>1. i <= Len(argv) /\ extract_folder = None => Wrong \/ stage # "error"
      BY <1>1
    <3>2. stage # "error" => i > Len(argv) \/ extract_folder # None
      BY <1>1, <1>2
    <3> QED BY <2>1, <2>3, <2>4, <3>1, <3>2
  <2> QED BY <1>2, <2>5, <2>6 DEF SortedInv
<1>3. ASSUME stage = "parse", stage' = "parse", Sorted' PROVE SortedInv'
  BY <1>3 DEF SortedInv
<1>4. CASE ParseRun
  <2>1. /\ Looking("run") /\ HasValue /\ PastValue /\ UNCHANGED <<argv, other_args, mountpoints>>
        /\ run' = TRUE /\ ~run /\ app_image' = Value /\ stage = "parse" /\ stage' = "parse"
    BY <1>4 DEF ParseRun, Keep, Looking
  <2>2. Sorted'
    BY <1>1, <2>1, OptionFound
  <2> QED BY <1>3, <2>1, <2>2
<1>5. CASE ParseMount
  <2>1. /\ Looking("mount") /\ HasValue /\ PastValue /\ UNCHANGED <<argv, other_args, run, app_image>>
        /\ mountpoints' = Append(mountpoints, Value) /\ stage = "parse" /\ stage' = "parse"
    BY <1>5 DEF ParseMount, Keep, Looking
  <2>2. Sorted'
    BY <1>1, <2>1, OptionFound
  <2> QED BY <1>3, <2>1, <2>2
<1>6. CASE ParseOther
  <2>1. /\ Looking("other") /\ OneOn /\ UNCHANGED <<argv, mountpoints, run, app_image>>
        /\ other_args' = Append(other_args, argv[i].text) /\ stage = "parse" /\ stage' = "parse"
    BY <1>6 DEF ParseOther, Keep, Looking
  <2>2. Sorted'
    BY <1>1, <2>1, OtherFound
  <2> QED BY <1>3, <2>1, <2>2
<1>7. CASE ParseExtract
  <2>1. /\ Looking("extract") /\ UNCHANGED <<argv, i, mountpoints, other_args, app_image, run>>
        /\ extract_folder' = IF HasValue THEN Value ELSE SourceFilesystem
        /\ stage = "parse" /\ stage' = "parsed"
    BY <1>7 DEF ParseExtract, Keep, Looking
  <2>2. Sorted' /\ Before' = Before
    BY <1>1, <2>1, FoundStays
  <2>3. Used' = Used
    BY <2>1, VectorFacts
  <2>4. Used = Before
    BY <1>1, <2>1, AllLookedAt DEF Sorted
  <2>5. extract_folder' # None
    <3>1. argv \in Argv /\ i \in 1 .. Len(argv) + 1 /\ i <= Len(argv)
      BY <2>1 DEF CmdTyped, CmdTypeOK, Looking
    <3>2. HasValue => Value \in Text
      BY <3>1, ValueFacts
    <3> QED BY <2>1, <3>2, TextAssumption
  <2> QED BY <2>1, <2>2, <2>3, <2>4, <2>5 DEF SortedInv
<1>8. CASE ParseThrows
  <2>1. /\ stage = "parse" /\ stage' = "error" /\ UNCHANGED argv
        /\ \/ Looking("run") /\ (run \/ ~HasValue)
           \/ Looking("mount") /\ ~HasValue
    BY <1>8 DEF ParseThrows, Keep, Looking
  <2>2. Wrong
    BY <1>1, <2>1, Refused DEF Sorted
  <2> QED BY <2>1, <2>2, VectorFacts DEF SortedInv
<1>9. CASE ParseEnds
  <2>1. /\ i > Len(argv) /\ UNCHANGED <<argv, i, mountpoints, other_args, app_image, run, extract_folder>>
        /\ stage = "parse" /\ stage' = "parsed"
    BY <1>9 DEF ParseEnds, Keep, parsed
  <2>2. Sorted' /\ Before' = Before
    BY <1>1, <2>1, FoundStays
  <2>3. Used' = Used
    BY <2>1, VectorFacts
  <2>4. Used = Before
    BY <1>1, <2>1, AllLookedAt DEF Sorted
  <2> QED BY <2>1, <2>2, <2>3, <2>4 DEF SortedInv
<1>10. CASE ProcessPackage
  <2>1. UNCHANGED <<argv, i, parsed>> /\ stage = "parsed" /\ stage' # "parse"
    BY <1>10 DEF ProcessPackage
  <2> QED BY <1>2, <2>1
<1>11. CASE Mounting
  <2>1. UNCHANGED <<argv, i, parsed>> /\ stage \notin {"parse", "error"} /\ stage' # "parse"
    BY <1>11 DEF Mounting, ProcessMountpoints, RefuseItem, MountFolder, ReadImage, MountImage,
                 LoadFails, EndOfBody, MountsEnd, KeepArguments, Item
  <2> QED BY <1>2, <2>1
<1>12. CASE \E p \in Point : BuildArguments(p[1], p[2])
  <2>1. UNCHANGED <<argv, i, parsed>> /\ stage = "mounted" /\ stage' # "parse"
    BY <1>12 DEF BuildArguments
  <2> QED BY <1>2, <2>1
<1>13. CASE UNCHANGED cmdVars
  <2>1. UNCHANGED <<argv, i, parsed, stage>>
    BY <1>13 DEF cmdVars
  <2>2. CASE stage = "parse"
    <3>1. UNCHANGED <<argv, i, mountpoints, other_args, app_image, run>>
      BY <2>1 DEF parsed
    <3> QED BY <1>1, <1>3, <2>1, <2>2, <3>1, FoundStays
  <2>3. CASE stage # "parse"
    BY <1>2, <2>1, <2>3
  <2> QED BY <2>2, <2>3
<1> QED BY <1>4, <1>5, <1>6, <1>7, <1>8, <1>9, <1>10, <1>11, <1>12, <1>13 DEF CmdNext, Parsing

\* Before anything was looked at, nothing is found.
LEMMA InitSorted == CmdInit => SortedInv
<1> SUFFICES ASSUME CmdInit PROVE SortedInv
  OBVIOUS
<1>1. Before = {} /\ Others = {} /\ \A key : OfKey(key) = {}
  <2>1. 1 .. i - 1 = {}
    BY DEF CmdInit
  <2> QED BY <2>1 DEF Before, Others, OfKey
<1>2. ASSUME NEW f, DOMAIN f = {} PROVE Listed(<<>>, f)
  <2>1. Len(<<>>) = Cardinality({})
    BY FS_EmptySet
  <2> QED BY <1>2, <2>1 DEF Listed
<1>3. OthersFound /\ MountsFound
  <2>1. DOMAIN [n \in Others |-> argv[n].text] = {} /\ DOMAIN [n \in OfKey("mount") |-> ValueAt(n)] = {}
    BY <1>1
  <2> QED BY <1>2, <2>1 DEF OthersFound, MountsFound, CmdInit
<1>4. Found
  BY <1>1 DEF Found, CmdInit
<1> QED BY <1>3, <1>4 DEF SortedInv, Sorted, CmdInit

\* What was found in order is the arguments, sorted.
LEMMA SortedMeaning == CmdTyped /\ SortedInv => ArgumentsAreSorted
<1> SUFFICES ASSUME CmdTyped, SortedInv PROVE ArgumentsAreSorted
  OBVIOUS
<1>1. stage = "error" /\ i <= Len(argv) /\ extract_folder = None => Wrong
  BY DEF SortedInv
<1>2. ASSUME stage \notin {"parse", "error"}
      PROVE  /\ ~Wrong
             /\ Listed(other_args, [n \in Used \ (Options \cup Values) |-> argv[n].text])
             /\ Listed(mountpoints, [n \in Given("mount") |-> ValueAt(n)])
             /\ run = (Given("run") # {}) /\ \A n \in Given("run") : app_image = ValueAt(n)
  <2>1. Used = Before /\ Found /\ OthersFound /\ MountsFound
    BY <1>2 DEF SortedInv, Sorted
  <2>2. \A key : Given(key) = OfKey(key)
    BY <2>1 DEF Given, OfKey
  <2>3. Listed(other_args, [n \in Used \ (Options \cup Values) |-> argv[n].text])
    BY <2>1 DEF OthersFound, Others
  <2>4. Listed(mountpoints, [n \in Given("mount") |-> ValueAt(n)])
    <3>1. Given("mount") = OfKey("mount")
      BY <2>2
    <3> QED BY <2>1, <3>1 DEF MountsFound
  <2>5. run = (Given("run") # {}) /\ \A n \in Given("run") : app_image = ValueAt(n)
    <3>1. Given("run") = OfKey("run")
      BY <2>2
    <3> QED BY <2>1, <3>1 DEF Found
  <2>6. \A n \in Given("run") \cup Given("mount") : ~HasNone(n)
    <3>1. Given("run") = OfKey("run") /\ Given("mount") = OfKey("mount")
      BY <2>2
    <3> QED BY <2>1, <3>1 DEF Found, OfKey
  <2>7. ~(Cardinality(Given("run")) > 1)
    <3>1. Given("run") = OfKey("run") /\ \A n, m \in OfKey("run") : n = m
      BY <2>1, <2>2 DEF Found
    <3>2. CASE OfKey("run") = {}
      <4>1. Cardinality({}) = 0
        BY FS_EmptySet
      <4> QED BY <3>1, <3>2, <4>1
    <3>3. CASE OfKey("run") # {}
      <4>1. PICK n : OfKey("run") = {n}
        BY <3>1, <3>3
      <4>2. Cardinality({n}) = 1
        BY FS_Singleton
      <4> QED BY <3>1, <4>1, <4>2
    <3> QED BY <3>2, <3>3
  <2> QED BY <2>3, <2>4, <2>5, <2>6, <2>7 DEF Wrong
<1> QED BY <1>1, <1>2 DEF ArgumentsAreSorted

\* Whatever stands between them, the options are found with their values and all other
\* arguments before --tebako-extract are kept, in their order; what is wrong is refused, and
\* nothing else is: for every vector of arguments (parse_arguments).
THEOREM VectorsAreSorted == CmdSpec => []ArgumentsAreSorted
<1>1. CmdSpec => [](CmdTyped /\ ArgumentsFit)
  BY InitTyped, StepTyped, PTL DEF CmdSpec
<1>2. CmdSpec => []SortedInv
  BY <1>1, InitSorted, StepSorted, PTL DEF CmdSpec
<1> QED BY <1>1, <1>2, SortedMeaning, PTL

--------------------------------------------------------------------------------
(* The offset of an open file.                                               *)

LEMMA TransferFacts ==
  ASSUME Modest, NEW from \in Nat, NEW len \in Count
  PROVE  /\ Transfer(from, len) \in 0 .. Size
         /\ Transfer(from, len) > 0 => from + Transfer(from, len) <= Size
         /\ AsInt(Transfer(from, len)) = Transfer(from, len)
  <1>1. len \in Nat /\ len <= IntMax
    BY CountAssumption DEF Modest
  <1>2. Transfer(from, len) \in 0 .. Size /\ Transfer(from, len) <= len
    BY <1>1, SizeAssumption DEF Transfer
  <1>3. Transfer(from, len) > 0 => from + Transfer(from, len) <= Size
    BY <1>1, SizeAssumption DEF Transfer
  <1>4. AsInt(Transfer(from, len)) = Transfer(from, len)
    BY <1>1, <1>2, SizeAssumption DEF AsInt
  <1> QED BY <1>2, <1>3, <1>4

\* A call that begins has a frame of the right type.
LEMMA NewFrameType ==
  ASSUME NEW call \in {"read", "readv", "lseek"}, NEW start \in 0 .. U - 1,
         NEW left \in 0 .. MaxIov + 1, NEW by \in OffMin .. OffMax
  PROVE  NewFrame(call, start, left, by) \in Frame
  BY SizeAssumption DEF NewFrame, Frame

\* So does a thread outside every call.
LEMMA NoFrameType == NoFrame \in Frame
  BY NewFrameType, SizeAssumption DEF NoFrame, OffMin, U

\* A sum that the checks of lseek let through is a file offset.
LEMMA SeekFacts ==
  ASSUME NEW from \in 0 .. OffMax, NEW offset \in OffMin .. OffMax
  PROVE  /\ (offset < 0 /\ from < AsUnsigned(Negated(offset))) <=> from + offset < 0
         /\ (offset > 0 /\ from > OffMax - offset) <=> from + offset > OffMax
         /\ from + offset \in 0 .. OffMax =>
              /\ Wrap(from + offset) = from + offset
              /\ AsOff(from + offset) = from + offset
  BY SizeAssumption DEF AsUnsigned, Negated, OffMin, U, Wrap, AsOff

\* The comparison of SEEK_END refuses exactly the offsets before the beginning.
LEMMA EndFacts ==
  ASSUME NEW offset \in OffMin .. OffMax, offset # OffMin
  PROVE  (offset < 0 /\ Size < Negated(offset)) <=> Size + offset < 0
  BY SizeAssumption DEF Negated, OffMin

\* Two pieces of a file that follow each other.
LEMMA Adjacent ==
  ASSUME NEW a \in Nat, NEW b \in Nat, NEW n \in Nat, a <= b
  PROVE  (a .. b - 1) \cup (b .. b + n - 1) = a .. b + n - 1
  OBVIOUS

\* An offset at the beginning of the file satisfies the invariant.
LEMMA InitInv == Init => Inv
  <1> SUFFICES ASSUME Init PROVE Inv
    OBVIOUS
  <1> USE SizeAssumption DEF Init
  <1>1. TypeOK
    BY NoFrameType DEF TypeOK, Place, U
  <1>2. OffsetIsRepresentable /\ OneCall
    BY DEF OffsetIsRepresentable, OneCall
  <1>3. ReadInProgress /\ SeekInProgress
    BY DEF ReadInProgress, SeekInProgress
  <1> QED BY <1>1, <1>2, <1>3 DEF Inv

\* While a thread is in a call no other is.
LEMMA Alone ==
  ASSUME Modest, Inv, NEW t \in Thread, NEW u \in Thread, u # t, pc[t] # "idle" \/ Begins(t)
  PROVE  pc[u] = "idle"
  BY DEF Modest, Inv, OneCall, Begins

\* A step that ends the call of t, at an offset that can be represented.
LEMMA DeliverInv ==
  ASSUME Modest, Inv, NEW t \in Thread, pc[t] # "idle" \/ Begins(t),
         NEW bytes \in SUBSET (0 .. Size - 1), NEW value \in Int,
         Deliver(t, bytes, value), pos' \in 0 .. OffMax
  PROVE  Inv'
  <1>1. \A u \in Thread : pc'[u] = "idle"
    <2>1. pc'[t] = "idle"
      BY DEF Deliver, Inv, TypeOK
    <2>2. ASSUME NEW u \in Thread, u # t PROVE pc'[u] = "idle"
      BY <2>2, Alone DEF Deliver, Inv, TypeOK
    <2> QED BY <2>1, <2>2
  <1>2. TypeOK'
    BY <1>1, NoFrameType, SizeAssumption DEF Deliver, Inv, TypeOK, Place, U
  <1>3. OffsetIsRepresentable' /\ OneCall' /\ ReadInProgress' /\ SeekInProgress'
    BY <1>1 DEF OffsetIsRepresentable, OneCall, ReadInProgress, SeekInProgress
  <1> QED BY <1>2, <1>3 DEF Inv

\* A call that fails keeps the invariant.
LEMMA FailInv ==
  ASSUME Modest, Inv, NEW t \in Thread, pc[t] # "idle" \/ Begins(t), Fail(t),
         pos' \in 0 .. OffMax
  PROVE  Inv'
  <1>1. Deliver(t, {}, -1)
    BY DEF Fail
  <1> QED BY <1>1, DeliverInv

\* A step within the call of t.
LEMMA GotoInv ==
  ASSUME Modest, Inv, NEW t \in Thread, pc[t] # "idle" \/ Begins(t),
         NEW place \in Place \ {"idle"}, NEW f \in Frame, Goto(t, place, f),
         pos' \in 0 .. OffMax,
         place \in {"check", "load", "store"} => f.left > 0 /\ f.got > 0,
         place = "store" => f.old = pos',
         place = "seekcur" => f.old = pos' /\ f.start = pos' /\ f.by \in Offset,
         place # "seekcur" =>
           LET n == IF place \in {"check", "load", "store"} THEN f.got ELSE 0
           IN  /\ f.start + f.total = pos'
               /\ f.buf = f.start .. pos' + n - 1
               /\ f.total + n > 0 => pos' + n <= Size
  PROVE  Inv'
  <1>1. pc'[t] = place /\ frame'[t] = f
    BY DEF Goto, Inv, TypeOK
  <1>2. ASSUME NEW u \in Thread, u # t PROVE pc'[u] = "idle"
    BY <1>2, Alone DEF Goto, Inv, TypeOK
  <1>3. TypeOK'
    <2>1. pc' \in [Thread -> Place] /\ frame' \in [Thread -> Frame]
      BY DEF Goto, Inv, TypeOK
    <2>2. pos' \in 0 .. U - 1
      BY SizeAssumption DEF U
    <2> QED BY <1>1, <1>2, <2>1, <2>2 DEF Goto, Inv, TypeOK
  <1>4. OffsetIsRepresentable' /\ OneCall'
    BY <1>2 DEF OffsetIsRepresentable, OneCall
  <1>5. Uncounted(t)' = IF place \in {"check", "load", "store"} THEN f.got ELSE 0
    BY <1>1 DEF Uncounted
  <1>6. ReadInProgress'
    BY <1>1, <1>2, <1>5 DEF ReadInProgress
  <1>7. SeekInProgress'
    BY <1>1, <1>2 DEF SeekInProgress
  <1> QED BY <1>3, <1>4, <1>6, <1>7 DEF Inv

\* The types of what a call remembers.
LEMMA FrameFacts ==
  ASSUME Inv, NEW t \in Thread
  PROVE  /\ pos \in 0 .. OffMax
         /\ frame[t] \in Frame
         /\ frame[t].call \in {"read", "readv", "lseek"}
         /\ frame[t].start \in 0 .. U - 1 /\ frame[t].left \in 0 .. MaxIov + 1
         /\ frame[t].total \in Nat /\ frame[t].buf \in SUBSET (0 .. Size - 1)
         /\ frame[t].got \in 0 .. Size /\ frame[t].old \in 0 .. U - 1
         /\ frame[t].by \in OffMin .. OffMax
  <1>1. pos \in 0 .. OffMax
    BY SizeAssumption DEF Inv, TypeOK, OffsetIsRepresentable, U
  <1>2. frame[t] \in Frame
    BY DEF Inv, TypeOK
  <1> QED BY <1>1, <1>2 DEF Frame

\* Every step of a read or a seek keeps the invariant.
LEMMA NextInv == Modest /\ Inv /\ [Next]_vars => Inv'
  <1> SUFFICES ASSUME Modest, Inv, [Next]_vars PROVE Inv'
    OBVIOUS
  <1>0. pos \in 0 .. OffMax
    BY SizeAssumption DEF Inv, TypeOK, OffsetIsRepresentable, U
  <1>1. ASSUME NEW t \in Thread, NEW iovcnt \in 0 .. MaxIov,
               BeginRead(t) \/ BeginReadv(t, iovcnt)
        PROVE  Inv'
    <2>1. PICK call \in {"read", "readv"}, left \in 0 .. MaxIov + 1 :
            Goto(t, "fetch", NewFrame(call, pos, left, 0))
      BY <1>1, SizeAssumption DEF BeginRead, BeginReadv
    <2> DEFINE f == NewFrame(call, pos, left, 0)
    <2>2. f \in Frame
      BY <1>0, NewFrameType, SizeAssumption DEF OffMin, U
    <2>3. f.start = pos /\ f.total = 0 /\ f.buf = {} /\ pos .. pos - 1 = {}
      BY <1>0 DEF NewFrame
    <2>4. Begins(t) /\ pos' = pos
      BY <1>1 DEF BeginRead, BeginReadv
    <2>5. "fetch" \in Place \ {"idle"}
      BY DEF Place
    <2>6. Goto(t, "fetch", f) /\ f.start + f.total = pos'
      BY <1>0, <2>1, <2>3, <2>4
    <2>7. f.buf = f.start .. pos' + 0 - 1 /\ f.total + 0 = 0
      <3>1. pos' + 0 - 1 = pos - 1
        BY <1>0, <2>4
      <3> HIDE DEF f
      <3> QED BY <2>3, <3>1
    <2> HIDE DEF f
    <2> QED BY <1>0, <2>2, <2>4, <2>5, <2>6, <2>7, GotoInv
  <1>2. ASSUME NEW t \in Thread, Refuse(t) PROVE Inv'
    BY <1>0, <1>2, FailInv DEF Refuse
  <1>3. ASSUME NEW t \in Thread, NEW len \in Count, Fetch(t, len) PROVE Inv'
    <2> DEFINE n == Transfer(pos, len)
               f == [frame[t] EXCEPT !.got = AsInt(n), !.buf = @ \cup (pos .. pos + n - 1)]
               place == IF frame[t].call = "readv" THEN "check" ELSE "load"
    <2>1. n \in 1 .. Size /\ pos + n <= Size /\ AsInt(n) = n
      BY <1>0, <1>3, TransferFacts DEF Fetch
    <2>2. /\ frame[t].start + frame[t].total = pos
          /\ frame[t].buf = frame[t].start .. pos - 1
      BY <1>0, <1>3 DEF Fetch, Inv, ReadInProgress, Uncounted
    <2> HIDE DEF n
    <2>3. /\ f.got = n /\ f.start = frame[t].start /\ f.total = frame[t].total
          /\ f.left = frame[t].left
          /\ f.buf = frame[t].buf \cup (pos .. pos + n - 1)
      BY <2>1, FrameFacts DEF Frame
    <2>4. f.buf = f.start .. pos + n - 1
      <3>1. frame[t].start \in Nat /\ frame[t].start <= pos /\ n \in Nat
        BY <1>0, <2>1, <2>2, FrameFacts, SizeAssumption
      <3> HIDE DEF f
      <3> QED BY <1>0, <2>2, <2>3, <3>1, Adjacent
    <2>5. frame[t].buf \cup (pos .. pos + n - 1) \in SUBSET (0 .. Size - 1)
      BY <1>0, <2>1, <2>3, FrameFacts, SizeAssumption
    <2>6. f \in Frame
      <3>1. frame[t] \in Frame /\ AsInt(n) \in 0 .. Size
        BY <2>1, FrameFacts
      <3> QED BY <2>5, <3>1 DEF Frame
    <2>7. place \in Place \ {"idle"} /\ place \in {"check", "load"}
      BY DEF Place
    <2>8. pc[t] # "idle" /\ pos' = pos /\ Goto(t, place, f) /\ frame[t].left > 0
      BY <1>3 DEF Fetch, n
    <2> HIDE DEF f, place
    <2> QED BY <1>0, <2>1, <2>2, <2>3, <2>4, <2>6, <2>7, <2>8, GotoInv
  <1>4. ASSUME NEW t \in Thread, NEW len \in Count, FetchEnd(t, len) PROVE Inv'
    <2>1. frame[t].total \in Int /\ frame[t].buf \in SUBSET (0 .. Size - 1)
      BY FrameFacts
    <2> QED BY <1>0, <1>4, <2>1, DeliverInv DEF FetchEnd
  <1>5. ASSUME NEW t \in Thread, FetchFails(t) PROVE Inv'
    BY <1>0, <1>5, FailInv DEF FetchFails
  <1>6. ASSUME NEW t \in Thread, Check(t) PROVE Inv'
    <2>1. pc[t] = "check" /\ pos' = pos /\ (Fail(t) \/ Goto(t, "load", frame[t]))
      BY <1>6 DEF Check
    <2>2. CASE Fail(t)
      BY <1>0, <2>1, <2>2, FailInv
    <2>3. CASE Goto(t, "load", frame[t])
      <3>1. /\ frame[t].start + frame[t].total = pos
            /\ frame[t].buf = frame[t].start .. pos + frame[t].got - 1
            /\ frame[t].total + frame[t].got > 0 => pos + frame[t].got <= Size
            /\ frame[t].got > 0 /\ frame[t].left > 0
        BY <2>1 DEF Inv, TypeOK, ReadInProgress, Uncounted
      <3>2. "load" \in Place \ {"idle"}
        BY DEF Place
      <3> QED BY <1>0, <2>1, <2>3, <3>1, <3>2, FrameFacts, GotoInv
    <2> QED BY <2>1, <2>2, <2>3
  <1>7. ASSUME NEW t \in Thread, Load(t) PROVE Inv'
    <2> DEFINE f == [frame[t] EXCEPT !.old = pos]
    <2>1. /\ frame[t].start + frame[t].total = pos
          /\ frame[t].buf = frame[t].start .. pos + frame[t].got - 1
          /\ frame[t].total + frame[t].got > 0 => pos + frame[t].got <= Size
          /\ frame[t].got > 0 /\ frame[t].left > 0
      BY <1>7 DEF Load, Inv, TypeOK, ReadInProgress, Uncounted
    <2>2. /\ f.old = pos /\ f.start = frame[t].start /\ f.total = frame[t].total
          /\ f.left = frame[t].left /\ f.buf = frame[t].buf /\ f.got = frame[t].got
      BY FrameFacts DEF Frame
    <2>3. f \in Frame
      BY <1>0, FrameFacts, SizeAssumption DEF Frame, U
    <2>4. "store" \in Place \ {"idle"}
      BY DEF Place
    <2>5. pc[t] # "idle" /\ pos' = pos /\ Goto(t, "store", f)
      BY <1>7 DEF Load
    <2> HIDE DEF f
    <2> QED BY <1>0, <2>1, <2>2, <2>3, <2>4, <2>5, GotoInv
  <1>8. ASSUME NEW t \in Thread, Store(t) PROVE Inv'
    <2> DEFINE sum == frame[t].total + frame[t].got
               f == [frame[t] EXCEPT !.left = @ - 1, !.total = sum]
    <2>1. /\ frame[t].start + frame[t].total = pos
          /\ frame[t].buf = frame[t].start .. pos + frame[t].got - 1
          /\ frame[t].total + frame[t].got > 0 => pos + frame[t].got <= Size
          /\ frame[t].got > 0 /\ frame[t].left > 0 /\ frame[t].old = pos
      BY <1>8 DEF Store, Inv, TypeOK, ReadInProgress, Uncounted
    <2>a. /\ frame[t].start \in Nat /\ frame[t].total \in Nat /\ frame[t].got \in Nat
          /\ frame[t].left \in 0 .. MaxIov + 1 /\ frame[t] \in Frame
      BY FrameFacts, SizeAssumption DEF U
    <2>2. pos' = pos + frame[t].got /\ pos' \in 0 .. Size /\ pos' \in 0 .. OffMax
      <3>0. frame[t].total + frame[t].got > 0
        BY <2>1, <2>a
      <3>1. pos + frame[t].got \in 0 .. Size /\ Size \in 0 .. OffMax
        BY <1>0, <2>1, <2>a, <3>0, SizeAssumption
      <3>2. Wrap(pos + frame[t].got) = pos + frame[t].got
        BY <3>1, SizeAssumption DEF Wrap, U
      <3> QED BY <1>8, <2>1, <3>1, <3>2, SizeAssumption DEF Store
    <2>3. CASE Deliver(t, frame[t].buf, sum)
      BY <1>8, <2>2, <2>3, FrameFacts, DeliverInv DEF Store
    <2>4. CASE Goto(t, "fetch", f)
      <3>1. f.start = frame[t].start /\ f.total = sum /\ f.buf = frame[t].buf
        BY FrameFacts DEF Frame
      <3>2. f \in Frame
        <4>1. frame[t] \in Frame /\ sum \in Nat /\ frame[t].left - 1 \in 0 .. MaxIov + 1
          <5>1. MaxIov \in Nat
            BY SizeAssumption
          <5>2. sum \in Nat
            BY <2>a
          <5>3. frame[t].left - 1 \in 0 .. MaxIov + 1
            <6> DEFINE left == frame[t].left
            <6>1. left > 0 /\ left \in 0 .. MaxIov + 1
              BY <2>1, <2>a
            <6> HIDE DEF left
            <6>2. left - 1 \in 0 .. MaxIov + 1
              BY <5>1, <6>1
            <6> QED BY <6>2 DEF left
          <5> QED BY <2>a, <5>2, <5>3
        <4> HIDE DEF sum
        <4> QED BY <4>1 DEF Frame
      <3>3. "fetch" \in Place \ {"idle"} /\ pc[t] # "idle"
        BY <1>8 DEF Place, Store
      <3>4. f.start + f.total = pos' /\ f.buf = f.start .. pos' - 1
        <4>1. frame[t].start + sum = pos + frame[t].got
          BY <1>0, <2>1, <2>a
        <4>2. f.buf = frame[t].start .. pos' - 1
          <5>0. frame[t].got \in Int /\ pos \in Int
            BY <1>0, <2>a
          <5>1. frame[t].buf = frame[t].start .. (pos + frame[t].got) - 1
            <6>1. pos + frame[t].got - 1 = (pos + frame[t].got) - 1
              BY <5>0
            <6> HIDE DEF f, sum
            <6> QED BY <2>1, <6>1, Zenon
          <5>2. pos' = pos + frame[t].got
            BY <2>2
          <5> HIDE DEF f, sum
          <5>3. frame[t].buf = frame[t].start .. pos' - 1
            BY <5>1, <5>2, Zenon
          <5> QED BY <3>1, <5>3
        <4> HIDE DEF f, sum
        <4> QED BY <2>2, <3>1, <4>1, <4>2
      <3> HIDE DEF f
      <3> QED BY <2>2, <2>4, <3>2, <3>3, <3>4, SizeAssumption, GotoInv
    <2> QED BY <1>8, <2>3, <2>4 DEF Store
  <1>9. ASSUME NEW t \in Thread, NEW from \in Offset, NEW len \in Count, PRead(t, from, len)
        PROVE  Inv'
    <2>1. pos' = pos /\ Begins(t)
      BY <1>9 DEF PRead
    <2>2. CASE Fail(t)
      BY <1>0, <2>1, <2>2, FailInv
    <2>3. CASE ~Fail(t)
      <3> DEFINE n == Transfer(from, len)
      <3>1. from \in Nat /\ Deliver(t, from .. from + n - 1, AsInt(n))
        BY <1>9, <2>3, OffsetAssumption, SizeAssumption DEF PRead, OffMin
      <3>2. n \in 0 .. Size /\ AsInt(n) = n /\ (n > 0 => from + n <= Size)
        BY <3>1, TransferFacts
      <3> HIDE DEF n
      <3>3. from .. from + n - 1 \in SUBSET (0 .. Size - 1)
        BY <3>1, <3>2, SizeAssumption
      <3> QED BY <1>0, <2>1, <3>1, <3>2, <3>3, SizeAssumption, DeliverInv
    <2> QED BY <2>2, <2>3
  <1>10. ASSUME NEW t \in Thread, NEW n \in 0 .. OffMax, SetPos(t, n),
                pc[t] # "idle" \/ Begins(t)
         PROVE  Inv'
    <2>1. AsOff(n) \in Int
      BY SizeAssumption DEF AsOff, U
    <2>2. pos' \in 0 .. OffMax /\ Deliver(t, {}, AsOff(n))
      BY <1>10 DEF SetPos
    <2> QED BY <1>10, <2>1, <2>2, DeliverInv
  <1>11. ASSUME NEW t \in Thread, NEW offset \in Offset, SeekSet(t, offset) PROVE Inv'
    BY <1>0, <1>10, <1>11, FailInv, OffsetAssumption, SizeAssumption DEF SeekSet, OffMin
  <1>12. ASSUME NEW t \in Thread, NEW offset \in Offset, BeginSeekCur(t, offset) PROVE Inv'
    <2> DEFINE f == NewFrame("lseek", pos, 0, offset)
    <2>1. f \in Frame
      BY <1>0, NewFrameType, OffsetAssumption, SizeAssumption DEF U
    <2>2. f.old = pos /\ f.start = pos /\ f.by = offset
      BY DEF NewFrame
    <2>3. "seekcur" \in Place \ {"idle"} /\ Begins(t) /\ pos' = pos /\ Goto(t, "seekcur", f)
      BY <1>12 DEF Place, BeginSeekCur
    <2> HIDE DEF f
    <2> QED BY <1>0, <2>1, <2>2, <2>3, GotoInv
  <1>13. ASSUME NEW t \in Thread, SeekCur(t) PROVE Inv'
    <2> DEFINE offset == frame[t].by
    <2>1. pc[t] = "seekcur" /\ frame[t].old = pos /\ offset \in OffMin .. OffMax
      BY <1>13, FrameFacts DEF SeekCur, Inv, SeekInProgress
    <2>2. CASE Fail(t) /\ UNCHANGED pos
      BY <1>0, <2>1, <2>2, FailInv
    <2>3. CASE ~(Fail(t) /\ UNCHANGED pos)
      <3>1. pos + offset \in 0 .. OffMax /\ SetPos(t, Wrap(pos + offset))
        BY <1>0, <1>13, <2>1, <2>3, SeekFacts, SizeAssumption DEF SeekCur, OffMin
      <3> QED BY <1>0, <1>10, <2>1, <3>1, SeekFacts
    <2> QED BY <2>2, <2>3
  <1>14. ASSUME NEW t \in Thread, NEW offset \in EndOffset, SeekEnd(t, offset) PROVE Inv'
    <2>1. offset \in OffMin .. OffMax /\ offset # OffMin /\ Size \in 0 .. OffMax
      BY OffsetAssumption, SizeAssumption DEF Modest
    <2>2. CASE Fail(t) /\ UNCHANGED pos
      BY <1>0, <1>14, <2>2, FailInv DEF SeekEnd
    <2>3. CASE ~(Fail(t) /\ UNCHANGED pos)
      <3>1. Size + offset \in 0 .. OffMax /\ SetPos(t, Wrap(Size + offset))
        BY <1>14, <2>1, <2>3, SeekFacts, EndFacts, SizeAssumption DEF SeekEnd, OffMin
      <3> QED BY <1>10, <1>14, <2>1, <3>1, SeekFacts DEF SeekEnd
    <2> QED BY <2>2, <2>3
  <1>15. CASE UNCHANGED vars
    BY <1>15 DEF vars, Inv, TypeOK, OffsetIsRepresentable, OneCall, ReadInProgress,
                 SeekInProgress, Uncounted
  <1> QED
    BY <1>1, <1>2, <1>3, <1>4, <1>5, <1>6, <1>7, <1>8, <1>9, <1>11, <1>12, <1>13,
       <1>14, <1>15, SizeAssumption DEF Next, Step

\* The invariant behind the properties.
THEOREM InvHolds == Modest => (Spec => []Inv)
  <1> SUFFICES ASSUME Modest PROVE Spec => []Inv
    OBVIOUS
  <1>1. Inv /\ [Next]_vars => Inv'
    BY NextInv
  <1> QED BY <1>1, InitInv, PTL DEF Spec

\* The offset of a file stays one that lseek can return.
THEOREM OffsetsAreRepresentable == Modest => (Spec => []OffsetIsRepresentable)
  <1>1. Inv => OffsetIsRepresentable
    BY DEF Inv
  <1> QED BY <1>1, InvHolds, PTL

\* Every variable stays in its type.
THEOREM TypeCorrect == Modest => (Spec => []TypeOK)
  <1>1. Inv => TypeOK
    BY DEF Inv
  <1> QED BY <1>1, InvHolds, PTL

--------------------------------------------------------------------------------
(* FilePos implements FileOffset.                                            *)

\* Who knows which offset: the caller the one his call began at, everybody else pos.
LEMMA KnownBusy ==
  ASSUME NEW t \in Thread, pc[t] # "idle", OneCall
  PROVE  KnownPos = frame[t].start
  <1>1. Busy
    BY DEF Busy
  <1>2. Caller \in Thread /\ pc[Caller] # "idle"
    BY <1>1 DEF Busy, Caller
  <1>3. Caller = t
    BY <1>2 DEF OneCall
  <1> QED BY <1>1, <1>3 DEF KnownPos

\* While a call is in progress, the known position is the one it started at.
LEMMA KnownBusyNext ==
  ASSUME NEW t \in Thread, pc'[t] # "idle", OneCall'
  PROVE  KnownPos' = frame'[t].start
  <1>1. Busy'
    BY DEF Busy
  <1>2. Caller' \in Thread /\ pc'[Caller'] # "idle"
    BY <1>1 DEF Busy, Caller
  <1>3. Caller' = t
    BY <1>2 DEF OneCall
  <1> QED BY <1>1, <1>3 DEF KnownPos

\* While none is, the known position is that of the descriptor.
LEMMA KnownIdle ==
  ASSUME Modest, NEW t \in Thread, Begins(t)
  PROVE  KnownPos = pos
  BY DEF Modest, Begins, KnownPos, Busy

\* A call that ends leaves pos to everybody.
LEMMA KnownDelivered ==
  ASSUME Modest, Inv, NEW t \in Thread, pc[t] # "idle" \/ Begins(t),
         NEW bytes, NEW value, Deliver(t, bytes, value)
  PROVE  KnownPos' = pos' /\ data' = bytes /\ ret' = value
  <1>1. pc'[t] = "idle"
    BY DEF Deliver, Inv, TypeOK
  <1>2. ASSUME NEW u \in Thread, u # t PROVE pc'[u] = "idle"
    BY <1>2, Alone DEF Deliver, Inv, TypeOK
  <1> QED BY <1>1, <1>2 DEF KnownPos, Busy, Deliver

\* A step inside a call changes nothing that the program knows.
LEMMA GotoStutters ==
  ASSUME Inv, Inv', NEW t \in Thread, NEW place, NEW f, Goto(t, place, f), place # "idle",
         f.start = KnownPos
  PROVE  UNCHANGED O!vars
  <1>1. pc'[t] = place /\ frame'[t] = f
    BY DEF Goto, Inv, TypeOK
  <1>2. KnownPos' = f.start
    BY <1>1, KnownBusyNext DEF Inv
  <1> QED BY <1>2 DEF Goto, O!vars

\* Nor does the beginning of a call.
LEMMA BeginStutters ==
  ASSUME Modest, Inv, Inv', NEW t \in Thread, Begins(t), NEW call, NEW left, NEW by,
         NEW place, place # "idle", Goto(t, place, NewFrame(call, pos, left, by))
  PROVE  UNCHANGED O!vars
  <1> DEFINE f == NewFrame(call, pos, left, by)
  <1>1. f.start = KnownPos
    BY KnownIdle DEF NewFrame
  <1> HIDE DEF f
  <1> QED BY <1>1, GotoStutters DEF f

\* A call that fails when it begins is refused.
LEMMA FailRefused ==
  ASSUME Modest, Inv, NEW t \in Thread, Begins(t), Fail(t), UNCHANGED pos
  PROVE  O!Refused
  <1>1. Deliver(t, {}, -1)
    BY DEF Fail
  <1> QED BY <1>1, KnownIdle, KnownDelivered DEF O!Refused

\* A read that fails: pos is where its last counted buffer ended.
LEMMA FailIsReadFails ==
  ASSUME Modest, Inv, NEW t \in Thread, pc[t] \in {"fetch", "check"}, Fail(t), UNCHANGED pos
  PROVE  O!ReadFails
  <1>1. Deliver(t, {}, -1)
    BY DEF Fail
  <1>2. KnownPos' = pos /\ data' = {} /\ ret' = -1
    BY <1>1, KnownDelivered
  <1>3. KnownPos = frame[t].start
    BY KnownBusy DEF Inv
  <1>4. /\ frame[t].start + frame[t].total = pos
        /\ frame[t].total + Uncounted(t) > 0 => pos + Uncounted(t) <= Size
        /\ Uncounted(t) \in Nat /\ frame[t].total \in Nat /\ frame[t].start \in Nat
    BY FrameFacts, SizeAssumption DEF Inv, ReadInProgress, Uncounted, U
  <1>5. pos \in {frame[t].start} \cup (frame[t].start .. Size)
    BY <1>4, SizeAssumption
  <1> QED BY <1>2, <1>3, <1>5 DEF O!ReadFails

\* A read that ends has delivered what it counts.
LEMMA DeliverIsRead ==
  ASSUME Modest, Inv, NEW t \in Thread, pc[t] # "idle", NEW n \in Nat,
         Deliver(t, frame[t].buf, n), frame[t].start + n = pos',
         frame[t].buf = frame[t].start .. pos' - 1, n > 0 => pos' <= Size
  PROVE  \E k \in 0 .. Size : O!Read(k)
  <1>1. KnownPos' = pos' /\ data' = frame[t].buf /\ ret' = n
    BY KnownDelivered
  <1>2. KnownPos = frame[t].start
    BY KnownBusy DEF Inv
  <1>3. frame[t].start \in Nat
    BY FrameFacts, SizeAssumption DEF U
  <1>4. n \in 0 .. Size /\ (n > 0 => frame[t].start + n <= Size)
    BY <1>3, SizeAssumption
  <1>5. pos' - 1 = frame[t].start + n - 1
    BY <1>3
  <1>6. O!Read(n)
    BY <1>1, <1>2, <1>4, <1>5 DEF O!Read
  <1> QED BY <1>4, <1>6

\* Setting the position is a seek from the place that whence names.
LEMMA SetPosIsSeek ==
  ASSUME Modest, Inv, NEW t \in Thread, pc[t] # "idle" \/ Begins(t),
         NEW base \in {0, KnownPos, Size}, base \in 0 .. OffMax,
         NEW offset \in OffMin .. OffMax, base + offset \in 0 .. OffMax,
         SetPos(t, base + offset)
  PROVE  \E b \in {0, KnownPos, Size}, o \in -(OffMax + 1) .. OffMax : O!Seek(b, o)
  <1>1. AsOff(base + offset) = base + offset
    BY SeekFacts
  <1>2. KnownPos' = pos' /\ data' = {} /\ ret' = base + offset /\ pos' = base + offset
    BY <1>1, KnownDelivered DEF SetPos
  <1>3. O!Seek(base, offset)
    BY <1>2 DEF O!Seek
  <1> QED BY <1>3 DEF OffMin

\* Every step of a modest program is one of a single offset, or none.
LEMMA OneStep == Modest /\ Inv /\ Inv' /\ [Next]_vars => [O!Next]_O!vars
  <1> SUFFICES ASSUME Modest, Inv, Inv', [Next]_vars PROVE O!Next \/ UNCHANGED O!vars
    OBVIOUS
  <1>0. pos \in 0 .. OffMax /\ Size \in 0 .. OffMax /\ 0 \in 0 .. OffMax
    BY SizeAssumption DEF Inv, TypeOK, OffsetIsRepresentable, U
  <1>a. ASSUME NEW t \in Thread, BeginRead(t) PROVE UNCHANGED O!vars
    BY <1>a, BeginStutters DEF BeginRead
  <1>b. ASSUME NEW t \in Thread, NEW iovcnt \in 0 .. MaxIov, BeginReadv(t, iovcnt)
        PROVE  UNCHANGED O!vars
    BY <1>b, BeginStutters DEF BeginReadv
  <1>c. ASSUME NEW t \in Thread, NEW offset \in Offset, BeginSeekCur(t, offset)
        PROVE  UNCHANGED O!vars
    BY <1>c, BeginStutters DEF BeginSeekCur
  <1>2. ASSUME NEW t \in Thread, Refuse(t) PROVE O!Refused
    BY <1>2, FailRefused DEF Refuse
  <1>3. ASSUME NEW t \in Thread, NEW len \in Count, Fetch(t, len) PROVE UNCHANGED O!vars
    <2> DEFINE n == Transfer(pos, len)
               f == [frame[t] EXCEPT !.got = AsInt(n), !.buf = @ \cup (pos .. pos + n - 1)]
               place == IF frame[t].call = "readv" THEN "check" ELSE "load"
    <2>1. Goto(t, place, f) /\ place # "idle" /\ pc[t] # "idle"
      BY <1>3 DEF Fetch
    <2>2. f.start = frame[t].start
      BY FrameFacts DEF Frame
    <2>3. f.start = KnownPos
      BY <2>1, <2>2, KnownBusy DEF Inv
    <2> HIDE DEF f, place
    <2> QED BY <2>1, <2>3, GotoStutters
  <1>4. ASSUME NEW t \in Thread, NEW len \in Count, FetchEnd(t, len)
        PROVE  \E k \in 0 .. Size : O!Read(k)
    <2>1. /\ pc[t] = "fetch" /\ pos' = pos
          /\ Deliver(t, frame[t].buf, frame[t].total)
      BY <1>4 DEF FetchEnd
    <2>2. /\ frame[t].start + frame[t].total = pos
          /\ frame[t].buf = frame[t].start .. pos + 0 - 1
          /\ frame[t].total + 0 > 0 => pos + 0 <= Size
      BY <2>1 DEF Inv, ReadInProgress, Uncounted
    <2>3. pos + 0 - 1 = pos' - 1 /\ pos + 0 = pos' /\ frame[t].total + 0 = frame[t].total
      BY <1>0, <2>1, FrameFacts
    <2>4. frame[t].total \in Nat
      BY FrameFacts
    <2> QED BY <2>1, <2>2, <2>3, <2>4, DeliverIsRead
  <1>5. ASSUME NEW t \in Thread, FetchFails(t) PROVE O!ReadFails
    BY <1>5, FailIsReadFails DEF FetchFails
  <1>6. ASSUME NEW t \in Thread, Check(t) PROVE O!ReadFails \/ UNCHANGED O!vars
    <2>1. pc[t] = "check" /\ pos' = pos /\ (Fail(t) \/ Goto(t, "load", frame[t]))
      BY <1>6 DEF Check
    <2>2. CASE Fail(t)
      BY <2>1, <2>2, FailIsReadFails
    <2>3. CASE Goto(t, "load", frame[t])
      BY <2>1, <2>3, KnownBusy, GotoStutters DEF Inv
    <2> QED BY <2>1, <2>2, <2>3
  <1>7. ASSUME NEW t \in Thread, Load(t) PROVE UNCHANGED O!vars
    <2> DEFINE f == [frame[t] EXCEPT !.old = pos]
    <2>1. pc[t] = "load" /\ Goto(t, "store", f)
      BY <1>7 DEF Load
    <2>2. f.start = frame[t].start
      BY FrameFacts DEF Frame
    <2>3. f.start = KnownPos
      BY <2>1, <2>2, KnownBusy DEF Inv
    <2> HIDE DEF f
    <2> QED BY <2>1, <2>3, GotoStutters
  <1>8. ASSUME NEW t \in Thread, Store(t)
        PROVE  (\E k \in 0 .. Size : O!Read(k)) \/ UNCHANGED O!vars
    <2> DEFINE sum == frame[t].total + frame[t].got
               f == [frame[t] EXCEPT !.left = @ - 1, !.total = sum]
    <2>1. /\ frame[t].start + frame[t].total = pos
          /\ frame[t].buf = frame[t].start .. pos + frame[t].got - 1
          /\ frame[t].total + frame[t].got > 0 => pos + frame[t].got <= Size
          /\ frame[t].got > 0 /\ frame[t].old = pos /\ pc[t] = "store"
      BY <1>8 DEF Store, Inv, ReadInProgress, Uncounted
    <2>2. /\ frame[t].start \in Nat /\ frame[t].total \in Nat /\ frame[t].got \in Nat
      BY FrameFacts, SizeAssumption DEF U
    <2>3. pos' = pos + frame[t].got
      <3>0. frame[t].total + frame[t].got > 0
        BY <2>1, <2>2
      <3>1. pos + frame[t].got \in 0 .. OffMax
        <4> HIDE DEF f, sum
        <4> DEFINE got == frame[t].got
        <4>1. pos + got <= Size /\ got \in Nat
          BY <2>1, <2>2, <3>0
        <4> HIDE DEF got
        <4>2. pos + got \in 0 .. OffMax
          BY <1>0, <4>1, SizeAssumption
        <4> QED BY <4>2 DEF got
      <3>2. Wrap(pos + frame[t].got) = pos + frame[t].got
        BY <3>1, SizeAssumption DEF Wrap, U
      <3> QED BY <1>8, <2>1, <3>2 DEF Store
    <2>4. CASE Deliver(t, frame[t].buf, sum)
      <3> HIDE DEF f
      <3>0. sum \in Nat /\ frame[t].start + sum = pos + frame[t].got
        BY <1>0, <2>1, <2>2
      <3>1. sum \in Nat /\ frame[t].start + sum = pos' /\ (sum > 0 => pos' <= Size)
        <4> HIDE DEF sum
        <4>1. sum > 0 => pos + frame[t].got <= Size
          BY <2>1 DEF sum
        <4> QED BY <2>3, <3>0, <4>1
      <3>2. frame[t].buf = frame[t].start .. pos' - 1
        <4>1. frame[t].buf = frame[t].start .. (pos + frame[t].got) - 1
          <5>1. pos + frame[t].got - 1 = (pos + frame[t].got) - 1
            BY <1>0, <2>2
          <5> HIDE DEF sum
          <5> QED BY <2>1, <5>1, Zenon
        <4> HIDE DEF sum
        <4> QED BY <2>3, <4>1, Zenon
      <3> HIDE DEF sum
      <3> QED BY <2>1, <2>4, <3>1, <3>2, DeliverIsRead
    <2>5. CASE Goto(t, "fetch", f)
      <3>1. f.start = frame[t].start
        BY FrameFacts DEF Frame
      <3>2. f.start = KnownPos
        BY <2>1, <3>1, KnownBusy DEF Inv
      <3> HIDE DEF f
      <3> QED BY <2>5, <3>2, GotoStutters
    <2> QED BY <1>8, <2>4, <2>5 DEF Store
  <1>9. ASSUME NEW t \in Thread, NEW from \in Offset, NEW len \in Count, PRead(t, from, len)
        PROVE  O!Refused \/ \E b \in 0 .. OffMax, k \in 0 .. Size : O!PRead(b, k)
    <2> DEFINE n == Transfer(from, len)
    <2>1. Begins(t) /\ UNCHANGED pos
      BY <1>9 DEF PRead
    <2>2. CASE Fail(t)
      BY <2>1, <2>2, FailRefused
    <2>3. CASE ~Fail(t)
      <3>1. from \in 0 .. OffMax /\ Deliver(t, from .. from + n - 1, AsInt(n))
        BY <1>9, <2>3, OffsetAssumption, SizeAssumption DEF PRead, OffMin
      <3>2. n \in 0 .. Size /\ AsInt(n) = n /\ (n > 0 => from + n <= Size)
        BY <3>1, TransferFacts
      <3> HIDE DEF n
      <3>3. KnownPos' = pos' /\ data' = from .. from + n - 1 /\ ret' = n /\ KnownPos = pos
        BY <2>1, <3>1, <3>2, KnownDelivered, KnownIdle
      <3>4. O!PRead(from, n)
        BY <2>1, <3>2, <3>3 DEF O!PRead
      <3> QED BY <3>1, <3>2, <3>4
    <2> QED BY <2>2, <2>3
  <1> DEFINE Sought == \E b \in {0, KnownPos, Size}, o \in -(OffMax + 1) .. OffMax : O!Seek(b, o)
  <1>10. ASSUME NEW t \in Thread, NEW offset \in Offset, SeekSet(t, offset)
         PROVE  O!Refused \/ Sought
    <2>1. CASE Fail(t) /\ UNCHANGED pos
      BY <1>10, <2>1, FailRefused DEF SeekSet
    <2>2. CASE ~(Fail(t) /\ UNCHANGED pos)
      <3>1. /\ offset \in OffMin .. OffMax /\ 0 + offset \in 0 .. OffMax
            /\ SetPos(t, offset) /\ Begins(t)
        BY <1>10, <2>2, OffsetAssumption, SizeAssumption DEF SeekSet, OffMin
      <3>2. SetPos(t, 0 + offset)
        <4>1. 0 + offset = offset
          BY <3>1, SizeAssumption DEF OffMin
        <4> QED BY <3>1, <4>1
      <3> QED BY <1>0, <3>1, <3>2, SetPosIsSeek
    <2> QED BY <2>1, <2>2
  <1>11. ASSUME NEW t \in Thread, SeekCur(t) PROVE O!Refused \/ Sought
    <2> DEFINE offset == frame[t].by
    <2>1. /\ pc[t] = "seekcur" /\ frame[t].old = pos /\ frame[t].start = pos
          /\ offset \in OffMin .. OffMax
      BY <1>11, FrameFacts DEF SeekCur, Inv, SeekInProgress
    <2>2. KnownPos = pos
      BY <2>1, KnownBusy DEF Inv
    <2>3. CASE Fail(t) /\ UNCHANGED pos
      <3>1. Deliver(t, {}, -1) /\ pos' = pos
        BY <2>3 DEF Fail
      <3> QED BY <2>1, <2>2, <3>1, KnownDelivered DEF O!Refused
    <2>4. CASE ~(Fail(t) /\ UNCHANGED pos)
      <3>1. pos + offset \in 0 .. OffMax /\ SetPos(t, Wrap(pos + offset))
        BY <1>0, <1>11, <2>1, <2>4, SeekFacts, SizeAssumption DEF SeekCur, OffMin
      <3>2. SetPos(t, pos + offset)
        BY <1>0, <2>1, <3>1, SeekFacts
      <3> HIDE DEF offset
      <3> QED BY <1>0, <2>1, <2>2, <3>1, <3>2, SetPosIsSeek
    <2> QED BY <2>3, <2>4
  <1>12. ASSUME NEW t \in Thread, NEW offset \in EndOffset, SeekEnd(t, offset)
         PROVE  O!Refused \/ Sought
    <2>1. offset \in OffMin .. OffMax /\ offset # OffMin
      BY OffsetAssumption DEF Modest
    <2>2. CASE Fail(t) /\ UNCHANGED pos
      BY <1>12, <2>2, FailRefused DEF SeekEnd
    <2>3. CASE ~(Fail(t) /\ UNCHANGED pos)
      <3>1. Size + offset \in 0 .. OffMax /\ SetPos(t, Wrap(Size + offset)) /\ Begins(t)
        BY <1>0, <1>12, <2>1, <2>3, SeekFacts, EndFacts, SizeAssumption DEF SeekEnd, OffMin
      <3>2. SetPos(t, Size + offset)
        BY <1>0, <2>1, <3>1, SeekFacts
      <3> QED BY <1>0, <2>1, <3>1, <3>2, SetPosIsSeek
    <2> QED BY <2>2, <2>3
  <1>13. ASSUME UNCHANGED vars PROVE UNCHANGED O!vars
    BY <1>13 DEF vars, O!vars, KnownPos, Busy, Caller
  <1> HIDE DEF Sought
  <1>14. O!Refused \/ O!ReadFails \/ Sought \/ (\E k \in 0 .. Size : O!Read(k))
           \/ (\E b \in 0 .. OffMax, k \in 0 .. Size : O!PRead(b, k)) \/ UNCHANGED O!vars
    <2>1. CASE Next
      <3>1. PICK t \in Thread : Step(t)
        BY <2>1 DEF Next
      <3>2. CASE \E offset \in Offset : \/ SeekSet(t, offset) \/ BeginSeekCur(t, offset)
                                        \/ \E len \in Count : PRead(t, offset, len)
        BY <1>c, <1>9, <1>10, <3>2
      <3>3. CASE ~\E offset \in Offset : \/ SeekSet(t, offset) \/ BeginSeekCur(t, offset)
                                         \/ \E len \in Count : PRead(t, offset, len)
        BY <1>a, <1>b, <1>2, <1>3, <1>4, <1>5, <1>6, <1>7, <1>8, <1>11, <1>12, <3>1, <3>3 DEF Step
      <3> QED BY <3>2, <3>3
    <2>2. Next \/ UNCHANGED vars
      OBVIOUS
    <2> QED BY <1>13, <2>1, <2>2
  <1>15. Sought => O!Next
    BY DEF O!Next, Sought
  <1>16. O!Refused \/ O!ReadFails => O!Next
    BY DEF O!Next
  <1>17. ASSUME NEW k \in 0 .. Size, O!Read(k) PROVE O!Next
    BY <1>17 DEF O!Next
  <1>18. ASSUME NEW b \in 0 .. OffMax, NEW k \in 0 .. Size, O!PRead(b, k) PROVE O!Next
    BY <1>18 DEF O!Next
  <1> QED BY <1>14, <1>15, <1>16, <1>17, <1>18

\* The calls of a modest program on a file are reads and seeks of one offset, whatever
\* the sizes (sync_tebako_fdtable::read, readv, pread and lseek).
THEOREM OneOffset == Modest => (Spec => ReadsAreSequential)
  <1> SUFFICES ASSUME Modest PROVE Spec => ReadsAreSequential
    OBVIOUS
  <1>1. Init => O!Init
    BY DEF Init, O!Init, KnownPos, Busy
  <1>2. Inv /\ Inv' /\ [Next]_vars => [O!Next]_O!vars
    BY OneStep
  <1>3. Spec => []Inv
    BY InvHolds
  <1> QED BY <1>1, <1>2, <1>3, PTL DEF Spec, ReadsAreSequential, O!Spec
================================================================================
