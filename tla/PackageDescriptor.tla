--------------------------- MODULE PackageDescriptor ---------------------------
(***************************************************************************)
(* The bytes in front of an application package (package_descriptor,       *)
(* tebako-package-descriptor.cpp): how they are written when the package   *)
(* is made, and read when it is run.                                       *)
(*                                                                         *)
(* A string is the sequence of its bytes, and a uint16_t is two bytes of   *)
(* the machine, the lower one first (to_little_endian of the header is     *)
(* called by nobody).                                                      *)
(***************************************************************************)
EXTENDS Naturals, Sequences, SequencesExt

CONSTANTS
  Base,       \* the values of a byte: 256
  Signature,  \* "TAMATEBAKO"
  None

ASSUME ByteAssumption == Base \in Nat \ {0, 1} /\ Signature \in Seq(0 .. Base - 1)

Byte == 0 .. Base - 1
Wide == Base * Base   \* what a uint16_t can tell apart
String == Seq(Byte)
Descriptor == [version : [1 .. 6 -> 0 .. Wide - 1], mount_point : String, entry_point : String,
               cwd : String \cup {None}]

\* A version as it is given: three numbers and what stands between them.
Version == [numbers : [1 .. 3 -> Nat], dots : Seq(STRING)]

\* operator>> of a uint16_t fails at a number that is too large, and the second dot is
\* read over the first.
IsVersion(v) == /\ \A n \in 1 .. 3 : v.numbers[n] < Wide
                /\ v.dots[2] = "."

\* The constructor from version strings; None stands for the exception.
Described(ruby, tebako, mount_point, entry_point, cwd) ==
  IF IsVersion(ruby) /\ IsVersion(tebako)
  THEN [version |-> ruby.numbers \o tebako.numbers, mount_point |-> mount_point,
        entry_point |-> entry_point, cwd |-> cwd]
  ELSE None

\* Mutant: a number is put whole into the lower byte.
Number_Low(n) == <<n, 0>>

Number(n) == <<n % Base, n \div Base>>

\* Mutant: the string is written whole, whatever its size says.
Sized_Whole(s) == Number(Len(s) % Wide) \o s

\* The size is cut to 16 bits, and so is the string.
Sized(s) == Number(Len(s) % Wide) \o SubSeq(s, 1, Len(s) % Wide)

Serialize(d) ==
  Signature \o Number(d.version[1]) \o Number(d.version[2]) \o Number(d.version[3])
    \o Number(d.version[4]) \o Number(d.version[5]) \o Number(d.version[6])
    \o Sized(d.mount_point) \o Sized(d.entry_point)
    \o (IF d.cwd = None THEN <<0>> ELSE <<1>> \o Sized(d.cwd))

NumberAt(b, at) == b[at + 1] + Base * b[at + 2]
StringAt(b, at) == SubSeq(b, at + 3, at + 2 + NumberAt(b, at))
After(b, at) == at + 2 + NumberAt(b, at)

\* Mutant: the cwd is not there when its flag is 1.
Parse_Unread(b) ==
  LET Fits(end) == end <= Len(b)
      mount == Len(Signature) + 12
      entry == After(b, mount)
      flag == After(b, entry)
  IN  IF /\ IsPrefix(Signature, b) /\ Fits(mount + 2) /\ Fits(entry)
         /\ Fits(entry + 2) /\ Fits(flag) /\ Fits(flag + 1)
      THEN [version |-> [n \in 1 .. 6 |-> NumberAt(b, Len(Signature) + 2 * (n - 1))],
            mount_point |-> StringAt(b, mount), entry_point |-> StringAt(b, entry), cwd |-> None]
      ELSE None

\* The constructor from a buffer: each field is read when there are bytes enough for it,
\* and whatever comes after the last one is left alone.
Parse(b) ==
  LET Fits(end) == end <= Len(b)
      mount == Len(Signature) + 12
      entry == After(b, mount)
      flag == After(b, entry)
  IN  IF /\ IsPrefix(Signature, b) /\ Fits(mount + 2) /\ Fits(entry)
         /\ Fits(entry + 2) /\ Fits(flag) /\ Fits(flag + 1)
         /\ b[flag + 1] # 0 => Fits(flag + 3) /\ Fits(After(b, flag + 1))
      THEN [version |-> [n \in 1 .. 6 |-> NumberAt(b, Len(Signature) + 2 * (n - 1))],
            mount_point |-> StringAt(b, mount), entry_point |-> StringAt(b, entry),
            cwd |-> IF b[flag + 1] = 0 THEN None ELSE StringAt(b, flag + 1)]
      ELSE None
================================================================================
