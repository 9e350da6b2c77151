--------------------------------- MODULE CmdLine ---------------------------------
(***************************************************************************)
(* cmdline_args (tebako-cmdline.cpp): the arguments of the program are     *)
(* sorted into options of the library and arguments of the application,    *)
(* the package of the application is read, images and folders are mounted, *)
(* and the arguments the application will see are built.                   *)
(*                                                                         *)
(* An argument is an option with what stands behind its "=", or any other  *)
(* text.  Texts are opaque: Letters tells how long one is, Dashed which    *)
(* ones begin with "-", and RuleOf what one means behind --tebako-mount.   *)
(* What a path inside the image leads to is left to PathWalk.              *)
(***************************************************************************)
EXTENDS PackageDescriptor, FiniteSets

CONSTANTS
  Text, Empty,    \* texts, and the empty one
  Dashed,         \* texts that begin with "-"
  Letters,        \* Letters[t]: how many letters t has
  CopyEntry,      \* the text of the ruby command around its two paths
  DashE, SourceFilesystem,  \* "-e" and "source_filesystem"
  RuleOf,         \* RuleOf[t]: the parts of t as a rule
  Folder,         \* Folder[p]: the inode of the folder p in the image, None when it is not there
  ImageFile,      \* texts of files of the host that can be read
  Made,           \* Made[t]: what the package file t was made of (see PackageFile)
  Argv,           \* the arguments the program may be called with
  Point,          \* fs_mount_point and fs_entry_point, as pairs
  Address         \* where a buffer may be allocated

Rule == [separator : {":", ">", "none"}, absolute : BOOLEAN, folder : Text, name : Text, target : Text]
Arg == [key : {"run", "mount", "extract", "other"}, eq : BOOLEAN, text : Text]

ASSUME TextAssumption == /\ Empty \in Text \ Dashed /\ Dashed \subseteq Text
                         /\ {CopyEntry, DashE, SourceFilesystem} \subseteq Text
                         /\ Letters \in [Text -> Nat] /\ Letters[Empty] = 0 /\ Letters[DashE] = 2
                         /\ RuleOf \in [Text -> Rule]
                         /\ ImageFile \subseteq Text /\ DOMAIN Made \subseteq Text
                         /\ None \notin Text \cup String
ASSUME PointAssumption == Point \subseteq Text \X Text /\ Folder \in [Text -> Nat \cup {None}]
\* A package was made from a version, and a file that is cut off ends there.
Making == [ruby : Version, tebako : Version, mount_point : String, entry_point : String,
           cwd : String \cup {None}, missing : Nat, rest : String]
ASSUME MadeAssumption ==
  \A t \in DOMAIN Made : /\ Made[t] \in Making
                         /\ IsVersion(Made[t].ruby) /\ IsVersion(Made[t].tebako)
                         /\ Made[t].missing > 0 => Made[t].rest = <<>>
\* The name of the program is the first argument, and it is no option: other_args[0] is
\* used without a look at whether there is one.
ASSUME ArgvAssumption == Argv \subseteq Seq(Arg) /\ \A v \in Argv : v # <<>> /\ v[1].key = "other"

VARIABLES
  argv, i,         \* the arguments, and the one that is looked at
  mountpoints, other_args, app_image, run, extract_folder,   \* what was found
  package, descriptor,
  stage,           \* where the program is
  item,            \* the rule that is looked at
  points,          \* the mount table: [at : inode and name, to : the target]
  images,          \* the images that are mounted: [file, buffer]
  heap,            \* the buffers that are allocated
  buffer,          \* the one of the loop body
  new              \* what build_arguments made: texts, and the memory for them
parsed == <<mountpoints, other_args, app_image, run, extract_folder>>
mounted == <<item, points, images, heap, buffer>>
cmdVars == <<argv, i, parsed, package, descriptor, stage, mounted, new>>

CmdTypeOK == /\ argv \in Argv /\ i \in 1 .. Len(argv) + 1
             /\ mountpoints \in Seq(Text) /\ other_args \in Seq(Text)
             /\ app_image \in Text \cup {None} /\ run \in BOOLEAN /\ extract_folder \in Text \cup {None}
             /\ package \in String \cup {None} /\ descriptor \in Descriptor \cup {None}
             /\ stage \in {"parse", "parsed", "item", "mount", "release", "unwind",
                           "mounted", "built", "error"}
             /\ item \in 1 .. Len(mountpoints) + 1
             /\ \A p \in points : p.at \in Nat \X Text /\ p.to \in Text
             /\ \A m \in images : m.file \in ImageFile /\ m.buffer \in Address
             /\ heap \subseteq Address /\ buffer \in Address \cup {None}
             /\ new = None \/ (new.texts \in Seq(Seq(Text)) /\ new.room \in Nat)

CmdInit == /\ argv \in Argv /\ i = 1
           /\ mountpoints = <<>> /\ other_args = <<>>
           /\ app_image = None /\ run = FALSE /\ extract_folder = None
           /\ package = None /\ descriptor = None
           /\ stage = "parse" /\ item = 1
           /\ points = {} /\ images = {} /\ heap = {} /\ buffer = None
           /\ new = None

--------------------------------------------------------------------------------
(* parse_arguments                                                           *)

IsOption(arg) == arg.key # "other" \/ arg.text \in Dashed
HasValue == IF argv[i].eq THEN argv[i].text # Empty
            ELSE i < Len(argv) /\ ~IsOption(argv[i + 1])
Value == IF argv[i].eq THEN argv[i].text ELSE argv[i + 1].text

Looking(key) == stage = "parse" /\ i <= Len(argv) /\ argv[i].key = key
OneOn == i' = i + 1
PastValue == i' = IF argv[i].eq THEN i + 1 ELSE i + 2
Keep == UNCHANGED <<argv, package, descriptor, mounted, new>>

\* Mutant: the value of an option is looked at once more.
ParseRun_Stays == /\ Looking("run") /\ HasValue /\ ~run
                  /\ run' = TRUE /\ app_image' = Value
                  /\ OneOn
                  /\ UNCHANGED <<mountpoints, other_args, extract_folder, stage>> /\ Keep

ParseRun == /\ Looking("run") /\ HasValue /\ ~run
            /\ run' = TRUE /\ app_image' = Value
            /\ PastValue
            /\ UNCHANGED <<mountpoints, other_args, extract_folder, stage>> /\ Keep

ParseMount == /\ Looking("mount") /\ HasValue
              /\ mountpoints' = Append(mountpoints, Value)
              /\ PastValue
              /\ UNCHANGED <<other_args, app_image, run, extract_folder, stage>> /\ Keep

\* The rest of the arguments is not looked at.
ParseExtract == /\ Looking("extract")
                /\ extract_folder' = IF HasValue THEN Value ELSE SourceFilesystem
                /\ stage' = "parsed"
                /\ UNCHANGED <<i, mountpoints, other_args, app_image, run>> /\ Keep

ParseOther == /\ Looking("other")
              /\ other_args' = Append(other_args, argv[i].text)
              /\ OneOn
              /\ UNCHANGED <<mountpoints, app_image, run, extract_folder, stage>> /\ Keep

ParseThrows == /\ \/ Looking("run") /\ (run \/ ~HasValue)
                  \/ Looking("mount") /\ ~HasValue
               /\ run' = (run \/ (Looking("run") /\ ~argv[i].eq))
               /\ stage' = "error"
               /\ UNCHANGED <<i, mountpoints, other_args, app_image, extract_folder>> /\ Keep

ParseEnds == /\ stage = "parse" /\ i > Len(argv)
             /\ stage' = "parsed"
             /\ UNCHANGED <<i, parsed>> /\ Keep

Parsing == ParseRun \/ ParseMount \/ ParseExtract \/ ParseOther \/ ParseThrows \/ ParseEnds

--------------------------------------------------------------------------------
(* process_package, which the program calls when there is an application.    *)

\* A package: the descriptor, of which the last bytes may be missing, and what follows it.
Written(m) == Described(m.ruby, m.tebako, m.mount_point, m.entry_point, m.cwd)
PackageFile(t) == LET b == Serialize(Written(Made[t]))
                  IN  SubSeq(b, 1, Len(b) - Made[t].missing) \o Made[t].rest

ProcessPackage ==
  LET found == app_image \in DOMAIN Made
      bytes == IF found THEN PackageFile(app_image) ELSE None
  IN  /\ stage = "parsed" /\ run /\ package = None
      /\ package' = bytes
      /\ descriptor' = IF found THEN Parse(bytes) ELSE None
      /\ stage' = IF descriptor' = None THEN "error" ELSE stage
      /\ UNCHANGED <<argv, i, parsed, mounted, new>>

--------------------------------------------------------------------------------
(* process_mountpoints                                                       *)

There == RuleOf[mountpoints[item]]
At == <<Folder[There.folder], There.name>>
IsTaken == \E p \in points : p.at = At

\* The tests before anything is mounted, in their order.
IsRefused == \/ There.separator = "none"
             \/ There.absolute
             \/ There.name = Empty \/ There.target = Empty
             \/ Folder[There.folder] = None
             \/ There.separator = ">" /\ There.target \notin ImageFile

Item == stage = "item" /\ item <= Len(mountpoints)
KeepArguments == UNCHANGED <<argv, i, parsed, package, descriptor, new>>

ProcessMountpoints == /\ stage = "parsed" /\ (run => package # None)
                      /\ stage' = "item"
                      /\ UNCHANGED mounted /\ KeepArguments

RefuseItem == /\ Item /\ IsRefused
              /\ stage' = "error"
              /\ UNCHANGED mounted /\ KeepArguments

\* Mutant: the last rule for a place wins.
MountFolder_Replaces == /\ Item /\ ~IsRefused /\ There.separator = ":"
                        /\ points' = {p \in points : p.at # At} \cup {[at |-> At, to |-> There.target]}
                        /\ item' = item + 1
                        /\ UNCHANGED <<stage, images, heap, buffer>> /\ KeepArguments

\* A folder of the host.  When the place is taken it stays as it is, and nobody is told.
MountFolder == /\ Item /\ ~IsRefused /\ There.separator = ":"
               /\ points' = IF IsTaken THEN points
                            ELSE points \cup {[at |-> At, to |-> There.target]}
               /\ item' = item + 1
               /\ UNCHANGED <<stage, images, heap, buffer>> /\ KeepArguments

\* An image: its file is read into the buffer of the loop body.
ReadImage == /\ Item /\ ~IsRefused /\ There.separator = ">"
             /\ \E a \in Address \ heap : heap' = heap \cup {a} /\ buffer' = a
             /\ stage' = "mount"
             /\ UNCHANGED <<item, points, images>> /\ KeepArguments

\* mfs keeps the address of the bytes and their number.
Image(file, address) == [file |-> file, buffer |-> address]

\* mount_memfs, with an index to spare (Mounts has the other case): the image is in its
\* table whether or not the place is taken.
MountImage == /\ stage = "mount"
              /\ images' = images \cup {Image(There.target, buffer)}
              /\ IF IsTaken THEN stage' = "unwind" /\ UNCHANGED <<points, item>>
                 ELSE /\ stage' = "release"
                      /\ points' = points \cup {[at |-> At, to |-> There.target]}
                      /\ item' = item + 1
              /\ UNCHANGED <<heap, buffer>> /\ KeepArguments

LoadFails == /\ stage = "mount"
             /\ stage' = "unwind"
             /\ UNCHANGED <<item, points, images, heap, buffer>> /\ KeepArguments

\* The buffer goes with the loop body, when its end is reached and when it is unwound.
EndOfBody == /\ stage \in {"release", "unwind"}
             /\ heap' = heap \ {buffer} /\ buffer' = None
             /\ stage' = IF stage = "release" THEN "item" ELSE "error"
             /\ UNCHANGED <<item, points, images>> /\ KeepArguments

MountsEnd == /\ stage = "item" /\ item > Len(mountpoints)
             /\ stage' = "mounted"
             /\ UNCHANGED mounted /\ KeepArguments

Mounting == ProcessMountpoints \/ RefuseItem \/ MountFolder \/ ReadImage \/ MountImage
              \/ LoadFails \/ EndOfBody \/ MountsEnd

--------------------------------------------------------------------------------
(* build_arguments                                                           *)

Sum(numbers) == LET sum[n \in 0 .. Len(numbers)] == IF n = 0 THEN 0 ELSE sum[n - 1] + numbers[n]
                IN  sum[Len(numbers)]
Length(texts) == Sum([n \in 1 .. Len(texts) |-> Letters[texts[n]]])

\* The arguments of ruby that copy the image into a folder: ruby -e "..."
ForExtract(mount_point) ==
  <<<<argv[1].text>>, <<DashE>>, <<CopyEntry, mount_point, extract_folder>>>>
RoomForExtract(mount_point) ==
  3 + Length(<<CopyEntry, mount_point, extract_folder>>) + 1 + Letters[argv[1].text] + 1

\* The application's own name, the entry point, and the arguments that are left.
ForRun(mount_point, entry_point) ==
  <<<<other_args[1]>>, <<mount_point, entry_point>>>>
    \o [n \in 1 .. Len(other_args) - 1 |-> <<other_args[n + 1]>>]

\* Mutant: the zero at the end of each argument is not counted.
RoomForRun_NoZeros(mount_point, entry_point) ==
  Letters[mount_point] + Letters[entry_point] + 1
    + Sum([n \in 1 .. Len(other_args) |-> Letters[other_args[n]]])

RoomForRun(mount_point, entry_point) ==
  Letters[mount_point] + Letters[entry_point] + 1
    + Sum([n \in 1 .. Len(other_args) |-> Letters[other_args[n]] + 1])

BuildArguments(mount_point, entry_point) ==
  /\ stage = "mounted"
  /\ IF Empty \in {mount_point, entry_point}
     THEN stage' = "error" /\ UNCHANGED new
     ELSE /\ stage' = "built"
          /\ new' = [texts |-> IF extract_folder # None THEN ForExtract(mount_point)
                               ELSE ForRun(mount_point, entry_point),
                     room |-> IF extract_folder # None THEN RoomForExtract(mount_point)
                              ELSE RoomForRun(mount_point, entry_point),
                     point |-> <<mount_point, entry_point>>]
  /\ UNCHANGED <<argv, i, parsed, package, descriptor, mounted>>

CmdNext == Parsing \/ ProcessPackage \/ Mounting \/ \E p \in Point : BuildArguments(p[1], p[2])

CmdSpec == CmdInit /\ [][CmdNext]_cmdVars

--------------------------------------------------------------------------------
(* Properties.                                                               *)

\* The arguments before the first --tebako-extract, and which of them are options of
\* the library or stand behind one.
Options == {n \in 1 .. Len(argv) : argv[n].key # "other"}
Used == {n \in 1 .. Len(argv) : \A m \in Options : argv[m].key = "extract" => n < m}
Values == {n + 1 : n \in {m \in Options : ~argv[m].eq}}
ValueAt(n) == IF argv[n].eq THEN argv[n].text ELSE argv[n + 1].text
\* The texts stand one after the other in the order of their positions, textAt[n] at n.
Listed(texts, textAt) ==
  LET positions == DOMAIN textAt IN
  /\ Len(texts) = Cardinality(positions)
  /\ \A n \in positions : texts[Cardinality({m \in positions : m <= n})] = textAt[n]
Given(key) == {n \in Used : argv[n].key = key}

\* An option without a value, or a second application, is wrong.
HasNone(n) == IF argv[n].eq THEN argv[n].text = Empty
              ELSE n = Len(argv) \/ IsOption(argv[n + 1])
Wrong == (\E n \in Given("run") \cup Given("mount") : HasNone(n)) \/ Cardinality(Given("run")) > 1

\* Whatever stands between them, the options are found with their values, and all other
\* arguments before --tebako-extract are kept, in their order; what is wrong is refused,
\* and nothing else is (parse_arguments).
ArgumentsAreSorted ==
  /\ stage \notin {"parse", "error"} =>
       /\ ~Wrong
       /\ Listed(other_args, [n \in Used \ (Options \cup Values) |-> argv[n].text])
       /\ Listed(mountpoints, [n \in Given("mount") |-> ValueAt(n)])
       /\ run = (Given("run") # {}) /\ \A n \in Given("run") : app_image = ValueAt(n)
  /\ stage = "error" /\ i <= Len(argv) /\ extract_folder = None => Wrong

\* What an application is started with fits into the memory that was taken for it, with
\* a zero behind each argument.
ArgumentsFit ==
  stage = "built" =>
    Sum([n \in 1 .. Len(new.texts) |-> Length(new.texts[n]) + 1]) <= new.room

\* A package says what it was made to say: whole when its strings can be counted in a
\* uint16_t, the front of them otherwise; and one that lacks any byte is refused.
Told(s) == SubSeq(s, 1, Len(s) % Wide)
PackageIsUnderstood ==
  package # None =>
    LET m == Made[app_image]  d == Written(m)
    IN  IF m.missing > 0 THEN stage = "error"
        ELSE /\ descriptor.version = d.version
             /\ descriptor.mount_point = Told(m.mount_point)
             /\ descriptor.entry_point = Told(m.entry_point)
             /\ descriptor.cwd = IF m.cwd = None THEN None ELSE Told(m.cwd)

\* The mount table holds what the rules that were gone through ask for, the first one
\* for a place, also when a later rule is refused; and no image is passed over in
\* silence: one whose place was taken ends the program (tebako-cmdline.cpp:310-313).
Done == 1 .. item - 1
RuleAt(n) == RuleOf[mountpoints[n]]
PlaceOf(n) == <<Folder[RuleAt(n).folder], RuleAt(n).name>>
FirstRuleWins ==
  /\ points = {[at |-> PlaceOf(n), to |-> RuleAt(n).target] :
                  n \in {k \in Done : \A l \in 1 .. k - 1 : PlaceOf(l) # PlaceOf(k)}}
  /\ \A n \in Done : RuleAt(n).separator = ">" =>
        [at |-> PlaceOf(n), to |-> RuleAt(n).target] \in points

\* An image that is mounted can be read (tests-process-mps.cpp:198-210).
ImagesKeepTheirMemory == \A m \in images : m.buffer \in heap
================================================================================
