# A verification project for libdwarfs

libdwarfs lets a program that was written for a file system run from a read-only
image in its own memory. The program calls `tebako_open`, `tebako_read`,
`tebako_opendir`, ... where it would call `open`, `read`, `opendir`; each of these
shims decides whether the call is about the image (memfs) or about the host, serves
the first kind from dwarfs and hands the second to the system. The library is
called from any thread of the program. Its difficulty is not in dwarfs, which is
external, but in the tables it keeps to make two file systems look like one.

This directory models that part in TLA+, model-checks it with TLC and proves the
theorems listed below with TLAPS. Paths in this text are those of the repository.

## 1. The system

Every table below is a `folly::Synchronized` map behind a singleton: each access
takes the lock of that one table, and nothing holds two accesses together. This is
what most of the hazards come from.

| part | state | operations | interacts with | what must hold |
| --- | --- | --- | --- | --- |
| descriptor table (`src/tebako-fd.cpp`, `src/file-io.cpp`) | map from descriptor to inode and handle; the kernel's descriptors, since each entry reserves a number with `dup(0)` | `open` `openat` `close` `close_all` `fstat` `fstatat` `flock` | images (look-up), kernel (`dup`, `close`), directory streams | one namespace of descriptors; no number leaks, is given twice or closed twice |
| file offsets (`src/tebako-fd.cpp`) | `pos` of each entry | `read` `readv` `pread` `lseek` | images (`inode_read`) | reads are sequential; the offset is an `off_t` |
| directory streams (`src/tebako-dirent.cpp`) | map from address to stream: position, a page of entries | `opendir` `closedir` `readdir` `telldir` `seekdir` `close_all` | descriptor table (own descriptor), images (`inode_readdir`) | entries in order, none invented; a descriptor for as long as the stream lives |
| host directories (`src/tebako-kfd.cpp`, `src/dir-io.cpp`) | set of the `DIR*` that the system library made | `insert` `check` `erase`; the shims that choose | heap (addresses come back), directory streams | an address is used as what it is |
| images (`src/tebako-memfs-table.cpp`, `src/tebako-io-root.cpp`) | map from index to image | `mount_root_memfs` `mount_memfs` `unmount_root_memfs` `insert_auto`, routing by inode | mount table; releases all tables above | an inode number leads to its image; failed mounts harm nothing |
| mount points (`src/tebako-mount-table.cpp`) | map from inode and name to an index or a path | `insert` `get` `clear` | images, path resolution, command line | a mount point leads to what was mounted |
| path resolution (`src/tebako-memfs.cpp`) | none (walks through images) | `find_inode` and its callers | images, mount points, working directory | links and mount points are followed as a file system would |
| working directory (`src/tebako-io-helpers.cpp`, `src/dir-ctl.cpp`) | one path or none | `chdir` `getcwd` `to_tebako_path` | path resolution, host `chdir` | relative paths mean one directory; memfs and host exclude one another |
| file attributes (`src/file-ctl.cpp`) | none | `access` `stat` `lstat` `readlink` | path resolution | the answer of the right file system |
| loaded libraries (`src/dl-ctl.cpp`) | map from path to extracted file, files in a temporary directory | `map2file` `dlopen` `dlerror` | descriptor table, host files | a library is loaded from a whole file, and the file goes with the table |
| command line (`src/tebako-cmdline.cpp`) | argument vectors, mount requests | `parse_arguments` `build_arguments` `process_package` `process_mountpoints` | images, mount points, package descriptor | arguments survive; mounts are made as asked |
| package descriptor (`src/tebako-package-descriptor.cpp`) | versions, paths | serialise, parse | command line | parsing inverts serialising |
| image memory (`src/tebako-mfs.cpp`) | address and size of bytes that belong to the caller | `addr`, lock, release | dwarfs, command line | the bytes live as long as the image |

External: dwarfs (`filesystem_v2`), folly, the kernel, the heap. Not looked at: the
build, the tests' fixtures, the mocks for Ruby on Windows.

The behaviours that are hard here: threads between the accesses of one call; a
system resource (number, address) that is free for others before or after the
library's table says so; failures half way through a call (no descriptor, no memory,
a page or image that does not load); paths that are rewritten while they are walked; sizes,
indices and offsets at the end of their range;
and the release of everything while calls run. `PROJECT.json` lists them one by one
at their lines, with the properties that watch them.

## 2. The modules

| module | what it is |
| --- | --- |
| `Descriptors` | abstract: ONE namespace of descriptors for image and host |
| `FdTable` | the descriptor table, the kernel's numbers and the shims; implements `Descriptors` |
| `FileOffset` | abstract: the offset of an open file |
| `FilePos` | `pos` with its loads, stores and integer widths; implements `FileOffset` |
| `DirPosition` | abstract: a position in a directory |
| `DirStream` | one stream with its page; implements `DirPosition` |
| `DirTables` | streams, host streams, descriptors, heap addresses and the release of the image |
| `Mounts` | image table, mount table, mounting, unmounting, walking across mount points |
| `DlTable` | libraries extracted to files of the host, the error that is kept for `dlerror` |
| `Paths` | pure: normal paths, what a path leads to in the image and on the host |
| `WorkingDir` | abstract: ONE working directory in one tree |
| `Cwd` | the directories of the library and of the host, the calls that change and use them; implements `WorkingDir` |
| `PathWalk` | the walk of one call along a path, with links, mount points of both kinds and the way back into the image; the mount points of the command line |
| `PathMeaning` | what a path means, read name by name, and the properties of `PathWalk` |
| `PackageDescriptor` | pure: the bytes in front of a package, written and read |
| `CmdLine` | arguments, package, mount rules and the arguments that are built |
| `MC...` | small instances of each for TLC: model values, definitions for the constants, symmetry; `MCCursors` runs `FilePos` and `DirStream` side by side |
| `Induction` | induction on the numbers without an operator for a parameter, and the functions it defines |
| `Mounts_proofs`, `FdTable_proofs`, `DlTable_proofs`, `Cwd_proofs`, `PathWalk_proofs` | theorems and proofs about the module of that name |
| `Directory_proofs` | about `DirStream` and `DirTables` |
| `Program_proofs` | about `CmdLine`, `PackageDescriptor` and `FilePos` |

### FdTable

`kernel` is what the kernel has open, `table` the map of `tebako-fd.cpp`, `held`
what the program opened and has not closed (a history the properties compare with).
A call of a thread is a sequence of steps, one for each lock or system call:
`Open`/`OpenAt` (look-up of the path and the switch on flags), `Dup` (`dup(0)`, the
lowest free number), `Insert` (the entry enters the table; an old one is
destroyed). The failures are `DupFails` and then `DropHandle` (the destructor of an
entry whose handle was never assigned closes what the memory contained, one of
`Garbage`), `InsertThrows` and then `CatchBadAlloc` (two closes of the same number).
`CloseMemfs` erases under the lock; `CloseMiss` and `CloseHost` are the two halves
of closing a descriptor of the host. `CloseAll` is the release. The program closes
a number only when none of its threads is in a system call on it.

### FilePos

One file, several threads. `BeginRead` and `BeginReadv` enter a call, `Fetch`,
`FetchEnd` and `FetchFails` are the call of dwarfs for a buffer, `Check` the
overflow tests of `readv`, `Load` and `Store` the two halves of `pos += n`.
`SeekSet`, `BeginSeekCur` and `SeekCur`, `SeekEnd` are `lseek`. `pos` is unsigned,
offsets are signed, both with wrap-around at `U`, and a number of bytes goes through
`AsInt`. `Serial` says whether the program makes one call at a time.

### DirStream and DirTables

`DirStream` is the state of one `tebako_ds`: position, start and size of the page and
the page itself, whose slots keep what they held before. `Cached` has the unsigned
arithmetic of the code (`SizeMax` is the largest `size_t`). `open_on` is what the
number of its descriptor is open on: the program may close it (`CloseVfd`) and have the
number opened again on any directory (`ReopenVfd`), whose entries `ReadPage` then loads. A
page that cannot be loaded (`ReadPageFails`) leaves position -1 and a page of length 0; after
a page that began at 0 every position counts as cached from then on, so that `ReadCached` returns
what an earlier page left in its slot, or an address behind the page (`Wild`), and neither
is an error. `lost` is a history: a page was asked of a number that is not open on the directory.

`DirTables` gives every stream an address on one heap; addresses come back after
they are freed. `FindDir`, `OpenFd`, `LoadFirst`, `InsertDs` are `opendir` of the
image with its failures `OpenFdFails`, `LoadFails` and `OpenThrows`, and `fdopendir`,
whose number the host may have by then (`LoadFailsOver`);
`OpenHostDir`, `InsertKfd` that of the host; `UseMiss`, `UseHostDir`, and `CloseMiss`,
`CheckKfd`, `CloseHostDir`, `EraseKfd` the calls on a stream that is not in the
stream table. `CloseAllDs`, `CloseAllFds`, `NewImage` are the release, step by step.

Two closes of the code work on an address that is no longer theirs. `CloseDs` frees the
stream and erases it, and when its descriptor was gone `closedir` answers like one that does not
know the stream: the shim falls through (`fallen`) to `CheckKfd`, `CloseHostDir` and `EraseKfd` of the
freed address. And when the insertion of a stream throws (`InsertThrows`), the stream is gone
before the handler closes its address (`CloseUnwound`). The history `astray` tells that such
a close found a stream that another thread had got there.

`prog` is the kind of program that runs: which threads it has, whether it opens nothing of
the image while it releases it (`calm`), and whether memory may run out
(`throws`). It is chosen in the initial state and never changes, so that one run
checks several kinds and each property says which kinds it is promised to. `DlTable`
and `Cwd` have such a variable too.

### Mounts

`memfs` and `mounts` are the two tables; an entry of `mounts` also remembers the
image that was mounted there, which the code does not. `ClaimIndex` is
`insert_auto`, `LoadImage` or `LoadFails` the load after it, `Publish` the entry in
the mount table. When no index is free the code goes on with index 0
(`ClaimNothing`). `Enter`, `Cross`, `Descend`, `Missing`, `Arrive` are a walk along
a path by another thread, with the copy of the mount table that `find_inode` makes.
The directories of an image are abstracted to their inode numbers: a name leads to
any inode or to none. The number of an inode has room for `Images` indices, two in both
runs, since the code has one bit (`include/tebako-memfs-table.h:49`). `MountRoot` and
`Unmount` happen while no other call runs.

### PathWalk and PathMeaning

The code walks by rewriting. `at` and `rest` are the inode that is reached and the part of
the path that is left (the locals of `find_inode`), `seen` the inode whose attributes were
read last, `res` what `find_inode_abs` returned, `ans` what the call returned. The loop is
`CrossToPath`, `CrossToImage`, `Descend`, `FollowLink`, `NoEntry` and `Arrive`; a relative
link replaces the rest of the path (`ProcessLink`), which is made lexically normal
(`LexicallyNormal`, with "..", "." and a closing "/" in it); an absolute one ends the walk
(`AbsoluteLink`): it goes to the host, or, when it is below the mount point and the last
link is to be followed, starts again at the root inside a nested `tebako_stat`
(`nested`), which answers for the host as well. `StartAtRoot` and `StartAtDir` are the
calls on a path, which the shims have expanded, and on a path below an open directory, which
`openat` and `fstatat` hand to the walk as it was written, `Reply` what they make of the
result (`EINVAL` of `readlink`, `ELOOP` of `O_NOFOLLOW`, the path handed to the host).
`StartMount`, `Mount`, `MountTaken` and `MountThrows` are one rule of
`process_mountpoints`: its folder is looked up with `lstat` and the rule is entered under
that inode; `asked` remembers the rule and the table it found. `link` is chosen in the initial
state, so that one run goes through every contents of the links.

`PathMeaning` says what a path means without rewriting: the path without its last name
means a directory, and the last name is looked up there (`Along`, `Lookup`). A link or a
mounted path means what its text means, read the same way, so the meanings are defined in
layers: `Deep(world)[n]` knows the ways of all paths on which no more than `n` links stand
in one another, and `Meaning` takes the layer with as many links as there are names to turn
off at (`Turns`). A path that needs more goes in a circle and means `Loop`. The properties
compare every step of the walk (`WalksKeepTheMeaning`) and every answer with it.

What "climbs" is where this meaning is that of the library and not that of POSIX. A text is
read as it is when it is made lexically normal by itself (`Read`): `a/../b` means `b`, wherever
`a` leads, while the code makes it normal together with what stands behind the link, and the
properties say that this comes to the same. A text that still begins with ".." means nothing
(`Nowhere`), because dwarfs has no entry of that name: the properties say that a call on such a
link answers `ENOENT`, where a file system would find what it leads to (section 4). A text that
becomes "." or ends in "/" is `Unsaid`, and so is everything about a call whose own path is not
`Plain`: one that ends in "/", and in `openat` and `fstatat` one with ".." or "." (`Told` tells the
calls of which something is said). Those calls and texts are in the run all the same. A mount
point that is itself named ".." is left out.

### PackageDescriptor and CmdLine

`Serialize` and `Parse` are functions on sequences of bytes; a byte has `Base` values, two
of them in the run, so that a size of two bytes overflows early. The package file of a run is
made from what it says (`Made`), and may be cut off. `CmdLine` is a sequential program: `Parse...` is
`parse_arguments`, one action per branch of its loop, `ProcessPackage` reads the package,
`MountFolder`, `ReadImage`, `MountImage`, `LoadFails` and `EndOfBody` are the loop of
`process_mountpoints` with the buffer that lives as long as its body, and `BuildArguments`
makes the arguments of the application and counts the memory for them as the code does
(`RoomForRun`, `RoomForExtract`). `stage` says how far the program is. The names of the
specification are `CmdInit`, `CmdNext`, `CmdSpec`, `CmdTypeOK`, as those of `DirStream` are
`StreamInit` and so on: theorems about both stand in one module with those of another.

### DlTable

`table` is `*p_dltable`, `dir` which file of the host a name in the temporary
directory leads to, `blocks` how much of the library is in a file; `stash` is the
error kept for `dlerror`, `due` and `given` are histories: a call failed, a name was
handed out. A call is the look-up (`FindHit`, `FindMiss`, and `FindEmpty` while another
thread is inside `operator[]`), `MapName`, `OpenLib`, `StatLib`, `CreateFile` (no
`O_TRUNC`, no `O_EXCL`), `CopyBlock` until the count is used up (`CopyEnds`), and
`Insert`; each is a step, because the lock is taken and given back by one expression
at `src/dl-ctl.cpp:109`. Every system call may fail as `prog.faults` says (the actions
named `...Fails` and `...Throws`), and `Unlink` follows a failed copy. `Dlerror` takes
the stash, `Destroy` is the destructor at the end of the program.

### Cwd

`cwd` and `inside` are the `tebako_path_s` of `tebako-io-helpers.cpp` (its object
exists when `alive`), `host` is the working directory the system keeps, `image` and
`there` are the directories of the image and of the host. A path is a sequence of
names and of `Up`. `Chdir` begins a `chdir` with the test of the path
(`IsTebakoPath`, `ToTebakoPath`); then it is `TebakoStat` and `SetCwd` for the image,
or `HostChdir` and `ClearCwd` for the host, each a step because other threads may run
between the system call and the lock. The change of the library's directory may throw
(`SetCwdFails`, before the path is assigned or after; `ClearCwdFails`, when the host has moved
already), which `chdir` answers with `ENOMEM`. `Getcwd`, `CopyCwd`, `HostGetcwd` are `getcwd`;
`Use`, `UseImage`, `UseHost` stand for `stat`, `lstat`, `mkdir` and `rmdir`, which
share their routing, including the links of the image that lead to the host.
`DropCwd`, `EraseImage`, `LoadImage`, `InitCwd` are unmounting and mounting. `meant`
and `inForce` are histories: what the last `chdir` asked for that took effect, because it
succeeded or because it answered `ENOMEM` after its change, and which
directories were in force since a call began. `WorkingDir` allows the second kind to a program
for which memory is `scarce`: its `chdir` may fail and have moved the directory or not, but
every later call agrees on which.

A program is `tame` when none of its paths crosses the mount point in a way the
library cannot see (`KeepsSide`): the library looks for the mount point at the start
of an absolute path as it was given, and resolves a relative path by the directory
that counts.

## 3. The runs

| run | result | shows |
| --- | --- | --- |
| `FdTable` | pass | two threads, four numbers, files and directories of the image and one file of the host: a number the program holds routes to its file, calls handed to the host reach the right object, nothing leaks, no number is given twice, and the two tables implement `Descriptors` |
| `FdGarbage` | violation | the uninitialised handle closes a descriptor that is in use |
| `DirTables` | pass | three threads (one uses the host) that open nothing of the image while it is released, and two that release it at any moment while memory runs out; three addresses, two descriptors: pointers go where they belong and the system library never gets a freed one until a close has gone astray; in the first program none does, nothing leaks and nothing of an old image survives |
| `Cursors` | pass | a file of four bytes, offsets of four bits: the calls implement `FileOffset`; a directory of eight entries in pages of three, any seeks, the descriptor closed behind the stream and its number opened again on that directory or on a shorter one: the stream implements `DirPosition` until a page is needed that its number does not give |
| `Mounts` | pass | two threads mount, walk and fail; one bit for the index, two indices besides the root: mount points lead where they should, no walk enters an image that is being loaded, and a mount that fails takes nothing from the others, but for the root when the table was full |
| `IndexBits` | violation | the same program: an inode of the second mounted image has a number of the root |
| `DlTable` | pass | two threads extract two libraries into the same files, or one at a time while copies fail or insertions throw: what is handed out is whole, errors are reported, no file is left, every call returns |
| `Cwd` | pass | one thread with every kind of call, in and out of the image, up, through a link, to what is missing: one directory, in one tree; one that changes the directory and one that uses it; both again where memory may run out in either change of a `chdir`; two that change it; one that climbs over the mount point; mounting of two images in between |
| `PathWalk` | pass | 30 contents of two links, among them `../a`, `a/..`, `a/../l`, `l/../a/b`, `a/` and absolute ones with ".."; mount points in four folders (`l` and `l/..` among them) and of two kinds; ten paths from the root and seven from a directory (with "..", "." and a closing "/"), seven calls: each call answers for what the path means, a mount point takes effect, every call comes back |
| `LinkRefused` | violation | `O_NOFOLLOW` refuses a path for a link in its middle |
| `CmdLine` | pass | vectors of up to three arguments behind the program's name, up to three rules, four packages (whole, cut, overlong, missing): what is found, mounted and built is what was given |
| `FreedBuffer` | violation | an image mounted by the command line lies in memory that was freed |

Bounds. The interesting cases of the descriptor table need two threads (one in
the window between `dup` and insertion, one that closes or opens), a number 0 that
can be closed, and few enough numbers that they run out: four. Directory streams need
one address that comes back while another is kept, and a third thread to release; two descriptors
are enough to run out of them, or to give a freed one to another. A stream needs more than two
pages and a last page that is not full, and a directory that is shorter to take its number. The
file needs an end well below the largest offset, so that running over each can be
told apart, and vectors of up to three buffers. Two mounts in progress and two made
fill every index, make one thread find the table full while the other may still fail,
and put a mount point on a directory of a mounted image. `MaxHostDir`, `MaxGen`,
`MaxKnown`, `MaxMount` and `MaxIov` are bounds of the model; everything else that is
finite is finite in the code. Extracting needs two threads on one library of two
blocks (one thread can then finish between the blocks of the other) and another
library; three files, since a name that was unlinked comes back as another file.
The working directory needs an image with a directory below the mount point, and one
without it, so that a remounted image may lack the directory; a host with its
root and one directory; a link out of the image, a file, and a name that is nothing.
The walk needs a link in the root and one in a directory, each of which may lead to the
other, to a file, to the mount point, back into the image by an absolute path, out of it, or in
a circle; an image to cross into; one mount point, since each look-up sees one name, over a
path of the host, a path or a link of the image, or the image, and its place asked for again.
`MaxLen` stands for the memory that a path needs which grows with every round of a
circle. An argument vector of three after the name has an option, its value and what
follows; three rules have one that is refused or taken between two others; a byte of two
values makes a size overflow at four.

Fairness: `DlTable` assumes weak fairness of the steps of each thread, for `CallsReturn`:
a thread of the program that is inside the library is scheduled, and each step is a
statement or a system call that returns. `PathWalk` assumes the same of the steps inside a
call (not of the start of one), for `CallsComeBack`: the walk is a loop in one thread that
waits for nothing. Elsewhere none is assumed: those runs check safety and refinement of
safety. The deadlock check is on except in `DlTable`, where the program ends with the
destructor, and in `CmdLine`, where it ends with the arguments. A call of the library waits
only for locks that are held for a statement; where two are held, the one of the stream
table is taken before the one of the descriptor table (`closedir` and `close_all` of
`src/tebako-dirent.cpp`) and never after it, so that no cycle can form.

Assumptions that hold in the passing runs, each a constant one can change:

- `Garbage` in `FdTable`: the uninitialised handle does not read as a number of an
  open file. `FdGarbage` drops this.
- `ThrowRace` is FALSE: between the two closes of an insertion that threw, no
  other thread gets the number. `HeldRoutes` fails without it.
- `calm` in `DirTables`: the program opens nothing of the image while it releases it (it may
  use and close streams then). `StreamOwnsFd`, `NoFdLeaks` and `DeadAfterUnmount` are promised to such
  a program only: an `opendir` in progress enters its descriptor after the table was cleared,
  and the descriptor survives the unmount. `throws` is FALSE for `NoFdLeaks`: when `make_shared`
  throws, the descriptor stays open.
- `astray` in `DirTables`: every program is promised where its pointers lead (`StreamsRoute`,
  `HostCallsAreLive`, `KfdIsLive`) until a close that has lost its own stream has found that of
  another thread; `ClosesAreTheirOwn` promises a calm program that does not run out of memory
  that this never happens. That it does happen in others is among the findings.
- `lost` in `DirStream`: what is read after a page was asked of a number that is not open on the
  directory is left open.
- `HostThread`: one thread opens and closes directories of the host (`OneHostThread`). With
  two, `StreamsRoute` and `HostCallsAreLive` fail, see below.
- `Serial` and `EndOffset` in `FilePos`: one call at a time on an entry, and no seek
  from the end by the smallest `off_t`.
- `faults` and `alone` in `DlTable`: a program of several threads has no copy that
  fails half way, and no program has a short write of its last block (`Sound` in
  `DlTable_proofs`).
- In `Cwd` the image is mounted and unmounted while no call runs, nothing is made at
  the mount point of the host, links of the host are not modelled (so that ".." is
  lexical on both sides), and the links of the image considered lead out of it.
  `DirectoryIsAsMeant` and `RelativePathsAreAnchored` are promised when one thread
  changes the directory (`OneWalker`), `OneDirectory` when there is one call at a
  time, and all of them to tame programs, whether memory runs out (`throws`) or not.
- In `Mounts`, the root is mounted and unmounted while no call runs, and `InodesRoute` and
  `MountPointsLead` speak of a program that never found the table full (`full`).
  `FailedMountKeepsOthers` excepts the root of one that did. `InodesRoute` is not promised: it is
  the expected violation of `IndexBits`.
- In `PathWalk` one call runs at a time, and the images
  do not change (`Mounts` has the walk while they do). Of calls whose own path has "..", "." or a
  closing "/", and of texts that become "." or end in "/", nothing is promised (`Told`). A rule of
  the command line is promised to take effect when neither its folder nor what it mounts climbs.
  The images have finitely many nodes
  and names (`FiniteAssumption`); no link is empty and no empty path is mounted, which a
  file system and `process_mountpoints` refuse (`MeaningAssumption`). `CallsComeBack` is
  promised when the links on the way do not lead in a circle, `LastNameIsKept` when no
  absolute link led back into the image. What the other properties say of a circle is that
  the call does not find a file there.
- In `CmdLine` the program's name is the first argument and is no option
  (`ArgvAssumption`), and there is an index to spare for each image. A package is made from
  versions that parse, and a file that is cut off ends there (`MadeAssumption`); a byte has
  at least two values (`ByteAssumption`).

## 4. The findings

1. A failed `dup(0)` closes an arbitrary descriptor (`FdGarbage`).
2. An absolute link into memfs in the middle of a path makes `open` with `O_NOFOLLOW` fail
   with `ELOOP`, and `lstat` tell of that link (`LinkRefused`).
3. `--tebako-mount` of an image leaves it mounted on a buffer that was freed
   (`FreedBuffer`).
4. The inode numbers have one bit for the index of an image, while the table gives out seven
   indices besides that of the root: the second image that is mounted shares its numbers with the
   root (`IndexBits`).

### What was met while modelling, without a run

- `closedir` frees a stream of the host and then erases its address
  (`src/dir-io.cpp:117`). When `opendir` of another thread gets the address in between,
  the library forgets a live stream, although `include/tebako-kfd.h:35` wants alien
  streams to be told apart: `DirTables` shows it when `HostThread` has two members.
- `closedir` of a stream whose descriptor is gone, because the image was released or the
  program closed the number, frees the stream and answers `INVALID_FD`
  (`src/tebako-dirent.cpp:88-91`). `tebako_closedir` takes that for a stream that is not the library's
  and goes on to the host with the freed address (`src/dir-io.cpp:103-118`). When `opendir` of another
  thread got it, that thread's stream is closed: `ClosesAreTheirOwn` fails for a program that is
  not calm.
- When the insertion of a new stream throws, the handler of `opendir` calls `closedir` on an
  address whose stream was freed while unwinding (`src/tebako-dirent.cpp:64-67`): the stream of
  another thread that got it is closed. `ClosesAreTheirOwn` fails for a program with `throws`. The
  handler of an allocation that fails leaves the descriptor open.
- After a page that does not load, `readdir` on a stream whose last page began at 0 finds every
  position cached and returns the address of a slot that holds an old entry, or of one
  behind the page, and no error (`src/tebako-dirent.cpp:153-171`).
- A relative link that begins with "..", the most common kind, is not found: what it is
  rewritten to begins with ".." (`src/tebako-memfs.cpp:427`), and the walk looks for an entry of that
  name in the directory of the link. `WalksKeepTheMeaning` and `FollowingCallsFindTheFile` say exactly
  when. `a/..` in a text is dropped by its letters, wherever `a` leads. `openat` and `fstatat`
  give ".." to the walk as it is, with the same answer. No text of the repository promises more,
  so this is no violation run.
- `insert_auto` answers 0 when the table is full, and `load_memfs` goes on with it
  (`src/tebako-io-root.cpp:62`): the root is loaded anew, and erased when that fails, where
  `tests/tests-fs-load2.cpp:124` checks that it stays alive. `FailedMountKeepsOthers` names this
  case as its exception.
- `chdir` answers `ENOMEM` having moved: the host before `tebako_set_cwd(NULL)` throws
  (`src/dir-ctl.cpp:117-120`), the library's path when the append throws after the assignment
  (`src/dir-ctl.cpp:103-106`, `src/tebako-io-helpers.cpp:68-69`); in the second
  case `getcwd` gives the path without its closing slash. POSIX has a `chdir` that fails leave the directory alone.
- `chdir` over the mount point, `"/__tebako_memfs__/../usr"` or `".."` in the root of the
  image, makes a directory of the host the working directory within memfs
  (`src/dir-ctl.cpp:103`): `is_tebako_cwd` answers yes, `getcwd` names a directory the system
  is not in, and relative paths are looked up in the image by what is left after cutting
  off as many letters as the mount point has. The last program of `Cwd` does this;
  nothing but its types is promised to it.
- An absolute link into the image that leads out of it by another one is answered by the
  nested `tebako_stat` with the attributes of a file of the host (`src/tebako-memfs.cpp:306`);
  `open` then enters the inode number of the host as one of the image.
  `OpenedFilesAreInTheImage` excepts exactly this way.
- `fstatat` with `AT_SYMLINK_NOFOLLOW` follows a link of the host (`src/file-io.cpp:219`).
- The rule of a mount point is entered under the inode its folder has without following
  the last link: a folder that is named through a link gets a mount point nobody comes to.
- Versions are accepted with any letter for their first dot, since the second is read over
  it. `build_arguments` uses `other_args[0]` without asking whether there is one.
- `EMFILE` is reported when descriptor 0 is closed, and the destructor may then
  replace it by `EBADF` (`src/tebako-fd.cpp:80`).
- `lseek(fd, INT64_MIN, SEEK_END)` makes the offset negative (`src/tebako-fd.cpp:374`).
- `pos` is changed under a lock that is held for reading (`src/tebako-fd.cpp:258`):
  two threads that read one descriptor may get the same bytes, and a seek may be
  lost.
- An image whose mount point is taken keeps its index for ever; a root that is mounted
  again leaves the other images in the table without a way to them.
- A short write of the last block of a library leaves count 0, and the truncated file
  is returned as the library (`src/dl-ctl.cpp:140`). A failed copy unlinks a name that
  another thread may use. Between `operator[]` and its assignment a look-up finds an
  empty name, and the call fails without an error. An image that is mounted anew
  keeps the libraries extracted from the old one.
- `tebako_set_cwd` returns true when there is no object: without an image,
  `chdir("/__tebako_memfs__/../usr")` returns 0 and changes nothing.
- `is_tebako_path` compares the letters of the mount point only:
  `/__tebako_memfs__2` is taken for a path of memfs. A path of the host that leads
  into memfs by a detour is not.
- With two threads that change the directory, one to the image and one to the host,
  the library may be left in the image although the last `chdir` to return went to the
  host; a `chdir` that is between its two steps when another image is mounted sets a
  directory of the old one.

## 5. The proofs

All theorems hold for every value of the constants that the named assumptions
allow. Types, and facts that serve the others (`PageIsContiguous`, `MountPointsAreUnique`), are
proved and mostly not run; TLC checks the types of `Cwd` and `CmdLine` too, because they say
something of what the recursive functions compute. Each theorem rests on an inductive
invariant of its module, which TLC checked on the small instance before it was proved.

- `Induction`: a set of numbers with 0 and every successor is all of them (`SetInduction`,
  `UpTo`), and a rule for the next value has a function that obeys it (`Steps`, `StepsAgree`,
  `RecursionOnNat`). They speak of a set or a function where the library's theorems have
  an operator for a parameter, which no prover here can instantiate. The proofs about paths,
  sums and packages use them for every recursive function.

- `FdTable_proofs`: `TypeCorrect`, `HeldNumbersRoute`, `HostCallsReachTheirFile`,
  `NumbersAreFresh`, `NumbersDoNotLeak`, all under `Heap` (the handle is no open
  descriptor, unwinding is undisturbed). `HeldRoutes` alone is not inductive: a
  thread between `dup` and `Insert` owns a number that is open and that nobody
  holds (`OwnedNumbers`), a thread in a system call on a number keeps others from
  closing it (`PinnedNumbers`), and a thread between the two closes has a number
  that is free (`UnwoundNumbers`). `OneNamespaceIsSeen` is the refinement: to the
  program a number that a `dup` reserved denotes nothing until `Insert` binds it, and
  every step of the library is one of `Descriptors` or none.
- `Directory_proofs`, of `DirTables`: `TypeCorrect`, `ClosesFindTheirOwn`, `PointersRoute`,
  `HostCallsGetLiveStreams`, `AlienPointersAreLive`, `StreamsOwnDescriptors`, `DescriptorsDoNotLeak` and
  `ReleaseIsComplete`, all the invariants of `DirTables`, when one thread uses directories
  of the host (`OneHostThread`). The invariant has two halves. `Pointers` (`Addresses`, `Calls`, `Apart`,
  `KfdIsLive`) says what each address is, in the tables, on the heap and in the hands of
  a call, of every program until a close has gone astray; a close that fell through and a
  handler that closes once more are in it with an address of which nothing is known, and a step of
  theirs either finds nothing or sets `astray`. That a thread between `::closedir` and the
  erasure cannot see its address come back as a stream of the host is where the one thread is
  needed. `Calm` (`Cleared`, `Current`, `Settled`, `Ownership`) is for a program that opens nothing of the
  image while it is released: the tables stay empty behind the release, everything open is of the
  mounted image, a descriptor has one owner, and so no close finds its descriptor gone.
  With `Unfailing` (no handler runs while there is memory) that is `ClosesFindTheirOwn`.
- `Directory_proofs`, of `DirStream`: `StreamTypeCorrect`, `PageHoldsEntries`, `ReadsAreInside`, and
  `StreamRefinesPosition`, that the paged stream implements `DirPosition`, until a page is asked of
  a number that is not open on the directory (`lost`). The
  strengthening says that till then a loaded page is not empty, the position not negative and
  the size that of the directory, whatever was closed and opened in between.
- `Program_proofs`, of `FilePos`: `TypeCorrect`, `OffsetsAreRepresentable` and `OneOffset`, that `FilePos`
  implements `FileOffset`, under `Modest` (one call at a time, no
  seek by the smallest offset from the end, reads that an `int` can count). The
  invariant ties the locals of a call to the offset: what was read since the call
  began lies between its start and `pos`, and ends at the end of the file. In the refinement
  the steps of a call are stutters until the one that stores the offset.
- `Mounts_proofs`: `TypeCorrect`, `MountPointsLeadHome`, `OneWayOn`, `WalksStayInLoaded`,
    `FailedMountsKeepOthers` (with the exception of the root of a full table that the property
  names), and `NumbersRoute`, what is true of `InodesRoute`: an open inode is in a loaded
  image, and its number leads back there when the index is below `Images`, which is 2 in the code:
  the root and one image. An image in the making is one thread's (`Private`), so
  that erasing it after a failed load takes nothing away from anyone; what a walk or
  a mount point has reached is loaded. `WalksStayInLoaded` needs an invariant of its own
  (`LoadedInv`), which holds also when an image was mounted without an index.
- `DlTable_proofs`: `TypeCorrect`, `LibrariesAreWhole`, `CopiesAreNamed`,
  `FailuresExplained`, `NoFileIsStray`, for sound programs. The strengthening says that
  no two libraries share a file and no file is longer than its library (`Names`),
  that a copy has written what it counted to the file its name leads to, whatever
  other threads write there (`Copies`), that in a program of one call at a time the
  library being extracted is in nobody's hands (`Single`), and that only such a program
  unlinks a file (`Unlinking`).
- `Cwd_proofs`: `TypeCorrect`, `DirectoriesAreThere`, `DirectoriesAreMeant`,
  `PathsAreAnchored` and `OneDirectoryIsSeen`, that `Cwd` implements `WorkingDir`. They hold
  for every tree, image, set of calls and of links, and wherever memory runs out in a `chdir`: one
  that answers `ENOMEM` is a step of `WorkingDir` that may have moved the directory, and
  `DirectoriesAreMeant` counts it by its effect. The last four use nothing of how paths
  become normal, only that an absolute one does not depend on the directory it is read from;
  `TypeCorrect` is the other half: whatever path is given, what `LexicallyNormal` makes of it
  is normal, by induction over its names. The invariant is
  in parts: `Basics` (which call is in which place, and nothing is mounted while one
  runs), `Sited` (what `TebakoStat` found is still there when `SetCwd` sets it),
  `Anchored` (between its two changes a `chdir` to the host has moved the host and not
  the library, and whatever directory a thread will look at next has been in
  force), `Outside` (the host has nothing at the mount point) and `Serial` (what a
  call has found out still holds when it is alone). `WorkingDir` takes the operators
  on paths as constants, so that the proof need not know what they compute.
- `PathWalk_proofs`: `TypeCorrect`, and `UnfollowedStaysInTheImage`: a call that does not
  follow the last link never passes off what the host said as an inode of the image. The
  two are proved together (`IInv`), because a mount point is entered under an inode of the
  image (`TypeOK`) exactly because its folder is looked up without following. Then
  `WalkMeansWhatTheCallMeant`, `FollowedPathsAreFound`, `OpenedFilesHaveInodes` and
  `LastNamesAreKept`, for every finite tree, every contents of its links and every mount
  table, circles and ".." included, for the calls and texts of which something is said (`Told`).
  The walk rewrites the path, so their invariant is an equation
  (`OnTheWay`): the way so far, and then what the rest of the path means from the inode
  that is reached, is what the path of the call meant (`Onward`); or the rest begins with ".." and
  the path meant nothing (`Climbing`), and then no step finds anything (`ClimbingFails`). The first part
  of the module is about texts: what `LexicallyNormal` makes of one (`NormalForms`: names only, or a
  ".." in front, or "." and a closing "/"), and that making a text normal and
  putting a path of names behind it is what the code makes of both together (`NormalBehind`). To keep the
  equation in `FollowLink`, `CrossToPath` and `AbsoluteLink` one needs that a link means what its text means, in
  the same layer of `Deep` (`TurnMeaning`), while the definition gives the text one layer
  less. That holds because the layers stop growing: a deeper layer only adds to what is
  known (`DeepGrows`), after one that adds nothing at any name to turn off at none does
  (`SameStays`), and each layer before it settles at least one such name (`GrowthEnds`),
  so there are no more of them than such names (`DeepEnough`). `MountPointsTakeEffect`
  follows from the same invariant: the folder that `lstat` found is the one its path meant,
  and what is mounted over a name there is what the name means from then on. It is promised
  when the mount point does not lie on the way to its own folder, as `l/l` does where `l` leads
  back to the directory it is in; in the run none does.
- `Program_proofs`, of `CmdLine`: all its invariants. `CmdTypeCorrect` (`CmdTyped`: the
  types, that the program's name is kept, and which rule is in the loop).
  `BuiltArgumentsFit`: the sums of `RoomForRun` and `RoomForExtract` are what is copied
  (`RunFits`, `ExtractFits`, from `SumParts`). `PackagesAreUnderstood` (`PackageInv`): the
  descriptor is the one that `Parse` makes of the package, and `Parse` inverts `Serialize`
  part by part whatever follows (`ReadsParts`), and refuses every proper front of one
  (`CutOff`). `FirstRulesWin` (`TableInv`): every place that a rule named belongs to the
  first rule that named it. `VectorsAreSorted` (`SortedInv`): what was found is what stands
  before `i`, and `i` never stands on a value; that the texts are in order is kept by
  adding positions behind all earlier ones (`ListedMore`).

So every invariant and every refinement that a run checks is also a theorem. What stays with
TLC is out of the provers' reach: liveness under fairness (`CallsReturn`, `CallsComeBack`) and
`ENABLED`.

## 6. Not modelled

- The contents of dwarfs images, the block cache and its options
  (`src/tebako-io-root.cpp:100-113`): dwarfs is external, and an image is the map from names
  to inodes that it answers with.
- The bits of `access`, the fields of a `struct stat`, the conversions between structures:
  they are answers of dwarfs or copies, and no step depends on them.
- `mlock`, `munlock` and how a range is cut to pages (`src/tebako-mfs.cpp`): nothing reads
  the outcome in the library.
- `getattrlist`, `unlink`, `tebako_file_load_ok`, `flock`, `fstat`: each is the routing of a
  call that is modelled, with another system call at its end.
- How `scandir` allocates and sorts its list: memory of the caller.
- The composition of all tables in one module. What crosses them is in the modules
  pairwise (`DirTables`: streams, descriptors and the release; `Mounts`: images, mount
  points and walks; `Cwd`: the directory, paths and the release; `CmdLine`: mounts and the
  memory below them); the state space of their product is out of TLC's reach. What none of
  them sees is that extracted libraries outlive their image (`src/dl-ctl.cpp:111`): no
  text of the repository says that they should not.
- The shims for Ruby on Windows (declarations for one platform), the text of errors,
  logging, and the build.
