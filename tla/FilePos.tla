-------------------------------- MODULE FilePos --------------------------------
(***************************************************************************)
(* The offset of one open file of the image: `pos' of a tebako_fd and the  *)
(* calls of sync_tebako_fdtable that move it (read, readv, lseek) or do    *)
(* not (pread), tebako-fd.cpp.  All of them hold the lock of the table for *)
(* reading only, so that those of several threads run at the same time and *)
(* `pos' is loaded and stored without any order between them: each load    *)
(* and each store is a step.  pos is a uint64_t that is compared with and  *)
(* assigned from an off_t; the number of bytes a read transferred passes   *)
(* through an int.                                                         *)
(***************************************************************************)
EXTENDS Integers

CONSTANTS
  Thread,     \* threads that use the file
  Size,       \* st_size
  OffMax,     \* the largest off_t
  IntMax,     \* the largest int
  Count,      \* lengths of the buffers
  MaxIov,     \* bound on the number of buffers of a readv
  Offset,     \* offsets of lseek(SEEK_SET), lseek(SEEK_CUR) and pread
  EndOffset,  \* offsets of lseek(SEEK_END)
  Serial      \* does the program make one call on the file at a time?

OffMin == -(OffMax + 1)
U == 2 * (OffMax + 1)

ASSUME SizeAssumption == /\ OffMax \in Nat
                         /\ Size \in 0 .. OffMax
                         /\ IntMax \in Nat
                         /\ MaxIov \in Nat
ASSUME CountAssumption == Count \subseteq Nat
ASSUME OffsetAssumption == /\ Offset \subseteq OffMin .. OffMax
                           /\ EndOffset \subseteq OffMin .. OffMax
ASSUME SerialAssumption == Serial \in BOOLEAN

VARIABLES
  pos,    \* tebako_fd::pos
  pc,     \* where each thread is
  frame,  \* what its call has in local variables
  data,   \* the bytes the last call delivered
  ret     \* what the last call returned
vars == <<pos, pc, frame, data, ret>>

\* A call began when the offset was `start'; it has `left' buffers to fill and
\* has delivered `total' bytes, those in `buf'.  The last buffer received `got'
\* bytes.  `old' is the value of pos that was loaded to be changed, and `by' the
\* offset of a seek.
Frame == [call : {"read", "readv", "lseek"}, start : 0 .. U - 1, left : 0 .. MaxIov + 1,
          total : Nat, buf : SUBSET (0 .. Size - 1), got : 0 .. Size,
          old : 0 .. U - 1, by : OffMin .. OffMax]
NewFrame(call, start, left, by) ==
  [call |-> call, start |-> start, left |-> left, total |-> 0, buf |-> {}, got |-> 0,
   old |-> start, by |-> by]
NoFrame == NewFrame("read", 0, 0, 0)

Place == {"idle", "fetch", "check", "load", "store", "seekcur"}

TypeOK == /\ pos \in 0 .. U - 1
          /\ pc \in [Thread -> Place]
          /\ frame \in [Thread -> Frame]
          /\ data \in SUBSET (0 .. Size - 1)
          /\ ret \in Int
          /\ \A t \in Thread : pc[t] \in {"check", "load", "store"} => frame[t].left > 0

Init == /\ pos = 0
        /\ pc = [t \in Thread |-> "idle"]
        /\ frame = [t \in Thread |-> NoFrame]
        /\ data = {}
        /\ ret = 0

Goto(t, place, f) == /\ pc' = [pc EXCEPT ![t] = place]
                     /\ frame' = [frame EXCEPT ![t] = f]
                     /\ UNCHANGED <<data, ret>>

Deliver(t, bytes, value) == /\ pc' = [pc EXCEPT ![t] = "idle"]
                            /\ frame' = [frame EXCEPT ![t] = NoFrame]
                            /\ data' = bytes
                            /\ ret' = value
Fail(t) == Deliver(t, {}, -1)

\* A thread begins a call.
Begins(t) == /\ pc[t] = "idle"
             /\ Serial => \A u \in Thread : pc[u] = "idle"

\* What dwarfs transfers of len bytes from an offset that is not negative.
Transfer(from, len) ==
  IF from >= Size THEN 0 ELSE IF from + len <= Size THEN len ELSE Size - from

\* A number of bytes, assigned to an int (memfs::inode_read, fd_table::read).
AsInt(n) == IF n <= IntMax THEN n
            ELSE ((n + IntMax + 1) % (2 * (IntMax + 1))) - (IntMax + 1)

\* A sum of a uint64_t and an off_t, and what a uint64_t is as an off_t.
Wrap(n) == IF n < 0 THEN n + U ELSE IF n >= U THEN n - U ELSE n
AsOff(n) == IF n > OffMax THEN n - U ELSE n

\* -offset, and what it is to a uint64_t that it is compared with.
Negated(offset) == IF offset = OffMin THEN OffMin ELSE -offset
AsUnsigned(n) == IF n < 0 THEN n + U ELSE n

\* ---- read, readv ----

BeginRead(t) == /\ Begins(t)
                /\ Goto(t, "fetch", NewFrame("read", pos, 1, 0))
                /\ UNCHANGED pos

BeginReadv(t, iovcnt) == /\ Begins(t)
                         /\ Goto(t, "fetch", NewFrame("readv", pos, iovcnt, 0))
                         /\ UNCHANGED pos

\* iovcnt < 0, or a whence that is none.
Refuse(t) == Begins(t) /\ Fail(t) /\ UNCHANGED pos

\* dwarfs_inode_read(..., pos): some bytes for the next buffer.
Fetch(t, len) ==
  LET n == Transfer(pos, len)
  IN  /\ pc[t] = "fetch" /\ frame[t].left > 0
      /\ pos <= OffMax /\ AsInt(n) > 0
      /\ Goto(t, IF frame[t].call = "readv" THEN "check" ELSE "load",
              [frame[t] EXCEPT !.got = AsInt(n), !.buf = @ \cup (pos .. pos + n - 1)])
      /\ UNCHANGED pos

\* No bytes, or no buffers: the end.
FetchEnd(t, len) ==
  /\ pc[t] = "fetch"
  /\ frame[t].left = 0 \/ (pos <= OffMax /\ AsInt(Transfer(pos, len)) = 0)
  /\ Deliver(t, frame[t].buf, frame[t].total)
  /\ UNCHANGED pos

\* dwarfs refuses the offset, cannot read the block, or the number of bytes is
\* negative as an int.  What a readv has read before this is not reported.
FetchFails(t) == pc[t] = "fetch" /\ frame[t].left > 0 /\ Fail(t) /\ UNCHANGED pos

\* readv: pos > max - ssize, EOVERFLOW; ret > max - ssize, EINVAL.
Check(t) ==
  /\ pc[t] = "check"
  /\ IF pos > OffMax - frame[t].got \/ frame[t].total > OffMax - frame[t].got
     THEN Fail(t) ELSE Goto(t, "load", frame[t])
  /\ UNCHANGED pos

\* pos += n
Load(t) == /\ pc[t] = "load"
           /\ Goto(t, "store", [frame[t] EXCEPT !.old = pos])
           /\ UNCHANGED pos

\* Mutant: only the last buffer is counted.
Store_LastOnly(t) ==
  /\ pc[t] = "store"
  /\ pos' = Wrap(frame[t].old + frame[t].got)
  /\ LET sum == frame[t].got
     IN  IF frame[t].left = 1
         THEN Deliver(t, frame[t].buf, sum)
         ELSE Goto(t, "fetch", [frame[t] EXCEPT !.left = @ - 1, !.total = sum])

Store(t) ==
  /\ pc[t] = "store"
  /\ pos' = Wrap(frame[t].old + frame[t].got)
  /\ LET sum == frame[t].total + frame[t].got
     IN  IF frame[t].left = 1
         THEN Deliver(t, frame[t].buf, sum)
         ELSE Goto(t, "fetch", [frame[t] EXCEPT !.left = @ - 1, !.total = sum])

\* ---- pread ----

PRead(t, from, len) ==
  LET n == Transfer(from, len)
  IN  /\ Begins(t)
      /\ IF from < 0 \/ AsInt(n) < 0
         THEN Fail(t)
         ELSE Deliver(t, from .. from + n - 1, AsInt(n))
      /\ UNCHANGED pos

\* ---- lseek ----

SetPos(t, n) == pos' = n /\ Deliver(t, {}, AsOff(n))

SeekSet(t, offset) ==
  /\ Begins(t)
  /\ IF offset < 0 THEN Fail(t) /\ UNCHANGED pos ELSE SetPos(t, offset)

BeginSeekCur(t, offset) == /\ Begins(t)
                           /\ Goto(t, "seekcur", NewFrame("lseek", pos, 0, offset))
                           /\ UNCHANGED pos

\* Mutant: the sum is not checked.
SeekCur_NoOverflowCheck(t) ==
  LET offset == frame[t].by
      old == frame[t].old
  IN  /\ pc[t] = "seekcur"
      /\ IF offset < 0 /\ old < AsUnsigned(Negated(offset))
         THEN Fail(t) /\ UNCHANGED pos
         ELSE SetPos(t, Wrap(old + offset))

SeekCur(t) ==
  LET offset == frame[t].by
      old == frame[t].old
  IN  /\ pc[t] = "seekcur"
      /\ IF \/ offset < 0 /\ old < AsUnsigned(Negated(offset))
            \/ offset > 0 /\ old > OffMax - offset
         THEN Fail(t) /\ UNCHANGED pos
         ELSE SetPos(t, Wrap(old + offset))

SeekEnd(t, offset) ==
  /\ Begins(t)
  /\ IF \/ offset < 0 /\ Size < Negated(offset)
        \/ offset > 0 /\ Size > OffMax - offset
     THEN Fail(t) /\ UNCHANGED pos
     ELSE SetPos(t, Wrap(Size + offset))

Step(t) ==
  \/ BeginRead(t) \/ (\E iovcnt \in 0 .. MaxIov : BeginReadv(t, iovcnt)) \/ Refuse(t)
  \/ (\E len \in Count : Fetch(t, len) \/ FetchEnd(t, len)) \/ FetchFails(t)
  \/ Check(t) \/ Load(t) \/ Store(t) \/ SeekCur(t)
  \/ \E offset \in Offset : \/ SeekSet(t, offset) \/ BeginSeekCur(t, offset)
                            \/ \E len \in Count : PRead(t, offset, len)
  \/ \E offset \in EndOffset : SeekEnd(t, offset)

Next == \E t \in Thread : Step(t)

Spec == Init /\ [][Next]_vars

--------------------------------------------------------------------------------
(* Properties.                                                               *)

\* The offset is never negative or too large for an off_t: EINVAL and EOVERFLOW
\* are reported instead (tebako-fd.cpp:290, 345, 363, 375).
OffsetIsRepresentable == pos <= OffMax

\* The offset as the caller of the running call knows it.
Busy == \E t \in Thread : pc[t] # "idle"
Caller == CHOOSE t \in Thread : pc[t] # "idle"
KnownPos == IF Busy THEN frame[Caller].start ELSE pos

\* The calls in their steps are reads and seeks of one file offset: no byte is
\* skipped or delivered twice, none of a vector is lost or counted wrongly, and
\* a seek ends where it asked for or fails.
O == INSTANCE FileOffset WITH pos <- KnownPos
ReadsAreSequential == O!Spec
--------------------------------------------------------------------------------
(* The inductive invariant behind them.                                      *)

\* What the program must leave alone: it makes one call on a file at a time, does
\* not seek by the smallest off_t from the end, and reads no more at a time than
\* an int can count.
Modest == /\ Serial
          /\ OffMin \notin EndOffset
          /\ \A len \in Count : len <= IntMax

OneCall == \A t, u \in Thread : pc[t] # "idle" /\ pc[u] # "idle" => t = u

\* Bytes that were read and are not counted yet.
Uncounted(t) == IF pc[t] \in {"check", "load", "store"} THEN frame[t].got ELSE 0

\* A read in progress has delivered the bytes from where it began to where it is.
ReadInProgress ==
  \A t \in Thread : pc[t] \in {"fetch", "check", "load", "store"} =>
     /\ frame[t].start + frame[t].total = pos
     /\ frame[t].buf = frame[t].start .. pos + Uncounted(t) - 1
     /\ frame[t].total + Uncounted(t) > 0 => pos + Uncounted(t) <= Size
     /\ pc[t] # "fetch" => frame[t].got > 0
     /\ pc[t] = "store" => frame[t].old = pos

SeekInProgress ==
  \A t \in Thread : pc[t] = "seekcur" =>
     frame[t].old = pos /\ frame[t].start = pos /\ frame[t].by \in Offset

Inv == TypeOK /\ OffsetIsRepresentable /\ OneCall /\ ReadInProgress /\ SeekInProgress
================================================================================
