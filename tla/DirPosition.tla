------------------------------ MODULE DirPosition ------------------------------
(***************************************************************************)
(* What a directory stream promises: a position in a directory of N        *)
(* entries.  readdir returns the entry at the position and moves on,       *)
(* telldir returns the position, seekdir sets it.  The program may close   *)
(* the descriptor of the stream, and open its number again.  A stream that *)
(* needs its descriptor while that is closed, or open on something else,   *)
(* is lost: nothing is promised of what readdir returns from then on.      *)
(***************************************************************************)
EXTENDS Integers
CONSTANTS N,        \* number of entries
          Entry,    \* Entry[i]: the entry at position i
          End       \* readdir returned no entry and no error
VARIABLES pos,   \* position
          open,  \* is the number of the descriptor open on the directory?
          got,   \* what the last readdir returned
          lost
vars == <<pos, open, got, lost>>

Init == pos = 0 /\ open = TRUE /\ got = End /\ lost = FALSE

Read == /\ pos \in 0 .. N - 1
        /\ got' = Entry[pos]
        /\ pos' = pos + 1
        /\ UNCHANGED <<open, lost>>

ReadEnd == /\ pos >= N
           /\ got' = End
           /\ UNCHANGED <<pos, open, lost>>

\* pos' and got' may be anything.
ReadLost == /\ lost \/ ~open
            /\ lost' = TRUE
            /\ UNCHANGED open

Seek == /\ pos' \in Nat
        /\ UNCHANGED <<open, got, lost>>

\* The descriptor is closed, or its number opened again.
Descriptor == /\ open' \in BOOLEAN
              /\ UNCHANGED <<pos, got, lost>>

Next == Read \/ ReadEnd \/ ReadLost \/ Seek \/ Descriptor

Spec == Init /\ [][Next]_vars
================================================================================
