-------------------------------- MODULE NF2FSLog --------------------------------
(***************************************************************************)
(* What the caches promise to the directory layer: every directory sector  *)
(* is a log.  Entries are added at its end, an entry is deleted in place,  *)
(* and nothing else changes what a reader sees.  A sector is a row of      *)
(* cells; an entry is the cell where its head begins, "valid" or           *)
(* "deleted", and the "body" cells after it.                               *)
(***************************************************************************)
EXTENDS Integers

CONSTANTS Sectors,     \* directory sectors
          SectorSize,  \* cells per sector
          FirstOff,    \* where the first entry begins, after the sector head
          Lengths      \* lengths of entries

VARIABLE log           \* log[s][c]: what a reader of sector s sees in cell c

Cells == 0 .. SectorSize - 1

Init ==
  log = [s \in Sectors |-> [c \in Cells |-> IF c < FirstOff THEN "body" ELSE "erased"]]

(* The end of the log is the first erased cell. *)
Append(s, off, len) ==
  /\ off >= FirstOff /\ off + len < SectorSize
  /\ log[s][off] = "erased" /\ log[s][off - 1] # "erased"
  /\ log' = [log EXCEPT ![s] = [c \in Cells |->
               IF c = off THEN "valid"
               ELSE IF c \in off + 1 .. off + len - 1 THEN "body" ELSE @[c]]]

Delete(s, off) ==
  /\ log[s][off] = "valid"
  /\ log' = [log EXCEPT ![s][off] = "deleted"]

Next ==
  \E s \in Sectors, off \in Cells :
    \/ Delete(s, off)
    \/ \E len \in Lengths : Append(s, off, len)

Spec == Init /\ [][Next]_log
=============================================================================
