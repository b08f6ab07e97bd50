---------------------------- MODULE NF2FSSectorPool ----------------------------
(***************************************************************************)
(* What the sector manager promises to directories and big files: a run of *)
(* consecutive sectors nobody uses, within one region, and a region that   *)
(* holds one kind of data only, so that sectors erased together age        *)
(* together.  A sector given back is old and cannot be handed out until it *)
(* is erased; NF2FS never gets that far (see NF2FSSectors), so the pool    *)
(* only shrinks.                                                           *)
(***************************************************************************)
EXTENDS Integers

CONSTANTS Sectors,      \* the sectors of the data regions
          RegionSize    \* sectors per region

VARIABLE owner          \* owner[s]: "free", the kind that holds s, or "old"

Kinds == {"dir", "bfile"}
RegionOf(s) == s \div RegionSize

Init == owner = [s \in Sectors |-> IF s = RegionSize THEN "dir" ELSE "free"]

Alloc(kind, first, last) ==
  /\ first <= last
  /\ \A s \in first .. last :
       s \in Sectors /\ owner[s] = "free" /\ RegionOf(s) = RegionOf(first)
  /\ \A s \in Sectors : RegionOf(s) = RegionOf(first) => owner[s] \in {"free", "old", kind}
  /\ owner' = [s \in Sectors |-> IF s \in first .. last THEN kind ELSE owner[s]]

Free(first, last) ==
  /\ first <= last
  /\ \A s \in first .. last : s \in Sectors /\ owner[s] \in Kinds
  /\ owner' = [s \in Sectors |-> IF s \in first .. last THEN "old" ELSE owner[s]]

Next ==
  \E first \in Sectors, last \in Sectors :
    \/ \E kind \in Kinds : Alloc(kind, first, last)
    \/ Free(first, last)

Spec == Init /\ [][Next]_owner
=============================================================================
