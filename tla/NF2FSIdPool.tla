------------------------------ MODULE NF2FSIdPool ------------------------------
(***************************************************************************)
(* What the id manager promises to the file and directory layers.  Every   *)
(* file and directory holds one id; an id given back is RETIRED: NOR flash *)
(* cannot turn a cleared bit back, so a retired id stays out of use until  *)
(* a new generation of the map is written, which returns every retired id  *)
(* to the pool at once.                                                    *)
(***************************************************************************)
EXTENDS Integers

CONSTANT Ids        \* the ids that exist

VARIABLES live,     \* ids held by a file, a directory or the superblock
          retired   \* ids given back since the last renewal

poolVars == <<live, retired>>

Init == live = {0, 1} /\ retired = {}

Alloc(id) ==
  /\ id \in Ids \ (live \cup retired)
  /\ live' = live \cup {id}
  /\ UNCHANGED retired

Free(id) ==
  /\ id \in live \ {0, 1}
  /\ live' = live \ {id}
  /\ retired' = retired \cup {id}

Renew ==
  /\ retired' = {}
  /\ UNCHANGED live

Next == Renew \/ \E id \in Ids : Alloc(id) \/ Free(id)

Spec == Init /\ [][Next]_poolVars
=============================================================================
