------------------------------ MODULE NF2FSSuper ------------------------------
(***************************************************************************)
(* The life of the superblock: format, mount and unmount (NF2FS.c:145-538), *)
(* superblock_change and prog_in_superblock (NF2FS_rw.c:534-779), and the  *)
(* root directory's record (dir_update, NF2FS_dir.c:895-933), with power   *)
(* lost between any two flash programs.                                    *)
(*                                                                         *)
(* Sectors 0 and 1 hold the superblock in turn.  Each has a head (state    *)
(* and extend, its version) and a log of records; only the two kinds whose *)
(* presence decides something are kept: "root", which names the tail of    *)
(* the root directory, and "commit".  A record is programmed, then its     *)
(* written flag; it is deleted in place.  Programming one record, one head *)
(* or one flag is a step: power is lost between them, not inside one.      *)
(***************************************************************************)
EXTENDS Integers, Sequences

CONSTANTS
  Capacity,   \* records that fit in a superblock sector
  Versions,   \* values of the extend field, 0x40
  MaxTail     \* bound: the root directory moves at most MaxTail times

ASSUME CapacityAssumption  == Capacity \in Nat /\ Capacity > 1
ASSUME VersionsAssumption  == Versions \in Nat /\ Versions > 3
ASSUME MaxTailAssumption   == MaxTail \in Nat

Supers == {0, 1}
Record(kind, tail) == [kind |-> kind, tail |-> tail, state |-> "torn"]
NoRecord == Record("none", 0)

VARIABLES
  super,    \* super[s]: head, extend and records of sector s
  cur,      \* superblock->sector
  nameAt,   \* which record of cur the root's name_off is; 0 if none is known
  tail,     \* the root directory's tail in RAM; a larger one is newer
  pc,       \* "down", "idle", or the flash program that comes next
  todo,     \* the record prog_in_superblock has been given
  saved,    \* smap_flush and cache_flush have written what RAM holds
  newest,   \* history: the sector whose head was validated last
  root      \* history: the tail of the root record written last

flash == <<super, newest, root>>
ram   == <<cur, nameAt, tail, todo>>
vars  == <<flash, ram, pc, saved>>

-----------------------------------------------------------------------------
Blank == [head |-> "null", extend |-> Versions - 1, records |-> <<>>]

Live(s, kind) ==
  {i \in DOMAIN super[s].records :
     super[s].records[i].kind = kind /\ super[s].records[i].state = "valid"}

(* head_validate on a record. *)
SetState(s, i, state) == [super EXCEPT ![s].records[i].state = state]

(* select_supersector when neither sector is blank on both sides. *)
Select ==
  IF super[1].head = "null" THEN 0
  ELSE IF super[0].head = "null" THEN 1
  ELSE IF super[0].extend < super[1].extend /\
          ~(super[0].extend = 0 /\ super[1].extend = Versions - 1) THEN 1
  ELSE 0

(* One of two used heads is not USING: NF2FS_ERR_CORRUPT. *)
HalfMade == /\ \A s \in Supers : super[s].head # "null"
            /\ \E s \in Supers : super[s].head # "using"

(* mount reads the records in order and stops at the COMMIT record; one     *)
(* without its written flag, or the end of the log, makes it give up.       *)
Readable(s) ==
  \E c \in Live(s, "commit") : \A i \in 1 .. c : super[s].records[i].state # "torn"

(* The root record that counts is the first: tree_entry_add and dir_lowopen *)
(* ignore the others.                                                       *)
FirstRoot(s) == {i \in Live(s, "root") : \A j \in Live(s, "root") : i <= j}

-----------------------------------------------------------------------------
Init ==
  /\ super = [s \in Supers |-> Blank]
  /\ cur = 1 /\ nameAt = 0 /\ tail = 0 /\ todo = NoRecord
  /\ pc = "down" /\ saved = TRUE
  /\ newest = 0 /\ root = 0

(* mount of a blank device formats it; superblock_change takes sector 0. *)
Format ==
  /\ pc = "down"
  /\ \A s \in Supers : super[s].head = "null"
  /\ cur' = 1 /\ nameAt' = 0 /\ tail' = 0 /\ todo' = NoRecord
  /\ saved' = FALSE
  /\ pc' = "erase"
  /\ UNCHANGED flash

(* Mutant of Mount: the COMMIT record is not deleted. *)
MountKeepsCommit ==
  /\ pc = "down" /\ ~HalfMade /\ Readable(Select)
  /\ \E i \in FirstRoot(Select) :
       nameAt' = i /\ tail' = super[Select].records[i].tail
  /\ cur' = Select
  /\ todo' = NoRecord
  /\ pc' = "idle"
  /\ UNCHANGED <<flash, saved>>

(* mount of a superblock that ends in a COMMIT record, which it deletes. One *)
(* whose root records were all destroyed is left out: it is mounted without *)
(* a root directory, and the first use of a path stops.                     *)
Mount ==
  /\ pc = "down" /\ ~HalfMade /\ Readable(Select)
  /\ \E c \in Live(Select, "commit"), i \in FirstRoot(Select) :
       /\ super' = SetState(Select, c, "deleted")
       /\ nameAt' = i /\ tail' = super[Select].records[i].tail
  /\ cur' = Select
  /\ todo' = NoRecord
  /\ pc' = "idle"
  /\ UNCHANGED <<newest, root, saved>>

(* Files and directories change: their maps and data wait in RAM. *)
Work ==
  /\ pc = "idle" /\ saved
  /\ saved' = FALSE
  /\ UNCHANGED <<flash, ram, pc>>

(* prog_in_superblock: the sector is changed first if the record is too much. *)
Begin(record) ==
  /\ todo' = record
  /\ pc' = IF Len(super[cur].records) < Capacity THEN "prog" ELSE "erase"

(* dir_update for the root: delete the old record, program a new one. Once  *)
(* a record was programmed, name_off was computed from len, which is not    *)
(* initialized: another record is deleted, or bytes that are no record's.   *)
RootMoves ==
  /\ pc = "idle" /\ tail < MaxTail
  /\ tail' = tail + 1
  /\ \E at \in IF nameAt # 0 THEN {nameAt} ELSE 0 .. Len(super[cur].records) :
       super' = IF at = 0 THEN super ELSE SetState(cur, at, "deleted")
  /\ saved' = FALSE
  /\ Begin(Record("root", tail + 1))
  /\ UNCHANGED <<cur, nameAt, newest, root>>

(* superblock_change, program by program. The extend read before the erase  *)
(* is kept in RAM; super[s].extend stands for it until the head is back.    *)
EraseOther ==
  /\ pc = "erase"
  /\ cur' = 1 - cur
  /\ super' = [super EXCEPT ![1 - cur].head = "null", ![1 - cur].records = <<>>]
  /\ pc' = "head"
  /\ UNCHANGED <<nameAt, tail, todo, saved, newest, root>>

(* Mutant of ProgHead: the extend does not wrap. *)
ProgHeadNoWrap ==
  /\ pc = "head"
  /\ super' = [super EXCEPT ![cur].head = "allocating", ![cur].extend = @ + 2]
  /\ pc' = "basic"
  /\ UNCHANGED <<ram, saved, newest, root>>

(* The old head has been read: its extend goes up by two. *)
ProgHead ==
  /\ pc = "head"
  /\ super' = [super EXCEPT ![cur].head = "allocating",
                            ![cur].extend = (@ + 2) % Versions]
  /\ pc' = "basic"
  /\ UNCHANGED <<ram, saved, newest, root>>

(* Mutant of ProgBasic: superblock_change is called with if_commit set. *)
ProgBasicCommits ==
  /\ pc = "basic"
  /\ super' = [super EXCEPT ![cur].records =
                 <<[Record("root", tail) EXCEPT !.state = "valid"],
                   [Record("commit", 0) EXCEPT !.state = "valid"]>>]
  /\ nameAt' = 1 /\ root' = tail
  /\ pc' = "validate"
  /\ UNCHANGED <<cur, tail, todo, saved, newest>>

(* The basic records; of these the root's is kept. superblock_change takes  *)
(* the tail from the tree, which dir_update has changed already: the record *)
(* it was programming then comes second.                                    *)
ProgBasic ==
  /\ pc = "basic"
  /\ super' = [super EXCEPT ![cur].records =
                 <<[Record("root", tail) EXCEPT !.state = "valid"]>>]
  /\ nameAt' = 1 /\ root' = tail
  /\ pc' = "validate"
  /\ UNCHANGED <<cur, tail, todo, saved, newest>>

ValidateHead ==
  /\ pc = "validate"
  /\ super' = [super EXCEPT ![cur].head = "using"]
  /\ newest' = cur
  /\ pc' = IF todo = NoRecord THEN "idle" ELSE "prog"
  /\ UNCHANGED <<ram, saved, root>>

ProgRecord ==
  /\ pc = "prog"
  /\ super' = [super EXCEPT ![cur].records = Append(@, todo)]
  /\ pc' = "written"
  /\ UNCHANGED <<ram, saved, newest, root>>

(* The written flag. A root record leaves name_off undefined; a COMMIT      *)
(* record is followed by the flush of the maps.                             *)
SetWritten ==
  /\ pc = "written"
  /\ super' = SetState(cur, Len(super[cur].records), "valid")
  /\ IF todo.kind = "root"
     THEN pc' = "idle" /\ nameAt' = 0 /\ root' = todo.tail
     ELSE pc' = "flush" /\ UNCHANGED <<nameAt, root>>
  /\ todo' = NoRecord
  /\ UNCHANGED <<cur, tail, saved, newest>>

(* unmount writes the COMMIT record, *)
Unmount ==
  /\ pc = "idle"
  /\ Begin(Record("commit", 0))
  /\ UNCHANGED <<flash, cur, nameAt, tail, saved>>

(* then the maps and the cached data. *)
FlushMaps ==
  /\ pc = "flush"
  /\ saved' = TRUE
  /\ pc' = "down"
  /\ UNCHANGED <<flash, ram>>

(* Power is lost: flash stays, what was not saved is gone, and of an erased *)
(* sector nobody knows the extend.                                          *)
Crash ==
  /\ pc # "down"
  /\ super' = [s \in Supers |-> IF super[s].head = "null" THEN Blank ELSE super[s]]
  /\ pc' = "down"
  /\ UNCHANGED <<newest, root, ram, saved>>

Next ==
  \/ Format \/ Mount \/ Work \/ RootMoves
  \/ EraseOther \/ ProgHead \/ ProgBasic \/ ValidateHead
  \/ ProgRecord \/ SetWritten \/ Unmount \/ FlushMaps
  \/ Crash

Spec == Init /\ [][Next]_vars

-----------------------------------------------------------------------------
Records ==
  [kind : {"root", "commit"}, tail : 0 .. MaxTail, state : {"torn", "valid", "deleted"}]

Sector ==
  [head    : {"null", "allocating", "using"},
   extend  : 0 .. Versions - 1,
   records : Seq(Records)]

TypeOK ==
  /\ super \in [Supers -> Sector]
  /\ \A s \in Supers : Len(super[s].records) <= Capacity
  /\ cur \in Supers /\ newest \in Supers
  /\ nameAt \in 0 .. Capacity /\ tail \in 0 .. MaxTail /\ root \in 0 .. MaxTail
  /\ pc \in {"down", "idle", "erase", "head", "basic", "validate", "prog", "written", "flush"}
  /\ todo \in Records \cup {NoRecord}
  /\ saved \in BOOLEAN

(* While the system is up no COMMIT record is valid, in either sector, so a *)
(* crash is told from an orderly stop (NF2FS.h:387-388: "Tell us whether or *)
(* not corrupt happens").                                                   *)
UpMeansNoCommit ==
  pc \notin {"down", "flush"} => \A s \in Supers : Live(s, "commit") = {}

(* Whatever sector select_supersector prefers, a mount that succeeds works  *)
(* on the superblock written last and on a whole one.                       *)
MountedNewest == pc = "idle" => cur = newest /\ super[cur].head = "using"

(* "delete old root dir name in superblock" (NF2FS_dir.c:914): after an      *)
(* orderly stop the superblock written last can be read, and the root       *)
(* record mount takes from it is the one written last.                      *)
StopKeepsRoot ==
  (pc = "down" /\ Live(newest, "commit") # {}) =>
     /\ Readable(newest)
     /\ FirstRoot(newest) # {}
     /\ \A i \in FirstRoot(newest) : super[newest].records[i].tail = root

(* "choose the max extend number as valid super sector" (NF2FS.c:178): of   *)
(* two whole superblocks the newer one is selected.                         *)
SelectsNewest ==
  (pc = "down" /\ \A s \in Supers : super[s].head = "using") => Select = newest

(* The COMMIT record tells "whether or not corrupt happens" (NF2FS.h:387):  *)
(* with one in flash the maps and the cached data are in flash too.         *)
CommitMeansSaved ==
  (pc = "down" /\ \E s \in Supers : Live(s, "commit") # {}) => saved
=============================================================================
