----------------------------- MODULE NF2FSSectors -----------------------------
(***************************************************************************)
(* The sector manager of NF2FS (NF2FS_manage.c:156-935): the free maps of  *)
(* directory and big-file sectors, the part of the region map that decides *)
(* where they go, the erase map, and what unmount and mount save and       *)
(* restore of them.                                                        *)
(*                                                                         *)
(* Region 0 holds metadata (superblocks and maps).  The regions from 1 on  *)
(* are claimed in order by directories and big files; reserve is the next  *)
(* one to claim, and the last one stays in reserve.  A kind keeps the free *)
(* map of one region in RAM and writes it to flash when it moves on.  In   *)
(* flash the free map bit and the erase map bit of a sector are 1 until    *)
(* they are programmed: "allocated" and "given back".                      *)
(*                                                                         *)
(* sectors_find is a loop: one step below is one pass of it, and no other  *)
(* action runs while it loops.  Sectors given back would become free in    *)
(* flash_smap_change, whose only call cannot be reached: see Steal.        *)
(***************************************************************************)
EXTENDS Integers

CONSTANTS
  RegionNum,   \* cfg->region_cnt
  RegionSize,  \* sectors per region, sector_count / region_cnt
  OneScan,     \* TRUE: only requests that need no second scan (InFirstScan)
  RoomAtStop   \* TRUE: unmount only in the states named by RoomLeft

ASSUME RegionNumAssumption  == RegionNum \in Nat /\ RegionNum > 2
ASSUME RegionSizeAssumption == RegionSize \in Nat /\ RegionSize > 1
ASSUME OneScanAssumption    == OneScan \in BOOLEAN
ASSUME RoomAtStopAssumption == RoomAtStop \in BOOLEAN

Kinds   == {"dir", "bfile"}
Sectors == RegionSize .. RegionNum * RegionSize - 1   \* those outside region 0
Null    == -1     \* NF2FS_NULL; NF2FS_NULL + 1 is 0, as in 32 bits

RegionOf(s) == s \div RegionSize
Window(r)   == {s \in Sectors : RegionOf(s) = r}

VARIABLES
  freeMap,   \* flash free map: the sectors whose bit is 1
  eraseMap,  \* flash erase map: the sectors whose bit is 1
  region,    \* region[k]: map->region of the free map of kind k in RAM
  bits,      \* bits[k]: map->buffer, the sectors whose bit is 1
  index,     \* index[k]: map->index_or_changed
  scanAt,    \* scanAt[k]: region_map's dir_index and bfile_index
  reserve,   \* region_map->reserve
  held,      \* reserve_map->region
  emap,      \* erase map in RAM: its region and the sectors its cleared bits name
  pc,        \* "idle", "find" (inside sectors_find), "fault" or "unmounted"
  req,       \* the request sectors_find serves: [kind, num]
  commit,    \* COMMIT record: [next (of each kind), reserve]
  owner      \* the sector heads: "free", USING by a kind, or "old"

ramVars   == <<region, bits, index, scanAt>>
eraseVars == <<eraseMap, emap>>
vars == <<freeMap, ramVars, reserve, held, eraseVars, pc, req, commit, owner>>

-----------------------------------------------------------------------------
(* Mutant of Starts: a run may be cut short. *)
StartsCut(k, n) == {s \in bits[k] : s % RegionSize >= index[k]}

(* find_in_map: where n free sectors in a row start, at or after the index. *)
Starts(k, n) ==
  {s \in bits[k] : s % RegionSize >= index[k] /\ s .. s + n - 1 \subseteq bits[k]}

(* Mutants of Flushed: the free bits are cleared; nothing is written. *)
FlushedFree(map, k) == map \ bits[k]
FlushedNothing(map, k) == map

(* map_flush: programming a map only clears bits. *)
Flushed(map, k) == map \ (Window(region[k]) \ bits[k])

(* The two erase maps as emap_set passes them on.                           *)
Marks == [region |-> emap.region, marks |-> emap.marks, erase |-> eraseMap]

SetMarks(m) ==
  /\ emap' = [region |-> m.region, marks |-> m.marks]
  /\ eraseMap' = m.erase

(* emap_set: a map that has marks for another region goes to flash first,   *)
(* one without marks keeps its region; at the end of a region the map goes  *)
(* to flash and takes the next region. Marks of a map without a region name *)
(* no sector, and erase_map_flush drops them.                               *)
EmapSet(m, first, num) ==
  LET r     == RegionOf(first)
      fresh == [region |-> r, marks |-> {}, erase |-> m.erase \ m.marks]
      m1    == IF r # m.region /\ m.marks # {} THEN fresh ELSE m
      all   == m1.marks \cup {s + (m1.region - r) * RegionSize : s \in first .. first + num - 1}
      last  == m1.region + RegionOf(first + num) - r
  IN  IF r = held THEN m      \* the bits go to reserve_map instead
      ELSE [region |-> last,
            marks  |-> {s \in all : RegionOf(s) >= last},
            erase  |-> m1.erase \ {s \in all : RegionOf(s) < last}]

(* sector_erase: sector_alloc erases what was written before and marks it.  *)
EraseOld(m, first, num) ==
  LET after[i \in 0 .. num] ==
        IF i = 0 THEN m
        ELSE IF owner[first + i - 1] # "free" THEN EmapSet(after[i - 1], first + i - 1, 1)
        ELSE after[i - 1]
  IN  IF \A s \in first .. first + num - 1 : owner[s] = "free" THEN m ELSE after[num]

Own(first, num, state) ==
  owner' = [s \in Sectors |-> IF s \in first .. first + num - 1 THEN state ELSE owner[s]]

-----------------------------------------------------------------------------
(* State after format: directories own region 1 and the root its first sector. *)
Init ==
  /\ freeMap = Sectors /\ eraseMap = Sectors
  /\ region = [k \in Kinds |-> IF k = "dir" THEN 1 ELSE Null]
  /\ bits   = [k \in Kinds |-> IF k = "dir" THEN Window(1) \ {RegionSize} ELSE {}]
  /\ index  = [k \in Kinds |-> IF k = "dir" THEN 1 ELSE 0]
  /\ scanAt = [k \in Kinds |-> IF k = "dir" THEN 2 ELSE Null]
  /\ reserve = 2 /\ held = Null
  /\ emap = [region |-> Null, marks |-> {}]
  /\ pc = "idle" /\ req = [kind |-> "dir", num |-> 0]
  /\ commit = [next |-> [k \in Kinds |-> Null], reserve |-> 0]
  /\ owner = [s \in Sectors |-> IF s = RegionSize THEN "dir" ELSE "free"]

(* A request the first scan can serve. *)
InFirstScan(k, n) == Starts(k, n) # {} \/ reserve # RegionNum - 1

(* A directory asks for one sector, a big file for a run. *)
AllocBegin(k, n) ==
  /\ pc = "idle"
  /\ k = "dir" => n = 1
  /\ OneScan => InFirstScan(k, n)
  /\ pc' = "find" /\ req' = [kind |-> k, num |-> n]
  /\ UNCHANGED <<freeMap, ramVars, reserve, held, eraseVars, commit, owner>>

(* The map in RAM has a run: take the first one and write its heads. *)
AllocFind ==
  /\ pc = "find"
  /\ \E s \in Starts(req.kind, req.num) :
       /\ \A other \in Starts(req.kind, req.num) : s <= other
       /\ bits'  = [bits EXCEPT ![req.kind] = @ \ (s .. s + req.num - 1)]
       /\ index' = [index EXCEPT ![req.kind] = (s % RegionSize) + req.num]
       /\ SetMarks(EraseOld(Marks, s, req.num))
       /\ Own(s, req.num, req.kind)
  /\ pc' = "idle"
  /\ UNCHANGED <<freeMap, region, scanAt, reserve, held, req, commit>>

(* Mutant of Claim: the reserve does not move on. *)
ClaimStays(k) ==
  /\ region' = [region EXCEPT ![k] = reserve]
  /\ bits'   = [bits EXCEPT ![k] = Window(reserve)]
  /\ index'  = [index EXCEPT ![k] = 0]
  /\ scanAt' = [scanAt EXCEPT ![k] = reserve + 1]
  /\ UNCHANGED <<reserve, pc>>

(* sector_nextsmap, first scan: claim the region in reserve. *)
Claim(k) ==
  /\ region' = [region EXCEPT ![k] = reserve]
  /\ bits'   = [bits EXCEPT ![k] = Window(reserve)]
  /\ index'  = [index EXCEPT ![k] = 0]
  /\ scanAt' = [scanAt EXCEPT ![k] = reserve + 1]
  /\ reserve' = reserve + 1
  /\ pc' = pc

(* sector_nextsmap, later. The test for a region of the same kind,          *)
(* ~(bit & 1U), is never 0: the next region is taken whatever it holds, as  *)
(* flash has it, and flash_smap_change is never reached. Past the last      *)
(* region the erase map is read as a free map and sector_erase stops at a   *)
(* sector that does not exist. bfile_index starts uninitialized.            *)
Steal(k) ==
  \E r \in IF scanAt[k] = Null THEN 0 .. RegionNum ELSE {scanAt[k]} :
    IF r >= RegionNum
    THEN pc' = "fault" /\ UNCHANGED <<ramVars, reserve>>
    ELSE /\ region' = [region EXCEPT ![k] = r]
         /\ bits'   = [bits EXCEPT ![k] = Window(r) \cap Flushed(freeMap, k)]
         /\ index'  = [index EXCEPT ![k] = 0]
         /\ scanAt' = [scanAt EXCEPT ![k] = r + 1]
         /\ UNCHANGED <<reserve, pc>>

(* No run in this region: write its map back and turn to another one. *)
AllocNext ==
  /\ pc = "find" /\ Starts(req.kind, req.num) = {}
  /\ freeMap' = Flushed(freeMap, req.kind)
  /\ IF reserve # RegionNum - 1 THEN Claim(req.kind) ELSE Steal(req.kind)
  /\ UNCHANGED <<held, eraseVars, req, commit, owner>>

(* sequen_sector_old, dir_old: the heads become OLD and emap_set is told.   *)
(* A big file's runs are merged when they touch, so they may cross into the *)
(* next region; emap_set asserts that one begun in reserve_map does not.    *)
(* The root directory always keeps a sector.                                *)
Free(k, first, num) ==
  /\ pc = "idle"
  /\ k = "dir" => num = 1 /\ \E s \in Sectors \ {first} : owner[s] = "dir"
  /\ \A s \in first .. first + num - 1 : s \in Sectors /\ owner[s] = k
  /\ Own(first, num, "old")
  /\ IF RegionOf(first) = held /\ RegionOf(first + num - 1) # held
     THEN pc' = "fault" /\ UNCHANGED eraseVars
     ELSE pc' = pc /\ SetMarks(EmapSet(Marks, first, num))
  /\ UNCHANGED <<freeMap, ramVars, reserve, held, req, commit>>

-----------------------------------------------------------------------------
(* No map in RAM has been used to its last sector. *)
RoomLeft == \A k \in Kinds : index[k] < RegionSize

(* unmount: the COMMIT record and smap_flush. The bits reserve_map has      *)
(* cleared are those of sectors the free map has cleared already, and       *)
(* region_map is written but never read back into a choice.                 *)
Unmount ==
  /\ pc = "idle"
  /\ RoomAtStop => RoomLeft
  /\ commit' = [next |-> [k \in Kinds |-> IF region[k] = Null THEN Null
                                         ELSE region[k] * RegionSize + index[k]],
                reserve |-> reserve]
  /\ freeMap' = Flushed(Flushed(freeMap, "dir"), "bfile")
  /\ eraseMap' = eraseMap \ emap.marks
  /\ pc' = "unmounted"
  /\ UNCHANGED <<ramVars, reserve, held, emap, req, owner>>

(* mount: init_with_commit restores the maps from the COMMIT record. *)
Mount ==
  /\ pc = "unmounted"
  /\ LET restored == [k \in Kinds |-> IF commit.next[k] = Null THEN Null
                                      ELSE commit.next[k] \div RegionSize]
     IN /\ region' = restored
        /\ bits'   = [k \in Kinds |-> Window(restored[k]) \cap freeMap]
        /\ scanAt' = [k \in Kinds |-> IF restored[k] = Null THEN Null ELSE restored[k] + 1]
  /\ index'  = [k \in Kinds |-> 0]
  /\ reserve' = commit.reserve /\ held' = commit.reserve
  /\ emap' = [region |-> Null, marks |-> {}]
  /\ pc' = "idle"
  /\ UNCHANGED <<freeMap, eraseMap, req, commit, owner>>

Next ==
  \/ \E k \in Kinds, n \in 1 .. RegionSize : AllocBegin(k, n)
  \/ AllocFind \/ AllocNext
  \/ \E k \in Kinds, first \in Sectors, last \in Sectors :
       first <= last /\ Free(k, first, last - first + 1)
  \/ Unmount \/ Mount

(* The loop of sectors_find runs to its end; nothing else has to happen. *)
Spec == Init /\ [][Next]_vars /\ WF_vars(AllocFind \/ AllocNext)

-----------------------------------------------------------------------------
Bit(s) == IF \E k \in Kinds : region[k] = RegionOf(s)
          THEN \E k \in Kinds : s \in bits[k]
          ELSE s \in freeMap

States == {"free", "old"} \cup Kinds

TypeOK ==
  /\ freeMap \subseteq Sectors /\ eraseMap \subseteq Sectors
  /\ region \in [Kinds -> Null .. RegionNum] /\ scanAt \in [Kinds -> Null .. RegionNum + 1]
  /\ bits \in [Kinds -> SUBSET Sectors]
  /\ index \in [Kinds -> 0 .. RegionSize]
  /\ reserve \in 0 .. RegionNum - 1 /\ held \in Null .. RegionNum - 1
  /\ emap \in [region : Int, marks : SUBSET Int]
  /\ pc \in {"idle", "find", "fault", "unmounted"}
  /\ req.kind \in Kinds /\ req.num \in 0 .. RegionSize
  /\ commit.next \in [Kinds -> Null .. (RegionNum + 1) * RegionSize]
  /\ commit.reserve \in 0 .. RegionNum - 1
  /\ owner \in [Sectors -> States]

(* A sector has its free bit, in RAM if a map holds its region and else in  *)
(* flash, exactly if its head is free; across turns of the maps and mounts. *)
MapsExact == \A s \in Sectors : Bit(s) <=> owner[s] = "free"

(* The two kinds never work in one region, and never past the reserve: the  *)
(* region in reserve and those after it are untouched.                      *)
RegionsDisjoint ==
  /\ region["dir"] # region["bfile"]
  /\ \A k \in Kinds : region[k] < reserve
  /\ \A s \in Sectors : RegionOf(s) >= reserve => owner[s] = "free"

(* The sector manager is a sector pool: what it hands out is unused, in one *)
(* region, and apart from the other kind.                                   *)
Pool == INSTANCE NF2FSSectorPool

PoolSpec == Pool!Spec

(* A request is answered, with sectors or with NOSPC, when the regions have  *)
(* been searched (NF2FS_manage.c:762: "We have scanned all regions but not   *)
(* find").  Without OneScan it does not hold (SectorsEnd.cfg): nothing turns *)
(* the search back at the last region, and it stops with an assertion.       *)
AllocEnds == pc = "find" ~> pc = "idle"

(* A sector in use changes hands only by being given back                   *)
(* (NF2FS_manage.c:675: "Looped to find the next used region").             *)
NoDoubleAllocation ==
  [][\A s \in Sectors : owner[s] \in Kinds => owner'[s] \in {owner[s], "old"}]_vars

(* After an unmount the erase map marks exactly the sectors given back      *)
(* (NF2FS_manage.c:866: "Set sectors in erase map to 0 so they can reuse"). *)
EraseMapExact ==
  pc = "unmounted" => Sectors \ eraseMap = {s \in Sectors : owner[s] = "old"}
=============================================================================
