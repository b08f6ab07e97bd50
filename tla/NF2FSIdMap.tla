------------------------------ MODULE NF2FSIdMap ------------------------------
(***************************************************************************)
(* The id manager of NF2FS: NF2FS_manage.c:943-1191, the bitmap helpers it *)
(* uses (ram_map_change, find_in_map), and the part of mount and unmount   *)
(* that saves and restores its position (NF2FS.c:488, NF2FS_manage.c:1600).*)
(*                                                                         *)
(* The map lives in one flash sector as GENERATIONS.  A generation is a    *)
(* free map of IdMax bits followed by a remove map of IdMax bits; a bit is *)
(* 1 until it is programmed.  Bits are numbered from the start of their    *)
(* generation, so bit id is "id is free" and bit IdMax + id "id has not    *)
(* been removed"; flash[g] is the set of bits of generation g that are 1.  *)
(* RAM holds one region of the free map, IdsInBuffer bits.                 *)
(*                                                                         *)
(* id_alloc is a loop: one step below is one pass of it.  NF2FS runs one   *)
(* operation at a time, so no other action runs while it loops.            *)
(***************************************************************************)
EXTENDS Integers, FiniteSets

CONSTANTS
  RegionCnt,    \* cfg->region_cnt, the number of regions of the map
  IdsInBuffer,  \* ids per region, NF2FS_ID_MAX / region_cnt
  Generations,  \* generations that fit in a sector: sector_size / (2 * ID_MAX / 8)
  Orderly       \* TRUE: unmount only in the states named by OrderlyUnmount

IdMax     == RegionCnt * IdsInBuffer
Ids       == 0 .. IdMax - 1
Positions == 0 .. 2 * IdMax - 1

ASSUME RegionCntAssumption   == RegionCnt \in Nat \ {0}
ASSUME IdsInBufferAssumption == IdsInBuffer \in Nat \ {0, 1}
ASSUME GenerationsAssumption == Generations \in Nat \ {0}
ASSUME OrderlyAssumption     == Orderly \in BOOLEAN

VARIABLES
  flash,    \* flash[g]: the bits of generation g that are still 1
  gen,      \* id_map->off, as a generation number
  region,   \* free_map->region
  buffer,   \* free_map->buffer: the bits of the region that are 1 in RAM
  index,    \* free_map->index_or_changed: where the next search starts
  freeNum,  \* free_map->free_num
  pc,       \* "idle", "alloc" (inside id_alloc), "fault" or "unmounted"
  flagReg,  \* id_alloc's flag_region
  turns,    \* regions this id_alloc has turned to
  superGen, \* the generation the superblock's ID_MAP record names
  torn,     \* a record that is not an ID_MAP record follows it
  commit,   \* next_id of the COMMIT record
  live,     \* ids held by the superblock, the root, files and directories
  retired   \* ids freed since the current generation was written

ramVars   == <<region, buffer, index, freeNum>>
allocVars == <<pc, flagReg, turns>>
superVars == <<superGen, torn, commit>>
poolVars  == <<live, retired>>
vars == <<flash, gen, ramVars, allocVars, superVars, poolVars>>

-----------------------------------------------------------------------------
(* ram_map_change: the bits of region r as flash holds them. For r past the *)
(* last region the bytes read are those of the remove map.                  *)
RegionBits(f, r) == {p \in f : p \div IdsInBuffer = r}

(* Mutant of Load: the whole map is counted, not the region. *)
LoadCountsAll(f, r) ==
  /\ region'  = r
  /\ buffer'  = RegionBits(f, r)
  /\ index'   = 0
  /\ freeNum' = Cardinality(f)

(* Mutant of Load: the search index is not reset. *)
LoadKeepsIndex(f, r) ==
  /\ region'  = r
  /\ buffer'  = RegionBits(f, r)
  /\ index'   = index
  /\ freeNum' = Cardinality(RegionBits(f, r))

Load(f, r) ==
  /\ region'  = r
  /\ buffer'  = RegionBits(f, r)
  /\ index'   = 0
  /\ freeNum' = Cardinality(RegionBits(f, r))

(* find_in_map with num = 1: the bits at or after the search index. *)
Candidates == {p \in buffer : p % IdsInBuffer >= index}

(* id_direct_prog: programming a byte clears bits and never sets one. *)
Program(g, p) == flash' = [flash EXCEPT ![g] = @ \ {p}]

(* Mutants of Merged: ids given back are forgotten; ids in use come back. *)
MergedForgets(f) == {id \in Ids : id \in f /\ IdMax + id \in f}
MergedNotRemoved(f) == {id \in Ids : IdMax + id \in f}

(* XNOR of the free and the remove map: the ids that are free in the next   *)
(* generation.                                                              *)
Merged(f) == {id \in Ids : (id \in f) <=> (IdMax + id \in f)}

(* The new generation is erased flash; only its free map is programmed. *)
NextGeneration(f, new) == new \ {id \in Ids : id \notin Merged(f)}

-----------------------------------------------------------------------------
(* State after format: ids 0 (superblock) and 1 (root) are allocated. *)
Init ==
  /\ flash = [g \in 1 .. Generations |->
                IF g = 1 THEN Positions \ {0, 1} ELSE Positions]
  /\ gen = 1
  /\ region = 0
  /\ buffer = RegionBits(Positions \ {0, 1}, 0)
  /\ index = 2
  /\ freeNum = Cardinality(RegionBits(Positions \ {0, 1}, 0))
  /\ pc = "idle" /\ flagReg = 0 /\ turns = 0
  /\ superGen = 1 /\ torn = FALSE /\ commit = 0
  /\ live = {0, 1} /\ retired = {}

(* id_alloc is entered: create_file, create_dir. *)
AllocBegin ==
  /\ pc = "idle"
  /\ pc' = "alloc" /\ flagReg' = region /\ turns' = 0
  /\ UNCHANGED <<flash, gen, ramVars, superVars, poolVars>>

(* The region has a free id: take the first one, program its bit, return. *)
AllocFind ==
  /\ pc = "alloc" /\ freeNum > 0
  /\ \E id \in Candidates :
       /\ \A other \in Candidates : id <= other
       /\ buffer' = buffer \ {id}
       /\ index' = (id % IdsInBuffer) + 1
       /\ Program(gen, id)
       /\ live' = live \cup {id}
  /\ freeNum' = freeNum - 1
  /\ pc' = "idle"
  /\ UNCHANGED <<gen, region, flagReg, turns, superVars, retired>>

(* The next region is the one the search started in: NF2FS_ERR_NOID. *)
AllocNoId ==
  /\ pc = "alloc" /\ freeNum = 0
  /\ region + 1 = flagReg
  /\ pc' = "idle"
  /\ UNCHANGED <<flash, gen, ramVars, flagReg, turns, superVars, poolVars>>

(* Mutant of AllocTurn: the last region is not noticed. *)
AllocTurnOn ==
  /\ pc = "alloc" /\ freeNum = 0
  /\ region + 1 # flagReg
  /\ Load(flash[gen], region + 1)
  /\ turns' = turns + 1
  /\ UNCHANGED <<flash, gen, pc, flagReg, superVars, poolVars>>

(* Turn to the next region of this generation. *)
AllocTurn ==
  /\ pc = "alloc" /\ freeNum = 0
  /\ region + 1 # flagReg /\ region + 1 # RegionCnt
  /\ Load(flash[gen], region + 1)
  /\ turns' = turns + 1
  /\ UNCHANGED <<flash, gen, pc, flagReg, superVars, poolVars>>

(* idmap_change inside the sector, then region 0 of the new generation.     *)
(* The record meant for the superblock is programmed from the address of    *)
(* the pointer (&addr), so what lands there is no ID_MAP record.            *)
AllocRenew ==
  /\ pc = "alloc" /\ freeNum = 0
  /\ region + 1 # flagReg /\ region + 1 = RegionCnt
  /\ gen < Generations
  /\ gen' = gen + 1
  /\ flash' = [flash EXCEPT ![gen + 1] = NextGeneration(flash[gen], @)]
  /\ Load(NextGeneration(flash[gen], flash[gen + 1]), 0)
  /\ turns' = turns + 1
  /\ torn' = TRUE
  /\ retired' = {}
  /\ UNCHANGED <<pc, flagReg, superGen, commit, live>>

(* idmap_change with the sector used up: sector_alloc stores through the    *)
(* NULL etimes it is given, and the system stops.                           *)
AllocFault ==
  /\ pc = "alloc" /\ freeNum = 0
  /\ region + 1 # flagReg /\ region + 1 = RegionCnt
  /\ gen = Generations
  /\ pc' = "fault"
  /\ UNCHANGED <<flash, gen, ramVars, flagReg, turns, superVars, poolVars>>

(* file_delete and dir_delete give an id back. *)
Free(id) ==
  /\ pc = "idle"
  /\ id \in live \ {0, 1}
  /\ id < IdMax
  /\ Program(gen, IdMax + id)
  /\ live' = live \ {id}
  /\ retired' = retired \cup {id}
  /\ UNCHANGED <<gen, ramVars, allocVars, superVars>>

-----------------------------------------------------------------------------
(* superblock_change writes a fresh superblock, its ID_MAP record included. *)
SuperblockChange ==
  /\ pc = "idle"
  /\ superGen' = gen /\ torn' = FALSE
  /\ UNCHANGED <<flash, gen, ramVars, allocVars, commit, poolVars>>

NextId == region * IdsInBuffer + index

(* The unmounts that leave a map mount can restore: the last region is not  *)
(* consumed to its last bit, and the superblock names the current map.      *)
OrderlyUnmount == NextId < IdMax /\ superGen = gen /\ ~torn

Unmount ==
  /\ pc = "idle"
  /\ Orderly => OrderlyUnmount
  /\ commit' = NextId
  /\ pc' = "unmounted"
  /\ UNCHANGED <<flash, gen, ramVars, flagReg, turns, superGen, torn, poolVars>>

(* mount: the ID_MAP record gives the generation, the COMMIT record the     *)
(* region. A torn record is either skipped or makes mount give up.          *)
Mount ==
  /\ pc = "unmounted"
  /\ gen' = superGen
  /\ Load(flash[superGen], commit \div IdsInBuffer)
  /\ pc' \in IF torn THEN {"idle", "fault"} ELSE {"idle"}
  /\ UNCHANGED <<flash, flagReg, turns, superVars, poolVars>>

Next ==
  \/ AllocBegin \/ AllocFind \/ AllocNoId \/ AllocTurn \/ AllocRenew \/ AllocFault
  \/ \E id \in live : Free(id)
  \/ SuperblockChange \/ Unmount \/ Mount

Spec == Init /\ [][Next]_vars

-----------------------------------------------------------------------------
TypeOK ==
  /\ flash \in [1 .. Generations -> SUBSET Positions]
  /\ gen \in 1 .. Generations /\ superGen \in 1 .. Generations
  /\ region \in 0 .. RegionCnt
  /\ buffer \subseteq Positions
  /\ index \in 0 .. IdsInBuffer
  /\ freeNum \in 0 .. IdsInBuffer
  /\ pc \in {"idle", "alloc", "fault", "unmounted"}
  /\ flagReg \in 0 .. RegionCnt /\ turns \in Nat
  /\ torn \in BOOLEAN /\ commit \in 0 .. IdMax + IdsInBuffer
  /\ live \subseteq Positions /\ retired \subseteq Ids

(* The RAM copy of a region never drifts from flash: id_alloc programs both *)
(* sides and id_free only the remove map, so the buffer is what flash holds,*)
(* free_num counts it, and no free bit lies before the search index, which  *)
(* is why find_in_map succeeds whenever free_num > 0 (NF2FS_manage.c:1146). *)
RamMapExact ==
  pc \in {"idle", "alloc"} =>
    /\ buffer = RegionBits(flash[gen], region)
    /\ freeNum = Cardinality(buffer)
    /\ \A p \in buffer : p % IdsInBuffer >= index

(* The two bits of an id in the current generation say what became of it:  *)
(* held, given back, or never used since the last renewal.  No id leaks     *)
(* out of the three cases, across idmap_change and across mounts.           *)
MapEncodesPool ==
  /\ \A id \in Ids :
       /\ id \in live    <=> (id \notin flash[gen] /\ IdMax + id \in flash[gen])
       /\ id \in retired <=> (id \notin flash[gen] /\ IdMax + id \notin flash[gen])
       /\ id \in flash[gen] => IdMax + id \in flash[gen]
  /\ \A g \in gen + 1 .. Generations : flash[g] = Positions

(* NF2FS_ID_MAX bounds every id ever handed out (NF2FS.h:90-96). *)
IdsInRange == live \subseteq Ids

(* The id manager is an id pool: no id is handed out while it is held or    *)
(* retired, and only a renewal of the map brings retired ids back.          *)
Pool == INSTANCE NF2FSIdPool

PoolSpec == Pool!Spec

(* "if we have scanned the whole bitmap without useful id, failed"          *)
(* (NF2FS_manage.c:1160): NOID is returned only when no id is free.         *)
NoIdMeansNoneFree ==
  [][(pc = "alloc" /\ pc' = "idle" /\ live' = live)
       => Ids \cap flash[gen] = {}]_vars
=============================================================================
