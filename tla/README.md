# A TLA+ verification project for NF2FS

NF2FS is a file system for NOR flash, written in C. Its implementation is
`src/NF2FS_code/`; `src/emulated_environment/normal_test/` builds a copy of it
against a simulated flash and a benchmark, and `src/board_environment/` holds
the vendored code of the evaluation board. This project models the parts of
NF2FS that decide which flash is used for what and what survives a stop, checks
them with TLC on small instances and proves the main results with TLAPS for
every size.

NF2FS runs one operation at a time: there are no threads, callbacks or
interrupts. What is hard in it is not concurrency. It is long sequences of legal
operations that end in a bad state, RAM copies of flash maps that must not
drift, boundaries (the last region, the last sector of a region, the last
generation of a map), and power lost between two flash programs.

## Inventory

NOR flash is programmed by clearing bits; only erasing a whole sector sets them
again. The usual configuration has 8192 sectors of 4096 bytes in 128 regions of
64 sectors, 8192 ids, a cache of 256 bytes, and maps whose RAM copy covers one
region.

| Component | Code | State | Operations | Correct when |
|---|---|---|---|---|
| Id manager | `NF2FS_manage.c:943-1191` | id map sector: generations of a free map and a remove map; one region of the free map in RAM, its search index and count | `id_alloc`, `id_free`, `idmap_change` | an id is held by one owner; ids come back only when the map is renewed; RAM agrees with flash |
| Sector manager | `NF2FS_manage.c:156-935`, `NF2FS_rw.c:784-970` | free map and erase map in flash; a free map per kind (directory, big file), the erase map and `reserve_map` in RAM; region map | `sector_alloc`, `sectors_find`, `sector_nextsmap`, `emap_set`, `smap_flush`, `sequen_sector_old`, `sector_erase` | no sector in use is handed out; the kinds stay in regions of their own; given-back sectors reach the erase map |
| Superblock, mount, unmount | `NF2FS.c:145-538`, `NF2FS_rw.c:477-779`, `NF2FS_manage.c:1594-1693` | two superblock sectors, each a head and a log of records; the position in RAM | `format`, `mount`, `unmount`, `prog_in_superblock`, `superblock_change` | mount finds what was written last; a crash is told from an orderly stop |
| Directory log and GC | `NF2FS_dir.c`, `NF2FS_rw.c`, `NF2FS.c:905-1032` | per directory a chain of sectors with a log of names, small-file data and big-file indexes; a count of old space; a handle's place in a listing | `dir_prog`, `dir_update`, `dir_gc`, `data_delete`, `dir_read`, the `dtraverse_*` functions | the log names each live file once; GC loses nothing; open handles follow moved data; a listing is complete and ends |
| Files | `NF2FS_file.c`, `NF2FS_rw.c:884-1131` | small file: its data in a cache and one entry in the directory log; big file: an index of (sector, offset, size) there | read, append, rewrite, `bfile_gc`, `bfile_sector_old` | a read returns what was written; no sector with live bytes is given back; index sizes add up |
| Open file and directory lists | `NF2FS_file.c`, `NF2FS_dir.c`, `NF2FS.c` | linked lists of at most 5 files and 10 directories | open, close, delete | one handle per open object; the limits hold |
| Tree and path lookup | `NF2FS_tree.c` | eight entries for directories, without replacement | `tree_entry_add`, `father_dir_find`, `father_dir_flash_find` | a cached entry agrees with flash; a path leads to one thing |
| Caches | `NF2FS_rw.c:38-523` | `pcache`, `rcache` | `cache_read`, `cache_prog`, `cache_flush`, `direct_prog` | a read sees the last program |
| Heads | `NF2FS_head.c`, `NF2FS.h` | bit fields | checks and state changes | a state only moves forward |
| Wear levelling | `NF2FS_manage.c:1200-1496` | heaps of region wear | `wl_*`, `global_region_migration` | never runs, see below |
| Bridge, simulator, board | `NF2FS_brigde.c`, `src/emulated_environment`, `src/board_environment` | | wrappers, tests, vendored code | not modelled |

How they interact: a file operation resolves its path in the tree and in the
directory logs. A create takes an id from the id manager and programs a name
into the father's log; a full log takes a sector from the sector manager, or is
collected. Data goes to the log (small files) or to a run of sectors (big
files). The two managers keep a map region in RAM and rely on `unmount` to put
their position into the superblock's COMMIT record, and on `mount` to take it
back (`init_with_commit`). Renewing the id map, moving the root directory and
unmounting program records into the superblock, and a full superblock is
replaced by the other sector. `PROJECT.json` lists every hazard we know of at
its line, with the property that covers it or the reason why none does yet.

## The modules

| Module | What it is |
|---|---|
| `NF2FSIdPool` | abstract specification of the id manager |
| `NF2FSIdMap` | the id manager; refines `NF2FSIdPool` |
| `NF2FSIdMap_proofs` | its theorems |
| `NF2FSSectorPool` | abstract specification of the sector manager |
| `NF2FSSectors` | the sector manager; refines `NF2FSSectorPool` |
| `NF2FSSectors_proofs` | its theorems |
| `NF2FSSuper` | superblock, format, mount, unmount, crashes |
| `NF2FSSuper_proofs` | its theorems |
| `NF2FSLog` | abstract specification of a directory sector behind the caches |
| `NF2FSCache` | write cache and read cache under the directory layer; refines `NF2FSLog` |
| `NF2FSCache_proofs` | its theorems |
| `NF2FSByteFile` | abstract specification of a file: a sequence of bytes |
| `NF2FSBigFile` | the data of one file, small or big; refines `NF2FSByteFile` |
| `NF2FSBigFile_proofs` | its theorems |
| `NF2FSNames` | abstract specification of a directory: names and what was saved under them last |
| `NF2FSDirLog` | a directory's log with its open files and its GC; refines `NF2FSNames` |
| `NF2FSDirLog_proofs` | its theorems |
| `MCDirLog` | the same for TLC, with the symmetry of the files |
| `NF2FSTree` | directories in directories: paths, the tree in RAM, the open lists, remounting |
| `NF2FSTree_proofs` | its theorems |
| `MCTree` | the same for TLC: symmetry of names and ids, names that begin with others |
| `NF2FSDirRead` | listing a directory while it changes |
| `NF2FSDirRead_proofs` | its theorems |

How the parts fit: `NF2FSIdMap` and `NF2FSSectors` are the two managers, `NF2FSSuper`
what keeps their position. `NF2FSCache` shows that a directory sector behind its
caches is a log of entries; `NF2FSDirLog`, `NF2FSDirRead` and `NF2FSTree` take that
log as their sector, each with what its own questions tell apart: entries and
lengths of one directory, places in it, or names across directories.
`NF2FSBigFile` takes runs of sectors as `NF2FSSectorPool` promises them, and its
index is one entry of `NF2FSDirLog`.

The small constants are given in the `.cfg` files directly. Each module holds,
next to a definition, the mutants of it that the properties have to notice
(`LoadKeepsIndex` next to `Load`); nothing else refers to them.

**`NF2FSIdMap`.** `flash[g]` is the set of bits of generation `g` that are still
1; bit `id` says "free" and bit `IdMax + id` "not removed". `region`, `buffer`,
`index` and `freeNum` are the fields of `free_map`. `id_alloc` is a loop, and
one action is one pass: the region has a free id (`AllocFind`), the search gives
up (`AllocNoId`), the next region is loaded (`AllocTurn`), the map is renewed
(`AllocRenew`), or the sector has no room for another generation (`AllocFault`:
`sector_alloc` then stores through a NULL pointer, and the program stops). No
other action runs while it loops. `Free` is `id_free`. `SuperblockChange`,
`Unmount` and `Mount` are the parts of those functions that save and restore the
map's place. The record `idmap_change` programs into the superblock comes from
the address of a pointer: `torn` stands for what it leaves there. A renewal
clears nothing in the old generation; it programs the complement of `Merged`
into the erased one.

**`NF2FSSectors`.** `freeMap` and `eraseMap` are the flash maps; `region[k]`,
`bits[k]`, `index[k]` are the RAM map of kind `k`, `scanAt[k]` is `dir_index` or
`bfile_index`, `reserve` the next region to claim, `held` the region of
`reserve_map`, and `owner` what the sector heads say. `AllocBegin` enters
`sectors_find`; `AllocFind` takes the first run and writes its heads, erasing
sectors that were used before; `AllocNext` flushes the map and either claims the
region in reserve (`Claim`) or, when none is left, takes the next one (`Steal`).
`Free` is `sequen_sector_old` and `dir_old`, with the whole of `emap_set`.
Integer overflow plays no part except that `NF2FS_NULL + 1` is 0, which `Null ==
-1` keeps.

**`NF2FSSuper`.** `super[s]` is the head, the `extend` counter and the record log
of sector `s`; a record is "torn" until its written flag is programmed. `pc`
names the flash program that comes next, so `Crash` may fall between any two of
them. `Begin` is the choice `prog_in_superblock` makes; `EraseOther`, `ProgHead`,
`ProgBasic` and `ValidateHead` are `superblock_change`; `RootMoves` is
`dir_update` on the root; `saved` tells whether maps and data in RAM have reached
flash. `newest` and `root` are history variables.

**`NF2FSCache`.** A sector is a row of cells and a cell the set of marks
programmed into it, so `cfg->prog` is union. `pcache` and `rcache` have the
fields of the C structs; `tail[s]` is the `tail_off` of the directory whose tail
sector is `s`. `DirProg` is `dir_prog` with room in the sector (through
`CacheProg` or `DirectProg`), `Delete` is `data_delete`, `Read` the
`read_to_cache` of a traversal, `Flush` what close and unmount do, `Forget` the
reset of `rcache`. `Synced` and `Marked` are the two halves of
`dprog_cache_sync`. A cache operation maps a record of flash and both caches to
the next one, so that the flush inside a program is part of it.

**`NF2FSBigFile`.** `data` is the file cache of a small file and `index` that of a
big one; `flash` holds bytes that say which position they are meant for, so that
a byte in the wrong place is seen. `Write` is `file_write` at a position
`file_seek` allows: `SmallWrite`, `SmallToBig` (`s2b_file_write`), and `BigWrite`
with the garbage collection it begins with (`Candidates`, `Best`, `Merged`) and
then `BigAppend`, `RewriteEnd` or `RewriteInside`, the three ways through
`big_file_append` and `big_file_rwrite`. `SectorsOf` is the loop of
`bfile_sector_old`, `PastFirst`, the `gone` and `old` of `RewriteInside` are the
corrections the code makes before it calls it, and `Shifted` is the loop that
moves the rest of the index. `FileRead` is `file_read` with `index_read_once` as
it is. Assertions that fail are a `fault`, and the program stops.

**`NF2FSDirLog`.** `flash[s]` is the sequence of entries of a sector that is in use,
`chain` the directory's sectors from the tail on, `oldSpace` and `list` the fields of
`dir_list` and `file_list`. `sector_alloc` always finds a sector, and which one it
is makes no difference: those of a chain are all odd or all even, and a GC changes
from one to the other, so that its new sectors are never those it reads. `Programmed`
is `dir_prog`, which may collect the directory (`Collected`, which is `dir_gc` with
`dtraverse_gc` in `Moved`) before it opens another sector; so every action that saves
something may move everything. A traversal of the GC (`Traversal`) keeps the offset it
has reached and where the two caches begin, because `dtraverse_gc` compares them with
each other: an index goes over to the new chain only if it ends before the place of the
*write* cache plus the length of the window (`Reached`), and is otherwise programmed
back into the sector that is about to be given up (`LeftBehind`). `tailOff` is
`tail_off`, which need not be the end of the log: `OpenDir` takes it from the end of the
oldest sector, as `dtraverse_ospace` does, and lets a record of old space replace what
was counted in newer sectors (`Counted`). A program over the log is a `fault`. `Deleted` is `data_delete`. A handle remembers the places of its name
and data, and the length the head in its cache gives (`len`), which is not
always the length the data has now (`size`). The flush of a file inside the
garbage collection of its index is `Sync` followed by `Write`.

**`NF2FSTree`.** `log[d][s]` is the sequence of live names in sector `s` of directory
`d`; a directory's tail is the number of its last sector, which is kept in four
places: `super` or the name in the father's log, the tree and the handle. Which
directories are full is chosen when an operation begins (`full`). `dir_prog` and
`dir_update` call each other up to the root; `Programmed` keeps their calls on a
stack (`calls`) and runs it to its end. A pass finds the sector of the last call
full (`Extended`: a new sector, and the call of `dir_prog` that `dir_update` makes
for the father) or programs its names and returns (`Written`). No directory is
extended twice, so that twice the number of full directories and one are enough
passes. `Resolved` is `father_dir_find`, which follows a path through the tree
(`Followed`), and `Missed` is `father_dir_flash_find`, which looks in flash for the
first name that is missing until the tree is full or nothing is found
(`Sought`). `Remount` is `unmount`, with the files that are dirty, followed by
`mount`.

**`NF2FSDirRead`.** `pos` is the place a handle keeps between calls of `dir_read`;
`Call` begins a call and each pass of its loop is an action, of which `Return` and
`NoMore` end it. Between calls the directory changes: `Create`, `Save`, `Delete`,
`Move` (a subdirectory's name programmed again by `dir_update`). `got` counts what
the listing has returned and `still` holds the names that have been there since it
began; both are history variables.

## The runs

| Run | Instance | Shows |
|---|---|---|
| `id_map` | 2 regions of 3 ids, 3 generations, orderly unmounts | RAM map exact, the two bits of each id tell its fate, ids bounded, implements the pool |
| `sectors` | 5 regions of 2 sectors, first scan, room at unmount | maps agree with heads, kinds apart, implements the pool |
| `super` | 4 records per sector, 4 versions, 7 root moves | no COMMIT while up, mounts work on the newest superblock |
| `cache` | 2 sectors of 13 cells, caches of 8, heads of 2, entries of 3, 4 and 8 | pcache holds the end of a log, rcache is coherent, each sector is a log |
| `big_file` | 4 sectors of 5 cells, 2 per region, files of at most 4 bytes, GC from 3 entries on | live bytes stay in sectors that are held, entries share no sector and add up, implements a sequence of bytes |
| `dir_log` | 2 files, sectors of 4 cells, caches of 4, GC from one sector of old space on; no file open and no index left behind in a GC, closed with one sector | one live name and one live entry of data per file, places in handles true, what is deleted is counted, implements the names |
| `tree` | 2 names, 4 ids, paths of 2 names, 2 sectors per directory, 3 slots | the tails agree, ids name one thing, open files can be flushed and deleted, no file twice |
| `dir_read` | 3 names, 2 sectors of up to 3 entries, entries that fit the window and one that is cut | what stays is listed once, and calls return |
| `sectors_full_region` | 4 regions of 2, unmount in any state | sectors in use are handed out again after a mount |
| `super_root` | 5 records, 8 versions, 7 moves | an older root record is mounted after an orderly stop |
| `big_file_append` | as `big_file`, any append | an append over the end of a sector writes other bytes than it was given |
| `tree_remount` | as `tree` | after a mount a directory is created a second time |

The last four check one property each, which the code violates; `PROJECT.json`
"findings" quotes the comment that states it. The others pass. To run one:
`tlc -config IdMap.cfg NF2FSIdMap`.

**Further configurations.** These are kept beside the runs, and TLC finds the
property they name violated. Each is a defect of its own, or shows that an
assumption of a passing run is needed.

| Configuration | Module | Property | What it shows |
|---|---|---|---|
| `IdMapNoId.cfg` | `NF2FSIdMap` | `NoIdMeansNoneFree` | `NF2FS_ERR_NOID` with free ids left (`NF2FS_manage.c:1162`) |
| `IdMapRange.cfg` | `NF2FSIdMap` | `IdsInRange` | without `Orderly`, ids from `NF2FS_ID_MAX` on are handed out (`:1600`) |
| `SectorsScan.cfg` | `NF2FSSectors` | `NoDoubleAllocation` | without `OneScan`, a region is taken whichever kind owns it (`:677`) |
| `SectorsEnd.cfg` | `NF2FSSectors` | `AllocEnds` | without `OneScan`, a search with no region in reserve runs past the last region into an assertion, where `NF2FS_ERR_NOSPC` is meant (`:678`, `:748`) |
| `SectorsErase.cfg` | `NF2FSSectors` | `EraseMapExact` | the first batch given back after a mount never reaches the erase map (`:887`) |
| `SuperSelect.cfg` | `NF2FSSuper` | `SelectsNewest` | the older of two whole superblocks is selected (`NF2FS_rw.c:579`) |
| `SuperFlush.cfg` | `NF2FSSuper` | `CommitMeansSaved` | a COMMIT record in flash although maps and data were lost (`NF2FS.c:521`) |
| `BigFileRead.cfg` | `NF2FSBigFile` | `ReadsBack` | a read that begins past the first sector of an entry loses count of the heads between (`NF2FS_file.c:388`) |
| `BigFileRewrite.cfg` | `NF2FSBigFile` | `LiveTaken` | without `RewritesApart`, a rewrite within one sector gives that sector back (`:740`) |
| `DirGc.cfg` | `MCDirLog` | `OneEntry` | without `QuietGc`, a flush that starts a GC leaves two live entries of a file's data (`NF2FS_rw.c:1045`) |
| `DirGcIndex.cfg` | `MCDirLog` | `NamesSpec` | without `IndexesMove`, a GC that the creation of a file starts leaves the index of another, closed file in its old sector, and the file loses its data (`NF2FS_dir.c:569`) |
| `DirClose.cfg` | `MCDirLog` | `DeadCounted` | without `ShortClosed`, the record in an older sector replaces the old space that newer ones counted (`NF2FS_dir.c:732`) |
| `DirReopen.cfg` | `MCDirLog` | `NoFault` | a file that never had data fails an assertion when it is opened again, and may when it is deleted (`NF2FS.c:702`) |
| `TreeDelete.cfg` | `MCTree` | `IdsExact` | without `EmptyOnly`, ids of what was in a deleted directory are lost (`NF2FS.c:874`) |
| `TreeFull.cfg` | `MCTree` | `TailsAgree` | without `RoomInTree`, a directory that found the tree full cannot move its tail (`NF2FS_tree.c:99`) |
| `TreeFree.cfg` | `MCTree` | `NoFault` | closing any file but the last one opened, or deleting the last directory opened, stops the program (`NF2FS_dir.c:26`, `NF2FS_file.c:18`) |
| `TreePrefix.cfg` | `MCTree` | `FilesReachable` | a name that begins another opens the other's file (`NF2FS_dir.c:140`) |
| `DirReadLong.cfg` | `NF2FSDirRead` | `CallsReturn` | a name entry longer than the cache is read for ever (`NF2FS.c:961`); with `name_max` 255 and a cache of 256 there are such names |
| `DirReadMoves.cfg` | `NF2FSDirRead` | `ListedAll` | without `StillDirs`, a subdirectory that gets a sector moves behind the reader and is left out |

**Why the bounds are enough.** Two id regions have a first and a last one, and a
search that starts in either; three ids make a first, an inner and a last bit,
and leave one that is neither the superblock's nor the root's in region 0; three
generations give a renewal of a renewed map and the exhausted sector. Five
sector regions are the metadata region, one the directory has from format, two
to be claimed and the one that stays in reserve; two sectors per region give runs
that fit, runs that do not, and a region full and half full. Four records fill a
superblock within a session, four versions make `extend` wrap after two changes
of a sector, and seven root moves are enough for several changes. In the cache,
entries of 3 and 4 cells give two that fill it and two that leave a gap, 8 is the
smallest that bypasses it, windows begin before, in and at the write cache, cut
heads, and are shortened by the end of the sector; two sectors make the cache
change hands. Sectors of a file hold three bytes, so that four bytes take a run of
two, entries end at and before the end of a sector, and three entries come about
and are collected; a write that asks for more than a region, a file cache without
room for two entries, and a rewrite that removes entries from a longer index do
not come about there. In `dir_log` an entry of data is 1 or 2 cells and a sector has
three, so that sectors end full or not, and `MaxOldSpace` is passed only after
several collections. Two names in two sectors give a directory
that is looked for in the newer, the older and no sector; four ids are the root,
two directories and a file, or one and two, and three slots are taken up by the root
and two directories, so that a lookup meets a full tree. Three names make a listing go over a
file, a name that is deleted while it is listed, and a subdirectory; entries of 2
and 5 of a window of 6 are in it, or cut by it only behind a sector's head. The
proofs below remove these bounds from the safety properties of the passing runs of
the managers, the superblock, the caches, the files, the directory log, the tree and
the listing.
`CHECK_DEADLOCK FALSE` is set where the program really stops: a fault, or a
device that refuses to mount after a crash.

**Assumptions of the passing runs.** These restrict the environment, and each is
shown to be necessary by a run or a configuration without it:

- `Orderly`: unmount happens only when the id map is not consumed to its last
  bit and the superblock names its current generation (`IdMapRange.cfg`);
- `OneScan`: a request is made only while regions remain in reserve or the map
  in RAM can serve it (`SectorsScan.cfg`);
- `RoomAtStop`: unmount happens only when no map in RAM is used to its last
  sector (`sectors_full_region`);
- `AppendsFit`: an append that goes on in a new run begins at the end of a sector,
  and the run does not follow the last entry directly (`big_file_append`);
- `RewritesApart`: a rewrite inside one sector does not leave bytes on both sides
  of it there, and moves no entries of the index over each other
  (`BigFileRewrite.cfg`);
- `QuietGc`: a directory is collected only while none of its files is open
  (`DirGc.cfg`). The code promises nothing of the kind, and it cannot be weakened much:
  any GC with a file open leaves the place of its name stale in the handle, and a later
  deletion then marks whatever is there;
- `IndexesMove`: a GC meets no index that it would leave behind (`DirGcIndex.cfg`);
- `ShortClosed`: a directory is closed only while it has one sector (`DirClose.cfg`);
- `EmptyOnly`: only empty directories are deleted (`TreeDelete.cfg`);
- `RoomInTree`: a directory is created only while the tree has a free slot
  (`TreeFull.cfg`);
- in `tree`, no name begins with another (`Begins` is empty; `TreePrefix.cfg`);
- `StillDirs`: no subdirectory gets a new sector during a listing
  (`DirReadMoves.cfg`), and no entry is longer than the cache (`DirReadLong.cfg`).

`NF2FSDirRead` also assumes that an entry that is no name does not end within a head
of the window's end (`OverrunAssumption`): `dir_read` then takes a head from behind
its buffer (`NF2FS.c:1027`).

**Fairness.** `NF2FSSectors` assumes weak fairness of the passes of
`sectors_find`, no more: a single-threaded loop that can take another pass takes
it. No operation has to be called. `AllocEnds` (a request is answered) is then a
statement about the loop itself; it is not a property of the passing run, where
`OneScan` makes it true by the choice of requests, and `SectorsEnd.cfg` refutes it for
any request. `NF2FSDirRead` does the same for the loop of
`dir_read` (`WF_vars(Pass)`), and `CallsReturn` says that a call that has begun
returns. The other modules state safety only: each of their operations is one step.

## What is proved

All theorems hold for every value of the constants that satisfies the named
assumptions, which say no more than that the sizes are positive and large enough
for format to succeed.

- **Id manager** (under `Orderly`). `TypeCorrect`, `RamMapNeverDrifts`,
  `NoIdLeaks`, `IdsBounded` and `ImplementsPool`. The invariants are inductive
  together, with two more parts: the region in RAM is one of the free map
  (`region < RegionCnt`), and while unmounted the COMMIT record lies inside the
  map and the superblock names its generation. Without the latter `Mount` could
  load anything. The heart is `AllocRenew`: from `MapEncodesPool` the XNOR of the
  two maps is exactly the set of ids not held.
- **Sector manager** (under `OneScan` and `RoomAtStop`). `TypeCorrect`,
  `MapsNeverDrift`, `KindsStayApart`, `ImplementsPool` and `NothingTakenTwice`.
  The strengthening says that a region in RAM holds its own kind only, that a RAM
  map is a part of the flash map of its region, that a pending request can be
  served by the first scan, and that what unmount leaves restores the regions.
  `NothingTakenTwice` states the very property that `sectors_full_region` and
  `SectorsScan.cfg` refute without the assumptions.
- **Superblock** (no assumption about the environment; crashes anywhere).
  `TypeCorrect`, `NoCommitWhileUp` and `MountsNewest`. Selection is wrong in
  general (`SuperSelect.cfg`), so `MountsNewest` needs an argument the code does not
  state: a valid COMMIT record exists in at most one place, the superblock
  validated last, and only when the system is down or about to be; as mount
  insists on finding one, choosing the older sector makes it fail instead of
  working on stale state. `CommitPlace`, `CommitOnce`, `SessionPlace`,
  `ErasedEmpty` and `RecordPending` carry it.
- **Caches** (no assumption about the environment). `TypeCorrect`,
  `PcacheHoldsTail`, `WindowsCoherent` and `ImplementsLog`, for any sectors, sizes of
  sector, cache and head, and lengths of entries. The argument is about the view of
  a reader: flash, and what waits in `pcache` as it will be once written. `Sound`
  says that the view is a log up to each tail with whole, written heads (`Logged`),
  that what waits is the end of one log and begins between two entries
  (`Waiting`), and that `rcache` agrees with the view (`Coherent`). A flush puts into
  flash what is seen anyway (`FlushedSound`); a program changes the view at the tail
  only (`CacheProgSound`, `DirectProgSound`); whoever changes the view tells `rcache` the
  same cells (`SyncedCoherent`). `ReadCoherent` needs both halves: a window that begins
  inside `pcache` begins with a whole head, and `pcache` never begins less than a head
  behind a window, so that `read_to_cache` never takes its branch for short overlaps.
- **Files** (under `AppendsFit` and `RewritesApart`). `TypeCorrect`, `LiveAreTaken`,
  `EntriesAddUp`, `NearReadsReturn` and `ImplementsFile`, for any sizes of sectors,
  heads, caches and files, an index of any length and any runs the sector manager
  returns. The cells for bytes are numbered through all sectors, and an entry is a
  stretch of these addresses (`Lin`, `CellIs`), so that a cut, a jump and a read are
  arithmetic. The file's bytes are a fold over the index, which is shown to be additive
  over concatenation and to depend on the sectors of its entries only
  (`BytesSame`). The strengthening, `Good`, says that the entries lie in sectors that
  are held, no two of them in one, and that nothing is programmed behind the last
  entry, or an append would clash with what is there. What is hard is
  `bfile_sector_old`: for a rewrite at the end, inside one entry, over several, and
  for the GC, the sectors it gives back must hold nothing of what stays to the
  left and to the right (`Keeps`, `InsideGiven`), while the new run is taken before
  them (`Placed`). `EntryAt` finds the entry of a position, and what stays, the new
  bytes and what stays again are the `Overlay` of the abstract file (`OverlayIs`).
- **Directory log** (`TypeCorrect`, `OneEntryOfEach`, `PositionsAreTrue` and
  `DeadAreCounted` under `QuietGc` and `ShortClosed`, `ImplementsNames` under
  `IndexesMove` besides), for any files, sizes of sectors, caches, entries and lists,
  and chains of any length. These are conditional results: the code guarantees none of
  the three assumptions, and the configurations above show what is lost without each.
  That what is left behind never doubles an entry or moves another is proved without
  `IndexesMove`. Two sums stand behind it: the length of
  a sector's entries, a fold over a sequence, and what is deleted in a directory, a
  sum over places in no order. Both are sums over finite sets (`SumsDefined`,
  `SumsAgree`), and change by the length of the one entry that is added or deleted
  (`LengthMore`, `MoreDead`, `LessDead`). A program adds one entry (`More`), in a new
  sector if need be, and a delete changes one (`Less`). For the GC, `Copies` says after
  each place the traversal passes that what is live of the places passed is in
  the new chain, once, or is an index left behind, and nothing else is; the three folds of `Moved` and
  `Collected` are unrolled by induction over the numbers for a set (`Induct`). `IInv`
  says of an open directory that it is `Good`: one name and one data entry of each file
  and no data without a name (`Sound`), every open file finds its own entries
  (`HandleOK`), and what is deleted has been counted. A closed directory has no
  count; it is one sector whose last entry is a record of at least what is deleted
  (`Closed`), or `OpenDir` could count too little. Each operation has its `...Step`
  lemma, which also says what it did to the names and versions the directory shows
  (`Shows`): that is the refinement.
- **Listing** (under `StillDirs`). `TypeCorrect`, `NothingListedTwice` and
  `NothingLeftOut`, for any names, lengths, sectors and any changes between calls.
  A name that stays has one live entry (`Unique`), which never moves; it has been
  returned if and only if the reader is past it (`Listing`). Before the first call
  nothing has been returned and no name is followed (`NotBegun`), entries that are
  added go to the tail, which the reader leaves behind when it turns to older
  sectors; when a call has said that there is no more, all that was there lies
  behind the reader (`AllBehind`), and a call is under way only in a sector
  (`Running`).
- **Tree and open lists** (under `EmptyOnly`, `RoomInTree` and an empty `Begins`).
  `TypeCorrect`, `TailsAlwaysAgree`, `IdsStayExact`, `FilesStayReachable` and
  `FilesStayOnce`, for any names, ids, slots, sectors and any directories that are
  full. Between operations none of the five holds by itself: that the tails agree
  needs that the tree has a slot for every open directory and for its father, since
  `dir_update` fails after it has moved the tail when one is missing; that a file is
  found again needs that the tail of its directory is the right one. `Good` says it
  together. It looks at the names a directory shows, those in its log and those
  which pending calls of `dir_prog` are about to write (`Shown`), since
  `dir_update` deletes a name before it programs it again. Of these,
  `Sound` says that an id is one name (`Unique`) and used if and only if it is one
  (`Exact`), that files differ in their names (`OneFile`), that a name knows the tail
  of its directory (`TailsTold`), that only directories hold names (`OnlyDirs`), that
  a slot is the name of a directory whose father has a slot, that an open directory
  has a slot, and that an open file is a name of an open directory. How an
  operation changes all this, whatever the log looks like, is a predicate
  (`SlotOpened`, `NameAdded`, `DirGone`, ...) with a lemma that `Sound` survives it;
  only a new sector changes the tail and the name of a directory together (`RootMoved`,
  `DirMoved`). `dir_prog` ends because twice the full directories and
  the pending calls (`Left`) become fewer with each pass (`AdvancedGood`), and then every
  name is in a log (`ProgrammedGood`); what the caller goes on to use is as before
  (`Kept`).

Only model-checked: `CallsReturn`, since liveness is out of the
prover's reach, and every violation. Every other property of a passing run is
proved. What a fold computes is proved by induction over the numbers
for a set, since the library's induction theorems take an operator, which the
provers cannot instantiate.

## What is not modelled

- Wear levelling: its entry points require `scan_times >= NF2FS_WL_START`, and
  the only code that raises `scan_times` is in `flash_smap_change`, whose only
  call cannot be reached because the test before it is always true.
- The map of region 0 and the region map in flash, which no choice depends on.
- `find_in_map` for regions of more than 64 sectors (three words or more), where
  it clears bits of the wrong word; no configuration has them.
- A flash program that is itself interrupted: one record, head or flag is
  programmed whole or not at all.
- Crashes in the two managers: after a crash NF2FS refuses to mount, which is
  what `NF2FSSuper` shows.
- The caches as scratch space of map renewal and `superblock_change`, and
  `cache_read`, which nothing calls. A head is cut or whole in a window, never
  written past the buffer. The bytes of the read buffer past a short window: near
  the end of a sector they may be older data that a traversal takes for a head;
  the directory modules read entries as `NF2FSLog` has them.
- Superblock records other than the root's and COMMIT, which only take room, and
  a superblock without any root record, which mounts but has no usable root.
- Garbage collection of a directory with subdirectories: `dtraverse_gc` updates the
  entry of the directory itself instead of the one it moves (`NF2FS_dir.c:617`), and
  `dir_update` empties the read cache the traversal is reading from
  (`NF2FS_dir.c:974`). `NF2FSDirLog` is a root of files, `NF2FSTree` collects nothing.
- In `NF2FSDirLog`: an index longer than the cache; what a program over the log
  leaves there (`fault` ends the behaviour); a free map that is turned inside a GC, which
  uses both caches as its buffers; and a traversal of the GC where less than a head is
  left of the sector.
- Uninitialized memory other than the head in the cache of a file that never had
  data (in `NF2FSDirLog`) and the length in `dir_update` (in `NF2FSSuper`).
- Running out of memory, and errors the flash driver reports: every call is checked
  in the same way and returns the error.
- Sectors and ids across modules: that deleting a file returns its id is checked in
  `NF2FSTree`, its sectors in `NF2FSBigFile`, the space of its entries in
  `NF2FSDirLog`; no module composes all three. An id in `NF2FSTree` may be used again
  at once, which is more than `NF2FSIdMap` allows.
- The bridge (`NF2FS_brigde.c`) keeps no state of the file system, and the heads
  (`NF2FS_head.c`) are bit fields: each module models those it depends on.
- `src/board_environment` (318,600 of the 337,100 lines of C): the vendor's HAL,
  FreeRTOS, FATFS, LITTLEFS, SPIFFS, JESFS, drivers and benchmarks, and N2FS, an older
  copy of this code; and `src/emulated_environment`, a copy of `src/NF2FS_code` with
  its simulated flash and driver. The project is about the 8,400 lines of
  `src/NF2FS_code`.

The first thing to add to the model would be subdirectories in `NF2FSDirLog`, so that
garbage collection meets the tree; with them, the theorems about the tree would have
to hold while names move from sector to sector.
