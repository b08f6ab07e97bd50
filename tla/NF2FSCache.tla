------------------------------- MODULE NF2FSCache -------------------------------
(***************************************************************************)
(* The write cache and the read cache (NF2FS_rw.c:38-523) under the        *)
(* directory layer: entries programmed at the tail of a directory's log    *)
(* (dir_prog), entries deleted in place (data_delete), and the windows the *)
(* traversals read (read_to_cache).  Sectors are cells; an entry is a head *)
(* of HeadSize cells and at least one cell more.                           *)
(*                                                                         *)
(* A cell is the set of marks programmed into it, so programming is union: *)
(* NOR flash only clears bits.  "head" stands in the first cell of a head, *)
(* which also carries "written" and "deleted", the flags that are          *)
(* programmed later; every other programmed cell is "body".                *)
(*                                                                         *)
(* A directory whose tail sector is full gets another one; that, and       *)
(* directory GC, are left out, and so is the reuse of an erased sector.    *)
(***************************************************************************)
EXTENDS Integers

CONSTANTS
  Sectors,     \* tail sectors of open directories
  SectorSize,  \* cfg->sector_size
  CacheSize,   \* cfg->cache_size, of both caches
  HeadSize,    \* sizeof(NF2FS_head_t)
  Lengths,     \* lengths of entries
  Null         \* NF2FS_NULL as a sector

ASSUME HeadSizeAssumption   == HeadSize \in Nat \ {0}
ASSUME CacheSizeAssumption  == CacheSize \in Nat /\ CacheSize > 2 * HeadSize
ASSUME SectorSizeAssumption == SectorSize \in Nat /\ SectorSize > CacheSize
ASSUME LengthsAssumption    == \A len \in Lengths : len \in Nat /\ len > HeadSize
ASSUME NullAssumption       == Null \notin Sectors

VARIABLES
  flash,   \* flash[s][c]: the marks of cell c of sector s
  tail,    \* tail[s]: dir->tail_off of the directory with tail sector s
  pcache,  \* the write cache: its sector, off, size and buffer
  rcache   \* the read cache

vars == <<flash, tail, pcache, rcache>>

Cells    == 0 .. SectorSize - 1
Marks    == {"head", "body", "written", "deleted"}
FirstOff == HeadSize + 1     \* the sector head is longer than a head

(* What an operation of the caches works on. *)
Memory == [flash |-> flash, p |-> pcache, r |-> rcache]

Become(m) == flash' = m.flash /\ pcache' = m.p /\ rcache' = m.r

-----------------------------------------------------------------------------
(* NF2FS_cache_one. *)
One == [sector |-> Null, off |-> 0, size |-> 0, buffer |-> [i \in 0 .. CacheSize - 1 |-> {}]]

(* Mutant of Written: the flags stay as they are. *)
WrittenNever(data, from, to) == data

(* cache_writen_flag: the walk from entry to entry sets the flag in every   *)
(* head that lies in the buffer as a whole.                                 *)
Written(data, from, to) ==
  [i \in DOMAIN data |-> IF i >= from /\ i + HeadSize <= to /\ "head" \in data[i]
                         THEN data[i] \cup {"written"} ELSE data[i]]

(* cfg->prog, len cells of data. *)
Programmed(f, s, off, len, data) ==
  [f EXCEPT ![s] = [c \in Cells |-> IF c \in off .. off + len - 1
                                    THEN @[c] \cup data[c - off] ELSE @[c]]]

Covers(cache, s, c) == s = cache.sector /\ c >= cache.off /\ c < cache.off + cache.size

(* Mutant of Synced: data past the end of the buffer counts as cached. *)
SyncedBeyond(cache, s, off, len, data) ==
  LET at  == off - cache.off
      new == [i \in 0 .. CacheSize - 1 |-> IF i \in at .. at + len - 1 THEN data[i - at]
                                           ELSE cache.buffer[i]]
  IN  IF s = cache.sector /\ off + len > cache.off /\ off < cache.off + cache.size
      THEN [cache EXCEPT !.buffer = Written(new, at, at + len),
                         !.size = IF at + len > @ THEN at + len ELSE @]
      ELSE cache

(* dprog_cache_sync of DATA_PROG: the part of the data that falls into the  *)
(* cache replaces what was there.                                           *)
Synced(cache, s, off, len, data) ==
  LET at   == off - cache.off
      from == IF at < 0 THEN 0 ELSE at
      to   == IF at + len < CacheSize THEN at + len ELSE CacheSize
      new  == [i \in 0 .. CacheSize - 1 |-> IF i \in from .. to - 1 THEN data[i - at]
                                            ELSE cache.buffer[i]]
  IN  IF s = cache.sector /\ off + len > cache.off /\ off < cache.off + cache.size
      THEN [cache EXCEPT !.buffer = Written(new, from, to),
                         !.size = IF to > @ THEN to ELSE @]
      ELSE cache

(* dprog_cache_sync of HEAD_CHANGE, for a delete. *)
Marked(cache, s, off) ==
  IF Covers(cache, s, off)
  THEN [cache EXCEPT !.buffer[off - cache.off] = @ \cup {"deleted"}] ELSE cache

(* cache_flush; a cache with anything in it has its change_flag set. *)
Flushed(m) ==
  LET data == Written(m.p.buffer, 0, m.p.size)
  IN  IF m.p.size = 0 THEN m
      ELSE [flash |-> Programmed(m.flash, m.p.sector, m.p.off, m.p.size, data),
            p     |-> One,
            r     |-> Synced(m.r, m.p.sector, m.p.off, m.p.size, data)]

(* Mutants of Put: rcache is not told; a full cache is not flushed. *)
PutUnseen(m, s, off, len, data) ==
  LET size == m.p.size
      full == size + len > CacheSize - HeadSize
      new  == [m EXCEPT
                 !.p.size   = size + len,
                 !.p.buffer = [i \in 0 .. CacheSize - 1 |->
                                 IF i \in size .. size + len - 1 THEN data[i - size] ELSE @[i]]]
  IN  IF full THEN Flushed(new) ELSE new

PutFull(m, s, off, len, data) ==
  LET size == m.p.size
  IN  [m EXCEPT
         !.p.size   = size + len,
         !.p.buffer = [i \in 0 .. CacheSize - 1 |->
                         IF i \in size .. size + len - 1 THEN data[i - size] ELSE @[i]],
         !.r = Synced(@, s, off, len, data)]

(* cache_prog, the pass that copies: data goes after what the cache holds,  *)
(* and a cache without room for another head is flushed.                    *)
Put(m, s, off, len, data) ==
  LET size == m.p.size
      full == size + len > CacheSize - HeadSize
      new  == [m EXCEPT
                 !.p.size   = size + len,
                 !.p.buffer = [i \in 0 .. CacheSize - 1 |->
                                 IF i \in size .. size + len - 1 THEN data[i - size] ELSE @[i]],
                 !.r = Synced(@, s, off, len, data)]
  IN  IF full THEN Flushed(new) ELSE new

Fits(p, s, off, len) ==
  s = p.sector /\ off >= p.off + p.size /\ off + len < p.off + CacheSize

(* cache_prog: data that does not fit has the cache flushed and taken. *)
CacheProg(m, s, off, len, data) ==
  IF Fits(m.p, s, off, len) THEN Put(m, s, off, len, data)
  ELSE Put([Flushed(m) EXCEPT !.p = [One EXCEPT !.sector = s, !.off = off]], s, off, len, data)

(* direct_prog of data with a head. *)
DirectProg(m, s, off, len, data) ==
  LET done == Written(data, 0, len)
  IN  [flash |-> Programmed(m.flash, s, off, len, done),
       p     |-> Synced(m.p, s, off, len, done),
       r     |-> Synced(m.r, s, off, len, done)]

(* read_to_cache of the read cache: a window that begins at off. What of it *)
(* waits in the write cache is taken from there, with its flags set.        *)
ReadToCache(off, s) ==
  LET len  == IF off + CacheSize < SectorSize THEN CacheSize ELSE SectorSize - off
      at   == pcache.off - off      \* where the write cache begins in the window
      old  == rcache.buffer
      Fill(buffer) == [sector |-> s, off |-> off, size |-> len, buffer |-> buffer]
      (* The window begins with the write cache. *)
      whole == [i \in 0 .. CacheSize - 1 |-> IF i < pcache.size THEN pcache.buffer[i] ELSE {}]
      (* It begins in flash and goes on in the write cache. *)
      joined == [i \in 0 .. CacheSize - 1 |->
                   IF i < at THEN flash[s][off + i]
                   ELSE IF i < len THEN pcache.buffer[i - at] ELSE old[i]]
      (* It begins inside the write cache and goes on in flash. *)
      rest  == pcache.size + at
      inner == [i \in 0 .. CacheSize - 1 |->
                  IF i < rest THEN pcache.buffer[i - at]
                  ELSE IF i < len THEN flash[s][off + i] ELSE old[i]]
      (* It has nothing in the write cache, *)
      plain == [i \in 0 .. CacheSize - 1 |-> IF i < len THEN flash[s][off + i] ELSE {}]
      (* or less than a head; the buffer is then not emptied first. *)
      direct == [i \in 0 .. CacheSize - 1 |-> IF i < len THEN flash[s][off + i] ELSE old[i]]
  IN  IF rcache.sector = s /\ rcache.off = off /\ rcache.size = len THEN rcache
      ELSE IF s # pcache.sector \/ at >= len \/ -at >= pcache.size THEN Fill(plain)
      ELSE IF at = 0 THEN Fill(Written(whole, 0, pcache.size))
      ELSE IF at > HeadSize THEN Fill(Written(joined, at, len))
      ELSE IF rest < HeadSize THEN Fill(direct)
      ELSE Fill(Written(inner, 0, rest))

-----------------------------------------------------------------------------
Blank == [c \in Cells |-> IF c < FirstOff THEN {"body"} ELSE {}]

Init ==
  /\ flash = [s \in Sectors |-> Blank]
  /\ tail = [s \in Sectors |-> FirstOff]
  /\ pcache = One /\ rcache = One

Entry(len) == [i \in 0 .. len - 1 |-> IF i = 0 THEN {"head"} ELSE {"body"}]

(* What a reader should see: the write cache, once written, before flash. *)
Seen(s, c) ==
  IF Covers(pcache, s, c)
  THEN LET marks == pcache.buffer[c - pcache.off]
       IN  IF "head" \in marks THEN marks \cup {"written"} ELSE marks
  ELSE flash[s][c]

(* dir_prog: an entry larger than the cache goes to flash directly. *)
DirProg(s, len) ==
  /\ tail[s] + len < SectorSize
  /\ Become(IF len >= CacheSize
            THEN DirectProg(Flushed(Memory), s, tail[s], len, Entry(len))
            ELSE CacheProg(Memory, s, tail[s], len, Entry(len)))
  /\ tail' = [tail EXCEPT ![s] = @ + len]

(* data_delete of a live entry: head_validate programs the flag at once,    *)
(* even where the entry is not in flash yet.                                *)
Delete(s, off) ==
  /\ Seen(s, off) = {"head", "written"}
  /\ Become([flash |-> [flash EXCEPT ![s][off] = @ \cup {"deleted"}],
             p |-> Marked(pcache, s, off), r |-> Marked(rcache, s, off)])
  /\ UNCHANGED tail

(* A traversal reads the next window: from the start of a sector, an entry, *)
(* or the end of the log.                                                   *)
Read(s, off) ==
  /\ off = 0 \/ off = tail[s] \/ "head" \in Seen(s, off)
  /\ rcache' = ReadToCache(off, s)
  /\ UNCHANGED <<flash, tail, pcache>>

(* close, unmount and the changes of map and superblock flush the cache. *)
Flush ==
  /\ Become(Flushed(Memory))
  /\ UNCHANGED tail

(* dir_update empties the read cache. *)
Forget ==
  /\ rcache' = One
  /\ UNCHANGED <<flash, tail, pcache>>

Next ==
  \/ \E s \in Sectors, len \in Lengths : DirProg(s, len)
  \/ \E s \in Sectors, off \in Cells : Delete(s, off) \/ Read(s, off)
  \/ Flush \/ Forget

Spec == Init /\ [][Next]_vars

-----------------------------------------------------------------------------
Cache ==
  [sector : Sectors \cup {Null}, off : Cells, size : 0 .. CacheSize,
   buffer : [0 .. CacheSize - 1 -> SUBSET Marks]]

TypeOK ==
  /\ flash \in [Sectors -> [Cells -> SUBSET Marks]]
  /\ tail \in [Sectors -> Cells]
  /\ pcache \in Cache /\ rcache \in Cache

(* The bytes that wait in pcache are the end of one sector's log, without a *)
(* gap, and leave room for a head: cache_prog copies to the end of what the *)
(* cache holds (NF2FS_rw.c:309) and never looks at where the data belongs.  *)
PcacheAtTail ==
  pcache.sector # Null =>
    /\ pcache.size > 0 /\ pcache.off + pcache.size = tail[pcache.sector]
    /\ pcache.size <= CacheSize - HeadSize

(* A traversal that goes on in the window it has read sees the log as it is *)
(* now: programs and deletes made since then are in the window.  Of a head  *)
(* that the window cuts the written flag is not kept; it is read again.     *)
RcacheCoherent ==
  \A i \in 0 .. rcache.size - 1 :
    LET cell == Seen(rcache.sector, rcache.off + i)
    IN  IF i + HeadSize <= rcache.size THEN rcache.buffer[i] = cell
        ELSE rcache.buffer[i] \ {"written"} = cell \ {"written"}

(* With their caches, directory sectors are logs: an entry is there, whole  *)
(* and written, once dir_prog returns, and a deleted entry never comes back *)
(* whether it was in flash or waiting, and whenever it is flushed.          *)
State(marks) ==
  IF marks = {} THEN "erased"
  ELSE IF marks = {"body"} THEN "body"
  ELSE IF marks = {"head", "written"} THEN "valid"
  ELSE IF marks = {"head", "written", "deleted"} THEN "deleted"
  ELSE "torn"

Log == INSTANCE NF2FSLog WITH log <- [s \in Sectors |-> [c \in Cells |-> State(Seen(s, c))]]

LogSpec == Log!Spec
=============================================================================
