------------------------------ MODULE NF2FSDirLog ------------------------------
(***************************************************************************)
(* A directory (NF2FS_dir.c, with file_open to file_delete and dir_close of *)
(* NF2FS.c, file_flush and create_file of NF2FS_file.c, dir_gc and          *)
(* data_delete of NF2FS_rw.c).  A directory is a chain of sectors that hold *)
(* a log of entries: names of files, their data (or index), and records of  *)
(* old space.  An entry is deleted in place and the new one goes to the     *)
(* tail; when the last sector is full and enough is old, GC moves what is   *)
(* live into a new chain.                                                   *)
(*                                                                         *)
(* The directory is the root: its tail is kept in the superblock, which     *)
(* NF2FSSuper models.  A name and the id of its file are one.  An offset is  *)
(* the number of the entry in its sector; reads and writes go through the   *)
(* caches as NF2FSCache has it, but for the places of the caches that GC     *)
(* compares with each other.                                                *)
(***************************************************************************)
EXTENDS Integers, Sequences, SequencesExt, FiniteSets, FiniteSetsExt

CONSTANTS
  Files,        \* names of files, and their ids
  SectorSize,   \* cfg->sector_size
  HeadLen,      \* sizeof(NF2FS_dir_sector_flash_t)
  NameLen,      \* length of a name entry
  SmallLens,    \* lengths of the entry of a small file's data
  IndexLen,     \* length of the entry of a big file's index
  OspaceLen,    \* sizeof(NF2FS_dir_ospace_flash_t)
  CacheSize,    \* cfg->cache_size
  HeadSize,     \* sizeof(NF2FS_head_t)
  GcFactor,     \* so many sectors of old space start a GC (3 in dir_prog)
  ListMax,      \* NF2FS_FILE_LIST_MAX
  MaxOldSpace,  \* bound on the old space counted, for TLC
  Null,         \* NF2FS_NULL as a sector
  QuietGc,      \* assumption: a GC finds no file of the directory open
  IndexesMove,  \* assumption: a GC meets no index that it would leave behind
  ShortClosed   \* assumption: a directory is closed with one sector only

ASSUME SizesAssumption ==
  /\ {SectorSize, HeadLen, GcFactor, ListMax, CacheSize, HeadSize} \subseteq Nat
  /\ HeadLen + HeadSize < CacheSize
  /\ \A len \in SmallLens \cup {NameLen, IndexLen, OspaceLen} :
       len \in Nat \ {0} /\ HeadLen + len < SectorSize /\ len <= CacheSize
ASSUME FlagsAssumption == {QuietGc, IndexesMove, ShortClosed} \subseteq BOOLEAN

(* sector_alloc always finds a sector: there are as many as are needed.      *)
Sectors == Nat \ {0}
NoPos   == <<Null, 0>>

ASSUME NullAssumption == Null \notin Sectors

VARIABLES
  flash,      \* flash[s]: the entries of sector s, for the sectors in use
  chain,      \* the sectors from the tail on: each head names the next
  tailOff,    \* dir->tail_off
  oldSpace,   \* dir->old_space
  list,       \* NF2FS->file_list, the last one opened first
  dirOpen,    \* the directory is in dir_list
  fault       \* an assertion failed, or the log was programmed over

vars == <<flash, chain, tailOff, oldSpace, list, dirOpen, fault>>

(* What an operation works on. *)
Memory ==
  [flash |-> flash, chain |-> chain, tailOff |-> tailOff, oldSpace |-> oldSpace,
   list |-> list, fault |-> fault]

Become(m) ==
  /\ flash' = m.flash /\ chain' = m.chain /\ tailOff' = m.tailOff
  /\ oldSpace' = m.oldSpace /\ list' = m.list /\ fault' = m.fault

-----------------------------------------------------------------------------
(* Entries: kind, id, val (the version of data, or a recorded old space)    *)
(* and length.  Of a deleted one the length is all that matters.            *)
Entry(kind, id, val, len) == [kind |-> kind, id |-> id, val |-> val, len |-> len]

NameEntry(f)   == Entry("name", f, 0, NameLen)
DataEntry(h)   == Entry(IF h.big THEN "index" ELSE "data", h.id, h.ver, h.size)
OspaceEntry(n) == Entry("ospace", Null, n, OspaceLen)
Tombstone(len) == Entry("deleted", Null, 0, len)

LengthOf(entries) == FoldSeq(LAMBDA e, sum : e.len + sum, 0, entries)

(* Where the live entries of a file are, as places of the traversal, and    *)
(* which of them a traversal comes to first.                                *)
Names == {"name"}
Data  == {"data", "index"}

Places   == UNION {{k} \X DOMAIN flash[chain[k]] : k \in DOMAIN chain}
At(p)    == flash[chain[p[1]]][p[2]]
PosOf(p) == <<chain[p[1]], p[2]>>

Live(kinds, f) == {p \in Places : At(p).kind \in kinds /\ At(p).id = f}

First(places) ==
  CHOOSE p \in places : \A q \in places : p[1] < q[1] \/ (p[1] = q[1] /\ p[2] <= q[2])

(* A handle in file_list: size is file_cache.size, len the length that the  *)
(* head in the cache gives, ver the version of the data in the cache.       *)
Handle(f, name) ==
  [id |-> f, name |-> name, data |-> NoPos, ver |-> 0, size |-> 0, len |-> 0,
   big |-> FALSE, dirty |-> FALSE]

IsOpen(f)  == \E k \in DOMAIN list : list[k].id = f
IndexOf(f) == CHOOSE k \in DOMAIN list : list[k].id = f

-----------------------------------------------------------------------------
(* The type of the head at a place becomes "deleted".  A sector that was     *)
(* given back is not the directory's.                                       *)
Marked(fl, pos) ==
  IF pos[1] \in DOMAIN fl /\ pos[2] \in DOMAIN fl[pos[1]]
  THEN [fl EXCEPT ![pos[1]][pos[2]] = Tombstone(@.len)] ELSE fl

(* Mutant of Deleted: the length of the newest only. *)
DeletedLast(m, pos, len) ==
  IF pos[1] = Null THEN m
  ELSE [m EXCEPT !.oldSpace = len, !.flash = Marked(@, pos)]

(* data_delete: the entry is marked, and the directory counts the space.    *)
(* No place, nothing to do.                                                 *)
Deleted(m, pos, len) ==
  IF pos[1] = Null THEN m
  ELSE [m EXCEPT !.oldSpace = @ + len, !.flash = Marked(@, pos)]

(* Mutant of Fits: the length of the entry is left out. *)
FitsTailOnly(m, len) == m.tailOff < SectorSize

Fits(m, len) == m.tailOff + len < SectorSize

(* Where the entries of a sector end. *)
EndOf(entries) == HeadLen + LengthOf(entries)

(* The entry goes to tail_off.  When that is not the end of the log, it is   *)
(* programmed over other entries or where no traversal comes to.            *)
Written(m, e) ==
  [m EXCEPT !.flash[m.chain[1]] = Append(@, e), !.tailOff = @ + e.len,
            !.fault = @ \/ m.tailOff # EndOf(m.flash[m.chain[1]])]

(* sector_alloc: which of the free sectors it is makes no difference.  Here  *)
(* those of a chain are all odd or all even, and a GC changes over.         *)
Opened(m, s) ==
  [m EXCEPT !.flash = [t \in DOMAIN @ \cup {s} |-> IF t = s THEN <<>> ELSE @[t]],
            !.chain = <<s>> \o @, !.tailOff = HeadLen]

Extended(m) == Opened(m, m.chain[1] + 2)

(* dir_prog when there is no GC to do. *)
Added(m, e) == IF Fits(m, e.len) THEN Written(m, e) ELSE Written(Extended(m), e)

(* Mutant of LastPos: tail_off without taking the size off. *)
LastPosTail(m) == <<m.chain[1], Len(m.flash[m.chain[1]]) + 1>>

(* Where the entry is that was programmed last: tail_off less its size. *)
LastPos(m) == <<m.chain[1], Len(m.flash[m.chain[1]])>>

NewChain(m) ==
  Opened([m EXCEPT !.chain = <<>>, !.oldSpace = 0], IF m.chain[1] % 2 = 1 THEN 2 ELSE 1)

(* A GC under way: the new directory so far, the offset of the entry that    *)
(* comes next, where rcache begins in its sector and pcache in the new one   *)
(* (pcache->off, -1 when nothing waits), and whether an index was left.     *)
Traversal(m) == [new |-> m, off |-> HeadLen, rcache |-> 0, pcache |-> -1, lost |-> FALSE]

WindowEnd(from) == IF from + CacheSize < SectorSize THEN from + CacheSize ELSE SectorSize

(* rcache begins anew at an entry whose head it may not have, and at one     *)
(* that it does not have all of, unless that is an index.                   *)
Window(t, e) ==
  IF \/ t.off + HeadSize >= t.rcache + CacheSize
     \/ e.kind # "index" /\ t.off + e.len > WindowEnd(t.rcache)
  THEN t.off ELSE t.rcache

(* cache_prog: where pcache begins once an entry was programmed at off.      *)
PcacheAfter(pcache, off, len) ==
  LET from == IF pcache # -1 /\ off + len < pcache + CacheSize THEN pcache ELSE off
  IN  IF len >= CacheSize \/ off + len > from + CacheSize - HeadSize THEN -1 ELSE from

(* Names and data go to the new chain.                                      *)
MovedOver(t, e) ==
  LET new == Added(t.new, e) IN
  [t EXCEPT !.new = new,
            !.pcache = PcacheAfter(IF Fits(t.new, e.len) THEN @ ELSE -1,
                                   new.tailOff - e.len, e.len)]

(* An index goes over from rcache when it ends no further than pcache->off   *)
(* and the length of the window allow.  One that does not is read into the   *)
(* buffer of pcache and programmed to its old place, over what waits there; *)
(* one that rcache has only a part of goes over with what lies behind it.   *)
LeftBehind(t, e) ==
  [t EXCEPT !.lost = TRUE,
            !.new.fault = @ \/ t.pcache # -1
                            \/ t.off + e.len <= t.pcache + WindowEnd(t.rcache) - t.rcache]

Reached(t, e) ==
  /\ t.off + e.len <= t.pcache + WindowEnd(t.rcache) - t.rcache
  /\ t.off + e.len <= WindowEnd(t.rcache)

(* dtraverse_gc, one entry. *)
Copied(t, e) ==
  LET here == [t EXCEPT !.rcache = Window(t, e)]
      next == IF e.kind \notin Names \cup Data THEN here
              ELSE IF e.kind # "index" \/ Reached(here, e) THEN MovedOver(here, e)
              ELSE LeftBehind(here, e)
  IN  [next EXCEPT !.off = @ + e.len]

CopiedSector(t, s) ==
  FoldLeft(Copied, [t EXCEPT !.off = HeadLen, !.rcache = 0], t.new.flash[s])

(* Mutant of Moved: only the newest sector is traversed. *)
MovedTail(m) == CopiedSector(Traversal(NewChain(m)), m.chain[1])

(* dtraverse_gc, newest sector first. *)
Moved(m) == FoldLeft(CopiedSector, Traversal(NewChain(m)), m.chain)

(* dir_gc programs the data of the k-th open file again, dirty or not.  An  *)
(* empty file gets a place of length 0, where the next entry will be.       *)
Reprogrammed(m, k) ==
  LET h   == m.list[k]
      new == IF h.size = 0 THEN m ELSE Added(m, DataEntry(h))
      end == LastPos(new)
  IN  [new EXCEPT !.list[k] =
         [h EXCEPT !.data = IF h.size = 0 THEN <<end[1], end[2] + 1>> ELSE end,
                   !.len = h.size, !.dirty = FALSE]]

(* dir_gc deletes the data of the open files, and gives the sectors of the  *)
(* old chain back.                                                          *)
Undone(n, h) == Deleted(n, h.data, h.len)

Cleared(m) == FoldLeft(Undone, m, m.list)

Collected(m) ==
  LET moved  == Moved(Cleared(m)).new
      filled == FoldLeft(Reprogrammed, moved, [k \in DOMAIN m.list |-> k])
  IN  [filled EXCEPT !.flash = Restrict(@, ToSet(filled.chain))]

(* dir_prog. *)
NeedsGc(m, len) == ~ Fits(m, len) /\ m.oldSpace >= GcFactor * SectorSize

Programmed(m, e) == Added(IF NeedsGc(m, e.len) THEN Collected(m) ELSE m, e)

(* The GCs that the assumptions leave. *)
Allowed(m, len) ==
  NeedsGc(m, len) => /\ QuietGc => m.list = <<>>
                     /\ IndexesMove => ~ Moved(Cleared(m)).lost

-----------------------------------------------------------------------------
Init ==
  /\ flash = [s \in {1} |-> <<>>]
  /\ chain = <<1>> /\ tailOff = HeadLen /\ oldSpace = 0 /\ list = <<>> /\ dirOpen = TRUE
  /\ fault = FALSE

(* file_open of a name that is not in the directory: create_file. *)
Create(f) ==
  /\ dirOpen /\ Len(list) < ListMax /\ Live(Names, f) = {}
  /\ Allowed(Memory, NameLen)
  /\ LET m == Programmed(Memory, NameEntry(f))
     IN  Become([m EXCEPT !.list = <<Handle(f, LastPos(m))>> \o @])
  /\ UNCHANGED dirOpen

(* file_open of a name that is: file_lowopen.  The search for data starts   *)
(* at the name, or where the cache begins that the name was found in; older *)
(* sectors are only looked at when that is the start of the sector.  The    *)
(* assertion that there is data fails for a file that never had any.        *)
Open(f) ==
  /\ dirOpen /\ Len(list) < ListMax /\ Live(Names, f) # {} /\ ~ IsOpen(f)
  /\ LET name == First(Live(Names, f)) IN
     \E start \in 0 .. name[2] :
       LET seen == {p \in Live(Data, f) :
                      (p[1] = name[1] /\ p[2] >= start) \/ (p[1] > name[1] /\ start = 0)}
           e    == At(First(seen))
       IN  IF seen = {} THEN fault' = TRUE /\ UNCHANGED list
           ELSE /\ list' = <<[Handle(f, PosOf(name)) EXCEPT
                                !.data = PosOf(First(seen)), !.ver = e.val, !.size = e.len,
                                !.len = e.len, !.big = e.kind = "index"]>> \o list
                /\ UNCHANGED fault
  /\ UNCHANGED <<flash, chain, tailOff, oldSpace, dirOpen>>

NextVersion(h) == IF h.ver = 1 THEN 2 ELSE 1

(* file_write, as far as the directory sees it: small_file_write, or a      *)
(* write to a big file that leaves one entry in its index.                  *)
Write(f) ==
  /\ IsOpen(f)
  /\ LET k == IndexOf(f) IN
     \E size \in IF list[k].big THEN {IndexLen} ELSE {n \in SmallLens : n >= list[k].size} :
       list' = [list EXCEPT ![k].ver = NextVersion(list[k]), ![k].size = size,
                            ![k].dirty = TRUE]
  /\ UNCHANGED <<flash, chain, tailOff, oldSpace, dirOpen, fault>>

(* s2b_file_write: the data in flash is deleted, its place remembered.      *)
Grown(h) ==
  [h EXCEPT !.ver = NextVersion(h), !.size = IndexLen, !.len = IndexLen, !.big = TRUE,
            !.dirty = TRUE]

GrowBig(f) ==
  /\ IsOpen(f) /\ ~ list[IndexOf(f)].big
  /\ LET k == IndexOf(f)
         m == Deleted(Memory, list[k].data, list[k].len)
     IN  Become([m EXCEPT !.list[k] = Grown(@)])
  /\ UNCHANGED dirOpen

(* Mutant of Flushed: the old data is not deleted. *)
FlushedTwice(k) ==
  LET m == Programmed(Memory, DataEntry(list[k]))
  IN  [m EXCEPT !.list[k] =
         [@ EXCEPT !.data = LastPos(m), !.len = list[k].size, !.dirty = FALSE]]

(* file_flush of the k-th open file. *)
Flushed(k) ==
  LET h == list[k]
      m == Programmed(Deleted(Memory, h.data, h.len), DataEntry(h))
  IN  [m EXCEPT !.list[k] = [@ EXCEPT !.data = LastPos(m), !.len = h.size, !.dirty = FALSE]]

FlushAllowed(h) == Allowed(Deleted(Memory, h.data, h.len), h.size)

(* file_sync. *)
Sync(f) ==
  /\ IsOpen(f)
  /\ LET k == IndexOf(f) IN list[k].dirty /\ FlushAllowed(list[k]) /\ Become(Flushed(k))
  /\ UNCHANGED dirOpen

(* file_close. *)
Close(f) ==
  /\ IsOpen(f)
  /\ LET k == IndexOf(f)
         m == IF list[k].dirty THEN Flushed(k) ELSE Memory
     IN  /\ list[k].dirty => FlushAllowed(list[k])
         /\ Become([m EXCEPT !.list = RemoveAt(@, IndexOf(f))])
  /\ UNCHANGED dirOpen

(* file_delete: data, then name.  The head in the cache of a file that never *)
(* had data is not initialized: it may fail the assertion on it, or pass for *)
(* that of an index.                                                        *)
NoHead(h) == h.data = NoPos /\ h.len = 0

Delete(f) ==
  /\ IsOpen(f)
  /\ LET h == list[IndexOf(f)]
         m == Deleted(Deleted(Memory, h.data, h.len), h.name, NameLen)
     IN  \/ Become([m EXCEPT !.list = RemoveAt(@, IndexOf(f))])
         \/ NoHead(h) /\ fault' = TRUE /\ UNCHANGED <<flash, chain, tailOff, oldSpace, list>>
  /\ UNCHANGED dirOpen

(* dir_close: the old space is recorded as it was before the record is      *)
(* programmed, which may start a GC.                                        *)
CloseDir ==
  /\ dirOpen /\ list = <<>> /\ Allowed(Memory, OspaceLen)
  /\ LET m == Programmed(Memory, OspaceEntry(oldSpace))
     IN  (ShortClosed => Len(m.chain) = 1) /\ Become(m)
  /\ dirOpen' = FALSE

(* dtraverse_ospace, newest sector first: a record replaces what has been    *)
(* counted, in older and in newer sectors alike.                            *)
Counted(sum, e) ==
  IF e.kind = "ospace" THEN e.val ELSE IF e.kind = "deleted" THEN sum + e.len ELSE sum

CountedSector(sum, entries) == FoldLeft(Counted, sum, entries)

(* dir_lowopen, which counts the old space again.  The traversal ends, and   *)
(* sets tail_off, at the end of the oldest sector.                          *)
OpenDir ==
  /\ ~ dirOpen
  /\ oldSpace' = FoldLeft(CountedSector, 0, [k \in DOMAIN chain |-> flash[chain[k]]])
  /\ tailOff' = EndOf(flash[Last(chain)])
  /\ dirOpen' = TRUE /\ UNCHANGED <<flash, chain, list, fault>>

Next ==
  /\ ~ fault /\ oldSpace <= MaxOldSpace
  /\ \/ \E f \in Files : \/ Create(f) \/ Open(f) \/ Write(f) \/ GrowBig(f)
                        \/ Sync(f) \/ Close(f) \/ Delete(f)
     \/ CloseDir \/ OpenDir

Spec == Init /\ [][Next]_vars

-----------------------------------------------------------------------------
TypeOK ==
  /\ DOMAIN flash = ToSet(chain)
  /\ \A s \in DOMAIN flash : \A i \in DOMAIN flash[s] :
       LET e == flash[s][i] IN
       /\ e.kind \in Names \cup Data \cup {"ospace", "deleted"} /\ e.id \in Files \cup {Null}
       /\ e.val \in Nat /\ e.len \in SmallLens \cup {NameLen, IndexLen, OspaceLen}
  /\ \A s \in DOMAIN flash : EndOf(flash[s]) <= SectorSize
  /\ chain # <<>> /\ IsInjective(chain) /\ ToSet(chain) \subseteq Sectors
  /\ tailOff \in Nat /\ oldSpace \in Nat /\ Len(list) <= ListMax /\ dirOpen \in BOOLEAN /\ fault \in BOOLEAN

(* No file has two live names or two live entries of data: a reader would   *)
(* find the older one, and a deletion would leave one behind.  That is what *)
(* dir_gc sees to when it deletes the data of the open files before it moves *)
(* the directory: without QuietGc it does not hold, as the file that is     *)
(* being flushed is programmed by the GC and by its flush.                  *)
OneEntry ==
  \A f \in Files : Cardinality(Live(Names, f)) <= 1 /\ Cardinality(Live(Data, f)) <= 1

(* What an open file remembers of its name and its data is where they are:  *)
(* its next flush, or its deletion, deletes them and nothing else.  Holds    *)
(* under QuietGc: a GC moves the names and leaves what handles say of them.  *)
PositionsTrue ==
  \A k \in DOMAIN list :
    LET f == list[k].id IN
    /\ {PosOf(p) : p \in Live(Names, f)} = {list[k].name}
    /\ \A p \in Live(Data, f) : PosOf(p) = list[k].data
    /\ ~ list[k].dirty /\ list[k].ver # 0 => Live(Data, f) # {}

(* Every deleted entry has been counted in the directory's old space, so    *)
(* that GC is not kept from starting; dir_open counts again what dir_close   *)
(* recorded.  Holds under QuietGc and ShortClosed: of a directory of several *)
(* sectors the record in an older one replaces what newer ones counted.     *)
DeadCounted ==
  LET dead == {q \in {PosOf(p) : p \in Places} : flash[q[1]][q[2]].kind = "deleted"}
  IN  dirOpen => LengthOf([q \in dead |-> flash[q[1]][q[2]]]) <= oldSpace

(* The log is the directory: under a name, a traversal comes to the data    *)
(* saved last.  A file that becomes big is without until it is flushed.      *)
(* Holds under QuietGc, IndexesMove and ShortClosed: a GC may leave the      *)
(* index of a big file that nobody has open in the sector it gives back.     *)
SavedIn ==
  [f \in Files |->
     IF Live(Names, f) = {} THEN [named |-> FALSE, version |-> 0]
     ELSE [named |-> TRUE,
           version |-> IF Live(Data, f) = {} THEN 0 ELSE At(First(Live(Data, f))).val]]

Directory == INSTANCE NF2FSNames WITH saved <- SavedIn

NamesSpec == Directory!Spec

(* The assertions of file_lowopen, that a file that is opened has data, and  *)
(* of file_delete; and no program over the log.                             *)
NoFault == ~ fault
=============================================================================
