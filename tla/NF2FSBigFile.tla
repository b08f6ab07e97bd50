------------------------------ MODULE NF2FSBigFile ------------------------------
(***************************************************************************)
(* The data of one file (NF2FS_file.c, and bfile_sector_old and bfile_gc in *)
(* NF2FS_rw.c).  A small file lives in its cache.  A big one is an index of *)
(* (sector, off, size): runs of bytes that go from one sector to the next   *)
(* and skip the head of each.                                              *)
(*                                                                         *)
(* A byte of the caller's buffer is the position it is meant for and a tag  *)
(* other than that of the byte it replaces, so that a byte in the wrong     *)
(* place or of an older write is told from the right one.                   *)
(*                                                                         *)
(* Sectors come from the sector manager: any run of free ones within a      *)
(* region.  A sector given back may be erased and taken by anyone from then *)
(* on; here it is erased at once.                                           *)
(*                                                                         *)
(* The index's own entry in the father's log is the directory's business.   *)
(***************************************************************************)
EXTENDS Integers, Sequences, SequencesExt, FiniteSets

CONSTANTS
  SectorCnt,      \* sectors the file may get
  RegionSize,     \* manager->region_size, in sectors
  SectorSize,     \* cfg->sector_size
  DataOff,        \* sizeof(NF2FS_bfile_sector_flash_t)
  IndexOff,       \* sizeof(NF2FS_bfile_index_flash_t)
  Threshold,      \* NF2FS_FILE_SIZE_THRESHOLD
  IndexNum,       \* NF2FS_FILE_INDEX_NUM: that many entries start a GC
  IndexMax,       \* NF2FS_FILE_INDEX_MAX: the entries the file cache holds
  MaxSize,        \* cfg->file_max
  Lengths,        \* lengths of writes
  Null,           \* NF2FS_NULL as a sector
  AppendsFit,     \* assumption on appends, see Fitting
  RewritesApart   \* assumption on rewrites, see Apart

ASSUME SizesAssumption ==
  /\ {SectorCnt, RegionSize, SectorSize, DataOff, IndexOff, Threshold, MaxSize} \subseteq Nat
  /\ IndexOff < DataOff /\ DataOff < SectorSize /\ RegionSize > 0
ASSUME IndexAssumption == IndexNum \in Nat /\ IndexMax \in Nat /\ IndexNum + 2 <= IndexMax
ASSUME LengthsAssumption == \A len \in Lengths : len \in Nat \ {0}
ASSUME FlagsAssumption == AppendsFit \in BOOLEAN /\ RewritesApart \in BOOLEAN

Sectors   == 0 .. SectorCnt - 1
PerSector == SectorSize - DataOff
Tags      == {0, 1}

ASSUME NullAssumption == Null \notin Sectors

VARIABLES
  flash,   \* flash[s][c]: a byte, HeadCell, ErasedCell or ClashCell
  taken,   \* sectors handed out for this file and not given back
  data,    \* a small file's data in file_cache
  index,   \* a big file's index in file_cache; <<>> while the file is small
  size,    \* file_size
  fault    \* an assertion failed or an array was overrun: the program stopped

vars == <<flash, taken, data, index, size, fault>>

(* What a step of a write works on. *)
Memory == [flash |-> flash, taken |-> taken, index |-> index]

Least(a, b)    == IF a < b THEN a ELSE b
CeilDiv(a, b)  == (a + b - 1) \div b
Total(entries) == FoldLeft(LAMBDA sum, e : sum + e.size, 0, entries)
Place(s, o, n) == [sector |-> s, off |-> o, size |-> n]

-----------------------------------------------------------------------------
(* Sectors. *)
ErasedCell == <<-1, 0>>     \* what a cell holds that holds no byte of a file
HeadCell   == <<-1, 1>>
ClashCell  == <<-1, 2>>     \* two bytes programmed over each other

Blank == [c \in 0 .. SectorSize - 1 |-> ErasedCell]
Fresh == [c \in 0 .. SectorSize - 1 |-> IF c < DataOff THEN HeadCell ELSE ErasedCell]

(* sector_alloc: the runs the sector manager may return. *)
Runs(m, num) ==
  {b \in Sectors : /\ b + num <= SectorCnt
                   /\ b \div RegionSize = (b + num - 1) \div RegionSize
                   /\ m.taken \cap (b .. b + num - 1) = {}}

Alloc(m, b, num) ==
  [flash |-> [s \in Sectors |-> IF s \in b .. b + num - 1 THEN Fresh ELSE m.flash[s]],
   taken |-> m.taken \cup (b .. b + num - 1),
   index |-> m.index]

(* Where byte k of an entry is. *)
Cell(e, k) ==
  LET at == e.off - DataOff + k
  IN  <<e.sector + at \div PerSector, DataOff + (at % PerSector)>>

(* bfile_prog and direct_prog: bytes put down from a place on.  A cell that *)
(* is programmed twice holds neither.                                       *)
Programmed(m, s, off, bytes) ==
  [m EXCEPT !.flash = [t \in Sectors |-> [c \in 0 .. SectorSize - 1 |->
     LET here == {k \in DOMAIN bytes : Cell(Place(s, off, 0), k - 1) = <<t, c>>}
     IN  IF here = {} THEN m.flash[t][c]
         ELSE IF m.flash[t][c] = ErasedCell THEN bytes[CHOOSE k \in here : TRUE] ELSE ClashCell]]]

(* The loop of bfile_sector_old that counts the sectors of an entry. *)
SectorsOf(e) ==
  IF e.sector = Null \/ e.size = 0 THEN {}
  ELSE LET rest == e.size - (SectorSize - e.off)
       IN  e.sector .. e.sector + (IF rest > 0 THEN CeilDiv(rest, PerSector) ELSE 0)

(* bfile_sector_old. *)
GivenBack(m, entries) ==
  LET old == UNION {SectorsOf(entries[i]) : i \in DOMAIN entries}
  IN  [flash |-> [s \in Sectors |-> IF s \in old THEN Blank ELSE m.flash[s]],
       taken |-> m.taken \ old,
       index |-> m.index]

(* The step is over.  What is in a sector that no entry reaches any more is *)
(* forgotten, given back or not.                                            *)
Reached(e) == {Cell(e, k)[1] : k \in 0 .. e.size}
Become(m) ==
  LET used == UNION {Reached(m.index[i]) : i \in DOMAIN m.index}
  IN  /\ flash' = [s \in Sectors |-> IF s \in used THEN m.flash[s] ELSE Blank]
      /\ taken' = m.taken /\ index' = m.index

-----------------------------------------------------------------------------
(* Reading. *)

(* The bytes an entry stands for, those of entries, and those of the file. *)
BytesOf(fl, e) ==
  [k \in 1 .. e.size |-> LET at == Cell(e, k - 1)
                         IN  IF at[1] \in Sectors THEN fl[at[1]][at[2]] ELSE ErasedCell]
BytesOfAll(fl, entries) == FoldLeft(LAMBDA bytes, e : bytes \o BytesOf(fl, e), <<>>, entries)
Content == IF index = <<>> THEN data ELSE BytesOfAll(flash, index)

(* The caller's bytes for a write, by what the file has there now. *)
Buffer(pos, len) ==
  LET old == Content
  IN  [k \in 1 .. len |-> <<pos + k - 1, IF pos + k <= Len(old) THEN 1 - old[pos + k][2] ELSE 0>>]

(* The entry that holds position pos, and where it begins in the file. *)
StartOf(entries, i) == Total(SubSeq(entries, 1, i - 1))
EntryAt(entries, pos) ==
  CHOOSE i \in DOMAIN entries :
    LET start == StartOf(entries, i) IN start <= pos /\ pos < start + entries[i].size

(* Mutant of ReadOnce: the next sector is read from its head on. *)
ReadOnceHead(s, off, k) ==
  LET first == <<s + off \div SectorSize, off % SectorSize>>
      room  == SectorSize - first[2]
  IN  IF k < room THEN <<first[1], first[2] + k>>
      ELSE <<first[1] + 1 + (k - room) \div SectorSize, (k - room) % SectorSize>>

(* index_read_once: byte k read from place (sector, off), where off may lie *)
(* past the end of the sector.                                              *)
ReadOnce(s, off, k) ==
  LET first == <<s + off \div SectorSize, off % SectorSize>>
      room  == SectorSize - first[2]
  IN  IF k < room THEN <<first[1], first[2] + k>>
      ELSE Cell(Place(first[1] + 1, DataOff, 0), k - room)

(* big_file_read of one byte more after k, from position pos on. *)
ReadByte(pos, k) ==
  LET first == EntryAt(index, pos)
      i     == EntryAt(index, pos + k)
      from  == StartOf(index, i)
      at    == IF i = first THEN ReadOnce(index[i].sector, index[i].off + pos - from, k)
               ELSE ReadOnce(index[i].sector, index[i].off, pos + k - from)
  IN  IF at[1] \in Sectors THEN flash[at[1]][at[2]] ELSE ErasedCell

(* file_read. *)
FileRead(pos, len) ==
  [k \in 1 .. len |-> IF index = <<>> THEN data[pos + k] ELSE ReadByte(pos, k - 1)]

-----------------------------------------------------------------------------
(* bfile_gc: candidate entries, the pair that merges most entries, and      *)
(* bfile_part_gc, which copies what lies between into a new run.            *)
Candidates == {i \in DOMAIN index : index[i].size <= SectorSize}

Mergeable ==
  {p \in Candidates \X Candidates :
     /\ p[1] < p[2]
     /\ Total(SubSeq(index, p[1], p[2])) < RegionSize * SectorSize}

Best == CHOOSE p \in Mergeable : \A q \in Mergeable :
          \/ q[2] - q[1] < p[2] - p[1]
          \/ q[2] - q[1] = p[2] - p[1] /\ q[1] >= p[1]

(* Mutant of Merged: the new entry is one byte short. *)
MergedShort(i, j, b) ==
  LET part == SubSeq(index, i, j)
      m    == Alloc(Memory, b, CeilDiv(Total(part), PerSector))
  IN  [GivenBack(Programmed(m, b, DataOff, BytesOfAll(flash, part)), part) EXCEPT
         !.index = SubSeq(index, 1, i - 1) \o <<Place(b, DataOff, Total(part) - 1)>>
                   \o SubSeq(index, j + 1, Len(index))]

Merged(i, j, b) ==
  LET part == SubSeq(index, i, j)
      m    == Alloc(Memory, b, CeilDiv(Total(part), PerSector))
  IN  [GivenBack(Programmed(m, b, DataOff, BytesOfAll(flash, part)), part) EXCEPT
         !.index = SubSeq(index, 1, i - 1) \o <<Place(b, DataOff, Total(part))>>
                   \o SubSeq(index, j + 1, Len(index))]

(* What GC leaves: nothing changed where it is not needed or not possible;  *)
(* no outcome where no run is free.                                         *)
Collected ==
  IF Len(index) < IndexNum \/ Mergeable = {} THEN {Memory}
  ELSE LET num == CeilDiv(Total(SubSeq(index, Best[1], Best[2])), PerSector)
       IN  IF num > RegionSize THEN {Memory}
           ELSE {Merged(Best[1], Best[2], b) : b \in Runs(Memory, num)}

(* The candidates overrun their array, or the cache has no room for two     *)
(* entries more.                                                            *)
GcFaults == /\ Len(index) >= IndexNum
            /\ Cardinality(Candidates) > IndexNum \/ Len(index) >= IndexMax
NoRoom(m) == Len(m.index) + 2 > IndexMax

-----------------------------------------------------------------------------
Init ==
  /\ flash = [s \in Sectors |-> Blank]
  /\ taken = {} /\ data = <<>> /\ index = <<>> /\ size = 0
  /\ fault = FALSE

Stop == fault' = TRUE /\ UNCHANGED <<flash, taken, data, index, size>>

(* Mutant of Jump: the place is not carried into the next sector. *)
JumpNoCarry(e, n) == Place(e.sector, e.off + n, e.size - n)

(* index_jump. *)
Jump(e, n) ==
  LET at == Cell(e, n) IN Place(at[1], at[2], e.size - n)

(* small_file_write: the data stays in the cache. *)
SmallWrite(pos, len) ==
  /\ index = <<>> /\ pos + len <= Threshold
  /\ data' = [p \in 1 .. (IF pos + len > size THEN pos + len ELSE size) |->
                IF p \in pos + 1 .. pos + len THEN Buffer(pos, len)[p - pos] ELSE data[p]]
  /\ size' = Len(data')
  /\ UNCHANGED <<flash, taken, index, fault>>

(* Mutant of Grown: all of the cache goes before the buffer. *)
GrownAll(pos, len) == data \o Buffer(pos, len)

(* s2b_file_write: what is before pos in the cache, and the buffer, become  *)
(* a run of their own.  NOSPC leaves the small file.                        *)
Grown(pos, len) == SubSeq(data, 1, pos) \o Buffer(pos, len)

SmallToBig(pos, len) ==
  LET num == CeilDiv(pos + len, PerSector) IN
  /\ index = <<>> /\ pos + len > Threshold
  /\ \/ num > RegionSize /\ Stop
     \/ /\ num <= RegionSize
        /\ \E b \in Runs(Memory, num) :
             Become([Programmed(Alloc(Memory, b, num), b, DataOff, Grown(pos, len))
                     EXCEPT !.index = <<Place(b, DataOff, pos + len)>>])
        /\ data' = <<>> /\ size' = pos + len /\ UNCHANGED fault

(* The place behind the last entry; at the start of a sector it is not free. *)
TailOf(entries) == Jump(entries[Len(entries)], entries[Len(entries)].size)

(* The last entry grows by n bytes. *)
Longer(entries, n) == [entries EXCEPT ![Len(entries)].size = @ + n]

(* big_file_append: the rest of the last sector is filled, then a new run   *)
(* begins.  The run is programmed from the start of the buffer, and an      *)
(* entry of its own gets the whole length.                                  *)
BigAppend(m, len) ==
  LET end    == TailOf(m.index)
      fill   == IF end.off = DataOff THEN 0 ELSE Least(SectorSize - end.off, len)
      rest   == len - fill
      num    == CeilDiv(rest, PerSector)
      bytes  == Buffer(size, len)
      filled == [Programmed(m, end.sector, end.off, SubSeq(bytes, 1, fill))
                 EXCEPT !.index = Longer(@, fill)]
      Added(b) ==
        LET new == Programmed(Alloc(filled, b, num), b, DataOff, SubSeq(bytes, 1, rest))
        IN  IF end.sector + 1 = b
            THEN [new EXCEPT !.index = Longer(@, rest)]
            ELSE [new EXCEPT !.index = Append(@, Place(b, DataOff, len))]
      Fitting(b) == AppendsFit => fill = 0 /\ b # end.sector + 1
  IN
  \/ /\ rest = 0
     /\ Become(filled) /\ size' = size + len /\ UNCHANGED fault
  \/ rest > 0 /\ num > RegionSize /\ Stop
  \/ /\ rest > 0 /\ num <= RegionSize /\ Runs(filled, num) = {}
     /\ Become(filled) /\ size' = size + fill /\ UNCHANGED fault
  \/ /\ rest > 0 /\ num <= RegionSize
     /\ \E b \in Runs(filled, num) : Fitting(b) /\ Become(Added(b))
     /\ size' = size + len /\ UNCHANGED fault

(* Mutant of PastFirst: the first sector is given back with the others. *)
PastFirstNot(e) == e

(* The first sector of an entry still holds bytes of the file: it is not    *)
(* given back.  The code takes the next one to begin at IndexOff.           *)
PastFirst(e) ==
  LET part == Least(SectorSize - e.off, e.size)
  IN  IF e.size = part THEN Place(Null, e.off, 0)
      ELSE Place(e.sector + 1, IndexOff, e.size - part)

(* The copy of the entries after the rewritten ones, last one first: where  *)
(* they move to the left it reads entries it has already overwritten.       *)
Shifted(tail, left) ==
  [t \in 1 .. Len(tail) |->
     IF left > 0 THEN tail[t + left * ((Len(tail) - t) \div left)] ELSE tail[t]]

(* big_file_rwrite, up to or past the end of the file: the entry that holds *)
(* pos is cut, and everything behind it goes.                               *)
RewriteEnd(m, pos, len) ==
  LET n     == Len(m.index)
      i     == EntryAt(m.index, pos)
      cut   == pos - StartOf(m.index, i)
      first == Jump(m.index[i], cut)
      begin == IF cut > 0 THEN <<[m.index[i] EXCEPT !.size = cut]>> ELSE <<>>
      old   == <<IF first.off > DataOff THEN PastFirst(first) ELSE first>>
               \o SubSeq(m.index, i + 1, n)
      num   == CeilDiv(len, PerSector)
      After(b) ==
        [GivenBack(Programmed(Alloc(m, b, num), b, DataOff, Buffer(pos, len)), old)
         EXCEPT !.index = SubSeq(m.index, 1, i - 1) \o begin \o <<Place(b, DataOff, len)>>]
  IN
  \/ num > RegionSize /\ Stop
  \/ /\ num <= RegionSize /\ Runs(m, num) = {}
     /\ Become(m) /\ UNCHANGED <<size, fault>>
  \/ /\ num <= RegionSize
     /\ \E b \in Runs(m, num) : Become(After(b))
     /\ size' = pos + len /\ UNCHANGED fault

(* big_file_rwrite inside the file: the entries i to j are replaced by what *)
(* is left of i, the new run and what is left of j.                         *)
RewriteInside(m, pos, len) ==
  LET n     == Len(m.index)
      i     == EntryAt(m.index, pos)
      cut   == pos - StartOf(m.index, i)
      first == Jump(m.index[i], cut)
      work  == [m.index EXCEPT ![i] = first]
      j     == EntryAt(m.index, pos + len - 1)
      upto  == len - Total(SubSeq(work, i, j - 1))     \* bytes of entry j that are replaced
      end   == Jump(work[j], upto)
      begin == IF cut > 0 THEN <<[m.index[i] EXCEPT !.size = cut]>> ELSE <<>>
      gone  == [work EXCEPT ![j] =
                  IF end.sector = @.sector THEN Place(Null, @.off, upto)
                  ELSE Place(@.sector, @.off, upto - (end.off - DataOff))]
      old   == [gone EXCEPT ![i] = IF @.sector # Null THEN PastFirst(@) ELSE @]
      num   == CeilDiv(len, PerSector)
      made  == Len(begin) + 2
      tail  == Shifted(SubSeq(m.index, j + 1, n), j - (i - 1 + made))
      Apart == RewritesApart =>
                 /\ ~ (i = j /\ cut > 0 /\ first.off > DataOff /\ end.sector = first.sector)
                 /\ tail = SubSeq(m.index, j + 1, n)
      After(b) ==
        [GivenBack(Programmed(Alloc(m, b, num), b, DataOff, Buffer(pos, len)),
                   SubSeq(old, i, j))
         EXCEPT !.index = SubSeq(m.index, 1, i - 1) \o begin \o <<Place(b, DataOff, len), end>>
                          \o tail]
  IN
  \/ num > RegionSize /\ Stop
  \/ /\ num <= RegionSize /\ Runs(m, num) = {}
     /\ Become(m) /\ UNCHANGED <<size, fault>>
  \/ /\ num <= RegionSize /\ Runs(m, num) # {}
     /\ upto = work[j].size /\ Stop      \* the assertion that it ends inside entry j
  \/ /\ num <= RegionSize /\ upto # work[j].size /\ Apart
     /\ \E b \in Runs(m, num) : Become(After(b))
     /\ UNCHANGED <<size, fault>>

(* big_file_write, with the GC it begins with. *)
BigWrite(pos, len) ==
  /\ index # <<>>
  /\ \/ GcFaults /\ Stop
     \/ /\ ~ GcFaults
        /\ \E m \in Collected :
             \/ NoRoom(m) /\ Stop
             \/ ~ NoRoom(m) /\ pos = size /\ BigAppend(m, len)
             \/ ~ NoRoom(m) /\ pos < size /\ pos + len >= size /\ RewriteEnd(m, pos, len)
             \/ ~ NoRoom(m) /\ pos + len < size /\ RewriteInside(m, pos, len)
  /\ UNCHANGED data

(* file_write at a position that file_seek allows; past file_max it fails. *)
Write(pos, len) ==
  /\ ~ fault /\ pos <= size /\ pos + len <= MaxSize
  /\ SmallWrite(pos, len) \/ SmallToBig(pos, len) \/ BigWrite(pos, len)

(* file_close, and file_open of what is in flash: file_size is counted. *)
Reopen ==
  /\ ~ fault
  /\ size' = IF index = <<>> THEN Len(data) ELSE Total(index)
  /\ UNCHANGED <<flash, taken, data, index, fault>>

(* file_delete; the next file begins empty. *)
Delete ==
  /\ ~ fault
  /\ Become([GivenBack(Memory, index) EXCEPT !.index = <<>>])
  /\ data' = <<>> /\ size' = 0 /\ UNCHANGED fault

Next ==
  \/ \E pos \in 0 .. MaxSize, len \in Lengths : Write(pos, len)
  \/ Reopen \/ Delete

Spec == Init /\ [][Next]_vars

-----------------------------------------------------------------------------
Byte == ((0 .. MaxSize) \X Tags) \cup {ErasedCell, HeadCell, ClashCell}

TypeOK ==
  /\ flash \in [Sectors -> [0 .. SectorSize - 1 -> Byte]]
  /\ taken \subseteq Sectors
  /\ size \in 0 .. MaxSize /\ fault \in BOOLEAN
  /\ Len(data) <= Threshold /\ ToSet(data) \subseteq Byte
  /\ \A i \in DOMAIN index :
       /\ index[i].sector \in Sectors /\ index[i].off \in DataOff .. SectorSize - 1
       /\ index[i].size \in 1 .. MaxSize
  /\ Len(index) <= IndexMax

(* No sector that still holds bytes of the file has been given back: a GC,  *)
(* a rewrite and a rewrite of its remains count sectors in four ways.       *)
LiveTaken ==
  \A i \in DOMAIN index, k \in 0 .. MaxSize :
    k < index[i].size => Cell(index[i], k)[1] \in taken

(* The entries add up to file_size, which is what a reopened file counts,   *)
(* and no two entries lie in the same sector: giving one back would take    *)
(* the other's bytes.                                                       *)
IndexExact ==
  /\ size = IF index = <<>> THEN Len(data) ELSE Total(index)
  /\ \A i, j \in DOMAIN index : \A k, l \in 0 .. MaxSize :
       (i # j /\ k < index[i].size /\ l < index[j].size) =>
          Cell(index[i], k)[1] # Cell(index[j], l)[1]

(* A read returns the bytes of the file... *)
ReadsBack ==
  LET bytes == Content IN
  ~ fault => \A pos \in 0 .. size - 1 :
               FileRead(pos, size - pos) = SubSeq(bytes, pos + 1, size)

(* ...when it begins in the first sector of an entry. *)
NearReadsBack ==
  LET bytes == Content IN
  ~ fault => \A pos \in 0 .. size - 1 :
    LET i == EntryAt(index, pos) IN
    (index = <<>> \/ index[i].off + pos - StartOf(index, i) < SectorSize) =>
      FileRead(pos, size - pos) = SubSeq(bytes, pos + 1, size)

(* The index is a file: writes change the bytes they are meant for, and     *)
(* garbage collection, moving and reopening change none.                    *)
File == INSTANCE NF2FSByteFile WITH content <- Content

FileSpec == File!Spec
=============================================================================
