--------------------------- MODULE NF2FSCache_proofs ---------------------------
(***************************************************************************)
(* Proofs about NF2FSCache, for any sectors, sizes and lengths of entries.  *)
(*                                                                         *)
(* The argument: what a reader should see of a sector (View) is flash, and  *)
(* the end of one log that waits in pcache.  A flush puts into flash what   *)
(* is seen anyway and changes no view; a program changes the cells of its   *)
(* entry, behind the tail; both tell rcache exactly the cells that changed. *)
(* Heads are whole wherever they are programmed, so that only the end of a  *)
(* window cuts one.                                                        *)
(***************************************************************************)
EXTENDS NF2FSCache, TLAPS

Views    == [Sectors -> [Cells -> SUBSET Marks]]
Memories == [flash : Views, p : Cache, r : Cache]
Slots    == 0 .. CacheSize - 1

(* A cell once its written flag is set, if it begins a head. *)
Set(marks) == IF "head" \in marks THEN marks \cup {"written"} ELSE marks

SeenIn(m, s, c) == IF Covers(m.p, s, c) THEN Set(m.p.buffer[c - m.p.off]) ELSE m.flash[s][c]
View(m) == [s \in Sectors |-> [c \in Cells |-> SeenIn(m, s, c)]]

(* A view is a log up to t[s]: nothing is programmed behind it, and heads   *)
(* before it are written and followed by more of their entry.               *)
Logged(v, t) ==
  \A s \in Sectors :
    /\ t[s] >= FirstOff
    /\ \A c \in Cells :
         /\ c < t[s] <=> v[s][c] # {}
         /\ "head" \in v[s][c] => "written" \in v[s][c] /\ c + HeadSize < t[s]

(* What waits in p is the end of one log, and begins between two entries.   *)
Waiting(m, t) ==
  IF m.p.sector = Null THEN m.p = One
  ELSE /\ m.p.off >= FirstOff /\ m.p.off + m.p.size = t[m.p.sector]
       /\ \A c \in Cells : c < m.p.off /\ "head" \in m.flash[m.p.sector][c] =>
                             c + HeadSize < m.p.off
       /\ \A i \in Slots :
            /\ i >= m.p.size => m.p.buffer[i] = {}
            /\ "written" \notin m.p.buffer[i]
            /\ i < m.p.size => /\ m.flash[m.p.sector][m.p.off + i] \subseteq m.p.buffer[i]
                               /\ "head" \in m.p.buffer[i] => i + HeadSize < m.p.size

(* A window is as long as the cache, or ends with the sector. *)
Window(cache) ==
  IF cache.sector = Null THEN cache.size = 0
  ELSE cache.size = IF cache.off + CacheSize < SectorSize THEN CacheSize
                    ELSE SectorSize - cache.off

Agrees(marks, cell, i, size) ==
  IF i + HeadSize <= size THEN marks = cell ELSE marks \ {"written"} = cell \ {"written"}

Coherent(cache, v) ==
  \A i \in Slots : i < cache.size =>
    Agrees(cache.buffer[i], v[cache.sector][cache.off + i], i, cache.size)

(* The part of the invariant that every step of an operation keeps... *)
Sound(m, t) ==
  /\ m \in Memories /\ t \in [Sectors -> Cells]
  /\ Logged(View(m), t) /\ Waiting(m, t) /\ Window(m.r) /\ Coherent(m.r, View(m))

(* ...and what holds between two operations. *)
Rested(p) == p.sector # Null => p.size > 0 /\ p.size <= CacheSize - HeadSize

IInv == Sound(Memory, tail) /\ Rested(pcache)

USE HeadSizeAssumption, CacheSizeAssumption, SectorSizeAssumption, NullAssumption

-----------------------------------------------------------------------------
(* The pieces. *)

LEMMA MemoryFields ==
  ASSUME NEW m \in Memories
  PROVE  /\ m.flash \in Views /\ m.p \in Cache /\ m.r \in Cache
         /\ m = [flash |-> m.flash, p |-> m.p, r |-> m.r]
BY DEF Memories

LEMMA CacheFields ==
  ASSUME NEW cache \in Cache
  PROVE  /\ cache.sector \in Sectors \cup {Null} /\ cache.off \in Cells
         /\ cache.size \in 0 .. CacheSize /\ cache.buffer \in [Slots -> SUBSET Marks]
         /\ \A i \in Slots : cache.buffer[i] \subseteq Marks
BY DEF Cache, Slots

LEMMA OneIsCache == One \in Cache /\ One.sector = Null /\ One.size = 0
<1>1. 0 \in Cells /\ 0 \in 0 .. CacheSize
  BY DEF Cells
<1>2. [i \in 0 .. CacheSize - 1 |-> {}] \in [0 .. CacheSize - 1 -> SUBSET Marks]
  OBVIOUS
<1> QED BY <1>1, <1>2 DEF One, Cache

LEMMA SetMarks ==
  ASSUME NEW marks \in SUBSET Marks
  PROVE  Set(marks) \in SUBSET Marks /\ ("head" \in Set(marks) <=> "head" \in marks)
         /\ (marks = {} <=> Set(marks) = {})
BY DEF Set, Marks

LEMMA ViewType ==
  ASSUME NEW m \in Memories
  PROVE  /\ View(m) \in Views
         /\ \A s \in Sectors, c \in Cells : View(m)[s][c] = SeenIn(m, s, c)
<1>1. ASSUME NEW s \in Sectors, NEW c \in Cells
      PROVE  SeenIn(m, s, c) \in SUBSET Marks
  <2>1. CASE Covers(m.p, s, c)
    <3>1. c - m.p.off \in Slots
      BY <2>1, MemoryFields, CacheFields DEF Covers, Slots, Cells
    <3>2. m.p.buffer[c - m.p.off] \in SUBSET Marks
      BY <3>1, MemoryFields, CacheFields
    <3> QED BY <2>1, <3>2, SetMarks DEF SeenIn
  <2>2. CASE ~ Covers(m.p, s, c)
    BY <2>2, MemoryFields DEF SeenIn, Views
  <2> QED BY <2>1, <2>2
<1> QED BY <1>1 DEF View, Views

LEMMA WrittenIs ==
  ASSUME NEW data, NEW from \in Int, NEW to \in Int, NEW i \in DOMAIN data
  PROVE  /\ DOMAIN Written(data, from, to) = DOMAIN data
         /\ Written(data, from, to)[i] =
              IF i >= from /\ i + HeadSize <= to THEN Set(data[i]) ELSE data[i]
BY DEF Written, Set

(* dprog_cache_sync keeps a window, and replaces the cells that it covers.  *)
LEMMA SyncedCells ==
  ASSUME NEW cache \in Cache, Window(cache), cache.sector # Null,
         NEW s \in Sectors, NEW off \in Cells, NEW len \in Nat \ {0}, off + len < SectorSize,
         NEW data, \A j \in 0 .. len - 1 : data[j] \in SUBSET Marks
  PROVE  LET n == Synced(cache, s, off, len, data)
         IN  /\ n \in Cache /\ n.sector = cache.sector /\ n.off = cache.off /\ n.size = cache.size
             /\ \A i \in Slots : i < cache.size =>
                  n.buffer[i] =
                    IF s = cache.sector /\ cache.off + i >= off /\ cache.off + i < off + len
                    THEN IF i + HeadSize <= off + len - cache.off /\ i + HeadSize <= CacheSize
                         THEN Set(data[cache.off + i - off]) ELSE data[cache.off + i - off]
                    ELSE cache.buffer[i]
<1> DEFINE n == Synced(cache, s, off, len, data)
           at == off - cache.off
           from == IF at < 0 THEN 0 ELSE at
           to == IF at + len < CacheSize THEN at + len ELSE CacheSize
           new == [i \in 0 .. CacheSize - 1 |-> IF i \in from .. to - 1 THEN data[i - at]
                                                ELSE cache.buffer[i]]
           hit == s = cache.sector /\ off + len > cache.off /\ off < cache.off + cache.size
<1>0. /\ cache.off \in Nat /\ cache.off < SectorSize /\ cache.size \in Nat
      /\ cache.size <= CacheSize /\ off \in Nat /\ len \in Nat /\ len > 0
      /\ cache.size = IF cache.off + CacheSize < SectorSize THEN CacheSize
                      ELSE SectorSize - cache.off
  BY CacheFields DEF Window, Cells
<1>1. CASE ~ hit
  <2>1. n = cache
    BY <1>1 DEF Synced
  <2>2. ASSUME NEW i \in Slots, i < cache.size
        PROVE  ~ (s = cache.sector /\ cache.off + i >= off /\ cache.off + i < off + len)
    BY <1>0, <1>1, <2>2 DEF Slots
  <2> QED BY <2>1, <2>2
<1>2. CASE hit
  <2>1. /\ at \in Int /\ from \in Nat /\ to \in Nat /\ to <= cache.size /\ to <= CacheSize
        /\ from >= at /\ to - at <= len
    BY <1>0, <1>2
  <2>2. n = [cache EXCEPT !.buffer = Written(new, from, to), !.size = IF to > @ THEN to ELSE @]
    BY <1>2 DEF Synced
  <2>3. ~ (to > cache.size)
    BY <1>0, <2>1
  <2>4. cache = [sector |-> cache.sector, off |-> cache.off, size |-> cache.size,
                 buffer |-> cache.buffer]
    BY DEF Cache
  <2>5. n = [sector |-> cache.sector, off |-> cache.off, size |-> cache.size,
             buffer |-> Written(new, from, to)]
    BY <2>2, <2>3, <2>4
  <2>6. ASSUME NEW i \in Slots
        PROVE  /\ new[i] = IF i \in from .. to - 1 THEN data[i - at] ELSE cache.buffer[i]
               /\ new[i] \in SUBSET Marks
    <3>1. new[i] = IF i \in from .. to - 1 THEN data[i - at] ELSE cache.buffer[i]
      BY DEF Slots
    <3>2. i \in from .. to - 1 => i - at \in 0 .. len - 1
      BY <1>0, <2>1 DEF Slots
    <3> QED BY <3>1, <3>2, CacheFields
  <2>7. DOMAIN new = Slots
    BY DEF Slots
  <2> HIDE DEF new
  <2>8. ASSUME NEW i \in Slots
        PROVE  /\ Written(new, from, to)[i] =
                    IF i >= from /\ i + HeadSize <= to THEN Set(new[i]) ELSE new[i]
               /\ Written(new, from, to)[i] \in SUBSET Marks
    <3>1. Written(new, from, to)[i] =
                    IF i >= from /\ i + HeadSize <= to THEN Set(new[i]) ELSE new[i]
      BY <2>1, <2>7, WrittenIs
    <3> QED BY <3>1, <2>6, SetMarks
  <2>9. Written(new, from, to) \in [0 .. CacheSize - 1 -> SUBSET Marks]
    <3>1. Written(new, from, to) = [i \in Slots |-> Written(new, from, to)[i]]
      BY <2>7 DEF Written
    <3> QED BY <3>1, <2>8 DEF Slots
  <2>10. n \in Cache
    BY <2>5, <2>9, CacheFields DEF Cache
  <2>11. ASSUME NEW i \in Slots, i < cache.size
         PROVE  n.buffer[i] =
                    IF s = cache.sector /\ cache.off + i >= off /\ cache.off + i < off + len
                    THEN IF i + HeadSize <= off + len - cache.off /\ i + HeadSize <= CacheSize
                         THEN Set(data[cache.off + i - off]) ELSE data[cache.off + i - off]
                    ELSE cache.buffer[i]
    <3>1. i \in Nat /\ i < CacheSize
      BY DEF Slots
    <3>2. n.buffer[i] = Written(new, from, to)[i]
      BY <2>5
    <3>3. CASE i \in from .. to - 1
      <4>1. i >= at /\ cache.off + i >= off /\ cache.off + i < off + len /\ i - at = cache.off + i - off
        BY <1>0, <2>1, <3>1, <3>3
      <4>2. i + HeadSize <= to <=> i + HeadSize <= off + len - cache.off /\ i + HeadSize <= CacheSize
        BY <1>0, <3>1
      <4>3. i >= from
        BY <3>3, <2>1
      <4>4. new[i] = data[cache.off + i - off]
        BY <2>6, <3>3, <4>1
      <4> QED BY <1>2, <2>8, <3>2, <4>1, <4>2, <4>3, <4>4
    <3>4. CASE i \notin from .. to - 1
      <4>1. ~ (cache.off + i >= off /\ cache.off + i < off + len)
        BY <1>0, <3>1, <3>4
      <4>2. ~ (i >= from /\ i + HeadSize <= to)
        BY <2>1, <3>1, <3>4
      <4> QED BY <2>6, <2>8, <3>2, <3>4, <4>1, <4>2
    <3> QED BY <3>3, <3>4
  <2> QED BY <2>5, <2>10, <2>11
<1> QED BY <1>1, <1>2

(* If the cells that change in a view are those of some data with whole     *)
(* heads, a cache that is synchronised with the data agrees with the new    *)
(* view.                                                                    *)
Changed(v, w, s, off, len, data) ==
  \A x \in Sectors, c \in Cells :
    w[x][c] = IF x = s /\ c >= off /\ c < off + len THEN Set(data[c - off]) ELSE v[x][c]

Whole(data, len) == \A i \in 0 .. len - 1 : "head" \in data[i] => i + HeadSize <= len

LEMMA SetWithout ==
  ASSUME NEW marks
  PROVE  Set(marks) \ {"written"} = marks \ {"written"} /\ ("head" \notin marks => Set(marks) = marks)
BY DEF Set

LEMMA SyncedCoherent ==
  ASSUME NEW cache \in Cache, Window(cache), NEW v \in Views, Coherent(cache, v), NEW w,
         NEW s \in Sectors, NEW off \in Cells, NEW len \in Nat \ {0}, off + len < SectorSize,
         NEW data, \A j \in 0 .. len - 1 : data[j] \in SUBSET Marks,
         Whole(data, len), Changed(v, w, s, off, len, data)
  PROVE  LET n == Synced(cache, s, off, len, data)
         IN  n \in Cache /\ Window(n) /\ Coherent(n, w)
<1> DEFINE n == Synced(cache, s, off, len, data)
<1>1. CASE cache.sector = Null
  <2>1. n = cache
    BY <1>1 DEF Synced
  <2>2. Coherent(n, w)
    BY <1>1, <2>1 DEF Coherent, Slots, Window
  <2> QED BY <2>1, <2>2
<1>2. CASE cache.sector # Null
  <2>1. /\ n \in Cache /\ n.sector = cache.sector /\ n.off = cache.off /\ n.size = cache.size
        /\ \A i \in Slots : i < cache.size =>
                  n.buffer[i] =
                    IF s = cache.sector /\ cache.off + i >= off /\ cache.off + i < off + len
                    THEN IF i + HeadSize <= off + len - cache.off /\ i + HeadSize <= CacheSize
                         THEN Set(data[cache.off + i - off]) ELSE data[cache.off + i - off]
                    ELSE cache.buffer[i]
    BY <1>2, SyncedCells
  <2>2. /\ cache.sector \in Sectors /\ cache.off \in Nat /\ cache.size \in Nat
        /\ cache.size <= CacheSize /\ off \in Nat
    BY <1>2, CacheFields DEF Cells
  <2> HIDE DEF n
  <2>3. Window(n)
    BY <2>1 DEF Window
  <2>4. ASSUME NEW i \in Slots, i < n.size
        PROVE  Agrees(n.buffer[i], w[n.sector][n.off + i], i, n.size)
    <3> DEFINE c == cache.off + i
    <3>1. i \in Nat /\ i < cache.size /\ c \in Cells
      <4>1. i \in Nat /\ i < cache.size
        BY <2>1, <2>4 DEF Slots
      <4>2. cache.off + cache.size <= SectorSize
        BY <1>2, <2>2 DEF Window
      <4> QED BY <2>2, <4>1, <4>2 DEF Cells
    <3>2. Agrees(cache.buffer[i], v[cache.sector][c], i, cache.size)
      BY <3>1 DEF Coherent
    <3>3. CASE s = cache.sector /\ c >= off /\ c < off + len
      <4> DEFINE d == data[c - off]
      <4>1. w[cache.sector][c] = Set(d)
        BY <2>2, <3>1, <3>3 DEF Changed
      <4>2. n.buffer[i] = IF i + HeadSize <= off + len - cache.off /\ i + HeadSize <= CacheSize
                          THEN Set(d) ELSE d
        <5> HIDE DEF c
        <5>1. cache.off + i = c
          BY DEF c
        <5>2. n.buffer[i] = IF s = cache.sector /\ cache.off + i >= off /\ cache.off + i < off + len
                    THEN IF i + HeadSize <= off + len - cache.off /\ i + HeadSize <= CacheSize
                         THEN Set(data[cache.off + i - off]) ELSE data[cache.off + i - off]
                    ELSE cache.buffer[i]
          BY <2>1, <3>1
        <5> QED BY <2>2, <3>1, <3>3, <5>1, <5>2
      <4>3. CASE i + HeadSize <= cache.size
        <5>1. i + HeadSize <= CacheSize
          BY <2>2, <3>1, <4>3
        <5>2. c - off \in 0 .. len - 1
          BY <2>2, <3>1, <3>3
        <5>3. "head" \in d => i + HeadSize <= off + len - cache.off
          BY <2>2, <3>1, <5>2 DEF Whole
        <5>4. n.buffer[i] = Set(d)
          <6> HIDE DEF d, c
          <6> QED BY <4>2, <5>1, <5>3, SetWithout
        <5> QED BY <2>1, <4>1, <4>3, <5>4 DEF Agrees
      <4>4. CASE ~ (i + HeadSize <= cache.size)
        <5> HIDE DEF d
        <5>1. n.buffer[i] \ {"written"} = Set(d) \ {"written"}
          BY <4>2, SetWithout
        <5> QED BY <2>1, <4>1, <4>4, <5>1 DEF Agrees
      <4> QED BY <4>3, <4>4
    <3>4. CASE ~ (s = cache.sector /\ c >= off /\ c < off + len)
      <4>1. w[cache.sector][c] = v[cache.sector][c]
        BY <2>2, <3>1, <3>4 DEF Changed
      <4>2. n.buffer[i] = cache.buffer[i]
        BY <2>1, <3>1, <3>4
      <4> QED BY <2>1, <3>2, <4>1, <4>2 DEF Agrees
    <3> QED BY <3>3, <3>4
  <2>5. Coherent(n, w)
    BY <2>4 DEF Coherent
  <2> QED BY <2>1, <2>3, <2>5 DEF n
<1> QED BY <1>1, <1>2

-----------------------------------------------------------------------------
(* A flush. *)

LEMMA ProgrammedType ==
  ASSUME NEW f \in Views, NEW s \in Sectors, NEW off \in Cells, NEW len \in Nat,
         NEW data, \A j \in 0 .. len - 1 : data[j] \in SUBSET Marks
  PROVE  Programmed(f, s, off, len, data) \in Views
<1> DEFINE row == [c \in Cells |-> IF c \in off .. off + len - 1
                                   THEN f[s][c] \cup data[c - off] ELSE f[s][c]]
<1>1. Programmed(f, s, off, len, data) = [f EXCEPT ![s] = row]
  BY DEF Programmed
<1>2. ASSUME NEW c \in Cells
      PROVE  row[c] \in SUBSET Marks
  <2>1. c \in off .. off + len - 1 => c - off \in 0 .. len - 1
    BY DEF Cells
  <2> QED BY <2>1 DEF Views
<1> QED BY <1>1, <1>2 DEF Views

(* Marks programmed over others; a name for the provers to take as it is. *)
Over(marks, more) == marks \cup more

LEMMA ProgrammedCell ==
  ASSUME NEW f \in Views, NEW s \in Sectors, NEW off \in Cells, NEW len \in Nat, NEW data,
         NEW x \in Sectors, NEW c \in Cells
  PROVE  Programmed(f, s, off, len, data)[x][c] =
           IF x = s /\ c >= off /\ c < off + len THEN Over(f[x][c], data[c - off]) ELSE f[x][c]
<1> DEFINE row == [d \in Cells |-> IF d \in off .. off + len - 1
                                   THEN f[s][d] \cup data[d - off] ELSE f[s][d]]
<1>1. Programmed(f, s, off, len, data)[x] = IF x = s THEN row ELSE f[x]
  BY DEF Programmed, Views
<1>2. c \in Int /\ (c \in off .. off + len - 1 <=> c >= off /\ c < off + len)
  BY DEF Cells
<1>3. row[c] = IF c >= off /\ c < off + len THEN f[s][c] \cup data[c - off] ELSE f[s][c]
  BY <1>2
<1> QED BY <1>1, <1>3 DEF Over

(* What a cell of the write cache is, and that it shows. *)
LEMMA WaitingCells ==
  ASSUME NEW m \in Memories, NEW t \in [Sectors -> Cells], Waiting(m, t), m.p.size > 0
  PROVE  /\ m.p.sector \in Sectors /\ m.p.off \in Cells /\ m.p.off \in Nat /\ m.p.size \in Nat \ {0}
         /\ m.p.size <= CacheSize /\ m.p.off + m.p.size < SectorSize
         /\ Whole(m.p.buffer, m.p.size)
         /\ \A s \in Sectors, c \in Cells :
              View(m)[s][c] = IF s = m.p.sector /\ c >= m.p.off /\ c < m.p.off + m.p.size
                              THEN Set(m.p.buffer[c - m.p.off]) ELSE m.flash[s][c]
<1>1. m.p \in Cache /\ m.flash \in Views
  BY MemoryFields
<1>2. m.p.sector # Null
  BY OneIsCache DEF Waiting
<1>3. /\ m.p.sector \in Sectors /\ m.p.off \in Cells /\ m.p.off \in Nat /\ m.p.size \in Nat \ {0}
      /\ m.p.size <= CacheSize
  BY <1>1, <1>2, CacheFields DEF Cells
<1>4. m.p.off + m.p.size < SectorSize
  <2>1. t[m.p.sector] \in Cells
    BY <1>3
  <2> QED BY <1>2, <2>1 DEF Waiting, Cells
<1>5. Whole(m.p.buffer, m.p.size)
  <2>1. ASSUME NEW i \in 0 .. m.p.size - 1, "head" \in m.p.buffer[i]
        PROVE  i + HeadSize <= m.p.size
    <3>1. i \in Slots /\ i < m.p.size /\ i \in Nat
      BY <1>3 DEF Slots
    <3> QED BY <1>2, <1>3, <2>1, <3>1 DEF Waiting
  <2> QED BY <2>1 DEF Whole
<1>6. \A s \in Sectors, c \in Cells :
              View(m)[s][c] = IF s = m.p.sector /\ c >= m.p.off /\ c < m.p.off + m.p.size
                              THEN Set(m.p.buffer[c - m.p.off]) ELSE m.flash[s][c]
  BY ViewType DEF SeenIn, Covers
<1> QED BY <1>3, <1>4, <1>5, <1>6

(* A flush changes no view; what was seen is in flash. *)
LEMMA FlushedSound ==
  ASSUME NEW m, NEW t, Sound(m, t)
  PROVE  LET n == Flushed(m)
         IN  /\ Sound(n, t) /\ View(n) = View(m) /\ n.flash = View(m)
             /\ (m.p.size > 0 => n.p = One) /\ (m.p.size = 0 => n = m)
<1> DEFINE n == Flushed(m)
<1>1. /\ m \in Memories /\ t \in [Sectors -> Cells] /\ m.p \in Cache /\ m.r \in Cache
      /\ m.flash \in Views /\ m.p.size \in Nat
  BY MemoryFields, CacheFields DEF Sound
<1>2. CASE m.p.size = 0
  <2>1. n = m
    BY <1>2 DEF Flushed
  <2>2. ASSUME NEW s \in Sectors, NEW c \in Cells
        PROVE  View(m)[s][c] = m.flash[s][c]
    <3>1. ~ Covers(m.p, s, c)
      BY <1>1, <1>2, CacheFields DEF Covers, Cells
    <3> QED BY <1>1, <3>1, ViewType DEF SeenIn
  <2>3. View(m) = m.flash
    BY <1>1, <2>2, ViewType DEF Views
  <2> QED BY <1>2, <2>1, <2>3
<1>3. CASE m.p.size > 0
  <2> DEFINE p == m.p
             data == Written(p.buffer, 0, p.size)
             v == View(m)
  <2>1. /\ p.sector \in Sectors /\ p.off \in Cells /\ p.off \in Nat /\ p.size \in Nat \ {0}
        /\ p.size <= CacheSize /\ p.off + p.size < SectorSize /\ Whole(p.buffer, p.size)
        /\ \A s \in Sectors, c \in Cells :
              v[s][c] = IF s = p.sector /\ c >= p.off /\ c < p.off + p.size
                        THEN Set(p.buffer[c - p.off]) ELSE m.flash[s][c]
    BY <1>1, <1>3, WaitingCells DEF Sound
  <2>2. p.buffer \in [Slots -> SUBSET Marks] /\ DOMAIN p.buffer = Slots
    BY <1>1, CacheFields
  <2>3. ASSUME NEW i \in Slots
        PROVE  /\ data[i] = IF i + HeadSize <= p.size THEN Set(p.buffer[i]) ELSE p.buffer[i]
               /\ data[i] \in SUBSET Marks
    <3>1. data[i] = IF i >= 0 /\ i + HeadSize <= p.size THEN Set(p.buffer[i]) ELSE p.buffer[i]
      <4>1. i \in DOMAIN p.buffer /\ 0 \in Int /\ p.size \in Int
        BY <2>1, <2>2
      <4> HIDE DEF p
      <4> QED BY ONLY <4>1, WrittenIs DEF data
    <3>2. i >= 0
      BY DEF Slots
    <3> QED BY <2>2, <3>1, <3>2, SetMarks
  <2>4. \A i \in Slots : data[i] \in SUBSET Marks
    BY <2>3
  <2>5. ASSUME NEW i \in 0 .. p.size - 1
        PROVE  i \in Slots /\ data[i] = Set(p.buffer[i]) /\ Set(data[i]) = data[i]
               /\ ("head" \in data[i] <=> "head" \in p.buffer[i])
    <3>1. i \in Slots
      BY <2>1 DEF Slots
    <3>2. "head" \in p.buffer[i] => i + HeadSize <= p.size
      BY <2>1 DEF Whole
    <3> QED BY <2>3, <3>1, <3>2 DEF Set
  <2>6. n = [flash |-> Programmed(m.flash, p.sector, p.off, p.size, data), p |-> One,
             r |-> Synced(m.r, p.sector, p.off, p.size, data)]
    BY <1>3 DEF Flushed
  <2> HIDE DEF data, n
  <2>5a. \A j \in 0 .. p.size - 1 : data[j] \in SUBSET Marks
    BY <2>4, <2>5
  <2>8. n.flash \in Views /\ n.flash = v
    <3>1. /\ n.flash \in Views
          /\ \A s \in Sectors, c \in Cells :
               n.flash[s][c] = IF s = p.sector /\ c >= p.off /\ c < p.off + p.size
                               THEN Over(m.flash[s][c], data[c - p.off]) ELSE m.flash[s][c]
      <4>1. m.flash \in Views /\ p.sector \in Sectors /\ p.off \in Cells /\ p.size \in Nat
        BY <1>1, <2>1
      <4>2. n.flash = Programmed(m.flash, p.sector, p.off, p.size, data)
        BY <2>6
      <4> HIDE DEF p
      <4>3. n.flash \in Views
        BY <2>5a, <4>1, <4>2, ProgrammedType
      <4>4. ASSUME NEW s \in Sectors, NEW c \in Cells
            PROVE  n.flash[s][c] = IF s = p.sector /\ c >= p.off /\ c < p.off + p.size
                               THEN Over(m.flash[s][c], data[c - p.off]) ELSE m.flash[s][c]
        <5>1. Programmed(m.flash, p.sector, p.off, p.size, data)[s][c] =
                IF s = p.sector /\ c >= p.off /\ c < p.off + p.size
                THEN Over(m.flash[s][c], data[c - p.off]) ELSE m.flash[s][c]
          BY <4>1, ProgrammedCell
        <5> QED BY <4>2, <5>1
      <4> QED BY <4>3, <4>4
    <3>2. ASSUME NEW s \in Sectors, NEW c \in Cells
          PROVE  n.flash[s][c] = v[s][c]
      <4>1. CASE s = p.sector /\ c >= p.off /\ c < p.off + p.size
        <5>1. c - p.off \in 0 .. p.size - 1 /\ c = p.off + (c - p.off)
          BY <2>1, <4>1 DEF Cells
        <5>2. m.flash[s][c] \subseteq p.buffer[c - p.off]
          BY <2>1, <2>5, <4>1, <5>1 DEF Sound, Waiting
        <5>3. n.flash[s][c] = m.flash[s][c] \cup data[c - p.off]
          BY <3>1, <4>1 DEF Over
        <5>4. data[c - p.off] = Set(p.buffer[c - p.off])
          BY <2>5, <5>1
        <5>5. p.buffer[c - p.off] \subseteq Set(p.buffer[c - p.off])
          BY DEF Set
        <5>6. v[s][c] = Set(p.buffer[c - p.off])
          BY <2>1, <4>1
        <5> QED BY <5>2, <5>3, <5>4, <5>5, <5>6
      <4>2. CASE ~ (s = p.sector /\ c >= p.off /\ c < p.off + p.size)
        BY <2>1, <3>1, <4>2
      <4> QED BY <4>1, <4>2
    <3>3. v \in Views
      BY <1>1, ViewType
    <3> QED BY <3>1, <3>2, <3>3 DEF Views
  <2>9. n.r \in Cache /\ Window(n.r) /\ Coherent(n.r, v)
    <3>1. Whole(data, p.size)
      BY <2>1, <2>5 DEF Whole
    <3>2. Changed(v, v, p.sector, p.off, p.size, data)
      <4>1. ASSUME NEW s \in Sectors, NEW c \in Cells, s = p.sector, c >= p.off, c < p.off + p.size
            PROVE  v[s][c] = Set(data[c - p.off])
        <5>1. c - p.off \in 0 .. p.size - 1
          BY <2>1, <4>1 DEF Cells
        <5> QED BY <2>1, <2>5, <4>1, <5>1
      <4> QED BY <4>1 DEF Changed
    <3>3. v \in Views
      BY <1>1, ViewType
    <3>4. Window(m.r) /\ Coherent(m.r, v)
      BY DEF Sound
    <3> HIDE DEF v, p
    <3>5. LET k == Synced(m.r, p.sector, p.off, p.size, data)
          IN  k \in Cache /\ Window(k) /\ Coherent(k, v)
      BY <1>1, <2>1, <2>5a, <3>1, <3>2, <3>3, <3>4, SyncedCoherent
    <3> QED BY <2>6, <3>5
  <2>10. n.p = One /\ n \in Memories
    BY <2>6, <2>8, <2>9, OneIsCache DEF Memories
  <2>11. View(n) = v
    <3>1. ASSUME NEW s \in Sectors, NEW c \in Cells
          PROVE  View(n)[s][c] = v[s][c]
      <4>1. ~ Covers(n.p, s, c)
        BY <2>10, OneIsCache DEF Covers
      <4> QED BY <2>8, <2>10, <4>1, ViewType DEF SeenIn
    <3>2. View(n) \in Views /\ v \in Views
      BY <1>1, <2>10, ViewType
    <3> QED BY <3>1, <3>2 DEF Views
  <2>12. Logged(v, t)
    BY DEF Sound
  <2>13. Waiting(n, t)
    BY <2>10, OneIsCache DEF Waiting
  <2>14. Sound(n, t)
    BY <1>1, <2>9, <2>10, <2>11, <2>12, <2>13 DEF Sound
  <2> QED BY <1>3, <2>8, <2>10, <2>11, <2>14 DEF n
<1> QED BY <1>1, <1>2, <1>3

-----------------------------------------------------------------------------
(* An entry, programmed at the tail. *)

LEMMA EntryCells ==
  ASSUME NEW len \in Lengths
  PROVE  /\ len \in Nat \ {0} /\ len > HeadSize
         /\ \A j \in 0 .. len - 1 : Entry(len)[j] = IF j = 0 THEN {"head"} ELSE {"body"}
         /\ \A j \in 0 .. len - 1 : Entry(len)[j] \in SUBSET Marks
         /\ Whole(Entry(len), len)
<1>1. len \in Nat \ {0} /\ len > HeadSize
  BY LengthsAssumption
<1>2. \A j \in 0 .. len - 1 : Entry(len)[j] = IF j = 0 THEN {"head"} ELSE {"body"}
  BY DEF Entry
<1>3. \A j \in 0 .. len - 1 : Entry(len)[j] \in SUBSET Marks
  BY <1>2 DEF Marks
<1>4. ASSUME NEW j \in 0 .. len - 1, "head" \in Entry(len)[j]
      PROVE  j + HeadSize <= len
  <2>1. j = 0
    BY <1>2, <1>4
  <2> QED BY <1>1, <2>1
<1> QED BY <1>1, <1>2, <1>3, <1>4 DEF Whole

(* The view that has an entry behind what it had is a log again. *)
LEMMA LoggedMore ==
  ASSUME NEW v \in Views, NEW w, NEW t \in [Sectors -> Cells], Logged(v, t),
         NEW s \in Sectors, NEW len \in Lengths, t[s] + len < SectorSize,
         Changed(v, w, s, t[s], len, Entry(len))
  PROVE  LET u == [t EXCEPT ![s] = @ + len]
         IN  u \in [Sectors -> Cells] /\ u[s] = t[s] + len /\ Logged(w, u)
<1> DEFINE u == [t EXCEPT ![s] = @ + len]
<1>1. /\ len \in Nat \ {0} /\ len > HeadSize /\ t[s] \in Nat
      /\ \A j \in 0 .. len - 1 : Entry(len)[j] = IF j = 0 THEN {"head"} ELSE {"body"}
  BY EntryCells DEF Cells
<1>2. t[s] + len \in Cells
  BY <1>1 DEF Cells
<1>3. u \in [Sectors -> Cells] /\ u[s] = t[s] + len /\ \A x \in Sectors : x # s => u[x] = t[x]
  BY <1>2
<1> HIDE DEF u
<1>4. ASSUME NEW x \in Sectors
      PROVE  u[x] >= FirstOff
  <2>1. t[x] >= FirstOff /\ t[s] >= FirstOff
    BY DEF Logged
  <2>2. t[x] \in Int /\ FirstOff \in Int
    BY DEF Cells, FirstOff
  <2> QED BY <1>1, <1>3, <2>1, <2>2
<1>5. ASSUME NEW x \in Sectors, NEW c \in Cells
      PROVE  /\ c < u[x] <=> w[x][c] # {}
             /\ "head" \in w[x][c] => "written" \in w[x][c] /\ c + HeadSize < u[x]
  <2>1. /\ c < t[x] <=> v[x][c] # {}
        /\ "head" \in v[x][c] => "written" \in v[x][c] /\ c + HeadSize < t[x]
    BY DEF Logged
  <2>2. c \in Nat /\ t[x] \in Nat
    BY DEF Cells
  <2>3. CASE x = s /\ c >= t[s] /\ c < t[s] + len
    <3>1. w[x][c] = Set(Entry(len)[c - t[s]])
      BY <2>3 DEF Changed
    <3>2. c - t[s] \in 0 .. len - 1
      BY <1>1, <2>2, <2>3
    <3>3. Entry(len)[c - t[s]] = IF c = t[s] THEN {"head"} ELSE {"body"}
      BY <1>1, <2>2, <3>2
    <3>4. w[x][c] = IF c = t[s] THEN {"head", "written"} ELSE {"body"}
      BY <3>1, <3>3 DEF Set
    <3>5. c = t[s] => c + HeadSize < t[s] + len
      BY <1>1
    <3> QED BY <1>3, <2>3, <3>4, <3>5
  <2>4. CASE ~ (x = s /\ c >= t[s] /\ c < t[s] + len)
    <3>1. w[x][c] = v[x][c]
      BY <2>4 DEF Changed
    <3>2. (c < u[x] <=> c < t[x]) /\ (c + HeadSize < t[x] => c + HeadSize < u[x])
      BY <1>1, <1>3, <2>2, <2>4
    <3> QED BY <2>1, <3>1, <3>2
  <2> QED BY <2>3, <2>4
<1>6. Logged(w, u)
  BY <1>4, <1>5 DEF Logged
<1> QED BY <1>3, <1>6 DEF u

(* cache_prog's copy, before a full cache is flushed. *)
Longer(p, len, data) ==
  [sector |-> p.sector, off |-> p.off, size |-> p.size + len,
   buffer |-> [i \in Slots |-> IF i \in p.size .. p.size + len - 1 THEN data[i - p.size]
                               ELSE p.buffer[i]]]
Copied(m, s, off, len, data) ==
  [flash |-> m.flash, p |-> Longer(m.p, len, data), r |-> Synced(m.r, s, off, len, data)]

LEMMA PutIs ==
  ASSUME NEW m \in Memories, NEW s, NEW off, NEW len, NEW data
  PROVE  Put(m, s, off, len, data) =
           IF m.p.size + len > CacheSize - HeadSize THEN Flushed(Copied(m, s, off, len, data))
           ELSE Copied(m, s, off, len, data)
<1> DEFINE new == [m EXCEPT
                 !.p.size   = m.p.size + len,
                 !.p.buffer = [i \in 0 .. CacheSize - 1 |->
                                 IF i \in m.p.size .. m.p.size + len - 1 THEN data[i - m.p.size]
                                 ELSE @[i]],
                 !.r = Synced(@, s, off, len, data)]
<1>1. m = [flash |-> m.flash, p |-> m.p, r |-> m.r] /\ m.p \in Cache
  BY MemoryFields
<1>2. m.p = [sector |-> m.p.sector, off |-> m.p.off, size |-> m.p.size, buffer |-> m.p.buffer]
  BY <1>1 DEF Cache
<1>3. DOMAIN m = {"flash", "p", "r"} /\ DOMAIN m.p = {"sector", "off", "size", "buffer"}
  BY <1>1, <1>2
<1>4. new.flash = m.flash /\ new.r = Synced(m.r, s, off, len, data) /\ DOMAIN new = {"flash", "p", "r"}
  BY <1>3
<1>5. new.p = Longer(m.p, len, data)
  <2>1. new.p = [[m.p EXCEPT !.size = m.p.size + len] EXCEPT
           !.buffer = [i \in 0 .. CacheSize - 1 |->
                         IF i \in m.p.size .. m.p.size + len - 1 THEN data[i - m.p.size]
                         ELSE m.p.buffer[i]]]
    BY <1>3
  <2> QED BY <1>2, <2>1 DEF Longer, Slots
<1>6. new = [flash |-> new.flash, p |-> new.p, r |-> new.r]
  <2>1. new = [x \in {"flash", "p", "r"} |-> new[x]]
    BY <1>3
  <2> HIDE DEF new
  <2> QED BY <2>1
<1>7. new = Copied(m, s, off, len, data)
  <2> HIDE DEF new
  <2> QED BY <1>4, <1>5, <1>6 DEF Copied
<1> QED BY <1>7 DEF Put

(* The copy is seen behind what was there, and nothing else changes. *)
LEMMA CopiedSound ==
  ASSUME NEW m, NEW t, Sound(m, t), NEW s \in Sectors, NEW len \in Lengths,
         t[s] + len < SectorSize, m.p.sector = s, m.p.size + len < CacheSize
  PROVE  LET n == Copied(m, s, t[s], len, Entry(len))
         IN  /\ Sound(n, [t EXCEPT ![s] = @ + len])
             /\ Changed(View(m), View(n), s, t[s], len, Entry(len))
<1> DEFINE n == Copied(m, s, t[s], len, Entry(len))
           u == [t EXCEPT ![s] = @ + len]
           v == View(m)
           w == View(n)
           off == t[s]
           data == Entry(len)
<1>1. /\ m \in Memories /\ t \in [Sectors -> Cells] /\ m.p \in Cache /\ m.r \in Cache
      /\ m.flash \in Views /\ v \in Views /\ Logged(v, t)
  BY MemoryFields, ViewType DEF Sound
<1>2. /\ len \in Nat \ {0} /\ len > HeadSize /\ Whole(data, len)
      /\ \A j \in 0 .. len - 1 : data[j] = IF j = 0 THEN {"head"} ELSE {"body"}
      /\ \A j \in 0 .. len - 1 : data[j] \in SUBSET Marks
  BY EntryCells
<1>3. /\ s # Null /\ m.p.off + m.p.size = off /\ off \in Cells /\ off \in Nat
      /\ m.p.off \in Nat /\ m.p.off \in Cells /\ m.p.size \in Nat /\ m.p.off >= FirstOff
  BY <1>1, CacheFields DEF Sound, Waiting, Cells
<1>4. n.flash = m.flash /\ n.p = Longer(m.p, len, data) /\ n.r = Synced(m.r, s, off, len, data)
  BY DEF Copied
<1>5. /\ n.p.sector = s /\ n.p.off = m.p.off /\ n.p.size = m.p.size + len
      /\ \A i \in Slots : n.p.buffer[i] = IF i \in m.p.size .. m.p.size + len - 1
                                          THEN data[i - m.p.size] ELSE m.p.buffer[i]
  BY <1>4 DEF Longer
<1>6. n.p \in Cache
  <2>1. ASSUME NEW i \in Slots
        PROVE  (IF i \in m.p.size .. m.p.size + len - 1 THEN data[i - m.p.size]
                                          ELSE m.p.buffer[i]) \in SUBSET Marks
    <3>1. i \in m.p.size .. m.p.size + len - 1 => i - m.p.size \in 0 .. len - 1
      BY <1>2, <1>3 DEF Slots
    <3> QED BY <1>1, <1>2, <3>1, CacheFields
  <2>2. m.p.size + len \in 0 .. CacheSize
    BY <1>2, <1>3
  <2> QED BY <1>1, <1>4, <2>1, <2>2, CacheFields DEF Cache, Longer, Slots
<1>7. n = [flash |-> n.flash, p |-> n.p, r |-> n.r]
  BY DEF Copied
<1> HIDE DEF n, data, u, v, w, off
<1>8. \A x \in Sectors, c \in Cells : v[x][c] = SeenIn(m, x, c)
  BY <1>1, ViewType DEF v
<1>9. ASSUME NEW x \in Sectors, NEW c \in Cells
      PROVE  SeenIn(n, x, c) = IF x = s /\ c >= off /\ c < off + len THEN Set(data[c - off])
                               ELSE v[x][c]
  <2>1. c \in Nat
    BY DEF Cells
  <2>2. CASE x = s /\ c >= off /\ c < off + len
    <3>1. Covers(n.p, x, c) /\ ~ Covers(m.p, x, c)
      BY <1>2, <1>3, <1>5, <2>1, <2>2 DEF Covers
    <3>2. c - m.p.off \in Slots /\ c - m.p.off \in m.p.size .. m.p.size + len - 1
          /\ c - m.p.off - m.p.size = c - off
      BY <1>2, <1>3, <2>1, <2>2 DEF Slots
    <3>3. n.p.buffer[c - m.p.off] = data[c - off]
      BY <1>5, <3>2
    <3> QED BY <1>5, <2>2, <3>1, <3>3 DEF SeenIn
  <2>3. CASE ~ (x = s /\ c >= off /\ c < off + len)
    <3>1. CASE Covers(m.p, x, c)
      <4>1. Covers(n.p, x, c)
        BY <1>2, <1>3, <1>5, <2>1, <3>1 DEF Covers
      <4>2. c - m.p.off \in Slots /\ c - m.p.off \notin m.p.size .. m.p.size + len - 1
        BY <1>2, <1>3, <2>1, <3>1 DEF Slots, Covers
      <4>3. n.p.buffer[c - m.p.off] = m.p.buffer[c - m.p.off]
        BY <1>5, <4>2
      <4> QED BY <1>5, <1>8, <2>3, <3>1, <4>1, <4>3 DEF SeenIn
    <3>2. CASE ~ Covers(m.p, x, c)
      <4>1. ~ Covers(n.p, x, c)
        BY <1>2, <1>3, <1>5, <2>1, <2>3, <3>2 DEF Covers
      <4> QED BY <1>4, <1>8, <2>3, <3>2, <4>1 DEF SeenIn
    <3> QED BY <3>1, <3>2
  <2> QED BY <2>2, <2>3
<1>10. \A x \in Sectors, c \in Cells : w[x][c] = SeenIn(n, x, c)
  BY DEF w, View
<1>11. Changed(v, w, s, off, len, data)
  BY <1>9, <1>10 DEF Changed
<1>12. n.r \in Cache /\ Window(n.r) /\ Coherent(n.r, w)
  <2>1. Window(m.r) /\ Coherent(m.r, v)
    BY DEF Sound, v
  <2>2. off + len < SectorSize
    BY DEF off
  <2>3. LET k == Synced(m.r, s, off, len, data)
        IN  k \in Cache /\ Window(k) /\ Coherent(k, w)
    BY <1>1, <1>2, <1>3, <1>11, <2>1, <2>2, SyncedCoherent
  <2> QED BY <1>4, <2>3
<1>13. u \in [Sectors -> Cells] /\ u[s] = off + len /\ Logged(w, u)
  BY <1>1, <1>11, LoggedMore DEF u, off, data
<1>14. n \in Memories
  BY <1>1, <1>4, <1>6, <1>7, <1>12 DEF Memories
<1>15. Waiting(n, u)
  <2>1. n.p.off >= FirstOff /\ n.p.off + n.p.size = u[s]
    BY <1>2, <1>3, <1>5, <1>13
  <2>2. \A c \in Cells : c < n.p.off /\ "head" \in n.flash[s][c] => c + HeadSize < n.p.off
    BY <1>3, <1>4, <1>5 DEF Sound, Waiting
  <2>3. ASSUME NEW i \in Slots
        PROVE  /\ i >= n.p.size => n.p.buffer[i] = {}
               /\ "written" \notin n.p.buffer[i]
               /\ i < n.p.size => /\ n.flash[s][n.p.off + i] \subseteq n.p.buffer[i]
                                  /\ "head" \in n.p.buffer[i] => i + HeadSize < n.p.size
    <3>1. i \in Nat
      BY DEF Slots
    <3>2. /\ i >= m.p.size => m.p.buffer[i] = {}
          /\ "written" \notin m.p.buffer[i]
          /\ i < m.p.size => /\ m.flash[s][m.p.off + i] \subseteq m.p.buffer[i]
                             /\ "head" \in m.p.buffer[i] => i + HeadSize < m.p.size
      BY <1>3 DEF Sound, Waiting
    <3>3. CASE i \in m.p.size .. m.p.size + len - 1
      <4>1. i - m.p.size \in 0 .. len - 1
        BY <1>2, <1>3, <3>1, <3>3
      <4>2. n.p.buffer[i] = IF i - m.p.size = 0 THEN {"head"} ELSE {"body"}
        BY <1>2, <1>5, <3>3, <4>1
      <4>3. i < n.p.size
        BY <1>2, <1>3, <1>5, <3>1, <3>3
      <4>4. i - m.p.size = 0 => i + HeadSize < n.p.size
        BY <1>2, <1>3, <1>5, <3>1
      <4>5. n.flash[s][n.p.off + i] = {}
        <5> DEFINE c == m.p.off + i
        <5>1. c \in Cells /\ c >= off
          <6>1. off + len < SectorSize
            BY DEF off
          <6> QED BY <1>2, <1>3, <3>1, <3>3, <6>1 DEF Cells
        <5>2. v[s][c] = {}
          <6> HIDE DEF c
          <6>1. c \in Nat
            BY <5>1 DEF Cells
          <6> QED BY <1>1, <1>3, <5>1, <6>1 DEF Logged, off
        <5>3. ~ Covers(m.p, s, c)
          BY <1>3, <3>1, <3>3 DEF Covers
        <5>4. m.flash[s][c] = {}
          <6> HIDE DEF c
          <6> QED BY <1>8, <5>1, <5>2, <5>3 DEF SeenIn
        <5> QED BY <1>4, <1>5, <5>4
      <4> QED BY <1>2, <1>3, <1>5, <3>1, <4>2, <4>3, <4>4, <4>5
    <3>4. CASE i \notin m.p.size .. m.p.size + len - 1
      <4>1. n.p.buffer[i] = m.p.buffer[i]
        BY <1>5, <3>4
      <4>2. (i < n.p.size => i < m.p.size) /\ (i >= n.p.size => i >= m.p.size)
        BY <1>2, <1>3, <1>5, <3>1, <3>4
      <4>3. i + HeadSize < m.p.size => i + HeadSize < n.p.size
        BY <1>2, <1>3, <1>5, <3>1
      <4> QED BY <1>4, <1>5, <3>2, <4>1, <4>2, <4>3
    <3> QED BY <3>3, <3>4
  <2> QED BY <1>3, <1>5, <2>1, <2>2, <2>3 DEF Waiting
<1>16. Sound(n, u)
  BY <1>12, <1>13, <1>14, <1>15 DEF Sound, w
<1> QED BY <1>11, <1>16 DEF n, u, v, w, off, data

(* cache_prog's copy, and the flush of a full cache. *)
LEMMA PutSound ==
  ASSUME NEW m, NEW t, Sound(m, t), NEW s \in Sectors, NEW len \in Lengths,
         t[s] + len < SectorSize, m.p.sector = s, m.p.size + len < CacheSize
  PROVE  LET n == Put(m, s, t[s], len, Entry(len))
         IN  /\ Sound(n, [t EXCEPT ![s] = @ + len]) /\ Rested(n.p)
             /\ Changed(View(m), View(n), s, t[s], len, Entry(len))
<1> DEFINE k == Copied(m, s, t[s], len, Entry(len))
           n == Put(m, s, t[s], len, Entry(len))
           u == [t EXCEPT ![s] = @ + len]
<1>1. m \in Memories /\ m.p \in Cache /\ len \in Nat \ {0} /\ m.p.size \in Nat
  BY MemoryFields, CacheFields, EntryCells DEF Sound
<1>2. Sound(k, u) /\ Changed(View(m), View(k), s, t[s], len, Entry(len))
  BY CopiedSound
<1>3. n = IF m.p.size + len > CacheSize - HeadSize THEN Flushed(k) ELSE k
  BY <1>1, PutIs
<1>4. k.p.sector = s /\ k.p.size = m.p.size + len
  BY DEF Copied, Longer
<1> HIDE DEF k, n, u
<1>5. CASE m.p.size + len > CacheSize - HeadSize
  <2>1. Sound(n, u) /\ View(n) = View(k) /\ n.p = One
    BY <1>1, <1>2, <1>3, <1>4, <1>5, FlushedSound
  <2> QED BY <1>2, <2>1, OneIsCache DEF Rested, n, u
<1>6. CASE ~ (m.p.size + len > CacheSize - HeadSize)
  <2>1. Rested(k.p)
    BY <1>1, <1>4, <1>6 DEF Rested
  <2> QED BY <1>2, <1>3, <1>6, <2>1 DEF n, u
<1> QED BY <1>5, <1>6

(* The write cache, taken for the end of a log. *)
Taken(s, off) == [One EXCEPT !.sector = s, !.off = off]

LEMMA TakenSound ==
  ASSUME NEW m, NEW t, Sound(m, t), m.flash = View(m), NEW s \in Sectors
  PROVE  LET n == [m EXCEPT !.p = Taken(s, t[s])]
         IN  Sound(n, t) /\ View(n) = View(m) /\ n.p.sector = s /\ n.p.size = 0
<1> DEFINE n == [m EXCEPT !.p = Taken(s, t[s])]
           p == Taken(s, t[s])
<1>1. /\ m \in Memories /\ t \in [Sectors -> Cells] /\ m.r \in Cache /\ m.flash \in Views
      /\ m = [flash |-> m.flash, p |-> m.p, r |-> m.r] /\ View(m) \in Views
  BY MemoryFields, ViewType DEF Sound
<1>2. /\ p.sector = s /\ p.off = t[s] /\ p.size = 0 /\ \A i \in Slots : p.buffer[i] = {}
      /\ p = [sector |-> s, off |-> t[s], size |-> 0, buffer |-> One.buffer]
  <2> DEFINE b == [i \in 0 .. CacheSize - 1 |-> {}]
  <2>1. One = [sector |-> Null, off |-> 0, size |-> 0, buffer |-> b] /\ \A i \in Slots : b[i] = {}
    BY DEF One, Slots
  <2> HIDE DEF b
  <2>2. p = [sector |-> s, off |-> t[s], size |-> 0, buffer |-> b]
    <3> DEFINE k == [One EXCEPT !.sector = s]
    <3>1. k = [sector |-> s, off |-> 0, size |-> 0, buffer |-> b]
      BY <2>1
    <3>2. p = [k EXCEPT !.off = t[s]]
      BY DEF Taken
    <3> HIDE DEF k, p
    <3> QED BY <3>1, <3>2
  <2> QED BY <2>1, <2>2
<1>3. One.buffer \in [0 .. CacheSize - 1 -> SUBSET Marks] /\ 0 \in 0 .. CacheSize
  BY DEF One
<1>4. p \in Cache
  BY <1>1, <1>2, <1>3 DEF Cache
<1>5. n = [flash |-> m.flash, p |-> p, r |-> m.r]
  BY <1>1
<1> HIDE DEF n, p
<1>6. n \in Memories
  BY <1>1, <1>4, <1>5 DEF Memories
<1>7. View(n) = View(m)
  <2>1. ASSUME NEW x \in Sectors, NEW c \in Cells
        PROVE  View(n)[x][c] = View(m)[x][c]
    <3>1. t[s] \in Nat /\ c \in Nat
      BY <1>1 DEF Cells
    <3>2. ~ Covers(n.p, x, c)
      BY <1>2, <1>5, <3>1 DEF Covers
    <3> QED BY <1>5, <1>6, <3>2, ViewType DEF SeenIn
  <2> QED BY <1>1, <1>6, <2>1, ViewType DEF Views
<1>8. Waiting(n, t)
  <2>1. s # Null /\ t[s] \in Nat
    BY <1>1 DEF Cells
  <2>2. t[s] >= FirstOff
    BY DEF Sound, Logged
  <2>3. \A c \in Cells : "head" \in View(m)[s][c] => c + HeadSize < t[s]
    BY DEF Sound, Logged
  <2>4. n.flash = View(m)
    BY <1>5
  <2>5. \A i \in Slots : ~ (i < 0)
    BY DEF Slots
  <2> QED BY <1>2, <1>5, <2>1, <2>2, <2>3, <2>4, <2>5 DEF Waiting
<1>9. Sound(n, t)
  BY <1>1, <1>5, <1>6, <1>7, <1>8 DEF Sound
<1> QED BY <1>2, <1>5, <1>7, <1>9 DEF n

LEMMA CacheProgSound ==
  ASSUME NEW m, NEW t, Sound(m, t), NEW s \in Sectors, NEW len \in Lengths,
         t[s] + len < SectorSize, len < CacheSize
  PROVE  LET n == CacheProg(m, s, t[s], len, Entry(len))
         IN  /\ Sound(n, [t EXCEPT ![s] = @ + len]) /\ Rested(n.p)
             /\ Changed(View(m), View(n), s, t[s], len, Entry(len))
<1>1. /\ m \in Memories /\ t \in [Sectors -> Cells] /\ m.p \in Cache /\ len \in Nat
      /\ t[s] \in Nat /\ m.p.off \in Nat /\ m.p.size \in Nat
  BY MemoryFields, CacheFields, EntryCells DEF Sound, Cells
<1>2. CASE Fits(m.p, s, t[s], len)
  <2>1. m.p.sector = s /\ s # Null
    BY <1>2 DEF Fits
  <2>2. m.p.off + m.p.size = t[s]
    BY <2>1 DEF Sound, Waiting
  <2>3. m.p.size + len < CacheSize
    BY <1>1, <1>2, <2>2 DEF Fits
  <2> QED BY <1>2, <2>1, <2>3, PutSound DEF CacheProg
<1>3. CASE ~ Fits(m.p, s, t[s], len)
  <2> DEFINE f == Flushed(m)
             k == [f EXCEPT !.p = Taken(s, t[s])]
  <2>1. Sound(f, t) /\ View(f) = View(m) /\ f.flash = View(m)
    BY FlushedSound
  <2>2. CacheProg(m, s, t[s], len, Entry(len)) = Put(k, s, t[s], len, Entry(len))
    BY <1>3 DEF CacheProg, Taken
  <2> HIDE DEF f
  <2>3. Sound(k, t) /\ View(k) = View(m) /\ k.p.sector = s /\ k.p.size = 0
    BY <2>1, TakenSound
  <2> HIDE DEF k
  <2>4. k.p.size + len < CacheSize
    BY <1>1, <2>3
  <2>5. LET n == Put(k, s, t[s], len, Entry(len))
        IN  /\ Sound(n, [t EXCEPT ![s] = @ + len]) /\ Rested(n.p)
            /\ Changed(View(k), View(n), s, t[s], len, Entry(len))
    BY <2>3, <2>4, PutSound
  <2> QED BY <2>2, <2>3, <2>5
<1> QED BY <1>2, <1>3

(* An entry larger than the caches goes to flash behind what is there; the  *)
(* write cache was flushed.                                                *)
LEMMA DirectProgSound ==
  ASSUME NEW m, NEW t, Sound(m, t), m.p = One, NEW s \in Sectors, NEW len \in Lengths,
         t[s] + len < SectorSize
  PROVE  LET n == DirectProg(m, s, t[s], len, Entry(len))
         IN  /\ Sound(n, [t EXCEPT ![s] = @ + len]) /\ n.p = One
             /\ Changed(View(m), View(n), s, t[s], len, Entry(len))
<1> DEFINE n == DirectProg(m, s, t[s], len, Entry(len))
           u == [t EXCEPT ![s] = @ + len]
           v == View(m)
           w == View(n)
           off == t[s]
           done == Written(Entry(len), 0, len)
<1>1. /\ m \in Memories /\ t \in [Sectors -> Cells] /\ m.r \in Cache
      /\ m.flash \in Views /\ v \in Views /\ Logged(v, t) /\ off \in Cells /\ off \in Nat
  BY MemoryFields, ViewType DEF Sound, Cells
<1>2. /\ len \in Nat \ {0} /\ len > HeadSize /\ Whole(Entry(len), len)
      /\ \A j \in 0 .. len - 1 : Entry(len)[j] = IF j = 0 THEN {"head"} ELSE {"body"}
  BY EntryCells
<1>3. ASSUME NEW j \in 0 .. len - 1
      PROVE  /\ done[j] = Set(Entry(len)[j]) /\ Set(done[j]) = Set(Entry(len)[j])
             /\ done[j] \in SUBSET Marks /\ ("head" \in done[j] => j + HeadSize <= len)
  <2>1. DOMAIN Entry(len) = 0 .. len - 1 /\ j \in Nat
    BY DEF Entry
  <2>2. done[j] = IF j >= 0 /\ j + HeadSize <= len THEN Set(Entry(len)[j]) ELSE Entry(len)[j]
    BY <1>2, <2>1, WrittenIs
  <2> HIDE DEF done
  <2>3. CASE j = 0
    <3>1. Entry(len)[j] = {"head"} /\ done[j] = Set({"head"})
      BY <1>2, <2>2, <2>3
    <3>2. Set({"head"}) = {"head", "written"} /\ Set({"head", "written"}) = {"head", "written"}
      BY DEF Set
    <3>3. j + HeadSize <= len
      BY <1>2, <2>3
    <3> QED BY <3>1, <3>2, <3>3 DEF Marks
  <2>4. CASE j # 0
    <3>1. Entry(len)[j] = {"body"}
      BY <1>2, <2>4
    <3>2. Set({"body"}) = {"body"}
      BY DEF Set
    <3>3. done[j] = {"body"}
      BY <2>2, <3>1, <3>2
    <3> QED BY <3>1, <3>2, <3>3 DEF Marks
  <2> QED BY <2>3, <2>4
<1>4. n = [flash |-> Programmed(m.flash, s, off, len, done), p |-> Synced(m.p, s, off, len, done),
           r |-> Synced(m.r, s, off, len, done)]
  BY DEF DirectProg
<1>5. Synced(m.p, s, off, len, done) = One
  BY OneIsCache DEF Synced
<1> HIDE DEF n, u, v, w, off, done
<1>5a. \A j \in 0 .. len - 1 : done[j] \in SUBSET Marks
  BY <1>3
<1>6. n.flash \in Views
  BY <1>1, <1>2, <1>4, <1>5a, ProgrammedType
<1>7. \A x \in Sectors, c \in Cells : v[x][c] = m.flash[x][c]
  <2>1. ASSUME NEW x \in Sectors, NEW c \in Cells
        PROVE  v[x][c] = m.flash[x][c]
    <3>1. ~ Covers(m.p, x, c)
      BY OneIsCache DEF Covers
    <3> QED BY <1>1, <3>1, ViewType DEF SeenIn, v
  <2> QED BY <2>1
<1>8. ASSUME NEW x \in Sectors, NEW c \in Cells
      PROVE  n.flash[x][c] = IF x = s /\ c >= off /\ c < off + len THEN Set(Entry(len)[c - off])
                             ELSE v[x][c]
  <2>1. Programmed(m.flash, s, off, len, done)[x][c] =
           IF x = s /\ c >= off /\ c < off + len THEN Over(m.flash[x][c], done[c - off])
           ELSE m.flash[x][c]
    <3>1. len \in Nat
      BY <1>2
    <3> QED BY ONLY <1>1, <3>1, ProgrammedCell
  <2>2. CASE x = s /\ c >= off /\ c < off + len
    <3>1. c \in Nat /\ c - off \in 0 .. len - 1
      BY <1>1, <1>2, <2>2 DEF Cells
    <3>2. v[x][c] = {}
      BY <1>1, <2>2, <3>1 DEF Logged, off
    <3> QED BY <1>3, <1>4, <1>7, <2>1, <2>2, <3>1, <3>2 DEF Over
  <2> QED BY <1>4, <1>7, <2>1, <2>2
<1>9. Changed(v, n.flash, s, off, len, Entry(len))
  BY <1>8 DEF Changed
<1>10. n.r \in Cache /\ Window(n.r) /\ Coherent(n.r, n.flash)
  <2>1. Changed(v, n.flash, s, off, len, done)
    <3>1. ASSUME NEW x \in Sectors, NEW c \in Cells
          PROVE  n.flash[x][c] = IF x = s /\ c >= off /\ c < off + len THEN Set(done[c - off])
                             ELSE v[x][c]
      <4>1. x = s /\ c >= off /\ c < off + len => c - off \in 0 .. len - 1
        BY <1>1, <1>2 DEF Cells
      <4> QED BY <1>3, <1>8, <4>1
    <3> QED BY <3>1 DEF Changed
  <2>2. Whole(done, len) /\ off + len < SectorSize
    BY <1>3 DEF Whole, off
  <2>3. Window(m.r) /\ Coherent(m.r, v)
    BY DEF Sound, v
  <2>4. LET k == Synced(m.r, s, off, len, done)
        IN  k \in Cache /\ Window(k) /\ Coherent(k, n.flash)
    BY <1>1, <1>2, <1>5a, <2>1, <2>2, <2>3, SyncedCoherent
  <2> QED BY <1>4, <2>4
<1>11. n \in Memories /\ n.p = One
  BY <1>4, <1>5, <1>6, <1>10, OneIsCache DEF Memories
<1>12. w = n.flash
  <2>1. ASSUME NEW x \in Sectors, NEW c \in Cells
        PROVE  w[x][c] = n.flash[x][c]
    <3>1. ~ Covers(n.p, x, c)
      BY <1>11, OneIsCache DEF Covers
    <3> QED BY <1>11, <3>1, ViewType DEF SeenIn, w
  <2>2. w \in Views
    BY <1>11, ViewType DEF w
  <2> QED BY <1>6, <2>1, <2>2 DEF Views
<1>13. u \in [Sectors -> Cells] /\ Logged(w, u)
  BY <1>1, <1>9, <1>12, LoggedMore DEF u, off
<1>14. Waiting(n, u)
  BY <1>11, OneIsCache DEF Waiting
<1>15. Sound(n, u)
  BY <1>10, <1>11, <1>12, <1>13, <1>14 DEF Sound, w
<1> QED BY <1>9, <1>11, <1>12, <1>15 DEF n, u, v, w, off

-----------------------------------------------------------------------------
(* A delete. *)

Deleted(v, w, s, off) ==
  \A x \in Sectors, c \in Cells :
    w[x][c] = IF x = s /\ c = off THEN v[x][c] \cup {"deleted"} ELSE v[x][c]

LEMMA MarkedCells ==
  ASSUME NEW cache \in Cache, NEW s \in Sectors, NEW off \in Cells
  PROVE  LET n == Marked(cache, s, off)
         IN  /\ n \in Cache /\ n.sector = cache.sector /\ n.off = cache.off /\ n.size = cache.size
             /\ \A i \in Slots :
                  n.buffer[i] = IF s = cache.sector /\ off = cache.off + i /\ i < cache.size
                                THEN cache.buffer[i] \cup {"deleted"} ELSE cache.buffer[i]
<1> DEFINE n == Marked(cache, s, off)
           at == off - cache.off
<1>1. /\ cache.off \in Nat /\ cache.size \in Nat /\ off \in Nat /\ cache.size <= CacheSize
      /\ cache.buffer \in [Slots -> SUBSET Marks]
      /\ cache = [sector |-> cache.sector, off |-> cache.off, size |-> cache.size,
                  buffer |-> cache.buffer]
  BY CacheFields DEF Cells, Cache
<1>2. CASE Covers(cache, s, off)
  <2>1. at \in Slots /\ s = cache.sector /\ at < cache.size
    BY <1>1, <1>2 DEF Covers, Slots
  <2> DEFINE b == [cache.buffer EXCEPT ![at] = @ \cup {"deleted"}]
  <2>2. n = [cache EXCEPT !.buffer = b]
    BY <1>2 DEF Marked
  <2>3. cache.buffer[at] \cup {"deleted"} \in SUBSET Marks
    BY <1>1, <2>1 DEF Marks
  <2>4. b \in [Slots -> SUBSET Marks]
    BY <1>1, <2>3
  <2>5. \A i \in Slots : b[i] = IF i = at THEN cache.buffer[i] \cup {"deleted"} ELSE cache.buffer[i]
    BY <1>1
  <2> HIDE DEF b
  <2>6. n = [sector |-> cache.sector, off |-> cache.off, size |-> cache.size, buffer |-> b]
    BY <1>1, <2>2
  <2>7. n \in Cache
    BY <2>4, <2>6, CacheFields DEF Cache, Slots
  <2>8. \A i \in Slots : i = at <=> s = cache.sector /\ off = cache.off + i /\ i < cache.size
    BY <1>1, <2>1 DEF Slots
  <2> QED BY <2>5, <2>6, <2>7, <2>8
<1>3. CASE ~ Covers(cache, s, off)
  <2>1. n = cache
    BY <1>3 DEF Marked
  <2>2. \A i \in Slots : ~ (s = cache.sector /\ off = cache.off + i /\ i < cache.size)
    BY <1>1, <1>3 DEF Slots, Covers
  <2> QED BY <2>1, <2>2
<1> QED BY <1>2, <1>3

LEMMA DeleteSound ==
  ASSUME NEW m, NEW t, Sound(m, t), NEW s \in Sectors, NEW off \in Cells,
         SeenIn(m, s, off) = {"head", "written"}
  PROVE  LET n == [flash |-> [m.flash EXCEPT ![s][off] = @ \cup {"deleted"}],
                   p |-> Marked(m.p, s, off), r |-> Marked(m.r, s, off)]
         IN  /\ Sound(n, t) /\ n.p.sector = m.p.sector /\ n.p.size = m.p.size
             /\ Deleted(View(m), View(n), s, off)
<1> DEFINE n == [flash |-> [m.flash EXCEPT ![s][off] = @ \cup {"deleted"}],
                 p |-> Marked(m.p, s, off), r |-> Marked(m.r, s, off)]
           v == View(m)
           w == View(n)
<1>1. /\ m \in Memories /\ t \in [Sectors -> Cells] /\ m.p \in Cache /\ m.r \in Cache
      /\ m.flash \in Views /\ v \in Views /\ Logged(v, t)
  BY MemoryFields, ViewType DEF Sound
<1>2. /\ n.p \in Cache /\ n.p.sector = m.p.sector /\ n.p.off = m.p.off /\ n.p.size = m.p.size
      /\ \A i \in Slots :
           n.p.buffer[i] = IF s = m.p.sector /\ off = m.p.off + i /\ i < m.p.size
                           THEN m.p.buffer[i] \cup {"deleted"} ELSE m.p.buffer[i]
  <2>1. n.p = Marked(m.p, s, off)
    OBVIOUS
  <2> DEFINE c == m.p
  <2>2. c \in Cache /\ m.p = c
    BY <1>1
  <2> HIDE DEF n, c
  <2>3. LET k == Marked(c, s, off)
        IN  /\ k \in Cache /\ k.sector = c.sector /\ k.off = c.off /\ k.size = c.size
            /\ \A i \in Slots :
                 k.buffer[i] = IF s = c.sector /\ off = c.off + i /\ i < c.size
                               THEN c.buffer[i] \cup {"deleted"} ELSE c.buffer[i]
    BY ONLY <2>2, MarkedCells
  <2> QED BY ONLY <2>1, <2>2, <2>3
<1>3. /\ n.r \in Cache /\ n.r.sector = m.r.sector /\ n.r.off = m.r.off /\ n.r.size = m.r.size
      /\ \A i \in Slots :
           n.r.buffer[i] = IF s = m.r.sector /\ off = m.r.off + i /\ i < m.r.size
                           THEN m.r.buffer[i] \cup {"deleted"} ELSE m.r.buffer[i]
  <2>1. n.r = Marked(m.r, s, off)
    OBVIOUS
  <2> DEFINE c == m.r
  <2>2. c \in Cache /\ m.r = c
    BY <1>1
  <2> HIDE DEF n, c
  <2>3. LET k == Marked(c, s, off)
        IN  /\ k \in Cache /\ k.sector = c.sector /\ k.off = c.off /\ k.size = c.size
            /\ \A i \in Slots :
                 k.buffer[i] = IF s = c.sector /\ off = c.off + i /\ i < c.size
                               THEN c.buffer[i] \cup {"deleted"} ELSE c.buffer[i]
    BY ONLY <2>2, MarkedCells
  <2> QED BY ONLY <2>1, <2>2, <2>3
<1>4. n.flash \in Views /\ Deleted(m.flash, n.flash, s, off)
  <2> DEFINE row == [m.flash[s] EXCEPT ![off] = @ \cup {"deleted"}]
  <2>1. m.flash[s][off] \cup {"deleted"} \in SUBSET Marks
    BY <1>1 DEF Views, Marks
  <2>2. row \in [Cells -> SUBSET Marks] /\ \A c \in Cells :
          row[c] = IF c = off THEN m.flash[s][c] \cup {"deleted"} ELSE m.flash[s][c]
    BY <1>1, <2>1 DEF Views
  <2>3. n.flash = [m.flash EXCEPT ![s] = row]
    OBVIOUS
  <2> HIDE DEF row, n
  <2>4. n.flash \in Views
    BY <1>1, <2>2, <2>3 DEF Views
  <2>5. \A x \in Sectors : n.flash[x] = IF x = s THEN row ELSE m.flash[x]
    BY <1>1, <2>3 DEF Views
  <2> QED BY <2>2, <2>4, <2>5 DEF Deleted
<1>5. n = [flash |-> n.flash, p |-> n.p, r |-> n.r]
  OBVIOUS
<1> HIDE DEF n, v, w
<1>6. n \in Memories
  BY <1>2, <1>3, <1>4, <1>5 DEF Memories
<1>7. Deleted(v, w, s, off)
  <2>1. ASSUME NEW x \in Sectors, NEW c \in Cells
        PROVE  w[x][c] = IF x = s /\ c = off THEN v[x][c] \cup {"deleted"} ELSE v[x][c]
    <3>1. v[x][c] = SeenIn(m, x, c) /\ w[x][c] = SeenIn(n, x, c)
      BY <1>1, <1>6, ViewType DEF v, w
    <3>2. Covers(n.p, x, c) <=> Covers(m.p, x, c)
      BY <1>2 DEF Covers
    <3>3. CASE Covers(m.p, x, c)
      <4>1. c - m.p.off \in Slots /\ x = m.p.sector /\ c - m.p.off < m.p.size
        BY <1>1, <3>3, CacheFields DEF Covers, Slots, Cells
      <4>2. off = m.p.off + (c - m.p.off) <=> c = off
        BY <1>1, CacheFields DEF Cells
      <4> DEFINE b == m.p.buffer[c - m.p.off]
      <4>3. n.p.buffer[c - m.p.off] = IF x = s /\ c = off THEN b \cup {"deleted"} ELSE b
        BY <1>2, <4>1, <4>2
      <4>4. v[x][c] = Set(b) /\ w[x][c] = Set(n.p.buffer[c - m.p.off])
        BY <1>2, <3>1, <3>2, <3>3 DEF SeenIn
      <4> HIDE DEF b
      <4>5. Set(b \cup {"deleted"}) = Set(b) \cup {"deleted"}
        BY DEF Set
      <4> QED BY <4>3, <4>4, <4>5
    <3>4. CASE ~ Covers(m.p, x, c)
      BY <1>4, <3>1, <3>2, <3>4 DEF SeenIn, Deleted
    <3> QED BY <3>3, <3>4
  <2> QED BY <2>1 DEF Deleted
<1>8. v[s][off] = {"head", "written"}
  BY <1>1, ViewType DEF v
<1>9. Logged(w, t)
  <2>1. ASSUME NEW x \in Sectors, NEW c \in Cells
        PROVE  /\ (w[x][c] = {} <=> v[x][c] = {}) /\ ("head" \in w[x][c] <=> "head" \in v[x][c])
               /\ ("written" \in v[x][c] => "written" \in w[x][c])
    BY <1>7, <1>8 DEF Deleted
  <2> QED BY <1>1, <2>1 DEF Logged
<1>10. Waiting(n, t)
  <2>1. CASE m.p.sector = Null
    <3>1. n.p = m.p
      <4>1. Marked(m.p, s, off) = m.p
        BY <2>1 DEF Marked, Covers
      <4> QED BY <4>1 DEF n
    <3> QED BY <2>1, <3>1 DEF Sound, Waiting
  <2>2. CASE m.p.sector # Null
    <3> DEFINE x == m.p.sector
    <3>1. /\ x \in Sectors /\ m.p.off >= FirstOff /\ m.p.off + m.p.size = t[x] /\ m.p.off \in Nat
          /\ m.p.size \in Nat
      BY <1>1, <2>2, CacheFields DEF Sound, Waiting, Cells
    <3>2. \A c \in Cells : c < m.p.off /\ "head" \in m.flash[x][c] => c + HeadSize < m.p.off
      BY <2>2 DEF Sound, Waiting
    <3> HIDE DEF x
    <3>3. \A c \in Cells : "head" \in n.flash[x][c] <=> "head" \in m.flash[x][c]
      BY <1>4, <3>1 DEF Deleted
    <3>4. ASSUME NEW i \in Slots
          PROVE  /\ i >= m.p.size => n.p.buffer[i] = {}
                 /\ "written" \notin n.p.buffer[i]
                 /\ i < m.p.size => /\ n.flash[x][m.p.off + i] \subseteq n.p.buffer[i]
                                    /\ "head" \in n.p.buffer[i] => i + HeadSize < m.p.size
      <4>1. /\ i >= m.p.size => m.p.buffer[i] = {}
            /\ "written" \notin m.p.buffer[i]
            /\ i < m.p.size => /\ m.flash[x][m.p.off + i] \subseteq m.p.buffer[i]
                               /\ "head" \in m.p.buffer[i] => i + HeadSize < m.p.size
        BY <2>2 DEF Sound, Waiting, x
      <4>2. n.p.buffer[i] = IF s = x /\ off = m.p.off + i /\ i < m.p.size
                           THEN m.p.buffer[i] \cup {"deleted"} ELSE m.p.buffer[i]
        BY <1>2 DEF x
      <4>3. i \in Nat
        BY DEF Slots
      <4>4. i < m.p.size => n.flash[x][m.p.off + i] =
              IF s = x /\ off = m.p.off + i THEN m.flash[x][m.p.off + i] \cup {"deleted"}
              ELSE m.flash[x][m.p.off + i]
        <5> DEFINE c == m.p.off + i
        <5>1. i < m.p.size => c \in Cells
          <6>1. t[x] \in Cells
            BY <1>1, <3>1
          <6> QED BY <3>1, <4>3, <6>1 DEF Cells
        <5> HIDE DEF c
        <5>2. i < m.p.size => n.flash[x][c] = IF x = s /\ c = off THEN m.flash[x][c] \cup {"deleted"}
                                              ELSE m.flash[x][c]
          BY <1>4, <3>1, <5>1 DEF Deleted
        <5> QED BY <5>2 DEF c
      <4>5. i >= m.p.size => ~ (i < m.p.size)
        BY <3>1, <4>3
      <4> QED BY <4>1, <4>2, <4>4, <4>5
    <3> QED BY <1>2, <2>2, <3>1, <3>2, <3>3, <3>4 DEF Waiting, x
  <2> QED BY <2>1, <2>2
<1>11. Window(n.r)
  BY <1>3 DEF Sound, Window
<1>12. Coherent(n.r, w)
  <2>1. ASSUME NEW i \in Slots, i < n.r.size
        PROVE  Agrees(n.r.buffer[i], w[n.r.sector][n.r.off + i], i, n.r.size)
    <3> DEFINE x == m.r.sector
               c == m.r.off + i
    <3>1. Window(m.r) /\ m.r.size \in Nat /\ i \in Nat /\ m.r.off \in Nat /\ m.r.off < SectorSize
          /\ i < m.r.size
      BY <1>1, <1>3, <2>1, CacheFields DEF Sound, Slots, Cells
    <3>2. x \in Sectors /\ c \in Cells
      <4>1. x # Null
        BY <3>1 DEF Window
      <4> QED BY <1>1, <3>1, <4>1, CacheFields DEF Window, Cells
    <3>3. Agrees(m.r.buffer[i], v[x][c], i, m.r.size)
      BY <3>1 DEF Sound, Coherent, v
    <3>4. n.r.buffer[i] = IF x = s /\ c = off THEN m.r.buffer[i] \cup {"deleted"} ELSE m.r.buffer[i]
      BY <1>3, <3>1
    <3>5. w[x][c] = IF x = s /\ c = off THEN v[x][c] \cup {"deleted"} ELSE v[x][c]
      <4> HIDE DEF x, c
      <4> QED BY <1>7, <3>2 DEF Deleted
    <3>6. n.r.sector = x /\ n.r.off + i = c /\ n.r.size = m.r.size
      BY <1>3
    <3> HIDE DEF x, c
    <3>7. Agrees(n.r.buffer[i], w[x][c], i, m.r.size)
      BY <3>3, <3>4, <3>5 DEF Agrees
    <3> QED BY <3>6, <3>7
  <2> QED BY <2>1 DEF Coherent
<1>13. Sound(n, t)
  BY <1>1, <1>6, <1>9, <1>10, <1>11, <1>12 DEF Sound, w
<1> QED BY <1>2, <1>7, <1>13 DEF n, v, w

-----------------------------------------------------------------------------
(* A read. *)

WindowLen(off) == IF off + CacheSize < SectorSize THEN CacheSize ELSE SectorSize - off

LEMMA FillCoherent ==
  ASSUME NEW v \in Views, NEW s \in Sectors, NEW off \in Cells, NEW buffer,
         \A i \in Slots : buffer[i] \in SUBSET Marks, buffer = [i \in Slots |-> buffer[i]],
         \A i \in Slots : i < WindowLen(off) =>
           Agrees(buffer[i], v[s][off + i], i, WindowLen(off))
  PROVE  LET n == [sector |-> s, off |-> off, size |-> WindowLen(off), buffer |-> buffer]
         IN  n \in Cache /\ Window(n) /\ Coherent(n, v)
<1>1. WindowLen(off) \in 0 .. CacheSize
  BY DEF WindowLen, Cells
<1>2. buffer \in [0 .. CacheSize - 1 -> SUBSET Marks]
  BY DEF Slots
<1> QED BY <1>1, <1>2, Zenon DEF Cache, Window, Coherent, WindowLen

(* The window that read_to_cache makes of flash and of what waits agrees    *)
(* with what is seen: where the window begins inside the write cache, it    *)
(* begins with a head, and where the write cache begins inside the window,  *)
(* it is no less than a head away.                                         *)
LEMMA ReadCoherent ==
  ASSUME Sound(Memory, tail), NEW s \in Sectors, NEW off \in Cells,
         off = 0 \/ off = tail[s] \/ "head" \in View(Memory)[s][off]
  PROVE  LET n == ReadToCache(off, s)
         IN  n \in Cache /\ Window(n) /\ Coherent(n, View(Memory))
<1> DEFINE len == WindowLen(off)
           v == View(Memory)
           p == pcache
           at == p.off - off
           rest == p.size + at
           old == rcache.buffer
           whole == [i \in 0 .. CacheSize - 1 |-> IF i < pcache.size THEN pcache.buffer[i] ELSE {}]
           joined == [i \in 0 .. CacheSize - 1 |->
                        IF i < at THEN flash[s][off + i]
                        ELSE IF i < len THEN pcache.buffer[i - at] ELSE old[i]]
           inner == [i \in 0 .. CacheSize - 1 |->
                       IF i < rest THEN pcache.buffer[i - at]
                       ELSE IF i < len THEN flash[s][off + i] ELSE old[i]]
           plain == [i \in 0 .. CacheSize - 1 |-> IF i < len THEN flash[s][off + i] ELSE {}]
           Fill(buffer) == [sector |-> s, off |-> off, size |-> len, buffer |-> buffer]
           n == ReadToCache(off, s)
           same == rcache.sector = s /\ rcache.off = off /\ rcache.size = len
           apart == s # pcache.sector \/ at >= len \/ -at >= pcache.size
<1>1. /\ Memory \in Memories /\ tail \in [Sectors -> Cells] /\ p \in Cache /\ rcache \in Cache
      /\ flash \in Views /\ v \in Views /\ Logged(v, tail) /\ Window(rcache) /\ Coherent(rcache, v)
      /\ Memory.p = p /\ Memory.flash = flash
  <2>1. Memory.p = pcache /\ Memory.flash = flash /\ Memory.r = rcache
    BY DEF Memory
  <2> QED BY <2>1, MemoryFields, ViewType DEF Sound
<1>2. /\ p.off \in Nat /\ p.size \in Nat /\ p.size <= CacheSize /\ off \in Nat /\ off < SectorSize
      /\ \A i \in Slots : p.buffer[i] \in SUBSET Marks /\ old[i] \in SUBSET Marks
  BY <1>1, CacheFields DEF Cells
<1>3. len \in Nat /\ len > 0 /\ len <= CacheSize /\ off + len <= SectorSize
  BY <1>2 DEF WindowLen
<1>4. \A i \in Slots : i \in Nat /\ i < CacheSize
  BY DEF Slots
<1>5. ASSUME NEW i \in Slots, i < len
      PROVE  /\ off + i \in Cells /\ flash[s][off + i] \in SUBSET Marks
             /\ v[s][off + i] = IF s = p.sector /\ off + i >= p.off /\ off + i < p.off + p.size
                                THEN Set(p.buffer[off + i - p.off]) ELSE flash[s][off + i]
  <2>1. off + i \in Cells
    BY <1>2, <1>3, <1>4, <1>5 DEF Cells
  <2> DEFINE c == off + i
  <2> HIDE DEF c, v
  <2>2. c \in Cells
    BY <2>1 DEF c
  <2>3. v[s][c] = SeenIn(Memory, s, c)
    BY <1>1, <2>2, ViewType DEF v
  <2>4. v[s][c] = IF s = p.sector /\ c >= p.off /\ c < p.off + p.size
                                THEN Set(p.buffer[c - p.off]) ELSE flash[s][c]
    BY <1>1, <2>3 DEF SeenIn, Covers
  <2>5. flash[s][c] \in SUBSET Marks
    BY <1>1, <2>2 DEF Views
  <2>6. off + i = c
    BY DEF c
  <2> HIDE DEF p
  <2>7. off + i \in Cells /\ flash[s][off + i] \in SUBSET Marks
    BY <2>2, <2>5, <2>6
  <2>8. v[s][off + i] = IF s = p.sector /\ off + i >= p.off /\ off + i < p.off + p.size
                        THEN Set(p.buffer[off + i - p.off]) ELSE flash[s][off + i]
    <3>1. off \in Int /\ i \in Int /\ c \in Int /\ p.off \in Int /\ p.size \in Int
      BY <1>2, <1>4, <2>2 DEF Cells, p
    <3>2. v[s][off + i] = v[s][c]
      BY <2>6
    <3>3. /\ off + i >= p.off <=> c >= p.off
          /\ off + i < p.off + p.size <=> c < p.off + p.size
      BY <2>6
    <3>4. p.buffer[off + i - p.off] = p.buffer[c - p.off]
      <4>1. off + i - p.off = c - p.off
        BY ONLY <2>6, <3>1
      <4> QED BY <4>1
    <3>5. flash[s][off + i] = flash[s][c]
      BY <2>6
    <3> QED BY ONLY <2>4, <3>2, <3>3, <3>4, <3>5
  <2> QED BY <2>7, <2>8
<1>6. s = p.sector => /\ p.off >= FirstOff /\ p.off + p.size = tail[s] /\ tail[s] \in Nat
                      /\ \A c \in Cells : c < p.off /\ "head" \in flash[s][c] => c + HeadSize < p.off
                      /\ \A i \in Slots :
                           /\ i >= p.size => p.buffer[i] = {}
                           /\ i < p.size /\ "head" \in p.buffer[i] => i + HeadSize < p.size
  BY <1>1 DEF Sound, Waiting, Cells
<1>7. \A c \in Cells : c >= tail[s] => v[s][c] = {}
  BY <1>1 DEF Logged, Cells
<1>8. CASE same
  BY <1>1, <1>8 DEF ReadToCache, WindowLen
<1>9. ASSUME NEW b, \A i \in Slots : b[i] \in SUBSET Marks, b = [i \in Slots |-> b[i]],
             \A i \in Slots : i < len => Agrees(b[i], v[s][off + i], i, len)
      PROVE  Fill(b) \in Cache /\ Window(Fill(b)) /\ Coherent(Fill(b), v)
  <2> HIDE DEF v
  <2> QED BY <1>1, <1>9, FillCoherent
<1>10. CASE ~ same /\ apart
  <2>1. n = Fill(plain)
    BY <1>10 DEF ReadToCache, WindowLen
  <2>2. ASSUME NEW i \in Slots
        PROVE  /\ plain[i] \in SUBSET Marks
               /\ i < len => plain[i] = v[s][off + i]
    <3>1. plain[i] = IF i < len THEN flash[s][off + i] ELSE {}
      BY DEF Slots
    <3>2. i < len => ~ (s = p.sector /\ off + i >= p.off /\ off + i < p.off + p.size)
      BY <1>2, <1>3, <1>4, <1>10
    <3> HIDE DEF plain, v, len, p
    <3> QED BY <1>5, <3>1, <3>2
  <2>3. plain = [i \in Slots |-> plain[i]]
    BY DEF Slots
  <2> HIDE DEF plain, n, v, len
  <2>4. \A i \in Slots : i < len => Agrees(plain[i], v[s][off + i], i, len)
    BY <2>2 DEF Agrees
  <2>5. Fill(plain) \in Cache /\ Window(Fill(plain)) /\ Coherent(Fill(plain), v)
    BY <1>9, <2>2, <2>3, <2>4
  <2> QED BY <2>1, <2>5 DEF n, v
<1>11. CASE ~ same /\ ~ apart /\ at = 0
  <2> DEFINE b == Written(whole, 0, p.size)
  <2>0. p.off = off /\ s = p.sector
    <3>1. at = 0 <=> p.off = off
      BY <1>2
    <3> HIDE DEF same, at, len, p
    <3> QED BY <1>11, <3>1 DEF p
  <2>1. n = Fill(b)
    BY <1>11 DEF ReadToCache, WindowLen
  <2>2. ASSUME NEW i \in Slots
        PROVE  /\ b[i] \in SUBSET Marks
               /\ i < len => b[i] = v[s][off + i]
    <3>1. whole[i] = (IF i < p.size THEN p.buffer[i] ELSE {}) /\ i \in DOMAIN whole
      BY DEF Slots
    <3>2. b[i] = IF i >= 0 /\ i + HeadSize <= p.size THEN Set(whole[i]) ELSE whole[i]
      <4>1. 0 \in Int /\ p.size \in Int
        BY <1>2
      <4> HIDE DEF whole, p
      <4> QED BY ONLY <3>1, <4>1, WrittenIs DEF b
    <3> HIDE DEF b, whole, v, len, p
    <3>3. CASE i < p.size
      <4>1. "head" \in p.buffer[i] => i >= 0 /\ i + HeadSize <= p.size
        <5>1. \A j \in Slots : j < p.size /\ "head" \in p.buffer[j] => j + HeadSize < p.size
          BY <1>6, <2>0
        <5>2. i \in Nat /\ p.size \in Nat
          BY <1>2, <1>4
        <5> QED BY ONLY <3>3, <5>1, <5>2, HeadSizeAssumption
      <4>2. b[i] = Set(p.buffer[i])
        BY <3>1, <3>2, <3>3, <4>1, SetWithout
      <4>3. off + i >= p.off /\ off + i < p.off + p.size /\ off + i - p.off = i
        BY <1>2, <1>4, <2>0, <3>3 DEF p
      <4>5. i < len => v[s][off + i] = Set(p.buffer[off + i - p.off])
        BY <1>5, <2>0, <4>3
      <4> QED BY <1>2, <4>2, <4>3, <4>5, SetMarks
    <3>4. CASE ~ (i < p.size)
      <4>1. b[i] = {}
        BY <1>2, <1>4, <3>1, <3>2, <3>4
      <4>2. i < len => v[s][off + i] = {}
        <5>1. off + i >= tail[s]
          BY <1>2, <1>4, <1>6, <1>11, <3>4 DEF p
        <5> QED BY <1>5, <1>7, <5>1
      <4> QED BY <4>1, <4>2
    <3> QED BY <3>3, <3>4
  <2>3. b = [i \in Slots |-> b[i]]
    BY DEF Written, Slots
  <2> HIDE DEF b, n, v, len
  <2>4. \A i \in Slots : i < len => Agrees(b[i], v[s][off + i], i, len)
    BY <2>2 DEF Agrees
  <2>5. Fill(b) \in Cache /\ Window(Fill(b)) /\ Coherent(Fill(b), v)
    BY <1>9, <2>2, <2>3, <2>4
  <2> QED BY <2>1, <2>5 DEF n, v
<1>12. CASE ~ same /\ ~ apart /\ at > 0
  <2> DEFINE b == Written(joined, at, len)
  <2>0. s = p.sector /\ at < len /\ off < p.off /\ at \in Nat
    <3>1. at \in Int /\ (at > 0 <=> off < p.off)
      BY <1>2
    <3> HIDE DEF same, at, len, p
    <3>2. s = p.sector /\ ~ (at >= len) /\ at > 0
      BY <1>12 DEF p
    <3> QED BY <1>3, <3>1, <3>2
  <2>1. at > HeadSize
    <3>1. CASE off = 0
      BY <1>2, <1>6, <2>0, <3>1 DEF FirstOff
    <3>2. CASE off = tail[s]
      BY <1>2, <1>6, <2>0, <3>2
    <3>3. CASE "head" \in v[s][off]
      <4>1. v[s][off] = flash[s][off]
        <5>1. 0 \in Slots /\ off + 0 = off
          BY <1>2 DEF Slots
        <5> HIDE DEF v, len, p
        <5>2. v[s][off + 0] = flash[s][off + 0]
          BY <1>2, <1>3, <1>5, <2>0, <5>1
        <5> QED BY <5>1, <5>2
      <4>2. off + HeadSize < p.off
        BY <1>6, <2>0, <3>3, <4>1
      <4> QED BY <1>2, <4>2
    <3> QED BY <3>1, <3>2, <3>3
  <2>1a. n = Fill(b)
    <3>1. at # 0
      BY <1>2, <1>12
    <3> QED BY <1>12, <2>1, <3>1 DEF ReadToCache, WindowLen
  <2>2. ASSUME NEW i \in Slots
        PROVE  /\ b[i] \in SUBSET Marks
               /\ i < len => Agrees(b[i], v[s][off + i], i, len)
    <3>1. joined[i] = (IF i < at THEN flash[s][off + i]
                      ELSE IF i < len THEN p.buffer[i - at] ELSE old[i]) /\ i \in DOMAIN joined
      BY DEF Slots
    <3>2. b[i] = IF i >= at /\ i + HeadSize <= len THEN Set(joined[i]) ELSE joined[i]
      BY <1>3, <2>0, <3>1, WrittenIs
    <3> HIDE DEF b, joined, v, len, p, at
    <3>3. CASE i < at
      <4>1. i < len /\ ~ (i >= at)
        BY <1>3, <1>4, <2>0, <3>3
      <4>2. b[i] = flash[s][off + i]
        BY <3>1, <3>2, <3>3, <4>1
      <4>3. ~ (off + i >= p.off)
        BY <1>2, <1>4, <2>0, <3>3 DEF at, p
      <4>4. v[s][off + i] = flash[s][off + i] /\ flash[s][off + i] \in SUBSET Marks
        BY <1>5, <4>1, <4>3
      <4> QED BY <4>2, <4>4 DEF Agrees
    <3>4. CASE i >= at /\ i < len
      <4> DEFINE j == i - at
      <4>1. j \in Slots
        BY <1>3, <1>4, <2>0, <3>4 DEF Slots
      <4>2. off + i >= p.off /\ (off + i < p.off + p.size <=> j < p.size) /\ off + i - p.off = j
        BY <1>2, <1>4, <2>0, <3>4 DEF at, p
      <4>3. joined[i] = p.buffer[j]
        BY <1>4, <2>0, <3>1, <3>4
      <4> HIDE DEF j
      <4>4. v[s][off + i] = Set(p.buffer[j])
        <5>1. CASE j < p.size
          <6>1. off + i < p.off + p.size
            BY <4>2, <5>1
          <6>2. v[s][off + i] = Set(p.buffer[off + i - p.off])
            BY <1>5, <2>0, <3>4, <4>2, <6>1
          <6> QED BY <4>2, <6>2
        <5>2. CASE ~ (j < p.size)
          <6>1. j >= p.size
            BY <1>2, <1>4, <4>1, <5>2 DEF p
          <6>2. p.buffer[j] = {}
            BY <1>6, <2>0, <4>1, <6>1 DEF p
          <6>3. off + i >= tail[s]
            BY <1>2, <1>4, <1>6, <2>0, <4>2, <5>2 DEF p
          <6>4. v[s][off + i] = {}
            BY <1>5, <1>7, <3>4, <6>3
          <6> QED BY <6>2, <6>4 DEF Set
        <5> QED BY <5>1, <5>2
      <4>5. p.buffer[j] \in SUBSET Marks
        BY <1>2, <4>1 DEF p
      <4>6. b[i] = IF i + HeadSize <= len THEN Set(p.buffer[j]) ELSE p.buffer[j]
        BY <3>2, <3>4, <4>3
      <4> QED BY <4>4, <4>5, <4>6, SetMarks, SetWithout DEF Agrees
    <3>5. CASE i >= at /\ ~ (i < len)
      <4>1. joined[i] = old[i]
        BY <1>4, <2>0, <3>1, <3>5
      <4>2. joined[i] \in SUBSET Marks
        BY <1>2, <4>1
      <4> QED BY <3>2, <3>5, <4>2, SetMarks
    <3> QED BY <1>4, <2>0, <3>3, <3>4, <3>5
  <2>3. b = [i \in Slots |-> b[i]]
    BY DEF Written, Slots
  <2> HIDE DEF b, n, v, len
  <2>5. Fill(b) \in Cache /\ Window(Fill(b)) /\ Coherent(Fill(b), v)
    BY <1>9, <2>2, <2>3
  <2> QED BY <2>1a, <2>5 DEF n, v
<1>13. CASE ~ same /\ ~ apart /\ at < 0
  <2> DEFINE b == Written(inner, 0, rest)
  <2>0. /\ s = p.sector /\ off > p.off /\ off < p.off + p.size /\ at \in Int /\ rest \in Nat /\ rest > 0
        /\ rest <= CacheSize
    BY <1>2, <1>13
  <2>1. rest > HeadSize
    <3>1. "head" \in v[s][off]
      <4>1. off # 0
        BY <1>2, <2>0
      <4>2. off # tail[s]
        BY <1>2, <1>6, <2>0
      <4> QED BY <4>1, <4>2
    <3> DEFINE j == off - p.off
    <3>2. j \in Slots /\ j < p.size
      BY <1>2, <2>0 DEF Slots
    <3>3. v[s][off] = Set(p.buffer[j])
      <4>1. 0 \in Slots /\ off + 0 = off
        BY <1>2 DEF Slots
      <4>1a. off + 0 >= p.off /\ off + 0 < p.off + p.size
        BY <1>2, <2>0
      <4> HIDE DEF v, len, p
      <4>2. v[s][off + 0] = Set(p.buffer[off + 0 - p.off])
        BY <1>3, <1>5, <2>0, <4>1, <4>1a
      <4>3. off + 0 - p.off = j
        BY <1>2 DEF p
      <4> HIDE DEF j
      <4> QED BY <4>1, <4>2, <4>3
    <3>4. "head" \in p.buffer[j]
      BY <1>2, <3>1, <3>2, <3>3, SetMarks
    <3>5. j + HeadSize < p.size
      <4> HIDE DEF j
      <4> QED BY <1>6, <2>0, <3>2, <3>4
    <3> QED BY <1>2, <3>5
  <2>1a. n = Fill(b)
    <3>1. at # 0 /\ ~ (at > HeadSize) /\ ~ (rest < HeadSize)
      BY <1>2, <1>13, <2>1
    <3> QED BY <1>13, <3>1 DEF ReadToCache, WindowLen
  <2>2. ASSUME NEW i \in Slots
        PROVE  /\ b[i] \in SUBSET Marks
               /\ i < len => b[i] = v[s][off + i]
    <3>1. inner[i] = (IF i < rest THEN p.buffer[i - at]
                       ELSE IF i < len THEN flash[s][off + i] ELSE old[i]) /\ i \in DOMAIN inner
      BY DEF Slots
    <3>2. b[i] = IF i >= 0 /\ i + HeadSize <= rest THEN Set(inner[i]) ELSE inner[i]
      BY <2>0, <3>1, WrittenIs
    <3> HIDE DEF b, inner, v, len, p, at, rest
    <3>3. CASE i < rest
      <4> DEFINE j == i - at
      <4>1. j \in Slots /\ j < p.size
        BY <1>2, <1>4, <2>0, <3>3 DEF Slots, rest, at, p
      <4>2. off + i >= p.off /\ off + i < p.off + p.size /\ off + i - p.off = j
        BY <1>2, <1>4, <2>0, <3>3 DEF at, rest, p
      <4>2a. i >= 0 /\ (j + HeadSize < p.size => i + HeadSize <= rest)
        BY <1>2, <1>4, <2>0 DEF at, rest, p
      <4>3. inner[i] = p.buffer[j]
        BY <3>1, <3>3
      <4> HIDE DEF j
      <4>4. i < len => v[s][off + i] = Set(p.buffer[j])
        <5>1. i < len => v[s][off + i] = Set(p.buffer[off + i - p.off])
          BY <1>5, <2>0, <4>2
        <5> QED BY <4>2, <5>1
      <4>5. "head" \in p.buffer[j] => i + HeadSize <= rest
        BY <1>6, <2>0, <4>1, <4>2a DEF p
      <4>6. b[i] = Set(p.buffer[j])
        BY <3>2, <4>2a, <4>3, <4>5, SetWithout
      <4>7. p.buffer[j] \in SUBSET Marks
        BY <1>2, <4>1 DEF p
      <4> QED BY <4>4, <4>6, <4>7, SetMarks
    <3>4. CASE ~ (i < rest)
      <4>1. ~ (i + HeadSize <= rest) /\ ~ (off + i < p.off + p.size)
        BY <1>2, <1>4, <2>0, <3>4 DEF at, rest, p
      <4>2. b[i] = IF i < len THEN flash[s][off + i] ELSE old[i]
        BY <3>1, <3>2, <3>4, <4>1
      <4>3. i < len => v[s][off + i] = flash[s][off + i] /\ flash[s][off + i] \in SUBSET Marks
        BY <1>5, <4>1
      <4> QED BY <1>2, <4>2, <4>3
    <3> QED BY <3>3, <3>4
  <2>3. b = [i \in Slots |-> b[i]]
    BY DEF Written, Slots
  <2> HIDE DEF b, n, v, len
  <2>4. \A i \in Slots : i < len => Agrees(b[i], v[s][off + i], i, len)
    BY <2>2 DEF Agrees
  <2>5. Fill(b) \in Cache /\ Window(Fill(b)) /\ Coherent(Fill(b), v)
    BY <1>9, <2>2, <2>3, <2>4
  <2> QED BY <2>1a, <2>5 DEF n, v
<1> QED
  <2>1. at = 0 \/ at > 0 \/ at < 0
    BY <1>2
  <2> QED BY <1>8, <1>10, <1>11, <1>12, <1>13, <2>1

-----------------------------------------------------------------------------
(* The invariant. *)

LEMMA InitInv == Init => IInv
<1> SUFFICES ASSUME Init PROVE IInv
  OBVIOUS
<1> DEFINE m == Memory
           v == View(m)
<1>1. /\ m = [flash |-> flash, p |-> One, r |-> One] /\ m.flash = flash /\ m.p = One /\ m.r = One
      /\ pcache = One /\ FirstOff \in Nat /\ FirstOff > 0
  BY DEF Init, Memory, FirstOff
<1>2. \A s \in Sectors, c \in Cells : flash[s][c] = IF c < FirstOff THEN {"body"} ELSE {}
  BY DEF Init, Blank
<1>3. flash \in Views
  <2>1. Blank \in [Cells -> SUBSET Marks]
    BY DEF Blank, Marks
  <2> QED BY <2>1 DEF Init, Views
<1>4. FirstOff \in Cells
  BY DEF FirstOff, Cells
<1>5. tail \in [Sectors -> Cells] /\ \A s \in Sectors : tail[s] = FirstOff
  BY <1>4 DEF Init
<1>6. m \in Memories
  BY <1>1, <1>3, OneIsCache DEF Memories
<1> HIDE DEF m
<1>7. \A s \in Sectors, c \in Cells : v[s][c] = IF c < FirstOff THEN {"body"} ELSE {}
  <2>1. ASSUME NEW s \in Sectors, NEW c \in Cells
        PROVE  v[s][c] = flash[s][c]
    <3>1. ~ Covers(m.p, s, c)
      BY <1>1, OneIsCache DEF Covers
    <3> QED BY <1>1, <1>6, <3>1, ViewType DEF SeenIn
  <2> QED BY <1>2, <2>1
<1>8. Logged(v, tail)
  <2> HIDE DEF v
  <2>1. ASSUME NEW s \in Sectors, NEW c \in Cells
        PROVE  /\ c < tail[s] <=> v[s][c] # {}
               /\ "head" \notin v[s][c]
    BY <1>5, <1>7
  <2>2. \A s \in Sectors : tail[s] >= FirstOff
    <3>1. FirstOff >= FirstOff
      BY <1>1
    <3> QED BY <1>5, <3>1
  <2> QED BY <2>1, <2>2 DEF Logged
<1>9. Waiting(m, tail) /\ Rested(pcache)
  BY <1>1, OneIsCache DEF Waiting, Rested
<1>10. Window(m.r) /\ Coherent(m.r, v)
  BY <1>1, OneIsCache DEF Window, Coherent, Slots
<1> QED BY <1>5, <1>6, <1>8, <1>9, <1>10 DEF IInv, Sound, m

(* dir_prog keeps the invariant, and its entry is seen from the tail on. *)
LEMMA DirProgStep ==
  ASSUME IInv, NEW s \in Sectors, NEW len \in Lengths, DirProg(s, len)
  PROVE  /\ IInv'
         /\ Changed(View(Memory), View(Memory'), s, tail[s], len, Entry(len))
<1> DEFINE m == Memory
           n == IF len >= CacheSize
                THEN DirectProg(Flushed(m), s, tail[s], len, Entry(len))
                ELSE CacheProg(m, s, tail[s], len, Entry(len))
           u == [tail EXCEPT ![s] = @ + len]
<1>1. /\ Sound(m, tail) /\ Rested(m.p) /\ m.p = pcache /\ m \in Memories
      /\ tail[s] + len < SectorSize /\ tail' = u
      /\ flash' = n.flash /\ pcache' = n.p /\ rcache' = n.r
  <2>1. m.p = pcache
    BY DEF Memory
  <2> QED BY <2>1 DEF IInv, DirProg, Become, Sound
<1>2. len \in Nat
  BY LengthsAssumption
<1> HIDE DEF m
<1>3. Sound(n, u) /\ Rested(n.p) /\ Changed(View(m), View(n), s, tail[s], len, Entry(len))
  <2>1. CASE len >= CacheSize
    <3> DEFINE f == Flushed(m)
    <3>1. Sound(f, tail) /\ View(f) = View(m) /\ (m.p.size > 0 => f.p = One) /\ (m.p.size = 0 => f = m)
      BY <1>1, FlushedSound
    <3> HIDE DEF f
    <3>2. f.p = One
      <4>1. CASE m.p.size = 0
        <5>1. m.p.sector = Null
          BY <1>1, <4>1 DEF Rested
        <5> QED BY <1>1, <3>1, <4>1, <5>1 DEF Sound, Waiting
      <4>2. CASE m.p.size # 0
        BY <1>1, <3>1, <4>2, MemoryFields, CacheFields
      <4> QED BY <4>1, <4>2
    <3>3. LET k == DirectProg(f, s, tail[s], len, Entry(len))
          IN  /\ Sound(k, u) /\ k.p = One
              /\ Changed(View(f), View(k), s, tail[s], len, Entry(len))
      BY <1>1, <3>1, <3>2, DirectProgSound
    <3> QED BY <2>1, <3>1, <3>3, OneIsCache DEF Rested, f
  <2>2. CASE ~ (len >= CacheSize)
    <3>1. len < CacheSize
      BY <1>2, <2>2
    <3> QED BY <1>1, <2>2, <3>1, CacheProgSound
  <2> QED BY <2>1, <2>2
<1> HIDE DEF n, u
<1>4. Memory' = n
  <2>1. n = [flash |-> n.flash, p |-> n.p, r |-> n.r]
    BY <1>3, MemoryFields DEF Sound
  <2> QED BY <1>1, <2>1 DEF Memory
<1>5. IInv'
  BY <1>1, <1>3, <1>4 DEF IInv
<1> QED BY <1>3, <1>4, <1>5 DEF m

(* data_delete keeps it, and marks the cell it deletes. *)
LEMMA DeleteStep ==
  ASSUME IInv, NEW s \in Sectors, NEW off \in Cells, Delete(s, off)
  PROVE  /\ IInv' /\ View(Memory)[s][off] = {"head", "written"}
         /\ Deleted(View(Memory), View(Memory'), s, off)
<1> DEFINE m == Memory
           n == [flash |-> [m.flash EXCEPT ![s][off] = @ \cup {"deleted"}],
                 p |-> Marked(m.p, s, off), r |-> Marked(m.r, s, off)]
<1>1. Sound(m, tail) /\ Rested(pcache) /\ m.p = pcache /\ m.flash = flash /\ m.r = rcache
  BY DEF IInv, Memory
<1>2. SeenIn(m, s, off) = Seen(s, off)
  BY <1>1 DEF SeenIn, Seen, Set
<1>3. SeenIn(m, s, off) = {"head", "written"}
  BY <1>2 DEF Delete
<1>4. tail' = tail /\ Memory' = n
  BY <1>1 DEF Delete, Become, Memory
<1>5. pcache' = n.p
  BY <1>1 DEF Delete, Become
<1> HIDE DEF m
<1>6. Sound(n, tail) /\ n.p.sector = m.p.sector /\ n.p.size = m.p.size
      /\ Deleted(View(m), View(n), s, off)
  BY <1>1, <1>3, DeleteSound
<1> HIDE DEF n
<1>7. IInv'
  BY <1>1, <1>4, <1>5, <1>6 DEF IInv, Rested
<1>8. View(m)[s][off] = {"head", "written"}
  BY <1>1, <1>3, ViewType DEF Sound
<1> QED BY <1>4, <1>6, <1>7, <1>8 DEF m

(* The other steps keep it and change no view. *)
LEMMA QuietStep ==
  ASSUME IInv, Flush \/ Forget \/ (\E s \in Sectors, off \in Cells : Read(s, off)) \/ UNCHANGED vars
  PROVE  IInv' /\ View(Memory') = View(Memory)
<1> DEFINE m == Memory
<1>1. Sound(m, tail) /\ Rested(pcache) /\ m.p = pcache /\ m.flash = flash /\ m.r = rcache
      /\ m = [flash |-> flash, p |-> pcache, r |-> rcache]
  BY DEF IInv, Memory
<1>2. CASE Flush
  <2> DEFINE n == Flushed(m)
  <2>1. tail' = tail /\ flash' = n.flash /\ pcache' = n.p /\ rcache' = n.r
    BY <1>2 DEF Flush, Become
  <2> HIDE DEF m
  <2>2. /\ Sound(n, tail) /\ View(n) = View(m)
        /\ (m.p.size > 0 => n.p = One) /\ (m.p.size = 0 => n = m)
    BY <1>1, FlushedSound
  <2>3. Memory' = n
    <3> HIDE DEF n
    <3>1. n = [flash |-> n.flash, p |-> n.p, r |-> n.r]
      BY <2>2, MemoryFields DEF Sound
    <3> QED BY <2>1, <3>1 DEF Memory
  <2>4. Rested(n.p)
    <3> HIDE DEF n
    <3>1. m.p.size > 0 \/ m.p.size = 0
      BY <1>1, MemoryFields, CacheFields DEF Sound
    <3> QED BY <1>1, <2>2, <3>1, OneIsCache DEF Rested
  <2> QED BY <2>1, <2>2, <2>3, <2>4 DEF IInv, m
<1>3. ASSUME NEW r \in Cache, Window(r), Coherent(r, View(m)),
             rcache' = r, UNCHANGED <<flash, tail, pcache>>
      PROVE  IInv' /\ View(Memory') = View(Memory)
  <2> DEFINE n == [flash |-> flash, p |-> pcache, r |-> r]
  <2>1. Memory' = n
    BY <1>3 DEF Memory
  <2>2. m.flash = n.flash /\ m.p = n.p /\ n.r = r
    BY <1>1
  <2>3. n \in Memories
    BY <1>1, <2>2, MemoryFields DEF Memories, Sound
  <2> HIDE DEF n, m
  <2>4. View(n) = View(m)
    BY <2>2 DEF View, SeenIn
  <2>5. Waiting(n, tail)
    BY <1>1, <2>2 DEF Sound, Waiting
  <2>6. Sound(n, tail)
    BY <1>1, <1>3, <2>2, <2>3, <2>4, <2>5 DEF Sound
  <2> QED BY <1>1, <1>3, <2>1, <2>4, <2>6 DEF IInv, m
<1>4. CASE Forget
  <2>1. One \in Cache /\ Window(One) /\ Coherent(One, View(m))
    BY OneIsCache DEF Window, Coherent, Slots
  <2> QED BY <1>3, <1>4, <2>1 DEF Forget
<1>5. CASE \E s \in Sectors, off \in Cells : Read(s, off)
  <2>1. PICK s \in Sectors, off \in Cells : Read(s, off)
    BY <1>5
  <2>2. off = 0 \/ off = tail[s] \/ "head" \in View(Memory)[s][off]
    <3>1. SeenIn(m, s, off) = Seen(s, off)
      BY <1>1 DEF SeenIn, Seen, Set
    <3>2. m \in Memories
      BY <1>1 DEF Sound
    <3>3. View(m)[s][off] = Seen(s, off)
      BY <3>1, <3>2, ViewType
    <3> QED BY <2>1, <3>3 DEF Read
  <2> DEFINE r == ReadToCache(off, s)
  <2>3. r \in Cache /\ Window(r) /\ Coherent(r, View(m))
    BY <1>1, <2>2, ReadCoherent
  <2>4. rcache' = r /\ UNCHANGED <<flash, tail, pcache>>
    BY <2>1 DEF Read
  <2> HIDE DEF r, m
  <2> QED BY <1>3, <2>3, <2>4
<1>6. CASE UNCHANGED vars
  <2>1. Memory' = Memory /\ tail' = tail /\ pcache' = pcache
    BY <1>6 DEF vars, Memory
  <2> QED BY <2>1 DEF IInv
<1> QED BY <1>2, <1>4, <1>5, <1>6

LEMMA StepInv == IInv /\ [Next]_vars => IInv'
<1> SUFFICES ASSUME IInv, [Next]_vars PROVE IInv'
  OBVIOUS
<1>1. ASSUME NEW s \in Sectors, NEW len \in Lengths, DirProg(s, len)
      PROVE  IInv'
  BY <1>1, DirProgStep
<1>2. ASSUME NEW s \in Sectors, NEW off \in Cells, Delete(s, off)
      PROVE  IInv'
  BY <1>2, DeleteStep
<1>3. CASE Flush \/ Forget \/ (\E s \in Sectors, off \in Cells : Read(s, off)) \/ UNCHANGED vars
  BY <1>3, QuietStep
<1> QED BY <1>1, <1>2, <1>3 DEF Next

(* Every step keeps the invariant. *)
THEOREM Invariance == Spec => []IInv
BY InitInv, StepInv, PTL DEF Spec

-----------------------------------------------------------------------------
(* What it gives. *)

LEMMA SeenIsView ==
  ASSUME IInv
  PROVE  /\ Memory \in Memories /\ View(Memory) \in Views
         /\ \A s \in Sectors, c \in Cells : Seen(s, c) = View(Memory)[s][c]
<1>1. Memory \in Memories /\ Memory.p = pcache /\ Memory.flash = flash
  BY DEF IInv, Sound, Memory
<1>2. \A s \in Sectors, c \in Cells : SeenIn(Memory, s, c) = Seen(s, c)
  BY <1>1 DEF SeenIn, Seen, Set
<1> QED BY <1>1, <1>2, ViewType

(* Whatever is programmed, deleted, read and flushed, flash and the caches  *)
(* hold marks, and the caches are no longer than their buffers.             *)
THEOREM TypeCorrect == Spec => []TypeOK
<1>1. IInv => TypeOK
  <2> SUFFICES ASSUME IInv PROVE TypeOK
    OBVIOUS
  <2>1. Memory \in Memories /\ Memory.p = pcache /\ Memory.flash = flash /\ Memory.r = rcache
    BY DEF IInv, Sound, Memory
  <2>2. tail \in [Sectors -> Cells]
    BY DEF IInv, Sound
  <2> QED BY <2>1, <2>2, MemoryFields DEF TypeOK, Views
<1> QED BY <1>1, Invariance, PTL

(* cache_prog may copy to the end of what pcache holds without a look at    *)
(* where the data belongs: what waits ends where the log of its sector does.*)
THEOREM PcacheHoldsTail == Spec => []PcacheAtTail
<1>1. IInv => PcacheAtTail
  <2>1. Memory.p = pcache
    BY DEF Memory
  <2> QED BY <2>1 DEF IInv, Sound, Waiting, Rested, PcacheAtTail
<1> QED BY <1>1, Invariance, PTL

(* A traversal that goes on in the window it has read sees the log as it is *)
(* now, with every program, delete and flush made since.                    *)
THEOREM WindowsCoherent == Spec => []RcacheCoherent
<1>1. IInv => RcacheCoherent
  <2> SUFFICES ASSUME IInv, NEW i \in 0 .. rcache.size - 1
               PROVE  Agrees(rcache.buffer[i], Seen(rcache.sector, rcache.off + i), i, rcache.size)
    BY DEF RcacheCoherent, Agrees
  <2>1. /\ Memory \in Memories /\ Memory.r = rcache /\ Window(rcache)
        /\ Coherent(rcache, View(Memory))
    BY DEF IInv, Sound, Memory
  <2>2. /\ rcache.size \in Nat /\ rcache.size <= CacheSize /\ rcache.off \in Nat
        /\ rcache.off < SectorSize /\ rcache.sector \in Sectors \cup {Null}
    BY <2>1, MemoryFields, CacheFields DEF Cells
  <2>3. i \in Slots /\ i < rcache.size /\ i \in Nat
    BY <2>2 DEF Slots
  <2>4. rcache.sector \in Sectors /\ rcache.off + i \in Cells
    <3>1. rcache.sector # Null
      BY <2>1, <2>2, <2>3 DEF Window
    <3> QED BY <2>1, <2>2, <2>3, <3>1 DEF Window, Cells
  <2>5. Agrees(rcache.buffer[i], View(Memory)[rcache.sector][rcache.off + i], i, rcache.size)
    BY <2>1, <2>3 DEF Coherent
  <2>6. Seen(rcache.sector, rcache.off + i) = View(Memory)[rcache.sector][rcache.off + i]
    BY <2>4, SeenIsView
  <2> QED BY <2>5, <2>6
<1> QED BY <1>1, Invariance, PTL

-----------------------------------------------------------------------------
(* The refinement. *)

Shown(v) == [s \in Sectors |-> [c \in Cells |-> State(v[s][c])]]

LEMMA StateOf ==
  /\ State({}) = "erased" /\ State({"body"}) = "body" /\ State({"head", "written"}) = "valid"
  /\ State({"head", "written", "deleted"}) = "deleted"
  /\ \A marks : marks # {} => State(marks) # "erased"
<1>1. {"body"} # {} /\ {"head", "written"} # {} /\ {"head", "written"} # {"body"}
      /\ {"head", "written", "deleted"} # {} /\ {"head", "written", "deleted"} # {"body"}
      /\ {"head", "written", "deleted"} # {"head", "written"}
  OBVIOUS
<1> QED BY <1>1 DEF State

LEMMA AppendShown ==
  ASSUME NEW v \in Views, NEW w \in Views, NEW t \in [Sectors -> Cells], Logged(v, t),
         NEW s \in Sectors, NEW len \in Lengths, t[s] + len < SectorSize,
         Changed(v, w, s, t[s], len, Entry(len))
  PROVE  /\ t[s] \in Cells /\ t[s] >= FirstOff
         /\ Shown(v)[s][t[s]] = "erased" /\ Shown(v)[s][t[s] - 1] # "erased"
         /\ Shown(w) = [Shown(v) EXCEPT ![s] = [c \in Cells |->
               IF c = t[s] THEN "valid"
               ELSE IF c \in t[s] + 1 .. t[s] + len - 1 THEN "body" ELSE @[c]]]
<1> DEFINE off == t[s]
<1>1. /\ off \in Cells /\ off \in Nat /\ off >= FirstOff /\ FirstOff \in Nat /\ FirstOff > 0
      /\ len \in Nat \ {0}
      /\ \A j \in 0 .. len - 1 : Entry(len)[j] = IF j = 0 THEN {"head"} ELSE {"body"}
  BY EntryCells DEF Logged, Cells, FirstOff
<1>2. off - 1 \in Cells /\ off - 1 < off
  BY <1>1 DEF Cells
<1>3. v[s][off] = {} /\ v[s][off - 1] # {}
  BY <1>1, <1>2 DEF Logged
<1>4. ASSUME NEW x \in Sectors, NEW c \in Cells
      PROVE  Shown(v)[x][c] = State(v[x][c]) /\ Shown(w)[x][c] = State(w[x][c])
  BY DEF Shown
<1>5. ASSUME NEW c \in Cells
      PROVE  State(w[s][c]) = IF c = off THEN "valid"
               ELSE IF c \in off + 1 .. off + len - 1 THEN "body" ELSE State(v[s][c])
  <2>1. c \in Nat
    BY DEF Cells
  <2>2. CASE c >= off /\ c < off + len
    <3>1. w[s][c] = Set(Entry(len)[c - off]) /\ c - off \in 0 .. len - 1
      BY <1>1, <2>1, <2>2 DEF Changed
    <3>2. c - off = 0 <=> c = off
      BY <1>1, <2>1
    <3>3. c # off => c \in off + 1 .. off + len - 1
      BY <1>1, <2>1, <2>2
    <3>4. Set({"head"}) = {"head", "written"} /\ Set({"body"}) = {"body"}
      BY DEF Set
    <3> HIDE DEF off
    <3>5. CASE c = off
      BY <1>1, <3>1, <3>2, <3>4, <3>5, StateOf
    <3>6. CASE c # off
      BY <1>1, <3>1, <3>2, <3>3, <3>4, <3>6, StateOf
    <3> QED BY <3>5, <3>6
  <2>3. CASE ~ (c >= off /\ c < off + len)
    <3>1. w[s][c] = v[s][c]
      BY <2>3 DEF Changed
    <3>2. c # off /\ c \notin off + 1 .. off + len - 1
      BY <1>1, <2>1, <2>3
    <3> QED BY <3>1, <3>2
  <2> QED BY <2>2, <2>3
<1>6. ASSUME NEW x \in Sectors, x # s, NEW c \in Cells
      PROVE  w[x][c] = v[x][c]
  BY <1>6 DEF Changed
<1> DEFINE row == [c \in Cells |->
               IF c = off THEN "valid"
               ELSE IF c \in off + 1 .. off + len - 1 THEN "body" ELSE Shown(v)[s][c]]
<1>7. Shown(w) = [Shown(v) EXCEPT ![s] = row]
  <2>1. \A x \in Sectors : Shown(w)[x] = [c \in Cells |-> State(w[x][c])]
    BY DEF Shown
  <2>2. Shown(w)[s] = row
    <3>1. row = [c \in Cells |-> State(w[s][c])]
      BY <1>4, <1>5
    <3> QED BY <2>1, <3>1
  <2>3. ASSUME NEW x \in Sectors, x # s
        PROVE  Shown(w)[x] = Shown(v)[x]
    BY <1>6, <2>3 DEF Shown
  <2>4. Shown(w) = [x \in Sectors |-> Shown(w)[x]] /\ Shown(v) = [x \in Sectors |-> Shown(v)[x]]
    BY DEF Shown
  <2> HIDE DEF row
  <2> QED BY <2>2, <2>3, <2>4
<1>8. Shown(v)[s][off] = "erased" /\ Shown(v)[s][off - 1] # "erased"
  <2>1. Shown(v)[s][off] = State(v[s][off]) /\ Shown(v)[s][off - 1] = State(v[s][off - 1])
    BY <1>1, <1>2, <1>4
  <2> QED BY <1>3, <2>1, StateOf
<1> QED BY <1>1, <1>7, <1>8

LEMMA DeleteShown ==
  ASSUME NEW v \in Views, NEW w \in Views, NEW s \in Sectors, NEW off \in Cells,
         v[s][off] = {"head", "written"}, Deleted(v, w, s, off)
  PROVE  Shown(v)[s][off] = "valid" /\ Shown(w) = [Shown(v) EXCEPT ![s][off] = "deleted"]
<1>1. \A x \in Sectors, c \in Cells :
        Shown(v)[x][c] = State(v[x][c]) /\ Shown(w)[x][c] = State(w[x][c])
  BY DEF Shown
<1>2. w[s][off] = {"head", "written", "deleted"}
  BY DEF Deleted
<1>3. ASSUME NEW x \in Sectors, NEW c \in Cells
      PROVE  State(w[x][c]) = IF x = s /\ c = off THEN "deleted" ELSE State(v[x][c])
  <2>1. CASE x = s /\ c = off
    BY <1>2, <2>1, StateOf
  <2>2. CASE ~ (x = s /\ c = off)
    BY <2>2 DEF Deleted
  <2> QED BY <2>1, <2>2
<1> DEFINE row == [Shown(v)[s] EXCEPT ![off] = "deleted"]
<1>4. Shown(w) = [Shown(v) EXCEPT ![s] = row]
  <2>1. Shown(v)[s] = [c \in Cells |-> State(v[s][c])] /\ Shown(w)[s] = [c \in Cells |-> State(w[s][c])]
    BY DEF Shown
  <2>2. Shown(w)[s] = row
    BY <1>3, <2>1
  <2>3. ASSUME NEW x \in Sectors, x # s
        PROVE  Shown(w)[x] = Shown(v)[x]
    BY <1>3, <2>3 DEF Shown
  <2>4. Shown(w) = [x \in Sectors |-> Shown(w)[x]] /\ Shown(v) = [x \in Sectors |-> Shown(v)[x]]
    BY DEF Shown
  <2> HIDE DEF row
  <2> QED BY <2>2, <2>3, <2>4
<1>5. Shown(v)[s][off] = "valid"
  BY <1>1, StateOf
<1> QED BY <1>4, <1>5

(* With their caches directory sectors are the logs of NF2FSLog: a program  *)
(* adds its entry at the end at once, a delete marks it, and no flush, read *)
(* or direct write changes what a reader sees.                              *)
THEOREM ImplementsLog == Spec => LogSpec
<1> DEFINE log == [s \in Sectors |-> [c \in Cells |-> State(Seen(s, c))]]
<1>1. IInv => log = Shown(View(Memory))
  BY SeenIsView DEF Shown
<1>1a. (IInv => log = Shown(View(Memory)))'
  <2> HIDE DEF log
  <2> QED BY <1>1, PTL
<1>2. Init => Log!Init
  <2> SUFFICES ASSUME Init PROVE Log!Init
    OBVIOUS
  <2>1. ASSUME NEW s \in Sectors, NEW c \in Cells
        PROVE  State(Seen(s, c)) = IF c < FirstOff THEN "body" ELSE "erased"
    <3>1. ~ Covers(pcache, s, c)
      BY OneIsCache DEF Init, Covers
    <3>2. Seen(s, c) = IF c < FirstOff THEN {"body"} ELSE {}
      BY <3>1 DEF Init, Seen, Blank
    <3> QED BY <3>2, StateOf
  <2> QED BY <2>1 DEF Log!Init, Log!Cells, Cells
<1>3. IInv /\ IInv' /\ [Next]_vars => [Log!Next]_log
  <2> SUFFICES ASSUME IInv, IInv', [Next]_vars PROVE [Log!Next]_log
    OBVIOUS
  <2> DEFINE v == View(Memory)
             w == View(Memory')
  <2>1. log = Shown(v) /\ log' = Shown(w)
    BY <1>1, <1>1a
  <2>2. v \in Views /\ tail \in [Sectors -> Cells] /\ Logged(v, tail)
    BY SeenIsView DEF IInv, Sound
  <2>3. w \in Views
    <3>1. Memory' \in Memories
      BY DEF IInv, Sound
    <3> QED BY <3>1, ViewType
  <2> HIDE DEF log, v, w
  <2>4. ASSUME NEW s \in Sectors, NEW len \in Lengths, DirProg(s, len)
        PROVE  Log!Next
    <3>1. Changed(v, w, s, tail[s], len, Entry(len)) /\ tail[s] + len < SectorSize
      BY <2>4, DirProgStep DEF DirProg, v, w
    <3>2. /\ tail[s] \in Cells /\ tail[s] >= FirstOff
          /\ log[s][tail[s]] = "erased" /\ log[s][tail[s] - 1] # "erased"
          /\ log' = [log EXCEPT ![s] = [c \in Cells |->
               IF c = tail[s] THEN "valid"
               ELSE IF c \in tail[s] + 1 .. tail[s] + len - 1 THEN "body" ELSE @[c]]]
      BY <2>1, <2>2, <2>3, <3>1, AppendShown
    <3>3. Log!Append(s, tail[s], len)
      BY <3>1, <3>2 DEF Log!Append, Log!Cells, Cells, log
    <3> QED BY <3>2, <3>3 DEF Log!Next, Log!Cells, Cells
  <2>5. ASSUME NEW s \in Sectors, NEW off \in Cells, Delete(s, off)
        PROVE  Log!Next
    <3>1. v[s][off] = {"head", "written"} /\ Deleted(v, w, s, off)
      BY <2>5, DeleteStep DEF v, w
    <3>2. log[s][off] = "valid" /\ log' = [log EXCEPT ![s][off] = "deleted"]
      BY <2>1, <2>2, <2>3, <3>1, DeleteShown
    <3>3. Log!Delete(s, off)
      BY <3>2 DEF Log!Delete, log
    <3> QED BY <3>3 DEF Log!Next, Log!Cells, Cells
  <2>6. CASE Flush \/ Forget \/ (\E s \in Sectors, off \in Cells : Read(s, off)) \/ UNCHANGED vars
    <3>1. w = v
      BY <2>6, QuietStep DEF v, w
    <3> QED BY <2>1, <3>1 DEF log
  <2> QED BY <2>4, <2>5, <2>6 DEF Next, log
<1>4. Spec => []IInv
  BY Invariance
<1> HIDE DEF log
<1> QED BY <1>2, <1>3, <1>4, PTL DEF Spec, LogSpec, Log!Spec, log
=============================================================================
