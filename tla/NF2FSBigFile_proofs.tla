-------------------------- MODULE NF2FSBigFile_proofs --------------------------
(***************************************************************************)
(* Proofs about NF2FSBigFile, for any sizes of sectors, regions, caches and *)
(* files, an index of any length and any runs the sector manager returns,   *)
(* with appends and rewrites as AppendsFit and RewritesApart have them.     *)
(*                                                                         *)
(* The argument has five layers.                                           *)
(*   Addresses.  The cells for bytes are numbered through all sectors       *)
(*   (Base, Sec, Rem); an entry is then a stretch of addresses (Lin), and   *)
(*   index_jump, a cut and a read move along it.                            *)
(*   Folds.  Total and BytesOfAll go through an index entry by entry; by    *)
(*   induction over its length they are additive over \o, and depend on no  *)
(*   sector but those of the entries (BytesSame).                           *)
(*   Sectors.  Live(e) is where an entry has bytes.  Good says that the     *)
(*   entries are in sectors that are held, no two in one, and that nothing  *)
(*   is programmed behind the last one.  Every operation that takes a run   *)
(*   keeps what is left of it and what is right of it, and gives back       *)
(*   nothing of either (Keeps, Placed): what bfile_sector_old counts for    *)
(*   the four kinds of what is old is shown entry by entry (SectorsOfEntry, *)
(*   PastFirstIs, GoneIs, InsideGiven).                                     *)
(*   Positions.  EntryAt finds the entry of a position, and a write makes   *)
(*   of what is before it, the new bytes and what is behind it an Overlay   *)
(*   (OverlayIs).                                                           *)
(*   Steps.  Inv is kept by every operation, and the bytes of the file      *)
(*   change as one step of NF2FSByteFile has it, or not at all (Allowed).   *)
(***************************************************************************)
EXTENDS NF2FSBigFile, SequenceTheorems, WellFoundedInduction, TLAPS

LEMMA Smallest ==
  ASSUME NEW T \in SUBSET Nat, T # {}
  PROVE  \E x \in T : \A y \in T : x <= y
<1>. DEFINE R == OpToRel(<, Nat)
<1>1. IsWellFoundedOn(R, Nat) BY NatLessThanWellFounded
<1>2. \A x, y \in Nat : y < x => <<y, x>> \in R
  BY DEF OpToRel
<1>. HIDE DEF R
<1>3. PICK x \in T : \A y \in T : ~ (<<y, x>> \in R)
  BY <1>1, WFMin
<1>4. \A y \in T : x <= y
  <2>. TAKE y \in T
  <2>1. x \in Nat /\ y \in Nat OBVIOUS
  <2>2. ~ (y < x) BY <1>2, <1>3, <2>1
  <2>. QED BY <2>1, <2>2
<1>. QED BY <1>4

LEMMA Induct ==
  ASSUME NEW T, 0 \in T, \A n \in Nat : n \in T => n + 1 \in T
  PROVE  Nat \subseteq T
<1>. DEFINE U == {n \in Nat : n \notin T}
<1>. SUFFICES ASSUME U # {} PROVE FALSE OBVIOUS
<1>1. PICK x \in U : \A y \in U : x <= y  BY Smallest
<1>2. x # 0 BY <1>1
<1>3. x - 1 \in Nat /\ x - 1 \notin U BY <1>1, <1>2
<1>. QED BY <1>1, <1>2, <1>3

-----------------------------------------------------------------------------
(* Addresses: the cells for bytes in all sectors, one after the other.      *)
Base(s) == s * PerSector
Sec(a)  == a \div PerSector
Rem(a)  == a % PerSector

LEMMA SizesFacts ==
  /\ PerSector \in Nat /\ PerSector > 0 /\ PerSector = SectorSize - DataOff
  /\ SectorCnt \in Nat /\ RegionSize \in Nat /\ RegionSize > 0 /\ SectorSize \in Nat
  /\ DataOff \in Nat /\ IndexOff \in Nat /\ IndexOff < DataOff /\ DataOff < SectorSize
  /\ Threshold \in Nat /\ MaxSize \in Nat /\ IndexMax \in Nat /\ IndexNum \in Nat
BY SizesAssumption, IndexAssumption DEF PerSector

LEMMA Division ==
  ASSUME NEW a \in Nat
  PROVE  /\ Sec(a) \in Nat /\ Rem(a) \in 0 .. PerSector - 1
         /\ Base(Sec(a)) \in Nat /\ a = Base(Sec(a)) + Rem(a)
<1>. DEFINE p == PerSector
<1>1. p \in Nat /\ p > 0 BY SizesFacts
<1>. HIDE DEF p
<1>2. /\ a \div p \in Nat /\ a % p \in 0 .. p - 1 /\ a = p * (a \div p) + (a % p)
  BY <1>1
<1>3. (a \div p) * p = p * (a \div p) /\ (a \div p) * p \in Nat BY <1>1, <1>2
<1>. QED BY <1>1, <1>2, <1>3 DEF p, Sec, Rem, Base

LEMMA Bases ==
  ASSUME NEW s \in Nat, NEW t \in Nat
  PROVE  /\ Base(s) \in Nat /\ Base(s + 1) = Base(s) + PerSector
         /\ Base(s + t) = Base(s) + Base(t) /\ Base(0) = 0
         /\ s < t => Base(s) + PerSector <= Base(t)
<1>. DEFINE p == PerSector
<1>1. p \in Nat /\ p > 0 BY SizesFacts
<1>. HIDE DEF p
<1>2. s * p \in Nat /\ (s + 1) * p = s * p + p /\ (s + t) * p = s * p + t * p /\ 0 * p = 0
  BY <1>1
<1>3. ASSUME s < t PROVE s * p + p <= t * p
  <2>1. PICK d \in Nat : t = s + 1 + d BY <1>3
  <2>2. t * p = s * p + p + d * p BY <1>1, <2>1
  <2>3. d * p \in Nat BY <1>1
  <2>. QED BY <1>1, <1>2, <2>2, <2>3
<1>. QED BY <1>2, <1>3 DEF p, Base

LEMMA AddressOf ==
  ASSUME NEW s \in Nat, NEW r \in 0 .. PerSector - 1
  PROVE  /\ Base(s) + r \in Nat /\ Sec(Base(s) + r) = s /\ Rem(Base(s) + r) = r
<1>. DEFINE a == Base(s) + r
            t == Sec(a)
<1>1. PerSector \in Nat /\ PerSector > 0 /\ Base(s) \in Nat BY SizesFacts, Bases
<1>2. a \in Nat BY <1>1
<1>. HIDE DEF a
<1>3. t \in Nat /\ Rem(a) \in 0 .. PerSector - 1 /\ Base(t) \in Nat /\ a = Base(t) + Rem(a)
  BY <1>2, Division
<1>. HIDE DEF t
<1>4. ~ s < t
  <2>1. s < t => Base(s) + PerSector <= Base(t) BY <1>3, Bases
  <2>. QED BY <1>1, <1>3, <2>1 DEF a
<1>5. ~ t < s
  <2>1. t < s => Base(t) + PerSector <= Base(s) BY <1>3, Bases
  <2>. QED BY <1>1, <1>3, <2>1 DEF a
<1>6. t = s BY <1>3, <1>4, <1>5
<1>. QED BY <1>1, <1>2, <1>3, <1>6 DEF a, t

LEMMA SecOrder ==
  ASSUME NEW a \in Nat, NEW b \in Nat, a <= b
  PROVE  Sec(a) <= Sec(b)
<1>1. /\ Sec(a) \in Nat /\ Rem(a) \in 0 .. PerSector - 1 /\ a = Base(Sec(a)) + Rem(a)
      /\ Sec(b) \in Nat /\ Rem(b) \in 0 .. PerSector - 1 /\ b = Base(Sec(b)) + Rem(b)
      /\ Base(Sec(a)) \in Nat /\ Base(Sec(b)) \in Nat
  BY Division
<1>2. Sec(b) < Sec(a) => Base(Sec(b)) + PerSector <= Base(Sec(a)) BY <1>1, Bases
<1>. QED BY <1>1, <1>2, SizesFacts

LEMMA BaseNat == \A s \in Nat : Base(s) \in Nat
BY Bases

LEMMA BaseSum == \A s, t \in Nat : s + t \in Nat /\ Base(s + t) = Base(s) + Base(t)
BY Bases

(* The addresses of a sector. *)
LEMMA InSector ==
  ASSUME NEW s \in Nat, NEW a \in Nat
  PROVE  Sec(a) = s <=> Base(s) <= a /\ a < Base(s) + PerSector
<1>1. Sec(a) \in Nat /\ Rem(a) \in 0 .. PerSector - 1 /\ a = Base(Sec(a)) + Rem(a) BY Division
<1>2. Base(s) \in Nat /\ PerSector \in Nat BY Bases, SizesFacts
<1>3. ASSUME Sec(a) = s PROVE Base(s) <= a /\ a < Base(s) + PerSector
  BY <1>1, <1>2, <1>3
<1>4. ASSUME Base(s) <= a, a < Base(s) + PerSector PROVE Sec(a) = s
  <2>1. a - Base(s) \in 0 .. PerSector - 1 BY <1>2, <1>4
  <2>2. Sec(Base(s) + (a - Base(s))) = s BY <2>1, AddressOf
  <2>3. Base(s) + (a - Base(s)) = a BY <1>2
  <2>. QED BY <2>2, <2>3
<1>. QED BY <1>3, <1>4

-----------------------------------------------------------------------------
(* Entries: the bytes of one are at consecutive addresses from Lin(e) on.   *)
Entries == [sector : Sectors, off : DataOff .. SectorSize - 1, size : Nat \ {0}]

Lin(e) == Base(e.sector) + (e.off - DataOff)

(* The sectors it has bytes in. *)
LastSec(e) == Sec(Lin(e) + e.size - 1)
Live(e)    == e.sector .. LastSec(e)

LEMMA EntryFacts ==
  ASSUME NEW e \in Entries
  PROVE  /\ e.sector \in Nat /\ e.sector \in Sectors /\ e.off \in Nat /\ e.size \in Nat
         /\ e.off - DataOff \in 0 .. PerSector - 1 /\ e.size > 0 /\ e.off >= DataOff
         /\ Lin(e) \in Nat /\ Sec(Lin(e)) = e.sector /\ Rem(Lin(e)) = e.off - DataOff
         /\ e = Place(e.sector, e.off, e.size)
<1>1. /\ e.sector \in Nat /\ e.sector \in Sectors /\ e.off \in Nat /\ e.size \in Nat
      /\ e.size > 0 /\ e.off >= DataOff /\ e.off - DataOff \in 0 .. PerSector - 1
  BY SizesFacts DEF Entries, Sectors
<1>2. e = Place(e.sector, e.off, e.size) BY DEF Entries, Place
<1>. QED BY <1>1, <1>2, AddressOf DEF Lin

LEMMA CellIs ==
  ASSUME NEW e, e.sector \in Nat, e.off \in Nat, e.off >= DataOff, NEW k \in Nat
  PROVE  /\ Cell(e, k) = <<Sec(Lin(e) + k), DataOff + Rem(Lin(e) + k)>>
         /\ Lin(e) \in Nat /\ Lin(e) + k \in Nat
<1>. DEFINE at == e.off - DataOff + k
            d  == Sec(at)
            r  == Rem(at)
<1>1. at \in Nat /\ Base(e.sector) \in Nat BY SizesFacts, BaseNat
<1>2. Lin(e) + k = Base(e.sector) + at /\ Lin(e) \in Nat BY <1>1, SizesFacts DEF Lin
<1>3. Cell(e, k) = <<e.sector + d, DataOff + r>> BY DEF Cell, Sec, Rem
<1>. HIDE DEF at
<1>4. d \in Nat /\ r \in 0 .. PerSector - 1 /\ Base(d) \in Nat /\ at = Base(d) + r
  BY <1>1, Division
<1>. HIDE DEF d, r
<1>5. Base(e.sector + d) = Base(e.sector) + Base(d) /\ e.sector + d \in Nat BY <1>4, BaseSum
<1>6. Lin(e) + k = Base(e.sector + d) + r BY <1>1, <1>2, <1>4, <1>5
<1>7. Sec(Lin(e) + k) = e.sector + d /\ Rem(Lin(e) + k) = r BY <1>4, <1>5, <1>6, AddressOf
<1>. QED BY <1>1, <1>2, <1>3, <1>7

LEMMA LiveFacts ==
  ASSUME NEW e \in Entries
  PROVE  /\ LastSec(e) \in Nat /\ e.sector <= LastSec(e) /\ e.sector \in Live(e)
         /\ LastSec(e) \in Live(e)
         /\ \A k \in 0 .. e.size - 1 : Sec(Lin(e) + k) \in Live(e)
         /\ \A s \in Live(e) : s \in Nat
<1>1. Lin(e) \in Nat /\ Sec(Lin(e)) = e.sector /\ e.sector \in Nat /\ e.size \in Nat /\ e.size > 0
  BY EntryFacts
<1>2. ASSUME NEW k \in 0 .. e.size - 1
      PROVE  Sec(Lin(e) + k) \in Nat /\ e.sector <= Sec(Lin(e) + k) /\ Sec(Lin(e) + k) <= LastSec(e)
             /\ LastSec(e) \in Nat
  <2>. DEFINE z == Lin(e) + e.size - 1
              y == Lin(e) + k
  <2>1. z \in Nat /\ y \in Nat /\ Lin(e) <= y /\ y <= z BY <1>1
  <2>. HIDE DEF z, y
  <2>2. Sec(z) \in Nat /\ Sec(y) \in Nat /\ Sec(Lin(e)) <= Sec(y) /\ Sec(y) <= Sec(z)
    BY <1>1, <2>1, SecOrder, Division
  <2>. QED BY <1>1, <2>2 DEF z, y, LastSec
<1>3. e.size - 1 \in 0 .. e.size - 1 /\ 0 \in 0 .. e.size - 1 BY <1>1
<1>4. e.sector <= LastSec(e) /\ LastSec(e) \in Nat BY <1>1, <1>2, <1>3
<1>. QED BY <1>1, <1>2, <1>4 DEF Live

(* index_jump into an entry. *)
LEMMA JumpIs ==
  ASSUME NEW e \in Entries, Live(e) \subseteq Sectors, NEW c \in 0 .. e.size - 1
  PROVE  LET j == Jump(e, c)
         IN  /\ j \in Entries /\ Lin(j) = Lin(e) + c /\ j.size = e.size - c
             /\ j.sector = Sec(Lin(e) + c) /\ LastSec(j) = LastSec(e)
             /\ Live(j) \subseteq Live(e) /\ (c = 0 => j = e)
<1>. DEFINE j == Jump(e, c)
            a == Lin(e) + c
<1>1. e.sector \in Nat /\ e.off \in Nat /\ e.off >= DataOff /\ e.size \in Nat /\ e.size > 0
      /\ Lin(e) \in Nat /\ Sec(Lin(e)) = e.sector /\ Rem(Lin(e)) = e.off - DataOff
      /\ e = Place(e.sector, e.off, e.size)
  BY EntryFacts
<1>2. Cell(e, c) = <<Sec(a), DataOff + Rem(a)>> /\ a \in Nat BY <1>1, CellIs
<1>3. j = Place(Sec(a), DataOff + Rem(a), e.size - c) BY <1>2 DEF Jump
<1>4. Sec(a) \in Live(e) BY LiveFacts
<1>. HIDE DEF a
<1>5. Rem(a) \in 0 .. PerSector - 1 /\ a = Base(Sec(a)) + Rem(a) /\ Sec(a) \in Nat
      /\ Base(Sec(a)) \in Nat
  BY <1>2, Division
<1>. HIDE DEF j
<1>6. j.sector = Sec(a) /\ j.off = DataOff + Rem(a) /\ j.size = e.size - c BY <1>3 DEF Place
<1>7. j \in Entries
  <2>1. DataOff + Rem(a) \in DataOff .. SectorSize - 1 BY <1>5, SizesFacts
  <2>2. e.size - c \in Nat \ {0} BY <1>1
  <2>3. Sec(a) \in Sectors BY <1>4
  <2>. QED BY <1>3, <2>1, <2>2, <2>3 DEF Place, Entries
<1>8. Lin(j) = a BY <1>5, <1>6, SizesFacts DEF Lin
<1>9. LastSec(j) = LastSec(e)
  <2>1. Lin(j) + j.size - 1 = Lin(e) + e.size - 1 BY <1>1, <1>6, <1>8 DEF a
  <2>. QED BY <2>1 DEF LastSec
<1>10. Live(j) \subseteq Live(e)
  <2>1. e.sector <= Sec(a) BY <1>1, <1>4 DEF Live
  <2>2. LastSec(e) \in Nat BY LiveFacts
  <2>. QED BY <1>1, <1>5, <1>6, <1>9, <2>1, <2>2 DEF Live
<1>11. c = 0 => j = e
  <2>1. ASSUME c = 0 PROVE j = e
    <3>1. a = Lin(e) BY <1>1, <2>1 DEF a
    <3>2. j = Place(e.sector, DataOff + (e.off - DataOff), e.size - 0) BY <1>1, <1>3, <2>1, <3>1
    <3>3. DataOff + (e.off - DataOff) = e.off /\ e.size - 0 = e.size BY <1>1, SizesFacts
    <3>. QED BY <1>1, <3>2, <3>3
  <2>. QED BY <2>1
<1>. QED BY <1>6, <1>7, <1>8, <1>9, <1>10, <1>11 DEF j, a

(* The beginning of an entry. *)
LEMMA CutIs ==
  ASSUME NEW e \in Entries, NEW c \in 1 .. e.size
  PROVE  LET b == [e EXCEPT !.size = c]
         IN  /\ b \in Entries /\ Lin(b) = Lin(e) /\ b.size = c /\ b.sector = e.sector
             /\ b.off = e.off /\ LastSec(b) = Sec(Lin(e) + c - 1) /\ LastSec(b) <= LastSec(e)
             /\ Live(b) \subseteq Live(e)
<1>. DEFINE b == [e EXCEPT !.size = c]
<1>1. /\ b \in Entries /\ b.size = c /\ b.sector = e.sector /\ b.off = e.off
  BY EntryFacts DEF Entries
<1>. HIDE DEF b
<1>2. Lin(b) = Lin(e) BY <1>1 DEF Lin
<1>3. LastSec(b) = Sec(Lin(e) + c - 1) BY <1>1, <1>2 DEF LastSec
<1>4. e.size \in Nat /\ Lin(e) \in Nat BY EntryFacts
<1>5. Sec(Lin(e) + (c - 1)) \in Live(e) BY <1>4, LiveFacts
<1>6. Lin(e) + (c - 1) = Lin(e) + c - 1 BY <1>4
<1>7. LastSec(b) <= LastSec(e) BY <1>3, <1>5, <1>6 DEF Live
<1>8. LastSec(b) \in Nat /\ LastSec(e) \in Nat /\ e.sector \in Nat BY <1>1, LiveFacts, EntryFacts
<1>9. Live(b) \subseteq Live(e) BY <1>1, <1>7, <1>8 DEF Live
<1>. QED BY <1>1, <1>2, <1>3, <1>7, <1>9 DEF b

-----------------------------------------------------------------------------
(* A fold, element by element. *)
LEMMA MaxTop ==
  ASSUME NEW k \in Nat, NEW s \in SUBSET (1 .. k + 1), k + 1 \in s
  PROVE  Max(s) = k + 1
<1>1. \A y \in s : y \in Int /\ k + 1 >= y OBVIOUS
<1>2. \A x \in s : (\A y \in s : x >= y) => x = k + 1 BY <1>1
<1>. QED BY <1>1, <1>2 DEF Max

LEMMA IntervalTop ==
  ASSUME NEW i \in Nat \ {0}
  PROVE  Max(1 .. i) = i /\ (1 .. i) \ {i} = 1 .. i - 1 /\ 1 .. i # {}
<1>1. i - 1 \in Nat /\ (i - 1) + 1 = i /\ i \in 1 .. i OBVIOUS
<1>2. Max(1 .. i) = i BY <1>1, MaxTop
<1>3. ASSUME NEW j PROVE j \in (1 .. i) \ {i} <=> j \in 1 .. i - 1 OBVIOUS
<1>4. (1 .. i) \ {i} = 1 .. i - 1 BY <1>3
<1>. QED BY <1>1, <1>2, <1>4

(* The sizes of entries. *)
LEMMA TotalFold ==
  ASSUME NEW S, NEW q \in Seq(S)
  PROVE  \E new : /\ new[0] = 0 /\ Total(q) = new[Len(q)]
                  /\ \A i \in 1 .. Len(q) : new[i] = new[i - 1] + q[i].size
<1>. DEFINE Step(g, s) == IF s = {} THEN 0
                          ELSE LET x == Max(s) IN g[s \ {x}] + q[x].size
            Def(g, k) == g = [s \in SUBSET (1 .. k) |-> Step(g, s)]
            top  == Len(q)
            iter == CHOOSE g : Def(g, top)
<1>0. top \in Nat /\ DOMAIN q = 1 .. top  OBVIOUS
<1>1. Total(q) = iter[1 .. top]
  BY <1>0 DEF Total, FoldLeft, MapThenFoldSet
<1>2. \E g : Def(g, 0)
  <2>1. SUBSET (1 .. 0) = {{}} OBVIOUS
  <2>2. Def([s \in {{}} |-> 0], 0) BY <2>1
  <2>. QED BY <2>2
<1>3. ASSUME NEW k \in Nat, NEW g, Def(g, k)
      PROVE  \E h : Def(h, k + 1)
  <2>. DEFINE h == [s \in SUBSET (1 .. k + 1) |->
                      IF k + 1 \in s THEN g[s \ {k + 1}] + q[k + 1].size ELSE g[s]]
  <2>1. ASSUME NEW s \in SUBSET (1 .. k + 1), k + 1 \in s
        PROVE  h[s] = Step(h, s)
    <3>1. Max(s) = k + 1 BY <2>1, MaxTop
    <3>2. s \ {k + 1} \in SUBSET (1 .. k + 1) /\ k + 1 \notin s \ {k + 1} OBVIOUS
    <3>3. h[s \ {k + 1}] = g[s \ {k + 1}] BY <3>2
    <3>. QED BY <2>1, <3>1, <3>3
  <2>2. ASSUME NEW s \in SUBSET (1 .. k + 1), k + 1 \notin s
        PROVE  h[s] = Step(h, s)
    <3>1. s \in SUBSET (1 .. k) BY <2>2
    <3>2. h[s] = g[s] BY <2>2
    <3>3. g[s] = Step(g, s) BY <1>3, <3>1
    <3>4. h[s \ {Max(s)}] = g[s \ {Max(s)}] BY <2>2
    <3>. QED BY <3>2, <3>3, <3>4
  <2>3. Def(h, k + 1) BY <2>1, <2>2
  <2>. QED BY <2>3
<1>4. \E g : Def(g, top)
  <2>. DEFINE T == {k \in Nat : \E g : Def(g, k)}
  <2>. HIDE DEF Def
  <2>1. 0 \in T BY <1>2
  <2>2. \A k \in Nat : k \in T => k + 1 \in T BY <1>3
  <2>. HIDE DEF T
  <2>3. Nat \subseteq T BY <2>1, <2>2, Induct
  <2>. QED BY <1>0, <2>3 DEF T
<1>5. Def(iter, top)
  <2>. HIDE DEF Def
  <2>. QED BY <1>4
<1>. HIDE DEF iter
<1>6. ASSUME NEW i \in 1 .. top
      PROVE  iter[1 .. i] = iter[1 .. i - 1] + q[i].size
  <2>1. 1 .. i \in SUBSET (1 .. top) BY <1>0
  <2>2. Max(1 .. i) = i /\ (1 .. i) \ {i} = 1 .. i - 1 /\ 1 .. i # {} BY <1>0, IntervalTop
  <2>3. iter[1 .. i] = Step(iter, 1 .. i) BY <1>5, <2>1
  <2>. QED BY <2>2, <2>3
<1>7. iter[1 .. 0] = 0
  <2>1. 1 .. 0 = {} /\ 1 .. 0 \in SUBSET (1 .. top) OBVIOUS
  <2>. QED BY <2>1, <1>5
<1>. DEFINE new == [i \in 0 .. top |-> iter[1 .. i]]
<1>8. new[0] = 0 /\ new[top] = iter[1 .. top] BY <1>0, <1>7
<1>9. \A i \in 1 .. top : new[i] = new[i - 1] + q[i].size BY <1>0, <1>6
<1>. QED BY <1>1, <1>8, <1>9

LEMMA TotalFoldAppend ==
  ASSUME NEW S, NEW q \in Seq(S), NEW e \in S
  PROVE  Total(Append(q, e)) = Total(q) + e.size
<1>. DEFINE r == Append(q, e)
            top == Len(q)
<1>1. r \in Seq(S) /\ Len(r) = top + 1 /\ r[top + 1] = e /\ top \in Nat
      /\ \A i \in 1 .. top : r[i] = q[i]
  OBVIOUS
<1>2. PICK old : /\ old[0] = 0 /\ Total(q) = old[top]
                 /\ \A i \in 1 .. top : old[i] = old[i - 1] + q[i].size
  BY TotalFold
<1>. HIDE DEF r
<1>3. PICK new : /\ new[0] = 0 /\ Total(r) = new[Len(r)]
                 /\ \A i \in 1 .. Len(r) : new[i] = new[i - 1] + r[i].size
  BY <1>1, TotalFold
<1>. HIDE DEF top
<1>4. \A k \in Nat : k <= top => new[k] = old[k]
  <2>. DEFINE T == {k \in Nat : k <= top => new[k] = old[k]}
  <2>1. 0 \in T BY <1>2, <1>3
  <2>2. ASSUME NEW k \in Nat, k \in T PROVE k + 1 \in T
    <3>1. SUFFICES ASSUME k + 1 <= top PROVE new[k + 1] = old[k + 1] OBVIOUS
    <3>2. new[k] = old[k] BY <2>2, <3>1, <1>1
    <3>3. k + 1 \in 1 .. top /\ k + 1 \in 1 .. Len(r) /\ (k + 1) - 1 = k BY <1>1, <3>1
    <3>4. new[k + 1] = new[k] + r[k + 1].size BY <1>3, <3>3
    <3>5. old[k + 1] = old[k] + q[k + 1].size BY <1>2, <3>3
    <3>. QED BY <1>1, <3>2, <3>3, <3>4, <3>5
  <2>. HIDE DEF T
  <2>3. Nat \subseteq T BY <2>1, <2>2, Induct
  <2>. QED BY <2>3 DEF T
<1>5. new[top] = old[top] BY <1>1, <1>4
<1>6. top + 1 \in 1 .. Len(r) /\ (top + 1) - 1 = top BY <1>1
<1>7. new[top + 1] = new[top] + e.size BY <1>1, <1>3, <1>6
<1>. QED BY <1>1, <1>2, <1>3, <1>5, <1>7 DEF r

(* The bytes of entries. *)
LEMMA BytesFold ==
  ASSUME NEW fl, NEW S, NEW q \in Seq(S)
  PROVE  \E new : /\ new[0] = <<>> /\ BytesOfAll(fl, q) = new[Len(q)]
                  /\ \A i \in 1 .. Len(q) : new[i] = new[i - 1] \o BytesOf(fl, q[i])
<1>. DEFINE Step(g, s) == IF s = {} THEN <<>>
                          ELSE LET x == Max(s) IN g[s \ {x}] \o BytesOf(fl, q[x])
            Def(g, k) == g = [s \in SUBSET (1 .. k) |-> Step(g, s)]
            top  == Len(q)
            iter == CHOOSE g : Def(g, top)
<1>0. top \in Nat /\ DOMAIN q = 1 .. top  OBVIOUS
<1>1. BytesOfAll(fl, q) = iter[1 .. top]
  BY <1>0 DEF BytesOfAll, FoldLeft, MapThenFoldSet
<1>2. \E g : Def(g, 0)
  <2>1. SUBSET (1 .. 0) = {{}} OBVIOUS
  <2>2. Def([s \in {{}} |-> <<>>], 0) BY <2>1
  <2>. QED BY <2>2
<1>3. ASSUME NEW k \in Nat, NEW g, Def(g, k)
      PROVE  \E h : Def(h, k + 1)
  <2>. DEFINE h == [s \in SUBSET (1 .. k + 1) |->
                      IF k + 1 \in s THEN g[s \ {k + 1}] \o BytesOf(fl, q[k + 1]) ELSE g[s]]
  <2>1. ASSUME NEW s \in SUBSET (1 .. k + 1), k + 1 \in s
        PROVE  h[s] = Step(h, s)
    <3>1. Max(s) = k + 1 BY <2>1, MaxTop
    <3>2. s \ {k + 1} \in SUBSET (1 .. k + 1) /\ k + 1 \notin s \ {k + 1} OBVIOUS
    <3>3. h[s \ {k + 1}] = g[s \ {k + 1}] BY <3>2
    <3>. QED BY <2>1, <3>1, <3>3
  <2>2. ASSUME NEW s \in SUBSET (1 .. k + 1), k + 1 \notin s
        PROVE  h[s] = Step(h, s)
    <3>1. s \in SUBSET (1 .. k) BY <2>2
    <3>2. h[s] = g[s] BY <2>2
    <3>3. g[s] = Step(g, s) BY <1>3, <3>1
    <3>4. h[s \ {Max(s)}] = g[s \ {Max(s)}] BY <2>2
    <3>. QED BY <3>2, <3>3, <3>4
  <2>3. Def(h, k + 1) BY <2>1, <2>2
  <2>. QED BY <2>3
<1>4. \E g : Def(g, top)
  <2>. DEFINE T == {k \in Nat : \E g : Def(g, k)}
  <2>. HIDE DEF Def
  <2>1. 0 \in T BY <1>2
  <2>2. \A k \in Nat : k \in T => k + 1 \in T BY <1>3
  <2>. HIDE DEF T
  <2>3. Nat \subseteq T BY <2>1, <2>2, Induct
  <2>. QED BY <1>0, <2>3 DEF T
<1>5. Def(iter, top)
  <2>. HIDE DEF Def
  <2>. QED BY <1>4
<1>. HIDE DEF iter
<1>6. ASSUME NEW i \in 1 .. top
      PROVE  iter[1 .. i] = iter[1 .. i - 1] \o BytesOf(fl, q[i])
  <2>1. 1 .. i \in SUBSET (1 .. top) BY <1>0
  <2>2. Max(1 .. i) = i /\ (1 .. i) \ {i} = 1 .. i - 1 /\ 1 .. i # {} BY <1>0, IntervalTop
  <2>3. iter[1 .. i] = Step(iter, 1 .. i) BY <1>5, <2>1
  <2>. QED BY <2>2, <2>3
<1>7. iter[1 .. 0] = <<>>
  <2>1. 1 .. 0 = {} /\ 1 .. 0 \in SUBSET (1 .. top) OBVIOUS
  <2>. QED BY <2>1, <1>5
<1>. DEFINE new == [i \in 0 .. top |-> iter[1 .. i]]
<1>8. new[0] = <<>> /\ new[top] = iter[1 .. top] BY <1>0, <1>7
<1>9. \A i \in 1 .. top : new[i] = new[i - 1] \o BytesOf(fl, q[i]) BY <1>0, <1>6
<1>. QED BY <1>1, <1>8, <1>9

LEMMA BytesFoldAppend ==
  ASSUME NEW fl, NEW S, NEW q \in Seq(S), NEW e \in S
  PROVE  BytesOfAll(fl, Append(q, e)) = BytesOfAll(fl, q) \o BytesOf(fl, e)
<1>. DEFINE r == Append(q, e)
            top == Len(q)
<1>1. r \in Seq(S) /\ Len(r) = top + 1 /\ r[top + 1] = e /\ top \in Nat
      /\ \A i \in 1 .. top : r[i] = q[i]
  OBVIOUS
<1>2. PICK old : /\ old[0] = <<>> /\ BytesOfAll(fl, q) = old[top]
                 /\ \A i \in 1 .. top : old[i] = old[i - 1] \o BytesOf(fl, q[i])
  BY BytesFold
<1>. HIDE DEF r
<1>3. PICK new : /\ new[0] = <<>> /\ BytesOfAll(fl, r) = new[Len(r)]
                 /\ \A i \in 1 .. Len(r) : new[i] = new[i - 1] \o BytesOf(fl, r[i])
  BY <1>1, BytesFold
<1>. HIDE DEF top
<1>4. \A k \in Nat : k <= top => new[k] = old[k]
  <2>. DEFINE T == {k \in Nat : k <= top => new[k] = old[k]}
  <2>1. 0 \in T BY <1>2, <1>3
  <2>2. ASSUME NEW k \in Nat, k \in T PROVE k + 1 \in T
    <3>1. SUFFICES ASSUME k + 1 <= top PROVE new[k + 1] = old[k + 1] OBVIOUS
    <3>2. new[k] = old[k] BY <2>2, <3>1, <1>1
    <3>3. k + 1 \in 1 .. top /\ k + 1 \in 1 .. Len(r) /\ (k + 1) - 1 = k BY <1>1, <3>1
    <3>4. new[k + 1] = new[k] \o BytesOf(fl, r[k + 1]) BY <1>3, <3>3
    <3>5. old[k + 1] = old[k] \o BytesOf(fl, q[k + 1]) BY <1>2, <3>3
    <3>. QED BY <1>1, <3>2, <3>3, <3>4, <3>5
  <2>. HIDE DEF T
  <2>3. Nat \subseteq T BY <2>1, <2>2, Induct
  <2>. QED BY <2>3 DEF T
<1>5. new[top] = old[top] BY <1>1, <1>4
<1>6. top + 1 \in 1 .. Len(r) /\ (top + 1) - 1 = top BY <1>1
<1>7. new[top + 1] = new[top] \o BytesOf(fl, e) BY <1>1, <1>3, <1>6
<1>. QED BY <1>1, <1>2, <1>3, <1>5, <1>7 DEF r

-----------------------------------------------------------------------------
(* Sequences. *)
LEMMA SeqInduct ==
  ASSUME NEW S, NEW T, <<>> \in T,
         \A s \in Seq(S), e \in S : s \in T => Append(s, e) \in T
  PROVE  Seq(S) \subseteq T
<1>. DEFINE U == {n \in Nat : \A s \in Seq(S) : Len(s) = n => s \in T}
<1>1. 0 \in U OBVIOUS
<1>2. ASSUME NEW n \in Nat, n \in U PROVE n + 1 \in U
  <2>1. SUFFICES ASSUME NEW s \in Seq(S), Len(s) = n + 1 PROVE s \in T OBVIOUS
  <2>. DEFINE f == SubSeq(s, 1, n)
  <2>2. f \in Seq(S) /\ Len(f) = n /\ s[n + 1] \in S /\ s = Append(f, s[n + 1])
    BY <2>1
  <2>. HIDE DEF f
  <2>3. f \in T BY <1>2, <2>2
  <2>. QED BY <2>2, <2>3
<1>. HIDE DEF U
<1>3. Nat \subseteq U BY <1>1, <1>2, Induct
<1>. QED BY <1>3 DEF U

LEMMA ConcatAt ==
  ASSUME NEW S, NEW s \in Seq(S), NEW t \in Seq(S)
  PROVE  /\ s \o t \in Seq(S) /\ Len(s \o t) = Len(s) + Len(t)
         /\ \A i \in DOMAIN s : i \in DOMAIN (s \o t) /\ (s \o t)[i] = s[i] /\ i <= Len(s)
         /\ \A i \in DOMAIN t : Len(s) + i \in DOMAIN (s \o t) /\ (s \o t)[Len(s) + i] = t[i]
                                /\ Len(s) + i > Len(s)
         /\ \A k \in DOMAIN (s \o t) : k \in DOMAIN s \/ \E i \in DOMAIN t : k = Len(s) + i
<1>1. ASSUME NEW k \in DOMAIN (s \o t) PROVE k \in DOMAIN s \/ \E i \in DOMAIN t : k = Len(s) + i
  <2>1. CASE k <= Len(s) BY <2>1
  <2>2. CASE k > Len(s)
    <3>1. k - Len(s) \in DOMAIN t /\ k = Len(s) + (k - Len(s)) BY <2>2
    <3>. QED BY <3>1
  <2>. QED BY <2>1, <2>2
<1>. QED BY <1>1

LEMMA ConcatThree ==
  ASSUME NEW S, NEW s \in Seq(S), NEW t \in Seq(S), NEW u \in Seq(S)
  PROVE  /\ (s \o t) \o u = s \o (t \o u) /\ s \o t \in Seq(S) /\ t \o u \in Seq(S)
         /\ s \o <<>> = s /\ <<>> \o s = s
         /\ \A e \in S : s \o <<e>> = Append(s, e) /\ <<e>> \in Seq(S)
                         /\ s \o Append(t, e) = Append(s \o t, e)
OBVIOUS

Regroups(s, t, u, v) == s \o (t \o u) \o v = (s \o t) \o (u \o v)

LEMMA Regroup ==
  ASSUME NEW s \in Seq(Byte), NEW t \in Seq(Byte), NEW u \in Seq(Byte), NEW v \in Seq(Byte)
  PROVE  Regroups(s, t, u, v)
BY DEF Regroups

LiveAll(s) == UNION {Live(s[i]) : i \in DOMAIN s}

Disjoint(s) == \A i, j \in DOMAIN s : i # j => Live(s[i]) \cap Live(s[j]) = {}

LEMMA LiveEmpty == LiveAll(<<>>) = {} /\ Disjoint(<<>>)
BY DEF LiveAll, Disjoint

LEMMA LiveOne ==
  ASSUME NEW e
  PROVE  LiveAll(<<e>>) = Live(e) /\ Disjoint(<<e>>)
<1>1. DOMAIN <<e>> = {1} /\ <<e>>[1] = e OBVIOUS
<1>. QED BY <1>1 DEF LiveAll, Disjoint

LEMMA LiveConcat ==
  ASSUME NEW s \in Seq(Entries), NEW t \in Seq(Entries)
  PROVE  LiveAll(s \o t) = LiveAll(s) \cup LiveAll(t)
<1>. DEFINE r == s \o t
<1>1. /\ \A i \in DOMAIN s : i \in DOMAIN r /\ r[i] = s[i]
      /\ \A i \in DOMAIN t : Len(s) + i \in DOMAIN r /\ r[Len(s) + i] = t[i]
      /\ \A k \in DOMAIN r : k \in DOMAIN s \/ \E i \in DOMAIN t : k = Len(s) + i
  BY ConcatAt
<1>. HIDE DEF r
<1>2. ASSUME NEW x \in LiveAll(r) PROVE x \in LiveAll(s) \cup LiveAll(t)
  <2>1. PICK k \in DOMAIN r : x \in Live(r[k]) BY DEF LiveAll
  <2>2. CASE k \in DOMAIN s BY <1>1, <2>1, <2>2 DEF LiveAll
  <2>3. ASSUME NEW i \in DOMAIN t, k = Len(s) + i PROVE x \in LiveAll(t)
    BY <1>1, <2>1, <2>3 DEF LiveAll
  <2>. QED BY <1>1, <2>2, <2>3
<1>3. ASSUME NEW i \in DOMAIN s, NEW x \in Live(s[i]) PROVE x \in LiveAll(r)
  BY <1>1 DEF LiveAll
<1>4. ASSUME NEW i \in DOMAIN t, NEW x \in Live(t[i]) PROVE x \in LiveAll(r)
  BY <1>1 DEF LiveAll
<1>5. LiveAll(s) \subseteq LiveAll(r) /\ LiveAll(t) \subseteq LiveAll(r)
  BY <1>3, <1>4 DEF LiveAll
<1>. QED BY <1>2, <1>5 DEF r

LEMMA DisjointConcat ==
  ASSUME NEW s \in Seq(Entries), NEW t \in Seq(Entries)
  PROVE  Disjoint(s \o t) <=> Disjoint(s) /\ Disjoint(t) /\ LiveAll(s) \cap LiveAll(t) = {}
<1>. DEFINE r == s \o t
<1>1. /\ \A i \in DOMAIN s : i \in DOMAIN r /\ r[i] = s[i] /\ i <= Len(s) /\ i \in Nat
      /\ \A i \in DOMAIN t : Len(s) + i \in DOMAIN r /\ r[Len(s) + i] = t[i]
                             /\ Len(s) + i > Len(s) /\ i \in Nat
      /\ \A k \in DOMAIN r : k \in DOMAIN s \/ \E i \in DOMAIN t : k = Len(s) + i
      /\ Len(s) \in Nat
  BY ConcatAt
<1>. HIDE DEF r
<1>2. ASSUME Disjoint(r)
      PROVE  Disjoint(s) /\ Disjoint(t) /\ LiveAll(s) \cap LiveAll(t) = {}
  <2>1. Disjoint(s) BY <1>1, <1>2 DEF Disjoint
  <2>2. Disjoint(t)
    <3>1. SUFFICES ASSUME NEW i \in DOMAIN t, NEW j \in DOMAIN t, i # j
                   PROVE  Live(t[i]) \cap Live(t[j]) = {}
      BY DEF Disjoint
    <3>2. Len(s) + i # Len(s) + j BY <1>1, <3>1
    <3>. QED BY <1>1, <1>2, <3>2 DEF Disjoint
  <2>3. ASSUME NEW x \in LiveAll(s), x \in LiveAll(t) PROVE FALSE
    <3>1. PICK i \in DOMAIN s : x \in Live(s[i]) BY DEF LiveAll
    <3>2. PICK j \in DOMAIN t : x \in Live(t[j]) BY <2>3 DEF LiveAll
    <3>3. i # Len(s) + j BY <1>1
    <3>4. Live(r[i]) \cap Live(r[Len(s) + j]) = {} BY <1>1, <1>2, <3>3 DEF Disjoint
    <3>. QED BY <1>1, <3>1, <3>2, <3>4
  <2>. QED BY <2>1, <2>2, <2>3
<1>3. ASSUME Disjoint(s), Disjoint(t), LiveAll(s) \cap LiveAll(t) = {} PROVE Disjoint(r)
  <2>1. SUFFICES ASSUME NEW k \in DOMAIN r, NEW l \in DOMAIN r, k # l
                 PROVE  Live(r[k]) \cap Live(r[l]) = {}
    BY DEF Disjoint
  <2>2. \A i \in DOMAIN s, j \in DOMAIN t : Live(s[i]) \cap Live(t[j]) = {}
    BY <1>3 DEF LiveAll
  <2>3. CASE k \in DOMAIN s /\ l \in DOMAIN s BY <1>1, <1>3, <2>1, <2>3 DEF Disjoint
  <2>4. ASSUME NEW i \in DOMAIN t, k = Len(s) + i, l \in DOMAIN s
        PROVE  Live(r[k]) \cap Live(r[l]) = {}
    BY <1>1, <2>2, <2>4
  <2>5. ASSUME NEW i \in DOMAIN t, l = Len(s) + i, k \in DOMAIN s
        PROVE  Live(r[k]) \cap Live(r[l]) = {}
    BY <1>1, <2>2, <2>5
  <2>6. ASSUME NEW i \in DOMAIN t, k = Len(s) + i, NEW j \in DOMAIN t, l = Len(s) + j
        PROVE  Live(r[k]) \cap Live(r[l]) = {}
    <3>1. i # j BY <2>1, <2>6
    <3>2. Live(t[i]) \cap Live(t[j]) = {} BY <1>3, <3>1 DEF Disjoint
    <3>. QED BY <1>1, <2>6, <3>2
  <2>. QED BY <1>1, <2>3, <2>4, <2>5, <2>6
<1>. QED BY <1>2, <1>3 DEF r

-----------------------------------------------------------------------------
(* Bytes. *)
Flashes == [Sectors -> [0 .. SectorSize - 1 -> Byte]]

ByteAt(fl, a) == IF Sec(a) \in Sectors THEN fl[Sec(a)][DataOff + Rem(a)] ELSE ErasedCell

LEMMA BytesOfIs ==
  ASSUME NEW fl, NEW e \in Entries
  PROVE  BytesOf(fl, e) = [k \in 1 .. e.size |-> ByteAt(fl, Lin(e) + (k - 1))]
<1>1. e.sector \in Nat /\ e.off \in Nat /\ e.off >= DataOff /\ e.size \in Nat BY EntryFacts
<1>2. ASSUME NEW k \in 1 .. e.size
      PROVE  Cell(e, k - 1) = <<Sec(Lin(e) + (k - 1)), DataOff + Rem(Lin(e) + (k - 1))>>
  BY <1>1, CellIs
<1>3. ASSUME NEW k \in 1 .. e.size
      PROVE  (LET at == Cell(e, k - 1)
              IN  IF at[1] \in Sectors THEN fl[at[1]][at[2]] ELSE ErasedCell)
             = ByteAt(fl, Lin(e) + (k - 1))
  BY <1>2 DEF ByteAt
<1>. QED BY <1>3 DEF BytesOf

LEMMA ByteTyped ==
  ASSUME NEW fl \in Flashes, NEW a \in Nat
  PROVE  ByteAt(fl, a) \in Byte
<1>1. Rem(a) \in 0 .. PerSector - 1 BY Division
<1>2. DataOff + Rem(a) \in 0 .. SectorSize - 1
  <2>. DEFINE r == Rem(a)
  <2>1. r \in 0 .. PerSector - 1 BY <1>1
  <2>. HIDE DEF r
  <2>2. DataOff + r \in 0 .. SectorSize - 1 BY <2>1, SizesFacts
  <2>. QED BY <2>2 DEF r
<1>3. CASE Sec(a) \in Sectors
  <2>1. fl[Sec(a)] \in [0 .. SectorSize - 1 -> Byte] BY <1>3 DEF Flashes
  <2>2. fl[Sec(a)][DataOff + Rem(a)] \in Byte BY <1>2, <2>1
  <2>. QED BY <1>3, <2>2 DEF ByteAt
<1>4. CASE Sec(a) \notin Sectors BY <1>4 DEF ByteAt, Byte
<1>. QED BY <1>3, <1>4

LEMMA BytesOfTyped ==
  ASSUME NEW fl \in Flashes, NEW e \in Entries
  PROVE  BytesOf(fl, e) \in Seq(Byte) /\ Len(BytesOf(fl, e)) = e.size
         /\ DOMAIN BytesOf(fl, e) = 1 .. e.size
         /\ \A k \in 1 .. e.size : BytesOf(fl, e)[k] = ByteAt(fl, Lin(e) + (k - 1))
<1>1. BytesOf(fl, e) = [k \in 1 .. e.size |-> ByteAt(fl, Lin(e) + (k - 1))] BY BytesOfIs
<1>2. e.size \in Nat /\ Lin(e) \in Nat BY EntryFacts
<1>3. ASSUME NEW k \in 1 .. e.size PROVE ByteAt(fl, Lin(e) + (k - 1)) \in Byte
  BY <1>2, ByteTyped
<1>. QED BY <1>1, <1>2, <1>3

LEMMA FoldsEmpty ==
  ASSUME NEW fl
  PROVE  Total(<<>>) = 0 /\ BytesOfAll(fl, <<>>) = <<>>
<1>1. <<>> \in Seq(Entries) /\ Len(<<>>) = 0 OBVIOUS
<1>2. PICK new : new[0] = 0 /\ Total(<<>>) = new[Len(<<>>)]
  <2>. DEFINE q == <<>>
  <2>1. q \in Seq(Entries) BY <1>1
  <2>. HIDE DEF q
  <2>2. \E new : new[0] = 0 /\ Total(q) = new[Len(q)] BY <2>1, TotalFold
  <2>. QED BY <2>2 DEF q
<1>3. PICK old : old[0] = <<>> /\ BytesOfAll(fl, <<>>) = old[Len(<<>>)]
  <2>. DEFINE q == <<>>
  <2>1. q \in Seq(Entries) BY <1>1
  <2>. HIDE DEF q
  <2>2. \E old : old[0] = <<>> /\ BytesOfAll(fl, q) = old[Len(q)] BY <2>1, BytesFold
  <2>. QED BY <2>2 DEF q
<1>. QED BY <1>1, <1>2, <1>3

LEMMA FoldsAppend ==
  ASSUME NEW fl, NEW s \in Seq(Entries), NEW e \in Entries
  PROVE  /\ Total(Append(s, e)) = Total(s) + e.size
         /\ BytesOfAll(fl, Append(s, e)) = BytesOfAll(fl, s) \o BytesOf(fl, e)
BY TotalFoldAppend, BytesFoldAppend

LEMMA BytesAll ==
  ASSUME NEW fl \in Flashes, NEW s \in Seq(Entries)
  PROVE  /\ BytesOfAll(fl, s) \in Seq(Byte) /\ Len(BytesOfAll(fl, s)) = Total(s)
         /\ Total(s) \in Nat
<1>. DEFINE B(u) == BytesOfAll(fl, u)
            P(u) == B(u) \in Seq(Byte) /\ Len(B(u)) = Total(u) /\ Total(u) \in Nat
            T == {u \in Seq(Entries) : P(u)}
<1>1. <<>> \in T
  <2>1. P(<<>>)
    <3>1. B(<<>>) = <<>> /\ Total(<<>>) = 0 BY FoldsEmpty
    <3>2. <<>> \in Seq(Byte) /\ Len(<<>>) = 0 /\ 0 \in Nat OBVIOUS
    <3>. HIDE DEF B
    <3>. QED BY <3>1, <3>2
  <2>2. <<>> \in Seq(Entries) OBVIOUS
  <2>. HIDE DEF P
  <2>. QED BY <2>1, <2>2
<1>2. ASSUME NEW u \in Seq(Entries), NEW e \in Entries, u \in T PROVE Append(u, e) \in T
  <2>1. /\ Total(Append(u, e)) = Total(u) + e.size
        /\ B(Append(u, e)) = B(u) \o BytesOf(fl, e)
    BY FoldsAppend
  <2>. DEFINE x == B(u)
              y == BytesOf(fl, e)
              n == Total(u)
  <2>2. y \in Seq(Byte) /\ Len(y) = e.size /\ e.size \in Nat BY BytesOfTyped, EntryFacts
  <2>3. x \in Seq(Byte) /\ Len(x) = n /\ n \in Nat BY <1>2
  <2>. HIDE DEF x, y, n
  <2>4. x \o y \in Seq(Byte) /\ Len(x \o y) = Len(x) + Len(y) BY <2>2, <2>3, ConcatAt
  <2>5. Append(u, e) \in Seq(Entries) OBVIOUS
  <2>6. P(Append(u, e))
    <3>1. n + e.size \in Nat /\ Len(x \o y) = n + e.size BY <2>2, <2>3, <2>4
    <3>2. Total(Append(u, e)) = n + e.size /\ B(Append(u, e)) = x \o y BY <2>1 DEF x, y, n
    <3>. HIDE DEF B
    <3>. QED BY <2>4, <3>1, <3>2
  <2>. HIDE DEF P
  <2>. QED BY <2>5, <2>6
<1>. HIDE DEF T
<1>3. Seq(Entries) \subseteq T BY <1>1, <1>2, SeqInduct
<1>. QED BY <1>3 DEF T

LEMMA BytesConcat ==
  ASSUME NEW fl \in Flashes, NEW s \in Seq(Entries), NEW t \in Seq(Entries)
  PROVE  /\ Total(s \o t) = Total(s) + Total(t)
         /\ BytesOfAll(fl, s \o t) = BytesOfAll(fl, s) \o BytesOfAll(fl, t)
<1>. DEFINE B(u) == BytesOfAll(fl, u)
            P(u) == Total(s \o u) = Total(s) + Total(u) /\ B(s \o u) = B(s) \o B(u)
            T == {u \in Seq(Entries) : P(u)}
<1>0. B(s) \in Seq(Byte) /\ Total(s) \in Nat BY BytesAll
<1>1. <<>> \in T
  <2>1. s \o <<>> = s BY ConcatThree
  <2>2. B(s) \o <<>> = B(s)
    <3>. HIDE DEF B
    <3>. QED BY <1>0, ConcatThree
  <2>3. Total(s) + 0 = Total(s) BY <1>0
  <2>4. B(<<>>) = <<>> BY FoldsEmpty
  <2>5. P(<<>>)
    <3>. HIDE DEF B
    <3>. QED BY <2>1, <2>2, <2>3, <2>4, FoldsEmpty
  <2>6. <<>> \in Seq(Entries) OBVIOUS
  <2>. HIDE DEF P
  <2>. QED BY <2>5, <2>6
<1>2. ASSUME NEW u \in Seq(Entries), NEW e \in Entries, u \in T PROVE Append(u, e) \in T
  <2>1. /\ Total(Append(u, e)) = Total(u) + e.size
        /\ B(Append(u, e)) = B(u) \o BytesOf(fl, e)
    BY FoldsAppend
  <2>2. s \o Append(u, e) = Append(s \o u, e) /\ s \o u \in Seq(Entries) BY ConcatThree
  <2>3. /\ Total(Append(s \o u, e)) = Total(s \o u) + e.size
        /\ B(Append(s \o u, e)) = B(s \o u) \o BytesOf(fl, e)
    BY <2>2, FoldsAppend
  <2>4. BytesOf(fl, e) \in Seq(Byte) /\ e.size \in Nat BY BytesOfTyped, EntryFacts
  <2>5. B(u) \in Seq(Byte) /\ Total(u) \in Nat BY BytesAll
  <2>6. Total(s \o u) = Total(s) + Total(u) /\ B(s \o u) = B(s) \o B(u) BY <1>2
  <2>7. (B(s) \o B(u)) \o BytesOf(fl, e) = B(s) \o (B(u) \o BytesOf(fl, e))
    <3>. DEFINE x == B(s)
                y == B(u)
                z == BytesOf(fl, e)
    <3>1. x \in Seq(Byte) /\ y \in Seq(Byte) /\ z \in Seq(Byte) BY <1>0, <2>4, <2>5
    <3>. HIDE DEF x, y, z
    <3>. QED BY <3>1, ConcatThree DEF x, y, z
  <2>8. Total(s \o Append(u, e)) = Total(s) + Total(Append(u, e))
    BY <1>0, <2>1, <2>2, <2>3, <2>4, <2>5, <2>6
  <2>9. B(s \o Append(u, e)) = B(s) \o B(Append(u, e)) BY <2>1, <2>2, <2>3, <2>6, <2>7
  <2>10. Append(u, e) \in Seq(Entries) OBVIOUS
  <2>11. P(Append(u, e)) BY <2>8, <2>9
  <2>. HIDE DEF P
  <2>. QED BY <2>10, <2>11
<1>. HIDE DEF T
<1>3. Seq(Entries) \subseteq T BY <1>1, <1>2, SeqInduct
<1>. QED BY <1>3 DEF T

LEMMA FoldsOne ==
  ASSUME NEW fl \in Flashes, NEW e \in Entries
  PROVE  Total(<<e>>) = e.size /\ BytesOfAll(fl, <<e>>) = BytesOf(fl, e) /\ <<e>> \in Seq(Entries)
<1>1. <<e>> = Append(<<>>, e) /\ <<>> \in Seq(Entries) /\ <<e>> \in Seq(Entries) OBVIOUS
<1>2. e.size \in Nat /\ BytesOf(fl, e) \in Seq(Byte) BY EntryFacts, BytesOfTyped
<1>3. <<>> \o BytesOf(fl, e) = BytesOf(fl, e) BY <1>2, ConcatThree
<1>4. Total(<<e>>) = 0 + e.size /\ BytesOfAll(fl, <<e>>) = <<>> \o BytesOf(fl, e)
  BY <1>1, FoldsAppend, FoldsEmpty
<1>. QED BY <1>1, <1>2, <1>3, <1>4

LEMMA BytesThree ==
  ASSUME NEW fl \in Flashes, NEW s \in Seq(Entries), NEW e \in Entries, NEW t \in Seq(Entries)
  PROVE  BytesOfAll(fl, s \o <<e>> \o t) = BytesOfAll(fl, s) \o BytesOf(fl, e) \o BytesOfAll(fl, t)
<1>1. <<e>> \in Seq(Entries) /\ s \o <<e>> \in Seq(Entries) BY FoldsOne, ConcatThree
<1>2. BytesOfAll(fl, s \o <<e>>) = BytesOfAll(fl, s) \o BytesOf(fl, e) BY <1>1, FoldsOne, BytesConcat
<1>3. BytesOfAll(fl, (s \o <<e>>) \o t) = BytesOfAll(fl, s \o <<e>>) \o BytesOfAll(fl, t)
  BY <1>1, BytesConcat
<1>. QED BY <1>2, <1>3

(* What sectors hold that are not its own does not matter to an entry. *)
LEMMA BytesOfSame ==
  ASSUME NEW fl, NEW gl, NEW e \in Entries, \A t \in Live(e) : gl[t] = fl[t]
  PROVE  BytesOf(gl, e) = BytesOf(fl, e)
<1>1. ASSUME NEW k \in 1 .. e.size
      PROVE  ByteAt(gl, Lin(e) + (k - 1)) = ByteAt(fl, Lin(e) + (k - 1))
  <2>1. k - 1 \in 0 .. e.size - 1 BY EntryFacts
  <2>2. Sec(Lin(e) + (k - 1)) \in Live(e) BY <2>1, LiveFacts
  <2>. QED BY <2>2 DEF ByteAt
<1>2. BytesOf(gl, e) = [k \in 1 .. e.size |-> ByteAt(gl, Lin(e) + (k - 1))] BY BytesOfIs
<1>3. BytesOf(fl, e) = [k \in 1 .. e.size |-> ByteAt(fl, Lin(e) + (k - 1))] BY BytesOfIs
<1>. QED BY <1>1, <1>2, <1>3

LEMMA BytesSame ==
  ASSUME NEW fl, NEW gl, NEW s \in Seq(Entries), \A t \in LiveAll(s) : gl[t] = fl[t]
  PROVE  BytesOfAll(gl, s) = BytesOfAll(fl, s)
<1>. DEFINE P(u) == (\A t \in LiveAll(u) : gl[t] = fl[t]) =>
                       BytesOfAll(gl, u) = BytesOfAll(fl, u)
            T == {u \in Seq(Entries) : P(u)}
<1>1. <<>> \in T
  <2>1. P(<<>>) BY FoldsEmpty
  <2>2. <<>> \in Seq(Entries) OBVIOUS
  <2>. HIDE DEF P
  <2>. QED BY <2>1, <2>2
<1>2. ASSUME NEW u \in Seq(Entries), NEW e \in Entries, u \in T PROVE Append(u, e) \in T
  <2>0. Append(u, e) \in Seq(Entries) OBVIOUS
  <2>1. SUFFICES ASSUME \A t \in LiveAll(Append(u, e)) : gl[t] = fl[t]
                 PROVE  BytesOfAll(gl, Append(u, e)) = BytesOfAll(fl, Append(u, e))
    BY <2>0
  <2>2. Append(u, e) = u \o <<e>> /\ <<e>> \in Seq(Entries) BY ConcatThree
  <2>3. LiveAll(Append(u, e)) = LiveAll(u) \cup Live(e) BY <2>2, LiveConcat, LiveOne
  <2>4. BytesOfAll(gl, u) = BytesOfAll(fl, u) BY <1>2, <2>1, <2>3
  <2>5. BytesOf(gl, e) = BytesOf(fl, e) BY <2>1, <2>3, BytesOfSame
  <2>. QED BY <2>4, <2>5, FoldsAppend
<1>. HIDE DEF T
<1>3. Seq(Entries) \subseteq T BY <1>1, <1>2, SeqInduct
<1>. QED BY <1>3 DEF T

LEMMA BytesCut ==
  ASSUME NEW fl \in Flashes, NEW e \in Entries, Live(e) \subseteq Sectors, NEW c \in 1 .. e.size - 1
  PROVE  BytesOf(fl, e) = BytesOf(fl, [e EXCEPT !.size = c]) \o BytesOf(fl, Jump(e, c))
<1>. DEFINE b == [e EXCEPT !.size = c]
            j == Jump(e, c)
            x == BytesOf(fl, b)
            y == BytesOf(fl, j)
            z == BytesOf(fl, e)
<1>1. e.size \in Nat /\ Lin(e) \in Nat BY EntryFacts
<1>2. b \in Entries /\ Lin(b) = Lin(e) /\ b.size = c BY <1>1, CutIs
<1>3. j \in Entries /\ Lin(j) = Lin(e) + c /\ j.size = e.size - c BY <1>1, JumpIs
<1>. HIDE DEF b, j
<1>4. /\ x \in Seq(Byte) /\ Len(x) = c
      /\ \A k \in 1 .. c : x[k] = ByteAt(fl, Lin(e) + (k - 1))
  BY <1>2, BytesOfTyped
<1>5. /\ y \in Seq(Byte) /\ Len(y) = e.size - c
      /\ \A k \in 1 .. e.size - c : y[k] = ByteAt(fl, (Lin(e) + c) + (k - 1))
  BY <1>3, BytesOfTyped
<1>6. /\ z \in Seq(Byte) /\ Len(z) = e.size
      /\ \A k \in 1 .. e.size : z[k] = ByteAt(fl, Lin(e) + (k - 1))
  BY BytesOfTyped
<1>. HIDE DEF x, y, z
<1>7. x \o y \in Seq(Byte) /\ Len(x \o y) = e.size
  <2>1. x \o y \in Seq(Byte) /\ Len(x \o y) = Len(x) + Len(y) BY <1>4, <1>5, ConcatAt
  <2>2. c + (e.size - c) = e.size BY <1>1
  <2>. QED BY <1>4, <1>5, <2>1, <2>2
<1>8. ASSUME NEW k \in 1 .. e.size PROVE z[k] = (x \o y)[k]
  <2>1. CASE k <= c
    <3>1. k \in 1 .. c BY <2>1
    <3>2. (x \o y)[k] = x[k] BY <1>4, <1>5, <3>1
    <3>. QED BY <1>4, <1>6, <3>1, <3>2
  <2>2. CASE k > c
    <3>1. (x \o y)[k] = y[k - c] BY <1>1, <1>4, <1>5, <2>2
    <3>2. (Lin(e) + c) + ((k - c) - 1) = Lin(e) + (k - 1) BY <1>1
    <3>3. k - c \in 1 .. e.size - c BY <1>1, <2>2
    <3>4. y[k - c] = ByteAt(fl, (Lin(e) + c) + ((k - c) - 1)) BY <1>5, <3>3
    <3>. QED BY <1>6, <3>1, <3>2, <3>4
  <2>3. k <= c \/ k > c OBVIOUS
  <2>. QED BY <2>1, <2>2, <2>3
<1>9. z = x \o y
  <2>1. \A k \in 1 .. Len(z) : z[k] = (x \o y)[k] BY <1>6, <1>8
  <2>. QED BY <1>6, <1>7, <2>1, SeqEqual
<1>. QED BY <1>9 DEF x, y, z, b, j

-----------------------------------------------------------------------------
(* What a step of a write works on, and the operations on it.               *)
Memories == [flash : Flashes, taken : SUBSET Sectors, index : Seq(Entries)]

LEMMA CeilFacts ==
  ASSUME NEW n \in Nat \ {0}
  PROVE  CeilDiv(n, PerSector) = Sec(n - 1) + 1 /\ CeilDiv(n, PerSector) \in Nat \ {0}
<1>. DEFINE a == n - 1
            t == Sec(a)
            r == Rem(a)
<1>1. a \in Nat /\ n = a + 1 OBVIOUS
<1>. HIDE DEF a
<1>2. t \in Nat /\ r \in 0 .. PerSector - 1 /\ Base(t) \in Nat /\ a = Base(t) + r
  BY <1>1, Division
<1>. HIDE DEF t, r
<1>3. Base(t + 1) = Base(t) + PerSector /\ t + 1 \in Nat BY <1>2, Bases
<1>4. n + PerSector - 1 = Base(t + 1) + r BY <1>1, <1>2, <1>3, SizesFacts
<1>5. Sec(Base(t + 1) + r) = t + 1 BY <1>2, <1>3, AddressOf
<1>6. CeilDiv(n, PerSector) = t + 1 BY <1>4, <1>5 DEF CeilDiv, Sec
<1>. QED BY <1>2, <1>6 DEF t, a

(* An entry that begins a run fills it. *)
LEMMA RunIs ==
  ASSUME NEW b \in Nat, NEW n \in Nat \ {0}
  PROVE  LET e == Place(b, DataOff, n) IN
         /\ Lin(e) = Base(b) /\ Lin(e) \in Nat /\ e.sector = b /\ e.size = n /\ e.off = DataOff
         /\ LastSec(e) = b + CeilDiv(n, PerSector) - 1
         /\ Live(e) = b .. b + CeilDiv(n, PerSector) - 1
<1>. DEFINE e == Place(b, DataOff, n)
            a == n - 1
            t == Sec(a)
            r == Rem(a)
<1>1. e.sector = b /\ e.off = DataOff /\ e.size = n BY DEF Place
<1>. HIDE DEF e
<1>2. Base(b) \in Nat BY BaseNat
<1>3. Lin(e) = Base(b) BY <1>1, <1>2, SizesFacts DEF Lin
<1>4. a \in Nat /\ n = a + 1 OBVIOUS
<1>. HIDE DEF a
<1>5. t \in Nat /\ r \in 0 .. PerSector - 1 /\ Base(t) \in Nat /\ a = Base(t) + r
  BY <1>4, Division
<1>6. CeilDiv(n, PerSector) = t + 1 BY CeilFacts DEF t, a
<1>. HIDE DEF t, r
<1>7. Base(b + t) = Base(b) + Base(t) /\ b + t \in Nat BY <1>5, BaseSum
<1>8. Lin(e) + e.size - 1 = Base(b + t) + r BY <1>1, <1>2, <1>3, <1>4, <1>5, <1>7
<1>9. Sec(Base(b + t) + r) = b + t BY <1>5, <1>7, AddressOf
<1>10. LastSec(e) = b + t BY <1>8, <1>9 DEF LastSec
<1>11. b + (t + 1) - 1 = b + t BY <1>5
<1>. QED BY <1>1, <1>2, <1>3, <1>6, <1>10, <1>11 DEF Live, e

LEMMA AllocIs ==
  ASSUME NEW m \in Memories, NEW num \in Nat, NEW b \in Runs(m, num)
  PROVE  LET w == Alloc(m, b, num) IN
         /\ w \in Memories /\ b .. b + num - 1 \subseteq Sectors
         /\ w.taken = m.taken \cup (b .. b + num - 1) /\ w.index = m.index
         /\ m.taken \cap (b .. b + num - 1) = {} /\ b \in Sectors /\ b \in Nat
         /\ \A t \in Sectors : w.flash[t] = IF t \in b .. b + num - 1 THEN Fresh ELSE m.flash[t]
<1>1. b \in Sectors /\ b + num <= SectorCnt /\ m.taken \cap (b .. b + num - 1) = {}
  BY DEF Runs
<1>2. b \in Nat /\ b .. b + num - 1 \subseteq Sectors BY <1>1, SizesFacts DEF Sectors
<1>3. m.flash \in Flashes /\ m.taken \subseteq Sectors /\ m.index \in Seq(Entries)
      /\ m = [flash |-> m.flash, taken |-> m.taken, index |-> m.index]
  BY DEF Memories
<1>. DEFINE fl == [s \in Sectors |-> IF s \in b .. b + num - 1 THEN Fresh ELSE m.flash[s]]
            tk == m.taken \cup (b .. b + num - 1)
<1>4. Alloc(m, b, num) = [flash |-> fl, taken |-> tk, index |-> m.index]
  BY <1>3 DEF Alloc
<1>5. Fresh \in [0 .. SectorSize - 1 -> Byte] BY DEF Fresh, Byte
<1>6. fl \in Flashes BY <1>3, <1>5 DEF Flashes
<1>7. tk \subseteq Sectors BY <1>2, <1>3
<1>8. \A t \in Sectors : fl[t] = IF t \in b .. b + num - 1 THEN Fresh ELSE m.flash[t] OBVIOUS
<1>. HIDE DEF fl, tk
<1>9. Alloc(m, b, num) \in Memories BY <1>3, <1>4, <1>6, <1>7 DEF Memories
<1>. QED BY <1>1, <1>2, <1>4, <1>8, <1>9 DEF tk

(* A sector and the addresses of its bytes. *)
LEMMA FreshErased ==
  ASSUME NEW fl, NEW a \in Nat, Sec(a) \in Sectors, fl[Sec(a)] = Fresh
  PROVE  ByteAt(fl, a) = ErasedCell
<1>. DEFINE r == Rem(a)
<1>1. r \in 0 .. PerSector - 1 BY Division
<1>. HIDE DEF r
<1>2. DataOff + r \in 0 .. SectorSize - 1 /\ ~ (DataOff + r < DataOff) BY <1>1, SizesFacts
<1>3. Fresh[DataOff + r] = ErasedCell BY <1>2 DEF Fresh
<1>. QED BY <1>3 DEF ByteAt, r

LEMMA CellAt ==
  ASSUME NEW s \in Nat, NEW off \in DataOff .. SectorSize - 1, NEW k \in Nat
  PROVE  LET a == Base(s) + (off - DataOff) + k IN
         a \in Nat /\ Cell(Place(s, off, 0), k) = <<Sec(a), DataOff + Rem(a)>>
<1>. DEFINE e == Place(s, off, 0)
<1>1. e.sector = s /\ e.off = off BY DEF Place
<1>. HIDE DEF e
<1>2. off \in Nat /\ off >= DataOff BY SizesFacts
<1>3. Cell(e, k) = <<Sec(Lin(e) + k), DataOff + Rem(Lin(e) + k)>> /\ Lin(e) + k \in Nat
  BY <1>1, <1>2, CellIs
<1>. QED BY <1>1, <1>3 DEF Lin, e

LEMMA SameAddress ==
  ASSUME NEW a \in Nat, NEW b \in Nat, Sec(a) = Sec(b), DataOff + Rem(a) = DataOff + Rem(b)
  PROVE  a = b
<1>. DEFINE q == Rem(a)
            r == Rem(b)
<1>1. q \in 0 .. PerSector - 1 /\ r \in 0 .. PerSector - 1
      /\ a = Base(Sec(a)) + q /\ b = Base(Sec(b)) + r
  BY Division
<1>2. DataOff + q = DataOff + r OBVIOUS
<1>. HIDE DEF q, r
<1>3. q = r BY <1>1, <1>2, SizesFacts
<1>. QED BY <1>1, <1>3

(* Bytes put down at address L and on. *)
PutDown(m, w, L, bytes) ==
  /\ w \in Memories /\ w.taken = m.taken /\ w.index = m.index
  /\ \A k \in DOMAIN bytes :
       (Sec(L + (k - 1)) \in Sectors /\ ByteAt(m.flash, L + (k - 1)) = ErasedCell) =>
          ByteAt(w.flash, L + (k - 1)) = bytes[k]
  /\ \A a \in Nat : (a < L \/ a >= L + Len(bytes)) => ByteAt(w.flash, a) = ByteAt(m.flash, a)
  /\ \A t \in Sectors : (\A k \in DOMAIN bytes : Sec(L + (k - 1)) # t) =>
                           w.flash[t] = m.flash[t]

LEMMA ProgrammedIs ==
  ASSUME NEW m \in Memories, NEW s \in Sectors, NEW off, off \in DataOff .. SectorSize - 1,
         NEW bytes \in Seq(Byte), NEW L, L = Base(s) + (off - DataOff)
  PROVE  L \in Nat /\ PutDown(m, Programmed(m, s, off, bytes), L, bytes)
<1>. DEFINE H(t, c) == {k \in DOMAIN bytes : Cell(Place(s, off, 0), k - 1) = <<t, c>>}
            v(t, c) == IF H(t, c) = {} THEN m.flash[t][c]
                       ELSE IF m.flash[t][c] = ErasedCell THEN bytes[CHOOSE k \in H(t, c) : TRUE]
                            ELSE ClashCell
            fl == [t \in Sectors |-> [c \in 0 .. SectorSize - 1 |-> v(t, c)]]
<1>1. m.flash \in Flashes /\ m.taken \subseteq Sectors /\ m.index \in Seq(Entries)
      /\ m = [flash |-> m.flash, taken |-> m.taken, index |-> m.index]
  BY DEF Memories
<1>2. Programmed(m, s, off, bytes) = [flash |-> fl, taken |-> m.taken, index |-> m.index]
  <2>1. Programmed(m, s, off, bytes) = [m EXCEPT !.flash = fl] BY DEF Programmed
  <2>. HIDE DEF fl
  <2>. QED BY <1>1, <2>1
<1>3. s \in Nat BY DEF Sectors
<1>4. L \in Nat
  <2>1. Base(s) \in Nat BY <1>3, BaseNat
  <2>. QED BY <2>1, SizesFacts
<1>5. ASSUME NEW k \in DOMAIN bytes
      PROVE  /\ L + (k - 1) \in Nat
             /\ Cell(Place(s, off, 0), k - 1) = <<Sec(L + (k - 1)), DataOff + Rem(L + (k - 1))>>
  <2>1. k - 1 \in Nat OBVIOUS
  <2>. QED BY <1>3, <2>1, CellAt
<1>6. ASSUME NEW t \in Sectors, NEW c \in 0 .. SectorSize - 1 PROVE v(t, c) \in Byte
  <2>1. m.flash[t][c] \in Byte BY <1>1 DEF Flashes
  <2>2. ASSUME H(t, c) # {} PROVE bytes[CHOOSE k \in H(t, c) : TRUE] \in Byte
    <3>1. (CHOOSE k \in H(t, c) : TRUE) \in H(t, c) BY <2>2
    <3>2. (CHOOSE k \in H(t, c) : TRUE) \in DOMAIN bytes BY <3>1
    <3>. QED BY <3>2
  <2>3. ClashCell \in Byte BY DEF Byte
  <2>. HIDE DEF H
  <2>. QED BY <2>1, <2>2, <2>3
<1>7. fl \in Flashes
  <2>. HIDE DEF v
  <2>. QED BY <1>6 DEF Flashes
<1>8. ASSUME NEW t \in Sectors, \A k \in DOMAIN bytes : Sec(L + (k - 1)) # t
      PROVE  fl[t] = m.flash[t]
  <2>1. \A c \in 0 .. SectorSize - 1 : H(t, c) = {} BY <1>5, <1>8
  <2>2. m.flash[t] \in [0 .. SectorSize - 1 -> Byte] BY <1>1 DEF Flashes
  <2>3. fl[t] = [c \in 0 .. SectorSize - 1 |-> v(t, c)] OBVIOUS
  <2>. HIDE DEF H
  <2>4. \A c \in 0 .. SectorSize - 1 : v(t, c) = m.flash[t][c] BY <2>1
  <2>. HIDE DEF fl, v
  <2>. QED BY <2>2, <2>3, <2>4
<1>9. ASSUME NEW a \in Nat, Sec(a) \in Sectors
      PROVE  /\ DataOff + Rem(a) \in 0 .. SectorSize - 1
             /\ fl[Sec(a)][DataOff + Rem(a)] = v(Sec(a), DataOff + Rem(a))
  <2>. DEFINE r == Rem(a)
  <2>1. r \in 0 .. PerSector - 1 BY Division
  <2>. HIDE DEF r
  <2>2. DataOff + r \in 0 .. SectorSize - 1 BY <2>1, SizesFacts
  <2>. HIDE DEF v
  <2>. QED BY <1>9, <2>2 DEF r
<1>10. ASSUME NEW k \in DOMAIN bytes, Sec(L + (k - 1)) \in Sectors,
              ByteAt(m.flash, L + (k - 1)) = ErasedCell
       PROVE  ByteAt(fl, L + (k - 1)) = bytes[k]
  <2>. DEFINE a == L + (k - 1)
  <2>0. a \in Nat BY <1>5
  <2>1. H(Sec(a), DataOff + Rem(a)) = {k}
    <3>1. k \in H(Sec(a), DataOff + Rem(a)) BY <1>5
    <3>2. ASSUME NEW l \in H(Sec(a), DataOff + Rem(a)) PROVE l = k
      <4>. DEFINE d == L + (l - 1)
      <4>1. l \in DOMAIN bytes /\ d \in Nat
            /\ <<Sec(d), DataOff + Rem(d)>> = <<Sec(a), DataOff + Rem(a)>>
        BY <1>5
      <4>2. Sec(d) = Sec(a) /\ DataOff + Rem(d) = DataOff + Rem(a) BY <4>1
      <4>. HIDE DEF a, d
      <4>3. d = a BY <2>0, <4>1, <4>2, SameAddress
      <4>. QED BY <1>4, <4>1, <4>3 DEF a, d
    <3>. QED BY <3>1, <3>2
  <2>2. m.flash[Sec(a)][DataOff + Rem(a)] = ErasedCell BY <1>10 DEF ByteAt
  <2>3. (CHOOSE x \in {k} : TRUE) = k OBVIOUS
  <2>. HIDE DEF H, a, fl
  <2>4. v(Sec(a), DataOff + Rem(a)) = bytes[k] BY <2>1, <2>2, <2>3
  <2>. HIDE DEF v
  <2>5. Sec(a) \in Sectors BY <1>10 DEF a
  <2>6. ByteAt(fl, a) = bytes[k] BY <1>9, <2>0, <2>4, <2>5 DEF ByteAt
  <2>. QED BY <2>6 DEF a
<1>11. ASSUME NEW a \in Nat, a < L \/ a >= L + Len(bytes)
       PROVE  ByteAt(fl, a) = ByteAt(m.flash, a)
  <2>1. SUFFICES ASSUME Sec(a) \in Sectors
                 PROVE  fl[Sec(a)][DataOff + Rem(a)] = m.flash[Sec(a)][DataOff + Rem(a)]
    BY DEF ByteAt
  <2>2. H(Sec(a), DataOff + Rem(a)) = {}
    <3>1. SUFFICES ASSUME NEW l \in H(Sec(a), DataOff + Rem(a)) PROVE FALSE OBVIOUS
    <3>. DEFINE d == L + (l - 1)
    <3>2. l \in DOMAIN bytes /\ d \in Nat
          /\ <<Sec(d), DataOff + Rem(d)>> = <<Sec(a), DataOff + Rem(a)>>
      BY <1>5
    <3>3. Sec(d) = Sec(a) /\ DataOff + Rem(d) = DataOff + Rem(a) BY <3>2
    <3>. HIDE DEF d
    <3>4. d = a BY <3>2, <3>3, SameAddress
    <3>5. l \in Nat /\ 1 <= l /\ l <= Len(bytes) /\ Len(bytes) \in Nat BY <3>2
    <3>. QED BY <1>4, <1>11, <3>4, <3>5 DEF d
  <2>. HIDE DEF H, fl
  <2>3. v(Sec(a), DataOff + Rem(a)) = m.flash[Sec(a)][DataOff + Rem(a)] BY <2>2
  <2>. HIDE DEF v
  <2>. QED BY <1>9, <2>1, <2>3
<1>. HIDE DEF fl
<1>12. Programmed(m, s, off, bytes) \in Memories BY <1>1, <1>2, <1>7 DEF Memories
<1>. QED BY <1>2, <1>4, <1>8, <1>10, <1>11, <1>12 DEF PutDown

(* Nothing is programmed behind an entry in its last sector. *)
EndErased(fl, e) ==
  \A a \in Nat : (Lin(e) + e.size <= a /\ Sec(a) = LastSec(e)) => ByteAt(fl, a) = ErasedCell

LastErased(fl, s) == s # <<>> => EndErased(fl, s[Len(s)])

Good(m) ==
  /\ m \in Memories
  /\ LiveAll(m.index) \subseteq m.taken
  /\ Disjoint(m.index)
  /\ LastErased(m.flash, m.index)

LEMMA NewRun ==
  ASSUME NEW m \in Memories, NEW n \in Nat \ {0}, NEW bytes \in Seq(Byte), Len(bytes) = n,
         NEW b \in Runs(m, CeilDiv(n, PerSector))
  PROVE  LET w == Programmed(Alloc(m, b, CeilDiv(n, PerSector)), b, DataOff, bytes)
             e == Place(b, DataOff, n)
         IN  /\ w \in Memories /\ e \in Entries /\ w.index = m.index
             /\ w.taken = m.taken \cup Live(e) /\ Live(e) \subseteq Sectors
             /\ Live(e) \cap m.taken = {} /\ b \in Nat
             /\ BytesOf(w.flash, e) = bytes /\ EndErased(w.flash, e)
             /\ \A t \in Sectors \ Live(e) : w.flash[t] = m.flash[t]
<1>. DEFINE num == CeilDiv(n, PerSector)
            v == Alloc(m, b, num)
            w == Programmed(v, b, DataOff, bytes)
            e == Place(b, DataOff, n)
<1>1. num \in Nat \ {0} BY CeilFacts
<1>2. /\ v \in Memories /\ b .. b + num - 1 \subseteq Sectors
      /\ v.taken = m.taken \cup (b .. b + num - 1) /\ v.index = m.index
      /\ m.taken \cap (b .. b + num - 1) = {} /\ b \in Sectors /\ b \in Nat
      /\ \A t \in Sectors : v.flash[t] = IF t \in b .. b + num - 1 THEN Fresh ELSE m.flash[t]
  BY <1>1, AllocIs
<1>3. /\ Lin(e) = Base(b) /\ Lin(e) \in Nat /\ e.sector = b /\ e.size = n /\ e.off = DataOff
      /\ LastSec(e) = b + num - 1 /\ Live(e) = b .. b + num - 1
  BY <1>2, RunIs
<1>. HIDE DEF num, v
<1>4. e \in Entries
  <2>1. DataOff \in DataOff .. SectorSize - 1 BY SizesFacts
  <2>. QED BY <1>2, <2>1 DEF Place, Entries
<1>. HIDE DEF e
<1>5. DataOff \in DataOff .. SectorSize - 1 /\ Base(b) + (DataOff - DataOff) = Base(b)
  BY <1>3, SizesFacts
<1>6. /\ w \in Memories /\ w.taken = v.taken /\ w.index = v.index
      /\ \A k \in DOMAIN bytes :
           (Sec(Base(b) + (k - 1)) \in Sectors /\ ByteAt(v.flash, Base(b) + (k - 1)) = ErasedCell) =>
              ByteAt(w.flash, Base(b) + (k - 1)) = bytes[k]
      /\ \A a \in Nat : (a < Base(b) \/ a >= Base(b) + n) => ByteAt(w.flash, a) = ByteAt(v.flash, a)
      /\ \A t \in Sectors : (\A k \in DOMAIN bytes : Sec(Base(b) + (k - 1)) # t) =>
                               w.flash[t] = v.flash[t]
  <2>. DEFINE L == Base(b)
  <2>1. L = Base(b) + (DataOff - DataOff) BY <1>5
  <2>. HIDE DEF L
  <2>2. PutDown(v, w, L, bytes)
    <3>1. v \in Memories /\ b \in Sectors /\ DataOff \in DataOff .. SectorSize - 1 BY <1>2, <1>5
    <3>. QED BY <2>1, <3>1, ProgrammedIs
  <2>. HIDE DEF w
  <2>. QED BY <2>2 DEF L, PutDown
<1>. HIDE DEF w
<1>7. ASSUME NEW a \in Nat, Sec(a) \in Live(e)
      PROVE  Sec(a) \in Sectors /\ ByteAt(v.flash, a) = ErasedCell
  <2>1. Sec(a) \in Sectors /\ v.flash[Sec(a)] = Fresh BY <1>2, <1>3, <1>7
  <2>. QED BY <2>1, FreshErased
<1>8. ASSUME NEW k \in 1 .. n
      PROVE  Base(b) + (k - 1) \in Nat /\ Sec(Base(b) + (k - 1)) \in Live(e)
  <2>1. k - 1 \in 0 .. e.size - 1 /\ k - 1 \in Nat BY <1>3
  <2>2. Sec(Lin(e) + (k - 1)) \in Live(e) BY <1>4, <2>1, LiveFacts
  <2>3. Lin(e) + (k - 1) \in Nat BY <1>3, <2>1
  <2>. QED BY <1>3, <2>2, <2>3
<1>9. BytesOf(w.flash, e) = bytes
  <2>. DEFINE z == BytesOf(w.flash, e)
  <2>1. w.flash \in Flashes BY <1>6 DEF Memories
  <2>2. z \in Seq(Byte) /\ Len(z) = n
        /\ \A k \in 1 .. n : z[k] = ByteAt(w.flash, Lin(e) + (k - 1))
    BY <1>3, <1>4, <2>1, BytesOfTyped
  <2>. HIDE DEF z
  <2>3. ASSUME NEW k \in 1 .. n PROVE z[k] = bytes[k]
    <3>1. k \in DOMAIN bytes OBVIOUS
    <3>2. ByteAt(w.flash, Base(b) + (k - 1)) = bytes[k] BY <1>6, <1>7, <1>8, <3>1
    <3>. QED BY <1>3, <2>2, <3>2
  <2>4. z = bytes BY <2>2, <2>3
  <2>. QED BY <2>4 DEF z
<1>10. EndErased(w.flash, e)
  <2>1. SUFFICES ASSUME NEW a \in Nat, Lin(e) + e.size <= a, Sec(a) = LastSec(e)
                 PROVE  ByteAt(w.flash, a) = ErasedCell
    BY DEF EndErased
  <2>2. Sec(a) \in Live(e) BY <1>4, <2>1, LiveFacts
  <2>3. ByteAt(w.flash, a) = ByteAt(v.flash, a) BY <1>3, <1>6, <2>1
  <2>. QED BY <1>7, <2>2, <2>3
<1>11. ASSUME NEW t \in Sectors \ Live(e) PROVE w.flash[t] = m.flash[t]
  <2>1. \A k \in DOMAIN bytes : Sec(Base(b) + (k - 1)) # t BY <1>8
  <2>. QED BY <1>2, <1>3, <1>6, <2>1
<1>. QED BY <1>2, <1>3, <1>4, <1>6, <1>9, <1>10, <1>11 DEF w, v, e, num

(* What bfile_sector_old gives back. *)
OldOf(entries) == UNION {SectorsOf(entries[i]) : i \in DOMAIN entries}

LEMMA GivenBackIs ==
  ASSUME NEW m \in Memories, NEW old
  PROVE  LET w == GivenBack(m, old) IN
         /\ w \in Memories /\ w.taken = m.taken \ OldOf(old) /\ w.index = m.index
         /\ \A t \in Sectors \ OldOf(old) : w.flash[t] = m.flash[t]
<1>. DEFINE w == GivenBack(m, old)
            G == OldOf(old)
            fl == [s \in Sectors |-> IF s \in G THEN Blank ELSE m.flash[s]]
<1>1. w = [flash |-> fl, taken |-> m.taken \ G, index |-> m.index] BY DEF GivenBack, OldOf
<1>2. m.flash \in Flashes /\ m.taken \subseteq Sectors /\ m.index \in Seq(Entries) BY DEF Memories
<1>. HIDE DEF G, w
<1>3. Blank \in [0 .. SectorSize - 1 -> Byte] BY DEF Blank, Byte
<1>4. fl \in Flashes BY <1>2, <1>3 DEF Flashes
<1>5. \A t \in Sectors \ G : fl[t] = m.flash[t] OBVIOUS
<1>. HIDE DEF fl
<1>6. w \in Memories BY <1>1, <1>2, <1>4 DEF Memories
<1>. QED BY <1>1, <1>5, <1>6 DEF w, G

LEMMA LiveAllSectors ==
  ASSUME NEW s \in Seq(Entries), NEW i \in DOMAIN s
  PROVE  s[i] \in Entries /\ Live(s[i]) \subseteq LiveAll(s)
BY DEF LiveAll

LEMMA EndErasedSame ==
  ASSUME NEW fl, NEW gl, NEW e \in Entries, gl[LastSec(e)] = fl[LastSec(e)], EndErased(fl, e)
  PROVE  EndErased(gl, e)
BY DEF EndErased, ByteAt

LEMMA LastErasedSame ==
  ASSUME NEW fl, NEW gl, NEW s \in Seq(Entries), \A t \in LiveAll(s) : gl[t] = fl[t],
         LastErased(fl, s)
  PROVE  LastErased(gl, s)
<1>1. SUFFICES ASSUME s # <<>> PROVE EndErased(gl, s[Len(s)]) BY DEF LastErased
<1>2. Len(s) \in DOMAIN s BY <1>1
<1>3. s[Len(s)] \in Entries /\ Live(s[Len(s)]) \subseteq LiveAll(s) BY <1>2, LiveAllSectors
<1>4. LastSec(s[Len(s)]) \in LiveAll(s) BY <1>3, LiveFacts
<1>5. EndErased(fl, s[Len(s)]) BY <1>1 DEF LastErased
<1>. QED BY <1>3, <1>4, <1>5, EndErasedSame

LEMMA LastOfConcat ==
  ASSUME NEW S, NEW s \in Seq(S), NEW t \in Seq(S)
  PROVE  /\ t # <<>> => s \o t # <<>> /\ (s \o t)[Len(s \o t)] = t[Len(t)]
         /\ t = <<>> => s \o t = s
<1>1. ASSUME t # <<>> PROVE s \o t # <<>> /\ (s \o t)[Len(s \o t)] = t[Len(t)]
  <2>1. Len(t) \in DOMAIN t /\ Len(t) \in Nat /\ Len(t) > 0 /\ Len(s) \in Nat BY <1>1
  <2>2. Len(s \o t) = Len(s) + Len(t) BY ConcatAt
  <2>3. (s \o t)[Len(s) + Len(t)] = t[Len(t)] BY <2>1, ConcatAt
  <2>4. Len(<<>>) = 0 OBVIOUS
  <2>. QED BY <2>1, <2>2, <2>3, <2>4
<1>. QED BY <1>1, ConcatThree

(* Entries that are kept, and sectors that are given back and none of       *)
(* theirs.                                                                  *)
Keeps(m, G, left, right) ==
  /\ left \in Seq(Entries) /\ right \in Seq(Entries)
  /\ LiveAll(left) \subseteq m.taken /\ LiveAll(right) \subseteq m.taken
  /\ Disjoint(left) /\ Disjoint(right) /\ LiveAll(left) \cap LiveAll(right) = {}
  /\ G \subseteq m.taken /\ G \cap LiveAll(left) = {} /\ G \cap LiveAll(right) = {}
  /\ LastErased(m.flash, right)

(* A new run has taken its place between them. *)
Renewed(m, w, left, e, right, bytes) ==
  /\ Good(w) /\ w.index = left \o <<e>> \o right
  /\ BytesOfAll(w.flash, w.index) =
       BytesOfAll(m.flash, left) \o bytes \o BytesOfAll(m.flash, right)

LEMMA Placed ==
  ASSUME NEW m \in Memories, NEW n \in Nat \ {0}, NEW bytes \in Seq(Byte), Len(bytes) = n,
         NEW b \in Runs(m, CeilDiv(n, PerSector)),
         NEW u, u = Programmed(Alloc(m, b, CeilDiv(n, PerSector)), b, DataOff, bytes), NEW G, NEW v \in Memories, v.taken = u.taken \ G,
         \A t \in Sectors \ G : v.flash[t] = u.flash[t],
         NEW left, NEW right, Keeps(m, G, left, right)
  PROVE  Renewed(m, [v EXCEPT !.index = left \o <<Place(b, DataOff, n)>> \o right],
                 left, Place(b, DataOff, n), right, bytes)
<1>. DEFINE e == Place(b, DataOff, n)
            q == left \o <<e>> \o right
            w == [v EXCEPT !.index = q]
<1>0. /\ left \in Seq(Entries) /\ right \in Seq(Entries)
      /\ LiveAll(left) \subseteq m.taken /\ LiveAll(right) \subseteq m.taken
      /\ Disjoint(left) /\ Disjoint(right) /\ LiveAll(left) \cap LiveAll(right) = {}
      /\ G \subseteq m.taken /\ G \cap LiveAll(left) = {} /\ G \cap LiveAll(right) = {}
      /\ LastErased(m.flash, right)
  BY DEF Keeps
<1>1. /\ u \in Memories /\ e \in Entries /\ u.index = m.index
      /\ u.taken = m.taken \cup Live(e) /\ Live(e) \subseteq Sectors
      /\ Live(e) \cap m.taken = {}
      /\ BytesOf(u.flash, e) = bytes /\ EndErased(u.flash, e)
      /\ \A t \in Sectors \ Live(e) : u.flash[t] = m.flash[t]
  BY NewRun
<1>. HIDE DEF e
<1>3. m.taken \subseteq Sectors /\ v.flash \in Flashes /\ v.taken \subseteq Sectors
      /\ u.flash \in Flashes
  BY <1>1 DEF Memories
<1>4. <<e>> \in Seq(Entries) /\ left \o <<e>> \in Seq(Entries) /\ q \in Seq(Entries)
      /\ q = left \o <<e>> \o right
  BY <1>0, <1>1, <1>3, FoldsOne, ConcatThree
<1>. HIDE DEF q, w
<1>5. LiveAll(<<e>>) = Live(e) /\ Disjoint(<<e>>) BY LiveOne
<1>6. LiveAll(left \o <<e>>) = LiveAll(left) \cup Live(e) BY <1>0, <1>4, <1>5, LiveConcat
<1>7. LiveAll(q) = LiveAll(left) \cup Live(e) \cup LiveAll(right) BY <1>0, <1>4, <1>6, LiveConcat
<1>8. Disjoint(left \o <<e>>)
  <2>1. LiveAll(left) \cap LiveAll(<<e>>) = {} BY <1>0, <1>1, <1>5
  <2>. QED BY <1>0, <1>4, <1>5, <2>1, DisjointConcat
<1>9. Disjoint(q)
  <2>1. LiveAll(left \o <<e>>) \cap LiveAll(right) = {} BY <1>0, <1>1, <1>6
  <2>. QED BY <1>0, <1>4, <1>8, <2>1, DisjointConcat
<1>10. Live(e) \cap G = {} BY <1>0, <1>1
<1>11. LiveAll(q) \subseteq v.taken BY <1>0, <1>1, <1>7, <1>10
<1>12. /\ \A t \in LiveAll(left) : v.flash[t] = m.flash[t]
       /\ \A t \in LiveAll(right) : v.flash[t] = m.flash[t]
       /\ \A t \in Live(e) : v.flash[t] = u.flash[t]
  BY <1>0, <1>1, <1>3, <1>10
<1>13. LastErased(v.flash, right) BY <1>0, <1>12, LastErasedSame
<1>14. EndErased(v.flash, e)
  <2>1. LastSec(e) \in Live(e) BY <1>1, LiveFacts
  <2>. QED BY <1>1, <1>12, <2>1, EndErasedSame
<1>15. LastErased(v.flash, q)
  <2>1. CASE right = <<>>
    <3>1. q = left \o <<e>> BY <1>0, <1>4, <2>1, ConcatThree
    <3>2. <<e>> # <<>> /\ <<e>>[Len(<<e>>)] = e OBVIOUS
    <3>3. q[Len(q)] = e BY <1>0, <1>4, <3>1, <3>2, LastOfConcat
    <3>. QED BY <1>14, <3>3 DEF LastErased
  <2>2. CASE right # <<>>
    <3>1. q[Len(q)] = right[Len(right)] BY <1>0, <1>4, <2>2, LastOfConcat
    <3>2. EndErased(v.flash, right[Len(right)]) BY <1>13, <2>2 DEF LastErased
    <3>. QED BY <3>1, <3>2 DEF LastErased
  <2>. QED BY <2>1, <2>2
<1>16. /\ BytesOfAll(v.flash, left) = BytesOfAll(m.flash, left)
       /\ BytesOfAll(v.flash, right) = BytesOfAll(m.flash, right)
  BY <1>0, <1>12, BytesSame
<1>17. BytesOf(v.flash, e) = bytes BY <1>1, <1>12, BytesOfSame
<1>18. BytesOfAll(v.flash, q) =
         BytesOfAll(m.flash, left) \o bytes \o BytesOfAll(m.flash, right)
  <2>. DEFINE fl == v.flash
  <2>1. fl \in Flashes /\ e \in Entries /\ left \in Seq(Entries) /\ right \in Seq(Entries)
    BY <1>0, <1>1, <1>3
  <2>. HIDE DEF fl
  <2>2. BytesOfAll(fl, left \o <<e>> \o right) =
          BytesOfAll(fl, left) \o BytesOf(fl, e) \o BytesOfAll(fl, right)
    BY <2>1, BytesThree
  <2>. QED BY <1>4, <1>16, <1>17, <2>2 DEF fl
<1>19. w \in Memories /\ w.index = q /\ w.flash = v.flash /\ w.taken = v.taken
  BY <1>4 DEF Memories, w
<1>20. Good(w) BY <1>9, <1>11, <1>15, <1>19 DEF Good
<1>. HIDE DEF w
<1>21. Renewed(m, w, left, e, right, bytes) BY <1>4, <1>18, <1>19, <1>20 DEF Renewed
<1>. QED BY <1>21 DEF e, q, w

(* The step is over. *)
LEMMA BecomeIs ==
  ASSUME NEW m, Good(m), Become(m)
  PROVE  /\ Good([flash |-> flash', taken |-> taken', index |-> index'])
         /\ index' = m.index /\ BytesOfAll(flash', index') = BytesOfAll(m.flash, m.index)
<1>. DEFINE used == UNION {Reached(m.index[i]) : i \in DOMAIN m.index}
            w == [flash |-> flash', taken |-> taken', index |-> index']
<1>1. /\ flash' = [s \in Sectors |-> IF s \in used THEN m.flash[s] ELSE Blank]
      /\ taken' = m.taken /\ index' = m.index
  BY DEF Become
<1>2. m \in Memories /\ LiveAll(m.index) \subseteq m.taken /\ Disjoint(m.index)
      /\ LastErased(m.flash, m.index)
  BY DEF Good
<1>3. m.flash \in Flashes /\ m.taken \subseteq Sectors /\ m.index \in Seq(Entries)
  BY <1>2 DEF Memories
<1>4. ASSUME NEW i \in DOMAIN m.index, NEW t \in Live(m.index[i]) PROVE t \in used
  <2>. DEFINE e == m.index[i]
              k == IF t = e.sector THEN 0 ELSE Base(t) - Lin(e)
  <2>1. e \in Entries BY <1>3
  <2>. HIDE DEF e
  <2>2. /\ e.sector \in Nat /\ e.off \in Nat /\ e.size \in Nat /\ e.off >= DataOff /\ e.size > 0
        /\ Lin(e) \in Nat /\ Sec(Lin(e)) = e.sector
    BY <2>1, EntryFacts
  <2>3. t \in Nat /\ LastSec(e) \in Nat /\ e.sector <= t /\ t <= LastSec(e)
    BY <1>4, <2>1, LiveFacts DEF e, Live
  <2>4. k \in 0 .. e.size /\ Sec(Lin(e) + k) = t
    <3>1. CASE t = e.sector BY <2>2, <3>1
    <3>2. CASE t # e.sector
      <4>. DEFINE z == Lin(e) + e.size - 1
      <4>1. z \in Nat /\ LastSec(e) = Sec(z) BY <2>2 DEF LastSec
      <4>2. Base(t) \in Nat /\ PerSector > 0 /\ PerSector \in Nat BY <2>3, BaseNat, SizesFacts
      <4>3. Base(t) <= z
        <5>. HIDE DEF z
        <5>1. Base(Sec(z)) <= z /\ Sec(z) \in Nat /\ Base(Sec(z)) \in Nat
          <6>1. Rem(z) >= 0 /\ Rem(z) \in Int BY <4>1, Division, SizesFacts
          <6>2. z = Base(Sec(z)) + Rem(z) /\ Sec(z) \in Nat /\ Base(Sec(z)) \in Nat
            BY <4>1, Division
          <6>. QED BY <6>1, <6>2
        <5>2. t < Sec(z) => Base(t) + PerSector <= Base(Sec(z)) BY <2>3, <5>1, Bases
        <5>. QED BY <2>3, <4>1, <4>2, <5>1, <5>2
      <4>4. Lin(e) < Base(t)
        <5>1. Lin(e) < Base(e.sector) + PerSector BY <2>2, InSector
        <5>2. e.sector < t BY <2>2, <2>3, <3>2
        <5>3. Base(e.sector) + PerSector <= Base(t) BY <2>2, <2>3, <5>2, Bases
        <5>4. Base(e.sector) \in Nat BY <2>2, BaseNat
        <5>. QED BY <2>2, <4>2, <5>1, <5>3, <5>4
      <4>5. k \in 0 .. e.size /\ Lin(e) + k = Base(t) BY <2>2, <3>2, <4>2, <4>3, <4>4
      <4>6. 0 \in 0 .. PerSector - 1 /\ Base(t) + 0 = Base(t) BY <4>2
      <4>7. Sec(Base(t)) = t BY <2>3, <4>6, AddressOf
      <4>. HIDE DEF k
      <4>. QED BY <4>5, <4>7
    <3>. QED BY <3>1, <3>2
  <2>. HIDE DEF k
  <2>5. k \in Nat BY <2>2, <2>4
  <2>6. Cell(e, k) = <<Sec(Lin(e) + k), DataOff + Rem(Lin(e) + k)>> BY <2>2, <2>5, CellIs
  <2>7. Cell(e, k)[1] = t BY <2>4, <2>6
  <2>8. t \in Reached(e) BY <2>4, <2>7 DEF Reached
  <2>. QED BY <2>8 DEF e
<1>5. LiveAll(m.index) \subseteq used BY <1>4 DEF LiveAll
<1>6. Blank \in [0 .. SectorSize - 1 -> Byte] BY DEF Blank, Byte
<1>. HIDE DEF used
<1>7. flash' \in Flashes BY <1>1, <1>3, <1>6 DEF Flashes
<1>8. \A t \in LiveAll(m.index) : flash'[t] = m.flash[t] BY <1>1, <1>2, <1>3, <1>5
<1>9. LastErased(flash', m.index) BY <1>2, <1>3, <1>8, LastErasedSame
<1>10. BytesOfAll(flash', m.index) = BytesOfAll(m.flash, m.index) BY <1>3, <1>8, BytesSame
<1>11. w \in Memories BY <1>1, <1>3, <1>7 DEF Memories
<1>12. Good(w) BY <1>1, <1>2, <1>9, <1>11 DEF Good
<1>. QED BY <1>1, <1>10, <1>12

-----------------------------------------------------------------------------
(* What bfile_sector_old counts. *)
LEMMA SectorsOfEntry ==
  ASSUME NEW e \in Entries
  PROVE  SectorsOf(e) = Live(e)
<1>. DEFINE rest == e.size - (SectorSize - e.off)
            r == e.off - DataOff
<1>1. /\ e.sector \in Nat /\ e.sector \in Sectors /\ e.off \in Nat /\ e.size \in Nat
      /\ r \in 0 .. PerSector - 1 /\ e.size > 0 /\ e.off >= DataOff /\ Lin(e) \in Nat
      /\ Lin(e) = Base(e.sector) + r /\ Base(e.sector) \in Nat
  BY EntryFacts, BaseNat DEF Lin
<1>2. e.sector # Null /\ e.size # 0 BY <1>1, NullAssumption
<1>3. SectorsOf(e) = e.sector .. e.sector + (IF rest > 0 THEN CeilDiv(rest, PerSector) ELSE 0)
  BY <1>2 DEF SectorsOf
<1>4. rest = r + e.size - PerSector /\ rest \in Int BY <1>1, SizesFacts
<1>. HIDE DEF r, rest
<1>5. CASE rest > 0
  <2>. DEFINE a == rest - 1
              t == Sec(a)
              s == e.sector + 1
  <2>1. a \in Nat /\ rest = a + 1 /\ rest \in Nat \ {0} /\ s \in Nat BY <1>1, <1>4, <1>5
  <2>2. CeilDiv(rest, PerSector) = t + 1 BY <2>1, CeilFacts
  <2>. HIDE DEF a
  <2>3. t \in Nat /\ Rem(a) \in 0 .. PerSector - 1 /\ Base(t) \in Nat /\ a = Base(t) + Rem(a)
    BY <2>1, Division
  <2>. HIDE DEF t
  <2>4. Base(s) = Base(e.sector) + PerSector /\ Base(s + t) = Base(s) + Base(t) /\ s + t \in Nat
        /\ Base(s) \in Nat
    BY <1>1, <2>1, <2>3, Bases, BaseSum
  <2>. DEFINE q == Rem(a)
  <2>5. q \in 0 .. PerSector - 1 /\ a = Base(t) + q BY <2>3
  <2>. HIDE DEF q
  <2>6. Lin(e) + e.size - 1 = Base(s + t) + q
    <3>1. Lin(e) + e.size - 1 = Base(e.sector) + PerSector + a BY <1>1, <1>4, <2>1, SizesFacts
    <3>2. Base(e.sector) + PerSector + a = Base(s) + (Base(t) + q) BY <1>1, <2>4, <2>5, SizesFacts
    <3>3. Base(s) + (Base(t) + q) = Base(s + t) + q BY <2>3, <2>4, <2>5, SizesFacts
    <3>. QED BY <3>1, <3>2, <3>3
  <2>7. LastSec(e) = s + t BY <2>4, <2>5, <2>6, AddressOf DEF LastSec
  <2>8. s + t = e.sector + (t + 1) BY <1>1, <2>3
  <2>. QED BY <1>3, <1>5, <2>2, <2>7, <2>8 DEF Live
<1>6. CASE ~ rest > 0
  <2>. DEFINE q == r + e.size - 1
  <2>1. q \in 0 .. PerSector - 1 /\ Lin(e) + e.size - 1 = Base(e.sector) + q
    BY <1>1, <1>4, <1>6, SizesFacts
  <2>. HIDE DEF q
  <2>2. LastSec(e) = e.sector BY <1>1, <2>1, AddressOf DEF LastSec
  <2>3. e.sector + 0 = e.sector BY <1>1
  <2>. QED BY <1>3, <1>6, <2>2, <2>3 DEF Live
<1>. QED BY <1>5, <1>6

LEMMA SectorsOfNone ==
  ASSUME NEW o, NEW n
  PROVE  SectorsOf(Place(Null, o, n)) = {}
BY DEF SectorsOf, Place

(* Counted from IndexOff, an entry has no more sectors than from DataOff. *)
LEMMA SectorsOfShort ==
  ASSUME NEW s \in Nat, NEW n \in Nat \ {0}
  PROVE  SectorsOf(Place(s, IndexOff, n)) \subseteq Live(Place(s, DataOff, n))
<1>. DEFINE rest == n - (SectorSize - IndexOff)
            e == Place(s, IndexOff, n)
            c == CeilDiv(n, PerSector)
<1>1. Live(Place(s, DataOff, n)) = s .. s + c - 1 BY RunIs
<1>2. c = Sec(n - 1) + 1 /\ n - 1 \in Nat /\ Sec(n - 1) \in Nat BY CeilFacts, Division
<1>3. e.sector = s /\ e.off = IndexOff /\ e.size = n BY DEF Place
<1>. HIDE DEF e, c
<1>4. SectorsOf(e) \subseteq s .. s + (IF rest > 0 THEN CeilDiv(rest, PerSector) ELSE 0)
  BY <1>3 DEF SectorsOf
<1>5. rest \in Int BY SizesFacts
<1>6. CASE rest > 0
  <2>. DEFINE a == rest - 1
              t == Sec(a)
  <2>1. rest \in Nat \ {0} /\ a \in Nat BY <1>5, <1>6
  <2>2. CeilDiv(rest, PerSector) = t + 1 BY <2>1, CeilFacts
  <2>3. a + PerSector \in Nat /\ a + PerSector <= n - 1 BY <2>1, SizesFacts
  <2>. HIDE DEF a
  <2>4. t \in Nat /\ Rem(a) \in 0 .. PerSector - 1 /\ Base(t) \in Nat /\ a = Base(t) + Rem(a)
    BY <2>1, Division
  <2>. HIDE DEF t
  <2>. DEFINE q == Rem(a)
  <2>5. q \in 0 .. PerSector - 1 /\ a = Base(t) + q BY <2>4
  <2>. HIDE DEF q
  <2>6. Base(t + 1) = Base(t) + PerSector /\ t + 1 \in Nat BY <2>4, Bases
  <2>7. a + PerSector = Base(t + 1) + q BY <2>4, <2>5, <2>6, SizesFacts
  <2>8. Sec(a + PerSector) = t + 1 BY <2>5, <2>6, <2>7, AddressOf
  <2>9. t + 1 <= Sec(n - 1) BY <1>2, <2>3, <2>8, SecOrder
  <2>10. s + (t + 1) <= s + c - 1 BY <1>2, <2>4, <2>9
  <2>. QED BY <1>1, <1>2, <1>4, <1>6, <2>2, <2>4, <2>10 DEF e
<1>7. CASE ~ rest > 0
  <2>1. s + 0 <= s + c - 1 BY <1>2
  <2>. QED BY <1>1, <1>2, <1>4, <1>7, <2>1 DEF e
<1>. QED BY <1>6, <1>7

(* What is left of an entry but for its first sector. *)
LEMMA PastFirstIs ==
  ASSUME NEW e \in Entries
  PROVE  SectorsOf(PastFirst(e)) \subseteq Live(e) \ {e.sector}
<1>. DEFINE part == Least(SectorSize - e.off, e.size)
            r == e.off - DataOff
            s == e.sector + 1
            n == e.size - part
<1>1. /\ e.sector \in Nat /\ e.off \in Nat /\ e.size \in Nat
      /\ r \in 0 .. PerSector - 1 /\ e.size > 0 /\ e.off >= DataOff /\ Lin(e) \in Nat
      /\ Lin(e) = Base(e.sector) + r /\ Base(e.sector) \in Nat
  BY EntryFacts, BaseNat DEF Lin
<1>2. part = (IF PerSector - r < e.size THEN PerSector - r ELSE e.size)
  BY <1>1, SizesFacts DEF Least
<1>3. PastFirst(e) = IF e.size = part THEN Place(Null, e.off, 0) ELSE Place(s, IndexOff, n)
  BY DEF PastFirst
<1>. HIDE DEF part, r
<1>4. CASE e.size = part BY <1>3, <1>4, SectorsOfNone
<1>5. CASE e.size # part
  <2>1. part = PerSector - r /\ n \in Nat \ {0} /\ s \in Nat BY <1>1, <1>2, <1>5, SizesFacts
  <2>. DEFINE f == Place(s, DataOff, n)
  <2>2. Lin(f) = Base(s) /\ f.sector = s /\ f.size = n BY <2>1, RunIs
  <2>3. SectorsOf(PastFirst(e)) \subseteq Live(f) BY <1>3, <1>5, <2>1, SectorsOfShort
  <2>. HIDE DEF f
  <2>4. Base(s) = Base(e.sector) + PerSector BY <1>1, Bases
  <2>5. Lin(f) + f.size - 1 = Lin(e) + e.size - 1 BY <1>1, <2>1, <2>2, <2>4, SizesFacts
  <2>6. LastSec(f) = LastSec(e) BY <2>5 DEF LastSec
  <2>7. Live(f) = e.sector + 1 .. LastSec(e) /\ LastSec(e) \in Nat BY <2>2, <2>6, LiveFacts DEF Live
  <2>8. e.sector + 1 .. LastSec(e) \subseteq Live(e) \ {e.sector} BY <1>1, <2>7 DEF Live
  <2>. QED BY <2>3, <2>7, <2>8
<1>. QED BY <1>4, <1>5

-----------------------------------------------------------------------------
(* An index and its entries.                                                *)
Splits(S, s, i, j) ==
  /\ SubSeq(s, 1, i - 1) \in Seq(S) /\ Len(SubSeq(s, 1, i - 1)) = i - 1
  /\ SubSeq(s, i, j) \in Seq(S) /\ Len(SubSeq(s, i, j)) = j - i + 1
  /\ SubSeq(s, j + 1, Len(s)) \in Seq(S) /\ Len(SubSeq(s, j + 1, Len(s))) = Len(s) - j
  /\ s = SubSeq(s, 1, i - 1) \o SubSeq(s, i, j) \o SubSeq(s, j + 1, Len(s))
  /\ SubSeq(s, 1, j) = SubSeq(s, 1, i - 1) \o SubSeq(s, i, j)

LEMMA SplitsIs ==
  ASSUME NEW S, NEW s \in Seq(S), NEW i \in 1 .. Len(s) + 1, NEW j \in Nat,
         i <= j + 1, j <= Len(s)
  PROVE  Splits(S, s, i, j)
<1>. DEFINE A == SubSeq(s, 1, i - 1)
            X == SubSeq(s, i, j)
            C == SubSeq(s, j + 1, Len(s))
            n == Len(s)
<1>0. n \in Nat /\ i \in Nat /\ i >= 1 OBVIOUS
<1>1. A \in Seq(S) /\ Len(A) = i - 1 /\ \A k \in 1 .. i - 1 : A[k] = s[k] OBVIOUS
<1>2. X \in Seq(S) /\ Len(X) = j - i + 1 /\ \A k \in 1 .. j - i + 1 : X[k] = s[i + k - 1]
  OBVIOUS
<1>3. C \in Seq(S) /\ Len(C) = n - j /\ \A k \in 1 .. n - j : C[k] = s[j + 1 + k - 1]
  OBVIOUS
<1>. DEFINE P == SubSeq(s, 1, j)
<1>4. P \in Seq(S) /\ Len(P) = j /\ \A k \in 1 .. j : P[k] = s[k] OBVIOUS
<1>. HIDE DEF A, X, C, n, P
<1>5. P = A \o X
  <2>1. A \o X \in Seq(S) /\ Len(A \o X) = j BY <1>0, <1>1, <1>2, ConcatAt
  <2>2. ASSUME NEW k \in 1 .. j PROVE (A \o X)[k] = P[k]
    <3>1. CASE k <= i - 1
      <4>1. k \in 1 .. i - 1 /\ k \in DOMAIN A BY <1>0, <1>1, <3>1
      <4>2. (A \o X)[k] = A[k] BY <1>1, <1>2, <4>1, ConcatAt
      <4>. QED BY <1>1, <1>4, <4>1, <4>2
    <3>2. CASE k > i - 1
      <4>. DEFINE l == k - (i - 1)
      <4>1. l \in 1 .. j - i + 1 /\ Len(A) + l = k /\ i + l - 1 = k BY <1>0, <1>1, <3>2
      <4>2. l \in DOMAIN X BY <1>2, <4>1
      <4>. HIDE DEF l
      <4>3. (A \o X)[Len(A) + l] = X[l] BY <1>1, <1>2, <4>2, ConcatAt
      <4>. QED BY <1>2, <1>4, <4>1, <4>3
    <3>3. k <= i - 1 \/ k > i - 1 BY <1>0
    <3>. QED BY <3>1, <3>2, <3>3
  <2>. QED BY <1>4, <2>1, <2>2
<1>6. s = P \o C
  <2>1. P \o C \in Seq(S) /\ Len(P \o C) = n
    <3>1. P \in Seq(S) /\ C \in Seq(S) BY <1>3, <1>4
    <3>2. P \o C \in Seq(S) /\ Len(P \o C) = Len(P) + Len(C) BY <3>1, ConcatAt
    <3>3. j + (n - j) = n BY <1>0
    <3>. QED BY <1>3, <1>4, <3>2, <3>3
  <2>2. ASSUME NEW k \in 1 .. n PROVE (P \o C)[k] = s[k]
    <3>1. CASE k <= j
      <4>1. k \in 1 .. j /\ k \in DOMAIN P BY <1>0, <1>4, <3>1
      <4>2. (P \o C)[k] = P[k] BY <1>4, <1>3, <4>1, ConcatAt
      <4>. QED BY <1>4, <4>1, <4>2
    <3>2. CASE k > j
      <4>. DEFINE l == k - j
      <4>1. l \in 1 .. n - j /\ Len(P) + l = k /\ j + 1 + l - 1 = k BY <1>0, <1>4, <3>2
      <4>2. l \in DOMAIN C BY <1>3, <4>1
      <4>. HIDE DEF l
      <4>3. (P \o C)[Len(P) + l] = C[l] BY <1>4, <1>3, <4>2, ConcatAt
      <4>. QED BY <1>3, <4>1, <4>3
    <3>3. k <= j \/ k > j BY <1>0
    <3>. QED BY <3>1, <3>2, <3>3
  <2>3. Len(s) = n BY DEF n
  <2>4. \A k \in 1 .. Len(s) : s[k] = (P \o C)[k] BY <2>2, <2>3
  <2>. QED BY <2>1, <2>3, <2>4, SeqEqual
<1>. QED BY <1>1, <1>2, <1>3, <1>5, <1>6 DEF A, X, C, n, P, Splits

LEMMA SplitRange ==
  ASSUME NEW S, NEW s \in Seq(S), NEW i \in 1 .. Len(s) + 1, NEW j \in Nat,
         i <= j + 1, j <= Len(s)
  PROVE  /\ SubSeq(s, 1, i - 1) \in Seq(S) /\ Len(SubSeq(s, 1, i - 1)) = i - 1
         /\ SubSeq(s, i, j) \in Seq(S) /\ Len(SubSeq(s, i, j)) = j - i + 1
         /\ SubSeq(s, j + 1, Len(s)) \in Seq(S) /\ Len(SubSeq(s, j + 1, Len(s))) = Len(s) - j
         /\ s = SubSeq(s, 1, i - 1) \o SubSeq(s, i, j) \o SubSeq(s, j + 1, Len(s))
         /\ SubSeq(s, 1, j) = SubSeq(s, 1, i - 1) \o SubSeq(s, i, j)
<1>1. Splits(S, s, i, j) BY SplitsIs
<1>. QED BY <1>1, Zenon DEF Splits

LEMMA SplitAt ==
  ASSUME NEW S, NEW s \in Seq(S), NEW i \in DOMAIN s
  PROVE  /\ SubSeq(s, 1, i - 1) \in Seq(S) /\ Len(SubSeq(s, 1, i - 1)) = i - 1
         /\ SubSeq(s, i + 1, Len(s)) \in Seq(S) /\ Len(SubSeq(s, i + 1, Len(s))) = Len(s) - i
         /\ s[i] \in S /\ i \in Nat /\ i >= 1 /\ i <= Len(s)
         /\ SubSeq(s, i, i) = <<s[i]>>
         /\ s = SubSeq(s, 1, i - 1) \o <<s[i]>> \o SubSeq(s, i + 1, Len(s))
<1>1. i \in 1 .. Len(s) + 1 /\ i \in Nat /\ i <= i + 1 /\ i <= Len(s) /\ i >= 1 /\ s[i] \in S OBVIOUS
<1>2. SubSeq(s, i, i) = <<s[i]>>
  <2>. DEFINE X == SubSeq(s, i, i)
  <2>0. i \in Nat /\ i >= 1 /\ i <= Len(s) /\ i - i + 1 = 1 /\ i + 1 - 1 = i BY <1>1
  <2>1. X \in Seq(S) /\ Len(X) = 1 /\ X[1] = s[i]
    <3>1. X \in Seq(S) OBVIOUS
    <3>2. Len(X) = 1 BY <2>0
    <3>3. 1 \in 1 .. i - i + 1 BY <2>0
    <3>4. X[1] = s[i + 1 - 1] BY <2>0, <3>3
    <3>. QED BY <2>0, <3>1, <3>2, <3>4
  <2>. HIDE DEF X
  <2>2. X = <<X[1]>> BY <2>1
  <2>. QED BY <2>1, <2>2 DEF X
<1>3. /\ SubSeq(s, 1, i - 1) \in Seq(S) /\ Len(SubSeq(s, 1, i - 1)) = i - 1
      /\ SubSeq(s, i + 1, Len(s)) \in Seq(S) /\ Len(SubSeq(s, i + 1, Len(s))) = Len(s) - i
      /\ s = SubSeq(s, 1, i - 1) \o SubSeq(s, i, i) \o SubSeq(s, i + 1, Len(s))
  BY <1>1, SplitRange
<1>. QED BY <1>1, <1>2, <1>3

LEMMA TotalNat ==
  ASSUME NEW s \in Seq(Entries)
  PROVE  Total(s) \in Nat
<1>. DEFINE fl == [t \in Sectors |-> Blank]
<1>1. Blank \in [0 .. SectorSize - 1 -> Byte] BY DEF Blank, Byte
<1>2. fl \in Flashes BY <1>1 DEF Flashes
<1>. HIDE DEF fl
<1>. QED BY <1>2, BytesAll

LEMMA TotalConcat ==
  ASSUME NEW s \in Seq(Entries), NEW t \in Seq(Entries)
  PROVE  Total(s \o t) = Total(s) + Total(t)
<1>. DEFINE fl == [u \in Sectors |-> Blank]
<1>1. Blank \in [0 .. SectorSize - 1 -> Byte] BY DEF Blank, Byte
<1>2. fl \in Flashes BY <1>1 DEF Flashes
<1>. HIDE DEF fl
<1>. QED BY <1>2, BytesConcat

LEMMA TotalOne ==
  ASSUME NEW e \in Entries
  PROVE  Total(<<e>>) = e.size /\ <<e>> \in Seq(Entries)
<1>. DEFINE fl == [u \in Sectors |-> Blank]
<1>1. Blank \in [0 .. SectorSize - 1 -> Byte] BY DEF Blank, Byte
<1>2. fl \in Flashes BY <1>1 DEF Flashes
<1>. HIDE DEF fl
<1>. QED BY <1>2, FoldsOne

LEMMA StartFacts ==
  ASSUME NEW s \in Seq(Entries), NEW i \in DOMAIN s
  PROVE  /\ StartOf(s, i) \in Nat /\ s[i].size \in Nat /\ s[i].size > 0
         /\ Total(s) = StartOf(s, i) + s[i].size + Total(SubSeq(s, i + 1, Len(s)))
         /\ Total(SubSeq(s, i + 1, Len(s))) \in Nat
         /\ StartOf(s, i) + s[i].size <= Total(s)
<1>. DEFINE A == SubSeq(s, 1, i - 1)
            C == SubSeq(s, i + 1, Len(s))
<1>1. A \in Seq(Entries) /\ C \in Seq(Entries) /\ s[i] \in Entries /\ s = A \o <<s[i]>> \o C
  BY SplitAt
<1>2. StartOf(s, i) = Total(A) BY DEF StartOf
<1>. HIDE DEF A, C
<1>3. <<s[i]>> \in Seq(Entries) /\ Total(<<s[i]>>) = s[i].size /\ A \o <<s[i]>> \in Seq(Entries)
  BY <1>1, TotalOne, ConcatThree
<1>4. Total(A \o <<s[i]>>) = Total(A) + s[i].size BY <1>1, <1>3, TotalConcat
<1>5. Total((A \o <<s[i]>>) \o C) = Total(A \o <<s[i]>>) + Total(C) BY <1>1, <1>3, TotalConcat
<1>6. Total(A) \in Nat /\ Total(C) \in Nat /\ s[i].size \in Nat /\ s[i].size > 0
  BY <1>1, TotalNat, EntryFacts
<1>7. Total(s) = Total(A) + s[i].size + Total(C) BY <1>1, <1>4, <1>5
<1>. QED BY <1>2, <1>6, <1>7 DEF C

LEMMA StartOrder ==
  ASSUME NEW s \in Seq(Entries), NEW i \in DOMAIN s, NEW j \in DOMAIN s, i < j
  PROVE  /\ StartOf(s, j) = StartOf(s, i) + s[i].size + Total(SubSeq(s, i + 1, j - 1))
         /\ SubSeq(s, i + 1, j - 1) \in Seq(Entries) /\ Total(SubSeq(s, i + 1, j - 1)) \in Nat
         /\ StartOf(s, i) + s[i].size <= StartOf(s, j)
<1>. DEFINE A == SubSeq(s, 1, i - 1)
            Y == SubSeq(s, i + 1, j - 1)
            P == SubSeq(s, 1, i)
<1>2. Y \in Seq(Entries) /\ P \in Seq(Entries) /\ SubSeq(s, 1, j - 1) = P \o Y
  <2>. DEFINE a == i + 1
              c == j - 1
  <2>1. a \in 1 .. Len(s) + 1 /\ c \in Nat /\ a <= c + 1 /\ c <= Len(s) /\ a - 1 = i OBVIOUS
  <2>. HIDE DEF a, c
  <2>2. /\ SubSeq(s, a, c) \in Seq(Entries) /\ SubSeq(s, 1, a - 1) \in Seq(Entries)
        /\ SubSeq(s, 1, c) = SubSeq(s, 1, a - 1) \o SubSeq(s, a, c)
    BY <2>1, SplitRange
  <2>. QED BY <2>1, <2>2 DEF a, c
<1>3. i \in 1 .. Len(s) + 1 /\ i \in Nat /\ i <= i + 1 /\ i <= Len(s) OBVIOUS
<1>4. A \in Seq(Entries) /\ P = A \o SubSeq(s, i, i)
  <2>1. /\ SubSeq(s, 1, i - 1) \in Seq(Entries)
        /\ SubSeq(s, 1, i) = SubSeq(s, 1, i - 1) \o SubSeq(s, i, i)
    <3>. DEFINE a == i
                c == i
    <3>1. a \in 1 .. Len(s) + 1 /\ c \in Nat /\ a <= c + 1 /\ c <= Len(s) BY <1>3
    <3>. HIDE DEF a, c
    <3>2. /\ SubSeq(s, 1, a - 1) \in Seq(Entries)
          /\ SubSeq(s, 1, c) = SubSeq(s, 1, a - 1) \o SubSeq(s, a, c)
      BY <3>1, SplitRange
    <3>. QED BY <3>2 DEF a, c
  <2>. QED BY <2>1
<1>5. SubSeq(s, i, i) = <<s[i]>> /\ s[i] \in Entries BY SplitAt
<1>6. StartOf(s, j) = Total(SubSeq(s, 1, j - 1)) /\ StartOf(s, i) = Total(A) BY DEF StartOf
<1>. HIDE DEF A, Y, P
<1>7. Total(P) = Total(A) + s[i].size BY <1>4, <1>5, TotalOne, TotalConcat
<1>8. Total(P \o Y) = Total(P) + Total(Y) BY <1>2, TotalConcat
<1>9. Total(A) \in Nat /\ Total(Y) \in Nat /\ s[i].size \in Nat BY <1>2, <1>4, <1>5, TotalNat, EntryFacts
<1>10. StartOf(s, j) = StartOf(s, i) + s[i].size + Total(Y) BY <1>2, <1>6, <1>7, <1>8
<1>11. StartOf(s, i) \in Nat /\ StartOf(s, i) + s[i].size <= StartOf(s, j) BY <1>6, <1>9, <1>10
<1>. QED BY <1>2, <1>9, <1>10, <1>11 DEF Y

(* The entry that holds a position. *)
LEMMA EntryAtIs ==
  ASSUME NEW s \in Seq(Entries), NEW pos \in Nat, pos < Total(s)
  PROVE  LET i == EntryAt(s, pos) IN
         /\ i \in DOMAIN s /\ s[i] \in Entries /\ StartOf(s, i) \in Nat
         /\ StartOf(s, i) <= pos /\ pos < StartOf(s, i) + s[i].size
         /\ s[i].size \in Nat /\ pos - StartOf(s, i) \in 0 .. s[i].size - 1
<1>. DEFINE T == {k \in 0 .. Len(s) : pos < Total(SubSeq(s, 1, k))}
<1>0. Len(s) \in Nat OBVIOUS
<1>1. \A k \in 0 .. Len(s) : SubSeq(s, 1, k) \in Seq(Entries)
  <2>. TAKE k \in 0 .. Len(s)
  <2>1. 1 \in 1 .. Len(s) + 1 /\ k \in Nat /\ 1 <= k + 1 /\ k <= Len(s) BY <1>0
  <2>. QED BY <2>1, SplitRange
<1>2. Len(s) \in T
  <2>1. SubSeq(s, 1, Len(s)) = s OBVIOUS
  <2>2. pos < Total(SubSeq(s, 1, Len(s))) BY <2>1
  <2>. QED BY <1>0, <2>2
<1>3. T \in SUBSET Nat /\ T # {} BY <1>2
<1>4. PICK k \in T : \A l \in T : k <= l BY <1>3, Smallest
<1>5. k # 0
  <2>1. SubSeq(s, 1, 0) = <<>> OBVIOUS
  <2>2. Total(<<>>) = 0 BY FoldsEmpty
  <2>3. pos < Total(SubSeq(s, 1, k)) BY <1>4
  <2>4. SUFFICES ASSUME k = 0 PROVE FALSE OBVIOUS
  <2>5. SubSeq(s, 1, k) = <<>> BY <2>1, <2>4
  <2>6. pos < 0 BY <2>2, <2>3, <2>5
  <2>. QED BY <2>6
<1>6. k \in DOMAIN s /\ k - 1 \in 0 .. Len(s) /\ k - 1 < k BY <1>4, <1>5
<1>7. k - 1 \notin T BY <1>4, <1>6
<1>8. Total(SubSeq(s, 1, k - 1)) \in Nat BY <1>1, <1>6, TotalNat
<1>9. StartOf(s, k) <= pos BY <1>6, <1>7, <1>8 DEF StartOf
<1>10. pos < StartOf(s, k) + s[k].size
  <2>1. k \in 1 .. Len(s) + 1 /\ k \in Nat /\ k <= k + 1 /\ k <= Len(s) BY <1>6
  <2>2. SubSeq(s, 1, k) = SubSeq(s, 1, k - 1) \o SubSeq(s, k, k) /\ SubSeq(s, 1, k - 1) \in Seq(Entries)
    BY <2>1, SplitRange
  <2>3. SubSeq(s, k, k) = <<s[k]>> /\ s[k] \in Entries BY <1>6, SplitAt
  <2>4. Total(SubSeq(s, 1, k)) = Total(SubSeq(s, 1, k - 1)) + s[k].size
    BY <2>2, <2>3, TotalOne, TotalConcat
  <2>. QED BY <1>4, <2>4 DEF StartOf
<1>. DEFINE i == EntryAt(s, pos)
<1>11. i \in DOMAIN s /\ StartOf(s, i) <= pos /\ pos < StartOf(s, i) + s[i].size
  BY <1>6, <1>9, <1>10 DEF EntryAt
<1>. HIDE DEF i
<1>12. s[i] \in Entries BY <1>11
<1>13. StartOf(s, i) \in Nat /\ s[i].size \in Nat BY <1>11, StartFacts
<1>. QED BY <1>11, <1>12, <1>13 DEF i

LEMMA EntryOrder ==
  ASSUME NEW s \in Seq(Entries), NEW p \in Nat, NEW q \in Nat, p <= q, q < Total(s)
  PROVE  EntryAt(s, p) <= EntryAt(s, q)
<1>. DEFINE i == EntryAt(s, p)
            j == EntryAt(s, q)
<1>1. Total(s) \in Nat BY TotalNat
<1>2. /\ i \in DOMAIN s /\ j \in DOMAIN s /\ StartOf(s, i) <= p /\ q < StartOf(s, j) + s[j].size
      /\ StartOf(s, i) \in Nat /\ StartOf(s, j) \in Nat /\ s[j].size \in Nat
  BY <1>1, EntryAtIs
<1>. HIDE DEF i, j
<1>3. ~ j < i
  <2>1. j < i => StartOf(s, j) + s[j].size <= StartOf(s, i) BY <1>2, StartOrder
  <2>. QED BY <1>2, <2>1
<1>4. i \in Nat /\ j \in Nat BY <1>2
<1>5. i <= j BY <1>3, <1>4
<1>. QED BY <1>5 DEF i, j

(* The byte at a position. *)
LEMMA ByteOfEntry ==
  ASSUME NEW fl \in Flashes, NEW s \in Seq(Entries), NEW i \in DOMAIN s,
         NEW k \in 0 .. s[i].size - 1
  PROVE  BytesOfAll(fl, s)[StartOf(s, i) + k + 1] = ByteAt(fl, Lin(s[i]) + k)
<1>. DEFINE A == SubSeq(s, 1, i - 1)
            C == SubSeq(s, i + 1, Len(s))
            e == s[i]
<1>1. A \in Seq(Entries) /\ C \in Seq(Entries) /\ e \in Entries /\ s = A \o <<e>> \o C BY SplitAt
<1>2. StartOf(s, i) = Total(A) BY DEF StartOf
<1>. HIDE DEF A, C
<1>. DEFINE x == BytesOfAll(fl, A)
            y == BytesOf(fl, e)
            z == BytesOfAll(fl, C)
<1>3. BytesOfAll(fl, s) = x \o y \o z
  <2>. HIDE DEF e
  <2>1. BytesOfAll(fl, A \o <<e>> \o C) = x \o y \o z BY <1>1, BytesThree
  <2>. QED BY <1>1, <2>1
<1>4. /\ x \in Seq(Byte) /\ Len(x) = Total(A) /\ z \in Seq(Byte) /\ Total(A) \in Nat
      /\ y \in Seq(Byte) /\ Len(y) = e.size /\ e.size \in Nat
      /\ \A l \in 1 .. e.size : y[l] = ByteAt(fl, Lin(e) + (l - 1))
  BY <1>1, BytesAll, BytesOfTyped, EntryFacts
<1>. HIDE DEF e, x, y, z
<1>5. k \in 0 .. e.size - 1 BY DEF e
<1>6. k + 1 \in DOMAIN y /\ k + 1 \in 1 .. e.size /\ (k + 1) - 1 = k BY <1>4, <1>5
<1>7. x \o y \in Seq(Byte) /\ Len(x) + (k + 1) \in DOMAIN (x \o y) /\ (x \o y)[Len(x) + (k + 1)] = y[k + 1]
  BY <1>4, <1>6, ConcatAt
<1>8. ((x \o y) \o z)[Len(x) + (k + 1)] = (x \o y)[Len(x) + (k + 1)] BY <1>4, <1>7, ConcatAt
<1>9. Total(A) + k + 1 = Len(x) + (k + 1) BY <1>4, <1>5
<1>10. y[k + 1] = ByteAt(fl, Lin(e) + k) BY <1>4, <1>6
<1>. QED BY <1>2, <1>3, <1>7, <1>8, <1>9, <1>10 DEF e

-----------------------------------------------------------------------------
(* What a rewrite leaves of the entry it begins in.                         *)
Cut(e, c) == IF c > 0 THEN <<[e EXCEPT !.size = c]>> ELSE <<>>

LEMMA CutFacts ==
  ASSUME NEW e \in Entries, Live(e) \subseteq Sectors, NEW c \in 0 .. e.size - 1
  PROVE  LET first == Jump(e, c) IN
         /\ Cut(e, c) \in Seq(Entries) /\ Disjoint(Cut(e, c)) /\ Total(Cut(e, c)) = c
         /\ LiveAll(Cut(e, c)) \subseteq Live(e)
         /\ \A t \in LiveAll(Cut(e, c)) :
              t \in Nat /\ t <= first.sector /\ (first.off = DataOff => t < first.sector)
         /\ \A fl \in Flashes : BytesOf(fl, e) = BytesOfAll(fl, Cut(e, c)) \o BytesOf(fl, first)
<1>. DEFINE first == Jump(e, c)
<1>1. /\ first \in Entries /\ Lin(first) = Lin(e) + c /\ first.size = e.size - c
      /\ first.sector = Sec(Lin(e) + c) /\ (c = 0 => first = e)
  BY JumpIs
<1>. HIDE DEF first
<1>2. e.size \in Nat /\ Lin(e) \in Nat /\ Lin(first) \in Nat /\ first.sector \in Nat
      /\ Sec(Lin(first)) = first.sector /\ Rem(Lin(first)) = first.off - DataOff
  BY <1>1, EntryFacts
<1>3. CASE c = 0
  <2>1. Cut(e, c) = <<>> BY <1>3 DEF Cut
  <2>2. first = e BY <1>1, <1>3
  <2>3. Total(<<>>) = 0 /\ \A fl \in Flashes : BytesOfAll(fl, <<>>) = <<>> BY FoldsEmpty
  <2>4. ASSUME NEW fl \in Flashes PROVE BytesOf(fl, e) = <<>> \o BytesOf(fl, e)
    <3>. DEFINE y == BytesOf(fl, e)
    <3>1. y \in Seq(Byte) BY BytesOfTyped
    <3>. HIDE DEF y
    <3>2. y = <<>> \o y BY <3>1, ConcatThree
    <3>. QED BY <3>2 DEF y
  <2>5. LiveAll(Cut(e, c)) = {} /\ Disjoint(Cut(e, c)) BY <2>1, LiveEmpty
  <2>6. Cut(e, c) \in Seq(Entries) BY <2>1
  <2>7. \A fl \in Flashes : BytesOf(fl, e) = BytesOfAll(fl, Cut(e, c)) \o BytesOf(fl, first)
    BY <2>1, <2>2, <2>3, <2>4
  <2>8. Total(Cut(e, c)) = c BY <1>3, <2>1, <2>3
  <2>. QED BY <2>5, <2>6, <2>7, <2>8 DEF first
<1>4. CASE c # 0
  <2>. DEFINE b == [e EXCEPT !.size = c]
  <2>1. c > 0 /\ c \in 1 .. e.size /\ c \in 1 .. e.size - 1 BY <1>2, <1>4
  <2>2. /\ b \in Entries /\ b.size = c /\ b.sector = e.sector
        /\ LastSec(b) = Sec(Lin(e) + c - 1) /\ Live(b) \subseteq Live(e)
    BY <2>1, CutIs
  <2>3. Cut(e, c) = <<b>> BY <2>1 DEF Cut
  <2>4. ASSUME NEW fl \in Flashes PROVE BytesOf(fl, e) = BytesOf(fl, b) \o BytesOf(fl, first)
    BY <2>1, BytesCut DEF first
  <2>. HIDE DEF b
  <2>5. <<b>> \in Seq(Entries) /\ Total(<<b>>) = c BY <2>2, TotalOne
  <2>6. \A fl \in Flashes : BytesOfAll(fl, <<b>>) = BytesOf(fl, b) BY <2>2, FoldsOne
  <2>7. LiveAll(<<b>>) = Live(b) /\ Disjoint(<<b>>) BY LiveOne
  <2>8. ASSUME NEW t \in Live(b)
        PROVE  t \in Nat /\ t <= first.sector /\ (first.off = DataOff => t < first.sector)
    <3>. DEFINE a == Lin(e) + c
    <3>1. a \in Nat /\ a - 1 \in Nat /\ a - 1 <= a /\ LastSec(b) = Sec(a - 1) /\ first.sector = Sec(a)
          /\ a = Lin(first)
      BY <1>1, <1>2, <2>1, <2>2
    <3>2. t \in Nat /\ t <= LastSec(b) /\ LastSec(b) \in Nat BY <2>2, <2>8, LiveFacts DEF Live
    <3>. HIDE DEF a
    <3>3. LastSec(b) <= first.sector BY <3>1, SecOrder
    <3>4. ASSUME first.off = DataOff PROVE LastSec(b) # first.sector
      <4>1. Rem(a) = 0 BY <1>2, <3>1, <3>4, SizesFacts
      <4>2. a = Base(Sec(a)) + Rem(a) /\ Base(Sec(a)) \in Nat /\ Sec(a) \in Nat BY <3>1, Division
      <4>3. a = Base(Sec(a)) BY <4>1, <4>2
      <4>4. Sec(a - 1) = Sec(a) => Base(Sec(a)) <= a - 1 BY <3>1, <4>2, InSector
      <4>. QED BY <3>1, <4>3, <4>4
    <3>. QED BY <1>2, <3>2, <3>3, <3>4
  <2>. QED BY <2>2, <2>3, <2>4, <2>5, <2>6, <2>7, <2>8 DEF first
<1>. QED BY <1>3, <1>4

LEMMA LiveThree ==
  ASSUME NEW s \in Seq(Entries), NEW e \in Entries, NEW t \in Seq(Entries)
  PROVE  /\ LiveAll(s \o <<e>> \o t) = LiveAll(s) \cup Live(e) \cup LiveAll(t)
         /\ Disjoint(s \o <<e>> \o t) <=>
              /\ Disjoint(s) /\ Disjoint(t) /\ LiveAll(s) \cap Live(e) = {}
              /\ LiveAll(s) \cap LiveAll(t) = {} /\ Live(e) \cap LiveAll(t) = {}
<1>. DEFINE o == <<e>>
            u == s \o o
<1>1. o \in Seq(Entries) /\ LiveAll(o) = Live(e) /\ Disjoint(o) BY TotalOne, LiveOne
<1>. HIDE DEF o
<1>2. u \in Seq(Entries) BY <1>1, ConcatThree
<1>3. /\ LiveAll(u) = LiveAll(s) \cup Live(e)
      /\ Disjoint(u) <=> (Disjoint(s) /\ LiveAll(s) \cap Live(e) = {})
  BY <1>1, LiveConcat, DisjointConcat
<1>. HIDE DEF u
<1>4. /\ LiveAll(u \o t) = LiveAll(u) \cup LiveAll(t)
      /\ Disjoint(u \o t) <=> (Disjoint(u) /\ Disjoint(t) /\ LiveAll(u) \cap LiveAll(t) = {})
  BY <1>2, LiveConcat, DisjointConcat
<1>5. LiveAll(u \o t) = LiveAll(s) \cup Live(e) \cup LiveAll(t) BY <1>3, <1>4
<1>6. LiveAll(u) \cap LiveAll(t) = {} <=>
        (LiveAll(s) \cap LiveAll(t) = {} /\ Live(e) \cap LiveAll(t) = {})
  BY <1>3
<1>7. Disjoint(u \o t) <=> (/\ Disjoint(s) /\ Disjoint(t) /\ LiveAll(s) \cap Live(e) = {}
              /\ LiveAll(s) \cap LiveAll(t) = {} /\ Live(e) \cap LiveAll(t) = {})
  BY <1>3, <1>4, <1>6
<1>. QED BY <1>5, <1>7 DEF u, o

(* An index around one of its entries. *)
LEMMA Around ==
  ASSUME NEW s \in Seq(Entries), Disjoint(s), NEW i \in DOMAIN s
  PROVE  LET A == SubSeq(s, 1, i - 1)
             C == SubSeq(s, i + 1, Len(s))
         IN  /\ A \in Seq(Entries) /\ C \in Seq(Entries) /\ s[i] \in Entries
             /\ Disjoint(A) /\ Disjoint(C)
             /\ LiveAll(A) \subseteq LiveAll(s) /\ LiveAll(C) \subseteq LiveAll(s)
             /\ Live(s[i]) \subseteq LiveAll(s)
             /\ LiveAll(A) \cap Live(s[i]) = {} /\ LiveAll(A) \cap LiveAll(C) = {}
             /\ Live(s[i]) \cap LiveAll(C) = {}
             /\ \A fl \in Flashes : BytesOfAll(fl, s) =
                  BytesOfAll(fl, A) \o BytesOf(fl, s[i]) \o BytesOfAll(fl, C)
<1>. DEFINE A == SubSeq(s, 1, i - 1)
            C == SubSeq(s, i + 1, Len(s))
            e == s[i]
            q == A \o <<e>> \o C
<1>1. A \in Seq(Entries) /\ C \in Seq(Entries) /\ e \in Entries /\ s = q BY SplitAt
<1>. HIDE DEF A, C, e
<1>2. LiveAll(q) = LiveAll(A) \cup Live(e) \cup LiveAll(C) BY <1>1, LiveThree
<1>3. Disjoint(q) <=> (/\ Disjoint(A) /\ Disjoint(C) /\ LiveAll(A) \cap Live(e) = {}
              /\ LiveAll(A) \cap LiveAll(C) = {} /\ Live(e) \cap LiveAll(C) = {})
  BY <1>1, LiveThree
<1>4. \A fl \in Flashes : BytesOfAll(fl, q) = BytesOfAll(fl, A) \o BytesOf(fl, e) \o BytesOfAll(fl, C)
  BY <1>1, BytesThree
<1>. HIDE DEF q
<1>5. /\ Disjoint(A) /\ Disjoint(C) /\ LiveAll(A) \cap Live(e) = {}
      /\ LiveAll(A) \cap LiveAll(C) = {} /\ Live(e) \cap LiveAll(C) = {}
  BY <1>1, <1>3
<1>6. LiveAll(A) \subseteq LiveAll(s) /\ LiveAll(C) \subseteq LiveAll(s) /\ Live(e) \subseteq LiveAll(s)
  BY <1>1, <1>2
<1>7. \A fl \in Flashes : BytesOfAll(fl, s) = BytesOfAll(fl, A) \o BytesOf(fl, e) \o BytesOfAll(fl, C)
  BY <1>1, <1>4
<1>. QED BY <1>1, <1>5, <1>6, <1>7 DEF A, C, e

(* What a rewrite at a position keeps before it. *)
IsLeft(s, i, c) ==
  LET A     == SubSeq(s, 1, i - 1)
      left  == A \o Cut(s[i], c)
      first == Jump(s[i], c)
  IN  /\ left \in Seq(Entries) /\ Disjoint(left) /\ Total(left) = StartOf(s, i) + c
      /\ LiveAll(left) = LiveAll(A) \cup LiveAll(Cut(s[i], c))
      /\ LiveAll(left) \subseteq LiveAll(s)
      /\ \A fl \in Flashes :
           /\ BytesOf(fl, first) \o BytesOfAll(fl, SubSeq(s, i + 1, Len(s))) \in Seq(Byte)
           /\ BytesOfAll(fl, s) = BytesOfAll(fl, left) \o
                (BytesOf(fl, first) \o BytesOfAll(fl, SubSeq(s, i + 1, Len(s))))

LEMMA LeftIs ==
  ASSUME NEW s \in Seq(Entries), LiveAll(s) \subseteq Sectors, Disjoint(s),
         NEW i \in DOMAIN s, NEW c \in 0 .. s[i].size - 1
  PROVE  IsLeft(s, i, c)
<1>. DEFINE A     == SubSeq(s, 1, i - 1)
            C     == SubSeq(s, i + 1, Len(s))
            e     == s[i]
            k     == Cut(e, c)
            first == Jump(e, c)
            left  == A \o k
<1>1. /\ A \in Seq(Entries) /\ C \in Seq(Entries) /\ e \in Entries
      /\ Disjoint(A) /\ Disjoint(C)
      /\ LiveAll(A) \subseteq LiveAll(s) /\ Live(e) \subseteq LiveAll(s)
      /\ LiveAll(A) \cap Live(e) = {}
      /\ \A fl \in Flashes : BytesOfAll(fl, s) =
           BytesOfAll(fl, A) \o BytesOf(fl, e) \o BytesOfAll(fl, C)
  BY Around
<1>2. c \in 0 .. e.size - 1 /\ Live(e) \subseteq Sectors BY <1>1
<1>3. StartOf(s, i) = Total(A) BY DEF StartOf
<1>. HIDE DEF A, C, e
<1>4. first \in Entries BY <1>1, <1>2, JumpIs
<1>5. /\ k \in Seq(Entries) /\ Disjoint(k) /\ Total(k) = c /\ LiveAll(k) \subseteq Live(e)
      /\ \A fl \in Flashes : BytesOf(fl, e) = BytesOfAll(fl, k) \o BytesOf(fl, first)
  BY <1>1, <1>2, CutFacts
<1>. HIDE DEF k, first
<1>6. left \in Seq(Entries) /\ Total(left) = Total(A) + c /\ LiveAll(left) = LiveAll(A) \cup LiveAll(k)
  BY <1>1, <1>5, ConcatThree, TotalConcat, LiveConcat
<1>7. Disjoint(left)
  <2>1. LiveAll(A) \cap LiveAll(k) = {} BY <1>1, <1>5
  <2>. QED BY <1>1, <1>5, <2>1, DisjointConcat
<1>8. LiveAll(left) \subseteq LiveAll(s) BY <1>1, <1>5, <1>6
<1>9. ASSUME NEW fl \in Flashes
      PROVE  /\ BytesOf(fl, first) \o BytesOfAll(fl, C) \in Seq(Byte)
             /\ BytesOfAll(fl, s) = BytesOfAll(fl, left) \o (BytesOf(fl, first) \o BytesOfAll(fl, C))
  <2>. DEFINE x == BytesOfAll(fl, A)
              y == BytesOfAll(fl, k)
              z == BytesOf(fl, first)
              w == BytesOfAll(fl, C)
  <2>1. x \in Seq(Byte) /\ y \in Seq(Byte) /\ z \in Seq(Byte) /\ w \in Seq(Byte)
    BY <1>1, <1>4, <1>5, BytesAll, BytesOfTyped
  <2>2. BytesOfAll(fl, left) = x \o y BY <1>1, <1>5, BytesConcat
  <2>3. BytesOfAll(fl, s) = x \o (y \o z) \o w BY <1>1, <1>5
  <2>. HIDE DEF x, y, z, w
  <2>4. x \o y \in Seq(Byte) /\ y \o z \in Seq(Byte) /\ z \o w \in Seq(Byte) BY <2>1, ConcatThree
  <2>5. Regroups(x, y, z, w) BY <2>1, Regroup
  <2>7. BytesOfAll(fl, s) = (x \o y) \o (z \o w) BY <2>3, <2>5 DEF Regroups
  <2>. QED BY <2>2, <2>4, <2>7 DEF z, w
<1>. QED BY <1>3, <1>6, <1>7, <1>8, <1>9 DEF A, C, e, k, first, left, IsLeft

(* What a rewrite leaves of the entry it ends in, and what it gives back. *)
Gone(x, u) ==
  IF Jump(x, u).sector = x.sector THEN Place(Null, x.off, u)
  ELSE Place(x.sector, x.off, u - (Jump(x, u).off - DataOff))

LEMMA GoneIs ==
  ASSUME NEW x \in Entries, Live(x) \subseteq Sectors, NEW u \in 1 .. x.size - 1
  PROVE  LET end == Jump(x, u)
             g   == Gone(x, u)
         IN  /\ end \in Entries /\ Live(end) \subseteq Live(x) /\ end.size = x.size - u
             /\ end.sector >= x.sector /\ end.sector \in Nat
             /\ \A t \in Live(end) : t \in Nat /\ t >= end.sector
             /\ \A fl : EndErased(fl, x) => EndErased(fl, end)
             /\ g.sector = Null => SectorsOf(g) = {}
             /\ g.sector # Null => /\ g \in Entries /\ g.sector = x.sector
                                   /\ end.sector > x.sector
                                   /\ Live(g) \subseteq Live(x) /\ SectorsOf(g) = Live(g)
                                   /\ \A t \in Live(g) : t \in Nat /\ t < end.sector
<1>. DEFINE end == Jump(x, u)
            g   == Gone(x, u)
            a   == Lin(x) + u
            d   == end.off - DataOff
<1>1. /\ x.sector \in Nat /\ x.sector \in Sectors /\ x.off \in Nat /\ x.size \in Nat
      /\ Lin(x) \in Nat /\ Sec(Lin(x)) = x.sector /\ x.off \in DataOff .. SectorSize - 1
  BY EntryFacts DEF Entries
<1>2. u \in 0 .. x.size - 1 /\ u \in Nat /\ u > 0 /\ a \in Nat BY <1>1
<1>3. /\ end \in Entries /\ Lin(end) = a /\ end.size = x.size - u /\ end.sector = Sec(a)
      /\ LastSec(end) = LastSec(x) /\ Live(end) \subseteq Live(x)
  BY <1>2, JumpIs
<1>4. g = IF end.sector = x.sector THEN Place(Null, x.off, u) ELSE Place(x.sector, x.off, u - d)
  BY DEF Gone
<1>. HIDE DEF end, g, a
<1>5. /\ end.sector \in Nat /\ Rem(a) = d /\ d \in 0 .. PerSector - 1 /\ end.size \in Nat
      /\ end.off \in Nat /\ LastSec(end) \in Nat
  BY <1>3, EntryFacts, LiveFacts
<1>6. end.sector >= x.sector BY <1>1, <1>2, <1>3, SecOrder DEF a
<1>7. \A t \in Live(end) : t \in Nat /\ t >= end.sector BY <1>5 DEF Live
<1>8. ASSUME NEW fl, EndErased(fl, x) PROVE EndErased(fl, end)
  <2>1. Lin(end) + end.size = Lin(x) + x.size BY <1>1, <1>3 DEF a
  <2>. QED BY <1>3, <1>8, <2>1 DEF EndErased
<1>9. ASSUME g.sector = Null PROVE SectorsOf(g) = {} BY <1>9 DEF SectorsOf
<1>10. ASSUME g.sector # Null
       PROVE  /\ g \in Entries /\ g.sector = x.sector /\ end.sector > x.sector
              /\ Live(g) \subseteq Live(x) /\ SectorsOf(g) = Live(g)
              /\ \A t \in Live(g) : t \in Nat /\ t < end.sector
  <2>1. end.sector # x.sector BY <1>4, <1>10 DEF Place
  <2>2. g = Place(x.sector, x.off, u - d) BY <1>4, <2>1
  <2>3. x.sector < end.sector BY <1>1, <1>5, <1>6, <2>1
  <2>4. a = Base(end.sector) + d /\ Base(end.sector) \in Nat /\ Base(x.sector) \in Nat
    BY <1>2, <1>3, <1>5, Division, BaseNat, <1>1
  <2>5. Base(x.sector) + PerSector <= Base(end.sector) BY <1>1, <1>5, <2>3, Bases
  <2>6. Lin(x) < Base(x.sector) + PerSector BY <1>1, InSector
  <2>7. u - d = Base(end.sector) - Lin(x) /\ u - d \in 1 .. x.size - 1
    BY <1>1, <1>2, <1>5, <2>4, <2>5, <2>6, SizesFacts DEF a
  <2>8. g.sector = x.sector /\ g.off = x.off /\ g.size = u - d BY <2>2 DEF Place
  <2>9. g \in Entries BY <1>1, <2>2, <2>7 DEF Place, Entries
  <2>10. Lin(g) = Lin(x) BY <2>8 DEF Lin
  <2>. DEFINE s == end.sector - 1
              r == PerSector - 1
  <2>11. s \in Nat /\ Base(s + 1) = Base(s) + PerSector /\ s + 1 = end.sector /\ r \in 0 .. PerSector - 1
         /\ Base(s) \in Nat
    <3>1. s \in Nat /\ s + 1 = end.sector /\ r \in 0 .. PerSector - 1
      BY <1>1, <1>5, <2>3, SizesFacts
    <3>. HIDE DEF s, r
    <3>. QED BY <3>1, Bases
  <2>12. Lin(g) + g.size - 1 = Base(s) + r BY <1>1, <2>4, <2>7, <2>8, <2>10, <2>11, SizesFacts
  <2>. HIDE DEF s, r
  <2>13. LastSec(g) = s BY <2>11, <2>12, AddressOf DEF LastSec
  <2>14. \A t \in Live(g) : t \in Nat /\ t < end.sector BY <1>1, <2>8, <2>11, <2>13 DEF Live
  <2>15. Live(g) \subseteq Live(x)
    <3>1. Sec(Lin(x) + u) \in Live(x) BY <1>2, LiveFacts
    <3>2. end.sector <= LastSec(x) /\ LastSec(x) \in Nat BY <1>3, <3>1, LiveFacts DEF Live, a
    <3>. QED BY <1>1, <2>8, <2>11, <2>13, <3>2 DEF Live
  <2>16. SectorsOf(g) = Live(g) BY <2>9, SectorsOfEntry
  <2>. QED BY <2>3, <2>8, <2>9, <2>14, <2>15, <2>16
<1>. QED BY <1>3, <1>5, <1>6, <1>7, <1>8, <1>9, <1>10 DEF end, g

-----------------------------------------------------------------------------
(* The bytes of a file and those of a write.                                *)
Written(c) ==
  /\ c \in Seq(Byte) /\ Len(c) <= MaxSize
  /\ \A p \in 1 .. Len(c) : c[p] \in {p - 1} \X Tags

NewBytes(c, pos, len) ==
  [k \in 1 .. len |-> <<pos + k - 1, IF pos + k <= Len(c) THEN 1 - c[pos + k][2] ELSE 0>>]

LEMMA BufferIs == \A pos, len : Buffer(pos, len) = NewBytes(Content, pos, len)
BY DEF Buffer, NewBytes

LEMMA NewByteTyped ==
  ASSUME NEW c, Written(c), NEW p \in 1 .. MaxSize
  PROVE  File!NewByte(c, p) \in {p - 1} \X Tags /\ File!NewByte(c, p) \in Byte
<1>1. c \in Seq(Byte) /\ \A k \in 1 .. Len(c) : c[k] \in {k - 1} \X Tags BY DEF Written
<1>2. ASSUME p <= Len(c) PROVE 1 - c[p][2] \in Tags
  <2>1. p \in 1 .. Len(c) BY <1>1, <1>2
  <2>2. c[p] \in {p - 1} \X Tags BY <1>1, <2>1
  <2>3. c[p][2] \in {0, 1} BY <2>2 DEF Tags
  <2>. QED BY <2>3 DEF Tags
<1>3. 0 \in Tags BY DEF Tags
<1>4. File!NewByte(c, p) \in {p - 1} \X Tags BY <1>2, <1>3 DEF File!NewByte
<1>5. p - 1 \in 0 .. MaxSize BY SizesFacts
<1>. QED BY <1>4, <1>5 DEF Byte

LEMMA NewBytesTyped ==
  ASSUME NEW c, Written(c), NEW pos \in 0 .. Len(c), NEW len \in Nat, pos + len <= MaxSize
  PROVE  /\ NewBytes(c, pos, len) \in Seq(Byte) /\ Len(NewBytes(c, pos, len)) = len
         /\ \A k \in 1 .. len : NewBytes(c, pos, len)[k] = File!NewByte(c, pos + k)
<1>. DEFINE z == NewBytes(c, pos, len)
<1>0. Len(c) \in Nat BY DEF Written
<1>1. z = [k \in 1 .. len |-> File!NewByte(c, pos + k)] BY DEF NewBytes, File!NewByte
<1>2. ASSUME NEW k \in 1 .. len PROVE File!NewByte(c, pos + k) \in Byte
  <2>1. pos + k \in 1 .. MaxSize BY <1>0, SizesFacts
  <2>. QED BY <2>1, NewByteTyped
<1>. HIDE DEF z
<1>3. z \in Seq(Byte) /\ Len(z) = len BY <1>1, <1>2
<1>4. \A k \in 1 .. len : z[k] = File!NewByte(c, pos + k) BY <1>1
<1>. QED BY <1>3, <1>4 DEF z

LEMMA OverlayWritten ==
  ASSUME NEW c, Written(c), NEW pos \in 0 .. Len(c), NEW len \in Nat \ {0}, pos + len <= MaxSize
  PROVE  LET d == File!Overlay(c, pos, len) IN
         Written(d) /\ Len(d) = IF pos + len > Len(c) THEN pos + len ELSE Len(c)
<1>. DEFINE n == IF pos + len > Len(c) THEN pos + len ELSE Len(c)
            d == File!Overlay(c, pos, len)
<1>0. c \in Seq(Byte) /\ Len(c) \in Nat /\ Len(c) <= MaxSize
      /\ \A p \in 1 .. Len(c) : c[p] \in {p - 1} \X Tags
  BY DEF Written
<1>1. d = [p \in 1 .. n |-> IF p \in pos + 1 .. pos + len THEN File!NewByte(c, p) ELSE c[p]]
  BY DEF File!Overlay
<1>2. n \in Nat /\ n <= MaxSize BY <1>0, SizesFacts
<1>. HIDE DEF d
<1>3. ASSUME NEW p \in 1 .. n
      PROVE  d[p] \in {p - 1} \X Tags /\ d[p] \in Byte
  <2>1. CASE p \in pos + 1 .. pos + len
    <3>1. p \in 1 .. MaxSize BY <1>2, SizesFacts
    <3>2. d[p] = File!NewByte(c, p) BY <1>1, <2>1
    <3>. QED BY <3>1, <3>2, NewByteTyped
  <2>2. CASE p \notin pos + 1 .. pos + len
    <3>1. p \in 1 .. Len(c) BY <1>0, <2>2
    <3>2. d[p] = c[p] BY <1>1, <2>2
    <3>3. c[p] \in {p - 1} \X Tags BY <1>0, <3>1
    <3>4. p - 1 \in 0 .. MaxSize BY <1>0, <3>1, SizesFacts
    <3>. QED BY <3>2, <3>3, <3>4 DEF Byte
  <2>. QED BY <2>1, <2>2
<1>. HIDE DEF n
<1>4. d \in Seq(Byte) /\ Len(d) = n
  <2>1. DOMAIN d = 1 .. n /\ d = [p \in 1 .. n |-> d[p]] BY <1>1
  <2>. QED BY <1>2, <1>3, <2>1
<1>5. Written(d) BY <1>2, <1>3, <1>4 DEF Written
<1>. QED BY <1>4, <1>5 DEF n, d

LEMMA Join ==
  ASSUME NEW s \in Seq(Byte), NEW t \in Seq(Byte)
  PROVE  /\ s \o t \in Seq(Byte) /\ Len(s \o t) = Len(s) + Len(t)
         /\ \A k \in 1 .. Len(s) : (s \o t)[k] = s[k]
         /\ \A k \in 1 .. Len(t) : (s \o t)[Len(s) + k] = t[k]
OBVIOUS

(* What a write keeps on the left and on the right, and what comes of it.   *)
Beside(c, pos, len, p, q) ==
  /\ p \in Seq(Byte) /\ q \in Seq(Byte) /\ Len(p) = pos
  /\ \A k \in 1 .. pos : c[k] = p[k]
  /\ Len(q) = IF pos + len > Len(c) THEN 0 ELSE Len(c) - (pos + len)
  /\ \A k \in 1 .. Len(q) : c[pos + len + k] = q[k]

Between(p, x, q) == p \o x \o q

LEMMA OverlayIs ==
  ASSUME NEW c, Written(c), NEW pos \in 0 .. Len(c), NEW len \in Nat \ {0}, pos + len <= MaxSize,
         NEW p, NEW q, Beside(c, pos, len, p, q)
  PROVE  Between(p, NewBytes(c, pos, len), q) = File!Overlay(c, pos, len)
<1>. DEFINE n == IF pos + len > Len(c) THEN pos + len ELSE Len(c)
            d == File!Overlay(c, pos, len)
            x == NewBytes(c, pos, len)
            r == p \o x
            s == r \o q
<1>b. /\ p \in Seq(Byte) /\ q \in Seq(Byte) /\ Len(p) = pos
      /\ \A k \in 1 .. pos : c[k] = p[k]
      /\ Len(q) = IF pos + len > Len(c) THEN 0 ELSE Len(c) - (pos + len)
      /\ \A k \in 1 .. Len(q) : c[pos + len + k] = q[k]
  BY DEF Beside
<1>0. Len(c) \in Nat /\ Len(q) \in Nat BY <1>b DEF Written
<1>1. d = [k \in 1 .. n |-> IF k \in pos + 1 .. pos + len THEN File!NewByte(c, k) ELSE c[k]]
  BY DEF File!Overlay
<1>2. x \in Seq(Byte) /\ Len(x) = len /\ \A k \in 1 .. len : x[k] = File!NewByte(c, pos + k)
  BY NewBytesTyped
<1>. HIDE DEF d, x
<1>3. /\ r \in Seq(Byte) /\ Len(r) = pos + len
      /\ \A k \in 1 .. pos : r[k] = p[k]
      /\ \A k \in 1 .. len : r[pos + k] = x[k]
  <2>1. /\ r \in Seq(Byte) /\ Len(r) = Len(p) + Len(x)
        /\ \A k \in 1 .. Len(p) : r[k] = p[k]
        /\ \A k \in 1 .. Len(x) : r[Len(p) + k] = x[k]
    BY <1>b, <1>2, Join
  <2>. HIDE DEF r
  <2>. QED BY <1>b, <1>2, <2>1
<1>. HIDE DEF r
<1>4. /\ s \in Seq(Byte) /\ Len(s) = pos + len + Len(q)
      /\ \A k \in 1 .. pos + len : s[k] = r[k]
      /\ \A k \in 1 .. Len(q) : s[pos + len + k] = q[k]
  <2>1. /\ s \in Seq(Byte) /\ Len(s) = Len(r) + Len(q)
        /\ \A k \in 1 .. Len(r) : s[k] = r[k]
        /\ \A k \in 1 .. Len(q) : s[Len(r) + k] = q[k]
    BY <1>b, <1>3, Join
  <2>. HIDE DEF s
  <2>. QED BY <1>3, <2>1
<1>. HIDE DEF s
<1>5. Len(s) = n
  <2>. DEFINE lc == Len(c)
              lq == Len(q)
              a  == pos + len
  <2>1. lc \in Nat /\ lq = (IF a > lc THEN 0 ELSE lc - a) /\ n = (IF a > lc THEN a ELSE lc) /\ a \in Nat
    BY <1>b, <1>0
  <2>2. Len(s) = a + lq BY <1>4
  <2>. HIDE DEF lc, lq, a, n
  <2>3. a + lq = n BY <2>1
  <2>. QED BY <2>2, <2>3
<1>6. ASSUME NEW k \in 1 .. n PROVE s[k] = d[k]
  <2>1. CASE k <= pos
    <3>1. k \in 1 .. pos /\ k \in 1 .. pos + len /\ k \notin pos + 1 .. pos + len BY <2>1
    <3>2. s[k] = c[k] BY <1>b, <1>3, <1>4, <3>1
    <3>. QED BY <1>1, <3>1, <3>2
  <2>2. CASE k > pos /\ k <= pos + len
    <3>. DEFINE l == k - pos
    <3>1. l \in 1 .. len /\ pos + l = k /\ k \in 1 .. pos + len /\ k \in pos + 1 .. pos + len
      BY <2>2
    <3>. HIDE DEF l
    <3>2. s[k] = r[pos + l] BY <1>4, <3>1
    <3>3. r[pos + l] = x[l] BY <1>3, <3>1
    <3>4. x[l] = File!NewByte(c, k) BY <1>2, <3>1
    <3>. QED BY <1>1, <3>1, <3>2, <3>3, <3>4
  <2>3. CASE k > pos + len
    <3>. DEFINE l == k - (pos + len)
    <3>1. l \in 1 .. Len(q) /\ pos + len + l = k /\ k \notin pos + 1 .. pos + len
      BY <1>b, <1>0, <1>5, <2>3 DEF n
    <3>. HIDE DEF l
    <3>2. s[pos + len + l] = q[l] BY <1>4, <3>1
    <3>3. c[pos + len + l] = q[l] BY <1>b, <3>1
    <3>. QED BY <1>1, <3>1, <3>2, <3>3
  <2>. QED BY <2>1, <2>2, <2>3
<1>7. s = d
  <2>1. DOMAIN s = 1 .. n /\ s = [k \in 1 .. n |-> s[k]] BY <1>4, <1>5
  <2>2. d = [k \in 1 .. n |-> d[k]] BY <1>1
  <2>. HIDE DEF n
  <2>. QED BY <1>6, <2>1, <2>2
<1>. QED BY <1>7, Zenon DEF s, r, d, x, Between

-----------------------------------------------------------------------------
(* The operations that put a new run into the index.                        *)
LEMMA PlacedBack ==
  ASSUME NEW m \in Memories, NEW n \in Nat \ {0}, NEW bytes \in Seq(Byte), Len(bytes) = n,
         NEW b \in Runs(m, CeilDiv(n, PerSector)),
         NEW old, NEW left, NEW right, Keeps(m, OldOf(old), left, right)
  PROVE  Renewed(m, [GivenBack(Programmed(Alloc(m, b, CeilDiv(n, PerSector)), b, DataOff, bytes), old)
                       EXCEPT !.index = left \o <<Place(b, DataOff, n)>> \o right],
                 left, Place(b, DataOff, n), right, bytes)
<1>. DEFINE u == Programmed(Alloc(m, b, CeilDiv(n, PerSector)), b, DataOff, bytes)
            v == GivenBack(u, old)
            G == OldOf(old)
<1>1. u \in Memories BY NewRun
<1>2. /\ v \in Memories /\ v.taken = u.taken \ G /\ \A t \in Sectors \ G : v.flash[t] = u.flash[t]
  BY <1>1, GivenBackIs
<1>3. u = Programmed(Alloc(m, b, CeilDiv(n, PerSector)), b, DataOff, bytes) OBVIOUS
<1>. HIDE DEF u, v, G
<1>4. Keeps(m, G, left, right) BY DEF G
<1>5. Renewed(m, [v EXCEPT !.index = left \o <<Place(b, DataOff, n)>> \o right],
              left, Place(b, DataOff, n), right, bytes)
  BY <1>2, <1>3, <1>4, Placed
<1>. QED BY <1>5 DEF u, v

LEMMA PlacedOnly ==
  ASSUME NEW m \in Memories, NEW n \in Nat \ {0}, NEW bytes \in Seq(Byte), Len(bytes) = n,
         NEW b \in Runs(m, CeilDiv(n, PerSector)),
         NEW left, NEW right, Keeps(m, {}, left, right)
  PROVE  Renewed(m, [Programmed(Alloc(m, b, CeilDiv(n, PerSector)), b, DataOff, bytes)
                       EXCEPT !.index = left \o <<Place(b, DataOff, n)>> \o right],
                 left, Place(b, DataOff, n), right, bytes)
<1>. DEFINE u == Programmed(Alloc(m, b, CeilDiv(n, PerSector)), b, DataOff, bytes)
            G == {}
<1>1. u \in Memories BY NewRun
<1>2. u.taken = u.taken \ G /\ \A t \in Sectors \ G : u.flash[t] = u.flash[t] OBVIOUS
<1>3. u = Programmed(Alloc(m, b, CeilDiv(n, PerSector)), b, DataOff, bytes) OBVIOUS
<1>. HIDE DEF u, G
<1>4. Keeps(m, G, left, right) BY DEF G
<1>5. Renewed(m, [u EXCEPT !.index = left \o <<Place(b, DataOff, n)>> \o right],
              left, Place(b, DataOff, n), right, bytes)
  BY <1>1, <1>2, <1>3, <1>4, Placed
<1>. QED BY <1>5 DEF u

LEMMA OldOfEntries ==
  ASSUME NEW s \in Seq(Entries)
  PROVE  OldOf(s) = LiveAll(s)
<1>1. \A i \in DOMAIN s : SectorsOf(s[i]) = Live(s[i]) BY SectorsOfEntry
<1>. QED BY <1>1 DEF OldOf, LiveAll

LEMMA OldOfConcat ==
  ASSUME NEW S, NEW s \in Seq(S), NEW t \in Seq(S)
  PROVE  OldOf(s \o t) = OldOf(s) \cup OldOf(t)
<1>. DEFINE r == s \o t
<1>1. /\ \A i \in DOMAIN s : i \in DOMAIN r /\ r[i] = s[i]
      /\ \A i \in DOMAIN t : Len(s) + i \in DOMAIN r /\ r[Len(s) + i] = t[i]
      /\ \A k \in DOMAIN r : k \in DOMAIN s \/ \E i \in DOMAIN t : k = Len(s) + i
  BY ConcatAt
<1>. HIDE DEF r
<1>2. ASSUME NEW x \in OldOf(r) PROVE x \in OldOf(s) \cup OldOf(t)
  <2>1. PICK k \in DOMAIN r : x \in SectorsOf(r[k]) BY DEF OldOf
  <2>2. CASE k \in DOMAIN s BY <1>1, <2>1, <2>2 DEF OldOf
  <2>3. ASSUME NEW i \in DOMAIN t, k = Len(s) + i PROVE x \in OldOf(t)
    BY <1>1, <2>1, <2>3 DEF OldOf
  <2>. QED BY <1>1, <2>2, <2>3
<1>3. ASSUME NEW i \in DOMAIN s, NEW x \in SectorsOf(s[i]) PROVE x \in OldOf(r)
  BY <1>1 DEF OldOf
<1>4. ASSUME NEW i \in DOMAIN t, NEW x \in SectorsOf(t[i]) PROVE x \in OldOf(r)
  BY <1>1 DEF OldOf
<1>5. OldOf(s) \subseteq OldOf(r) /\ OldOf(t) \subseteq OldOf(r)
  BY <1>3, <1>4 DEF OldOf
<1>. QED BY <1>2, <1>5 DEF r

LEMMA OldOfOne == \A e : OldOf(<<e>>) = SectorsOf(e)
<1>. TAKE e
<1>1. DOMAIN <<e>> = {1} /\ <<e>>[1] = e OBVIOUS
<1>. QED BY <1>1 DEF OldOf

(* What an operation leaves, and the bytes the file then has. *)
Leaves(m, c) ==
  /\ Good(m) /\ m.index # <<>> /\ Len(m.index) <= IndexMax
  /\ BytesOfAll(m.flash, m.index) = c

Three(z, n) == z \in Seq(Entries) /\ z # <<>> /\ Len(z) = n

LEMMA ThreeLong ==
  ASSUME NEW left \in Seq(Entries), NEW e \in Entries, NEW right \in Seq(Entries)
  PROVE  Three(left \o <<e>> \o right, Len(left) + 1 + Len(right))
<1>1. <<e>> \in Seq(Entries) /\ Len(<<e>>) = 1 OBVIOUS
<1>2. Len(left \o <<e>>) = Len(left) + 1 /\ left \o <<e>> \in Seq(Entries) OBVIOUS
<1>. DEFINE q == left \o <<e>>
<1>. HIDE DEF q
<1>3. q \in Seq(Entries) /\ Len(q) = Len(left) + 1 BY <1>2 DEF q
<1>4. Len(q \o right) = Len(q) + Len(right) /\ q \o right \in Seq(Entries) /\ q \o right # <<>>
  BY <1>3
<1>. DEFINE r == q \o right
<1>5. r \in Seq(Entries) /\ r # <<>> /\ Len(r) = Len(q) + Len(right) BY <1>4
<1>. HIDE DEF r
<1>6. Len(r) = Len(left) + 1 + Len(right) BY <1>3, <1>5
<1>7. Three(r, Len(left) + 1 + Len(right)) BY <1>5, <1>6 DEF Three
<1>. QED BY <1>7, Zenon DEF r, q

LEMMA RenewedLeaves ==
  ASSUME NEW m, NEW w, NEW left \in Seq(Entries), NEW e \in Entries, NEW right \in Seq(Entries),
         NEW bytes, Renewed(m, w, left, e, right, bytes), Len(left) + 1 + Len(right) <= IndexMax,
         NEW c, c = BytesOfAll(m.flash, left) \o bytes \o BytesOfAll(m.flash, right)
  PROVE  Leaves(w, c)
<1>1. Good(w) /\ w.index = left \o <<e>> \o right /\ BytesOfAll(w.flash, w.index) = c BY DEF Renewed
<1>2. Three(w.index, Len(left) + 1 + Len(right)) BY <1>1, ThreeLong, Zenon
<1>3. w.index # <<>> /\ Len(w.index) = Len(left) + 1 + Len(right) BY <1>2, Zenon DEF Three
<1>. QED BY <1>1, <1>3, Zenon DEF Leaves

(* bfile_part_gc. *)
LEMMA MergedLeaves ==
  ASSUME Good(Memory), Len(index) <= IndexMax,
         NEW i \in DOMAIN index, NEW j \in DOMAIN index, i < j,
         NEW b \in Runs(Memory, CeilDiv(Total(SubSeq(index, i, j)), PerSector))
  PROVE  Leaves(Merged(i, j, b), BytesOfAll(flash, index))
<1>. DEFINE A == SubSeq(index, 1, i - 1)
            X == SubSeq(index, i, j)
            C == SubSeq(index, j + 1, Len(index))
            n == Total(X)
            bytes == BytesOfAll(flash, X)
            m == Memory
            w == [GivenBack(Programmed(Alloc(m, b, CeilDiv(n, PerSector)), b, DataOff, bytes), X)
                   EXCEPT !.index = A \o <<Place(b, DataOff, n)>> \o C]
<1>1. m.flash = flash /\ m.taken = taken /\ m.index = index BY DEF Memory
<1>2. m \in Memories /\ LiveAll(index) \subseteq taken /\ Disjoint(index) /\ LastErased(flash, index)
  BY <1>1 DEF Good
<1>3. flash \in Flashes /\ index \in Seq(Entries) /\ taken \subseteq Sectors
  BY <1>1, <1>2 DEF Memories
<1>4. Merged(i, j, b) = w BY DEF Merged
<1>5. i \in 1 .. Len(index) + 1 /\ j \in Nat /\ i <= j + 1 /\ j <= Len(index) /\ i \in Nat
      /\ Len(index) \in Nat
  BY <1>3
<1>6. /\ A \in Seq(Entries) /\ X \in Seq(Entries) /\ C \in Seq(Entries) /\ index = A \o X \o C
      /\ Len(A) = i - 1 /\ Len(X) = j - i + 1 /\ Len(C) = Len(index) - j
  <2>. DEFINE s == index
  <2>1. s \in Seq(Entries) /\ i \in 1 .. Len(s) + 1 /\ j \in Nat /\ i <= j + 1 /\ j <= Len(s)
    BY <1>3, <1>5
  <2>. HIDE DEF s
  <2>2. Splits(Entries, s, i, j) BY <2>1, SplitsIs
  <2>. QED BY <2>2, Zenon DEF s, Splits
<1>7. b \in Runs(m, CeilDiv(n, PerSector)) OBVIOUS
<1>. HIDE DEF A, X, C, m
<1>8. /\ LiveAll(A \o X) = LiveAll(A) \cup LiveAll(X) /\ A \o X \in Seq(Entries)
      /\ Disjoint(A \o X) <=> (Disjoint(A) /\ Disjoint(X) /\ LiveAll(A) \cap LiveAll(X) = {})
  BY <1>6, LiveConcat, DisjointConcat, ConcatThree
<1>. DEFINE AX == A \o X
<1>9. AX \in Seq(Entries) /\ index = AX \o C BY <1>6, <1>8
<1>. HIDE DEF AX
<1>10. /\ LiveAll(index) = LiveAll(AX) \cup LiveAll(C)
       /\ Disjoint(index) <=> (Disjoint(AX) /\ Disjoint(C) /\ LiveAll(AX) \cap LiveAll(C) = {})
  BY <1>6, <1>9, LiveConcat, DisjointConcat
<1>11. /\ Disjoint(A) /\ Disjoint(C) /\ LiveAll(A) \cap LiveAll(X) = {}
       /\ LiveAll(A) \cap LiveAll(C) = {} /\ LiveAll(X) \cap LiveAll(C) = {}
       /\ LiveAll(A) \subseteq taken /\ LiveAll(X) \subseteq taken /\ LiveAll(C) \subseteq taken
  BY <1>2, <1>8, <1>10 DEF AX
<1>12. OldOf(X) = LiveAll(X) BY <1>6, OldOfEntries
<1>13. LastErased(flash, C)
  <2>1. SUFFICES ASSUME C # <<>> PROVE EndErased(flash, C[Len(C)]) BY DEF LastErased
  <2>2. index # <<>> /\ index[Len(index)] = C[Len(C)] BY <1>6, <1>9, <2>1, LastOfConcat
  <2>. QED BY <1>2, <2>2 DEF LastErased
<1>14. Keeps(m, OldOf(X), A, C)
  BY <1>1, <1>6, <1>11, <1>12, <1>13 DEF Keeps, m
<1>15. n \in Nat \ {0} /\ bytes \in Seq(Byte) /\ Len(bytes) = n
  <2>1. n \in Nat /\ bytes \in Seq(Byte) /\ Len(bytes) = n BY <1>3, <1>6, BytesAll
  <2>2. 1 \in DOMAIN X BY <1>5, <1>6
  <2>3. X[1].size \in Nat /\ X[1].size > 0 /\ StartOf(X, 1) \in Nat
        /\ StartOf(X, 1) + X[1].size <= n
    BY <1>6, <2>2, StartFacts
  <2>. QED BY <2>1, <2>3
<1>. HIDE DEF n, bytes
<1>. DEFINE e == Place(b, DataOff, n)
<1>16. Renewed(m, w, A, e, C, bytes) BY <1>2, <1>7, <1>14, <1>15, PlacedBack
<1>17. e \in Entries BY <1>2, <1>7, <1>15, NewRun
<1>18. Len(A) + 1 + Len(C) <= IndexMax
  <2>. DEFINE la == Len(A)
              lc == Len(C)
              ln == Len(index)
  <2>1. la = i - 1 /\ lc = ln - j /\ ln \in Nat /\ i \in Nat /\ j \in Nat /\ i <= j
        /\ ln <= IndexMax /\ IndexMax \in Nat
    BY <1>5, <1>6, IndexAssumption
  <2>. HIDE DEF la, lc, ln
  <2>2. la + 1 + lc <= IndexMax BY <2>1
  <2>. QED BY <2>2 DEF la, lc
<1>19. BytesOfAll(flash, index) = BytesOfAll(flash, A) \o bytes \o BytesOfAll(flash, C)
  <2>1. BytesOfAll(flash, AX) = BytesOfAll(flash, A) \o bytes BY <1>3, <1>6, BytesConcat DEF AX, bytes
  <2>2. BytesOfAll(flash, AX \o C) = BytesOfAll(flash, AX) \o BytesOfAll(flash, C)
    BY <1>3, <1>6, <1>9, BytesConcat
  <2>. QED BY <1>9, <2>1, <2>2
<1>. HIDE DEF w, e
<1>20. Leaves(w, BytesOfAll(flash, index))
  <2>. DEFINE c == BytesOfAll(flash, index)
  <2>1. c = BytesOfAll(m.flash, A) \o bytes \o BytesOfAll(m.flash, C) BY <1>1, <1>19 DEF m
  <2>. HIDE DEF c
  <2>2. Leaves(w, c) BY <1>6, <1>16, <1>17, <1>18, <2>1, RenewedLeaves
  <2>. QED BY <2>2 DEF c
<1>. QED BY <1>4, <1>20

(* bfile_gc. *)
LEMMA BestIs ==
  ASSUME index \in Seq(Entries), Mergeable # {}
  PROVE  Best \in Mergeable
<1>. DEFINE n == Len(index)
            M == Mergeable
            S(p) == n - (p[2] - p[1])
            X == {S(p) : p \in M}
<1>0. n \in Nat OBVIOUS
<1>1. \A p \in M : p[1] \in 1 .. n /\ p[2] \in 1 .. n /\ p[1] < p[2]
  BY DEF Mergeable, Candidates
<1>. HIDE DEF n, M
<1>2. \A p \in M : S(p) \in Nat BY <1>0, <1>1
<1>3. X \in SUBSET Nat /\ X # {} BY <1>2 DEF M
<1>4. PICK x \in X : \A y \in X : x <= y BY <1>3, Smallest
<1>. DEFINE Y == {p[1] : p \in {q \in M : S(q) = x}}
<1>5. \A p \in M : x <= S(p) BY <1>4
<1>6. Y \in SUBSET Nat /\ Y # {}
  <2>1. \A p \in M : p[1] \in Nat BY <1>0, <1>1
  <2>2. Y \subseteq Nat BY <2>1
  <2>3. PICK p \in M : x = S(p) BY <1>4
  <2>4. p[1] \in Y BY <2>3
  <2>. QED BY <2>2, <2>4
<1>7. PICK z \in Y : \A y \in Y : z <= y BY <1>6, Smallest
<1>8. PICK p \in M : S(p) = x /\ p[1] = z BY <1>7
<1>9. \A q \in M : S(q) = x => z <= q[1] BY <1>7
<1>10. \A q \in M : \/ q[2] - q[1] < p[2] - p[1]
                    \/ q[2] - q[1] = p[2] - p[1] /\ q[1] >= p[1]
  <2>. TAKE q \in M
  <2>1. /\ p[1] \in Int /\ p[2] \in Int /\ q[1] \in Int /\ q[2] \in Int
    BY <1>0, <1>1
  <2>2. S(p) <= S(q) /\ (S(q) = S(p) => p[1] <= q[1]) BY <1>5, <1>8, <1>9
  <2>. DEFINE a == p[1]
              b == p[2]
              c == q[1]
              d == q[2]
  <2>3. a \in Int /\ b \in Int /\ c \in Int /\ d \in Int /\ n - (b - a) <= n - (d - c)
        /\ (n - (d - c) = n - (b - a) => a <= c)
    BY <2>1, <2>2
  <2>. HIDE DEF a, b, c, d
  <2>4. d - c < b - a \/ (d - c = b - a /\ c >= a) BY <1>0, <2>3
  <2>. QED BY <2>4 DEF a, b, c, d
<1>. QED BY <1>8, <1>10 DEF Best, M

LEMMA CollectedLeaves ==
  ASSUME Good(Memory), index # <<>>, Len(index) <= IndexMax, NEW m \in Collected
  PROVE  Leaves(m, BytesOfAll(flash, index))
<1>1. Memory.index = index /\ Memory.flash = flash BY DEF Memory
<1>2. Leaves(Memory, BytesOfAll(flash, index)) BY <1>1 DEF Leaves
<1>3. CASE m = Memory BY <1>2, <1>3
<1>4. CASE m # Memory
  <2>. DEFINE i == Best[1]
              j == Best[2]
              num == CeilDiv(Total(SubSeq(index, i, j)), PerSector)
  <2>1. Mergeable # {} /\ \E b \in Runs(Memory, num) : m = Merged(i, j, b)
    BY <1>4 DEF Collected
  <2>2. index \in Seq(Entries) BY <1>1 DEF Good, Memories
  <2>3. i \in DOMAIN index /\ j \in DOMAIN index /\ i < j
    <3>1. Best \in Mergeable BY <2>1, <2>2, BestIs
    <3>. QED BY <3>1 DEF Mergeable, Candidates
  <2>4. PICK b \in Runs(Memory, num) : m = Merged(i, j, b) BY <2>1
  <2>. DEFINE p == i
              q == j
  <2>5. p \in DOMAIN index /\ q \in DOMAIN index /\ p < q /\ m = Merged(p, q, b)
        /\ b \in Runs(Memory, CeilDiv(Total(SubSeq(index, p, q)), PerSector))
    BY <2>3, <2>4
  <2>. HIDE DEF p, q
  <2>. QED BY <2>5, MergedLeaves
<1>. QED BY <1>3, <1>4

-----------------------------------------------------------------------------
(* The invariant.                                                           *)
Inv ==
  /\ Good(Memory) /\ Len(index) <= IndexMax
  /\ data \in Seq(Byte) /\ Len(data) <= Threshold
  /\ Written(Content) /\ size = Len(Content)
  /\ fault \in BOOLEAN

LEMMA InvFacts ==
  ASSUME Inv
  PROVE  /\ flash \in Flashes /\ taken \subseteq Sectors /\ index \in Seq(Entries)
         /\ LiveAll(index) \subseteq taken /\ Disjoint(index) /\ LastErased(flash, index)
         /\ Memory \in Memories /\ Memory.flash = flash /\ Memory.taken = taken
         /\ Memory.index = index
         /\ Content \in Seq(Byte) /\ Len(Content) \in Nat /\ Len(Content) <= MaxSize
         /\ size \in 0 .. MaxSize /\ (index = <<>> => Content = data)
         /\ (index # <<>> => Content = BytesOfAll(flash, index) /\ size = Total(index))
<1>1. Memory.flash = flash /\ Memory.taken = taken /\ Memory.index = index BY DEF Memory
<1>2. Memory \in Memories /\ LiveAll(index) \subseteq taken /\ Disjoint(index)
      /\ LastErased(flash, index)
  BY <1>1 DEF Good, Inv
<1>3. flash \in Flashes /\ taken \subseteq Sectors /\ index \in Seq(Entries)
  BY <1>1, <1>2 DEF Memories
<1>4. Content \in Seq(Byte) /\ Len(Content) <= MaxSize /\ size = Len(Content) BY DEF Inv, Written
<1>5. Len(Content) \in Nat BY <1>4
<1>6. size \in 0 .. MaxSize BY <1>4, <1>5, SizesFacts
<1>7. index = <<>> => Content = data BY DEF Content
<1>8. index # <<>> => Content = BytesOfAll(flash, index) BY DEF Content
<1>9. Len(BytesOfAll(flash, index)) = Total(index) BY <1>3, BytesAll
<1>. QED BY <1>1, <1>2, <1>3, <1>4, <1>5, <1>6, <1>7, <1>8, <1>9

LEMMA InvInit == Init => Inv /\ Content = <<>>
<1>1. SUFFICES ASSUME Init PROVE Inv /\ Content = <<>> OBVIOUS
<1>2. flash = [s \in Sectors |-> Blank] /\ taken = {} /\ data = <<>> /\ index = <<>> /\ size = 0
      /\ fault = FALSE
  BY <1>1 DEF Init
<1>3. Content = <<>> BY <1>2 DEF Content
<1>4. Blank \in [0 .. SectorSize - 1 -> Byte] BY DEF Blank, Byte
<1>5. flash \in Flashes BY <1>2, <1>4 DEF Flashes
<1>6. Memory \in Memories /\ Memory.index = <<>> BY <1>2, <1>5 DEF Memory, Memories
<1>7. LiveAll(<<>>) = {} /\ Disjoint(<<>>) BY LiveEmpty
<1>8. Good(Memory) BY <1>6, <1>7 DEF Good, LastErased
<1>9. Len(<<>>) = 0 /\ <<>> \in Seq(Byte) OBVIOUS
<1>10. Written(<<>>) BY <1>9, SizesFacts DEF Written
<1>11. Len(index) <= IndexMax /\ Len(data) <= Threshold BY <1>2, <1>9, SizesFacts
<1>. QED BY <1>2, <1>3, <1>8, <1>9, <1>10, <1>11 DEF Inv

LEMMA Became ==
  ASSUME Inv, NEW m, NEW c, Leaves(m, c), Become(m), Written(c), size' = Len(c),
         data' \in Seq(Byte), Len(data') <= Threshold, fault' = fault
  PROVE  Inv' /\ Content' = c
<1>1. Good(m) /\ m.index # <<>> /\ Len(m.index) <= IndexMax /\ BytesOfAll(m.flash, m.index) = c
  BY DEF Leaves
<1>2. /\ Good([flash |-> flash', taken |-> taken', index |-> index'])
      /\ index' = m.index /\ BytesOfAll(flash', index') = BytesOfAll(m.flash, m.index)
  BY <1>1, BecomeIs
<1>3. Good(Memory)' BY <1>2 DEF Memory
<1>4. index' # <<>> /\ Len(index') <= IndexMax /\ BytesOfAll(flash', index') = c BY <1>1, <1>2
<1>5. Content' = c BY <1>4 DEF Content
<1>6. fault' \in BOOLEAN BY DEF Inv
<1>. QED BY <1>3, <1>4, <1>5, <1>6 DEF Inv

(* What the file becomes. *)
Allowed(c, d) ==
  \/ \E pos \in 0 .. Len(c) : \E len \in 1 .. MaxSize - pos : d = File!Overlay(c, pos, len)
  \/ d = <<>>
  \/ d = c

LEMMA Overlaid ==
  ASSUME NEW c, Written(c), NEW pos \in 0 .. Len(c), NEW len \in Nat \ {0}, pos + len <= MaxSize
  PROVE  Allowed(c, File!Overlay(c, pos, len))
<1>1. Len(c) \in Nat BY DEF Written
<1>2. len \in 1 .. MaxSize - pos BY <1>1, SizesFacts
<1>. QED BY <1>2 DEF Allowed

LEMMA Stopped ==
  ASSUME Inv, Stop
  PROVE  Inv' /\ Content' = Content
BY DEF Stop, Inv, Content, Memory

LEMMA SmallWriteIs ==
  ASSUME Inv, NEW pos \in 0 .. Len(Content), NEW len \in Nat \ {0}, pos + len <= MaxSize,
         SmallWrite(pos, len)
  PROVE  Inv' /\ Content' = File!Overlay(Content, pos, len)
<1>. DEFINE c == Content
            n == IF pos + len > Len(c) THEN pos + len ELSE Len(c)
            d == File!Overlay(c, pos, len)
<1>1. /\ index = <<>> /\ pos + len <= Threshold
      /\ data' = [p \in 1 .. (IF pos + len > size THEN pos + len ELSE size) |->
                    IF p \in pos + 1 .. pos + len THEN Buffer(pos, len)[p - pos] ELSE data[p]]
      /\ size' = Len(data')
      /\ flash' = flash /\ taken' = taken /\ index' = index /\ fault' = fault
  BY DEF SmallWrite
<1>2. c = data /\ size = Len(c) /\ Len(c) \in Nat /\ Written(c) BY <1>1, InvFacts DEF Inv
<1>3. Buffer(pos, len) = NewBytes(c, pos, len) BY BufferIs
<1>4. \A k \in 1 .. len : NewBytes(c, pos, len)[k] = File!NewByte(c, pos + k)
  BY <1>2, NewBytesTyped
<1>5. d = [p \in 1 .. n |-> IF p \in pos + 1 .. pos + len THEN File!NewByte(c, p) ELSE c[p]]
  BY DEF File!Overlay
<1>6. Written(d) /\ Len(d) = n BY <1>2, OverlayWritten
<1>. HIDE DEF c, d
<1>7. data' = [p \in 1 .. n |-> IF p \in pos + 1 .. pos + len THEN NewBytes(c, pos, len)[p - pos]
                                ELSE c[p]]
  BY <1>1, <1>2, <1>3
<1>8. ASSUME NEW p \in 1 .. n, p \in pos + 1 .. pos + len
      PROVE  NewBytes(c, pos, len)[p - pos] = File!NewByte(c, p)
  <2>. DEFINE k == p - pos
  <2>1. k \in 1 .. len /\ pos + k = p BY <1>2, <1>8
  <2>. HIDE DEF k
  <2>2. NewBytes(c, pos, len)[k] = File!NewByte(c, p) BY <1>4, <2>1
  <2>. QED BY <2>2 DEF k
<1>. HIDE DEF n
<1>9. data' = d BY <1>5, <1>7, <1>8
<1>10. index' = <<>> BY <1>1
<1>11. Content' = d BY <1>9, <1>10 DEF Content
<1>12. Len(data') <= Threshold
  <2>1. Len(c) <= Threshold BY <1>2 DEF Inv
  <2>2. n <= Threshold BY <1>1, <2>1 DEF n
  <2>. QED BY <1>6, <1>9, <2>2
<1>13. Memory' = Memory BY <1>1 DEF Memory
<1>14. d \in Seq(Byte) BY <1>6 DEF Written
<1>15. Inv' BY <1>1, <1>6, <1>9, <1>11, <1>12, <1>13, <1>14 DEF Inv
<1>. QED BY <1>11, <1>15 DEF c, d

LEMMA Alone ==
  ASSUME NEW e \in Entries
  PROVE  <<>> \o <<e>> \o <<>> = <<e>>
<1>. DEFINE o == <<e>>
<1>1. o \in Seq(Entries) /\ <<>> \in Seq(Entries) OBVIOUS
<1>. HIDE DEF o
<1>2. <<>> \o o = o /\ o \o <<>> = o BY <1>1, ConcatThree
<1>3. (<<>> \o o) \o <<>> = o BY <1>2, Zenon
<1>. QED BY <1>3 DEF o

LEMMA SmallToBigIs ==
  ASSUME Inv, NEW pos \in 0 .. Len(Content), NEW len \in Nat \ {0}, pos + len <= MaxSize,
         SmallToBig(pos, len)
  PROVE  Inv' /\ Allowed(Content, Content')
<1>. DEFINE n == pos + len
            num == CeilDiv(n, PerSector)
            c == Content
            bytes == Grown(pos, len)
            d == File!Overlay(c, pos, len)
<1>1. index = <<>> /\ n > Threshold BY DEF SmallToBig
<1>2. c = data /\ size = Len(c) /\ Len(c) \in Nat /\ Written(c) /\ c \in Seq(Byte)
      /\ Memory \in Memories /\ Memory.index = <<>> /\ Memory.flash = flash /\ Len(c) <= Threshold
  BY <1>1, InvFacts DEF Inv
<1>3. CASE Stop
  <2>1. Inv' /\ Content' = Content BY <1>3, Stopped
  <2>. QED BY <2>1 DEF Allowed
<1>4. CASE ~ Stop
  <2>1. PICK b \in Runs(Memory, num) :
          Become([Programmed(Alloc(Memory, b, num), b, DataOff, bytes)
                     EXCEPT !.index = <<Place(b, DataOff, n)>>])
    BY <1>4 DEF SmallToBig
  <2>2. data' = <<>> /\ size' = n /\ fault' = fault BY <1>4 DEF SmallToBig
  <2>. DEFINE p == SubSeq(c, 1, pos)
              q == <<>>
              x == NewBytes(c, pos, len)
  <2>3. Buffer(pos, len) = x BY BufferIs
  <2>4. bytes = p \o x BY <1>2, <2>3 DEF Grown
  <2>5. x \in Seq(Byte) /\ Len(x) = len BY <1>2, NewBytesTyped
  <2>. HIDE DEF c
  <2>6. p \in Seq(Byte) /\ Len(p) = pos /\ \A k \in 1 .. pos : c[k] = p[k]
    <3>1. pos \in Nat /\ pos <= Len(c) BY <1>2 DEF c
    <3>. QED BY <1>2, <3>1
  <2>7. q \in Seq(Byte) /\ Len(q) = 0 OBVIOUS
  <2>8. Len(q) = IF n > Len(c) THEN 0 ELSE Len(c) - n BY <1>1, <1>2, <2>7, SizesFacts
  <2>9. \A k \in 1 .. Len(q) : c[pos + len + k] = q[k] BY <2>7
  <2>. HIDE DEF p, q, x, d, bytes
  <2>10. p \o x \o q = d
    <3>1. pos \in 0 .. Len(c) BY DEF c
    <3>2. Beside(c, pos, len, p, q) BY <2>6, <2>7, <2>8, <2>9 DEF Beside
    <3>3. Between(p, x, q) = d BY <1>2, <3>1, <3>2, OverlayIs DEF x, d
    <3>. QED BY <3>3 DEF Between
  <2>11. p \o x \in Seq(Byte) /\ Len(p \o x) = n BY <2>5, <2>6, Join
  <2>12. p \o x \o q = p \o x
    <3>. DEFINE y == p \o x
    <3>1. y \in Seq(Byte) BY <2>11
    <3>. HIDE DEF y
    <3>2. y \o <<>> = y BY <3>1, ConcatThree
    <3>. QED BY <3>2, Zenon DEF y, q
  <2>13. bytes = d /\ bytes \in Seq(Byte) /\ Len(bytes) = n BY <2>4, <2>10, <2>11, <2>12, Zenon
  <2>14. n \in Nat \ {0} OBVIOUS
  <2>. DEFINE e == Place(b, DataOff, n)
              w == [Programmed(Alloc(Memory, b, num), b, DataOff, bytes) EXCEPT !.index = <<e>>]
  <2>. HIDE DEF n
  <2>15. e \in Entries BY <1>2, <2>1, <2>13, <2>14, NewRun
  <2>16. <<>> \o <<e>> \o <<>> = <<e>> BY <2>15, Alone
  <2>17. <<>> \in Seq(Entries) /\ LiveAll(<<>>) = {} /\ Disjoint(<<>>) /\ Len(<<>>) = 0
         /\ BytesOfAll(flash, <<>>) = <<>>
    BY LiveEmpty, FoldsEmpty
  <2>18. Keeps(Memory, {}, <<>>, <<>>) BY <2>17 DEF Keeps, LastErased
  <2>19. Renewed(Memory, [Programmed(Alloc(Memory, b, num), b, DataOff, bytes)
                            EXCEPT !.index = <<>> \o <<e>> \o <<>>], <<>>, e, <<>>, bytes)
    BY <1>2, <2>1, <2>13, <2>14, <2>18, PlacedOnly
  <2>20. Renewed(Memory, w, <<>>, e, <<>>, bytes) BY <2>16, <2>19, Zenon
  <2>. HIDE DEF w, e
  <2>21. bytes = BytesOfAll(Memory.flash, <<>>) \o bytes \o BytesOfAll(Memory.flash, <<>>)
    <3>1. <<>> \o bytes = bytes /\ bytes \o <<>> = bytes BY <2>13, ConcatThree
    <3>2. (<<>> \o bytes) \o <<>> = bytes BY <3>1, Zenon
    <3>. QED BY <1>2, <2>17, <3>2, Zenon
  <2>22. Len(<<>>) + 1 + Len(<<>>) <= IndexMax BY <2>17, IndexAssumption
  <2>23. Leaves(w, bytes) BY <2>15, <2>17, <2>20, <2>21, <2>22, RenewedLeaves
  <2>24. Written(bytes)
    <3>1. pos \in 0 .. Len(c) BY DEF c
    <3>2. Written(d) BY <1>2, <3>1, OverlayWritten DEF d
    <3>. QED BY <2>13, <3>2
  <2>25. Become(w) BY <2>1 DEF w, e
  <2>26. <<>> \in Seq(Byte) /\ Len(<<>>) <= Threshold BY SizesFacts
  <2>27. Inv' /\ Content' = bytes BY <2>2, <2>13, <2>23, <2>24, <2>25, <2>26, Became
  <2>28. Allowed(c, d)
    <3>1. pos \in 0 .. Len(c) BY DEF c
    <3>. QED BY <1>2, <3>1, Overlaid DEF d
  <2>. QED BY <2>13, <2>27, <2>28 DEF c
<1>. QED BY <1>3, <1>4

-----------------------------------------------------------------------------
(* big_file_append.                                                         *)
LEMMA LastSplit ==
  ASSUME NEW s \in Seq(Entries), s # <<>>
  PROVE  LET A == SubSeq(s, 1, Len(s) - 1)
             e == s[Len(s)]
         IN  /\ A \in Seq(Entries) /\ e \in Entries /\ s = A \o <<e>> /\ Len(A) = Len(s) - 1
             /\ Len(s) \in DOMAIN s /\ Len(s) \in Nat
<1>. DEFINE n == Len(s)
            A == SubSeq(s, 1, n - 1)
            C == SubSeq(s, n + 1, n)
            e == s[n]
<1>1. n \in DOMAIN s /\ n \in Nat OBVIOUS
<1>2. A \in Seq(Entries) /\ Len(A) = n - 1 /\ C \in Seq(Entries) /\ Len(C) = n - n
      /\ e \in Entries /\ s = A \o <<e>> \o C
  BY <1>1, SplitAt
<1>. HIDE DEF A, C, e
<1>3. C = <<>>
  <2>1. Len(C) = 0 BY <1>1, <1>2
  <2>. QED BY <1>2, <2>1
<1>4. A \o <<e>> \in Seq(Entries) BY <1>2, TotalOne, ConcatThree
<1>. DEFINE q == A \o <<e>>
<1>5. q \in Seq(Entries) /\ s = q \o <<>> BY <1>2, <1>3, <1>4, Zenon
<1>. HIDE DEF q
<1>6. s = q BY <1>5, ConcatThree, Zenon
<1>. QED BY <1>1, <1>2, <1>6 DEF q, A, e, n

(* A sequence with its last entry replaced. *)
LEMMA ReplaceLast ==
  ASSUME NEW A \in Seq(Entries), NEW e \in Entries, NEW f
  PROVE  [A \o <<e>> EXCEPT ![Len(A \o <<e>>)] = f] = A \o <<f>>
<1>. DEFINE S == Entries \cup {f}
            x == A \o <<e>>
            y == A \o <<f>>
            n == Len(A) + 1
            z == [x EXCEPT ![Len(x)] = f]
<1>1. A \in Seq(S) /\ e \in S /\ f \in S OBVIOUS
<1>. HIDE DEF S
<1>2. /\ x \in Seq(S) /\ Len(x) = n /\ n \in Nat /\ x[n] = e /\ \A i \in 1 .. n - 1 : x[i] = A[i] BY <1>1
<1>3. /\ y \in Seq(S) /\ Len(y) = n /\ y[n] = f /\ \A i \in 1 .. n - 1 : y[i] = A[i] BY <1>1
<1>. HIDE DEF x, y, n
<1>4. /\ z \in Seq(S) /\ Len(z) = n /\ \A i \in 1 .. n : z[i] = IF i = n THEN f ELSE x[i]
  <2>1. DOMAIN x = 1 .. n /\ DOMAIN z = DOMAIN x BY <1>2
  <2>2. \A i \in 1 .. n : z[i] = IF i = n THEN f ELSE x[i] BY <1>2, <2>1
  <2>3. \A i \in 1 .. n : z[i] \in S
    <3>1. \A i \in 1 .. n : x[i] \in S BY <1>2
    <3>. HIDE DEF z
    <3>. QED BY <1>1, <2>2, <3>1
  <2>4. z = [i \in 1 .. n |-> z[i]] BY <2>1
  <2>. HIDE DEF z
  <2>5. z \in Seq(S) /\ Len(z) = n BY <1>2, <2>1, <2>3, <2>4
  <2>. QED BY <2>2, <2>5
<1>. HIDE DEF z
<1>5. \A i \in 1 .. n : z[i] = y[i]
  <2>. TAKE i \in 1 .. n
  <2>1. i # n => i \in 1 .. n - 1 BY <1>2
  <2>. QED BY <1>2, <1>3, <1>4, <2>1
<1>6. z = y BY <1>3, <1>4, <1>5
<1>. QED BY <1>6 DEF x, y, z

LEMMA LongerIs ==
  ASSUME NEW A \in Seq(Entries), NEW e \in Entries, NEW k \in Nat
  PROVE  Longer(A \o <<e>>, k) = A \o <<Place(e.sector, e.off, e.size + k)>>
<1>. DEFINE s == A \o <<e>>
            n == Len(s)
            f == [s[n] EXCEPT !.size = s[n].size + k]
<1>1. Longer(s, k) = [s EXCEPT ![n] = f] BY DEF Longer
<1>2. s[n] = e OBVIOUS
<1>3. f = Place(e.sector, e.off, e.size + k) BY <1>2 DEF Place, Entries
<1>. HIDE DEF f
<1>4. [s EXCEPT ![n] = f] = A \o <<f>> BY ReplaceLast
<1>. QED BY <1>1, <1>3, <1>4, Zenon

(* The place behind the last entry. *)
LEMMA TailIs ==
  ASSUME NEW s \in Seq(Entries), s # <<>>, NEW e, e = s[Len(s)]
  PROVE  LET a   == Lin(e) + e.size
             end == TailOf(s)
         IN  a \in Nat /\ end.sector = Sec(a) /\ end.off = DataOff + Rem(a)
             /\ Rem(a) \in 0 .. PerSector - 1 /\ Sec(a) \in Nat
<1>1. e \in Entries BY LastSplit
<1>2. e.sector \in Nat /\ e.off \in Nat /\ e.off >= DataOff /\ e.size \in Nat BY <1>1, EntryFacts
<1>. DEFINE a == Lin(e) + e.size
<1>3. Cell(e, e.size) = <<Sec(a), DataOff + Rem(a)>> /\ a \in Nat BY <1>2, CellIs
<1>4. TailOf(s) = Jump(e, e.size) BY DEF TailOf
<1>5. Jump(e, e.size) = Place(Sec(a), DataOff + Rem(a), e.size - e.size) BY <1>3 DEF Jump
<1>6. Rem(a) \in 0 .. PerSector - 1 /\ Sec(a) \in Nat BY <1>3, Division
<1>. HIDE DEF a
<1>7. TailOf(s).sector = Sec(a) /\ TailOf(s).off = DataOff + Rem(a) BY <1>4, <1>5 DEF Place
<1>. QED BY <1>3, <1>6, <1>7 DEF a

LEMMA WithinSector ==
  \A a, b, p, r, l, k \in Nat :
    (a = b + r /\ r < p /\ k <= p - r) =>
       /\ l < k => (a + l \in Nat /\ b <= a + l /\ a + l < b + p)
       /\ r # 0 => (a - 1 \in Nat /\ b <= a - 1 /\ a - 1 < b + p)
OBVIOUS

LEMMA JustBefore ==
  \A a, b, p, r \in Nat :
    (a = b + r /\ r < p /\ r # 0) => (a - 1 \in Nat /\ b <= a - 1 /\ a - 1 < b + p)
OBVIOUS

(* The last sector gets more bytes. *)
FilledUp(m, w, e, f, bytes) ==
  /\ f \in Entries /\ Live(f) = Live(e) /\ EndErased(w.flash, f)
  /\ BytesOf(w.flash, f) = BytesOf(m.flash, e) \o bytes
  /\ w \in Memories /\ w.taken = m.taken /\ w.index = m.index
  /\ \A t \in Sectors \ Live(e) : w.flash[t] = m.flash[t]

LEMMA FillEntry ==
  ASSUME NEW m \in Memories, NEW e \in Entries, EndErased(m.flash, e), Live(e) \subseteq Sectors,
         NEW a, a = Lin(e) + e.size, Rem(a) # 0,
         NEW k \in Nat \ {0}, k <= PerSector - Rem(a), NEW bytes \in Seq(Byte), Len(bytes) = k,
         NEW w, PutDown(m, w, a, bytes)
  PROVE  FilledUp(m, w, e, Place(e.sector, e.off, e.size + k), bytes)
<1>. DEFINE f == Place(e.sector, e.off, e.size + k)
            r == Rem(a)
            s == Sec(a)
<1>1. /\ e.sector \in Nat /\ e.off \in Nat /\ e.size \in Nat /\ e.size > 0 /\ Lin(e) \in Nat
  BY EntryFacts
<1>2. a \in Nat /\ a - 1 \in Nat /\ a = Lin(e) + e.size BY <1>1
<1>. HIDE DEF f
<1>3. f \in Entries /\ f.sector = e.sector /\ f.off = e.off /\ f.size = e.size + k
  <2>1. e.size + k \in Nat \ {0} BY <1>1
  <2>. QED BY <2>1 DEF f, Place, Entries
<1>4. Lin(f) = Lin(e) BY <1>3 DEF Lin
<1>5. s \in Nat /\ r \in 0 .. PerSector - 1 /\ Base(s) \in Nat /\ a = Base(s) + r BY <1>2, Division
<1>6. r # 0 /\ k <= PerSector - r OBVIOUS
<1>. HIDE DEF r, s
<1>a. PerSector \in Nat /\ r \in Nat /\ r < PerSector BY <1>5, SizesFacts
<1>7. ASSUME NEW l \in Nat, l < k PROVE a + l \in Nat /\ Sec(a + l) = s
  <2>1. a + l \in Nat /\ Base(s) <= a + l /\ a + l < Base(s) + PerSector
    BY <1>2, <1>5, <1>6, <1>7, <1>a, WithinSector
  <2>. QED BY <1>5, <2>1, InSector
<1>8. LastSec(e) = s
  <2>. DEFINE b == a - 1
  <2>1. b \in Nat /\ Base(s) <= b /\ b < Base(s) + PerSector
    BY <1>2, <1>5, <1>6, <1>a, WithinSector
  <2>3. b = Lin(e) + e.size - 1 BY <1>1, <1>2
  <2>. HIDE DEF b
  <2>2. Sec(b) = s BY <1>5, <2>1, InSector
  <2>. QED BY <2>2, <2>3 DEF LastSec
<1>9. LastSec(f) = s
  <2>. DEFINE l == k - 1
  <2>1. l \in Nat /\ l < k /\ Lin(f) + f.size - 1 = a + l BY <1>1, <1>2, <1>3, <1>4
  <2>. HIDE DEF l
  <2>2. Sec(a + l) = s BY <1>7, <2>1
  <2>. QED BY <2>1, <2>2 DEF LastSec
<1>10. Live(f) = Live(e) BY <1>3, <1>8, <1>9 DEF Live
<1>11. s \in Live(e) /\ s \in Sectors BY <1>8, LiveFacts
<1>12. /\ w \in Memories /\ w.taken = m.taken /\ w.index = m.index
       /\ \A l \in DOMAIN bytes :
            (Sec(a + (l - 1)) \in Sectors /\ ByteAt(m.flash, a + (l - 1)) = ErasedCell) =>
               ByteAt(w.flash, a + (l - 1)) = bytes[l]
       /\ \A b \in Nat : (b < a \/ b >= a + k) => ByteAt(w.flash, b) = ByteAt(m.flash, b)
       /\ \A t \in Sectors : (\A l \in DOMAIN bytes : Sec(a + (l - 1)) # t) =>
                                w.flash[t] = m.flash[t]
  BY DEF PutDown
<1>13. m.flash \in Flashes /\ w.flash \in Flashes BY <1>12 DEF Memories
<1>14. ASSUME NEW l \in 1 .. k PROVE ByteAt(w.flash, a + (l - 1)) = bytes[l]
  <2>1. l - 1 \in Nat /\ l - 1 < k /\ l \in DOMAIN bytes OBVIOUS
  <2>2. a + (l - 1) \in Nat /\ Sec(a + (l - 1)) = s BY <1>7, <2>1
  <2>3. Lin(e) + e.size <= a + (l - 1) BY <1>1, <1>2, <2>1
  <2>4. ByteAt(m.flash, a + (l - 1)) = ErasedCell BY <1>8, <2>2, <2>3 DEF EndErased
  <2>. QED BY <1>11, <1>12, <2>1, <2>2, <2>4
<1>15. EndErased(w.flash, f)
  <2>1. SUFFICES ASSUME NEW b \in Nat, Lin(f) + f.size <= b, Sec(b) = LastSec(f)
                 PROVE  ByteAt(w.flash, b) = ErasedCell
    BY DEF EndErased
  <2>2. b >= a + k /\ Lin(e) + e.size <= b BY <1>1, <1>2, <1>3, <1>4, <2>1
  <2>3. ByteAt(m.flash, b) = ErasedCell BY <1>8, <1>9, <2>1, <2>2 DEF EndErased
  <2>. QED BY <1>12, <2>2, <2>3
<1>16. ASSUME NEW t \in Sectors \ Live(e) PROVE w.flash[t] = m.flash[t]
  <2>1. ASSUME NEW l \in DOMAIN bytes PROVE Sec(a + (l - 1)) # t
    <3>1. l - 1 \in Nat /\ l - 1 < k OBVIOUS
    <3>2. Sec(a + (l - 1)) = s BY <1>7, <3>1
    <3>. QED BY <1>11, <3>2
  <2>. QED BY <1>12, <2>1
<1>17. BytesOf(w.flash, f) = BytesOf(m.flash, e) \o bytes
  <2>. DEFINE x == BytesOf(m.flash, e)
              y == x \o bytes
              z == BytesOf(w.flash, f)
  <2>1. x \in Seq(Byte) /\ Len(x) = e.size
        /\ \A l \in 1 .. e.size : x[l] = ByteAt(m.flash, Lin(e) + (l - 1))
    BY <1>13, BytesOfTyped
  <2>2. z \in Seq(Byte) /\ Len(z) = e.size + k
        /\ \A l \in 1 .. e.size + k : z[l] = ByteAt(w.flash, Lin(e) + (l - 1))
    BY <1>3, <1>4, <1>13, BytesOfTyped
  <2>. HIDE DEF x, z
  <2>3. /\ y \in Seq(Byte) /\ Len(y) = e.size + k
        /\ \A l \in 1 .. e.size : y[l] = x[l]
        /\ \A l \in 1 .. k : y[e.size + l] = bytes[l]
    <3>1. /\ y \in Seq(Byte) /\ Len(y) = Len(x) + Len(bytes)
          /\ \A l \in 1 .. Len(x) : y[l] = x[l]
          /\ \A l \in 1 .. Len(bytes) : y[Len(x) + l] = bytes[l]
      BY <2>1, Join
    <3>. HIDE DEF y
    <3>. QED BY <2>1, <3>1
  <2>. HIDE DEF y
  <2>4. ASSUME NEW l \in 1 .. e.size + k PROVE z[l] = y[l]
    <3>1. CASE l <= e.size
      <4>1. l \in 1 .. e.size /\ Lin(e) + (l - 1) \in Nat /\ Lin(e) + (l - 1) < a
        BY <1>1, <1>2, <3>1
      <4>2. ByteAt(w.flash, Lin(e) + (l - 1)) = ByteAt(m.flash, Lin(e) + (l - 1))
        BY <1>12, <4>1
      <4>. QED BY <2>1, <2>2, <2>3, <4>1, <4>2
    <3>2. CASE l > e.size
      <4>. DEFINE i == l - e.size
      <4>0. l \in Nat /\ l <= e.size + k BY <1>1
      <4>1. i \in 1 .. k /\ e.size + i = l /\ Lin(e) + (l - 1) = a + (i - 1)
        <5>. DEFINE z1 == e.size
                    z2 == Lin(e)
        <5>1. z1 \in Nat /\ z2 \in Nat /\ a = z2 + z1 /\ l > z1 /\ l <= z1 + k /\ l \in Nat /\ k \in Nat
          BY <1>1, <1>2, <3>2, <4>0
        <5>. HIDE DEF z1, z2
        <5>2. l - z1 \in 1 .. k /\ z1 + (l - z1) = l /\ z2 + (l - 1) = a + ((l - z1) - 1) BY <5>1
        <5>. QED BY <5>2 DEF z1, z2
      <4>. HIDE DEF i
      <4>2. z[l] = ByteAt(w.flash, a + (i - 1)) BY <2>2, <4>1
      <4>3. y[l] = bytes[i] BY <2>3, <4>1
      <4>. QED BY <1>14, <4>1, <4>2, <4>3
    <3>3. l <= e.size \/ l > e.size BY <1>1
    <3>. QED BY <3>1, <3>2, <3>3
  <2>5. z = y BY <2>2, <2>3, <2>4
  <2>. QED BY <2>5 DEF x, y, z
<1>18. FilledUp(m, w, e, f, bytes) BY <1>3, <1>10, <1>12, <1>15, <1>16, <1>17, Zenon DEF FilledUp
<1>. QED BY <1>18 DEF f

OneMore(fl, A, e, q) ==
  /\ q \in Seq(Entries) /\ q # <<>> /\ Len(q) = Len(A) + 1 /\ q[Len(q)] = e
  /\ LiveAll(q) = LiveAll(A) \cup Live(e)
  /\ Disjoint(q) <=> (Disjoint(A) /\ LiveAll(A) \cap Live(e) = {})
  /\ BytesOfAll(fl, q) = BytesOfAll(fl, A) \o BytesOf(fl, e)

LEMMA OneMoreIs ==
  ASSUME NEW fl \in Flashes, NEW A \in Seq(Entries), NEW e \in Entries
  PROVE  OneMore(fl, A, e, A \o <<e>>)
<1>. DEFINE o == <<e>>
<1>1. o \in Seq(Entries) /\ LiveAll(o) = Live(e) /\ Disjoint(o) /\ BytesOfAll(fl, o) = BytesOf(fl, e)
      /\ Len(o) = 1 /\ o # <<>> /\ o[1] = e
  BY FoldsOne, LiveOne
<1>. HIDE DEF o
<1>2. LiveAll(A \o o) = LiveAll(A) \cup LiveAll(o) BY <1>1, LiveConcat
<1>3. Disjoint(A \o o) <=> (Disjoint(A) /\ Disjoint(o) /\ LiveAll(A) \cap LiveAll(o) = {})
  BY <1>1, DisjointConcat
<1>4. BytesOfAll(fl, A \o o) = BytesOfAll(fl, A) \o BytesOfAll(fl, o) BY <1>1, BytesConcat
<1>. DEFINE q == A \o o
<1>5. q \in Seq(Entries) /\ q # <<>> /\ Len(q) = Len(A) + 1 /\ q[Len(q)] = e
  <2>1. q \in Seq(Entries) /\ Len(q) = Len(A) + Len(o) BY <1>1, ConcatAt
  <2>2. q # <<>> /\ q[Len(q)] = o[Len(o)] BY <1>1, LastOfConcat
  <2>. HIDE DEF q
  <2>. QED BY <1>1, <2>1, <2>2
<1>6. BytesOfAll(fl, q) = BytesOfAll(fl, A) \o BytesOf(fl, e) BY <1>1, <1>4, Zenon
<1>7. LiveAll(q) = LiveAll(A) \cup Live(e) /\ (Disjoint(q) <=> (Disjoint(A) /\ LiveAll(A) \cap Live(e) = {}))
  BY <1>1, <1>2, <1>3, Zenon
<1>. HIDE DEF q
<1>8. OneMore(fl, A, e, q) BY <1>5, <1>6, <1>7, Zenon DEF OneMore
<1>. QED BY <1>8, Zenon DEF o, q

LEMMA FillLeaves ==
  ASSUME NEW m, NEW c, Leaves(m, c), NEW end, end = TailOf(m.index), end.off # DataOff,
         NEW k \in Nat \ {0}, k <= SectorSize - end.off, NEW bytes \in Seq(Byte), Len(bytes) = k
  PROVE  Leaves([Programmed(m, end.sector, end.off, bytes) EXCEPT !.index = Longer(@, k)],
                c \o bytes)
<1>. DEFINE s == m.index
            A == SubSeq(s, 1, Len(s) - 1)
            e == s[Len(s)]
            a == Lin(e) + e.size
            u == Programmed(m, end.sector, end.off, bytes)
            f == Place(e.sector, e.off, e.size + k)
            q == A \o <<f>>
            w == [u EXCEPT !.index = Longer(@, k)]
<1>1. /\ Good(m) /\ s # <<>> /\ Len(s) <= IndexMax /\ BytesOfAll(m.flash, s) = c
      /\ m \in Memories /\ LiveAll(s) \subseteq m.taken /\ Disjoint(s) /\ LastErased(m.flash, s)
  BY DEF Leaves, Good
<1>2. s \in Seq(Entries) /\ m.flash \in Flashes /\ m.taken \subseteq Sectors BY <1>1 DEF Memories
<1>3. /\ A \in Seq(Entries) /\ e \in Entries /\ s = A \o <<e>> /\ Len(A) = Len(s) - 1
      /\ Len(s) \in Nat
  BY <1>1, <1>2, LastSplit
<1>4. /\ a \in Nat /\ end.sector = Sec(a) /\ end.off = DataOff + Rem(a)
      /\ Rem(a) \in 0 .. PerSector - 1 /\ Sec(a) \in Nat
  <2>1. e = s[Len(s)] OBVIOUS
  <2>. HIDE DEF e, s
  <2>. QED BY <1>1, <1>2, <2>1, TailIs DEF s
<1>5. EndErased(m.flash, e) BY <1>1 DEF LastErased
<1>. HIDE DEF s, A, e
<1>6. /\ LiveAll(s) = LiveAll(A) \cup Live(e) /\ Disjoint(A) /\ LiveAll(A) \cap Live(e) = {}
      /\ BytesOfAll(m.flash, s) = BytesOfAll(m.flash, A) \o BytesOf(m.flash, e)
      /\ Len(s) = Len(A) + 1
  <2>1. OneMore(m.flash, A, e, A \o <<e>>) BY <1>2, <1>3, OneMoreIs
  <2>2. OneMore(m.flash, A, e, s) BY <1>3, <2>1, Zenon
  <2>. QED BY <1>1, <2>2, Zenon DEF OneMore
<1>7. a = Lin(e) + e.size /\ e.size \in Nat /\ e.size > 0 /\ Lin(e) \in Nat BY <1>3, EntryFacts
<1>. HIDE DEF a
<1>. DEFINE r == Rem(a)
<1>8. r \in Nat /\ r # 0 /\ r < PerSector /\ k <= PerSector - r /\ end.off = DataOff + r
      /\ end.off \in DataOff .. SectorSize - 1 /\ end.off - DataOff = r
  BY <1>4, SizesFacts
<1>9. a = Base(Sec(a)) + r /\ Base(Sec(a)) \in Nat /\ Sec(a) \in Nat BY <1>4, Division
<1>. HIDE DEF r
<1>10. Sec(a) = LastSec(e)
  <2>. DEFINE b == a - 1
  <2>1. b \in Nat /\ Base(Sec(a)) <= b /\ b < Base(Sec(a)) + PerSector
    <3>. DEFINE bs == Base(Sec(a))
    <3>1. bs \in Nat /\ a = bs + r /\ PerSector \in Nat BY <1>9, SizesFacts
    <3>. HIDE DEF bs
    <3>2. a - 1 \in Nat /\ bs <= a - 1 /\ a - 1 < bs + PerSector BY <1>4, <1>8, <3>1, JustBefore
    <3>. QED BY <3>2 DEF bs
  <2>2. b = Lin(e) + e.size - 1 BY <1>7
  <2>. HIDE DEF b
  <2>3. Sec(b) = Sec(a) BY <1>9, <2>1, InSector
  <2>. QED BY <2>2, <2>3 DEF LastSec
<1>11. Live(e) \subseteq Sectors /\ end.sector \in Sectors
  <2>1. LastSec(e) \in Live(e) BY <1>3, LiveFacts
  <2>2. Live(e) \subseteq Sectors BY <1>1, <1>2, <1>6
  <2>. QED BY <1>4, <1>10, <2>1, <2>2
<1>12. a = Base(end.sector) + (end.off - DataOff) BY <1>4, <1>8, <1>9
<1>13. PutDown(m, u, a, bytes)
  <2>. DEFINE es == end.sector
              eo == end.off
  <2>1. es \in Sectors /\ eo \in DataOff .. SectorSize - 1 /\ a = Base(es) + (eo - DataOff)
    BY <1>8, <1>11, <1>12
  <2>. HIDE DEF es, eo, u
  <2>2. PutDown(m, Programmed(m, es, eo, bytes), a, bytes) BY <1>1, <2>1, ProgrammedIs
  <2>. QED BY <2>2 DEF es, eo, u
<1>. HIDE DEF u
<1>14. /\ f \in Entries /\ Live(f) = Live(e) /\ EndErased(u.flash, f)
       /\ BytesOf(u.flash, f) = BytesOf(m.flash, e) \o bytes
       /\ u \in Memories /\ u.taken = m.taken /\ u.index = m.index
       /\ \A t \in Sectors \ Live(e) : u.flash[t] = m.flash[t]
  <2>1. Rem(a) # 0 /\ k <= PerSector - Rem(a) BY <1>8 DEF r
  <2>2. FilledUp(m, u, e, f, bytes) BY <1>1, <1>3, <1>5, <1>7, <1>11, <1>13, <2>1, FillEntry
  <2>. HIDE DEF f
  <2>. QED BY <2>2, Zenon DEF FilledUp
<1>15. Longer(s, k) = q BY <1>3, LongerIs
<1>. HIDE DEF f
<1>16. u.flash \in Flashes BY <1>14 DEF Memories
<1>17. /\ q \in Seq(Entries) /\ q # <<>> /\ Len(q) = Len(A) + 1 /\ q[Len(q)] = f
       /\ LiveAll(q) = LiveAll(A) \cup Live(f)
       /\ Disjoint(q) <=> (Disjoint(A) /\ LiveAll(A) \cap Live(f) = {})
       /\ BytesOfAll(u.flash, q) = BytesOfAll(u.flash, A) \o BytesOf(u.flash, f)
  <2>1. OneMore(u.flash, A, f, q) BY <1>3, <1>14, <1>16, OneMoreIs
  <2>. HIDE DEF q
  <2>. QED BY <2>1, Zenon DEF OneMore
<1>. HIDE DEF q
<1>18. w = [u EXCEPT !.index = q] BY <1>14, <1>15 DEF s
<1>19. w \in Memories /\ w.index = q /\ w.flash = u.flash /\ w.taken = m.taken
  <2>1. u = [flash |-> u.flash, taken |-> u.taken, index |-> u.index] BY <1>14 DEF Memories
  <2>. HIDE DEF w
  <2>. QED BY <1>14, <1>17, <1>18, <2>1 DEF Memories
<1>. HIDE DEF w
<1>20. LastErased(w.flash, q) BY <1>14, <1>17, <1>19 DEF LastErased
<1>21. Good(w)
  <2>1. LiveAll(q) = LiveAll(s) BY <1>6, <1>14, <1>17
  <2>2. Disjoint(q) BY <1>6, <1>14, <1>17
  <2>. QED BY <1>1, <1>19, <1>20, <2>1, <2>2 DEF Good
<1>22. BytesOfAll(u.flash, A) = BytesOfAll(m.flash, A)
  <2>1. LiveAll(A) \subseteq Sectors \ Live(e) BY <1>1, <1>2, <1>6
  <2>2. \A t \in LiveAll(A) : u.flash[t] = m.flash[t] BY <1>14, <2>1
  <2>. QED BY <1>3, <2>2, BytesSame
<1>23. BytesOfAll(w.flash, q) = c \o bytes
  <2>. DEFINE x == BytesOfAll(m.flash, A)
              y == BytesOf(m.flash, e)
  <2>1. x \in Seq(Byte) /\ y \in Seq(Byte) BY <1>2, <1>3, BytesAll, BytesOfTyped
  <2>2. c = x \o y BY <1>1, <1>6
  <2>3. BytesOfAll(w.flash, q) = x \o (y \o bytes) BY <1>14, <1>17, <1>19, <1>22, Zenon
  <2>. HIDE DEF x, y
  <2>4. (x \o y) \o bytes = x \o (y \o bytes) BY <2>1, ConcatThree
  <2>. QED BY <2>2, <2>3, <2>4, Zenon
<1>24. Len(q) <= IndexMax BY <1>1, <1>6, <1>17
<1>25. Leaves(w, c \o bytes) BY <1>17, <1>19, <1>21, <1>23, <1>24 DEF Leaves
<1>. QED BY <1>25 DEF w, u

(* Nothing put down. *)
LEMMA NotFilled ==
  ASSUME NEW m, NEW c, Leaves(m, c), NEW s, NEW off
  PROVE  [Programmed(m, s, off, <<>>) EXCEPT !.index = Longer(@, 0)] = m
<1>. DEFINE fl == [t \in Sectors |-> [d \in 0 .. SectorSize - 1 |->
                     LET here == {k \in DOMAIN <<>> : Cell(Place(s, off, 0), k - 1) = <<t, d>>}
                     IN  IF here = {} THEN m.flash[t][d]
                         ELSE IF m.flash[t][d] = ErasedCell THEN <<>>[CHOOSE k \in here : TRUE]
                              ELSE ClashCell]]
            u == [m EXCEPT !.flash = fl]
<1>1. /\ m.flash \in Flashes /\ m.index \in Seq(Entries) /\ m.index # <<>>
      /\ m = [flash |-> m.flash, taken |-> m.taken, index |-> m.index]
  BY DEF Leaves, Good, Memories
<1>2. DOMAIN <<>> = {} OBVIOUS
<1>3. fl = [t \in Sectors |-> [d \in 0 .. SectorSize - 1 |-> m.flash[t][d]]] BY <1>2
<1>4. Programmed(m, s, off, <<>>) = u BY DEF Programmed
<1>. HIDE DEF fl
<1>5. fl = m.flash BY <1>1, <1>3 DEF Flashes
<1>6. u = m BY <1>1, <1>5
<1>. DEFINE z == m.index
            n == Len(z)
<1>7. Longer(z, 0) = z
  <2>1. n \in DOMAIN z /\ z[n] \in Entries BY <1>1
  <2>2. Longer(z, 0) = [z EXCEPT ![n] = [z[n] EXCEPT !.size = z[n].size + 0]] BY DEF Longer
  <2>3. [z[n] EXCEPT !.size = z[n].size + 0] = z[n]
    <3>. DEFINE e == z[n]
    <3>1. e \in Entries /\ e.size \in Nat /\ e.size + 0 = e.size BY <2>1, EntryFacts
    <3>. HIDE DEF e
    <3>2. [e EXCEPT !.size = e.size + 0] = e BY <3>1 DEF Entries
    <3>. QED BY <3>2 DEF e
  <2>4. [z EXCEPT ![n] = z[n]] = z BY <1>1
  <2>. QED BY <2>2, <2>3, <2>4, Zenon
<1>8. [m EXCEPT !.index = Longer(@, 0)] = m
  <2>1. [m EXCEPT !.index = Longer(@, 0)] = [m EXCEPT !.index = z] BY <1>7
  <2>2. [m EXCEPT !.index = z] = m BY <1>1
  <2>. QED BY <2>1, <2>2, Zenon
<1>. QED BY <1>4, <1>6, <1>8, Zenon

LEMMA NewBytesPrefix ==
  ASSUME NEW c, Written(c), NEW pos \in 0 .. Len(c), NEW len \in Nat, pos + len <= MaxSize,
         NEW k \in 0 .. len
  PROVE  /\ SubSeq(NewBytes(c, pos, len), 1, k) = NewBytes(c, pos, k)
         /\ k = 0 => SubSeq(NewBytes(c, pos, len), 1, k) = <<>>
<1>. DEFINE x == NewBytes(c, pos, len)
            y == NewBytes(c, pos, k)
            z == SubSeq(x, 1, k)
<1>0. Len(c) \in Nat BY DEF Written
<1>1. x \in Seq(Byte) /\ Len(x) = len /\ \A i \in 1 .. len : x[i] = File!NewByte(c, pos + i)
  BY NewBytesTyped
<1>2. y \in Seq(Byte) /\ Len(y) = k /\ \A i \in 1 .. k : y[i] = File!NewByte(c, pos + i)
  <2>1. k \in Nat /\ pos + k <= MaxSize BY <1>0, SizesFacts
  <2>. QED BY <2>1, NewBytesTyped
<1>. HIDE DEF x, y
<1>3. z \in Seq(Byte) /\ Len(z) = k /\ \A i \in 1 .. k : z[i] = x[i]
  <2>1. k \in Nat /\ k <= len OBVIOUS
  <2>. QED BY <1>1, <2>1
<1>. HIDE DEF z
<1>4. \A i \in 1 .. k : z[i] = y[i] BY <1>1, <1>2, <1>3
<1>5. z = y BY <1>2, <1>3, <1>4
<1>6. k = 0 => z = <<>> BY <1>3
<1>. QED BY <1>5, <1>6 DEF x, y, z

LEMMA AppendedIs ==
  ASSUME NEW c, Written(c), NEW n, n = Len(c), NEW k \in Nat \ {0}, n + k <= MaxSize
  PROVE  /\ c \o NewBytes(c, n, k) = File!Overlay(c, n, k)
         /\ Written(File!Overlay(c, n, k)) /\ Len(File!Overlay(c, n, k)) = n + k
         /\ Allowed(c, File!Overlay(c, n, k))
<1>. DEFINE x == NewBytes(c, n, k)
            d == File!Overlay(c, n, k)
            y == c \o x
<1>1. c \in Seq(Byte) /\ n \in 0 .. Len(c) /\ n \in Nat BY DEF Written
<1>2. x \in Seq(Byte) BY <1>1, NewBytesTyped
<1>3. Beside(c, n, k, c, <<>>)
  <2>1. <<>> \in Seq(Byte) /\ Len(<<>>) = 0 OBVIOUS
  <2>2. n + k > Len(c) BY <1>1
  <2>. QED BY <1>1, <2>1, <2>2 DEF Beside
<1>4. Between(c, x, <<>>) = d BY <1>1, <1>3, OverlayIs
<1>. HIDE DEF x, d
<1>5. y \in Seq(Byte) BY <1>1, <1>2, Join
<1>6. Between(c, x, <<>>) = y \o <<>> BY Zenon DEF Between
<1>. HIDE DEF y
<1>7. y \o <<>> = y BY <1>5, ConcatThree
<1>8. y = d BY <1>4, <1>6, <1>7, Zenon
<1>9. Written(d) /\ Len(d) = n + k
  <2>1. Written(d) /\ Len(d) = IF n + k > Len(c) THEN n + k ELSE Len(c)
    BY <1>1, OverlayWritten DEF d
  <2>. QED BY <1>1, <2>1
<1>10. Allowed(c, d) BY <1>1, Overlaid DEF d
<1>. QED BY <1>8, <1>9, <1>10 DEF x, d, y

(* A step that appends. *)
LEMMA Grew ==
  ASSUME Inv, NEW k \in Nat \ {0}, size + k <= MaxSize,
         NEW w, Leaves(w, Content \o NewBytes(Content, size, k)), Become(w),
         size' = size + k, data' = data, fault' = fault
  PROVE  Inv' /\ Allowed(Content, Content')
<1>. DEFINE c == Content
            d == File!Overlay(c, size, k)
<1>1. Written(c) /\ size = Len(c) /\ data \in Seq(Byte) /\ Len(data) <= Threshold BY DEF Inv
<1>2. c \o NewBytes(c, size, k) = d /\ Written(d) /\ Len(d) = size + k /\ Allowed(c, d)
  BY <1>1, AppendedIs
<1>. HIDE DEF d
<1>3. Leaves(w, d) BY <1>2, Zenon
<1>4. Inv' /\ Content' = d BY <1>1, <1>2, <1>3, Became
<1>. QED BY <1>2, <1>4

(* A step that leaves the bytes as they are. *)
LEMMA Kept ==
  ASSUME Inv, NEW w, Leaves(w, Content), Become(w), size' = size, data' = data, fault' = fault
  PROVE  Inv' /\ Content' = Content
<1>1. Written(Content) /\ size = Len(Content) /\ data \in Seq(Byte) /\ Len(data) <= Threshold
  BY DEF Inv
<1>. QED BY <1>1, Became

(* A run of its own behind the last entry. *)
LEMMA RunAppended ==
  ASSUME NEW m, NEW c, Leaves(m, c), Len(m.index) + 2 <= IndexMax,
         NEW n \in Nat \ {0}, NEW bytes \in Seq(Byte), Len(bytes) = n,
         NEW b \in Runs(m, CeilDiv(n, PerSector))
  PROVE  Leaves([Programmed(Alloc(m, b, CeilDiv(n, PerSector)), b, DataOff, bytes)
                   EXCEPT !.index = Append(@, Place(b, DataOff, n))], c \o bytes)
<1>. DEFINE s == m.index
            e == Place(b, DataOff, n)
            u == Programmed(Alloc(m, b, CeilDiv(n, PerSector)), b, DataOff, bytes)
            w == [u EXCEPT !.index = Append(@, e)]
<1>1. /\ Good(m) /\ s # <<>> /\ Len(s) <= IndexMax /\ BytesOfAll(m.flash, s) = c
      /\ m \in Memories /\ LiveAll(s) \subseteq m.taken /\ Disjoint(s) /\ LastErased(m.flash, s)
  BY DEF Leaves, Good
<1>2. s \in Seq(Entries) /\ m.flash \in Flashes BY <1>1 DEF Memories
<1>3. e \in Entries /\ u.index = s BY <1>1, NewRun
<1>4. <<>> \in Seq(Entries) /\ LiveAll(<<>>) = {} /\ Disjoint(<<>>) /\ Len(<<>>) = 0
      /\ BytesOfAll(m.flash, <<>>) = <<>>
  BY LiveEmpty, FoldsEmpty
<1>. HIDE DEF s
<1>5. Keeps(m, {}, s, <<>>) BY <1>1, <1>2, <1>4 DEF Keeps, LastErased
<1>6. Renewed(m, [Programmed(Alloc(m, b, CeilDiv(n, PerSector)), b, DataOff, bytes)
                            EXCEPT !.index = s \o <<Place(b, DataOff, n)>> \o <<>>],
               s, Place(b, DataOff, n), <<>>, bytes)
  BY <1>1, <1>5, PlacedOnly
<1>. HIDE DEF u, e
<1>7. s \o <<e>> \o <<>> = Append(s, e)
  <2>. DEFINE q == s \o <<e>>
  <2>1. q \in Seq(Entries) /\ q = Append(s, e) BY <1>2, <1>3, ConcatThree
  <2>. HIDE DEF q
  <2>2. q \o <<>> = q BY <2>1, ConcatThree
  <2>. QED BY <2>1, <2>2, Zenon DEF q
<1>8. Renewed(m, [u EXCEPT !.index = s \o <<e>> \o <<>>], s, e, <<>>, bytes) BY <1>6 DEF u, e
<1>9. w = [u EXCEPT !.index = s \o <<e>> \o <<>>] BY <1>3, <1>7
<1>. HIDE DEF w
<1>10. Renewed(m, w, s, e, <<>>, bytes) BY <1>8, <1>9, Zenon
<1>11. c \o bytes = BytesOfAll(m.flash, s) \o bytes \o BytesOfAll(m.flash, <<>>)
  <2>. DEFINE y == c \o bytes
  <2>1. c \in Seq(Byte) BY <1>1, <1>2, BytesAll
  <2>2. y \in Seq(Byte) BY <2>1, Join
  <2>. HIDE DEF y
  <2>3. y \o <<>> = y BY <2>2, ConcatThree
  <2>. QED BY <1>1, <1>4, <2>3, Zenon DEF y
<1>12. Len(s) + 1 + Len(<<>>) <= IndexMax
  <2>1. Len(s) \in Nat /\ Len(s) + 2 <= IndexMax BY <1>2 DEF s
  <2>. QED BY <1>4, <2>1, IndexAssumption
<1>13. Leaves(w, c \o bytes)
  <2>. DEFINE y == c \o bytes
  <2>1. y = BytesOfAll(m.flash, s) \o bytes \o BytesOfAll(m.flash, <<>>) BY <1>11
  <2>. HIDE DEF y
  <2>2. Leaves(w, y) BY <1>2, <1>3, <1>4, <1>10, <1>12, <2>1, RenewedLeaves
  <2>. QED BY <2>2 DEF y
<1>. QED BY <1>13 DEF w, u, e

LEMMA BigAppendIs ==
  ASSUME Inv, AppendsFit, NEW m, Leaves(m, Content), ~ NoRoom(m),
         NEW len \in Nat \ {0}, size + len <= MaxSize, BigAppend(m, len), data' = data
  PROVE  Inv' /\ Allowed(Content, Content')
<1>. DEFINE c      == Content
            end    == TailOf(m.index)
            fill   == IF end.off = DataOff THEN 0 ELSE Least(SectorSize - end.off, len)
            rest   == len - fill
            num    == CeilDiv(rest, PerSector)
            bytes  == Buffer(size, len)
            filled == [Programmed(m, end.sector, end.off, SubSeq(bytes, 1, fill))
                       EXCEPT !.index = Longer(@, fill)]
            new(b) == Programmed(Alloc(filled, b, num), b, DataOff, SubSeq(bytes, 1, rest))
            Added(b) == IF end.sector + 1 = b
                        THEN [new(b) EXCEPT !.index = Longer(@, rest)]
                        ELSE [new(b) EXCEPT !.index = Append(@, Place(b, DataOff, len))]
            Fitting(b) == AppendsFit => fill = 0 /\ b # end.sector + 1
<1>1. \/ rest = 0 /\ Become(filled) /\ size' = size + len /\ fault' = fault
      \/ Stop
      \/ rest > 0 /\ Become(filled) /\ size' = size + fill /\ fault' = fault
      \/ /\ rest > 0 /\ \E b \in Runs(filled, num) : Fitting(b) /\ Become(Added(b))
         /\ size' = size + len /\ fault' = fault
  BY DEF BigAppend
<1>2. Written(c) /\ size = Len(c) /\ size \in Nat /\ size \in 0 .. Len(c) BY InvFacts DEF Inv
<1>3. end.off \in DataOff .. SectorSize - 1
  <2>. DEFINE s == m.index
              e == s[Len(s)]
              r == Rem(Lin(e) + e.size)
  <2>1. s \in Seq(Entries) /\ s # <<>> BY DEF Leaves, Good, Memories
  <2>2. e = s[Len(s)] OBVIOUS
  <2>. HIDE DEF s, e
  <2>3. TailOf(s).off = DataOff + r /\ r \in 0 .. PerSector - 1 BY <2>1, <2>2, TailIs
  <2>. HIDE DEF r
  <2>. QED BY <2>3, SizesFacts DEF s
<1>4. fill \in 0 .. len /\ rest = len - fill
      /\ (fill # 0 => end.off # DataOff /\ fill <= SectorSize - end.off)
  BY <1>3, SizesFacts DEF Least
<1>5. bytes = NewBytes(c, size, len) BY BufferIs
<1>6. SubSeq(bytes, 1, fill) = NewBytes(c, size, fill) /\ (fill = 0 => SubSeq(bytes, 1, fill) = <<>>)
      /\ SubSeq(bytes, 1, len) = NewBytes(c, size, len)
  <2>. HIDE DEF fill, bytes, c
  <2>1. len \in 0 .. len OBVIOUS
  <2>. QED BY <1>2, <1>4, <1>5, <2>1, NewBytesPrefix
<1>7. ASSUME fill # 0 PROVE Leaves(filled, c \o NewBytes(c, size, fill)) /\ fill \in Nat \ {0} /\ size + fill <= MaxSize
  <2>. DEFINE x == SubSeq(bytes, 1, fill)
              k == fill
  <2>1. fill \in Nat \ {0} /\ size + fill <= MaxSize BY <1>2, <1>4, <1>7, SizesFacts
  <2>. HIDE DEF fill, bytes, c
  <2>2. x \in Seq(Byte) /\ Len(x) = fill
    <3>1. NewBytes(c, size, fill) \in Seq(Byte) /\ Len(NewBytes(c, size, fill)) = fill
      BY <1>2, <2>1, NewBytesTyped
    <3>. QED BY <1>6, <3>1, Zenon
  <2>. HIDE DEF end, x
  <2>3. end = TailOf(m.index) BY DEF end
  <2>4. Leaves(m, c) BY DEF c
  <2>5. Leaves([Programmed(m, end.sector, end.off, x) EXCEPT !.index = Longer(@, fill)], c \o x)
    BY <1>4, <1>7, <2>1, <2>2, <2>3, <2>4, FillLeaves
  <2>6. x = NewBytes(c, size, fill) BY <1>6 DEF x
  <2>7. Leaves(filled, c \o x) BY <2>5 DEF x
  <2>. QED BY <2>1, <2>6, <2>7, Zenon
<1>8. ASSUME fill = 0 PROVE filled = m
  <2>. HIDE DEF fill, bytes, end
  <2>1. SubSeq(bytes, 1, fill) = <<>> BY <1>6, <1>8
  <2>2. [Programmed(m, end.sector, end.off, <<>>) EXCEPT !.index = Longer(@, 0)] = m BY NotFilled
  <2>. QED BY <1>8, <2>1, <2>2, Zenon
<1>. HIDE DEF fill, filled, bytes, end
<1>9. CASE rest = 0 /\ Become(filled) /\ size' = size + len /\ fault' = fault
  <2>1. fill = len /\ fill # 0 BY <1>4, <1>9
  <2>2. Leaves(filled, c \o NewBytes(c, size, len)) BY <1>7, <2>1
  <2>. QED BY <1>9, <2>2, Grew
<1>10. CASE Stop
  <2>1. Inv' /\ Content' = Content BY <1>10, Stopped
  <2>. QED BY <2>1 DEF Allowed
<1>11. CASE Become(filled) /\ size' = size + fill /\ fault' = fault
  <2>1. CASE fill = 0
    <3>1. filled = m /\ size' = size BY <1>2, <1>8, <1>11, <2>1
    <3>2. Become(m) BY <1>11, <3>1
    <3>3. Inv' /\ Content' = Content BY <1>11, <3>1, <3>2, Kept
    <3>. QED BY <3>3 DEF Allowed
  <2>2. CASE fill # 0 BY <1>7, <1>11, <2>2, Grew
  <2>. QED BY <2>1, <2>2
<1>12. CASE /\ rest > 0 /\ \E b \in Runs(filled, num) : Fitting(b) /\ Become(Added(b))
            /\ size' = size + len /\ fault' = fault
  <2>1. PICK b \in Runs(filled, num) : Fitting(b) /\ Become(Added(b)) BY <1>12
  <2>2. fill = 0 /\ b # end.sector + 1 BY <2>1
  <2>3. rest = len /\ filled = m BY <1>4, <1>8, <2>2
  <2>4. Become([new(b) EXCEPT !.index = Append(@, Place(b, DataOff, len))]) BY <2>1, <2>2
  <2>. DEFINE x == NewBytes(c, size, len)
  <2>5. SubSeq(bytes, 1, rest) = x BY <1>6, <2>3
  <2>6. x \in Seq(Byte) /\ Len(x) = len BY <1>2, NewBytesTyped
  <2>. HIDE DEF x, c
  <2>7. b \in Runs(m, CeilDiv(len, PerSector)) BY <2>1, <2>3
  <2>. DEFINE w == [Programmed(Alloc(m, b, CeilDiv(len, PerSector)), b, DataOff, x)
                      EXCEPT !.index = Append(@, Place(b, DataOff, len))]
  <2>8. new(b) = Programmed(Alloc(m, b, CeilDiv(len, PerSector)), b, DataOff, x)
    BY <2>3, <2>5
  <2>9. Become(w)
    <3>. HIDE DEF new
    <3>. QED BY <2>4, <2>8, Zenon
  <2>10. Leaves(m, c) BY DEF c
  <2>11. Len(m.index) + 2 <= IndexMax
    <3>1. Len(m.index) \in Nat BY DEF Leaves, Good, Memories
    <3>. QED BY <3>1, IndexAssumption DEF NoRoom
  <2>12. Leaves(w, c \o x) BY <2>6, <2>7, <2>10, <2>11, RunAppended
  <2>. HIDE DEF w
  <2>. QED BY <1>12, <2>9, <2>12, Grew DEF c, x
<1>. QED BY <1>1, <1>9, <1>10, <1>11, <1>12

-----------------------------------------------------------------------------
(* big_file_rwrite.                                                         *)
LEMMA Rewrote ==
  ASSUME Inv, NEW pos \in 0 .. Len(Content), NEW len \in Nat \ {0}, pos + len <= MaxSize,
         NEW m, NEW w, NEW left \in Seq(Entries), NEW e \in Entries, NEW right \in Seq(Entries),
         Renewed(m, w, left, e, right, NewBytes(Content, pos, len)),
         Beside(Content, pos, len, BytesOfAll(m.flash, left), BytesOfAll(m.flash, right)),
         Len(left) + 1 + Len(right) <= IndexMax, Become(w),
         size' = (IF pos + len > size THEN pos + len ELSE size), data' = data, fault' = fault
  PROVE  Inv' /\ Allowed(Content, Content')
<1>. DEFINE c == Content
            d == File!Overlay(c, pos, len)
            p == BytesOfAll(m.flash, left)
            q == BytesOfAll(m.flash, right)
            x == NewBytes(c, pos, len)
<1>1. Written(c) /\ size = Len(c) /\ data \in Seq(Byte) /\ Len(data) <= Threshold BY DEF Inv
<1>2. Between(p, x, q) = d BY <1>1, OverlayIs
<1>3. d = p \o x \o q BY <1>2 DEF Between
<1>4. Written(d) /\ Len(d) = IF pos + len > Len(c) THEN pos + len ELSE Len(c)
  BY <1>1, OverlayWritten
<1>5. Allowed(c, d) BY <1>1, Overlaid
<1>. HIDE DEF d, x
<1>6. Renewed(m, w, left, e, right, x) BY DEF x
<1>7. Leaves(w, d) BY <1>3, <1>6, RenewedLeaves
<1>8. Inv' /\ Content' = d BY <1>1, <1>4, <1>7, Became
<1>. QED BY <1>5, <1>8

LEMMA LeavesFacts ==
  ASSUME NEW m, NEW c, Leaves(m, c)
  PROVE  /\ m \in Memories /\ m.index \in Seq(Entries) /\ m.index # <<>> /\ m.flash \in Flashes
         /\ LiveAll(m.index) \subseteq m.taken /\ Disjoint(m.index) /\ m.taken \subseteq Sectors
         /\ LiveAll(m.index) \subseteq Sectors /\ LastErased(m.flash, m.index)
         /\ BytesOfAll(m.flash, m.index) = c /\ Total(m.index) = Len(c) /\ c \in Seq(Byte)
         /\ Len(m.index) \in Nat
<1>1. /\ m \in Memories /\ m.index # <<>> /\ BytesOfAll(m.flash, m.index) = c
      /\ LiveAll(m.index) \subseteq m.taken /\ Disjoint(m.index) /\ LastErased(m.flash, m.index)
  BY DEF Leaves, Good
<1>2. m.index \in Seq(Entries) /\ m.flash \in Flashes /\ m.taken \subseteq Sectors
  BY <1>1 DEF Memories
<1>3. c \in Seq(Byte) /\ Len(c) = Total(m.index) BY <1>1, <1>2, BytesAll
<1>. QED BY <1>1, <1>2, <1>3

(* What is before a position, in the index and in the bytes. *)
LeftOf(s, fl, left, i, c) ==
  /\ left \in Seq(Entries) /\ Disjoint(left) /\ LiveAll(left) \subseteq LiveAll(s)
  /\ LiveAll(left) = LiveAll(SubSeq(s, 1, i - 1)) \cup LiveAll(Cut(s[i], c))
  /\ Len(left) <= i
  /\ Total(left) = StartOf(s, i) + c
  /\ BytesOfAll(fl, left) \in Seq(Byte) /\ Len(BytesOfAll(fl, left)) = StartOf(s, i) + c
  /\ \A k \in 1 .. StartOf(s, i) + c : BytesOfAll(fl, s)[k] = BytesOfAll(fl, left)[k]

LEMMA LeftOfIs ==
  ASSUME NEW s \in Seq(Entries), LiveAll(s) \subseteq Sectors, Disjoint(s), NEW fl \in Flashes,
         NEW i \in DOMAIN s, NEW c \in 0 .. s[i].size - 1
  PROVE  LeftOf(s, fl, SubSeq(s, 1, i - 1) \o Cut(s[i], c), i, c)
<1>. DEFINE A     == SubSeq(s, 1, i - 1)
            k     == Cut(s[i], c)
            left  == A \o k
            first == Jump(s[i], c)
            t     == BytesOf(fl, first) \o BytesOfAll(fl, SubSeq(s, i + 1, Len(s)))
            p     == BytesOfAll(fl, left)
<1>1. /\ left \in Seq(Entries) /\ Disjoint(left) /\ Total(left) = StartOf(s, i) + c
      /\ LiveAll(left) = LiveAll(A) \cup LiveAll(k)
      /\ LiveAll(left) \subseteq LiveAll(s)
      /\ t \in Seq(Byte) /\ BytesOfAll(fl, s) = p \o t
  <2>1. IsLeft(s, i, c) BY LeftIs
  <2>. QED BY <2>1, Zenon DEF IsLeft
<1>2. A \in Seq(Entries) /\ Len(A) = i - 1 /\ i \in Nat BY SplitAt
<1>3. k \in Seq(Entries) /\ Len(k) \in {0, 1}
  <2>1. s[i] \in Entries /\ Live(s[i]) \subseteq Sectors BY LiveAllSectors
  <2>2. k \in Seq(Entries) BY <2>1, CutFacts
  <2>3. Len(<<>>) = 0 /\ \A y : Len(<<y>>) = 1 OBVIOUS
  <2>. QED BY <2>2, <2>3 DEF Cut
<1>4. Len(left) = Len(A) + Len(k)
  <2>. HIDE DEF A, k
  <2>. QED BY <1>2, <1>3, ConcatAt
<1>. HIDE DEF A, k, left, t
<1>5. Len(left) <= i
  <2>. DEFINE la == Len(A)
              lk == Len(k)
  <2>1. la = i - 1 /\ lk \in {0, 1} /\ i \in Nat /\ Len(left) = la + lk BY <1>2, <1>3, <1>4
  <2>. HIDE DEF la, lk
  <2>2. la + lk <= i BY <2>1
  <2>. QED BY <2>1, <2>2
<1>6. p \in Seq(Byte) /\ Len(p) = Total(left) BY <1>1, BytesAll
<1>7. \A j \in 1 .. StartOf(s, i) + c : BytesOfAll(fl, s)[j] = p[j]
  <2>. HIDE DEF p
  <2>1. \A j \in 1 .. Len(p) : (p \o t)[j] = p[j] BY <1>1, <1>6, Join
  <2>2. Len(p) = StartOf(s, i) + c BY <1>1, <1>6
  <2>. QED BY <1>1, <2>1, <2>2
<1>8. LeftOf(s, fl, left, i, c) BY <1>1, <1>5, <1>6, <1>7 DEF LeftOf, A, k
<1>. QED BY <1>8 DEF left, A, k

(* What is given back of the entry that is cut. *)
LEMMA FirstOld ==
  ASSUME NEW e \in Entries, Live(e) \subseteq Sectors, NEW c \in 0 .. e.size - 1,
         NEW first, first = Jump(e, c)
  PROVE  LET x == IF first.off > DataOff THEN PastFirst(first) ELSE first IN
         SectorsOf(x) \subseteq Live(e) /\ SectorsOf(x) \cap LiveAll(Cut(e, c)) = {}
<1>. DEFINE x == IF first.off > DataOff THEN PastFirst(first) ELSE first
<1>1. first \in Entries /\ Live(first) \subseteq Live(e) BY JumpIs
<1>2. first.sector \in Nat /\ first.off \in Nat /\ first.off >= DataOff /\ LastSec(first) \in Nat
  BY <1>1, EntryFacts, LiveFacts
<1>3. \A t \in LiveAll(Cut(e, c)) :
              t \in Nat /\ t <= first.sector /\ (first.off = DataOff => t < first.sector)
  BY CutFacts
<1>4. \A t \in Live(first) : t \in Nat /\ t >= first.sector BY <1>2 DEF Live
<1>5. CASE first.off > DataOff
  <2>1. SectorsOf(x) \subseteq Live(first) \ {first.sector} BY <1>1, <1>5, PastFirstIs
  <2>2. \A t \in SectorsOf(x) : t \in Nat /\ t > first.sector BY <1>2, <1>4, <2>1
  <2>. QED BY <1>1, <1>2, <1>3, <2>1, <2>2
<1>6. CASE ~ first.off > DataOff
  <2>1. first.off = DataOff BY <1>2, <1>6, SizesFacts
  <2>2. SectorsOf(x) = Live(first) BY <1>1, <1>6, SectorsOfEntry
  <2>3. \A t \in SectorsOf(x) : t \in Nat /\ t >= first.sector BY <1>4, <2>2
  <2>. QED BY <1>1, <1>2, <1>3, <2>1, <2>2, <2>3
<1>. QED BY <1>5, <1>6

LEMMA OldOfFirst ==
  ASSUME NEW x, NEW s \in Seq(Entries)
  PROVE  OldOf(<<x>> \o s) = SectorsOf(x) \cup LiveAll(s)
<1>. DEFINE S == Entries \cup {x}
            o == <<x>>
<1>1. o \in Seq(S) /\ s \in Seq(S) OBVIOUS
<1>2. OldOf(o) = SectorsOf(x) BY OldOfOne
<1>. HIDE DEF S, o
<1>3. OldOf(o \o s) = OldOf(o) \cup OldOf(s) BY <1>1, OldOfConcat
<1>. QED BY <1>2, <1>3, OldOfEntries DEF o

LEMMA RewriteEndIs ==
  ASSUME Inv, NEW m, Leaves(m, Content), ~ NoRoom(m),
         NEW pos \in Nat, NEW len \in Nat \ {0}, pos < size, pos + len >= size, pos + len <= MaxSize,
         RewriteEnd(m, pos, len), data' = data
  PROVE  Inv' /\ Allowed(Content, Content')
<1>. DEFINE c     == Content
            s     == m.index
            n     == Len(s)
            i     == EntryAt(s, pos)
            cut   == pos - StartOf(s, i)
            first == Jump(s[i], cut)
            begin == IF cut > 0 THEN <<[s[i] EXCEPT !.size = cut]>> ELSE <<>>
            x     == IF first.off > DataOff THEN PastFirst(first) ELSE first
            C     == SubSeq(s, i + 1, n)
            A     == SubSeq(s, 1, i - 1)
            old   == <<x>> \o C
            num   == CeilDiv(len, PerSector)
            bytes == Buffer(pos, len)
            left  == A \o begin
            After(b) == [GivenBack(Programmed(Alloc(m, b, num), b, DataOff, bytes), old)
                           EXCEPT !.index = left \o <<Place(b, DataOff, len)>>]
<1>1. \/ Stop
      \/ Become(m) /\ size' = size /\ fault' = fault
      \/ /\ \E b \in Runs(m, num) : Become(After(b))
         /\ size' = pos + len /\ fault' = fault
  BY DEF RewriteEnd
<1>2. CASE Stop
  <2>1. Inv' /\ Content' = Content BY <1>2, Stopped
  <2>. QED BY <2>1 DEF Allowed
<1>3. CASE Become(m) /\ size' = size /\ fault' = fault
  <2>1. Inv' /\ Content' = Content BY <1>3, Kept
  <2>. QED BY <2>1 DEF Allowed
<1>4. CASE /\ \E b \in Runs(m, num) : Become(After(b))
           /\ size' = pos + len /\ fault' = fault
  <2>1. PICK b \in Runs(m, num) : Become(After(b)) BY <1>4
  <2>2. Written(c) /\ size = Len(c) /\ size \in Nat /\ pos \in 0 .. Len(c) BY InvFacts DEF Inv
  <2>3. /\ m \in Memories /\ s \in Seq(Entries) /\ s # <<>> /\ m.flash \in Flashes
        /\ LiveAll(s) \subseteq m.taken /\ Disjoint(s) /\ m.taken \subseteq Sectors
        /\ LiveAll(s) \subseteq Sectors /\ BytesOfAll(m.flash, s) = c /\ Total(s) = Len(c)
        /\ n \in Nat /\ c \in Seq(Byte)
    BY LeavesFacts
  <2>4. /\ i \in DOMAIN s /\ s[i] \in Entries /\ StartOf(s, i) \in Nat
        /\ cut \in 0 .. s[i].size - 1
    BY <2>2, <2>3, EntryAtIs
  <2>5. bytes = NewBytes(c, pos, len) BY BufferIs
  <2>6. begin = Cut(s[i], cut) BY DEF Cut
  <2>7. n + 2 <= IndexMax BY <2>3, IndexAssumption DEF NoRoom
  <2>. DEFINE e == Place(b, DataOff, len)
              w == After(b)
  <2>. HIDE DEF c, s, i, bytes, begin
  <2>8. /\ A \in Seq(Entries) /\ C \in Seq(Entries) /\ Disjoint(C)
        /\ LiveAll(C) \subseteq LiveAll(s) /\ Live(s[i]) \subseteq LiveAll(s)
        /\ LiveAll(A) \cap Live(s[i]) = {} /\ LiveAll(A) \cap LiveAll(C) = {}
        /\ Live(s[i]) \cap LiveAll(C) = {}
    BY <2>3, <2>4, Around
  <2>. HIDE DEF cut, C
  <2>9. LeftOf(s, m.flash, left, i, cut) BY <2>3, <2>4, <2>6, LeftOfIs
  <2>10. SectorsOf(x) \subseteq Live(s[i]) /\ SectorsOf(x) \cap LiveAll(Cut(s[i], cut)) = {}
         /\ LiveAll(Cut(s[i], cut)) \subseteq Live(s[i])
    <3>1. Live(s[i]) \subseteq Sectors BY <2>3, <2>8
    <3>2. first = Jump(s[i], cut) OBVIOUS
    <3>3. LiveAll(Cut(s[i], cut)) \subseteq Live(s[i]) BY <2>4, <3>1, CutFacts
    <3>. HIDE DEF first
    <3>. QED BY <2>4, <3>1, <3>2, <3>3, FirstOld
  <2>. HIDE DEF x, A
  <2>11. OldOf(old) = SectorsOf(x) \cup LiveAll(C) BY <2>8, OldOfFirst
  <2>. HIDE DEF old, left
  <2>12. /\ left \in Seq(Entries) /\ Disjoint(left) /\ LiveAll(left) \subseteq LiveAll(s)
         /\ LiveAll(left) = LiveAll(A) \cup LiveAll(Cut(s[i], cut))
         /\ Len(left) <= i
         /\ BytesOfAll(m.flash, left) \in Seq(Byte)
         /\ Len(BytesOfAll(m.flash, left)) = StartOf(s, i) + cut
         /\ \A k \in 1 .. StartOf(s, i) + cut :
              BytesOfAll(m.flash, s)[k] = BytesOfAll(m.flash, left)[k]
    BY <2>9 DEF LeftOf, A
  <2>13. StartOf(s, i) + cut = pos BY <2>4 DEF cut
  <2>14. <<>> \in Seq(Entries) /\ LiveAll(<<>>) = {} /\ Disjoint(<<>>) /\ Len(<<>>) = 0
         /\ BytesOfAll(m.flash, <<>>) = <<>> /\ <<>> \in Seq(Byte)
    BY LiveEmpty, FoldsEmpty
  <2>15. Keeps(m, OldOf(old), left, <<>>)
    <3>1. OldOf(old) \subseteq m.taken BY <2>3, <2>8, <2>10, <2>11
    <3>2. OldOf(old) \cap LiveAll(left) = {} BY <2>8, <2>10, <2>11, <2>12
    <3>. QED BY <2>3, <2>12, <2>14, <3>1, <3>2 DEF Keeps, LastErased
  <2>16. bytes \in Seq(Byte) /\ Len(bytes) = len BY <2>2, <2>5, NewBytesTyped
  <2>17. e \in Entries BY <2>1, <2>3, <2>16, NewRun
  <2>18. Renewed(m, [GivenBack(Programmed(Alloc(m, b, num), b, DataOff, bytes), old)
                       EXCEPT !.index = left \o <<e>> \o <<>>], left, e, <<>>, bytes)
    BY <2>1, <2>3, <2>15, <2>16, PlacedBack
  <2>. HIDE DEF e
  <2>19. left \o <<e>> \o <<>> = left \o <<e>>
    <3>. DEFINE q == left \o <<e>>
    <3>1. q \in Seq(Entries) BY <2>12, <2>17, ConcatThree
    <3>. HIDE DEF q
    <3>2. q \o <<>> = q BY <3>1, ConcatThree
    <3>. QED BY <3>2, Zenon DEF q
  <2>20. Renewed(m, w, left, e, <<>>, bytes) BY <2>18, <2>19, Zenon DEF e
  <2>21. Become(w) BY <2>1
  <2>. HIDE DEF w
  <2>22. Beside(c, pos, len, BytesOfAll(m.flash, left), BytesOfAll(m.flash, <<>>))
    <3>. DEFINE p == BytesOfAll(m.flash, left)
    <3>1. p \in Seq(Byte) /\ Len(p) = pos /\ \A k \in 1 .. pos : c[k] = p[k]
      BY <2>3, <2>12, <2>13
    <3>2. Len(<<>>) = IF pos + len > Len(c) THEN 0 ELSE Len(c) - (pos + len) BY <2>2, <2>14
    <3>. HIDE DEF p
    <3>3. Beside(c, pos, len, p, <<>>) BY <2>14, <3>1, <3>2 DEF Beside
    <3>. QED BY <2>14, <3>3, Zenon DEF p
  <2>23. Len(left) + 1 + Len(<<>>) <= IndexMax
    <3>1. Len(left) \in Nat /\ i \in Nat /\ i <= n BY <2>3, <2>4, <2>12
    <3>. QED BY <2>7, <2>12, <2>14, <3>1, IndexAssumption
  <2>24. size' = IF pos + len > size THEN pos + len ELSE size
    BY <1>4, <2>2
  <2>25. Renewed(m, w, left, e, <<>>, NewBytes(c, pos, len)) BY <2>5, <2>20, Zenon
  <2>. QED
    BY <1>4, <2>2, <2>12, <2>14, <2>17, <2>21, <2>22, <2>23, <2>24, <2>25, Rewrote DEF c
<1>. QED BY <1>1, <1>2, <1>3, <1>4

(* index_jump of what index_jump returns. *)
LEMMA SameEntry ==
  ASSUME NEW e \in Entries, NEW f \in Entries, Lin(e) = Lin(f), e.size = f.size
  PROVE  e = f
<1>1. /\ e.off - DataOff = Rem(Lin(e)) /\ e.sector = Sec(Lin(e)) /\ e.off \in Nat
      /\ e = Place(e.sector, e.off, e.size)
  BY EntryFacts
<1>2. /\ f.off - DataOff = Rem(Lin(f)) /\ f.sector = Sec(Lin(f)) /\ f.off \in Nat
      /\ f = Place(f.sector, f.off, f.size)
  BY EntryFacts
<1>3. e.off = f.off BY <1>1, <1>2, SizesFacts
<1>. QED BY <1>1, <1>2, <1>3

LEMMA JumpJump ==
  ASSUME NEW e \in Entries, Live(e) \subseteq Sectors, NEW c \in Nat, NEW u \in Nat,
         c + u < e.size
  PROVE  Jump(Jump(e, c), u) = Jump(e, c + u)
<1>. DEFINE f == Jump(e, c)
            g == Jump(f, u)
            h == Jump(e, c + u)
            d == c + u
<1>1. e.size \in Nat /\ Lin(e) \in Nat BY EntryFacts
<1>2. c \in 0 .. e.size - 1 /\ d \in 0 .. e.size - 1 BY <1>1
<1>3. f \in Entries /\ Lin(f) = Lin(e) + c /\ f.size = e.size - c /\ Live(f) \subseteq Live(e)
  BY <1>2, JumpIs
<1>. HIDE DEF f
<1>4. u \in 0 .. f.size - 1 /\ Live(f) \subseteq Sectors BY <1>1, <1>3
<1>5. g \in Entries /\ Lin(g) = Lin(f) + u /\ g.size = f.size - u BY <1>3, <1>4, JumpIs
<1>6. h \in Entries /\ Lin(h) = Lin(e) + (c + u) /\ h.size = e.size - (c + u)
  <2>. HIDE DEF d
  <2>1. Jump(e, d) \in Entries /\ Lin(Jump(e, d)) = Lin(e) + d /\ Jump(e, d).size = e.size - d
    BY <1>2, JumpIs
  <2>. QED BY <2>1 DEF d
<1>. HIDE DEF g, h
<1>7. Lin(g) = Lin(h) /\ g.size = h.size BY <1>1, <1>3, <1>5, <1>6
<1>8. g = h BY <1>5, <1>6, <1>7, SameEntry
<1>. QED BY <1>8 DEF f, g, h

(* What is after the bytes a rewrite replaces. *)
RightOf(s, fl, right, j, d) ==
  /\ right \in Seq(Entries) /\ Disjoint(right) /\ LiveAll(right) \subseteq LiveAll(s)
  /\ LiveAll(right) = Live(Jump(s[j], d)) \cup LiveAll(SubSeq(s, j + 1, Len(s)))
  /\ Len(right) = Len(s) - j + 1
  /\ LastErased(fl, s) => LastErased(fl, right)
  /\ BytesOfAll(fl, right) \in Seq(Byte)
  /\ Len(BytesOfAll(fl, right)) = Total(s) - (StartOf(s, j) + d)
  /\ \A k \in 1 .. Len(BytesOfAll(fl, right)) :
       BytesOfAll(fl, s)[StartOf(s, j) + d + k] = BytesOfAll(fl, right)[k]

OneFirst(fl, e, t, q) ==
  /\ q \in Seq(Entries) /\ Len(q) = Len(t) + 1
  /\ LiveAll(q) = Live(e) \cup LiveAll(t)
  /\ Disjoint(q) <=> (Disjoint(t) /\ Live(e) \cap LiveAll(t) = {})
  /\ BytesOfAll(fl, q) = BytesOf(fl, e) \o BytesOfAll(fl, t)
  /\ q[Len(q)] = IF t = <<>> THEN e ELSE t[Len(t)]

LEMMA OneFirstIs ==
  ASSUME NEW fl \in Flashes, NEW e \in Entries, NEW t \in Seq(Entries)
  PROVE  OneFirst(fl, e, t, <<e>> \o t)
<1>. DEFINE o == <<e>>
            q == o \o t
<1>1. o \in Seq(Entries) /\ LiveAll(o) = Live(e) /\ Disjoint(o) /\ BytesOfAll(fl, o) = BytesOf(fl, e)
      /\ Len(o) = 1 /\ o[Len(o)] = e
  BY FoldsOne, LiveOne
<1>. HIDE DEF o
<1>2. q \in Seq(Entries) /\ Len(q) = Len(o) + Len(t) BY <1>1, ConcatAt
<1>3. LiveAll(q) = LiveAll(o) \cup LiveAll(t) BY <1>1, LiveConcat
<1>4. Disjoint(q) <=> (Disjoint(o) /\ Disjoint(t) /\ LiveAll(o) \cap LiveAll(t) = {})
  BY <1>1, DisjointConcat
<1>5. BytesOfAll(fl, q) = BytesOfAll(fl, o) \o BytesOfAll(fl, t) BY <1>1, BytesConcat
<1>6. BytesOfAll(fl, q) = BytesOf(fl, e) \o BytesOfAll(fl, t) BY <1>1, <1>5, Zenon
<1>7. q[Len(q)] = IF t = <<>> THEN e ELSE t[Len(t)]
  <2>1. CASE t = <<>>
    <3>1. q = o BY <1>1, <2>1, ConcatThree
    <3>. QED BY <1>1, <2>1, <3>1
  <2>2. CASE t # <<>>
    <3>1. q[Len(q)] = t[Len(t)] BY <1>1, <2>2, LastOfConcat
    <3>. QED BY <2>2, <3>1
  <2>. QED BY <2>1, <2>2
<1>8. Len(q) = Len(t) + 1 BY <1>1, <1>2
<1>9. LiveAll(q) = Live(e) \cup LiveAll(t)
      /\ (Disjoint(q) <=> (Disjoint(t) /\ Live(e) \cap LiveAll(t) = {}))
  BY <1>1, <1>3, <1>4, Zenon
<1>. HIDE DEF q
<1>10. q \in Seq(Entries) BY <1>2
<1>11. OneFirst(fl, e, t, q) BY <1>6, <1>7, <1>8, <1>9, <1>10, Zenon DEF OneFirst
<1>. QED BY <1>11 DEF o, q

LEMMA RightOfIs ==
  ASSUME NEW s \in Seq(Entries), LiveAll(s) \subseteq Sectors, Disjoint(s), NEW fl \in Flashes,
         NEW j \in DOMAIN s, NEW d \in 0 .. s[j].size - 1
  PROVE  RightOf(s, fl, <<Jump(s[j], d)>> \o SubSeq(s, j + 1, Len(s)), j, d)
<1>. DEFINE C     == SubSeq(s, j + 1, Len(s))
            end   == Jump(s[j], d)
            right == <<end>> \o C
            left  == SubSeq(s, 1, j - 1) \o Cut(s[j], d)
            p     == BytesOfAll(fl, left)
            q     == BytesOfAll(fl, right)
<1>1. /\ C \in Seq(Entries) /\ Len(C) = Len(s) - j /\ j \in Nat /\ Len(s) \in Nat
      /\ Disjoint(C) /\ LiveAll(C) \subseteq LiveAll(s) /\ s[j] \in Entries
      /\ Live(s[j]) \cap LiveAll(C) = {} /\ Live(s[j]) \subseteq LiveAll(s)
  <2>1. Len(C) = Len(s) - j /\ j \in Nat /\ Len(s) \in Nat BY SplitAt
  <2>. QED BY <2>1, Around
<1>2. end \in Entries /\ Live(end) \subseteq Live(s[j]) /\ LastSec(end) = LastSec(s[j])
      /\ Lin(end) = Lin(s[j]) + d /\ end.size = s[j].size - d
  <2>1. Live(s[j]) \subseteq Sectors BY <1>1
  <2>. QED BY <1>1, <2>1, JumpIs
<1>3. left \in Seq(Entries) /\ Total(left) = StartOf(s, j) + d
      /\ BytesOfAll(fl, s) = p \o (BytesOf(fl, end) \o BytesOfAll(fl, C))
  <2>1. IsLeft(s, j, d) BY LeftIs
  <2>. QED BY <2>1, Zenon DEF IsLeft
<1>. HIDE DEF C, end, left
<1>4. /\ right \in Seq(Entries) /\ Len(right) = Len(C) + 1
      /\ LiveAll(right) = Live(end) \cup LiveAll(C)
      /\ Disjoint(right) <=> (Disjoint(C) /\ Live(end) \cap LiveAll(C) = {})
      /\ q = BytesOf(fl, end) \o BytesOfAll(fl, C)
      /\ right[Len(right)] = IF C = <<>> THEN end ELSE C[Len(C)]
  <2>1. OneFirst(fl, end, C, right) BY <1>1, <1>2, OneFirstIs
  <2>. HIDE DEF right, q
  <2>2. q = BytesOfAll(fl, right) BY DEF q
  <2>. QED BY <2>1, <2>2, Zenon DEF OneFirst
<1>. HIDE DEF right
<1>5. p \in Seq(Byte) /\ Len(p) = StartOf(s, j) + d /\ q \in Seq(Byte)
      /\ StartOf(s, j) \in Nat /\ d \in Nat
  <2>1. p \in Seq(Byte) /\ Len(p) = Total(left) BY <1>3, BytesAll
  <2>2. q \in Seq(Byte) BY <1>4, BytesAll
  <2>3. StartOf(s, j) \in Nat BY StartFacts
  <2>. QED BY <1>3, <2>1, <2>2, <2>3
<1>6. BytesOfAll(fl, s) = p \o q BY <1>3, <1>4, Zenon
<1>7. Len(BytesOfAll(fl, s)) = Total(s) BY BytesAll
<1>. HIDE DEF p, q
<1>8. /\ Len(p \o q) = Len(p) + Len(q)
      /\ \A k \in 1 .. Len(q) : (p \o q)[Len(p) + k] = q[k]
  BY <1>5, Join
<1>9. Len(q) = Total(s) - (StartOf(s, j) + d)
  <2>. DEFINE lq == Len(q)
              a  == StartOf(s, j) + d
  <2>1. lq \in Nat /\ a \in Nat /\ Total(s) = a + lq BY <1>5, <1>6, <1>7, <1>8
  <2>. HIDE DEF lq, a
  <2>2. lq = Total(s) - a BY <2>1
  <2>. QED BY <2>2 DEF lq, a
<1>10. \A k \in 1 .. Len(q) : BytesOfAll(fl, s)[StartOf(s, j) + d + k] = q[k]
  BY <1>5, <1>6, <1>8
<1>11. Disjoint(right) /\ LiveAll(right) \subseteq LiveAll(s) BY <1>1, <1>2, <1>4
<1>12. Len(right) = Len(s) - j + 1 BY <1>1, <1>4
<1>13. ASSUME LastErased(fl, s) PROVE LastErased(fl, right)
  <2>1. s # <<>> /\ EndErased(fl, s[Len(s)])
    <3>1. s # <<>> OBVIOUS
    <3>. QED BY <1>13, <3>1 DEF LastErased
  <2>2. CASE C = <<>>
    <3>1. j = Len(s) BY <1>1, <2>2
    <3>2. EndErased(fl, s[j]) BY <2>1, <3>1
    <3>3. Lin(end) + end.size = Lin(s[j]) + s[j].size
      <4>1. Lin(s[j]) \in Nat /\ s[j].size \in Nat BY <1>1, EntryFacts
      <4>. QED BY <1>2, <1>5, <4>1
    <3>4. EndErased(fl, end) BY <1>2, <3>2, <3>3 DEF EndErased
    <3>. QED BY <1>4, <2>2, <3>4 DEF LastErased
  <2>3. CASE C # <<>>
    <3>1. C[Len(C)] = s[Len(s)]
      <4>1. Len(C) > 0 /\ Len(C) \in Nat BY <1>1, <2>3
      <4>. DEFINE k == Len(C)
                  n == Len(s)
      <4>2. k > 0 /\ k \in Nat /\ n \in Nat /\ j \in Nat /\ k = n - j BY <1>1, <4>1
      <4>. HIDE DEF k, n
      <4>3. k \in 1 .. n - j /\ j + 1 + k - 1 = n /\ j + 1 \in Nat BY <4>2
      <4>4. \A l \in 1 .. Len(s) - j : SubSeq(s, j + 1, Len(s))[l] = s[j + 1 + l - 1]
        BY <1>1
      <4>5. C[k] = s[j + 1 + k - 1] BY <4>3, <4>4 DEF C, n
      <4>. QED BY <4>3, <4>5 DEF k, n
    <3>. QED BY <1>4, <2>1, <2>3, <3>1 DEF LastErased
  <2>. QED BY <2>2, <2>3
<1>14. RightOf(s, fl, right, j, d)
  BY <1>4, <1>5, <1>9, <1>10, <1>11, <1>12, <1>13, Zenon DEF RightOf, q, end, C
<1>. QED BY <1>14 DEF right, end, C

LEMMA SubLive ==
  ASSUME NEW s \in Seq(Entries), NEW a \in Nat \ {0}, NEW b \in Nat, b <= Len(s),
         NEW t \in LiveAll(SubSeq(s, a, b))
  PROVE  \E l \in DOMAIN s : a <= l /\ l <= b /\ t \in Live(s[l])
<1>. DEFINE q == SubSeq(s, a, b)
<1>1. PICK k \in DOMAIN q : t \in Live(q[k]) BY DEF LiveAll
<1>2. k \in 1 .. b - a + 1 /\ q[k] = s[a + k - 1] BY <1>1
<1>. HIDE DEF q
<1>3. a + k - 1 \in 1 .. Len(s) /\ a <= a + k - 1 /\ a + k - 1 <= b BY <1>2
<1>. QED BY <1>1, <1>2, <1>3

(* What an entry gives back when the bytes from one of its own positions on *)
(* up to another are rewritten: i to j are the entries the rewrite touches. *)
GivenOf(s, i, j, k, first, x, u) ==
  IF k = i
  THEN IF i # j THEN PastFirst(first)
       ELSE IF Gone(x, u).sector # Null THEN PastFirst(Gone(x, u)) ELSE Gone(x, u)
  ELSE IF k = j THEN Gone(x, u) ELSE s[k]

(* Sectors of the entries between, and none of what is left of them. *)
Given(s, i, j, c, end, G) ==
  /\ \A t \in G : \E k \in DOMAIN s : i <= k /\ k <= j /\ t \in Live(s[k])
  /\ G \cap LiveAll(Cut(s[i], c)) = {} /\ G \cap Live(end) = {}

LEMMA GoneOf ==
  ASSUME NEW x \in Entries, Live(x) \subseteq Sectors, NEW u \in 1 .. x.size - 1,
         NEW e, e = IF Gone(x, u).sector # Null THEN PastFirst(Gone(x, u)) ELSE Gone(x, u)
  PROVE  /\ SectorsOf(Gone(x, u)) \subseteq Live(x)
         /\ SectorsOf(Gone(x, u)) \cap Live(Jump(x, u)) = {}
         /\ SectorsOf(e) \subseteq SectorsOf(Gone(x, u))
         /\ \A t \in SectorsOf(e) : t \in Nat /\ t > x.sector
<1>. DEFINE g   == Gone(x, u)
            end == Jump(x, u)
<1>1. /\ end \in Entries /\ end.sector \in Nat
      /\ \A t \in Live(end) : t \in Nat /\ t >= end.sector
      /\ g.sector = Null => SectorsOf(g) = {}
      /\ g.sector # Null => /\ g \in Entries /\ g.sector = x.sector
                            /\ Live(g) \subseteq Live(x) /\ SectorsOf(g) = Live(g)
                            /\ \A t \in Live(g) : t \in Nat /\ t < end.sector
  BY GoneIs
<1>. HIDE DEF g, end
<1>2. CASE g.sector = Null
  <2>1. e = g BY <1>2 DEF g
  <2>2. SectorsOf(g) = {} BY <1>1, <1>2
  <2>. QED BY <2>1, <2>2 DEF g
<1>3. CASE g.sector # Null
  <2>1. e = PastFirst(g) BY <1>3 DEF g
  <2>2. g \in Entries /\ SectorsOf(g) = Live(g) /\ Live(g) \subseteq Live(x) /\ g.sector = x.sector
        /\ \A t \in Live(g) : t \in Nat /\ t < end.sector
    BY <1>1, <1>3
  <2>3. SectorsOf(e) \subseteq Live(g) \ {x.sector} BY <2>1, <2>2, PastFirstIs
  <2>4. \A t \in SectorsOf(e) : t \in Nat /\ t > x.sector
    <3>1. \A t \in Live(g) : t \in Nat /\ t >= g.sector BY <2>2 DEF Live
    <3>2. x.sector \in Nat BY EntryFacts
    <3>. QED BY <2>2, <2>3, <3>1, <3>2
  <2>5. SectorsOf(g) \cap Live(end) = {}
    <3>. SUFFICES ASSUME NEW t \in Live(g), t \in Live(end) PROVE FALSE BY <2>2
    <3>. QED BY <1>1, <2>2
  <2>6. SectorsOf(g) \subseteq Live(x) /\ SectorsOf(e) \subseteq SectorsOf(g) BY <2>2, <2>3
  <2>. QED BY <2>4, <2>5, <2>6 DEF g, end
<1>. QED BY <1>2, <1>3

Clear(s, i, c, k, end, G) ==
  G \subseteq Live(s[k]) /\ G \cap LiveAll(Cut(s[i], c)) = {} /\ G \cap Live(end) = {}

LEMMA InsideGiven ==
  ASSUME NEW s \in Seq(Entries), LiveAll(s) \subseteq Sectors, Disjoint(s),
         NEW i \in DOMAIN s, NEW j \in DOMAIN s, i <= j, NEW c \in 0 .. s[i].size - 1,
         NEW first, first = Jump(s[i], c), NEW x, x = (IF i = j THEN first ELSE s[j]),
         NEW u \in 1 .. x.size - 1, NEW k \in DOMAIN s, i <= k, k <= j,
         NEW o, o = GivenOf(s, i, j, k, first, x, u)
  PROVE  Clear(s, i, c, k, Jump(x, u), SectorsOf(o))
<1>. DEFINE C   == LiveAll(Cut(s[i], c))
            g   == Gone(x, u)
            end == Jump(x, u)
            G   == SectorsOf(g)
            E   == Live(end)
            O   == SectorsOf(o)
<1>1. /\ s[i] \in Entries /\ s[j] \in Entries /\ s[k] \in Entries
      /\ Live(s[i]) \subseteq Sectors /\ Live(s[j]) \subseteq Sectors
      /\ i \in Nat /\ j \in Nat /\ k \in Nat
  BY LiveAllSectors
<1>2. first \in Entries /\ Live(first) \subseteq Live(s[i]) BY <1>1, JumpIs
<1>3. C \subseteq Live(s[i]) /\ \A t \in C : t \in Nat /\ t <= first.sector
  BY <1>1, CutFacts
<1>4. x \in Entries /\ Live(x) \subseteq Live(s[j]) /\ Live(x) \subseteq Sectors
  BY <1>1, <1>2
<1>5. G \subseteq Live(x) /\ G \cap E = {} /\ E \subseteq Live(x)
  <2>1. G \subseteq Live(x) /\ G \cap E = {} BY <1>4, GoneOf
  <2>2. E \subseteq Live(x)
    <3>1. u \in 0 .. x.size - 1 OBVIOUS
    <3>. QED BY <1>4, <3>1, JumpIs
  <2>. QED BY <2>1, <2>2
<1>6. \A a, b \in DOMAIN s : a # b => Live(s[a]) \cap Live(s[b]) = {} BY DEF Disjoint
<1>7. first.sector \in Nat BY <1>2, EntryFacts
<1>8. Live(s[i]) \subseteq Sectors /\ Live(s[j]) \subseteq Sectors BY <1>1
<1>. HIDE DEF C, g, end, G, E, O
<1>9. CASE i = j
  <2>1. k = i /\ x = first BY <1>1, <1>9
  <2>2. o = IF Gone(x, u).sector # Null THEN PastFirst(Gone(x, u)) ELSE Gone(x, u)
    BY <1>9, <2>1 DEF GivenOf
  <2>3. O \subseteq G /\ \A t \in O : t \in Nat /\ t > first.sector
    BY <1>4, <2>1, <2>2, GoneOf DEF O, G, g
  <2>4. O \subseteq Live(s[k]) /\ O \cap E = {} BY <1>4, <1>5, <1>9, <2>1, <2>3
  <2>5. O \cap C = {}
    <3>. SUFFICES ASSUME NEW t \in O, t \in C PROVE FALSE OBVIOUS
    <3>. QED BY <1>3, <1>7, <2>3
  <2>. QED BY <2>4, <2>5 DEF Clear, O, C, E, end
<1>10. CASE i # j /\ k = i
  <2>1. o = PastFirst(first) BY <1>10 DEF GivenOf
  <2>2. O \subseteq Live(first) \ {first.sector} BY <1>2, <2>1, PastFirstIs DEF O
  <2>3. \A t \in O : t \in Nat /\ t > first.sector
    <3>1. \A t \in Live(first) : t \in Nat /\ t >= first.sector BY <1>2, LiveFacts DEF Live
    <3>. QED BY <1>7, <2>2, <3>1
  <2>4. O \cap C = {}
    <3>. SUFFICES ASSUME NEW t \in O, t \in C PROVE FALSE OBVIOUS
    <3>. QED BY <1>3, <1>7, <2>3
  <2>5. O \subseteq Live(s[k]) BY <1>2, <1>10, <2>2
  <2>6. O \cap E = {} BY <1>4, <1>5, <1>6, <1>10, <2>5
  <2>. QED BY <2>4, <2>5, <2>6 DEF Clear, O, C, E, end
<1>11. CASE k # i /\ k = j
  <2>1. o = g BY <1>11 DEF GivenOf, g
  <2>2. O = G BY <2>1 DEF O, G
  <2>3. O \subseteq Live(s[k]) /\ O \cap E = {} BY <1>4, <1>5, <1>11, <2>2
  <2>4. O \cap C = {} BY <1>3, <1>6, <1>11, <2>3
  <2>. QED BY <2>3, <2>4 DEF Clear, O, C, E, end
<1>12. CASE k # i /\ k # j
  <2>1. o = s[k] BY <1>12 DEF GivenOf
  <2>2. O = Live(s[k]) BY <1>1, <2>1, SectorsOfEntry DEF O
  <2>3. O \cap C = {} BY <1>3, <1>6, <1>12, <2>2
  <2>4. O \cap E = {} BY <1>4, <1>5, <1>6, <1>12, <2>2
  <2>. QED BY <2>2, <2>3, <2>4 DEF Clear, O, C, E, end
<1>. QED BY <1>9, <1>10, <1>11, <1>12

LEMMA SubSeqAt ==
  ASSUME NEW S, NEW s \in Seq(S), NEW i \in Nat \ {0}, NEW j \in Nat, i <= j, j <= Len(s)
  PROVE  /\ DOMAIN SubSeq(s, i, j) = 1 .. j - i + 1
         /\ \A l \in 1 .. j - i + 1 :
              /\ SubSeq(s, i, j)[l] = s[i + l - 1] /\ i + l - 1 \in i .. j
              /\ i + l - 1 \in 1 .. Len(s)
OBVIOUS

(* What the rewrite inside the file gives back. *)
OldEntries(s, i, j, first, x, u, old) ==
  /\ old = [k \in DOMAIN s |-> old[k]]
  /\ \A k \in i .. j : old[k] = GivenOf(s, i, j, k, first, x, u)

LEMMA AllGiven ==
  ASSUME NEW s \in Seq(Entries), LiveAll(s) \subseteq Sectors, Disjoint(s),
         NEW i \in DOMAIN s, NEW j \in DOMAIN s, i <= j, NEW c \in 0 .. s[i].size - 1,
         NEW first, first = Jump(s[i], c), NEW x, x = (IF i = j THEN first ELSE s[j]),
         NEW u \in 1 .. x.size - 1, NEW old, OldEntries(s, i, j, first, x, u, old)
  PROVE  Given(s, i, j, c, Jump(x, u), OldOf(SubSeq(old, i, j)))
<1>. USE DEF OldEntries
<1>. DEFINE q == SubSeq(old, i, j)
            S == {old[k] : k \in DOMAIN s}
<1>1. i \in Nat /\ j \in Nat /\ i >= 1 /\ j <= Len(s) /\ DOMAIN s = 1 .. Len(s) /\ Len(s) \in Nat
  OBVIOUS
<1>2. old \in Seq(S) /\ Len(old) = Len(s)
  <2>1. old \in [1 .. Len(s) -> S] BY <1>1
  <2>. QED BY <1>1, <2>1
<1>3. \A l \in DOMAIN q : i + l - 1 \in i .. j /\ q[l] = old[i + l - 1] /\ i + l - 1 \in DOMAIN s
  <2>. HIDE DEF S
  <2>1. i \in Nat \ {0} /\ j <= Len(old) BY <1>1, <1>2
  <2>2. /\ DOMAIN q = 1 .. j - i + 1
        /\ \A l \in 1 .. j - i + 1 :
             q[l] = old[i + l - 1] /\ i + l - 1 \in i .. j /\ i + l - 1 \in 1 .. Len(old)
    BY <1>1, <1>2, <2>1, SubSeqAt
  <2>. HIDE DEF q
  <2>. QED BY <1>1, <1>2, <2>2
<1>. HIDE DEF q, S
<1>4. \A l \in DOMAIN q : \E k \in DOMAIN s :
        i <= k /\ k <= j /\ Clear(s, i, c, k, Jump(x, u), SectorsOf(q[l]))
  <2>. TAKE l \in DOMAIN q
  <2>. DEFINE k == i + l - 1
              o == old[k]
  <2>1. k \in i .. j /\ k \in DOMAIN s /\ q[l] = o BY <1>3
  <2>. HIDE DEF k
  <2>2. o = GivenOf(s, i, j, k, first, x, u) BY <2>1
  <2>. HIDE DEF o
  <2>3. i <= k /\ k <= j BY <1>1, <2>1
  <2>4. Clear(s, i, c, k, Jump(x, u), SectorsOf(o))
    BY <2>1, <2>2, <2>3, InsideGiven
  <2>. QED BY <2>1, <2>3, <2>4
<1>5. OldOf(q) = UNION {SectorsOf(q[l]) : l \in DOMAIN q} BY DEF OldOf
<1>6. \A t \in OldOf(q) : \E l \in DOMAIN q : t \in SectorsOf(q[l]) BY <1>5
<1>7. Given(s, i, j, c, Jump(x, u), OldOf(q))
  <2>1. \A t \in OldOf(q) : /\ \E k \in DOMAIN s : i <= k /\ k <= j /\ t \in Live(s[k])
                            /\ t \notin LiveAll(Cut(s[i], c)) /\ t \notin Live(Jump(x, u))
    <3>. TAKE t \in OldOf(q)
    <3>1. PICK l \in DOMAIN q : t \in SectorsOf(q[l]) BY <1>6
    <3>. QED BY <1>4, <3>1 DEF Clear
  <2>. QED BY <2>1 DEF Given
<1>. QED BY <1>7 DEF q

Joined(s, t, b) ==
  /\ \A k \in 1 .. Len(s) : b[k] = s[k]
  /\ \A k \in 1 .. Len(t) : b[Len(s) + k] = t[k]

LEMMA JoinEntries ==
  ASSUME NEW s \in Seq(Entries), NEW t \in Seq(Entries)
  PROVE  Joined(s, t, s \o t)
BY DEF Joined

(* Where a rewrite inside the file begins and ends. *)
LEMMA WorkSub ==
  ASSUME NEW s \in Seq(Entries), NEW i \in DOMAIN s, NEW j \in DOMAIN s, i < j,
         NEW first \in Entries
  PROVE  SubSeq([s EXCEPT ![i] = first], i, j - 1) = <<first>> \o SubSeq(s, i + 1, j - 1)
<1>. DEFINE work == [s EXCEPT ![i] = first]
            a    == SubSeq(work, i, j - 1)
            o    == <<first>>
            t    == SubSeq(s, i + 1, j - 1)
            b    == o \o t
<1>1. i \in Nat /\ j \in Nat /\ i >= 1 /\ j <= Len(s) /\ Len(s) \in Nat OBVIOUS
<1>2. work \in Seq(Entries) /\ Len(work) = Len(s) /\ work[i] = first
      /\ \A k \in DOMAIN s : k # i => work[k] = s[k]
  OBVIOUS
<1>. HIDE DEF work
<1>3. a \in Seq(Entries) /\ Len(a) = j - i /\ \A k \in 1 .. j - i : a[k] = work[i + k - 1]
  BY <1>1, <1>2
<1>4. t \in Seq(Entries) /\ Len(t) = j - i - 1 /\ \A k \in 1 .. j - i - 1 : t[k] = s[i + k]
  BY <1>1
<1>5. o \in Seq(Entries) /\ Len(o) = 1 /\ o[1] = first OBVIOUS
<1>. HIDE DEF a, t, o
<1>6. b \in Seq(Entries) /\ Len(b) = j - i /\ b[1] = first
      /\ \A k \in 1 .. j - i - 1 : b[k + 1] = t[k]
  <2>1. b \in Seq(Entries) /\ Len(b) = Len(o) + Len(t) BY <1>4, <1>5, ConcatAt
  <2>2. b[1] = o[1] /\ \A k \in 1 .. Len(t) : b[Len(o) + k] = t[k]
    <3>1. Joined(o, t, b) BY <1>4, <1>5, JoinEntries
    <3>. HIDE DEF b
    <3>. QED BY <1>5, <3>1 DEF Joined
  <2>3. Len(b) = j - i BY <1>1, <1>4, <1>5, <2>1
  <2>4. \A k \in 1 .. j - i - 1 : b[k + 1] = t[k]
    <3>. HIDE DEF b
    <3>1. \A k \in 1 .. j - i - 1 : b[1 + k] = t[k] BY <1>4, <1>5, <2>2
    <3>. QED BY <1>1, <3>1
  <2>. HIDE DEF b
  <2>. QED BY <1>5, <2>1, <2>2, <2>3, <2>4
<1>. HIDE DEF b
<1>7. \A k \in 1 .. j - i : a[k] = b[k]
  <2>. TAKE k \in 1 .. j - i
  <2>1. CASE k = 1 BY <1>1, <1>2, <1>3, <1>6, <2>1
  <2>2. CASE k # 1
    <3>1. k - 1 \in 1 .. j - i - 1 /\ i + (k - 1) = i + k - 1 /\ i + k - 1 \in 1 .. Len(s)
          /\ i + k - 1 # i /\ k - 1 + 1 = k
      BY <1>1, <2>2
    <3>2. b[k] = t[k - 1] BY <1>6, <3>1
    <3>3. t[k - 1] = s[i + k - 1] BY <1>4, <3>1
    <3>4. a[k] = work[i + k - 1] BY <1>3
    <3>5. work[i + k - 1] = s[i + k - 1] BY <1>2, <3>1
    <3>. QED BY <3>2, <3>3, <3>4, <3>5
  <2>. QED BY <2>1, <2>2
<1>8. a = b BY <1>3, <1>6, <1>7, SeqEqual
<1>. QED BY <1>8 DEF a, b, o, t, work

LEMMA JumpTwice ==
  ASSUME NEW e \in Entries, Live(e) \subseteq Sectors, NEW c \in Nat, NEW u \in Nat,
         NEW f, f = Jump(e, c), NEW d, d = c + u, d < e.size
  PROVE  Jump(f, u) = Jump(e, d)
<1>1. c + u < e.size OBVIOUS
<1>2. Jump(Jump(e, c), u) = Jump(e, c + u) BY <1>1, JumpJump
<1>. QED BY <1>2, Zenon

One(pos, len, S, z, c, f, d, u) ==
  /\ pos \in Nat /\ len \in Nat \ {0} /\ S \in Nat /\ z \in Nat
  /\ S <= pos /\ pos + len - 1 < S + z
  /\ c = pos - S /\ f = z - c /\ d = pos + len - S /\ u = len

LEMMA SpanOfOne ==
  ASSUME NEW pos, NEW len, NEW S, NEW z, NEW c, NEW f, NEW d, NEW u,
         One(pos, len, S, z, c, f, d, u)
  PROVE  d = c + u /\ u \in 1 .. f /\ (u # f => c + u < z)
<1>1. c \in Nat /\ f \in Int BY DEF One
<1>2. d = c + u BY DEF One
<1>3. c + len <= z BY <1>1 DEF One
<1>4. u \in 1 .. f BY <1>1, <1>3 DEF One
<1>5. u # f => c + u < z BY <1>1, <1>3 DEF One
<1>. QED BY <1>2, <1>4, <1>5

More(pos, len, S, z, w, T, y, c, f, v, u, d) ==
  /\ pos \in Nat /\ len \in Nat /\ S \in Nat /\ z \in Nat /\ w \in Nat /\ T \in Nat /\ y \in Nat
  /\ T = S + z + w /\ S <= pos /\ T <= pos + len - 1 /\ pos + len - 1 < T + y
  /\ c = pos - S /\ f = z - c /\ v = f + w /\ u = len - v /\ d = pos + len - T

LEMMA SpanOfMore ==
  ASSUME NEW pos, NEW len, NEW S, NEW z, NEW w, NEW T, NEW y, NEW c, NEW f, NEW v, NEW u, NEW d,
         More(pos, len, S, z, w, T, y, c, f, v, u, d)
  PROVE  u = d /\ d \in 1 .. y
<1>1. d \in 1 .. y BY DEF More
<1>2. c \in Int /\ f \in Int /\ v \in Int /\ u \in Int BY DEF More
<1>3. u = len - ((z - (pos - S)) + w) BY DEF More
<1>4. u = d BY <1>3 DEF More
<1>. QED BY <1>1, <1>4

LEMMA StartAdds == \A a, S \in Nat : S + (a - S) = a
OBVIOUS

InsideAt(s, pos, len, i, j, c, first, x, u, d) ==
  /\ i \in DOMAIN s /\ j \in DOMAIN s /\ i <= j
  /\ StartOf(s, i) \in Nat /\ StartOf(s, i) + c = pos /\ c \in 0 .. s[i].size - 1
  /\ first \in Entries /\ x = (IF i = j THEN first ELSE s[j])
  /\ x \in Entries /\ u \in 1 .. x.size
  /\ StartOf(s, j) \in Nat /\ StartOf(s, j) + d = pos + len
  /\ u # x.size => (d \in 0 .. s[j].size - 1 /\ Jump(x, u) = Jump(s[j], d))

(* The code's names for the two places. *)
Places(s, pos, len, i, j, c, first, work, x, u, d) ==
  /\ i = EntryAt(s, pos) /\ j = EntryAt(s, pos + len - 1)
  /\ c = pos - StartOf(s, i) /\ first = Jump(s[i], c) /\ work = [s EXCEPT ![i] = first] /\ x = work[j]
  /\ u = len - Total(SubSeq(work, i, j - 1)) /\ d = pos + len - StartOf(s, j)

LEMMA InsideAtIs ==
  ASSUME NEW s \in Seq(Entries), LiveAll(s) \subseteq Sectors,
         NEW pos \in Nat, NEW len \in Nat \ {0}, pos + len <= Total(s),
         NEW i, NEW j, NEW c, NEW first, NEW work, NEW x, NEW u, NEW d,
         Places(s, pos, len, i, j, c, first, work, x, u, d)
  PROVE  InsideAt(s, pos, len, i, j, c, first, x, u, d)
<1>1. Total(s) \in Nat BY TotalNat
<1>. USE DEF Places
<1>. DEFINE q == pos + len - 1
<1>2. q \in Nat /\ q < Total(s) /\ pos <= q /\ pos < Total(s) BY <1>1
<1>3. /\ i \in DOMAIN s /\ s[i] \in Entries /\ StartOf(s, i) \in Nat
      /\ StartOf(s, i) <= pos /\ pos < StartOf(s, i) + s[i].size
      /\ s[i].size \in Nat /\ c \in 0 .. s[i].size - 1
  BY <1>2, EntryAtIs
<1>4. /\ j \in DOMAIN s /\ s[j] \in Entries /\ StartOf(s, j) \in Nat
      /\ StartOf(s, j) <= q /\ q < StartOf(s, j) + s[j].size /\ s[j].size \in Nat
  <2>. HIDE DEF q
  <2>1. j = EntryAt(s, q) BY DEF q
  <2>. QED BY <1>2, <2>1, EntryAtIs
<1>5. i <= j
  <2>. HIDE DEF q
  <2>1. EntryAt(s, pos) <= EntryAt(s, q) BY <1>2, EntryOrder
  <2>. QED BY <2>1 DEF q
<1>6. Live(s[i]) \subseteq Sectors BY <1>3, LiveAllSectors
<1>7. first \in Entries /\ first.size = s[i].size - c BY <1>3, <1>6, JumpIs
<1>8. x = IF i = j THEN first ELSE s[j] BY <1>3, <1>4
<1>9. StartOf(s, i) + c = pos /\ StartOf(s, j) + d = pos + len
  <2>1. pos + len \in Nat OBVIOUS
  <2>. QED BY <1>3, <1>4, <2>1, StartAdds
<1>10. CASE i = j
  <2>1. SubSeq(work, i, j - 1) = <<>> BY <1>3, <1>10
  <2>2. Total(SubSeq(work, i, j - 1)) = 0 BY <2>1, FoldsEmpty
  <2>3. u = len BY <2>2
  <2>4. d = c + u /\ u \in 1 .. first.size /\ (u # first.size => c + u < s[i].size)
    <3>. DEFINE S == StartOf(s, i)
                z == s[i].size
                f == first.size
    <3>1. S \in Nat /\ z \in Nat /\ c \in 0 .. z - 1 /\ S + c = pos /\ f = z - c
          /\ q < S + z /\ d = pos + len - S /\ u = len
      BY <1>3, <1>4, <1>7, <1>9, <1>10, <2>3
    <3>. HIDE DEF S, z, f
    <3>2. S \in Nat /\ z \in Nat /\ S <= pos /\ c = pos - S /\ len > 0 BY <1>3, <3>1 DEF S
    <3>3. One(pos, len, S, z, c, f, d, u) BY <3>1, <3>2 DEF One
    <3>4. d = c + u /\ u \in 1 .. f /\ (u # f => c + u < z)
      <4>. HIDE DEF q
      <4>. QED BY <3>3, SpanOfOne
    <3>. QED BY <3>4 DEF f, z
  <2>5. ASSUME u # first.size PROVE d \in 0 .. s[i].size - 1 /\ Jump(first, u) = Jump(s[i], d)
    <3>1. c + u < s[i].size /\ c \in Nat /\ u \in Nat BY <1>3, <1>7, <2>4, <2>5
    <3>2. d = c + u /\ d < s[i].size /\ first = Jump(s[i], c) BY <2>4, <3>1
    <3>. HIDE DEF Places, q
    <3>3. Jump(first, u) = Jump(s[i], d)
      <4>. DEFINE y == s[i]
      <4>1. y \in Entries /\ Live(y) \subseteq Sectors /\ first = Jump(y, c) /\ d < y.size
            /\ d = c + u /\ c \in Nat /\ u \in Nat
        BY <1>3, <1>6, <3>1, <3>2, Zenon
      <4>. HIDE DEF y
      <4>2. Jump(first, u) = Jump(y, d) BY <4>1, JumpTwice
      <4>. QED BY <4>2 DEF y
    <3>4. d \in 0 .. s[i].size - 1
      <4>. DEFINE z == s[i].size
      <4>1. z \in Nat /\ d \in Nat /\ d < z BY <1>3, <3>1, <3>2
      <4>. HIDE DEF z
      <4>2. d \in 0 .. z - 1 BY <4>1
      <4>. QED BY <4>2 DEF z
    <3>. QED BY <3>3, <3>4
  <2>. QED BY <1>3, <1>4, <1>5, <1>7, <1>8, <1>9, <1>10, <2>4, <2>5 DEF InsideAt
<1>11. CASE i # j
  <2>1. i < j BY <1>3, <1>4, <1>5, <1>11
  <2>. DEFINE M == SubSeq(s, i + 1, j - 1)
              o == <<first>>
  <2>2. SubSeq(work, i, j - 1) = o \o M BY <1>3, <1>4, <1>7, <2>1, WorkSub
  <2>3. StartOf(s, j) = StartOf(s, i) + s[i].size + Total(M) /\ M \in Seq(Entries)
        /\ Total(M) \in Nat
    BY <1>3, <1>4, <2>1, StartOrder
  <2>. HIDE DEF M
  <2>4. o \in Seq(Entries) /\ Total(o) = first.size BY <1>7, TotalOne
  <2>. HIDE DEF o
  <2>5. Total(o \o M) = first.size + Total(M) BY <2>3, <2>4, TotalConcat
  <2>6. Total(SubSeq(work, i, j - 1)) = first.size + Total(M) BY <2>2, <2>5, Zenon
  <2>7. u = d /\ u \in 1 .. s[j].size
    <3>. DEFINE S == StartOf(s, i)
                T == StartOf(s, j)
                z == s[i].size
                y == s[j].size
                f == first.size
                w == Total(M)
                v == Total(SubSeq(work, i, j - 1))
    <3>1. S \in Nat /\ z \in Nat /\ c \in 0 .. z - 1 /\ S + c = pos /\ f = z - c
          /\ T \in Nat /\ T <= q /\ q < T + y /\ y \in Nat /\ d = pos + len - T /\ u = len - v
          /\ T = S + z + w /\ w \in Nat /\ v = f + w
      BY <1>3, <1>4, <1>7, <1>9, <2>3, <2>6
    <3>. HIDE DEF S, T, z, y, f, w, v
    <3>2. S <= pos /\ c = pos - S BY <1>3 DEF S
    <3>3. More(pos, len, S, z, w, T, y, c, f, v, u, d) BY <3>1, <3>2 DEF More
    <3>4. u = d /\ d \in 1 .. y
      <4>. HIDE DEF q
      <4>. QED BY <3>3, SpanOfMore
    <3>. QED BY <3>4, Zenon DEF y
  <2>8. ASSUME u # s[j].size PROVE d \in 0 .. s[j].size - 1 /\ Jump(s[j], u) = Jump(s[j], d)
    BY <1>4, <2>7, <2>8
  <2>. QED BY <1>3, <1>4, <1>5, <1>7, <1>8, <1>9, <1>11, <2>7, <2>8 DEF InsideAt
<1>. QED BY <1>10, <1>11

(* What is given back, as the code works it out, and entry by entry. *)
OldSteps(s, i, j, first, work, x, u, end, gone, old) ==
  /\ work = [s EXCEPT ![i] = first] /\ x = work[j] /\ end = Jump(x, u)
  /\ gone = [work EXCEPT ![j] =
                IF end.sector = @.sector THEN Place(Null, @.off, u)
                ELSE Place(@.sector, @.off, u - (end.off - DataOff))]
  /\ old = [gone EXCEPT ![i] = IF @.sector # Null THEN PastFirst(@) ELSE @]

LEMMA OldIs ==
  ASSUME NEW s \in Seq(Entries), NEW i \in DOMAIN s, NEW j \in DOMAIN s,
         NEW first \in Entries, NEW work, NEW x, NEW u, NEW end, NEW gone, NEW old,
         OldSteps(s, i, j, first, work, x, u, end, gone, old)
  PROVE  OldEntries(s, i, j, first, x, u, old)
<1>. USE DEF OldSteps
<1>1. DOMAIN work = DOMAIN s /\ work = [k \in DOMAIN s |-> work[k]] OBVIOUS
<1>2. gone[j] = Gone(x, u) /\ \A k \in DOMAIN s : k # j => gone[k] = work[k]
  BY <1>1 DEF Gone
<1>3. DOMAIN gone = DOMAIN s BY <1>1
<1>4. old[i] = (IF gone[i].sector # Null THEN PastFirst(gone[i]) ELSE gone[i])
      /\ \A k \in DOMAIN s : k # i => old[k] = gone[k]
  BY <1>3
<1>5. old = [k \in DOMAIN s |-> old[k]] BY <1>3
<1>6. i # j => gone[i] = first /\ first.sector # Null
  BY <1>1, <1>2, EntryFacts, NullAssumption
<1>7. \A k \in i .. j : old[k] = GivenOf(s, i, j, k, first, x, u)
  <2>. TAKE k \in i .. j
  <2>1. k \in DOMAIN s OBVIOUS
  <2>2. CASE k = i BY <1>2, <1>4, <1>6, <2>2 DEF GivenOf
  <2>3. CASE k # i /\ k = j BY <1>2, <1>4, <2>1, <2>3 DEF GivenOf
  <2>4. CASE k # i /\ k # j
    <3>1. work[k] = s[k] BY <2>1, <2>4
    <3>. QED BY <1>2, <1>4, <2>1, <2>4, <3>1 DEF GivenOf
  <2>. QED BY <2>2, <2>3, <2>4
<1>. QED BY <1>5, <1>7 DEF OldEntries

(* The entries a rewrite inside the file begins and ends in. *)
Touched(s, i, j, c, first, x, u, end) ==
  /\ i \in DOMAIN s /\ j \in DOMAIN s /\ c \in 0 .. s[i].size - 1 /\ first = Jump(s[i], c)
  /\ x = (IF i = j THEN first ELSE s[j]) /\ u \in 1 .. x.size - 1 /\ end = Jump(x, u)
  /\ ~ (i = j /\ c > 0 /\ first.off > DataOff /\ end.sector = first.sector)

(* What is left of the entries a rewrite touches lies in other sectors. *)
LEMMA RestsApart ==
  ASSUME NEW s \in Seq(Entries), LiveAll(s) \subseteq Sectors, Disjoint(s),
         NEW i, NEW j, NEW c, NEW first, NEW x, NEW u, NEW end,
         Touched(s, i, j, c, first, x, u, end)
  PROVE  LiveAll(Cut(s[i], c)) \cap Live(end) = {}
<1>. USE DEF Touched
<1>1. s[i] \in Entries /\ s[j] \in Entries /\ Live(s[i]) \subseteq Sectors /\ Live(s[j]) \subseteq Sectors
  BY LiveAllSectors
<1>2. first \in Entries /\ Live(first) \subseteq Live(s[i]) BY <1>1, JumpIs
<1>3. /\ LiveAll(Cut(s[i], c)) \subseteq Live(s[i])
      /\ \A t \in LiveAll(Cut(s[i], c)) :
           t \in Nat /\ t <= first.sector /\ (first.off = DataOff => t < first.sector)
  BY <1>1, CutFacts
<1>4. x \in Entries /\ Live(x) \subseteq Live(s[j]) /\ Live(x) \subseteq Sectors BY <1>1, <1>2
<1>5. /\ Live(end) \subseteq Live(x) /\ end.sector >= x.sector /\ end.sector \in Nat
      /\ \A t \in Live(end) : t \in Nat /\ t >= end.sector
  BY <1>4, GoneIs
<1>6. CASE i # j
  <2>1. Live(s[i]) \cap Live(s[j]) = {} BY <1>6 DEF Disjoint
  <2>. QED BY <1>3, <1>4, <1>5, <2>1
<1>7. CASE i = j
  <2>1. x = first BY <1>7
  <2>2. first.sector \in Nat /\ first.off \in Nat /\ first.off >= DataOff BY <1>2, EntryFacts
  <2>3. CASE c = 0
    <3>1. Cut(s[i], c) = <<>> BY <2>3 DEF Cut
    <3>. QED BY <3>1, LiveEmpty
  <2>4. CASE first.off = DataOff
    <3>. SUFFICES ASSUME NEW t \in LiveAll(Cut(s[i], c)), t \in Live(end) PROVE FALSE OBVIOUS
    <3>1. t \in Nat /\ t < first.sector BY <1>3, <2>4
    <3>2. t >= end.sector BY <1>5
    <3>. QED BY <1>5, <2>1, <2>2, <3>1, <3>2
  <2>5. CASE end.sector # first.sector
    <3>. SUFFICES ASSUME NEW t \in LiveAll(Cut(s[i], c)), t \in Live(end) PROVE FALSE OBVIOUS
    <3>1. t \in Nat /\ t <= first.sector BY <1>3
    <3>2. t >= end.sector BY <1>5
    <3>. QED BY <1>5, <2>1, <2>2, <2>5, <3>1, <3>2
  <2>6. c = 0 \/ first.off = DataOff \/ end.sector # first.sector
    <3>1. c \in Nat BY <1>1, EntryFacts
    <3>. QED BY <1>7, <2>2, <3>1, SizesFacts
  <2>. QED BY <2>3, <2>4, <2>5, <2>6
<1>. QED BY <1>6, <1>7

LEMMA InsideKeeps ==
  ASSUME NEW m \in Memories, NEW s \in Seq(Entries), LiveAll(s) \subseteq m.taken, Disjoint(s),
         LastErased(m.flash, s), NEW i \in DOMAIN s, NEW j \in DOMAIN s, i <= j,
         NEW c \in 0 .. s[i].size - 1, NEW d \in 0 .. s[j].size - 1, NEW end, end = Jump(s[j], d),
         NEW G, Given(s, i, j, c, end, G), LiveAll(Cut(s[i], c)) \cap Live(end) = {},
         NEW left, LeftOf(s, m.flash, left, i, c), NEW right, RightOf(s, m.flash, right, j, d)
  PROVE  Keeps(m, G, left, right)
<1>. DEFINE A  == LiveAll(SubSeq(s, 1, i - 1))
            C  == LiveAll(SubSeq(s, j + 1, Len(s)))
            B  == LiveAll(Cut(s[i], c))
            E  == Live(end)
            L  == LiveAll(left)
            R  == LiveAll(right)
<1>1. L = A \cup B /\ left \in Seq(Entries) /\ Disjoint(left) /\ L \subseteq LiveAll(s)
  BY DEF LeftOf
<1>2. R = E \cup C /\ right \in Seq(Entries) /\ Disjoint(right) /\ R \subseteq LiveAll(s)
      /\ LastErased(m.flash, right)
  BY DEF RightOf
<1>3. i \in Nat /\ j \in Nat /\ 1 <= i /\ j <= Len(s) /\ Len(s) \in Nat OBVIOUS
<1>4. \A t \in A : \E l \in DOMAIN s : l < i /\ t \in Live(s[l])
  <2>. TAKE t \in A
  <2>1. i - 1 \in Nat /\ i - 1 <= Len(s) /\ 1 \in Nat \ {0} BY <1>3
  <2>2. \E l \in DOMAIN s : 1 <= l /\ l <= i - 1 /\ t \in Live(s[l]) BY <2>1, SubLive
  <2>. QED BY <1>3, <2>2
<1>5. \A t \in C : \E l \in DOMAIN s : l > j /\ t \in Live(s[l])
  <2>. TAKE t \in C
  <2>1. j + 1 \in Nat \ {0} /\ Len(s) \in Nat /\ Len(s) <= Len(s) BY <1>3
  <2>2. \E l \in DOMAIN s : j + 1 <= l /\ l <= Len(s) /\ t \in Live(s[l]) BY <2>1, SubLive
  <2>. QED BY <1>3, <2>2
<1>6. m.taken \subseteq Sectors BY DEF Memories
<1>7. s[i] \in Entries /\ s[j] \in Entries /\ Live(s[i]) \subseteq Sectors /\ Live(s[j]) \subseteq Sectors
  BY <1>6, LiveAllSectors
<1>8. B \subseteq Live(s[i]) BY <1>7, CutFacts
<1>9. E \subseteq Live(s[j]) BY <1>7, JumpIs
<1>10. \A t : \A a, b \in DOMAIN s : a # b => ~ (t \in Live(s[a]) /\ t \in Live(s[b])) BY DEF Disjoint
<1>11. B \cap E = {} OBVIOUS
<1>12. /\ \A t \in G : \E k \in DOMAIN s : i <= k /\ k <= j /\ t \in Live(s[k])
       /\ G \cap B = {} /\ G \cap E = {}
  BY DEF Given
<1>13. LiveAll(s) \subseteq m.taken OBVIOUS
<1>14. \A k \in DOMAIN s : Live(s[k]) \subseteq LiveAll(s) /\ k \in Nat BY DEF LiveAll
<1>. HIDE DEF A, B, C, E, L, R
<1>15. L \cap R = {}
  <2>. SUFFICES ASSUME NEW t \in L, t \in R PROVE FALSE OBVIOUS
  <2>1. CASE t \in A
    <3>1. PICK l \in DOMAIN s : l < i /\ t \in Live(s[l]) BY <1>4, <2>1
    <3>2. CASE t \in E BY <1>3, <1>9, <1>10, <1>14, <3>1, <3>2
    <3>3. CASE t \in C
      <4>1. PICK k \in DOMAIN s : k > j /\ t \in Live(s[k]) BY <1>5, <3>3
      <4>. QED BY <1>3, <1>10, <1>14, <3>1, <4>1
    <3>. QED BY <1>2, <3>2, <3>3
  <2>2. CASE t \in B
    <3>1. t \in C BY <1>2, <1>11, <2>2
    <3>2. PICK k \in DOMAIN s : k > j /\ t \in Live(s[k]) BY <1>5, <3>1
    <3>. QED BY <1>3, <1>8, <1>10, <1>14, <2>2, <3>2
  <2>. QED BY <1>1, <2>1, <2>2
<1>16. G \cap L = {}
  <2>. SUFFICES ASSUME NEW t \in G, t \in L PROVE FALSE OBVIOUS
  <2>1. t \in A BY <1>1, <1>12
  <2>2. PICK l \in DOMAIN s : l < i /\ t \in Live(s[l]) BY <1>4, <2>1
  <2>3. PICK k \in DOMAIN s : i <= k /\ t \in Live(s[k]) BY <1>12
  <2>. QED BY <1>3, <1>10, <1>14, <2>2, <2>3
<1>17. G \cap R = {}
  <2>. SUFFICES ASSUME NEW t \in G, t \in R PROVE FALSE OBVIOUS
  <2>1. t \in C BY <1>2, <1>12
  <2>2. PICK l \in DOMAIN s : l > j /\ t \in Live(s[l]) BY <1>5, <2>1
  <2>3. PICK k \in DOMAIN s : k <= j /\ t \in Live(s[k]) BY <1>12
  <2>. QED BY <1>3, <1>10, <1>14, <2>2, <2>3
<1>18. G \subseteq m.taken BY <1>12, <1>13, <1>14
<1>19. L \subseteq m.taken /\ R \subseteq m.taken BY <1>1, <1>2, <1>13
<1>. QED BY <1>1, <1>2, <1>15, <1>16, <1>17, <1>18, <1>19 DEF Keeps, L, R

LEMMA PairIs == ASSUME NEW a, NEW b PROVE <<a, b>> = <<a>> \o <<b>>
<1>. DEFINE S == {a, b}
            o == <<a>>
<1>1. o \in Seq(S) /\ b \in S OBVIOUS
<1>2. <<a, b>> = Append(o, b) OBVIOUS
<1>. HIDE DEF S, o
<1>3. o \o <<b>> = Append(o, b) BY <1>1
<1>. QED BY <1>2, <1>3, Zenon DEF o

LEMMA RegroupEntries ==
  ASSUME NEW s \in Seq(Entries), NEW t \in Seq(Entries), NEW u \in Seq(Entries),
         NEW v \in Seq(Entries)
  PROVE  Regroups(s, t, u, v)
BY DEF Regroups

LEMMA FourParts ==
  ASSUME NEW left \in Seq(Entries), NEW e \in Entries, NEW end \in Entries, NEW tail \in Seq(Entries)
  PROVE  left \o <<e, end>> \o tail = left \o <<e>> \o (<<end>> \o tail)
<1>. DEFINE o == <<e>>
            p == <<end>>
            q == <<e, end>>
<1>1. o \in Seq(Entries) /\ p \in Seq(Entries) BY TotalOne
<1>2. q = o \o p BY PairIs
<1>. HIDE DEF o, p, q
<1>3. Regroups(left, o, p, tail) BY <1>1, RegroupEntries
<1>4. left \o (o \o p) \o tail = (left \o o) \o (p \o tail) BY <1>3, Zenon DEF Regroups
<1>5. left \o q \o tail = (left \o o) \o (p \o tail) BY <1>2, <1>4, Zenon
<1>. QED BY <1>5, Zenon DEF o, p, q

LEMMA RoomFor ==
  ASSUME NEW n \in Nat, NEW i \in Nat, NEW j \in Nat, i <= j, j <= n, NEW l \in Nat, l <= i,
         NEW r, r = n - j + 1, n + 2 <= IndexMax
  PROVE  l + 1 + r <= IndexMax
BY IndexAssumption

LEMMA RewriteInsideIs ==
  ASSUME Inv, RewritesApart, NEW m, Leaves(m, Content), ~ NoRoom(m),
         NEW pos \in Nat, NEW len \in Nat \ {0}, pos + len < size,
         RewriteInside(m, pos, len), data' = data
  PROVE  Inv' /\ Allowed(Content, Content')
<1>. DEFINE cc    == Content
            s     == m.index
            n     == Len(s)
            i     == EntryAt(s, pos)
            c     == pos - StartOf(s, i)
            first == Jump(s[i], c)
            work  == [s EXCEPT ![i] = first]
            j     == EntryAt(s, pos + len - 1)
            u     == len - Total(SubSeq(work, i, j - 1))
            end   == Jump(work[j], u)
            begin == IF c > 0 THEN <<[s[i] EXCEPT !.size = c]>> ELSE <<>>
            gone  == [work EXCEPT ![j] =
                        IF end.sector = @.sector THEN Place(Null, @.off, u)
                        ELSE Place(@.sector, @.off, u - (end.off - DataOff))]
            old   == [gone EXCEPT ![i] = IF @.sector # Null THEN PastFirst(@) ELSE @]
            num   == CeilDiv(len, PerSector)
            C     == SubSeq(s, j + 1, n)
            tail  == Shifted(C, j - (i - 1 + (Len(begin) + 2)))
            bytes == Buffer(pos, len)
            A     == SubSeq(s, 1, i - 1)
            given == SubSeq(old, i, j)
            d     == pos + len - StartOf(s, j)
            After(b) == [GivenBack(Programmed(Alloc(m, b, num), b, DataOff, bytes), given)
                           EXCEPT !.index = A \o begin \o <<Place(b, DataOff, len), end>> \o tail]
<1>1. \/ Stop
      \/ Become(m) /\ size' = size /\ fault' = fault
      \/ /\ u # work[j].size
         /\ ~ (i = j /\ c > 0 /\ first.off > DataOff /\ end.sector = first.sector)
         /\ tail = C
         /\ \E b \in Runs(m, num) : Become(After(b))
         /\ size' = size /\ fault' = fault
  BY DEF RewriteInside
<1>2. CASE Stop
  <2>1. Inv' /\ Content' = Content BY <1>2, Stopped
  <2>. QED BY <2>1 DEF Allowed
<1>3. CASE Become(m) /\ size' = size /\ fault' = fault
  <2>1. Inv' /\ Content' = Content BY <1>3, Kept
  <2>. QED BY <2>1 DEF Allowed
<1>4. CASE /\ u # work[j].size
           /\ ~ (i = j /\ c > 0 /\ first.off > DataOff /\ end.sector = first.sector)
           /\ tail = C
           /\ \E b \in Runs(m, num) : Become(After(b))
           /\ size' = size /\ fault' = fault
  <2>1. PICK b \in Runs(m, num) : Become(After(b)) BY <1>4
  <2>2. Written(cc) /\ size = Len(cc) /\ size \in Nat /\ pos \in 0 .. Len(cc)
        /\ pos + len <= MaxSize /\ MaxSize \in Nat
    BY InvFacts, SizesFacts DEF Inv
  <2>3. /\ m \in Memories /\ s \in Seq(Entries) /\ s # <<>> /\ m.flash \in Flashes
        /\ LiveAll(s) \subseteq m.taken /\ Disjoint(s) /\ m.taken \subseteq Sectors
        /\ LiveAll(s) \subseteq Sectors /\ LastErased(m.flash, s)
        /\ BytesOfAll(m.flash, s) = cc /\ Total(s) = Len(cc) /\ n \in Nat /\ cc \in Seq(Byte)
    BY LeavesFacts
  <2>4. bytes = NewBytes(cc, pos, len) BY BufferIs
  <2>5. begin = Cut(s[i], c) BY DEF Cut
  <2>6. n + 2 <= IndexMax BY <2>3, IndexAssumption DEF NoRoom
  <2>. DEFINE e == Place(b, DataOff, len)
              w == After(b)
              G == OldOf(given)
              x == work[j]
              left  == A \o begin
              right == <<end>> \o C
  <2>7. Become(w) /\ size' = size /\ fault' = fault BY <1>4, <2>1
  <2>8. u # x.size /\ tail = C
        /\ ~ (i = j /\ c > 0 /\ first.off > DataOff /\ end.sector = first.sector)
    BY <1>4
  <2>9. w = [GivenBack(Programmed(Alloc(m, b, num), b, DataOff, bytes), given)
               EXCEPT !.index = left \o <<e, end>> \o C]
    BY <2>8, Zenon
  <2>10. /\ Places(s, pos, len, i, j, c, first, work, x, u, d)
         /\ OldSteps(s, i, j, first, work, x, u, end, gone, old)
         /\ x = work[j] /\ end = Jump(x, u) /\ first = Jump(s[i], c) /\ given = SubSeq(old, i, j)
         /\ G = OldOf(SubSeq(old, i, j)) /\ G = OldOf(given)
    BY Zenon DEF Places, OldSteps
  <2>. HIDE DEF cc, s, i, c, first, work, j, u, begin, bytes, d, end, gone, old, tail, given, w, x, G
  <2>11. InsideAt(s, pos, len, i, j, c, first, x, u, d)
    <3>1. pos + len <= Total(s) BY <2>2, <2>3
    <3>. QED BY <2>3, <2>10, <3>1, InsideAtIs
  <2>12. /\ i \in DOMAIN s /\ j \in DOMAIN s /\ i <= j
         /\ StartOf(s, i) \in Nat /\ StartOf(s, i) + c = pos /\ c \in 0 .. s[i].size - 1
         /\ first \in Entries /\ x = (IF i = j THEN first ELSE s[j])
         /\ x \in Entries /\ u \in 1 .. x.size - 1
         /\ StartOf(s, j) \in Nat /\ StartOf(s, j) + d = pos + len
         /\ d \in 0 .. s[j].size - 1 /\ end = Jump(s[j], d)
    <3>1. /\ i \in DOMAIN s /\ j \in DOMAIN s /\ i <= j
          /\ StartOf(s, i) \in Nat /\ StartOf(s, i) + c = pos /\ c \in 0 .. s[i].size - 1
          /\ first \in Entries /\ x = (IF i = j THEN first ELSE s[j])
          /\ x \in Entries /\ u \in 1 .. x.size
          /\ StartOf(s, j) \in Nat /\ StartOf(s, j) + d = pos + len
          /\ d \in 0 .. s[j].size - 1 /\ Jump(x, u) = Jump(s[j], d)
      BY <2>8, <2>11 DEF InsideAt
    <3>2. u \in 1 .. x.size - 1
      <4>1. x.size \in Nat BY <3>1, EntryFacts
      <4>. QED BY <2>8, <3>1, <4>1
    <3>3. end = Jump(s[j], d) BY <2>10, <3>1, Zenon
    <3>. QED BY <3>1, <3>2, <3>3
  <2>13. Given(s, i, j, c, end, G)
    <3>1. OldEntries(s, i, j, first, x, u, old) BY <2>3, <2>10, <2>12, OldIs
    <3>2. x = (IF i = j THEN first ELSE s[j]) /\ first = Jump(s[i], c) BY <2>10, <2>12
    <3>3. Given(s, i, j, c, Jump(x, u), OldOf(SubSeq(old, i, j)))
      BY <2>3, <2>12, <3>1, <3>2, AllGiven
    <3>. QED BY <2>10, <3>3, Zenon
  <2>14. LiveAll(Cut(s[i], c)) \cap Live(end) = {}
    <3>1. Touched(s, i, j, c, first, x, u, end) BY <2>8, <2>10, <2>12, Zenon DEF Touched
    <3>. QED BY <2>3, <3>1, RestsApart
  <2>15. LeftOf(s, m.flash, left, i, c)
    BY <2>3, <2>5, <2>12, LeftOfIs
  <2>16. RightOf(s, m.flash, right, j, d)
    <3>1. RightOf(s, m.flash, <<Jump(s[j], d)>> \o SubSeq(s, j + 1, Len(s)), j, d)
      BY <2>3, <2>12, RightOfIs
    <3>. QED BY <2>12, <3>1, Zenon
  <2>17. C \in Seq(Entries) /\ Len(C) = n - j /\ end \in Entries
    <3>1. C \in Seq(Entries) /\ Len(C) = n - j BY <2>3, <2>12, SplitAt
    <3>2. s[j] \in Entries /\ Live(s[j]) \subseteq Sectors BY <2>3, <2>12, LiveAllSectors
    <3>3. end \in Entries BY <2>12, <3>2, JumpIs
    <3>. QED BY <3>1, <3>3
  <2>18. bytes \in Seq(Byte) /\ Len(bytes) = len BY <2>2, <2>4, NewBytesTyped
  <2>19. e \in Entries BY <2>1, <2>3, <2>18, NewRun
  <2>. HIDE DEF e, left, C
  <2>20. left \in Seq(Entries) BY <2>15 DEF LeftOf
  <2>21. left \o <<e, end>> \o C = left \o <<e>> \o right BY <2>17, <2>19, <2>20, FourParts
  <2>. HIDE DEF right
  <2>22. Keeps(m, G, left, right)
    BY <2>3, <2>12, <2>13, <2>14, <2>15, <2>16, InsideKeeps
  <2>23. Renewed(m, [GivenBack(Programmed(Alloc(m, b, num), b, DataOff, bytes), given)
                       EXCEPT !.index = left \o <<e>> \o right], left, e, right, bytes)
    BY <2>1, <2>3, <2>10, <2>18, <2>22, PlacedBack DEF e
  <2>24. Renewed(m, w, left, e, right, NewBytes(cc, pos, len))
    BY <2>4, <2>9, <2>21, <2>23, Zenon
  <2>25. /\ BytesOfAll(m.flash, left) \in Seq(Byte) /\ Len(BytesOfAll(m.flash, left)) = pos
         /\ \A k \in 1 .. pos : cc[k] = BytesOfAll(m.flash, left)[k]
         /\ Len(left) <= i
    BY <2>3, <2>12, <2>15 DEF LeftOf
  <2>26. /\ right \in Seq(Entries) /\ Len(right) = n - j + 1
         /\ BytesOfAll(m.flash, right) \in Seq(Byte)
         /\ Len(BytesOfAll(m.flash, right)) = Len(cc) - (pos + len)
         /\ \A k \in 1 .. Len(BytesOfAll(m.flash, right)) :
              cc[pos + len + k] = BytesOfAll(m.flash, right)[k]
    BY <2>3, <2>12, <2>16 DEF RightOf
  <2>27. Beside(cc, pos, len, BytesOfAll(m.flash, left), BytesOfAll(m.flash, right))
    <3>. DEFINE p == BytesOfAll(m.flash, left)
                q == BytesOfAll(m.flash, right)
    <3>1. p \in Seq(Byte) /\ Len(p) = pos /\ \A k \in 1 .. pos : cc[k] = p[k] BY <2>25
    <3>2. q \in Seq(Byte) /\ Len(q) = Len(cc) - (pos + len)
          /\ \A k \in 1 .. Len(q) : cc[pos + len + k] = q[k]
      BY <2>26
    <3>3. Len(q) = IF pos + len > Len(cc) THEN 0 ELSE Len(cc) - (pos + len) BY <2>2, <3>2
    <3>. HIDE DEF p, q
    <3>4. Beside(cc, pos, len, p, q) BY <3>1, <3>2, <3>3 DEF Beside
    <3>. QED BY <3>4, Zenon DEF p, q
  <2>28. Len(left) + 1 + Len(right) <= IndexMax
    <3>. DEFINE l == Len(left)
                r == Len(right)
    <3>1. l \in Nat /\ l <= i /\ r = n - j + 1
      <4>1. l \in Nat BY <2>20
      <4>. QED BY <2>25, <2>26, <4>1
    <3>4. i \in Nat /\ j \in Nat /\ i <= j /\ j <= n BY <2>3, <2>12
    <3>. HIDE DEF l, r, n
    <3>2. n \in Nat BY <2>3 DEF n
    <3>3. l + 1 + r <= IndexMax BY <2>6, <3>1, <3>2, <3>4, RoomFor
    <3>. QED BY <3>3 DEF l, r
  <2>29. size' = IF pos + len > size THEN pos + len ELSE size BY <2>2, <2>7
  <2>. QED
    BY <2>2, <2>7, <2>19, <2>20, <2>24, <2>26, <2>27, <2>28, <2>29, Rewrote DEF cc
<1>. QED BY <1>1, <1>2, <1>3, <1>4

-----------------------------------------------------------------------------
(* The operations. *)
LEMMA BigWriteIs ==
  ASSUME Inv, AppendsFit, RewritesApart, NEW pos \in Nat, NEW len \in Nat \ {0},
         pos <= size, pos + len <= MaxSize, BigWrite(pos, len)
  PROVE  Inv' /\ Allowed(Content, Content')
<1>1. index # <<>> /\ data' = data
      /\ \/ GcFaults /\ Stop
         \/ \E m \in Collected :
               \/ NoRoom(m) /\ Stop
               \/ ~ NoRoom(m) /\ pos = size /\ BigAppend(m, len)
               \/ ~ NoRoom(m) /\ pos < size /\ pos + len >= size /\ RewriteEnd(m, pos, len)
               \/ ~ NoRoom(m) /\ pos + len < size /\ RewriteInside(m, pos, len)
  BY DEF BigWrite
<1>2. CASE Stop
  <2>1. Inv' /\ Content' = Content BY <1>2, Stopped
  <2>. QED BY <2>1 DEF Allowed
<1>3. CASE \E m \in Collected :
               \/ ~ NoRoom(m) /\ pos = size /\ BigAppend(m, len)
               \/ ~ NoRoom(m) /\ pos < size /\ pos + len >= size /\ RewriteEnd(m, pos, len)
               \/ ~ NoRoom(m) /\ pos + len < size /\ RewriteInside(m, pos, len)
  <2>1. PICK m \in Collected :
               \/ ~ NoRoom(m) /\ pos = size /\ BigAppend(m, len)
               \/ ~ NoRoom(m) /\ pos < size /\ pos + len >= size /\ RewriteEnd(m, pos, len)
               \/ ~ NoRoom(m) /\ pos + len < size /\ RewriteInside(m, pos, len)
    BY <1>3
  <2>2. Good(Memory) /\ Len(index) <= IndexMax BY DEF Inv
  <2>3. Leaves(m, BytesOfAll(flash, index)) BY <1>1, <2>2, CollectedLeaves
  <2>4. Content = BytesOfAll(flash, index) BY <1>1, InvFacts
  <2>5. Leaves(m, Content) BY <2>3, <2>4, Zenon
  <2>6. CASE ~ NoRoom(m) /\ pos = size /\ BigAppend(m, len)
    <3>1. size + len <= MaxSize BY <2>6
    <3>. QED BY <1>1, <2>5, <2>6, <3>1, BigAppendIs
  <2>7. CASE ~ NoRoom(m) /\ pos < size /\ pos + len >= size /\ RewriteEnd(m, pos, len)
    BY <1>1, <2>5, <2>7, RewriteEndIs
  <2>8. CASE ~ NoRoom(m) /\ pos + len < size /\ RewriteInside(m, pos, len)
    BY <1>1, <2>5, <2>8, RewriteInsideIs
  <2>. QED BY <2>1, <2>6, <2>7, <2>8
<1>. QED BY <1>1, <1>2, <1>3

LEMMA WriteIs ==
  ASSUME Inv, AppendsFit, RewritesApart, NEW pos \in Nat, NEW len \in Nat \ {0}, Write(pos, len)
  PROVE  Inv' /\ Allowed(Content, Content')
<1>1. /\ pos <= size /\ pos + len <= MaxSize
      /\ SmallWrite(pos, len) \/ SmallToBig(pos, len) \/ BigWrite(pos, len)
  BY DEF Write
<1>2. Written(Content) /\ size = Len(Content) /\ size \in Nat /\ pos \in 0 .. Len(Content)
  BY <1>1, InvFacts DEF Inv
<1>3. CASE SmallWrite(pos, len)
  <2>1. Inv' /\ Content' = File!Overlay(Content, pos, len) BY <1>1, <1>2, <1>3, SmallWriteIs
  <2>2. Allowed(Content, File!Overlay(Content, pos, len)) BY <1>1, <1>2, Overlaid
  <2>. QED BY <2>1, <2>2, Zenon
<1>4. CASE SmallToBig(pos, len) BY <1>1, <1>2, <1>4, SmallToBigIs
<1>5. CASE BigWrite(pos, len) BY <1>1, <1>5, BigWriteIs
<1>. QED BY <1>1, <1>3, <1>4, <1>5

LEMMA ReopenIs ==
  ASSUME Inv, Reopen
  PROVE  Inv' /\ Allowed(Content, Content')
<1>1. /\ size' = (IF index = <<>> THEN Len(data) ELSE Total(index))
      /\ flash' = flash /\ taken' = taken /\ data' = data /\ index' = index /\ fault' = fault
  BY DEF Reopen
<1>2. Content' = Content /\ Memory' = Memory BY <1>1 DEF Content, Memory
<1>3. size' = Len(Content)
  <2>1. CASE index = <<>> BY <1>1, <2>1 DEF Content
  <2>2. CASE index # <<>>
    <3>1. size = Total(index) /\ size = Len(Content) BY <2>2, InvFacts DEF Inv
    <3>. QED BY <1>1, <2>2, <3>1
  <2>. QED BY <2>1, <2>2
<1>4. Inv' BY <1>1, <1>2, <1>3 DEF Inv
<1>. QED BY <1>2, <1>4 DEF Allowed

LEMMA DeleteIs ==
  ASSUME Inv, Delete
  PROVE  Inv' /\ Allowed(Content, Content')
<1>. DEFINE g == GivenBack(Memory, index)
            m == [g EXCEPT !.index = <<>>]
<1>1. Become(m) /\ data' = <<>> /\ size' = 0 /\ fault' = fault BY DEF Delete
<1>2. g \in Memories BY InvFacts, GivenBackIs
<1>3. m \in Memories /\ m.index = <<>>
  <2>. HIDE DEF g
  <2>1. g = [flash |-> g.flash, taken |-> g.taken, index |-> g.index]
        /\ g.flash \in Flashes /\ g.taken \in SUBSET Sectors
    BY <1>2 DEF Memories
  <2>2. m = [flash |-> g.flash, taken |-> g.taken, index |-> <<>>] BY <2>1
  <2>3. <<>> \in Seq(Entries) OBVIOUS
  <2>. QED BY <2>1, <2>2, <2>3 DEF Memories
<1>. HIDE DEF m
<1>4. Good(m) BY <1>3, LiveEmpty DEF Good, LastErased
<1>5. /\ Good([flash |-> flash', taken |-> taken', index |-> index'])
      /\ index' = m.index
  BY <1>1, <1>4, BecomeIs
<1>6. Good(Memory)' BY <1>5 DEF Memory
<1>7. index' = <<>> /\ Content' = <<>> BY <1>1, <1>3, <1>5 DEF Content
<1>8. Len(<<>>) = 0 /\ <<>> \in Seq(Byte) OBVIOUS
<1>9. Written(<<>>) BY <1>8, SizesFacts DEF Written
<1>10. Len(<<>>) <= IndexMax /\ Len(<<>>) <= Threshold BY <1>8, SizesFacts
<1>11. fault' \in BOOLEAN BY <1>1 DEF Inv
<1>12. Inv' BY <1>1, <1>6, <1>7, <1>8, <1>9, <1>10, <1>11 DEF Inv
<1>. QED BY <1>7, <1>12 DEF Allowed

LEMMA StepIs ==
  ASSUME Inv, AppendsFit, RewritesApart, [Next]_vars
  PROVE  Inv' /\ Allowed(Content, Content')
<1>1. CASE Next
  <2>1. CASE \E pos \in 0 .. MaxSize, len \in Lengths : Write(pos, len)
    <3>1. PICK pos \in 0 .. MaxSize, len \in Lengths : Write(pos, len) BY <2>1
    <3>2. pos \in Nat /\ len \in Nat \ {0} BY LengthsAssumption
    <3>. QED BY <3>1, <3>2, WriteIs
  <2>2. CASE Reopen BY <2>2, ReopenIs
  <2>3. CASE Delete BY <2>3, DeleteIs
  <2>. QED BY <1>1, <2>1, <2>2, <2>3 DEF Next
<1>2. CASE UNCHANGED vars
  <2>1. Content' = Content /\ Memory' = Memory /\ index' = index /\ data' = data /\ size' = size
        /\ fault' = fault
    BY <1>2 DEF vars, Content, Memory
  <2>. QED BY <2>1 DEF Inv, Allowed
<1>. QED BY <1>1, <1>2

LEMMA FileStep == Allowed(Content, Content') => [File!Next]_Content
BY DEF Allowed, File!Next, File!Write, File!Delete

-----------------------------------------------------------------------------
(* What the invariant says of the entries. *)
LEMMA InvTypes == Inv => TypeOK
<1>1. SUFFICES ASSUME Inv PROVE TypeOK OBVIOUS
<1>2. /\ flash \in Flashes /\ taken \subseteq Sectors /\ index \in Seq(Entries)
      /\ LiveAll(index) \subseteq taken /\ size \in 0 .. MaxSize
      /\ Len(Content) <= MaxSize /\ Len(Content) \in Nat
      /\ (index # <<>> => Content = BytesOfAll(flash, index) /\ size = Total(index))
  BY <1>1, InvFacts
<1>3. data \in Seq(Byte) /\ Len(data) <= Threshold /\ Len(index) <= IndexMax /\ fault \in BOOLEAN
  BY <1>1 DEF Inv
<1>4. flash \in [Sectors -> [0 .. SectorSize - 1 -> Byte]] BY <1>2 DEF Flashes
<1>5. ToSet(data) \subseteq Byte BY <1>3 DEF ToSet
<1>6. ASSUME NEW i \in DOMAIN index
      PROVE  /\ index[i].sector \in Sectors /\ index[i].off \in DataOff .. SectorSize - 1
             /\ index[i].size \in 1 .. MaxSize
  <2>1. index[i] \in Entries BY <1>2, <1>6
  <2>2. index[i].sector \in Sectors /\ index[i].off \in DataOff .. SectorSize - 1
        /\ index[i].size \in Nat \ {0}
    BY <2>1 DEF Entries
  <2>3. index # <<>> BY <1>6
  <2>4. StartOf(index, i) \in Nat /\ StartOf(index, i) + index[i].size <= Total(index)
    BY <1>2, StartFacts
  <2>5. size = Total(index) BY <1>2, <2>3
  <2>6. index[i].size \in 1 .. MaxSize
    <3>. DEFINE z == index[i].size
                a == StartOf(index, i)
    <3>1. z \in Nat \ {0} /\ a \in Nat /\ a + z <= size BY <2>2, <2>4, <2>5
    <3>. HIDE DEF z, a
    <3>2. z \in 1 .. MaxSize BY <1>2, <3>1, SizesFacts
    <3>. QED BY <3>2 DEF z
  <2>. QED BY <2>2, <2>6
<1>. QED BY <1>2, <1>3, <1>4, <1>5, <1>6 DEF TypeOK

(* The sector of a byte of an entry. *)
LEMMA CellLive ==
  ASSUME NEW e \in Entries, NEW k \in Nat, k < e.size
  PROVE  Cell(e, k)[1] \in Live(e)
<1>1. e.sector \in Nat /\ e.off \in Nat /\ e.off >= DataOff /\ e.size \in Nat BY EntryFacts
<1>2. Cell(e, k) = <<Sec(Lin(e) + k), DataOff + Rem(Lin(e) + k)>> BY <1>1, CellIs
<1>3. k \in 0 .. e.size - 1 BY <1>1
<1>4. Sec(Lin(e) + k) \in Live(e) BY <1>3, LiveFacts
<1>. QED BY <1>2, <1>4

LEMMA InvLive == Inv => LiveTaken
<1>1. SUFFICES ASSUME Inv, NEW i \in DOMAIN index, NEW k \in 0 .. MaxSize, k < index[i].size
               PROVE  Cell(index[i], k)[1] \in taken
  BY DEF LiveTaken
<1>2. index \in Seq(Entries) /\ LiveAll(index) \subseteq taken BY <1>1, InvFacts
<1>3. index[i] \in Entries /\ Live(index[i]) \subseteq LiveAll(index) BY <1>2, LiveAllSectors
<1>4. k \in Nat OBVIOUS
<1>5. Cell(index[i], k)[1] \in Live(index[i]) BY <1>1, <1>3, <1>4, CellLive
<1>. QED BY <1>2, <1>3, <1>5

LEMMA InvIndex == Inv => IndexExact
<1>1. SUFFICES ASSUME Inv PROVE IndexExact OBVIOUS
<1>2. index \in Seq(Entries) /\ Disjoint(index) /\ (index = <<>> => Content = data)
      /\ (index # <<>> => size = Total(index))
  BY <1>1, InvFacts
<1>3. size = IF index = <<>> THEN Len(data) ELSE Total(index) BY <1>1, <1>2 DEF Inv
<1>4. ASSUME NEW i \in DOMAIN index, NEW j \in DOMAIN index, NEW k \in 0 .. MaxSize,
             NEW l \in 0 .. MaxSize, i # j, k < index[i].size, l < index[j].size
      PROVE  Cell(index[i], k)[1] # Cell(index[j], l)[1]
  <2>1. index[i] \in Entries /\ index[j] \in Entries BY <1>2
  <2>2. Live(index[i]) \cap Live(index[j]) = {} BY <1>2, <1>4 DEF Disjoint
  <2>3. k \in Nat /\ l \in Nat OBVIOUS
  <2>4. Cell(index[i], k)[1] \in Live(index[i]) BY <1>4, <2>1, <2>3, CellLive
  <2>5. Cell(index[j], l)[1] \in Live(index[j]) BY <1>4, <2>1, <2>3, CellLive
  <2>. QED BY <2>2, <2>4, <2>5
<1>. QED BY <1>3, <1>4 DEF IndexExact

-----------------------------------------------------------------------------
(* Reading. *)
LEMMA SmallOff ==
  ASSUME NEW off \in Nat, off < SectorSize
  PROVE  off \div SectorSize = 0 /\ off % SectorSize = off
BY SizesFacts

(* index_read_once, from a place inside a sector on. *)
Reads(s, off, k, a) == a \in Nat /\ ReadOnce(s, off, k) = <<Sec(a), DataOff + Rem(a)>>

LEMMA ReadOnceIs ==
  ASSUME NEW s \in Nat, NEW off \in DataOff .. SectorSize - 1, NEW k \in Nat,
         NEW a, a = Base(s) + (off - DataOff) + k
  PROVE  Reads(s, off, k, a)
<1>. USE DEF Reads
<1>. DEFINE room == SectorSize - off
            r    == off - DataOff
<1>1. /\ off \in Nat /\ off < SectorSize /\ room \in Nat /\ r \in 0 .. PerSector - 1 /\ r \in Nat
      /\ room = PerSector - r /\ off = DataOff + r
  BY SizesFacts
<1>2. Base(s) \in Nat /\ Base(s + 1) = Base(s) + PerSector BY Bases
<1>3. a \in Nat /\ a = Base(s) + r + k BY <1>1, <1>2
<1>4. ReadOnce(s, off, k) = IF k < room THEN <<s, off + k>>
                            ELSE Cell(Place(s + 1, DataOff, 0), k - room)
  <2>1. off \div SectorSize = 0 /\ off % SectorSize = off BY <1>1, SmallOff
  <2>2. s + 0 = s OBVIOUS
  <2>. QED BY <2>1, <2>2 DEF ReadOnce
<1>. HIDE DEF room, r
<1>5. CASE k < room
  <2>. DEFINE q == r + k
  <2>1. q \in 0 .. PerSector - 1 BY <1>1, <1>5, SizesFacts
  <2>2. a = Base(s) + q BY <1>1, <1>2, <1>3
  <2>. HIDE DEF q
  <2>3. Sec(a) = s /\ Rem(a) = q BY <2>1, <2>2, AddressOf
  <2>4. DataOff + q = off + k BY <1>1, SizesFacts DEF q
  <2>. QED BY <1>3, <1>4, <1>5, <2>3, <2>4
<1>6. CASE ~ (k < room)
  <2>. DEFINE l == k - room
              t == s + 1
              b == Base(t) + (DataOff - DataOff) + l
  <2>1. l \in Nat /\ t \in Nat /\ DataOff \in DataOff .. SectorSize - 1 BY <1>1, <1>6, SizesFacts
  <2>2. b = a
    <3>1. b = Base(s) + PerSector + (k - room) BY <1>1, <1>2, SizesFacts
    <3>2. PerSector + (k - room) = r + k BY <1>1, SizesFacts
    <3>3. Base(s) + PerSector + (k - room) = Base(s) + (PerSector + (k - room))
      BY <1>1, <1>2, SizesFacts
    <3>4. Base(s) + (r + k) = a BY <1>1, <1>2, <1>3
    <3>. QED BY <3>1, <3>2, <3>3, <3>4
  <2>3. Cell(Place(t, DataOff, 0), l) = <<Sec(b), DataOff + Rem(b)>>
    <3>. HIDE DEF l, t
    <3>. QED BY <2>1, CellAt
  <2>. QED BY <1>3, <1>4, <1>6, <2>2, <2>3
<1>. QED BY <1>5, <1>6

(* A byte read from a place is the one at its address. *)
CellByte(at) == IF at[1] \in Sectors THEN flash[at[1]][at[2]] ELSE ErasedCell

ReadAs(first, i, from, pos, k) ==
  CellByte(IF i = first THEN ReadOnce(index[i].sector, index[i].off + pos - from, k)
           ELSE ReadOnce(index[i].sector, index[i].off, pos + k - from))

LEMMA ReadFromEntry ==
  ASSUME NEW e \in Entries, NEW skip \in Nat, e.off + skip < SectorSize, NEW k \in Nat
  PROVE  CellByte(ReadOnce(e.sector, e.off + skip, k)) = ByteAt(flash, Lin(e) + (skip + k))
<1>. DEFINE off == e.off + skip
            a   == Base(e.sector) + (off - DataOff) + k
<1>1. e.sector \in Nat /\ e.off \in Nat /\ e.off >= DataOff /\ Base(e.sector) \in Nat
      /\ Lin(e) = Base(e.sector) + (e.off - DataOff)
  BY EntryFacts, Bases DEF Lin
<1>2. off \in DataOff .. SectorSize - 1 BY <1>1, SizesFacts
<1>3. a = Lin(e) + (skip + k) BY <1>1, SizesFacts
<1>. HIDE DEF off
<1>4. a \in Nat /\ ReadOnce(e.sector, off, k) = <<Sec(a), DataOff + Rem(a)>>
  <2>. HIDE DEF a
  <2>1. a = Base(e.sector) + (off - DataOff) + k BY DEF a
  <2>2. Reads(e.sector, off, k, a)
    <3>. DEFINE s == e.sector
    <3>1. s \in Nat /\ a = Base(s) + (off - DataOff) + k BY <1>1, <2>1
    <3>. HIDE DEF s
    <3>2. Reads(s, off, k, a) BY <1>2, <3>1, ReadOnceIs
    <3>. QED BY <3>2 DEF s
  <2>. QED BY <2>2 DEF Reads
<1>. HIDE DEF a
<1>5. CellByte(ReadOnce(e.sector, off, k)) = ByteAt(flash, a) BY <1>4 DEF CellByte, ByteAt
<1>. QED BY <1>3, <1>5, Zenon DEF off

(* big_file_read that begins in the first sector of an entry. *)
Near(pos) == LET i == EntryAt(index, pos) IN index[i].off + pos - StartOf(index, i) < SectorSize

LEMMA ReadByteIs ==
  ASSUME Inv, index # <<>>, NEW pos \in Nat, NEW k \in Nat, pos + k < size, Near(pos)
  PROVE  ReadByte(pos, k) = Content[pos + k + 1]
<1>. DEFINE first == EntryAt(index, pos)
            p     == pos + k
            i     == EntryAt(index, p)
            e     == index[i]
            from  == StartOf(index, i)
            d     == p - from
            one   == ReadOnce(e.sector, e.off + pos - from, k)
            other == ReadOnce(e.sector, e.off, pos + k - from)
<1>1. flash \in Flashes /\ index \in Seq(Entries) /\ Content = BytesOfAll(flash, index)
      /\ size = Total(index) /\ size \in Nat
  BY InvFacts
<1>2. p \in Nat /\ p < Total(index) /\ pos < Total(index) BY <1>1
<1>3. first \in DOMAIN index /\ StartOf(index, first) \in Nat /\ StartOf(index, first) <= pos
      /\ index[first] \in Entries
  BY <1>1, <1>2, EntryAtIs
<1>4. i \in DOMAIN index /\ e \in Entries /\ from \in Nat /\ e.size \in Nat
      /\ d \in 0 .. e.size - 1
  <2>. HIDE DEF p
  <2>. QED BY <1>1, <1>2, EntryAtIs
<1>5. index[first].off + pos - StartOf(index, first) < SectorSize BY DEF Near
<1>6. ReadByte(pos, k) = IF i = first THEN CellByte(one) ELSE CellByte(other)
  <2>1. ReadByte(pos, k) = ReadAs(first, i, from, pos, k) BY DEF ReadByte, ReadAs, CellByte
  <2>. HIDE DEF i, first, from
  <2>2. ReadAs(first, i, from, pos, k) = CellByte(IF i = first THEN one ELSE other)
    BY Zenon DEF ReadAs
  <2>. HIDE DEF one, other
  <2>. QED BY <2>1, <2>2
<1>. HIDE DEF first, i
<1>7. BytesOfAll(flash, index)[from + d + 1] = ByteAt(flash, Lin(e) + d)
  <2>. HIDE DEF d, from, e
  <2>1. d \in 0 .. index[i].size - 1 BY <1>4 DEF e
  <2>2. BytesOfAll(flash, index)[StartOf(index, i) + d + 1] = ByteAt(flash, Lin(index[i]) + d)
    BY <1>1, <1>4, <2>1, ByteOfEntry
  <2>. QED BY <2>2 DEF from, e
<1>8. from + d + 1 = pos + k + 1
  <2>. HIDE DEF from
  <2>. QED BY <1>2, <1>4
<1>9. CASE i = first
  <2>. DEFINE skip == pos - from
  <2>1. skip \in Nat /\ e.off \in Nat /\ skip + k = d /\ e.off + pos - from = e.off + skip
    <3>. DEFINE o == e.off
    <3>1. o \in Nat /\ from <= pos BY <1>3, <1>4, <1>9, EntryFacts
    <3>. HIDE DEF o, from
    <3>2. skip \in Nat /\ skip + k = d /\ o + pos - from = o + skip BY <1>4, <3>1
    <3>. QED BY <3>1, <3>2 DEF o
  <2>2. e.off + skip < SectorSize BY <1>5, <1>9, <2>1
  <2>. HIDE DEF skip, e, d, from
  <2>3. CellByte(ReadOnce(e.sector, e.off + skip, k)) = ByteAt(flash, Lin(e) + (skip + k))
    BY <1>4, <2>1, <2>2, ReadFromEntry
  <2>4. CellByte(one) = ByteAt(flash, Lin(e) + d) BY <2>1, <2>3, Zenon
  <2>5. ReadByte(pos, k) = ByteAt(flash, Lin(e) + d) BY <1>6, <1>9, <2>4, Zenon
  <2>. QED BY <1>1, <1>7, <1>8, <2>5, Zenon
<1>10. CASE i # first
  <2>1. e.off + 0 = e.off /\ e.off + 0 < SectorSize /\ 0 + d = d /\ d \in Nat /\ d = pos + k - from
    <3>1. e.off \in Nat /\ e.off < SectorSize BY <1>4, EntryFacts, SizesFacts DEF Entries
    <3>2. d \in Nat BY <1>4
    <3>4. d = pos + k - from
      <4>. HIDE DEF from
      <4>. QED BY <1>4
    <3>. HIDE DEF d, e
    <3>3. e.off + 0 = e.off /\ e.off + 0 < SectorSize /\ 0 + d = d BY <3>1, <3>2
    <3>. QED BY <3>2, <3>3, <3>4
  <2>. HIDE DEF e, d, from, p
  <2>2. CellByte(ReadOnce(e.sector, e.off + 0, d)) = ByteAt(flash, Lin(e) + (0 + d))
    BY <1>4, <2>1, ReadFromEntry
  <2>3. CellByte(other) = ByteAt(flash, Lin(e) + d) BY <2>1, <2>2, Zenon
  <2>4. ReadByte(pos, k) = ByteAt(flash, Lin(e) + d) BY <1>6, <1>10, <2>3, Zenon
  <2>. QED BY <1>1, <1>7, <1>8, <2>4, Zenon
<1>. QED BY <1>9, <1>10

LEMMA RestOf ==
  ASSUME NEW c \in Seq(Byte), NEW a \in Nat, NEW n, n = Len(c), a < n
  PROVE  SubSeq(c, a + 1, n) = [k \in 1 .. n - a |-> c[a + k]]
OBVIOUS

LEMMA InvReads == Inv => NearReadsBack
<1>1. SUFFICES ASSUME Inv, NEW pos \in 0 .. size - 1, index = <<>> \/ Near(pos)
               PROVE  FileRead(pos, size - pos) = SubSeq(Content, pos + 1, size)
  BY DEF NearReadsBack, Near
<1>2. size = Len(Content) /\ size \in Nat /\ Content \in Seq(Byte) BY <1>1, InvFacts DEF Inv
<1>3. pos \in Nat /\ pos < size BY <1>2
<1>4. SubSeq(Content, pos + 1, size) = [k \in 1 .. size - pos |-> Content[pos + k]]
  BY <1>2, <1>3, RestOf
<1>5. FileRead(pos, size - pos) =
        [k \in 1 .. size - pos |-> IF index = <<>> THEN data[pos + k] ELSE ReadByte(pos, k - 1)]
  BY DEF FileRead
<1>6. ASSUME NEW k \in 1 .. size - pos
      PROVE  (IF index = <<>> THEN data[pos + k] ELSE ReadByte(pos, k - 1)) = Content[pos + k]
  <2>1. CASE index = <<>>
    <3>1. Content = data BY <2>1 DEF Content
    <3>. QED BY <2>1, <3>1
  <2>2. CASE index # <<>>
    <3>. DEFINE l == k - 1
    <3>1. l \in Nat /\ pos + l < size /\ pos + l + 1 = pos + k BY <1>2, <1>3
    <3>2. Near(pos) BY <1>1, <2>2
    <3>. HIDE DEF l
    <3>3. ReadByte(pos, l) = Content[pos + l + 1] BY <1>1, <1>3, <2>2, <3>1, <3>2, ReadByteIs
    <3>4. ReadByte(pos, l) = Content[pos + k] BY <3>1, <3>3, Zenon
    <3>. QED BY <2>2, <3>4 DEF l
  <2>. QED BY <2>1, <2>2
<1>. QED BY <1>4, <1>5, <1>6

-----------------------------------------------------------------------------
(* Inv holds in every state.                                                *)
LEMMA Invariant ==
  ASSUME AppendsFit, RewritesApart
  PROVE  Spec => []Inv
<1>1. Init => Inv BY InvInit
<1>2. Inv /\ [Next]_vars => Inv' BY StepIs
<1>. QED BY <1>1, <1>2, PTL DEF Spec

(* All variables keep their types: no entry begins in the head of a sector, *)
(* is empty or lies outside the sectors, the index never overruns the cache *)
(* and the file never grows past file_max.                                  *)
THEOREM TypeCorrect ==
  ASSUME AppendsFit, RewritesApart
  PROVE  Spec => []TypeOK
<1>1. Inv => TypeOK BY InvTypes
<1>. QED BY <1>1, Invariant, PTL

(* No append, rewrite or bfile_gc, in any order, gives back a sector that   *)
(* holds bytes of the file.                                                 *)
THEOREM LiveAreTaken ==
  ASSUME AppendsFit, RewritesApart
  PROVE  Spec => []LiveTaken
<1>1. Inv => LiveTaken BY InvLive
<1>. QED BY <1>1, Invariant, PTL

(* The entries add up to file_size, which a reopened file counts, and no    *)
(* two of them ever share a sector.                                         *)
THEOREM EntriesAddUp ==
  ASSUME AppendsFit, RewritesApart
  PROVE  Spec => []IndexExact
<1>1. Inv => IndexExact BY InvIndex
<1>. QED BY <1>1, Invariant, PTL

(* A read that begins in the first sector of an entry returns the bytes of  *)
(* the file, over any number of sectors and entries.                        *)
THEOREM NearReadsReturn ==
  ASSUME AppendsFit, RewritesApart
  PROVE  Spec => []NearReadsBack
<1>1. Inv => NearReadsBack BY InvReads
<1>. QED BY <1>1, Invariant, PTL

(* A file, small or big, implements a sequence of bytes: a write overlays   *)
(* its own bytes or, where space runs out, the first of them; a collection, *)
(* a change from small to big and a reopening change none.                  *)
THEOREM ImplementsFile ==
  ASSUME AppendsFit, RewritesApart
  PROVE  Spec => FileSpec
<1>1. Init => File!Init BY InvInit DEF File!Init
<1>2. Inv /\ [Next]_vars => [File!Next]_Content BY StepIs, FileStep
<1>. QED BY <1>1, <1>2, Invariant, PTL DEF Spec, FileSpec, File!Spec
=============================================================================
