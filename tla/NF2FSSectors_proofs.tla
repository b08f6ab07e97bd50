-------------------------- MODULE NF2FSSectors_proofs --------------------------
(***************************************************************************)
(* Proofs about NF2FSSectors for every number of regions and of sectors    *)
(* per region, while the first scan lasts (OneScan) and for a system that  *)
(* is unmounted with room left in its maps (RoomAtStop).                   *)
(***************************************************************************)
EXTENDS NF2FSSectors, TLAPS

(* A region in RAM holds, besides free and old sectors, its own kind only. *)
KindsApart ==
  \A k \in Kinds, s \in Sectors : RegionOf(s) = region[k] => owner[s] \in {"free", "old", k}

(* A map in RAM is a part of what flash has for its region. *)
BitsBelow == \A k \in Kinds : bits[k] \subseteq Window(region[k]) \cap freeMap

(* A request under way can be served by the first scan. *)
RequestServable ==
  pc = "find" => req.num \in 1 .. RegionSize /\ InFirstScan(req.kind, req.num)

(* What unmount leaves is enough for mount to restore. *)
StopRestorable ==
  pc = "unmounted" =>
    /\ freeMap = {s \in Sectors : owner[s] = "free"}
    /\ commit.reserve = reserve
    /\ \A k \in Kinds : IF region[k] = Null THEN commit.next[k] = Null
                        ELSE /\ commit.next[k] # Null
                             /\ commit.next[k] \div RegionSize = region[k]

IInv ==
  /\ TypeOK
  /\ MapsExact
  /\ RegionsDisjoint
  /\ KindsApart
  /\ BitsBelow
  /\ RequestServable
  /\ StopRestorable

-----------------------------------------------------------------------------
(* Arithmetic of regions. *)

(* Quotient and remainder by the region size. *)
LEMMA DivMod ==
  ASSUME NEW p \in Int, NEW s \in Nat \ {0}
  PROVE  /\ p \div s \in Int
         /\ p % s \in 0 .. s - 1
         /\ p = s * (p \div s) + (p % s)
BY SMT

(* The constants as natural numbers. *)
LEMMA Sizes ==
  /\ RegionNum \in Nat /\ RegionNum > 2
  /\ RegionSize \in Nat \ {0} /\ RegionSize > 1
BY RegionNumAssumption, RegionSizeAssumption

(* A product of integers is an integer, and grows with its factor. *)
LEMMA Products ==
  ASSUME NEW a \in Int, NEW b \in Int, NEW s \in Nat
  PROVE  /\ a * s \in Int
         /\ a <= b => a * s <= b * s
         /\ (a + 1) * s = a * s + s
BY SMT

(* Offsets from one base differ as the positions do. *)
LEMMA SameBase ==
  ASSUME NEW base \in Int, NEW i \in Int, NEW j \in Int, NEW p \in Int, NEW q \in Int,
         p = base + i, q = base + j
  PROVE  j - i = q - p
OBVIOUS

(* The sector at offset i of region r. *)
LEMMA Place ==
  ASSUME NEW r \in Int, NEW i \in 0 .. RegionSize - 1
  PROVE  /\ RegionOf(r * RegionSize + i) = r
         /\ (r * RegionSize + i) % RegionSize = i
<1>1. RegionSize \in Nat \ {0}
  BY Sizes
<1>2. QED
  BY <1>1, SMT DEF RegionOf

(* Where a data sector lies. *)
LEMMA RegionOfSector ==
  ASSUME NEW s \in Sectors
  PROVE  /\ s \in Int /\ RegionOf(s) \in Int
         /\ s % RegionSize \in 0 .. RegionSize - 1
         /\ s = RegionOf(s) * RegionSize + (s % RegionSize)
<1>1. s \in Int /\ RegionSize \in Nat \ {0}
  BY Sizes, Products DEF Sectors
<1>2. QED
  BY <1>1, DivMod DEF RegionOf

(* The sectors of a claimable region are data sectors. *)
LEMMA WindowPlace ==
  ASSUME NEW r \in 1 .. RegionNum - 1, NEW i \in 0 .. RegionSize - 1
  PROVE  r * RegionSize + i \in Window(r)
<1>1. /\ RegionSize \in Nat \ {0} /\ RegionNum \in Nat
      /\ r \in Int /\ r + 1 \in Int
  BY Sizes
<1>2. RegionOf(r * RegionSize + i) = r
  BY <1>1, Place
<1>3. 1 * RegionSize <= r * RegionSize /\ (r + 1) * RegionSize <= RegionNum * RegionSize
  BY <1>1, Products
<1>4. (r + 1) * RegionSize = r * RegionSize + RegionSize /\ r * RegionSize \in Int
  BY <1>1, Products
<1>5. RegionNum * RegionSize \in Int
  BY <1>1, Products
<1>6. r * RegionSize + i \in Sectors
  BY <1>1, <1>3, <1>4, <1>5 DEF Sectors
<1>7. QED
  BY <1>2, <1>6 DEF Window

-----------------------------------------------------------------------------
(* The initial states, and the steps one by one. *)

(* The state after format. *)
LEMMA InitInvariant == Init => IInv
<1> SUFFICES ASSUME Init PROVE IInv
  OBVIOUS
<1>1. /\ RegionNum \in Nat /\ RegionNum > 2
      /\ RegionSize \in Nat \ {0} /\ RegionSize > 1
  BY Sizes
<1>2. RegionOf(RegionSize) = 1 /\ RegionSize \in Sectors
  <2>1. 1 * RegionSize + 0 \in Window(1)
    <3>1. 1 \in 1 .. RegionNum - 1 /\ 0 \in 0 .. RegionSize - 1
      BY <1>1
    <3>2. QED
      BY <3>1, WindowPlace
  <2>2. 1 * RegionSize + 0 = RegionSize
    BY <1>1
  <2>3. QED
    BY <2>1, <2>2 DEF Window
<1>3. (RegionNum + 1) * RegionSize \in Int
  BY <1>1, Products
<1>4. 0 <= (RegionNum + 1) * RegionSize
  BY <1>1, Products
<1>5. TypeOK
  <2>1. /\ freeMap \subseteq Sectors /\ eraseMap \subseteq Sectors
        /\ region \in [Kinds -> Null .. RegionNum] /\ scanAt \in [Kinds -> Null .. RegionNum + 1]
        /\ index \in [Kinds -> 0 .. RegionSize]
        /\ reserve \in 0 .. RegionNum - 1 /\ held \in Null .. RegionNum - 1
    BY <1>1 DEF Init, Kinds, Null
  <2>2. bits \in [Kinds -> SUBSET Sectors]
    BY DEF Init, Kinds, Window
  <2>3. /\ emap \in [region : Int, marks : SUBSET Int]
        /\ pc \in {"idle", "find", "fault", "unmounted"}
        /\ req.kind \in Kinds /\ req.num \in 0 .. RegionSize
        /\ commit.reserve \in 0 .. RegionNum - 1
        /\ owner \in [Sectors -> States]
    BY <1>1 DEF Init, Kinds, Null, States
  <2>4. commit.next \in [Kinds -> Null .. (RegionNum + 1) * RegionSize]
    <3>1. Null \in Null .. (RegionNum + 1) * RegionSize
      BY <1>3, <1>4 DEF Null
    <3>2. commit.next = [k \in Kinds |-> Null]
      BY DEF Init
    <3>3. QED
      BY <3>1, <3>2
  <2>5. QED
    BY <2>1, <2>2, <2>3, <2>4 DEF TypeOK
<1>6. MapsExact
  <2>1. SUFFICES ASSUME NEW s \in Sectors PROVE Bit(s) <=> owner[s] = "free"
    BY DEF MapsExact
  <2>2. owner[s] = "free" <=> s # RegionSize
    BY DEF Init
  <2>3. RegionOf(s) \in Int /\ s \in Int
    BY RegionOfSector
  <2>4. RegionOf(s) # Null
    <3>1. RegionSize * 1 <= s
      BY <1>1 DEF Sectors
    <3>2. s = RegionOf(s) * RegionSize + (s % RegionSize) /\ s % RegionSize \in 0 .. RegionSize - 1
      BY RegionOfSector
    <3>3. QED
      BY <1>1, <3>1, <3>2 DEF Null
  <2>5. CASE RegionOf(s) = 1
    BY <2>2, <2>5 DEF Init, Bit, Kinds, Window
  <2>6. CASE RegionOf(s) # 1
    BY <1>2, <2>2, <2>4, <2>6 DEF Init, Bit, Kinds
  <2>7. QED
    BY <2>5, <2>6
<1>7. RegionsDisjoint /\ KindsApart /\ RequestServable /\ StopRestorable
  BY <1>1, <1>2 DEF Init, RegionsDisjoint, KindsApart, RequestServable, StopRestorable,
                    Kinds, Null
<1>8. BitsBelow
  BY DEF Init, BitsBelow, Kinds, Window
<1>9. QED
  BY <1>5, <1>6, <1>7, <1>8 DEF IInv

(* A run that find_in_map may return: free sectors of the region in RAM. *)
LEMMA RunOfMap ==
  ASSUME IInv, pc = "find", NEW s \in Starts(req.kind, req.num)
  PROVE  /\ req.kind \in Kinds /\ req.num \in 1 .. RegionSize /\ s \in Sectors
         /\ \A t \in s .. s + req.num - 1 :
              /\ t \in Sectors /\ t \in bits[req.kind]
              /\ RegionOf(t) = region[req.kind] /\ owner[t] = "free"
         /\ (s % RegionSize) + req.num \in 0 .. RegionSize
<1>1. req.kind \in Kinds /\ req.num \in 1 .. RegionSize /\ RegionSize \in Nat \ {0}
  BY Sizes DEF IInv, TypeOK, RequestServable
<1>2. s \in bits[req.kind] /\ s .. s + req.num - 1 \subseteq bits[req.kind]
  BY DEF Starts
<1>3. bits[req.kind] \subseteq Window(region[req.kind])
  BY <1>1 DEF IInv, BitsBelow
<1>4. \A t \in bits[req.kind] : Bit(t) /\ t \in Sectors /\ RegionOf(t) = region[req.kind]
  BY <1>1, <1>3 DEF Bit, Window
<1>5. \A t \in bits[req.kind] : owner[t] = "free"
  BY <1>4 DEF IInv, MapsExact
<1>6. (s % RegionSize) + req.num \in 0 .. RegionSize
  <2> DEFINE t == s + req.num - 1
  <2>1. s \in Int /\ s \in Sectors
    BY <1>2, <1>4, RegionOfSector
  <2>2. t \in s .. s + req.num - 1 /\ t \in Int
    BY <1>1, <2>1
  <2>3. t \in bits[req.kind]
    BY <1>2, <2>2
  <2>4. t \in Sectors /\ RegionOf(t) = RegionOf(s)
    BY <1>2, <1>4, <2>3
  <2>5. /\ s = RegionOf(s) * RegionSize + (s % RegionSize)
        /\ t = RegionOf(s) * RegionSize + (t % RegionSize)
        /\ s % RegionSize \in 0 .. RegionSize - 1
        /\ t % RegionSize \in 0 .. RegionSize - 1
    BY <2>1, <2>4, RegionOfSector
  <2>6. RegionOf(s) * RegionSize \in Int
    BY <1>1, <2>1, RegionOfSector, Products
  <2>7. (t % RegionSize) - (s % RegionSize) = t - s
    BY <2>1, <2>2, <2>5, <2>6, SameBase
  <2>8. t - s = req.num - 1
    BY <1>1, <2>1
  <2>9. QED
    BY <1>1, <2>5, <2>7, <2>8
<1>7. QED
  BY <1>1, <1>2, <1>4, <1>5, <1>6

(* A request begins. *)
LEMMA AllocBeginInvariant ==
  ASSUME IInv, OneScan, NEW k \in Kinds, NEW n \in 1 .. RegionSize, AllocBegin(k, n)
  PROVE  IInv'
<1> USE DEF AllocBegin, ramVars, eraseVars
<1>1. TypeOK'
  <2>1. n \in 0 .. RegionSize
    BY Sizes
  <2>2. QED
    BY <2>1 DEF IInv, TypeOK
<1>2. MapsExact' /\ RegionsDisjoint' /\ KindsApart' /\ BitsBelow'
  BY DEF IInv, MapsExact, Bit, RegionsDisjoint, KindsApart, BitsBelow
<1>3. RequestServable'
  BY DEF RequestServable, InFirstScan, Starts
<1>4. StopRestorable'
  BY DEF StopRestorable
<1>5. QED
  BY <1>1, <1>2, <1>3, <1>4 DEF IInv

(* A run is found: the map in RAM and the heads change together. *)
LEMMA AllocFindInvariant ==
  ASSUME IInv, AllocFind
  PROVE  IInv'
<1> DEFINE k == req.kind
           n == req.num
<1>1. PICK s \in Starts(k, n) :
        /\ bits'  = [bits EXCEPT ![k] = @ \ (s .. s + n - 1)]
        /\ index' = [index EXCEPT ![k] = (s % RegionSize) + n]
        /\ SetMarks(EraseOld(Marks, s, n))
        /\ Own(s, n, k)
  BY DEF AllocFind
<1> DEFINE run == s .. s + n - 1
<1>2. /\ k \in Kinds /\ n \in 1 .. RegionSize /\ s \in Sectors
      /\ \A t \in run : /\ t \in Sectors /\ t \in bits[k]
                        /\ RegionOf(t) = region[k] /\ owner[t] = "free"
      /\ (s % RegionSize) + n \in 0 .. RegionSize
  BY RunOfMap DEF AllocFind
<1>3. UNCHANGED <<freeMap, region, scanAt, reserve, held, req, commit>> /\ pc' = "idle"
  BY DEF AllocFind
<1>4. emap' = emap /\ eraseMap' = eraseMap
  <2>1. EraseOld(Marks, s, n) = Marks
    BY <1>2 DEF EraseOld
  <2>2. emap' = [region |-> emap.region, marks |-> emap.marks] /\ eraseMap' = eraseMap
    BY <1>1, <2>1 DEF SetMarks, Marks
  <2>3. QED
    BY <2>2 DEF IInv, TypeOK
<1>5. owner' = [t \in Sectors |-> IF t \in run THEN k ELSE owner[t]]
  BY <1>1 DEF Own
<1>6. TypeOK'
  <2>1. bits' \in [Kinds -> SUBSET Sectors]
    BY <1>1 DEF IInv, TypeOK
  <2>2. index' \in [Kinds -> 0 .. RegionSize]
    BY <1>1, <1>2 DEF IInv, TypeOK
  <2>3. owner' \in [Sectors -> States]
    BY <1>2, <1>5 DEF IInv, TypeOK, States
  <2>4. QED
    BY <1>3, <1>4, <2>1, <2>2, <2>3 DEF IInv, TypeOK
<1>7. \A j \in Kinds : bits'[j] = IF j = k THEN bits[j] \ run ELSE bits[j]
  BY <1>1, <1>2 DEF IInv, TypeOK
<1>8. MapsExact'
  <2>1. SUFFICES ASSUME NEW t \in Sectors PROVE Bit(t)' <=> owner'[t] = "free"
    BY DEF MapsExact
  <2>2. Bit(t) <=> owner[t] = "free"
    BY DEF IInv, MapsExact
  <2>3. CASE t \in run
    <3>1. owner'[t] # "free"
      BY <1>2, <1>5, <2>3 DEF Kinds
    <3>2. region[k] = RegionOf(t) /\ t \notin bits'[k]
      BY <1>2, <1>7, <2>3
    <3>3. \A j \in Kinds : j # k => region[j] # RegionOf(t)
      BY <1>2, <3>2 DEF IInv, RegionsDisjoint, Kinds
    <3>4. \A j \in Kinds : t \notin bits'[j]
      BY <1>7, <3>2, <3>3 DEF IInv, BitsBelow, Window
    <3>5. QED
      BY <1>2, <1>3, <3>1, <3>2, <3>4 DEF Bit
  <2>4. CASE t \notin run
    <3>1. owner'[t] = owner[t]
      BY <1>5, <2>4
    <3>2. \A j \in Kinds : t \in bits'[j] <=> t \in bits[j]
      BY <1>7, <2>4
    <3>3. QED
      BY <1>3, <2>2, <3>1, <3>2 DEF Bit
  <2>5. QED
    BY <2>3, <2>4
<1>9. RegionsDisjoint'
  <2>1. \A t \in run : ~(RegionOf(t) >= reserve)
    <3>1. SUFFICES ASSUME NEW t \in run PROVE ~(RegionOf(t) >= reserve)
      OBVIOUS
    <3>2. RegionOf(t) = region[k] /\ region[k] < reserve
      BY <1>2 DEF IInv, RegionsDisjoint
    <3>3. region[k] \in Int /\ reserve \in Int
      BY <1>2, Sizes DEF IInv, TypeOK, Null
    <3>4. QED
      BY <3>2, <3>3
  <2>2. QED
    BY <1>3, <1>5, <2>1 DEF IInv, RegionsDisjoint
<1>10. KindsApart'
  <2>1. SUFFICES ASSUME NEW j \in Kinds, NEW t \in Sectors, RegionOf(t) = region[j]
                 PROVE  owner'[t] \in {"free", "old", j}
    BY <1>3 DEF KindsApart
  <2>2. CASE t \in run
    <3>1. j = k
      BY <1>2, <2>1, <2>2 DEF IInv, RegionsDisjoint, Kinds
    <3>2. QED
      BY <1>5, <2>2, <3>1
  <2>3. CASE t \notin run
    BY <1>5, <2>1, <2>3 DEF IInv, KindsApart
  <2>4. QED
    BY <2>2, <2>3
<1>11. BitsBelow'
  BY <1>3, <1>7 DEF IInv, BitsBelow, Window
<1>12. RequestServable' /\ StopRestorable'
  BY <1>3 DEF RequestServable, StopRestorable
<1>13. QED
  BY <1>6, <1>8, <1>9, <1>10, <1>11, <1>12 DEF IInv

(* The first scan turns to the region in reserve. *)
LEMMA AllocNextClaims ==
  ASSUME IInv, AllocNext
  PROVE  /\ req.kind \in Kinds /\ req.num \in 1 .. RegionSize
         /\ reserve # RegionNum - 1 /\ Claim(req.kind)
<1>1. req.kind \in Kinds /\ req.num \in 1 .. RegionSize
  BY DEF IInv, TypeOK, RequestServable, AllocNext
<1>2. reserve # RegionNum - 1
  BY DEF IInv, RequestServable, InFirstScan, AllocNext
<1>3. QED
  BY <1>1, <1>2 DEF AllocNext

(* The map in RAM goes to flash and the region in reserve is claimed. *)
LEMMA AllocNextInvariant ==
  ASSUME IInv, OneScan, AllocNext
  PROVE  IInv'
<1> DEFINE k == req.kind
           n == req.num
<1>1. k \in Kinds /\ n \in 1 .. RegionSize /\ reserve # RegionNum - 1
  BY AllocNextClaims
<1>2. /\ region' = [region EXCEPT ![k] = reserve]
      /\ bits'   = [bits EXCEPT ![k] = Window(reserve)]
      /\ index'  = [index EXCEPT ![k] = 0]
      /\ scanAt' = [scanAt EXCEPT ![k] = reserve + 1]
      /\ reserve' = reserve + 1
      /\ pc' = pc
  BY AllocNextClaims DEF Claim
<1>3. /\ freeMap' = freeMap \ (Window(region[k]) \ bits[k])
      /\ UNCHANGED <<held, emap, eraseMap, req, commit, owner>>
      /\ pc = "find"
  BY DEF AllocNext, Flushed, eraseVars
<1>4. /\ reserve \in 0 .. RegionNum - 1 /\ RegionNum \in Nat /\ RegionSize \in Nat \ {0}
      /\ \A j \in Kinds : region[j] \in Int /\ region[j] < reserve
  BY Sizes DEF IInv, TypeOK, RegionsDisjoint, Null
<1>5. \A j \in Kinds : /\ region'[j] = IF j = k THEN reserve ELSE region[j]
                       /\ bits'[j] = IF j = k THEN Window(reserve) ELSE bits[j]
  BY <1>1, <1>2 DEF IInv, TypeOK
<1>6. TypeOK'
  <2>1. /\ region' \in [Kinds -> Null .. RegionNum]
        /\ scanAt' \in [Kinds -> Null .. RegionNum + 1]
        /\ index' \in [Kinds -> 0 .. RegionSize]
        /\ reserve' \in 0 .. RegionNum - 1
    BY <1>1, <1>2, <1>4 DEF IInv, TypeOK, Null
  <2>2. bits' \in [Kinds -> SUBSET Sectors]
    BY <1>1, <1>2 DEF IInv, TypeOK, Window
  <2>3. QED
    BY <1>2, <1>3, <2>1, <2>2 DEF IInv, TypeOK
<1>7. \A s \in Window(reserve) :
        /\ s \in Sectors /\ RegionOf(s) = reserve /\ owner[s] = "free" /\ s \in freeMap
        /\ \A j \in Kinds : region[j] # RegionOf(s)
  <2>1. SUFFICES ASSUME NEW s \in Window(reserve)
                 PROVE  /\ s \in Sectors /\ RegionOf(s) = reserve
                        /\ owner[s] = "free" /\ s \in freeMap
                        /\ \A j \in Kinds : region[j] # RegionOf(s)
    OBVIOUS
  <2>2. s \in Sectors /\ RegionOf(s) = reserve
    BY DEF Window
  <2>3. owner[s] = "free"
    BY <1>4, <2>2 DEF IInv, RegionsDisjoint
  <2>4. \A j \in Kinds : region[j] # RegionOf(s)
    BY <1>4, <2>2
  <2>5. Bit(s) /\ (Bit(s) <=> s \in freeMap)
    BY <2>2, <2>3, <2>4 DEF IInv, MapsExact, Bit
  <2>6. QED
    BY <2>2, <2>3, <2>4, <2>5
<1>8. MapsExact'
  <2>1. SUFFICES ASSUME NEW s \in Sectors PROVE Bit(s)' <=> owner[s] = "free"
    BY <1>3 DEF MapsExact
  <2>2. Bit(s) <=> owner[s] = "free"
    BY DEF IInv, MapsExact
  <2>3. CASE RegionOf(s) = reserve
    <3>1. s \in Window(reserve)
      BY <2>3 DEF Window
    <3>2. region'[k] = RegionOf(s) /\ s \in bits'[k]
      BY <1>1, <1>5, <2>3, <3>1
    <3>3. QED
      BY <1>1, <1>7, <3>1, <3>2 DEF Bit
  <2>4. CASE RegionOf(s) = region[k]
    <3>1. \A j \in Kinds : region'[j] # RegionOf(s)
      BY <1>1, <1>4, <1>5, <2>4 DEF IInv, RegionsDisjoint, Kinds
    <3>2. s \in Window(region[k])
      BY <2>4 DEF Window
    <3>3. s \in freeMap' <=> s \in bits[k]
      BY <1>1, <1>3, <3>2 DEF IInv, BitsBelow
    <3>4. \A j \in Kinds : j # k => s \notin bits[j]
      BY <1>1, <2>4 DEF IInv, BitsBelow, Window, RegionsDisjoint, Kinds
    <3>5. Bit(s) <=> s \in bits[k]
      BY <1>1, <2>4, <3>4 DEF Bit
    <3>6. QED
      BY <2>2, <3>1, <3>3, <3>5 DEF Bit
  <2>5. CASE RegionOf(s) # reserve /\ RegionOf(s) # region[k]
    <3>1. s \in freeMap' <=> s \in freeMap
      BY <1>3, <2>5 DEF Window
    <3>2. s \notin bits[k] /\ s \notin bits'[k]
      BY <1>1, <1>5, <2>5 DEF IInv, BitsBelow, Window
    <3>3. \A j \in Kinds : /\ region'[j] = RegionOf(s) <=> region[j] = RegionOf(s)
                           /\ s \in bits'[j] <=> s \in bits[j]
      BY <1>1, <1>5, <2>5, <3>2
    <3>4. QED
      BY <2>2, <3>1, <3>3 DEF Bit
  <2>6. QED
    BY <2>3, <2>4, <2>5
<1>9. RegionsDisjoint'
  <2>1. region'["dir"] # region'["bfile"]
    BY <1>1, <1>4, <1>5 DEF IInv, RegionsDisjoint, Kinds
  <2>2. \A j \in Kinds : region'[j] < reserve'
    BY <1>2, <1>4, <1>5
  <2>3. \A s \in Sectors : RegionOf(s) >= reserve' => owner'[s] = "free"
    <3>1. SUFFICES ASSUME NEW s \in Sectors, RegionOf(s) >= reserve + 1
                   PROVE  owner[s] = "free"
      BY <1>2, <1>3
    <3>2. RegionOf(s) >= reserve
      BY <1>4, <3>1, RegionOfSector
    <3>3. QED
      BY <3>2 DEF IInv, RegionsDisjoint
  <2>4. QED
    BY <2>1, <2>2, <2>3 DEF RegionsDisjoint
<1>10. KindsApart'
  <2>1. SUFFICES ASSUME NEW j \in Kinds, NEW s \in Sectors, RegionOf(s) = region'[j]
                 PROVE  owner[s] \in {"free", "old", j}
    BY <1>3 DEF KindsApart
  <2>2. CASE j = k
    BY <1>5, <1>7, <2>1, <2>2 DEF Window
  <2>3. CASE j # k
    BY <1>5, <2>1, <2>3 DEF IInv, KindsApart
  <2>4. QED
    BY <2>2, <2>3
<1>11. BitsBelow'
  <2>1. SUFFICES ASSUME NEW j \in Kinds, NEW s \in bits'[j]
                 PROVE  s \in Window(region'[j]) /\ s \in freeMap'
    BY DEF BitsBelow, Window
  <2>2. CASE j = k
    <3>1. s \in Window(reserve) /\ s \notin Window(region[k])
      BY <1>1, <1>5, <1>7, <2>2 DEF Window
    <3>2. QED
      BY <1>3, <1>5, <1>7, <2>2, <3>1
  <2>3. CASE j # k
    <3>1. s \in Window(region[j]) /\ s \in freeMap
      BY <1>5, <2>3 DEF IInv, BitsBelow
    <3>2. s \notin Window(region[k])
      BY <1>1, <2>3, <3>1 DEF Window, IInv, RegionsDisjoint, Kinds
    <3>3. QED
      BY <1>3, <1>5, <2>3, <3>1, <3>2
  <2>4. QED
    BY <2>2, <2>3
<1>12. RequestServable'
  <2> DEFINE s == reserve * RegionSize + 0
  <2>1. reserve \in 1 .. RegionNum - 1
    BY <1>4, Sizes DEF IInv, TypeOK, RegionsDisjoint, Kinds, Null
  <2>2. \A i \in 0 .. RegionSize - 1 : reserve * RegionSize + i \in Window(reserve)
    BY <2>1, WindowPlace
  <2>3. reserve * RegionSize \in Int
    BY <1>4, Products
  <2>4. s \in Window(reserve) /\ s = reserve * RegionSize /\ s % RegionSize = 0
    BY <1>4, <2>2, <2>3, Place
  <2>5. s .. s + n - 1 \subseteq Window(reserve)
    <3>1. SUFFICES ASSUME NEW t \in s .. s + n - 1 PROVE t \in Window(reserve)
      OBVIOUS
    <3>2. t - s \in 0 .. RegionSize - 1 /\ t = reserve * RegionSize + (t - s)
      BY <1>1, <1>4, <2>3, <2>4
    <3>3. QED
      BY <2>2, <3>2
  <2>6. bits'[k] = Window(reserve) /\ index'[k] = 0
    BY <1>1, <1>2 DEF IInv, TypeOK
  <2>7. s \in Starts(k, n)'
    BY <1>3, <2>4, <2>5, <2>6 DEF Starts
  <2>8. QED
    BY <1>1, <1>3, <2>7 DEF RequestServable, InFirstScan
<1>13. StopRestorable'
  BY <1>2, <1>3 DEF StopRestorable
<1>14. QED
  BY <1>6, <1>8, <1>9, <1>10, <1>11, <1>12, <1>13 DEF IInv

(* emap_set keeps the two erase maps well typed. *)
LEMMA EmapSetType ==
  ASSUME NEW first \in Int, NEW num \in Int,
         emap \in [region : Int, marks : SUBSET Int], eraseMap \subseteq Sectors,
         SetMarks(EmapSet(Marks, first, num))
  PROVE  emap' \in [region : Int, marks : SUBSET Int] /\ eraseMap' \subseteq Sectors
<1> DEFINE m     == Marks
           r     == RegionOf(first)
           fresh == [region |-> r, marks |-> {}, erase |-> m.erase \ m.marks]
           m1    == IF r # m.region /\ m.marks # {} THEN fresh ELSE m
           shift == (m1.region - r) * RegionSize
           all   == m1.marks \cup {s + shift : s \in first .. first + num - 1}
           last  == m1.region + RegionOf(first + num) - r
<1>1. \A i \in Int : RegionOf(i) \in Int
  BY Sizes, DivMod DEF RegionOf
<1>2. m1.region \in Int /\ m1.marks \subseteq Int /\ m1.erase \subseteq Sectors
  BY <1>1 DEF Marks
<1>3. shift \in Int
  BY <1>1, <1>2, Sizes, Products
<1>4. all \subseteq Int
  <2>1. \A s \in first .. first + num - 1 : s + shift \in Int
    BY <1>3
  <2>2. QED
    BY <1>2, <2>1
<1>5. last \in Int
  <2>1. first + num \in Int
    OBVIOUS
  <2>2. QED
    BY <1>1, <1>2, <2>1
<1>6. EmapSet(m, first, num) = IF r = held THEN m
                               ELSE [region |-> last,
                                     marks  |-> {s \in all : RegionOf(s) >= last},
                                     erase  |-> m1.erase \ {s \in all : RegionOf(s) < last}]
  BY DEF EmapSet
<1>7. CASE r = held
  BY <1>6, <1>7 DEF SetMarks, Marks
<1>8. CASE r # held
  <2> HIDE DEF all, last, m1, r, m
  <2>1. /\ emap' = [region |-> last, marks |-> {s \in all : RegionOf(s) >= last}]
        /\ eraseMap' = m1.erase \ {s \in all : RegionOf(s) < last}
    BY <1>6, <1>8 DEF SetMarks, m
  <2>2. QED
    BY <1>2, <1>4, <1>5, <2>1
<1>9. QED
  BY <1>7, <1>8

(* A run is given back. *)
LEMMA FreeInvariant ==
  ASSUME IInv, NEW k \in Kinds, NEW first \in Sectors, NEW num \in Int, Free(k, first, num)
  PROVE  IInv'
<1> DEFINE run == first .. first + num - 1
<1>1. /\ pc = "idle" /\ pc' \in {"idle", "fault"}
      /\ \A s \in run : s \in Sectors /\ owner[s] = k
      /\ UNCHANGED <<freeMap, region, bits, index, scanAt, reserve, held, req, commit>>
  BY DEF Free, ramVars
<1>2. owner' = [s \in Sectors |-> IF s \in run THEN "old" ELSE owner[s]]
  BY DEF Free, Own
<1>3. k # "free"
  BY DEF Kinds
<1>4. TypeOK'
  <2>1. emap' \in [region : Int, marks : SUBSET Int] /\ eraseMap' \subseteq Sectors
    <3>1. emap \in [region : Int, marks : SUBSET Int] /\ eraseMap \subseteq Sectors
      BY DEF IInv, TypeOK
    <3>2. CASE UNCHANGED eraseVars
      BY <3>1, <3>2 DEF eraseVars
    <3>3. CASE SetMarks(EmapSet(Marks, first, num))
      BY <3>1, <3>3, EmapSetType, RegionOfSector
    <3>4. QED
      BY <3>2, <3>3 DEF Free
  <2>2. owner' \in [Sectors -> States]
    BY <1>2 DEF IInv, TypeOK, States
  <2>3. QED
    BY <1>1, <2>1, <2>2 DEF IInv, TypeOK
<1>5. MapsExact' /\ RegionsDisjoint' /\ KindsApart'
  BY <1>1, <1>2, <1>3 DEF IInv, MapsExact, Bit, RegionsDisjoint, KindsApart
<1>6. BitsBelow' /\ RequestServable' /\ StopRestorable'
  BY <1>1 DEF IInv, BitsBelow, RequestServable, StopRestorable
<1>7. QED
  BY <1>4, <1>5, <1>6 DEF IInv

(* What unmount writes restores the maps that are in RAM. *)
LEMMA UnmountInvariant ==
  ASSUME IInv, RoomAtStop, Unmount
  PROVE  IInv'
<1>1. /\ UNCHANGED <<region, bits, index, scanAt, reserve, held, emap, req, owner>>
      /\ pc' = "unmounted" /\ eraseMap' = eraseMap \ emap.marks
      /\ commit' = [next |-> [k \in Kinds |-> IF region[k] = Null THEN Null
                                             ELSE region[k] * RegionSize + index[k]],
                    reserve |-> reserve]
      /\ \A k \in Kinds : index[k] < RegionSize
  BY DEF Unmount, ramVars, RoomLeft
<1>2. freeMap' = {s \in freeMap : \A k \in Kinds : RegionOf(s) = region[k] => s \in bits[k]}
  BY DEF Unmount, Flushed, Kinds, Window, IInv, TypeOK
<1>3. /\ RegionNum \in Nat /\ RegionSize \in Nat \ {0}
      /\ \A k \in Kinds : /\ region[k] \in Null .. RegionNum - 1
                          /\ index[k] \in 0 .. RegionSize - 1
  BY <1>1, Sizes DEF IInv, TypeOK, RegionsDisjoint, Null
<1>4. \A k \in Kinds : region[k] # Null =>
        /\ region[k] * RegionSize + index[k] \in 0 .. (RegionNum + 1) * RegionSize
        /\ (region[k] * RegionSize + index[k]) \div RegionSize = region[k]
  <2>1. SUFFICES ASSUME NEW k \in Kinds, region[k] # Null
                 PROVE  /\ region[k] * RegionSize + index[k] \in 0 .. (RegionNum + 1) * RegionSize
                        /\ (region[k] * RegionSize + index[k]) \div RegionSize = region[k]
    OBVIOUS
  <2>2. region[k] \in 0 .. RegionNum - 1 /\ region[k] \in Int
    BY <1>3, <2>1 DEF Null
  <2>3. /\ 0 * RegionSize <= region[k] * RegionSize
        /\ (region[k] + 1) * RegionSize <= (RegionNum + 1) * RegionSize
        /\ (region[k] + 1) * RegionSize = region[k] * RegionSize + RegionSize
        /\ region[k] * RegionSize \in Int /\ (RegionNum + 1) * RegionSize \in Int
    BY <1>3, <2>2, Products
  <2>4. region[k] * RegionSize + index[k] \in 0 .. (RegionNum + 1) * RegionSize
    BY <1>3, <2>3
  <2>5. (region[k] * RegionSize + index[k]) \div RegionSize = region[k]
    BY <1>3, <2>2, Place DEF RegionOf
  <2>6. QED
    BY <2>4, <2>5
<1>5. TypeOK'
  <2>1. freeMap' \subseteq Sectors /\ eraseMap' \subseteq Sectors
    BY <1>1, <1>2 DEF IInv, TypeOK
  <2>2. commit'.next \in [Kinds -> Null .. (RegionNum + 1) * RegionSize]
    <3>1. (RegionNum + 1) * RegionSize \in Nat
      BY <1>3
    <3>2. \A k \in Kinds : (IF region[k] = Null THEN Null ELSE region[k] * RegionSize + index[k])
                             \in Null .. (RegionNum + 1) * RegionSize
      BY <1>4, <3>1 DEF Null
    <3>3. QED
      BY <1>1, <3>2
  <2>3. QED
    BY <1>1, <2>1, <2>2 DEF IInv, TypeOK
<1>6. \A s \in Sectors : s \in freeMap' <=> owner[s] = "free"
  <2>1. SUFFICES ASSUME NEW s \in Sectors PROVE s \in freeMap' <=> Bit(s)
    BY DEF IInv, MapsExact
  <2>2. CASE \E k \in Kinds : region[k] = RegionOf(s)
    <3>1. PICK k \in Kinds : region[k] = RegionOf(s)
      BY <2>2
    <3>2. \A j \in Kinds : j # k => region[j] # RegionOf(s) /\ s \notin bits[j]
      BY <3>1 DEF IInv, RegionsDisjoint, BitsBelow, Window, Kinds
    <3>3. s \in freeMap' <=> s \in bits[k]
      BY <1>2, <3>1, <3>2 DEF IInv, BitsBelow
    <3>4. QED
      BY <3>1, <3>2, <3>3 DEF Bit
  <2>3. CASE \A k \in Kinds : region[k] # RegionOf(s)
    BY <1>2, <2>3 DEF Bit
  <2>4. QED
    BY <2>2, <2>3
<1>7. MapsExact'
  <2>1. SUFFICES ASSUME NEW s \in Sectors PROVE Bit(s)' <=> owner'[s] = "free"
    BY DEF MapsExact
  <2>2. Bit(s) <=> owner[s] = "free"
    BY DEF IInv, MapsExact
  <2>3. QED
    BY <1>1, <1>6, <2>2 DEF Bit
<1>8. BitsBelow'
  <2>1. SUFFICES ASSUME NEW k \in Kinds, NEW s \in bits[k]
                 PROVE  s \in Window(region[k]) /\ s \in freeMap'
    BY <1>1 DEF BitsBelow, Window
  <2>2. s \in Window(region[k]) /\ s \in freeMap
    BY DEF IInv, BitsBelow
  <2>3. \A j \in Kinds : RegionOf(s) = region[j] => j = k
    BY <2>2 DEF IInv, RegionsDisjoint, Window, Kinds
  <2>4. QED
    BY <1>2, <2>2, <2>3
<1>9. RegionsDisjoint' /\ KindsApart' /\ RequestServable'
  BY <1>1 DEF IInv, RegionsDisjoint, KindsApart, RequestServable
<1>10. StopRestorable'
  <2>1. freeMap' = {s \in Sectors : owner'[s] = "free"}
    BY <1>1, <1>5, <1>6 DEF TypeOK
  <2>2. \A k \in Kinds : commit'.next[k] = IF region[k] = Null THEN Null
                                           ELSE region[k] * RegionSize + index[k]
    BY <1>1
  <2>3. \A k \in Kinds : IF region'[k] = Null THEN commit'.next[k] = Null
                         ELSE /\ commit'.next[k] # Null
                              /\ commit'.next[k] \div RegionSize = region'[k]
    BY <1>1, <1>4, <2>2 DEF Null
  <2>4. QED
    BY <1>1, <2>1, <2>3 DEF StopRestorable
<1>11. QED
  BY <1>5, <1>7, <1>8, <1>9, <1>10 DEF IInv

(* mount restores the maps that were in RAM, from flash that is exact. *)
LEMMA MountInvariant ==
  ASSUME IInv, Mount
  PROVE  IInv'
<1> DEFINE restored == [k \in Kinds |-> IF commit.next[k] = Null THEN Null
                                        ELSE commit.next[k] \div RegionSize]
<1>1. /\ pc = "unmounted" /\ pc' = "idle"
      /\ region' = restored
      /\ bits'   = [k \in Kinds |-> Window(restored[k]) \cap freeMap]
      /\ scanAt' = [k \in Kinds |-> IF restored[k] = Null THEN Null ELSE restored[k] + 1]
      /\ index'  = [k \in Kinds |-> 0]
      /\ reserve' = commit.reserve /\ held' = commit.reserve
      /\ emap' = [region |-> Null, marks |-> {}]
      /\ UNCHANGED <<freeMap, eraseMap, req, commit, owner>>
  BY DEF Mount
<1>2. /\ freeMap = {s \in Sectors : owner[s] = "free"}
      /\ commit.reserve = reserve
      /\ restored = region
  <2>1. /\ freeMap = {s \in Sectors : owner[s] = "free"}
        /\ commit.reserve = reserve
        /\ \A k \in Kinds : IF region[k] = Null THEN commit.next[k] = Null
                            ELSE /\ commit.next[k] # Null
                                 /\ commit.next[k] \div RegionSize = region[k]
    BY <1>1 DEF IInv, StopRestorable
  <2>2. \A k \in Kinds : restored[k] = region[k]
    BY <2>1
  <2>3. QED
    BY <2>1, <2>2 DEF IInv, TypeOK
<1>3. \A k \in Kinds : region[k] \in Null .. RegionNum - 1
  BY Sizes DEF IInv, TypeOK, RegionsDisjoint, Null
<1>4. TypeOK'
  <2>1. scanAt' \in [Kinds -> Null .. RegionNum + 1]
    BY <1>1, <1>2, <1>3, Sizes DEF Null
  <2>2. bits' \in [Kinds -> SUBSET Sectors] /\ index' \in [Kinds -> 0 .. RegionSize]
    BY <1>1, Sizes DEF Window
  <2>3. held' \in Null .. RegionNum - 1 /\ emap' \in [region : Int, marks : SUBSET Int]
    BY <1>1, <1>2, Sizes DEF IInv, TypeOK, Null
  <2>4. QED
    BY <1>1, <1>2, <2>1, <2>2, <2>3 DEF IInv, TypeOK
<1>5. \A k \in Kinds : bits'[k] = Window(region[k]) \cap freeMap
  BY <1>1, <1>2
<1>6. MapsExact'
  <2>1. SUFFICES ASSUME NEW s \in Sectors PROVE Bit(s)' <=> s \in freeMap
    BY <1>1, <1>2 DEF MapsExact
  <2>2. QED
    BY <1>1, <1>2, <1>5 DEF Bit, Window
<1>7. BitsBelow'
  BY <1>1, <1>2, <1>5 DEF BitsBelow, Window
<1>8. RegionsDisjoint' /\ KindsApart' /\ RequestServable' /\ StopRestorable'
  BY <1>1, <1>2 DEF IInv, RegionsDisjoint, KindsApart, RequestServable, StopRestorable
<1>9. QED
  BY <1>4, <1>6, <1>7, <1>8 DEF IInv

-----------------------------------------------------------------------------
(* The invariant, and what follows from it. *)

(* Every step keeps the inductive invariant. *)
LEMMA StepInvariant ==
  ASSUME OneScan, RoomAtStop, IInv, [Next]_vars
  PROVE  IInv'
<1>1. ASSUME NEW k \in Kinds, NEW n \in 1 .. RegionSize, AllocBegin(k, n) PROVE IInv'
  BY <1>1, AllocBeginInvariant
<1>2. CASE AllocFind
  BY <1>2, AllocFindInvariant
<1>3. CASE AllocNext
  BY <1>3, AllocNextInvariant
<1>4. ASSUME NEW k \in Kinds, NEW first \in Sectors, NEW last \in Sectors,
             Free(k, first, last - first + 1)
      PROVE  IInv'
  <2>1. last - first + 1 \in Int
    BY RegionOfSector
  <2>2. QED
    BY <1>4, <2>1, FreeInvariant
<1>5. CASE Unmount
  BY <1>5, UnmountInvariant
<1>6. CASE Mount
  BY <1>6, MountInvariant
<1>7. CASE UNCHANGED vars
  BY <1>7 DEF vars, ramVars, eraseVars, IInv, TypeOK, MapsExact, Bit, RegionsDisjoint,
              KindsApart, BitsBelow, RequestServable, InFirstScan, Starts, StopRestorable
<1>8. QED
  BY <1>1, <1>2, <1>3, <1>4, <1>5, <1>6, <1>7 DEF Next

(* Every reachable state satisfies the inductive invariant. *)
LEMMA Inductive == ASSUME OneScan, RoomAtStop PROVE Spec => []IInv
<1>1. Init => IInv
  BY InitInvariant
<1>2. IInv /\ [Next]_vars => IInv'
  BY StepInvariant
<1>3. QED
  BY <1>1, <1>2, PTL DEF Spec

(* Type correctness of the sector manager. *)
THEOREM TypeCorrect == ASSUME OneScan, RoomAtStop PROVE Spec => []TypeOK
<1>1. IInv => TypeOK
  BY DEF IInv
<1>2. QED
  BY Inductive, <1>1, PTL

(* The free maps, the one in RAM and those in flash, agree with the sector  *)
(* heads however often the maps turn and the system is mounted again.       *)
THEOREM MapsNeverDrift == ASSUME OneScan, RoomAtStop PROVE Spec => []MapsExact
<1>1. IInv => MapsExact
  BY DEF IInv
<1>2. QED
  BY Inductive, <1>1, PTL

(* Directories and big files never work in one region, and nothing is       *)
(* written past the region in reserve.                                      *)
THEOREM KindsStayApart == ASSUME OneScan, RoomAtStop PROVE Spec => []RegionsDisjoint
<1>1. IInv => RegionsDisjoint
  BY DEF IInv
<1>2. QED
  BY Inductive, <1>1, PTL

(* Every step of the sector manager is a step of the pool or leaves it.     *)
LEMMA StepRefines ==
  ASSUME OneScan, IInv, [Next]_vars
  PROVE  [Pool!Next]_owner
<1>1. CASE AllocFind
  <2> DEFINE k == req.kind
             n == req.num
  <2>1. PICK s \in Starts(k, n) : Own(s, n, k)
    BY <1>1 DEF AllocFind
  <2> DEFINE last == s + n - 1
  <2>2. /\ k \in Kinds /\ n \in 1 .. RegionSize /\ s \in Sectors
        /\ \A t \in s .. last : /\ t \in Sectors /\ RegionOf(t) = region[k]
                                /\ owner[t] = "free"
    BY <1>1, RunOfMap DEF AllocFind
  <2>3. s \in Int /\ n \in Int /\ s <= last
    BY <2>2, Sizes, RegionOfSector
  <2>4. s \in s .. last /\ last \in s .. last
    BY <2>3
  <2>5. \A t \in Sectors : RegionOf(t) = RegionOf(s) => owner[t] \in {"free", "old", k}
    BY <2>2, <2>4 DEF IInv, KindsApart
  <2>6. Pool!Alloc(k, s, last)
    BY <2>1, <2>2, <2>3, <2>4, <2>5 DEF Pool!Alloc, Pool!RegionOf, RegionOf, Own
  <2>7. QED
    BY <2>2, <2>4, <2>6 DEF Pool!Next, Pool!Kinds, Kinds
<1>2. ASSUME NEW k \in Kinds, NEW first \in Sectors, NEW last \in Sectors,
             first <= last, Free(k, first, last - first + 1)
      PROVE  Pool!Next
  <2>1. first + (last - first + 1) - 1 = last
    BY RegionOfSector
  <2>2. Pool!Free(first, last)
    BY <1>2, <2>1 DEF Free, Own, Pool!Free, Pool!Kinds, Kinds
  <2>3. QED
    BY <2>2 DEF Pool!Next
<1>3. CASE AllocNext \/ Unmount \/ Mount \/ UNCHANGED vars
  BY <1>3 DEF AllocNext, Unmount, Mount, vars
<1>4. ASSUME NEW k \in Kinds, NEW n \in 1 .. RegionSize, AllocBegin(k, n)
      PROVE  UNCHANGED owner
  BY <1>4 DEF AllocBegin
<1>5. QED
  BY <1>1, <1>2, <1>3, <1>4 DEF Next

(* The sector manager implements the sector pool: no sector is handed out   *)
(* twice, a run stays in one region, and a region serves one kind.          *)
THEOREM ImplementsPool == ASSUME OneScan, RoomAtStop PROVE Spec => PoolSpec
<1>1. Init => Pool!Init
  BY DEF Init, Pool!Init
<1>2. IInv /\ [Next]_vars => [Pool!Next]_owner
  BY StepRefines
<1>3. QED
  BY Inductive, <1>1, <1>2, PTL DEF Spec, PoolSpec, Pool!Spec

(* Within the two assumptions no sector in use changes hands unless it is   *)
(* given back; without either of them it does (NF2FS_manage.c:675-682).     *)
THEOREM NothingTakenTwice == ASSUME OneScan, RoomAtStop PROVE Spec => NoDoubleAllocation
<1>1. ASSUME IInv, [Next]_vars
      PROVE  [\A s \in Sectors : owner[s] \in Kinds => owner'[s] \in {owner[s], "old"}]_vars
  <2>1. [Pool!Next]_owner
    BY <1>1, StepRefines
  <2>2. ASSUME NEW kind \in Pool!Kinds, NEW first \in Sectors, NEW last \in Sectors,
               Pool!Alloc(kind, first, last)
        PROVE  \A s \in Sectors : owner[s] \in Kinds => owner'[s] \in {owner[s], "old"}
    BY <2>2 DEF Pool!Alloc, Kinds
  <2>3. ASSUME NEW first \in Sectors, NEW last \in Sectors, Pool!Free(first, last)
        PROVE  \A s \in Sectors : owner[s] \in Kinds => owner'[s] \in {owner[s], "old"}
    BY <2>3 DEF Pool!Free
  <2>4. CASE UNCHANGED owner
    BY <2>4
  <2>5. QED
    BY <2>1, <2>2, <2>3, <2>4 DEF Pool!Next
<1>2. QED
  BY Inductive, <1>1, PTL DEF Spec, NoDoubleAllocation
=============================================================================
