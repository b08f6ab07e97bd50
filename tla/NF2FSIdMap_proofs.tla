-------------------------- MODULE NF2FSIdMap_proofs --------------------------
(***************************************************************************)
(* Proofs about NF2FSIdMap for every number of regions, of ids per region  *)
(* and of generations, for a system that is unmounted in an orderly way.   *)
(***************************************************************************)
EXTENDS NF2FSIdMap, TLAPS, FiniteSetTheorems

(* What holds in every state: the properties, and what mount relies on.    *)
IInv ==
  /\ TypeOK
  /\ region < RegionCnt
  /\ RamMapExact
  /\ MapEncodesPool
  /\ IdsInRange
  /\ pc = "unmounted" => commit < IdMax /\ superGen = gen /\ ~torn

-----------------------------------------------------------------------------
(* Arithmetic of positions. IdMax stays folded everywhere else.            *)

(* Quotient and remainder by the number of ids per region. *)
LEMMA DivMod ==
  ASSUME NEW p \in Nat, NEW s \in Nat \ {0}
  PROVE  /\ p \div s \in Nat
         /\ p % s \in 0 .. s - 1
         /\ p = s * (p \div s) + (p % s)
BY SMT

(* A position lies below region r exactly if its region does. *)
LEMMA DivBelow ==
  ASSUME NEW p \in Nat, NEW s \in Nat \ {0}, NEW r \in Nat
  PROVE  p \div s < r <=> p < r * s
BY DivMod, SMT

(* The first position of a region grows with the region. *)
LEMMA ProductMonotone ==
  ASSUME NEW a \in Nat, NEW b \in Nat, NEW s \in Nat, a <= b
  PROVE  a * s <= b * s
BY SMT

(* There are at least two ids, and every region starts within the free map. *)
LEMMA IdMaxNat ==
  /\ IdMax \in Nat /\ IdMax > 1
  /\ \A r \in 0 .. RegionCnt : r * IdsInBuffer \in 0 .. IdMax
<1>1. RegionCnt \in Nat \ {0} /\ IdsInBuffer \in Nat \ {0, 1}
  BY RegionCntAssumption, IdsInBufferAssumption
<1>2. \A r \in Nat : r * IdsInBuffer \in Nat
  BY <1>1
<1>3. 1 * IdsInBuffer <= RegionCnt * IdsInBuffer
  BY <1>1, ProductMonotone
<1>4. \A r \in 0 .. RegionCnt : r * IdsInBuffer <= RegionCnt * IdsInBuffer
  BY <1>1, ProductMonotone
<1>5. QED
  BY <1>1, <1>2, <1>3, <1>4 DEF IdMax

(* The bits of a region of the free map are ids. *)
LEMMA RegionOfId ==
  ASSUME NEW p \in Positions
  PROVE  p \div IdsInBuffer < RegionCnt <=> p \in Ids
<1>1. p \in Nat /\ RegionCnt \in Nat /\ IdsInBuffer \in Nat \ {0}
  BY RegionCntAssumption, IdsInBufferAssumption, IdMaxNat DEF Positions
<1>2. p \div IdsInBuffer < RegionCnt <=> p < IdMax
  BY <1>1, DivBelow DEF IdMax
<1>3. QED
  BY <1>1, <1>2, IdMaxNat DEF Ids

(* A region holds at most IdsInBuffer set bits. *)
LEMMA RegionBitsBound ==
  ASSUME NEW f \in SUBSET Positions, NEW r \in Nat
  PROVE  /\ RegionBits(f, r) \subseteq Positions
         /\ IsFiniteSet(RegionBits(f, r))
         /\ Cardinality(RegionBits(f, r)) \in 0 .. IdsInBuffer
<1> DEFINE first  == IdsInBuffer * r
           window == first .. first + IdsInBuffer - 1
<1>1. IdsInBuffer \in Nat \ {0} /\ first \in Nat
  BY IdsInBufferAssumption
<1>2. RegionBits(f, r) \subseteq window
  <2>1. SUFFICES ASSUME NEW p \in RegionBits(f, r) PROVE p \in window
    OBVIOUS
  <2>2. p \in Nat /\ p \div IdsInBuffer = r
    BY IdMaxNat DEF RegionBits, Positions
  <2>3. p = first + (p % IdsInBuffer) /\ p % IdsInBuffer \in 0 .. IdsInBuffer - 1
    BY <1>1, <2>2, DivMod
  <2>4. QED
    BY <1>1, <2>3
<1>3. IsFiniteSet(window) /\ Cardinality(window) = IdsInBuffer
  BY <1>1, FS_Interval
<1>4. /\ IsFiniteSet(RegionBits(f, r))
      /\ Cardinality(RegionBits(f, r)) <= IdsInBuffer
  BY <1>2, <1>3, FS_Subset, ZenonT(30)
<1>5. Cardinality(RegionBits(f, r)) \in Nat
  BY <1>4, FS_CardinalityType
<1>6. QED
  BY <1>1, <1>4, <1>5 DEF RegionBits

(* ram_map_change leaves an exact RAM map behind. *)
LEMMA LoadExact ==
  ASSUME NEW f \in SUBSET Positions, NEW r \in 0 .. RegionCnt - 1, Load(f, r)
  PROVE  /\ region' = r /\ index' = 0
         /\ buffer' = RegionBits(f, r)
         /\ buffer' \subseteq Positions
         /\ freeNum' = Cardinality(buffer')
         /\ freeNum' \in 0 .. IdsInBuffer
         /\ \A p \in buffer' : p % IdsInBuffer >= index'
<1>1. r \in Nat /\ IdsInBuffer \in Nat \ {0}
  BY RegionCntAssumption, IdsInBufferAssumption
<1>2. /\ RegionBits(f, r) \subseteq Positions
      /\ Cardinality(RegionBits(f, r)) \in 0 .. IdsInBuffer
  BY <1>1, RegionBitsBound
<1>3. \A p \in Positions : p % IdsInBuffer >= 0
  BY <1>1, DivMod, IdMaxNat DEF Positions
<1>4. QED
  BY <1>2, <1>3 DEF Load

-----------------------------------------------------------------------------
(* Initial states. *)
LEMMA InitInvariant == Init => IInv
<1> SUFFICES ASSUME Init PROVE IInv
  OBVIOUS
<1> DEFINE bits == Positions \ {0, 1}
<1>1. /\ RegionCnt \in Nat \ {0} /\ IdsInBuffer \in Nat \ {0, 1}
      /\ Generations \in Nat \ {0}
  BY RegionCntAssumption, IdsInBufferAssumption, GenerationsAssumption
<1>2. IdMax \in Nat /\ IdMax > 1
  BY IdMaxNat
<1>3. /\ RegionBits(bits, 0) \subseteq bits
      /\ Cardinality(RegionBits(bits, 0)) \in 0 .. IdsInBuffer
  BY <1>1, RegionBitsBound DEF RegionBits
<1>4. TypeOK
  <2>1. flash \in [1 .. Generations -> SUBSET Positions]
    BY DEF Init
  <2>2. buffer \subseteq Positions /\ freeNum \in 0 .. IdsInBuffer
    BY <1>3 DEF Init
  <2>3. live \subseteq Positions
    BY <1>2 DEF Init, Positions
  <2>4. /\ gen \in 1 .. Generations /\ superGen \in 1 .. Generations
        /\ region \in 0 .. RegionCnt /\ index \in 0 .. IdsInBuffer
        /\ flagReg \in 0 .. RegionCnt /\ turns \in Nat
        /\ commit \in 0 .. IdMax + IdsInBuffer
    BY <1>1, <1>2 DEF Init
  <2>5. pc = "idle" /\ torn = FALSE /\ retired = {}
    BY DEF Init
  <2>6. QED
    BY <2>1, <2>2, <2>3, <2>4, <2>5 DEF TypeOK
<1>5. \A p \in RegionBits(bits, 0) : p % IdsInBuffer >= 2
  <2>1. SUFFICES ASSUME NEW p \in RegionBits(bits, 0) PROVE p % IdsInBuffer >= 2
    OBVIOUS
  <2>2. p \in Nat \ {0, 1} /\ p \div IdsInBuffer = 0
    BY <1>2 DEF RegionBits, Positions
  <2>3. p = IdsInBuffer * 0 + (p % IdsInBuffer) /\ p % IdsInBuffer \in Nat
    BY <1>1, <2>2, DivMod
  <2>4. QED
    BY <1>1, <2>2, <2>3
<1>6. RamMapExact
  <2>1. flash[gen] = bits
    BY <1>1 DEF Init
  <2>2. buffer = RegionBits(bits, 0) /\ freeNum = Cardinality(RegionBits(bits, 0))
    BY DEF Init
  <2>3. QED
    BY <1>5, <2>1, <2>2 DEF Init, RamMapExact
<1>7. MapEncodesPool /\ IdsInRange
  BY <1>1, <1>2 DEF Init, MapEncodesPool, IdsInRange, Positions, Ids
<1>8. QED
  BY <1>1, <1>4, <1>6, <1>7 DEF Init, IInv

(* The steps of id_alloc that touch no bit. *)
LEMMA QuietStepsInvariant ==
  ASSUME IInv, AllocBegin \/ AllocNoId \/ AllocFault
  PROVE  IInv'
<1> USE DEF IInv, TypeOK, RamMapExact, MapEncodesPool, IdsInRange,
            ramVars, allocVars, superVars, poolVars
<1>1. RegionCnt \in Nat /\ IdsInBuffer \in Nat
  BY RegionCntAssumption, IdsInBufferAssumption
<1>2. CASE AllocBegin
  BY <1>1, <1>2 DEF AllocBegin
<1>3. CASE AllocNoId
  BY <1>1, <1>3 DEF AllocNoId
<1>4. CASE AllocFault
  BY <1>1, <1>4 DEF AllocFault
<1>5. QED
  BY <1>2, <1>3, <1>4

(* The search found an id: the first free bit of the region. *)
LEMMA AllocFindInvariant ==
  ASSUME IInv, AllocFind
  PROVE  IInv'
<1>1. PICK id \in Candidates :
        /\ \A other \in Candidates : id <= other
        /\ buffer' = buffer \ {id}
        /\ index' = (id % IdsInBuffer) + 1
        /\ flash' = [flash EXCEPT ![gen] = @ \ {id}]
        /\ live' = live \cup {id}
  BY DEF AllocFind, Program
<1>2. /\ RegionCnt \in Nat \ {0} /\ IdsInBuffer \in Nat \ {0}
      /\ IdMax \in Nat /\ IdMax > 1
  BY RegionCntAssumption, IdsInBufferAssumption, IdMaxNat
<1>3. pc = "alloc" /\ freeNum > 0 /\ freeNum' = freeNum - 1 /\ pc' = "idle"
  BY DEF AllocFind
<1>4. UNCHANGED <<gen, region, flagReg, turns, superGen, torn, commit, retired>>
  BY DEF AllocFind, superVars
<1>5. TypeOK /\ RamMapExact /\ MapEncodesPool /\ IdsInRange /\ region < RegionCnt
  BY DEF IInv
<1>6. /\ buffer = RegionBits(flash[gen], region)
      /\ freeNum = Cardinality(buffer)
      /\ \A p \in buffer : p % IdsInBuffer >= index
  BY <1>3, <1>5 DEF RamMapExact
<1>7. id \in flash[gen] /\ id \in Positions /\ id \div IdsInBuffer = region
  BY <1>1, <1>5, <1>6 DEF Candidates, RegionBits, TypeOK
<1>8. id \in Ids
  BY <1>5, <1>7, RegionOfId
<1>9. IsFiniteSet(buffer)
  <2>1. flash[gen] \in SUBSET Positions /\ region \in Nat
    BY <1>2, <1>5 DEF TypeOK
  <2>2. QED
    BY <1>6, <2>1, RegionBitsBound
<1>10. Cardinality(buffer') = freeNum'
  BY <1>1, <1>3, <1>6, <1>9, FS_RemoveElement DEF Candidates
<1>11. buffer' = RegionBits(flash'[gen'], region')
  BY <1>1, <1>4, <1>5, <1>6 DEF RegionBits, TypeOK
<1>12. \A p \in buffer' : p % IdsInBuffer >= index'
  <2>1. SUFFICES ASSUME NEW p \in buffer' PROVE p % IdsInBuffer >= (id % IdsInBuffer) + 1
    BY <1>1
  <2>2. p \in Nat /\ id \in Nat /\ p \div IdsInBuffer = id \div IdsInBuffer /\ p # id
    <3>1. p \in buffer /\ p # id
      BY <1>1
    <3>2. p \div IdsInBuffer = region
      BY <1>6, <3>1 DEF RegionBits
    <3>3. p \in Positions
      BY <1>5, <3>1 DEF TypeOK
    <3>4. QED
      BY <1>2, <1>7, <3>1, <3>2, <3>3 DEF Positions
  <2>3. id <= p
    BY <1>1, <1>6 DEF Candidates
  <2>4. /\ p = IdsInBuffer * (p \div IdsInBuffer) + (p % IdsInBuffer)
        /\ id = IdsInBuffer * (id \div IdsInBuffer) + (id % IdsInBuffer)
        /\ p % IdsInBuffer \in 0 .. IdsInBuffer - 1 /\ id % IdsInBuffer \in 0 .. IdsInBuffer - 1
        /\ id \div IdsInBuffer \in Nat
    BY <1>2, <2>2, DivMod
  <2>5. p - id = (p % IdsInBuffer) - (id % IdsInBuffer)
    <3> DEFINE base == IdsInBuffer * (id \div IdsInBuffer)
    <3>1. base \in Nat /\ p = base + (p % IdsInBuffer) /\ id = base + (id % IdsInBuffer)
      BY <1>2, <2>2, <2>4
    <3> HIDE DEF base
    <3>2. QED
      BY <2>4, <3>1
  <2>6. QED
    BY <2>2, <2>3, <2>4, <2>5
<1>13. index' \in 0 .. IdsInBuffer
  BY <1>1, <1>2, <1>7, DivMod DEF Positions
<1>14. TypeOK'
  <2>1. flash' \in [1 .. Generations -> SUBSET Positions]
    BY <1>1, <1>5 DEF TypeOK
  <2>2. buffer' \subseteq Positions /\ live' \subseteq Positions
    BY <1>1, <1>5, <1>7 DEF TypeOK
  <2>3. freeNum' \in 0 .. IdsInBuffer
    BY <1>2, <1>3, <1>5 DEF TypeOK
  <2>4. QED
    BY <1>3, <1>4, <1>5, <1>13, <2>1, <2>2, <2>3 DEF TypeOK
<1>15. MapEncodesPool'
  <2>1. gen \in 1 .. Generations /\ gen' = gen
    BY <1>4, <1>5 DEF TypeOK
  <2>2. flash'[gen] = flash[gen] \ {id} /\ \A g \in gen + 1 .. Generations : flash'[g] = flash[g]
    BY <1>1, <1>5, <2>1 DEF TypeOK
  <2>3. \A i \in Ids : IdMax + i # id
    BY <1>2, <1>8 DEF Ids
  <2>4. QED
    BY <1>1, <1>4, <1>5, <1>7, <2>1, <2>2, <2>3 DEF MapEncodesPool
<1>16. IdsInRange'
  BY <1>1, <1>5, <1>8 DEF IdsInRange
<1>17. RamMapExact'
  BY <1>10, <1>11, <1>12 DEF RamMapExact
<1>18. QED
  BY <1>3, <1>4, <1>5, <1>14, <1>15, <1>16, <1>17 DEF IInv

(* Turning to the next region of the same generation. *)
LEMMA AllocTurnInvariant ==
  ASSUME IInv, AllocTurn
  PROVE  IInv'
<1>1. /\ pc = "alloc" /\ pc' = pc /\ turns' = turns + 1
      /\ UNCHANGED <<flash, gen, flagReg, superGen, torn, commit, live, retired>>
  BY DEF AllocTurn, superVars, poolVars
<1>2. TypeOK /\ MapEncodesPool /\ IdsInRange /\ region < RegionCnt
  BY DEF IInv
<1>3. flash[gen] \in SUBSET Positions /\ region + 1 \in 0 .. RegionCnt - 1
  BY <1>2, RegionCntAssumption DEF AllocTurn, TypeOK
<1>4. Load(flash[gen], region + 1)
  BY DEF AllocTurn
<1>5. /\ region' = region + 1 /\ index' = 0
      /\ buffer' = RegionBits(flash[gen], region + 1) /\ buffer' \subseteq Positions
      /\ freeNum' = Cardinality(buffer') /\ freeNum' \in 0 .. IdsInBuffer
      /\ \A p \in buffer' : p % IdsInBuffer >= index'
  BY <1>3, <1>4, LoadExact
<1>6. TypeOK'
  BY <1>1, <1>2, <1>3, <1>5, RegionCntAssumption, IdsInBufferAssumption DEF TypeOK
<1>7. RamMapExact'
  BY <1>1, <1>5 DEF RamMapExact
<1>8. MapEncodesPool' /\ IdsInRange'
  BY <1>1, <1>2 DEF MapEncodesPool, IdsInRange
<1>9. QED
  BY <1>1, <1>3, <1>5, <1>6, <1>7, <1>8, RegionCntAssumption DEF IInv

(* The next generation: held ids stay used, retired ids become free. *)
LEMMA AllocRenewInvariant ==
  ASSUME IInv, AllocRenew
  PROVE  IInv'
<1> DEFINE old == flash[gen]
           new == NextGeneration(old, flash[gen + 1])
<1>1. /\ pc = "alloc" /\ pc' = pc /\ gen < Generations /\ gen' = gen + 1
      /\ flash' = [flash EXCEPT ![gen + 1] = new]
      /\ turns' = turns + 1 /\ torn' = TRUE /\ retired' = {}
      /\ UNCHANGED <<flagReg, superGen, commit, live>>
      /\ Load(new, 0)
  BY DEF AllocRenew
<1>2. TypeOK /\ MapEncodesPool /\ IdsInRange
  BY DEF IInv
<1>3. /\ gen \in 1 .. Generations /\ gen + 1 \in 1 .. Generations
      /\ RegionCnt \in Nat \ {0} /\ Generations \in Nat
      /\ IdMax \in Nat /\ IdMax > 1
  BY <1>1, <1>2, RegionCntAssumption, GenerationsAssumption, IdMaxNat DEF TypeOK
<1>4. old \subseteq Positions /\ flash[gen + 1] = Positions
  BY <1>2, <1>3 DEF TypeOK, MapEncodesPool
<1>5. new = Positions \ {id \in Ids : id \notin Merged(old)}
  BY <1>4 DEF NextGeneration
<1> HIDE DEF new, old
<1>6. new \in SUBSET Positions /\ 0 \in 0 .. RegionCnt - 1
  BY <1>3, <1>5
<1>7. /\ region' = 0 /\ index' = 0
      /\ buffer' = RegionBits(new, 0) /\ buffer' \subseteq Positions
      /\ freeNum' = Cardinality(buffer') /\ freeNum' \in 0 .. IdsInBuffer
      /\ \A p \in buffer' : p % IdsInBuffer >= index'
  BY <1>1, <1>6, LoadExact
<1>8. flash' \in [1 .. Generations -> SUBSET Positions] /\ flash'[gen'] = new
  BY <1>1, <1>2, <1>3, <1>6 DEF TypeOK
<1>9. TypeOK'
  BY <1>1, <1>2, <1>3, <1>7, <1>8, IdsInBufferAssumption DEF TypeOK
<1>10. RamMapExact'
  BY <1>7, <1>8 DEF RamMapExact
<1>11. MapEncodesPool'
  <2>1. \A id \in Ids : /\ id \in new <=> id \in Merged(old)
                        /\ IdMax + id \in new /\ id \in Positions
    BY <1>3, <1>5 DEF Ids, Positions
  <2>2. \A id \in Ids : id \in Merged(old) <=> id \notin live
    BY <1>2 DEF Merged, MapEncodesPool, old
  <2>3. \A g \in gen' + 1 .. Generations : flash'[g] = Positions
    <3>1. SUFFICES ASSUME NEW g \in gen' + 1 .. Generations PROVE flash'[g] = Positions
      OBVIOUS
    <3>2. g \in gen + 1 .. Generations /\ g # gen + 1 /\ g \in 1 .. Generations
      BY <1>1, <1>3
    <3>3. QED
      BY <1>1, <1>2, <3>2 DEF TypeOK, MapEncodesPool
  <2>4. QED
    BY <1>1, <1>8, <2>1, <2>2, <2>3 DEF MapEncodesPool
<1>12. IdsInRange'
  BY <1>1, <1>2 DEF IdsInRange
<1>13. QED
  BY <1>1, <1>3, <1>7, <1>9, <1>10, <1>11, <1>12 DEF IInv

(* Giving an id back clears its remove bit and nothing else. *)
LEMMA FreeInvariant ==
  ASSUME IInv, NEW id \in live, Free(id)
  PROVE  IInv'
<1>1. /\ pc = "idle" /\ id \in live /\ id < IdMax
      /\ flash' = [flash EXCEPT ![gen] = @ \ {IdMax + id}]
      /\ live' = live \ {id} /\ retired' = retired \cup {id}
      /\ UNCHANGED <<gen, region, buffer, index, freeNum, pc, flagReg, turns,
                     superGen, torn, commit>>
  BY DEF Free, Program, ramVars, allocVars, superVars
<1>2. TypeOK /\ RamMapExact /\ MapEncodesPool /\ IdsInRange /\ region < RegionCnt
  BY DEF IInv
<1>3. IdMax \in Nat /\ IdMax > 1 /\ RegionCnt \in Nat
  BY IdMaxNat, RegionCntAssumption
<1>4. id \in Ids /\ IdMax + id \in Positions /\ IdMax + id \notin Ids
  BY <1>1, <1>2, <1>3 DEF IdsInRange, Ids, Positions
<1>5. /\ gen \in 1 .. Generations
      /\ flash'[gen] = flash[gen] \ {IdMax + id} /\ flash[gen] \subseteq Positions
      /\ \A g \in 1 .. Generations : g # gen => flash'[g] = flash[g]
  BY <1>1, <1>2 DEF TypeOK
<1>6. TypeOK'
  <2>1. flash' \in [1 .. Generations -> SUBSET Positions]
    BY <1>1, <1>2 DEF TypeOK
  <2>2. QED
    BY <1>1, <1>2, <1>4, <2>1 DEF TypeOK
<1>7. RegionBits(flash'[gen], region) = RegionBits(flash[gen], region)
  <2>1. IdMax + id \notin RegionBits(flash[gen], region)
    BY <1>2, <1>4, RegionOfId DEF RegionBits
  <2>2. QED
    BY <1>5, <2>1 DEF RegionBits
<1>8. RamMapExact'
  BY <1>1, <1>2, <1>7 DEF RamMapExact
<1>9. MapEncodesPool'
  <2>1. \A i \in Ids : i # IdMax + id /\ (IdMax + i = IdMax + id <=> i = id)
    BY <1>3, <1>4 DEF Ids
  <2>2. \A g \in gen + 1 .. Generations : flash'[g] = flash[g]
    BY <1>5, GenerationsAssumption
  <2>3. QED
    BY <1>1, <1>2, <1>4, <1>5, <2>1, <2>2 DEF MapEncodesPool
<1>10. IdsInRange'
  BY <1>1, <1>2 DEF IdsInRange
<1>11. QED
  BY <1>1, <1>2, <1>6, <1>8, <1>9, <1>10 DEF IInv

(* Unmount and mount, when unmounts are orderly. *)
LEMMA MountInvariant ==
  ASSUME IInv, Orderly, SuperblockChange \/ Unmount \/ Mount
  PROVE  IInv'
<1>1. TypeOK /\ RamMapExact /\ MapEncodesPool /\ IdsInRange /\ region < RegionCnt
  BY DEF IInv
<1>2. /\ RegionCnt \in Nat \ {0} /\ IdsInBuffer \in Nat \ {0}
      /\ IdMax \in Nat /\ IdMax > 1
  BY RegionCntAssumption, IdsInBufferAssumption, IdMaxNat
<1>3. CASE SuperblockChange
  <2>1. /\ pc = "idle" /\ superGen' = gen /\ torn' = FALSE
        /\ UNCHANGED <<flash, gen, region, buffer, index, freeNum, pc, flagReg, turns,
                       commit, live, retired>>
    BY <1>3 DEF SuperblockChange, ramVars, allocVars, poolVars
  <2>2. TypeOK'
    BY <1>1, <2>1 DEF TypeOK
  <2>3. RamMapExact' /\ MapEncodesPool' /\ IdsInRange'
    BY <1>1, <2>1 DEF RamMapExact, MapEncodesPool, IdsInRange
  <2>4. QED
    BY <1>1, <2>1, <2>2, <2>3 DEF IInv
<1>4. CASE Unmount
  <2>1. /\ pc = "idle" /\ pc' = "unmounted" /\ commit' = NextId
        /\ NextId < IdMax /\ superGen = gen /\ ~torn
        /\ UNCHANGED <<flash, gen, region, buffer, index, freeNum, flagReg, turns,
                       superGen, torn, live, retired>>
    BY <1>4 DEF Unmount, OrderlyUnmount, ramVars, poolVars
  <2>2. NextId \in 0 .. IdMax + IdsInBuffer
    <3>1. region * IdsInBuffer \in 0 .. IdMax /\ index \in 0 .. IdsInBuffer
      BY <1>1, IdMaxNat DEF TypeOK
    <3>2. QED
      BY <1>2, <3>1 DEF NextId
  <2>3. TypeOK'
    BY <1>1, <2>1, <2>2 DEF TypeOK
  <2>4. RamMapExact' /\ MapEncodesPool' /\ IdsInRange'
    BY <1>1, <2>1 DEF RamMapExact, MapEncodesPool, IdsInRange
  <2>5. QED
    BY <1>1, <2>1, <2>3, <2>4 DEF IInv
<1>5. CASE Mount
  <2>1. commit < IdMax /\ superGen = gen /\ ~torn
    BY <1>5 DEF Mount, IInv
  <2>2. /\ pc' = "idle" /\ gen' = gen
        /\ Load(flash[gen], commit \div IdsInBuffer)
        /\ UNCHANGED <<flash, flagReg, turns, superGen, torn, commit, live, retired>>
    BY <1>5, <2>1 DEF Mount, superVars, poolVars
  <2>3. commit \div IdsInBuffer \in 0 .. RegionCnt - 1
    <3>1. commit \in Nat /\ commit < RegionCnt * IdsInBuffer
      BY <1>1, <1>2, <2>1 DEF TypeOK, IdMax
    <3>2. commit \div IdsInBuffer \in Nat /\ commit \div IdsInBuffer < RegionCnt
      BY <1>2, <3>1, DivMod, DivBelow
    <3>3. QED
      BY <1>2, <3>2
  <2>4. flash[gen] \in SUBSET Positions
    BY <1>1 DEF TypeOK
  <2>5. /\ region' = commit \div IdsInBuffer /\ index' = 0
        /\ buffer' = RegionBits(flash[gen], commit \div IdsInBuffer)
        /\ buffer' \subseteq Positions
        /\ freeNum' = Cardinality(buffer') /\ freeNum' \in 0 .. IdsInBuffer
        /\ \A p \in buffer' : p % IdsInBuffer >= index'
    BY <2>2, <2>3, <2>4, LoadExact
  <2>6. TypeOK'
    BY <1>1, <1>2, <2>2, <2>3, <2>5 DEF TypeOK
  <2>7. RamMapExact'
    BY <2>2, <2>5 DEF RamMapExact
  <2>8. MapEncodesPool' /\ IdsInRange'
    BY <1>1, <2>2 DEF MapEncodesPool, IdsInRange
  <2>9. QED
    BY <1>2, <2>2, <2>3, <2>5, <2>6, <2>7, <2>8 DEF IInv
<1>6. QED
  BY <1>3, <1>4, <1>5

-----------------------------------------------------------------------------
(* IInv is inductive. *)
LEMMA StepInvariant ==
  ASSUME Orderly, IInv, [Next]_vars
  PROVE  IInv'
<1>1. CASE AllocBegin \/ AllocNoId \/ AllocFault
  BY <1>1, QuietStepsInvariant
<1>2. CASE AllocFind
  BY <1>2, AllocFindInvariant
<1>3. CASE AllocTurn
  BY <1>3, AllocTurnInvariant
<1>4. CASE AllocRenew
  BY <1>4, AllocRenewInvariant
<1>5. ASSUME NEW id \in live, Free(id) PROVE IInv'
  BY <1>5, FreeInvariant
<1>6. CASE SuperblockChange \/ Unmount \/ Mount
  BY <1>6, MountInvariant
<1>7. CASE UNCHANGED vars
  BY <1>7 DEF vars, ramVars, allocVars, superVars, poolVars, IInv, TypeOK,
              RamMapExact, MapEncodesPool, IdsInRange
<1>8. QED
  BY <1>1, <1>2, <1>3, <1>4, <1>5, <1>6, <1>7 DEF Next

(* Every reachable state satisfies the inductive invariant. *)
LEMMA Inductive == ASSUME Orderly PROVE Spec => []IInv
<1>1. Init => IInv
  BY InitInvariant
<1>2. IInv /\ [Next]_vars => IInv'
  BY StepInvariant
<1>3. QED
  BY <1>1, <1>2, PTL DEF Spec

(* Type correctness of the id manager. *)
THEOREM TypeCorrect == ASSUME Orderly PROVE Spec => []TypeOK
<1>1. IInv => TypeOK
  BY DEF IInv
<1>2. QED
  BY Inductive, <1>1, PTL

(* The RAM map of the region in use never drifts from flash, so a search in *)
(* a region whose free_num is not 0 finds an id (NF2FS_manage.c:1146-1158). *)
THEOREM RamMapNeverDrifts == ASSUME Orderly PROVE Spec => []RamMapExact
<1>1. IInv => RamMapExact
  BY DEF IInv
<1>2. QED
  BY Inductive, <1>1, PTL

(* The two bits of an id record its fate exactly, through every renewal of  *)
(* the map and every mount: no id leaks and none is counted twice.          *)
THEOREM NoIdLeaks == ASSUME Orderly PROVE Spec => []MapEncodesPool
<1>1. IInv => MapEncodesPool
  BY DEF IInv
<1>2. QED
  BY Inductive, <1>1, PTL

(* No id past NF2FS_ID_MAX is ever handed out (NF2FS.h:90-96). *)
THEOREM IdsBounded == ASSUME Orderly PROVE Spec => []IdsInRange
<1>1. IInv => IdsInRange
  BY DEF IInv
<1>2. QED
  BY Inductive, <1>1, PTL

(* Every step of the id manager is a step of the pool or leaves it alone.   *)
LEMMA StepRefines ==
  ASSUME IInv, [Next]_vars
  PROVE  [Pool!Next]_(Pool!poolVars)
<1> USE DEF Pool!Next, Pool!poolVars
<1>1. TypeOK /\ RamMapExact /\ MapEncodesPool /\ IdsInRange /\ region < RegionCnt
  BY DEF IInv
<1>2. CASE AllocFind
  <2>1. PICK id \in Candidates : live' = live \cup {id}
    BY <1>2 DEF AllocFind
  <2>2. id \in flash[gen] /\ id \in Positions /\ id \div IdsInBuffer = region
    BY <1>1, <1>2, <2>1 DEF AllocFind, Candidates, RamMapExact, RegionBits, TypeOK
  <2>3. id \in Ids
    BY <1>1, <2>2, RegionOfId
  <2>4. id \notin live \cup retired
    BY <1>1, <2>2, <2>3 DEF MapEncodesPool
  <2>5. Pool!Alloc(id)
    BY <1>2, <2>1, <2>3, <2>4 DEF AllocFind, Pool!Alloc
  <2>6. QED
    BY <2>3, <2>5
<1>3. CASE AllocRenew
  BY <1>3 DEF AllocRenew, Pool!Renew
<1>4. ASSUME NEW id \in live, Free(id) PROVE Pool!Next
  <2>1. id \in Ids
    BY <1>1, <1>4 DEF IdsInRange
  <2>2. Pool!Free(id)
    BY <1>4 DEF Free, Pool!Free
  <2>3. QED
    BY <2>1, <2>2
<1>5. CASE AllocBegin \/ AllocNoId \/ AllocTurn \/ AllocFault
           \/ SuperblockChange \/ Unmount \/ Mount
  BY <1>5 DEF AllocBegin, AllocNoId, AllocTurn, AllocFault, SuperblockChange,
              Unmount, Mount, poolVars
<1>6. CASE UNCHANGED vars
  BY <1>6 DEF vars, poolVars
<1>7. QED
  BY <1>2, <1>3, <1>4, <1>5, <1>6 DEF Next

(* The id manager implements the id pool: an id is unique among everything  *)
(* that holds one, and a retired id waits for a renewal (NF2FS.h:90-93).    *)
THEOREM ImplementsPool == ASSUME Orderly PROVE Spec => PoolSpec
<1>1. Init => Pool!Init
  BY DEF Init, Pool!Init
<1>2. IInv /\ [Next]_vars => [Pool!Next]_(Pool!poolVars)
  BY StepRefines
<1>3. QED
  BY Inductive, <1>1, <1>2, PTL DEF Spec, PoolSpec, Pool!Spec
=============================================================================
