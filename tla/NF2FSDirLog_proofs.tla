-------------------------- MODULE NF2FSDirLog_proofs --------------------------
(***************************************************************************)
(* Proofs about NF2FSDirLog, for any files, sizes and lengths of entries,   *)
(* where a GC finds no file of the directory open (QuietGc) and a directory *)
(* is closed with one sector only (ShortClosed); that it implements         *)
(* NF2FSNames, where besides no GC leaves an index behind (IndexesMove).    *)
(* The code promises none of the three: DirGc.cfg, DirClose.cfg and         *)
(* DirGcIndex.cfg show what becomes of a directory without.                 *)
(*                                                                         *)
(* The argument has four layers.                                           *)
(*   Lengths.  LengthOf is a fold over a sequence, and old space is a sum   *)
(*   over places that nothing orders: both are sums over finite sets, and   *)
(*   adding or changing one element adds its length (LengthMore).          *)
(*   Memories.  A program adds one entry behind the tail (More), in a new   *)
(*   sector if need be; a delete changes one in place (Less); a GC          *)
(*   rewrites the chain, and what has been passed of the old one is in the  *)
(*   new one once, or is an index left behind (Copies), by induction on the *)
(*   places it passes.                                                     *)
(*   Directories.  Sound says that a directory holds one name and one data  *)
(*   entry of a file, and data only of what it names; HandleOK says where   *)
(*   an open file finds its own; deleted lengths are within the old space   *)
(*   that is counted.  An open directory is Good.  One that is closed has   *)
(*   no count in RAM: its last entry is the record of it (Closed), or       *)
(*   OpenDir could not count again what was deleted.                       *)
(*   Steps.  IInv is kept by every operation, and what the directory shows  *)
(*   (Shows) changes as one step of NF2FSNames has it, or not at all.       *)
(***************************************************************************)
EXTENDS NF2FSDirLog, FiniteSetTheorems, SequenceTheorems, WellFoundedInduction, TLAPS

(* A set of numbers has a least one, and induction over the numbers for a   *)
(* set: what a fold computes is reached element by element with it.         *)
LEMMA Least ==
  ASSUME NEW T \in SUBSET Nat, T # {}
  PROVE  \E x \in T : \A y \in T : x <= y
<1>. DEFINE R == OpToRel(<, Nat)
<1>1. IsWellFoundedOn(R, Nat) BY NatLessThanWellFounded
<1>2. \A x, y \in Nat : y < x => <<y, x>> \in R
  BY DEF OpToRel
<1>. HIDE DEF R
<1>3. PICK x \in T : \A y \in T : ~ (<<y, x>> \in R)
  BY <1>1, WFMin
<1>4. \A y \in T : x <= y
  <2>. TAKE y \in T
  <2>1. x \in Nat /\ y \in Nat OBVIOUS
  <2>2. ~ (y < x) BY <1>2, <1>3, <2>1
  <2>. QED BY <2>1, <2>2
<1>. QED BY <1>4

LEMMA Induct ==
  ASSUME NEW T, 0 \in T, \A n \in Nat : n \in T => n + 1 \in T
  PROVE  Nat \subseteq T
<1>. DEFINE U == {n \in Nat : n \notin T}
<1>. SUFFICES ASSUME U # {} PROVE FALSE OBVIOUS
<1>1. PICK x \in U : \A y \in U : x <= y  BY Least
<1>2. x # 0 BY <1>1
<1>3. x - 1 \in Nat /\ x - 1 \notin U BY <1>1, <1>2
<1>. QED BY <1>1, <1>2, <1>3

-----------------------------------------------------------------------------
(* The sum of lengths as the fold computes it: over the subsets of the      *)
(* places of f.                                                             *)
Pick(s) == CHOOSE x \in s : TRUE

SumStep(f, g, s) == IF s = {} THEN 0 ELSE f[Pick(s)].len + g[s \ {Pick(s)}]

SumDef(f, g, D) == g = [s \in D |-> SumStep(f, g, s)]

Sums(f) == CHOOSE g : SumDef(f, g, SUBSET DOMAIN f)

Measured(f) == IsFiniteSet(DOMAIN f) /\ \A x \in DOMAIN f : f[x].len \in Nat

LEMMA LengthOfSums == \A f : LengthOf(f) = Sums(f)[DOMAIN f]
BY DEF LengthOf, FoldSeq, FoldFunction, FoldFunctionOnSet, MapThenFoldSet, Sums,
       SumDef, SumStep, Pick

LEMMA PickIn == \A s : s # {} => Pick(s) \in s
BY DEF Pick

LEMMA SumsDefined ==
  ASSUME NEW f, IsFiniteSet(DOMAIN f)
  PROVE  SumDef(f, Sums(f), SUBSET DOMAIN f)
<1>. DEFINE D    == DOMAIN f
            Upto(k) == {s \in SUBSET D : Cardinality(s) <= k}
            T    == {k \in Nat : \E g : SumDef(f, g, Upto(k))}
<1>0. \A s \in SUBSET D : IsFiniteSet(s) /\ Cardinality(s) \in Nat
  BY FS_Subset, FS_CardinalityType
<1>1. 0 \in T
  <2>1. \A s \in Upto(0) : s = {} BY <1>0, FS_EmptySet
  <2>2. SumDef(f, [s \in Upto(0) |-> 0], Upto(0)) BY <2>1 DEF SumDef, SumStep
  <2>. QED BY <2>2
<1>2. ASSUME NEW k \in Nat, k \in T PROVE k + 1 \in T
  <2>1. PICK g : SumDef(f, g, Upto(k)) BY <1>2
  <2>. DEFINE h == [s \in Upto(k + 1) |-> IF s \in Upto(k) THEN g[s] ELSE SumStep(f, g, s)]
  <2>2. ASSUME NEW s \in Upto(k + 1), s # {}
        PROVE  /\ s \ {Pick(s)} \in Upto(k) /\ s \ {Pick(s)} \in Upto(k + 1)
               /\ SumStep(f, h, s) = SumStep(f, g, s)
    <3>1. Pick(s) \in s BY <2>2, PickIn
    <3>2. Cardinality(s \ {Pick(s)}) = Cardinality(s) - 1 /\ Cardinality(s) \in Nat
      BY <1>0, <3>1, FS_RemoveElement
    <3>3. s \ {Pick(s)} \in Upto(k) /\ s \ {Pick(s)} \in Upto(k + 1) BY <3>2
    <3>. QED BY <3>3 DEF SumStep
  <2>3. ASSUME NEW s \in Upto(k + 1) PROVE h[s] = SumStep(f, h, s)
    <3>1. SumStep(f, h, s) = SumStep(f, g, s) BY <2>2 DEF SumStep
    <3>2. s \in Upto(k) => g[s] = SumStep(f, g, s) BY <2>1 DEF SumDef
    <3>. QED BY <3>1, <3>2
  <2>4. SumDef(f, h, Upto(k + 1)) BY <2>3 DEF SumDef
  <2>. QED BY <2>4, SMTT(30)
<1>3. Cardinality(D) \in T
  <2>. HIDE DEF T
  <2>1. Nat \subseteq T BY <1>1, <1>2, Induct
  <2>. QED BY <1>0, <2>1
<1>4. Upto(Cardinality(D)) = SUBSET D BY FS_Subset
<1>5. \E g : SumDef(f, g, SUBSET DOMAIN f) BY <1>3, <1>4
<1>. QED BY <1>5 DEF Sums

LEMMA SumsPick ==
  ASSUME NEW f, Measured(f), NEW s \in SUBSET DOMAIN f
  PROVE  /\ Sums(f)[s] = SumStep(f, Sums(f), s)
         /\ Sums(f)[s] \in Nat
         /\ \A x \in s : Sums(f)[s] = f[x].len + Sums(f)[s \ {x}]
<1>. DEFINE D == DOMAIN f
            G == Sums(f)
            P(t) == /\ G[t] \in Nat
                    /\ \A x \in t : G[t] = f[x].len + G[t \ {x}]
            T == {k \in Nat : \A t \in SUBSET D : Cardinality(t) <= k => P(t)}
<1>0. \A t \in SUBSET D : IsFiniteSet(t) /\ Cardinality(t) \in Nat
  BY FS_Subset, FS_CardinalityType DEF Measured
<1>1. \A t \in SUBSET D : G[t] = SumStep(f, G, t) BY SumsDefined DEF SumDef, Measured
<1>. HIDE DEF G
<1>2. 0 \in T
  <2>1. ASSUME NEW t \in SUBSET D, Cardinality(t) <= 0 PROVE P(t)
    <3>1. t = {} BY <1>0, <2>1, FS_EmptySet
    <3>2. G[t] = 0 BY <1>1, <3>1 DEF SumStep
    <3>. QED BY <3>1, <3>2
  <2>. QED BY <2>1
<1>3. ASSUME NEW k \in Nat, k \in T PROVE k + 1 \in T
  <2>0. \A t \in SUBSET D : Cardinality(t) <= k => P(t) BY <1>3
  <2>1. ASSUME NEW t \in SUBSET D, Cardinality(t) = k + 1 PROVE P(t)
    <3>. DEFINE c == Pick(t)
    <3>1. t # {} BY <2>1, FS_EmptySet
    <3>2. c \in t BY <3>1, PickIn
    <3>3. ASSUME NEW x \in t
          PROVE  t \ {x} \in SUBSET D /\ Cardinality(t \ {x}) = k
      BY <1>0, <2>1, FS_RemoveElement
    <3>4. G[t] = f[c].len + G[t \ {c}] BY <1>1, <3>1 DEF SumStep
    <3>. HIDE DEF c
    <3>5. P(t \ {c}) BY <2>0, <3>2, <3>3
    <3>6. \A x \in t : f[x].len \in Nat BY DEF Measured
    <3>7. G[t] \in Nat BY <3>2, <3>4, <3>5, <3>6
    <3>8. ASSUME NEW x \in t PROVE G[t] = f[x].len + G[t \ {x}]
      <4>1. CASE x = c BY <3>4, <4>1
      <4>2. CASE x # c
        <5>1. P(t \ {x}) BY <2>0, <3>3
        <5>2. x \in t \ {c} /\ c \in t \ {x} BY <3>2, <4>2
        <5>3. (t \ {c}) \ {x} = (t \ {x}) \ {c} OBVIOUS
        <5>. DEFINE u == (t \ {x}) \ {c}
        <5>4. G[t \ {c}] = f[x].len + G[u] BY <3>5, <5>2, <5>3
        <5>5. G[t \ {x}] = f[c].len + G[u] BY <5>1, <5>2
        <5>6. G[u] \in Nat
          <6>1. u \in SUBSET D /\ Cardinality(u) = k - 1
            <7>1. IsFiniteSet(t \ {x}) /\ Cardinality(t \ {x}) = k BY <1>0, <3>3
            <7>. QED BY <5>2, <7>1, FS_RemoveElement
          <6>. QED BY <2>0, <6>1
        <5>. HIDE DEF u
        <5>. QED BY <3>4, <5>4, <5>5, <5>6, <3>2, <3>6
      <4>. QED BY <4>1, <4>2
    <3>. QED BY <3>7, <3>8
  <2>2. ASSUME NEW t \in SUBSET D, Cardinality(t) <= k + 1 PROVE P(t)
    BY <1>0, <2>0, <2>1, <2>2
  <2>. QED BY <2>2
<1>4. P(s)
  <2>. HIDE DEF T
  <2>1. Nat \subseteq T BY <1>2, <1>3, Induct
  <2>2. Cardinality(s) \in T BY <1>0, <2>1
  <2>. QED BY <2>2 DEF T
<1>. QED BY <1>1, <1>4 DEF G

LEMMA SumsAgree ==
  ASSUME NEW f, NEW g, Measured(f), Measured(g), NEW s,
         s \in SUBSET DOMAIN f, s \in SUBSET DOMAIN g,
         \A x \in s : f[x].len = g[x].len
  PROVE  Sums(f)[s] = Sums(g)[s]
<1>. DEFINE F == Sums(f)
            G == Sums(g)
            T == {k \in Nat : \A t \in SUBSET s : Cardinality(t) = k => F[t] = G[t]}
<1>0. \A t \in SUBSET s : IsFiniteSet(t) /\ Cardinality(t) \in Nat
  BY FS_Subset, FS_CardinalityType DEF Measured
<1>1. \A t \in SUBSET s : F[t] = SumStep(f, F, t) /\ G[t] = SumStep(g, G, t)
  BY SumsPick
<1>. HIDE DEF F, G
<1>2. 0 \in T
  <2>1. ASSUME NEW t \in SUBSET s, Cardinality(t) = 0 PROVE F[t] = G[t]
    <3>1. t = {} BY <1>0, <2>1, FS_EmptySet
    <3>. QED BY <1>1, <3>1 DEF SumStep
  <2>. QED BY <2>1
<1>3. ASSUME NEW k \in Nat, k \in T PROVE k + 1 \in T
  <2>1. ASSUME NEW t \in SUBSET s, Cardinality(t) = k + 1 PROVE F[t] = G[t]
    <3>1. t # {} BY <2>1, FS_EmptySet
    <3>2. Pick(t) \in t BY <3>1, PickIn
    <3>3. t \ {Pick(t)} \in SUBSET s /\ Cardinality(t \ {Pick(t)}) = k
      BY <1>0, <2>1, <3>2, FS_RemoveElement
    <3>4. F[t \ {Pick(t)}] = G[t \ {Pick(t)}] BY <1>3, <3>3
    <3>. QED BY <1>1, <3>1, <3>2, <3>4 DEF SumStep
  <2>. QED BY <2>1
<1>4. Cardinality(s) \in T
  <2>. HIDE DEF T
  <2>1. Nat \subseteq T BY <1>2, <1>3, Induct
  <2>. QED BY <1>0, <2>1
<1>. QED BY <1>4 DEF F, G

(* What the lengths of entries add up to. *)
LEMMA LengthEmpty ==
  ASSUME NEW f, DOMAIN f = {}
  PROVE  LengthOf(f) = 0
<1>1. Measured(f) BY FS_EmptySet DEF Measured
<1>2. Sums(f)[DOMAIN f] = SumStep(f, Sums(f), DOMAIN f) BY <1>1, SumsPick
<1>. QED BY <1>2, LengthOfSums DEF SumStep

LEMMA LengthNat ==
  ASSUME NEW f, Measured(f)
  PROVE  LengthOf(f) \in Nat
BY SumsPick, LengthOfSums

LEMMA LengthSame ==
  ASSUME NEW f, NEW g, Measured(f), DOMAIN g = DOMAIN f,
         \A x \in DOMAIN f : g[x].len = f[x].len
  PROVE  LengthOf(g) = LengthOf(f)
<1>1. Measured(g) BY DEF Measured
<1>2. Sums(f)[DOMAIN f] = Sums(g)[DOMAIN f] BY <1>1, SumsAgree
<1>. QED BY <1>2, LengthOfSums

LEMMA LengthMore ==
  ASSUME NEW f, NEW g, NEW x, Measured(f), x \notin DOMAIN f,
         DOMAIN g = DOMAIN f \cup {x}, g[x].len \in Nat,
         \A y \in DOMAIN f : g[y].len = f[y].len
  PROVE  LengthOf(g) = LengthOf(f) + g[x].len
<1>1. Measured(g) BY FS_AddElement DEF Measured
<1>2. Sums(g)[DOMAIN g] = g[x].len + Sums(g)[DOMAIN g \ {x}] BY <1>1, SumsPick
<1>3. DOMAIN g \ {x} = DOMAIN f OBVIOUS
<1>4. Sums(g)[DOMAIN f] = Sums(f)[DOMAIN f] BY <1>1, SumsAgree
<1>5. Sums(f)[DOMAIN f] \in Nat BY SumsPick
<1>. QED BY <1>2, <1>3, <1>4, <1>5, LengthOfSums

-----------------------------------------------------------------------------
(* Memories: what an operation works on.                                    *)
Lens == SmallLens \cup {NameLen, IndexLen, OspaceLen}

Entries ==
  {e \in [kind : Names \cup Data \cup {"ospace", "deleted"}, id : Files \cup {Null},
          val : Nat, len : Lens] : e.kind = "name" => e.len = NameLen}

Fields(m) ==
  m = [flash |-> m.flash, chain |-> m.chain, tailOff |-> m.tailOff,
       oldSpace |-> m.oldSpace, list |-> m.list, fault |-> m.fault]

(* Sectors of entries that do not overflow. *)
Stored(fl) ==
  /\ fl \in [DOMAIN fl -> Seq(Entries)] /\ DOMAIN fl \subseteq Sectors
  /\ \A s \in DOMAIN fl : HeadLen + LengthOf(fl[s]) <= SectorSize

(* The sectors of a chain are all odd or all even, and no sector in use     *)
(* that could belong to it is beyond its newest.                            *)
Chained(fl, ch) ==
  /\ ch \in Seq(Sectors) /\ ch # <<>> /\ IsInjective(ch) /\ ToSet(ch) \subseteq DOMAIN fl
  /\ \A s \in DOMAIN fl : s % 2 = ch[1] % 2 => s <= ch[1]
  /\ \A s \in ToSet(ch) : s % 2 = ch[1] % 2

(* The tail is where the newest sector ends.                                *)
Tailed(m) == m.tailOff = EndOf(m.flash[m.chain[1]]) /\ m.fault \in BOOLEAN

Mem(m) ==
  /\ Fields(m) /\ Stored(m.flash) /\ Chained(m.flash, m.chain) /\ Tailed(m)
  /\ m.oldSpace \in Nat

(* The places of a directory, as sector and offset. *)
Holds(m, s, i) == s \in ToSet(m.chain) /\ i \in DOMAIN m.flash[s]

LEMMA SizesFacts ==
  /\ SectorSize \in Nat /\ HeadLen \in Nat /\ GcFactor \in Nat /\ ListMax \in Nat
  /\ \A len \in Lens : len \in Nat /\ HeadLen + len < SectorSize
BY SizesAssumption DEF Lens

LEMMA SeqMeasured ==
  ASSUME NEW q \in Seq(Entries)
  PROVE  Measured(q) /\ LengthOf(q) \in Nat
<1>1. IsFiniteSet(DOMAIN q) BY FS_Interval
<1>2. \A i \in DOMAIN q : q[i].len \in Nat BY SizesFacts DEF Entries
<1>. QED BY <1>1, <1>2, LengthNat DEF Measured

LEMMA LengthAppend ==
  ASSUME NEW q \in Seq(Entries), NEW e \in Entries
  PROVE  LengthOf(Append(q, e)) = LengthOf(q) + e.len
<1>. DEFINE r == Append(q, e)
            x == Len(q) + 1
<1>1. Measured(q) BY SeqMeasured
<1>2. DOMAIN r = DOMAIN q \cup {x} /\ x \notin DOMAIN q
  <2>1. DOMAIN r = 1 .. x /\ DOMAIN q = 1 .. Len(q) /\ Len(q) \in Nat OBVIOUS
  <2>. HIDE DEF r
  <2>. QED BY <2>1
<1>3. r[x] = e /\ \A y \in DOMAIN q : r[y] = q[y] OBVIOUS
<1>4. e.len \in Nat BY SizesFacts DEF Entries
<1>. HIDE DEF r, x
<1>5. r[x].len = e.len /\ r[x].len \in Nat /\ \A y \in DOMAIN q : r[y].len = q[y].len
  BY <1>3, <1>4
<1>6. LengthOf(r) = LengthOf(q) + r[x].len BY <1>1, <1>2, <1>5, LengthMore
<1>. QED BY <1>5, <1>6 DEF r

LEMMA LengthReplaced ==
  ASSUME NEW q \in Seq(Entries), NEW i \in DOMAIN q, NEW e \in Entries, e.len = q[i].len
  PROVE  [q EXCEPT ![i] = e] \in Seq(Entries) /\ LengthOf([q EXCEPT ![i] = e]) = LengthOf(q)
<1>. DEFINE r == [q EXCEPT ![i] = e]
<1>1. Measured(q) BY SeqMeasured
<1>2. DOMAIN r = DOMAIN q /\ \A y \in DOMAIN q : r[y].len = q[y].len OBVIOUS
<1>3. r \in Seq(Entries) OBVIOUS
<1>. HIDE DEF r
<1>4. LengthOf(r) = LengthOf(q) BY <1>1, <1>2, LengthSame
<1>. QED BY <1>3, <1>4 DEF r

LEMMA Consed ==
  ASSUME NEW ch \in Seq(Sectors), NEW s \in Sectors
  PROVE  LET d == <<s>> \o ch
         IN  /\ d \in Seq(Sectors) /\ d # <<>> /\ d[1] = s /\ Len(d) = Len(ch) + 1
             /\ \A k \in 1 .. Len(ch) : d[k + 1] = ch[k]
             /\ ToSet(d) = {s} \cup ToSet(ch)
             /\ s \notin ToSet(ch) /\ IsInjective(ch) => IsInjective(d)
<1>. DEFINE d == <<s>> \o ch
<1>1. /\ d \in Seq(Sectors) /\ d # <<>> /\ d[1] = s /\ Len(d) = Len(ch) + 1
      /\ \A k \in 1 .. Len(ch) : d[k + 1] = ch[k]
      /\ \A k \in 2 .. Len(d) : d[k] = ch[k - 1]
  OBVIOUS
<1>. HIDE DEF d
<1>2. ToSet(d) = {s} \cup ToSet(ch)
  <2>1. \A k \in DOMAIN d : d[k] \in {s} \cup ToSet(ch)
    <3>. TAKE k \in DOMAIN d
    <3>1. k = 1 \/ k \in 2 .. Len(d) BY <1>1
    <3>2. k \in 2 .. Len(d) => k - 1 \in DOMAIN ch BY <1>1
    <3>. QED BY <1>1, <3>1, <3>2 DEF ToSet
  <2>2. \A k \in DOMAIN ch : k + 1 \in DOMAIN d /\ d[k + 1] = ch[k] BY <1>1
  <2>3. 1 \in DOMAIN d BY <1>1
  <2>. QED BY <1>1, <2>1, <2>2, <2>3 DEF ToSet
<1>3. ASSUME s \notin ToSet(ch), IsInjective(ch), NEW a \in DOMAIN d, NEW b \in DOMAIN d,
             d[a] = d[b]
      PROVE  a = b
  <2>1. \A k \in DOMAIN d : k = 1 \/ (k - 1 \in DOMAIN ch /\ d[k] = ch[k - 1]) BY <1>1
  <2>2. \A k \in DOMAIN ch : ch[k] # s BY <1>3 DEF ToSet
  <2>3. (a - 1 \in DOMAIN ch /\ b - 1 \in DOMAIN ch /\ ch[a - 1] = ch[b - 1]) => a - 1 = b - 1
    BY <1>3 DEF IsInjective
  <2>4. a \in Int /\ b \in Int BY <1>1
  <2>. QED BY <1>1, <1>3, <2>1, <2>2, <2>3, <2>4
<1>4. s \notin ToSet(ch) /\ IsInjective(ch) => IsInjective(d) BY <1>3 DEF IsInjective
<1>. QED BY <1>1, <1>2, <1>4 DEF d

-----------------------------------------------------------------------------
(* Sectors that are opened, entries that are written. *)
LEMMA OpenedFields ==
  ASSUME NEW m, Fields(m), NEW s
  PROVE  LET n == Opened(m, s)
         IN  /\ Fields(n) /\ n.chain = <<s>> \o m.chain
             /\ n.flash = [t \in DOMAIN m.flash \cup {s} |-> IF t = s THEN <<>> ELSE m.flash[t]]
             /\ n.oldSpace = m.oldSpace /\ n.list = m.list
             /\ n.tailOff = HeadLen /\ n.fault = m.fault
<1>. DEFINE n == Opened(m, s)
<1>1. DOMAIN m = {"flash", "chain", "tailOff", "oldSpace", "list", "fault"} BY DEF Fields
<1>2. /\ n.flash = [t \in DOMAIN m.flash \cup {s} |-> IF t = s THEN <<>> ELSE m.flash[t]]
      /\ n.chain = <<s>> \o m.chain /\ n.oldSpace = m.oldSpace /\ n.list = m.list
      /\ n.tailOff = HeadLen /\ n.fault = m.fault
      /\ DOMAIN n = DOMAIN m /\ n = [k \in DOMAIN m |-> n[k]]
  BY <1>1 DEF Opened
<1>. HIDE DEF n
<1>3. Fields(n) BY <1>1, <1>2 DEF Fields
<1>. QED BY <1>2, <1>3 DEF n

LEMMA OpenedStored ==
  ASSUME NEW fl, Stored(fl), NEW s \in Sectors
  PROVE  Stored([t \in DOMAIN fl \cup {s} |-> IF t = s THEN <<>> ELSE fl[t]])
<1>. DEFINE g == [t \in DOMAIN fl \cup {s} |-> IF t = s THEN <<>> ELSE fl[t]]
<1>1. DOMAIN g = DOMAIN fl \cup {s} /\ g \in [DOMAIN g -> Seq(Entries)] BY DEF Stored
<1>2. LengthOf(<<>>) = 0 BY LengthEmpty
<1>3. HeadLen + 0 <= SectorSize BY SizesFacts DEF Lens
<1>4. ASSUME NEW t \in DOMAIN g PROVE HeadLen + LengthOf(g[t]) <= SectorSize
  <2>1. CASE t = s BY <1>2, <1>3, <2>1
  <2>2. CASE t # s
    <3>1. t \in DOMAIN fl /\ g[t] = fl[t] BY <2>2
    <3>. HIDE DEF g
    <3>. QED BY <3>1 DEF Stored
  <2>. QED BY <2>1, <2>2
<1>5. DOMAIN g \subseteq Sectors BY <1>1 DEF Stored
<1>. HIDE DEF g
<1>6. Stored(g) BY <1>1, <1>4, <1>5 DEF Stored
<1>. QED BY <1>6 DEF g

LEMMA OpenedTail ==
  ASSUME NEW n, n.tailOff = HeadLen, n.fault \in BOOLEAN, n.flash[n.chain[1]] = <<>>
  PROVE  Tailed(n)
<1>1. LengthOf(<<>>) = 0 BY LengthEmpty
<1>. QED BY <1>1, SizesFacts DEF Tailed, EndOf

LEMMA ExtendedMem ==
  ASSUME NEW m, Mem(m)
  PROVE  LET n == Extended(m)
             s == m.chain[1] + 2
         IN  /\ Mem(n) /\ n.chain = <<s>> \o m.chain /\ s \notin DOMAIN m.flash
             /\ n.chain[1] = s /\ ToSet(n.chain) = {s} \cup ToSet(m.chain)
             /\ DOMAIN n.flash = DOMAIN m.flash \cup {s} /\ n.flash[s] = <<>>
             /\ \A t \in DOMAIN m.flash : n.flash[t] = m.flash[t]
             /\ n.oldSpace = m.oldSpace /\ n.list = m.list
             /\ n.tailOff = HeadLen /\ n.fault = m.fault
             /\ s % 2 = m.chain[1] % 2
<1>. DEFINE c == m.chain[1]
            s == c + 2
            n == Extended(m)
            fl == [t \in DOMAIN m.flash \cup {s} |-> IF t = s THEN <<>> ELSE m.flash[t]]
<1>0. c \in Nat \ {0} /\ c \in ToSet(m.chain) /\ c \in DOMAIN m.flash
  BY DEF Mem, Chained, Sectors, ToSet
<1>1. s \in Sectors /\ s % 2 = c % 2 /\ s > c BY <1>0 DEF Sectors
<1>2. s \notin DOMAIN m.flash BY <1>0, <1>1 DEF Mem, Chained, Stored, Sectors
<1>3. n = Opened(m, s) BY DEF Extended
<1>. HIDE DEF n, s, c
<1>4. /\ Fields(n) /\ n.chain = <<s>> \o m.chain /\ n.flash = fl
      /\ n.oldSpace = m.oldSpace /\ n.list = m.list
      /\ n.tailOff = HeadLen /\ n.fault = m.fault
  <2>1. Fields(m) BY DEF Mem
  <2>. QED BY <1>3, <2>1, OpenedFields, SMTT(30)
<1>5. /\ DOMAIN n.flash = DOMAIN m.flash \cup {s} /\ n.flash[s] = <<>>
      /\ \A t \in DOMAIN m.flash : n.flash[t] = m.flash[t]
  BY <1>2, <1>4
<1>6. Stored(n.flash)
  <2>1. Stored(m.flash) BY DEF Mem
  <2>2. Stored(fl) BY <1>1, <2>1, OpenedStored, ZenonT(30)
  <2>. HIDE DEF fl
  <2>. QED BY <1>4, <2>2
<1>. HIDE DEF fl
<1>7. s \notin ToSet(m.chain) BY <1>2 DEF Mem, Chained
<1>8. /\ n.chain \in Seq(Sectors) /\ n.chain # <<>> /\ IsInjective(n.chain)
      /\ n.chain[1] = s /\ ToSet(n.chain) = {s} \cup ToSet(m.chain)
  BY <1>1, <1>4, <1>7, Consed DEF Mem, Chained
<1>9. \A t \in DOMAIN n.flash : t % 2 = s % 2 => t <= s
  <2>1. \A t \in DOMAIN m.flash : t \in Nat /\ (t % 2 = c % 2 => t <= c)
    BY DEF Mem, Chained, Stored, Sectors, c
  <2>. QED BY <1>0, <1>1, <1>5, <2>1 DEF Sectors
<1>10. \A t \in ToSet(n.chain) : t % 2 = s % 2
  BY <1>1, <1>8 DEF Mem, Chained, c
<1>11. Chained(n.flash, n.chain)
  BY <1>5, <1>8, <1>9, <1>10 DEF Chained, Mem
<1>12. Tailed(n)
  <2>1. m.fault \in BOOLEAN BY DEF Mem, Tailed
  <2>. QED BY <1>4, <1>5, <1>8, <2>1, OpenedTail
<1>13. Mem(n) BY <1>4, <1>6, <1>11, <1>12 DEF Mem
<1>. QED BY <1>1, <1>2, <1>4, <1>5, <1>8, <1>13 DEF n, s, c

(* n is m with one more entry e: at its end, in the newest sector; all      *)
(* other places are as they were.                                           *)
More(m, n, e) ==
  LET c == n.chain[1]
      z == Len(n.flash[c])
  IN  /\ Mem(n) /\ n.oldSpace = m.oldSpace /\ n.list = m.list
      /\ c % 2 = m.chain[1] % 2
      /\ Holds(n, c, z) /\ ~ Holds(m, c, z) /\ n.flash[c][z] = e
      /\ \A s, i : Holds(m, s, i) => Holds(n, s, i) /\ n.flash[s][i] = m.flash[s][i]
      /\ \A s, i : Holds(n, s, i) => Holds(m, s, i) \/ (s = c /\ i = z)
      /\ DOMAIN m.flash \subseteq DOMAIN n.flash
      /\ \A s \in DOMAIN m.flash :
           s \notin ToSet(m.chain) => s \notin ToSet(n.chain) /\ n.flash[s] = m.flash[s]
      /\ DOMAIN n.flash \ DOMAIN m.flash \subseteq ToSet(n.chain)
      /\ ToSet(m.chain) \subseteq ToSet(n.chain)

LEMMA WrittenFields ==
  ASSUME NEW m, Fields(m), NEW e
  PROVE  LET n == Written(m, e)
         IN  /\ Fields(n) /\ n.chain = m.chain /\ n.oldSpace = m.oldSpace /\ n.list = m.list
             /\ n.flash = [m.flash EXCEPT ![m.chain[1]] = Append(@, e)]
             /\ n.tailOff = m.tailOff + e.len /\ n.fault \in BOOLEAN
<1>. DEFINE n == Written(m, e)
<1>1. DOMAIN m = {"flash", "chain", "tailOff", "oldSpace", "list", "fault"} BY DEF Fields
<1>2. /\ n.flash = [m.flash EXCEPT ![m.chain[1]] = Append(@, e)]
      /\ n.chain = m.chain /\ n.oldSpace = m.oldSpace /\ n.list = m.list
      /\ n.tailOff = m.tailOff + e.len
      /\ n.fault = (m.fault \/ m.tailOff # EndOf(m.flash[m.chain[1]]))
      /\ DOMAIN n = DOMAIN m /\ n = [k \in DOMAIN m |-> n[k]]
  BY <1>1 DEF Written
<1>. HIDE DEF n
<1>3. Fields(n) BY <1>1, <1>2 DEF Fields
<1>. QED BY <1>2, <1>3 DEF n

LEMMA MemNewest ==
  ASSUME NEW m, Mem(m)
  PROVE  /\ m.chain[1] \in Sectors /\ m.chain[1] \in ToSet(m.chain)
         /\ m.chain[1] \in DOMAIN m.flash /\ 1 \in DOMAIN m.chain
         /\ \A s \in DOMAIN m.flash : /\ m.flash[s] \in Seq(Entries) /\ s \in Sectors
                                      /\ LengthOf(m.flash[s]) \in Nat
         /\ m.tailOff = HeadLen + LengthOf(m.flash[m.chain[1]])
BY SeqMeasured DEF Mem, Chained, Stored, ToSet, Tailed, EndOf

LEMMA WrittenMem ==
  ASSUME NEW m, Mem(m), NEW e \in Entries, Fits(m, e.len)
  PROVE  /\ More(m, Written(m, e), e)
         /\ DOMAIN Written(m, e).flash = DOMAIN m.flash
<1>. DEFINE n == Written(m, e)
            c == m.chain[1]
            q == m.flash[c]
            z == Len(q) + 1
<1>1. /\ Fields(n) /\ n.chain = m.chain /\ n.oldSpace = m.oldSpace /\ n.list = m.list
      /\ n.flash = [m.flash EXCEPT ![c] = Append(q, e)]
      /\ n.tailOff = m.tailOff + e.len /\ n.fault \in BOOLEAN
  BY WrittenFields DEF Mem
<1>2. c \in ToSet(m.chain) /\ c \in DOMAIN m.flash /\ q \in Seq(Entries) /\ LengthOf(q) \in Nat
      /\ m.tailOff = HeadLen + LengthOf(q)
  BY MemNewest
<1>. HIDE DEF n, c
<1>3. /\ DOMAIN n.flash = DOMAIN m.flash /\ n.flash[c] = Append(q, e)
      /\ \A s \in DOMAIN m.flash : s # c => n.flash[s] = m.flash[s]
      /\ n.flash \in [DOMAIN n.flash -> Seq(Entries)]
  BY <1>1, <1>2 DEF Mem, Stored
<1>4. LengthOf(Append(q, e)) = LengthOf(q) + e.len BY <1>2, LengthAppend
<1>5. HeadLen + LengthOf(n.flash[c]) <= SectorSize
  <2>1. HeadLen + LengthOf(q) + e.len < SectorSize BY <1>2 DEF Fits
  <2>2. e.len \in Nat BY SizesFacts DEF Entries
  <2>. QED BY <1>2, <1>3, <1>4, <2>1, <2>2, SizesFacts
<1>6. Stored(n.flash)
  <2>1. \A s \in DOMAIN n.flash : HeadLen + LengthOf(n.flash[s]) <= SectorSize
    BY <1>3, <1>5 DEF Mem, Stored
  <2>. QED BY <1>3, <2>1 DEF Mem, Stored
<1>7. Chained(n.flash, n.chain) BY <1>1, <1>3 DEF Mem, Chained
<1>8. Mem(n)
  <2>1. e.len \in Nat BY SizesFacts DEF Entries
  <2>2. n.tailOff = EndOf(n.flash[c]) BY <1>1, <1>2, <1>3, <1>4, <2>1, SizesFacts DEF EndOf
  <2>3. Tailed(n) BY <1>1, <2>2 DEF Tailed, c
  <2>. QED BY <1>1, <1>6, <1>7, <2>3 DEF Mem
<1>9. /\ Len(Append(q, e)) = z /\ Append(q, e)[z] = e /\ z \notin DOMAIN q
      /\ DOMAIN Append(q, e) = DOMAIN q \cup {z}
      /\ \A i \in DOMAIN q : Append(q, e)[i] = q[i]
  <2>1. /\ Len(Append(q, e)) = z /\ Append(q, e)[z] = e
        /\ \A i \in DOMAIN q : Append(q, e)[i] = q[i]
    BY <1>2
  <2>2. DOMAIN q = 1 .. Len(q) /\ Len(q) \in Nat /\ DOMAIN Append(q, e) = 1 .. z BY <1>2
  <2>3. \A l \in Nat : 1 .. l + 1 = (1 .. l) \cup {l + 1} /\ l + 1 \notin 1 .. l
    <3>. TAKE l \in Nat
    <3>1. \A j : j \in 1 .. l + 1 <=> j \in (1 .. l) \cup {l + 1} OBVIOUS
    <3>. QED BY <3>1
  <2>. HIDE DEF q
  <2>4. DOMAIN Append(q, e) = DOMAIN q \cup {z} /\ z \notin DOMAIN q BY <2>2, <2>3
  <2>. QED BY <2>1, <2>4
<1>. HIDE DEF q, z
<1>10. Holds(n, c, z) /\ ~ Holds(m, c, z) /\ n.flash[c][z] = e
  BY <1>1, <1>2, <1>3, <1>9 DEF Holds, q
<1>11. ASSUME NEW s, NEW i, Holds(m, s, i)
       PROVE  Holds(n, s, i) /\ n.flash[s][i] = m.flash[s][i]
  <2>1. s \in DOMAIN m.flash BY <1>11 DEF Holds, Mem, Chained
  <2>. QED BY <1>1, <1>3, <1>9, <1>11, <2>1 DEF Holds, q
<1>12. ASSUME NEW s, NEW i, Holds(n, s, i)
       PROVE  Holds(m, s, i) \/ (s = c /\ i = z)
  <2>1. s \in DOMAIN m.flash BY <1>1, <1>12 DEF Holds, Mem, Chained
  <2>. QED BY <1>1, <1>3, <1>9, <1>12, <2>1 DEF Holds, q
<1>13. \A s \in DOMAIN m.flash : s \notin ToSet(m.chain) =>
         s \notin ToSet(n.chain) /\ n.flash[s] = m.flash[s]
  BY <1>1, <1>2, <1>3
<1>14. n.chain[1] = c /\ Len(n.flash[c]) = z BY <1>1, <1>3, <1>9 DEF c
<1>15. More(m, n, e)
  BY <1>1, <1>3, <1>8, <1>10, <1>11, <1>12, <1>13, <1>14 DEF More, c
<1>. QED BY <1>3, <1>15 DEF n

(* dir_prog without GC adds its entry and nothing else. *)
LEMMA AddedMem ==
  ASSUME NEW m, Mem(m), NEW e \in Entries
  PROVE  More(m, Added(m, e), e)
<1>1. CASE Fits(m, e.len) BY <1>1, WrittenMem DEF Added
<1>2. CASE ~ Fits(m, e.len)
  <2>. DEFINE x == Extended(m)
              s == m.chain[1] + 2
              n == Written(x, e)
  <2>1. /\ Mem(x) /\ x.chain = <<s>> \o m.chain /\ s \notin DOMAIN m.flash
        /\ x.chain[1] = s /\ ToSet(x.chain) = {s} \cup ToSet(m.chain)
        /\ DOMAIN x.flash = DOMAIN m.flash \cup {s} /\ x.flash[s] = <<>>
        /\ \A t \in DOMAIN m.flash : x.flash[t] = m.flash[t]
        /\ x.oldSpace = m.oldSpace /\ x.list = m.list /\ x.tailOff = HeadLen
        /\ s % 2 = m.chain[1] % 2
    BY ExtendedMem
  <2>. HIDE DEF x, s
  <2>2. Fits(x, e.len)
    <3>1. HeadLen + e.len < SectorSize BY SizesFacts DEF Entries
    <3>. QED BY <2>1, <3>1 DEF Fits
  <2>3. More(x, n, e) /\ DOMAIN n.flash = DOMAIN x.flash BY <2>1, <2>2, WrittenMem
  <2>. HIDE DEF n
  <2>4. n.chain[1] % 2 = m.chain[1] % 2 BY <2>1, <2>3 DEF More
  <2>5. \A t, i : Holds(x, t, i) <=> Holds(m, t, i)
    <3>1. ToSet(m.chain) \subseteq DOMAIN m.flash BY DEF Mem, Chained
    <3>2. DOMAIN x.flash[s] = {} BY <2>1
    <3>. QED BY <2>1, <3>1, <3>2 DEF Holds
  <2>6. \A t, i : Holds(m, t, i) => x.flash[t][i] = m.flash[t][i]
    BY <2>1 DEF Holds, Mem, Chained
  <2>7. \A t \in DOMAIN m.flash : t \notin ToSet(m.chain) =>
          t \in DOMAIN x.flash /\ t \notin ToSet(x.chain) /\ x.flash[t] = m.flash[t]
    BY <2>1
  <2>8. /\ DOMAIN m.flash \subseteq DOMAIN n.flash /\ ToSet(m.chain) \subseteq ToSet(n.chain)
        /\ DOMAIN n.flash \ DOMAIN m.flash \subseteq ToSet(n.chain)
    BY <2>1, <2>3 DEF More
  <2>9. \A t \in DOMAIN m.flash : t \notin ToSet(m.chain) =>
          t \notin ToSet(n.chain) /\ n.flash[t] = m.flash[t]
    BY <2>3, <2>7 DEF More
  <2>10. More(m, n, e)
    BY <2>1, <2>3, <2>4, <2>5, <2>6, <2>8, <2>9, SMTT(30) DEF More
  <2>11. Added(m, e) = n BY <1>2 DEF Added, n, x
  <2>. QED BY <2>10, <2>11
<1>. QED BY <1>1, <1>2

-----------------------------------------------------------------------------
(* n is m with the entry at (s, i) deleted. *)
Less(m, n, s, i) ==
  /\ Mem(n) /\ n.list = m.list /\ n.chain = m.chain /\ DOMAIN n.flash = DOMAIN m.flash
  /\ \A t, j : Holds(n, t, j) <=> Holds(m, t, j)
  /\ n.flash[s][i] = Tombstone(m.flash[s][i].len)
  /\ \A t, j : Holds(m, t, j) /\ ~ (t = s /\ j = i) => n.flash[t][j] = m.flash[t][j]
  /\ \A t \in DOMAIN m.flash : t # s => n.flash[t] = m.flash[t]
  /\ Len(n.flash[s]) = Len(m.flash[s])

LEMMA DeletedFields ==
  ASSUME NEW m, Fields(m), NEW s, NEW i, NEW len, s # Null, s \in DOMAIN m.flash,
         i \in DOMAIN m.flash[s]
  PROVE  LET n == Deleted(m, <<s, i>>, len)
         IN  /\ Fields(n) /\ n.chain = m.chain /\ n.oldSpace = m.oldSpace + len
             /\ n.list = m.list /\ n.tailOff = m.tailOff /\ n.fault = m.fault
             /\ n.flash = [m.flash EXCEPT ![s][i] = Tombstone(m.flash[s][i].len)]
<1>. DEFINE n == Deleted(m, <<s, i>>, len)
<1>1. DOMAIN m = {"flash", "chain", "tailOff", "oldSpace", "list", "fault"} BY DEF Fields
<1>2. /\ n.flash = [m.flash EXCEPT ![s][i] = Tombstone(m.flash[s][i].len)]
      /\ n.chain = m.chain /\ n.oldSpace = m.oldSpace + len /\ n.list = m.list
      /\ n.tailOff = m.tailOff /\ n.fault = m.fault
      /\ DOMAIN n = DOMAIN m /\ n = [k \in DOMAIN m |-> n[k]]
  <2>1. n = [m EXCEPT !.oldSpace = m.oldSpace + len, !.flash = Marked(m.flash, <<s, i>>)]
    BY DEF Deleted
  <2>2. Marked(m.flash, <<s, i>>) = [m.flash EXCEPT ![s][i] = Tombstone(m.flash[s][i].len)]
    BY DEF Marked
  <2>. HIDE DEF n
  <2>. QED BY <1>1, <2>1, <2>2
<1>. HIDE DEF n
<1>3. Fields(n) BY <1>1, <1>2 DEF Fields
<1>. QED BY <1>2, <1>3 DEF n

LEMMA NullEntry ==
  ASSUME NEW e \in Entries
  PROVE  Tombstone(e.len) \in Entries /\ Tombstone(e.len).len = e.len
         /\ Tombstone(e.len).kind = "deleted"
BY DEF Tombstone, Entry, Entries, Names, Data

LEMMA DeletedMem ==
  ASSUME NEW m, Mem(m), NEW s, NEW i, Holds(m, s, i), NEW len \in Nat
  PROVE  LET n == Deleted(m, <<s, i>>, len)
         IN  Less(m, n, s, i) /\ n.oldSpace = m.oldSpace + len
<1>. DEFINE n == Deleted(m, <<s, i>>, len)
            q == m.flash[s]
            e == Tombstone(q[i].len)
            r == [q EXCEPT ![i] = e]
<1>1. s \in DOMAIN m.flash /\ s \in ToSet(m.chain) /\ i \in DOMAIN q /\ s # Null
  BY NullAssumption DEF Holds, Mem, Chained, Stored
<1>2. /\ Fields(n) /\ n.chain = m.chain /\ n.oldSpace = m.oldSpace + len
      /\ n.list = m.list /\ n.flash = [m.flash EXCEPT ![s][i] = e]
      /\ n.tailOff = m.tailOff /\ n.fault = m.fault
  BY <1>1, DeletedFields DEF Mem
<1>3. q \in Seq(Entries) /\ q[i] \in Entries BY <1>1, MemNewest
<1>4. e \in Entries /\ e.len = q[i].len BY <1>3, NullEntry
<1>5. r \in Seq(Entries) /\ LengthOf(r) = LengthOf(q) BY <1>1, <1>3, <1>4, LengthReplaced
<1>6. Len(r) = Len(q) /\ DOMAIN r = DOMAIN q /\ r[i] = e /\ \A j \in DOMAIN q : j # i => r[j] = q[j]
  BY <1>1, <1>3
<1>. HIDE DEF n, e
<1>7. n.flash = [m.flash EXCEPT ![s] = r] BY <1>2
<1>. HIDE DEF r
<1>8. /\ DOMAIN n.flash = DOMAIN m.flash /\ n.flash[s] = r
      /\ \A t \in DOMAIN m.flash : t # s => n.flash[t] = m.flash[t]
      /\ n.flash \in [DOMAIN n.flash -> Seq(Entries)]
  BY <1>1, <1>5, <1>7 DEF Mem, Stored
<1>9. Stored(n.flash) /\ Tailed(n)
  <2>1. \A t \in DOMAIN n.flash : LengthOf(n.flash[t]) = LengthOf(m.flash[t])
    BY <1>5, <1>8
  <2>2. \A t \in DOMAIN n.flash : HeadLen + LengthOf(n.flash[t]) <= SectorSize
    BY <1>8, <2>1 DEF Mem, Stored
  <2>3. m.chain[1] \in DOMAIN n.flash BY <1>8, MemNewest
  <2>4. Tailed(n) BY <1>2, <2>1, <2>3 DEF Mem, Tailed, EndOf
  <2>. QED BY <1>8, <2>2, <2>4 DEF Mem, Stored
<1>10. Chained(n.flash, n.chain) BY <1>2, <1>8 DEF Mem, Chained
<1>11. Mem(n) BY <1>2, <1>9, <1>10 DEF Mem
<1>12. ToSet(m.chain) \subseteq DOMAIN m.flash BY DEF Mem, Chained
<1>13. \A t, j : Holds(n, t, j) <=> Holds(m, t, j)
  BY <1>2, <1>6, <1>8, <1>12 DEF Holds
<1>14. \A t, j : Holds(m, t, j) /\ ~ (t = s /\ j = i) => n.flash[t][j] = m.flash[t][j]
  BY <1>6, <1>8, <1>12 DEF Holds
<1>15. Less(m, n, s, i)
  BY <1>2, <1>6, <1>8, <1>11, <1>13, <1>14 DEF Less, e
<1>. QED BY <1>2, <1>15 DEF n

-----------------------------------------------------------------------------
(* A fold, element by element: there is a function that says what has been   *)
(* computed after each.                                                     *)
LEMMA MaxTop ==
  ASSUME NEW k \in Nat, NEW s \in SUBSET (1 .. k + 1), k + 1 \in s
  PROVE  Max(s) = k + 1
<1>1. \A y \in s : y \in Int /\ k + 1 >= y OBVIOUS
<1>2. \A x \in s : (\A y \in s : x >= y) => x = k + 1 BY <1>1
<1>. QED BY <1>1, <1>2 DEF Max

LEMMA IntervalTop ==
  ASSUME NEW i \in Nat \ {0}
  PROVE  Max(1 .. i) = i /\ (1 .. i) \ {i} = 1 .. i - 1 /\ 1 .. i # {}
<1>1. i - 1 \in Nat /\ (i - 1) + 1 = i /\ i \in 1 .. i OBVIOUS
<1>2. Max(1 .. i) = i BY <1>1, MaxTop
<1>3. ASSUME NEW j PROVE j \in (1 .. i) \ {i} <=> j \in 1 .. i - 1 OBVIOUS
<1>4. (1 .. i) \ {i} = 1 .. i - 1 BY <1>3
<1>. QED BY <1>1, <1>2, <1>4

(* The entries of a sector.                                                 *)
CopiedThrough(n, q) == FoldLeft(Copied, n, q)

LEMMA CopiedFold ==
  ASSUME NEW n, NEW S, NEW q \in Seq(S)
  PROVE  \E new : /\ new[0] = n /\ CopiedThrough(n, q) = new[Len(q)]
                  /\ \A i \in 1 .. Len(q) : new[i] = Copied(new[i - 1], q[i])
<1>. DEFINE Step(g, s) == IF s = {} THEN n
                          ELSE LET x == Max(s) IN Copied(g[s \ {x}], q[x])
            Def(g, k) == g = [s \in SUBSET (1 .. k) |-> Step(g, s)]
            top  == Len(q)
            iter == CHOOSE g : Def(g, top)
<1>0. top \in Nat /\ DOMAIN q = 1 .. top  OBVIOUS
<1>1. CopiedThrough(n, q) = iter[1 .. top]
  BY <1>0 DEF CopiedThrough, FoldLeft, MapThenFoldSet
<1>2. \E g : Def(g, 0)
  <2>1. SUBSET (1 .. 0) = {{}} OBVIOUS
  <2>2. Def([s \in {{}} |-> n], 0) BY <2>1
  <2>. QED BY <2>2
<1>3. ASSUME NEW k \in Nat, NEW g, Def(g, k)
      PROVE  \E h : Def(h, k + 1)
  <2>. DEFINE h == [s \in SUBSET (1 .. k + 1) |->
                      IF k + 1 \in s THEN Copied(g[s \ {k + 1}], q[k + 1]) ELSE g[s]]
  <2>1. ASSUME NEW s \in SUBSET (1 .. k + 1), k + 1 \in s
        PROVE  h[s] = Step(h, s)
    <3>1. Max(s) = k + 1 BY <2>1, MaxTop
    <3>2. s \ {k + 1} \in SUBSET (1 .. k + 1) /\ k + 1 \notin s \ {k + 1} OBVIOUS
    <3>3. h[s \ {k + 1}] = g[s \ {k + 1}] BY <3>2
    <3>. QED BY <2>1, <3>1, <3>3
  <2>2. ASSUME NEW s \in SUBSET (1 .. k + 1), k + 1 \notin s
        PROVE  h[s] = Step(h, s)
    <3>1. s \in SUBSET (1 .. k) BY <2>2
    <3>2. h[s] = g[s] BY <2>2
    <3>3. g[s] = Step(g, s) BY <1>3, <3>1
    <3>4. h[s \ {Max(s)}] = g[s \ {Max(s)}] BY <2>2
    <3>. QED BY <3>2, <3>3, <3>4
  <2>3. Def(h, k + 1) BY <2>1, <2>2
  <2>. QED BY <2>3
<1>4. \E g : Def(g, top)
  <2>. DEFINE T == {k \in Nat : \E g : Def(g, k)}
  <2>. HIDE DEF Def
  <2>1. 0 \in T BY <1>2
  <2>2. \A k \in Nat : k \in T => k + 1 \in T BY <1>3
  <2>. HIDE DEF T
  <2>3. Nat \subseteq T BY <2>1, <2>2, Induct
  <2>. QED BY <1>0, <2>3 DEF T
<1>5. Def(iter, top)
  <2>. HIDE DEF Def
  <2>. QED BY <1>4
<1>. HIDE DEF iter
<1>6. ASSUME NEW i \in 1 .. top
      PROVE  iter[1 .. i] = Copied(iter[1 .. i - 1], q[i])
  <2>1. 1 .. i \in SUBSET (1 .. top) BY <1>0
  <2>2. Max(1 .. i) = i /\ (1 .. i) \ {i} = 1 .. i - 1 /\ 1 .. i # {} BY <1>0, IntervalTop
  <2>3. iter[1 .. i] = Step(iter, 1 .. i) BY <1>5, <2>1
  <2>. QED BY <2>2, <2>3
<1>7. iter[1 .. 0] = n
  <2>1. 1 .. 0 = {} /\ 1 .. 0 \in SUBSET (1 .. top) OBVIOUS
  <2>. QED BY <2>1, <1>5
<1>. DEFINE new == [i \in 0 .. top |-> iter[1 .. i]]
<1>8. new[0] = n /\ new[top] = iter[1 .. top] BY <1>0, <1>7
<1>9. \A i \in 1 .. top : new[i] = Copied(new[i - 1], q[i]) BY <1>0, <1>6
<1>. QED BY <1>1, <1>8, <1>9

(* The sectors of a chain.                                                  *)
CopiedChain(n, q) == FoldLeft(CopiedSector, n, q)

LEMMA SectorsFold ==
  ASSUME NEW n, NEW S, NEW q \in Seq(S)
  PROVE  \E new : /\ new[0] = n /\ CopiedChain(n, q) = new[Len(q)]
                  /\ \A i \in 1 .. Len(q) : new[i] = CopiedSector(new[i - 1], q[i])
<1>. DEFINE Step(g, s) == IF s = {} THEN n
                          ELSE LET x == Max(s) IN CopiedSector(g[s \ {x}], q[x])
            Def(g, k) == g = [s \in SUBSET (1 .. k) |-> Step(g, s)]
            top  == Len(q)
            iter == CHOOSE g : Def(g, top)
<1>0. top \in Nat /\ DOMAIN q = 1 .. top  OBVIOUS
<1>1. CopiedChain(n, q) = iter[1 .. top]
  BY <1>0 DEF CopiedChain, FoldLeft, MapThenFoldSet
<1>2. \E g : Def(g, 0)
  <2>1. SUBSET (1 .. 0) = {{}} OBVIOUS
  <2>2. Def([s \in {{}} |-> n], 0) BY <2>1
  <2>. QED BY <2>2
<1>3. ASSUME NEW k \in Nat, NEW g, Def(g, k)
      PROVE  \E h : Def(h, k + 1)
  <2>. DEFINE h == [s \in SUBSET (1 .. k + 1) |->
                      IF k + 1 \in s THEN CopiedSector(g[s \ {k + 1}], q[k + 1]) ELSE g[s]]
  <2>1. ASSUME NEW s \in SUBSET (1 .. k + 1), k + 1 \in s
        PROVE  h[s] = Step(h, s)
    <3>1. Max(s) = k + 1 BY <2>1, MaxTop
    <3>2. s \ {k + 1} \in SUBSET (1 .. k + 1) /\ k + 1 \notin s \ {k + 1} OBVIOUS
    <3>3. h[s \ {k + 1}] = g[s \ {k + 1}] BY <3>2
    <3>. QED BY <2>1, <3>1, <3>3
  <2>2. ASSUME NEW s \in SUBSET (1 .. k + 1), k + 1 \notin s
        PROVE  h[s] = Step(h, s)
    <3>1. s \in SUBSET (1 .. k) BY <2>2
    <3>2. h[s] = g[s] BY <2>2
    <3>3. g[s] = Step(g, s) BY <1>3, <3>1
    <3>4. h[s \ {Max(s)}] = g[s \ {Max(s)}] BY <2>2
    <3>. QED BY <3>2, <3>3, <3>4
  <2>3. Def(h, k + 1) BY <2>1, <2>2
  <2>. QED BY <2>3
<1>4. \E g : Def(g, top)
  <2>. DEFINE T == {k \in Nat : \E g : Def(g, k)}
  <2>. HIDE DEF Def
  <2>1. 0 \in T BY <1>2
  <2>2. \A k \in Nat : k \in T => k + 1 \in T BY <1>3
  <2>. HIDE DEF T
  <2>3. Nat \subseteq T BY <2>1, <2>2, Induct
  <2>. QED BY <1>0, <2>3 DEF T
<1>5. Def(iter, top)
  <2>. HIDE DEF Def
  <2>. QED BY <1>4
<1>. HIDE DEF iter
<1>6. ASSUME NEW i \in 1 .. top
      PROVE  iter[1 .. i] = CopiedSector(iter[1 .. i - 1], q[i])
  <2>1. 1 .. i \in SUBSET (1 .. top) BY <1>0
  <2>2. Max(1 .. i) = i /\ (1 .. i) \ {i} = 1 .. i - 1 /\ 1 .. i # {} BY <1>0, IntervalTop
  <2>3. iter[1 .. i] = Step(iter, 1 .. i) BY <1>5, <2>1
  <2>. QED BY <2>2, <2>3
<1>7. iter[1 .. 0] = n
  <2>1. 1 .. 0 = {} /\ 1 .. 0 \in SUBSET (1 .. top) OBVIOUS
  <2>. QED BY <2>1, <1>5
<1>. DEFINE new == [i \in 0 .. top |-> iter[1 .. i]]
<1>8. new[0] = n /\ new[top] = iter[1 .. top] BY <1>0, <1>7
<1>9. \A i \in 1 .. top : new[i] = CopiedSector(new[i - 1], q[i]) BY <1>0, <1>6
<1>. QED BY <1>1, <1>8, <1>9

(* The old space of a sector.                                               *)
CountedThrough(n, q) == FoldLeft(Counted, n, q)

LEMMA CountedFold ==
  ASSUME NEW n, NEW S, NEW q \in Seq(S)
  PROVE  \E new : /\ new[0] = n /\ CountedThrough(n, q) = new[Len(q)]
                  /\ \A i \in 1 .. Len(q) : new[i] = Counted(new[i - 1], q[i])
<1>. DEFINE Step(g, s) == IF s = {} THEN n
                          ELSE LET x == Max(s) IN Counted(g[s \ {x}], q[x])
            Def(g, k) == g = [s \in SUBSET (1 .. k) |-> Step(g, s)]
            top  == Len(q)
            iter == CHOOSE g : Def(g, top)
<1>0. top \in Nat /\ DOMAIN q = 1 .. top  OBVIOUS
<1>1. CountedThrough(n, q) = iter[1 .. top]
  BY <1>0 DEF CountedThrough, FoldLeft, MapThenFoldSet
<1>2. \E g : Def(g, 0)
  <2>1. SUBSET (1 .. 0) = {{}} OBVIOUS
  <2>2. Def([s \in {{}} |-> n], 0) BY <2>1
  <2>. QED BY <2>2
<1>3. ASSUME NEW k \in Nat, NEW g, Def(g, k)
      PROVE  \E h : Def(h, k + 1)
  <2>. DEFINE h == [s \in SUBSET (1 .. k + 1) |->
                      IF k + 1 \in s THEN Counted(g[s \ {k + 1}], q[k + 1]) ELSE g[s]]
  <2>1. ASSUME NEW s \in SUBSET (1 .. k + 1), k + 1 \in s
        PROVE  h[s] = Step(h, s)
    <3>1. Max(s) = k + 1 BY <2>1, MaxTop
    <3>2. s \ {k + 1} \in SUBSET (1 .. k + 1) /\ k + 1 \notin s \ {k + 1} OBVIOUS
    <3>3. h[s \ {k + 1}] = g[s \ {k + 1}] BY <3>2
    <3>. QED BY <2>1, <3>1, <3>3
  <2>2. ASSUME NEW s \in SUBSET (1 .. k + 1), k + 1 \notin s
        PROVE  h[s] = Step(h, s)
    <3>1. s \in SUBSET (1 .. k) BY <2>2
    <3>2. h[s] = g[s] BY <2>2
    <3>3. g[s] = Step(g, s) BY <1>3, <3>1
    <3>4. h[s \ {Max(s)}] = g[s \ {Max(s)}] BY <2>2
    <3>. QED BY <3>2, <3>3, <3>4
  <2>3. Def(h, k + 1) BY <2>1, <2>2
  <2>. QED BY <2>3
<1>4. \E g : Def(g, top)
  <2>. DEFINE T == {k \in Nat : \E g : Def(g, k)}
  <2>. HIDE DEF Def
  <2>1. 0 \in T BY <1>2
  <2>2. \A k \in Nat : k \in T => k + 1 \in T BY <1>3
  <2>. HIDE DEF T
  <2>3. Nat \subseteq T BY <2>1, <2>2, Induct
  <2>. QED BY <1>0, <2>3 DEF T
<1>5. Def(iter, top)
  <2>. HIDE DEF Def
  <2>. QED BY <1>4
<1>. HIDE DEF iter
<1>6. ASSUME NEW i \in 1 .. top
      PROVE  iter[1 .. i] = Counted(iter[1 .. i - 1], q[i])
  <2>1. 1 .. i \in SUBSET (1 .. top) BY <1>0
  <2>2. Max(1 .. i) = i /\ (1 .. i) \ {i} = 1 .. i - 1 /\ 1 .. i # {} BY <1>0, IntervalTop
  <2>3. iter[1 .. i] = Step(iter, 1 .. i) BY <1>5, <2>1
  <2>. QED BY <2>2, <2>3
<1>7. iter[1 .. 0] = n
  <2>1. 1 .. 0 = {} /\ 1 .. 0 \in SUBSET (1 .. top) OBVIOUS
  <2>. QED BY <2>1, <1>5
<1>. DEFINE new == [i \in 0 .. top |-> iter[1 .. i]]
<1>8. new[0] = n /\ new[top] = iter[1 .. top] BY <1>0, <1>7
<1>9. \A i \in 1 .. top : new[i] = Counted(new[i - 1], q[i]) BY <1>0, <1>6
<1>. QED BY <1>1, <1>8, <1>9

LEMMA UndoneEmpty ==
  ASSUME NEW m, NEW q, DOMAIN q = {}
  PROVE  FoldLeft(Undone, m, q) = m
<1>. DEFINE Step(g, s) == IF s = {} THEN m
                          ELSE LET x == Max(s) IN Undone(g[s \ {x}], q[x])
            Def(g) == g = [s \in SUBSET DOMAIN q |-> Step(g, s)]
            iter == CHOOSE g : Def(g)
<1>1. FoldLeft(Undone, m, q) = iter[DOMAIN q] BY DEF FoldLeft, MapThenFoldSet
<1>2. Def([s \in SUBSET DOMAIN q |-> m]) OBVIOUS
<1>3. Def(iter)
  <2>. HIDE DEF Def
  <2>. QED BY <1>2
<1>. HIDE DEF iter
<1>. QED BY <1>1, <1>3

LEMMA ReprogrammedEmpty ==
  ASSUME NEW m, NEW q, DOMAIN q = {}
  PROVE  FoldLeft(Reprogrammed, m, q) = m
<1>. DEFINE Step(g, s) == IF s = {} THEN m
                          ELSE LET x == Max(s) IN Reprogrammed(g[s \ {x}], q[x])
            Def(g) == g = [s \in SUBSET DOMAIN q |-> Step(g, s)]
            iter == CHOOSE g : Def(g)
<1>1. FoldLeft(Reprogrammed, m, q) = iter[DOMAIN q] BY DEF FoldLeft, MapThenFoldSet
<1>2. Def([s \in SUBSET DOMAIN q |-> m]) OBVIOUS
<1>3. Def(iter)
  <2>. HIDE DEF Def
  <2>. QED BY <1>2
<1>. HIDE DEF iter
<1>. QED BY <1>1, <1>3

-----------------------------------------------------------------------------
(* Garbage collection. *)
LiveEntry(e) == e.kind \in Names \cup Data

(* Two entries of which a directory may have one. *)
Rivals(d, e) == d.id = e.id /\ \E kinds \in {Names, Data} : d.kind \in kinds /\ e.kind \in kinds

One(m) ==
  \A s, i, t, j : /\ Holds(m, s, i) /\ Holds(m, t, j)
                  /\ Rivals(m.flash[s][i], m.flash[t][j])
                  => s = t /\ i = j

(* The sectors in use are those of the chain. *)
Whole(m) == Mem(m) /\ DOMAIN m.flash = ToSet(m.chain)

(* The b-th entry of the a-th sector comes before the traversal is past the *)
(* i-th entry of the k-th.                                                  *)
Passed(m, k, i, a, b) ==
  /\ a \in DOMAIN m.chain /\ b \in DOMAIN m.flash[m.chain[a]]
  /\ a < k \/ (a = k /\ b <= i)

EntryAt(m, a, b) == m.flash[m.chain[a]][b]

(* What has been passed of m, if it is live, is in the new chain of n, once, *)
(* and nothing else; but for indexes, when one has been lost.               *)
Saved(e, lost) == LiveEntry(e) /\ ~ (e.kind = "index" /\ lost)

Copies(m, n, lost, k, i) ==
  /\ Mem(n) /\ n.oldSpace = 0 /\ n.list = m.list /\ One(n)
  /\ \A s \in ToSet(m.chain) :
       s \in DOMAIN n.flash /\ s \notin ToSet(n.chain) /\ n.flash[s] = m.flash[s]
  /\ \A s, j : Holds(n, s, j) =>
       /\ LiveEntry(n.flash[s][j])
       /\ \E a, b : Passed(m, k, i, a, b) /\ EntryAt(m, a, b) = n.flash[s][j]
  /\ \A a, b : Passed(m, k, i, a, b) /\ Saved(EntryAt(m, a, b), lost) =>
       \E s, j : Holds(n, s, j) /\ n.flash[s][j] = EntryAt(m, a, b)

(* A traversal, of which only the new chain and what was lost matter here.   *)
Travels(t) ==
  /\ t = [new |-> t.new, off |-> t.off, rcache |-> t.rcache, pcache |-> t.pcache,
          lost |-> t.lost]
  /\ t.lost \in BOOLEAN

Faulted(n, b) == [n EXCEPT !.fault = b]

Traverses(m, t, k, i) == Travels(t) /\ Copies(m, t.new, t.lost, k, i)

LEMMA TravelsOff ==
  ASSUME NEW t, Travels(t), NEW off
  PROVE  LET o == [t EXCEPT !.off = off]
         IN  Travels(o) /\ o.new = t.new /\ o.lost = t.lost
<1>. DEFINE o == [t EXCEPT !.off = off]
<1>1. DOMAIN t = {"new", "off", "rcache", "pcache", "lost"} /\ t.lost \in BOOLEAN
  BY DEF Travels
<1>2. DOMAIN o = DOMAIN t /\ o = [k \in DOMAIN t |-> o[k]] /\ o.new = t.new /\ o.lost = t.lost
  BY <1>1
<1>. HIDE DEF o
<1>3. Travels(o) BY <1>1, <1>2 DEF Travels
<1>. QED BY <1>2, <1>3 DEF o

LEMMA TravelsWindow ==
  ASSUME NEW t, Travels(t), NEW rcache
  PROVE  LET o == [t EXCEPT !.rcache = rcache]
         IN  Travels(o) /\ o.new = t.new /\ o.lost = t.lost
<1>. DEFINE o == [t EXCEPT !.rcache = rcache]
<1>1. DOMAIN t = {"new", "off", "rcache", "pcache", "lost"} /\ t.lost \in BOOLEAN
  BY DEF Travels
<1>2. DOMAIN o = DOMAIN t /\ o = [k \in DOMAIN t |-> o[k]] /\ o.new = t.new /\ o.lost = t.lost
  BY <1>1
<1>. HIDE DEF o
<1>3. Travels(o) BY <1>1, <1>2 DEF Travels
<1>. QED BY <1>2, <1>3 DEF o

LEMMA MovedOverFields ==
  ASSUME NEW t, Travels(t), NEW e
  PROVE  LET o == MovedOver(t, e)
         IN  Travels(o) /\ o.new = Added(t.new, e) /\ o.lost = t.lost
<1>. DEFINE n == Added(t.new, e)
            c == PcacheAfter(IF Fits(t.new, e.len) THEN t.pcache ELSE -1,
                             n.tailOff - e.len, e.len)
            o == [t EXCEPT !.new = n, !.pcache = c]
<1>1. MovedOver(t, e) = o BY DEF MovedOver
<1>. HIDE DEF n, c
<1>2. DOMAIN t = {"new", "off", "rcache", "pcache", "lost"} /\ t.lost \in BOOLEAN
  BY DEF Travels
<1>3. DOMAIN o = DOMAIN t /\ o = [k \in DOMAIN t |-> o[k]] /\ o.new = n /\ o.lost = t.lost
  BY <1>2
<1>. HIDE DEF o
<1>4. Travels(o) BY <1>2, <1>3 DEF Travels
<1>. QED BY <1>1, <1>3, <1>4 DEF n

LEMMA LeftBehindFields ==
  ASSUME NEW t, Travels(t), NEW e
  PROVE  LET o == LeftBehind(t, e)
         IN  /\ Travels(o) /\ o.lost = TRUE
             /\ \E b \in BOOLEAN : o.new = Faulted(t.new, b)
<1>. DEFINE far == t.off + e.len <= t.pcache + WindowEnd(t.rcache) - t.rcache
            b   == t.new.fault \/ (t.pcache # -1 \/ far)
            o   == [t EXCEPT !.lost = TRUE, !.new.fault = b]
<1>1. LeftBehind(t, e) = o BY DEF LeftBehind
<1>2. b \in BOOLEAN OBVIOUS
<1>. HIDE DEF b
<1>3. DOMAIN t = {"new", "off", "rcache", "pcache", "lost"} BY DEF Travels
<1>4. /\ DOMAIN o = DOMAIN t /\ o = [k \in DOMAIN t |-> o[k]] /\ o.lost = TRUE
      /\ o.new = Faulted(t.new, b)
  BY <1>3 DEF Faulted
<1>. HIDE DEF o
<1>5. Travels(o) BY <1>3, <1>4 DEF Travels
<1>. QED BY <1>1, <1>2, <1>4, <1>5

(* What one entry does: nothing, it goes over, or it is an index and lost.   *)
LEMMA CopiedFields ==
  ASSUME NEW t, Travels(t), NEW e
  PROVE  LET o == Copied(t, e)
         IN  /\ Travels(o)
             /\ \/ ~ LiveEntry(e) /\ o.new = t.new /\ o.lost = t.lost
                \/ LiveEntry(e) /\ o.new = Added(t.new, e) /\ o.lost = t.lost
                \/ /\ e.kind = "index" /\ o.lost = TRUE
                   /\ \E b \in BOOLEAN : o.new = Faulted(t.new, b)
<1>. DEFINE here == [t EXCEPT !.rcache = Window(t, e)]
            next == IF e.kind \notin Names \cup Data THEN here
                    ELSE IF e.kind # "index" \/ Reached(here, e) THEN MovedOver(here, e)
                    ELSE LeftBehind(here, e)
            end  == next.off + e.len
            o    == [next EXCEPT !.off = end]
<1>1. Copied(t, e) = o BY DEF Copied
<1>2. Travels(here) /\ here.new = t.new /\ here.lost = t.lost BY TravelsWindow
<1>. HIDE DEF here
<1>3. /\ Travels(next)
      /\ \/ ~ LiveEntry(e) /\ next.new = t.new /\ next.lost = t.lost
         \/ LiveEntry(e) /\ next.new = Added(t.new, e) /\ next.lost = t.lost
         \/ /\ e.kind = "index" /\ next.lost = TRUE
            /\ \E b \in BOOLEAN : next.new = Faulted(t.new, b)
  <2>1. CASE ~ LiveEntry(e) BY <1>2, <2>1 DEF LiveEntry
  <2>2. CASE LiveEntry(e) /\ (e.kind # "index" \/ Reached(here, e))
    <3>1. next = MovedOver(here, e) BY <2>2 DEF LiveEntry
    <3>. HIDE DEF next
    <3>. QED BY <1>2, <2>2, <3>1, MovedOverFields
  <2>3. CASE LiveEntry(e) /\ e.kind = "index" /\ ~ Reached(here, e)
    <3>1. next = LeftBehind(here, e) BY <2>3 DEF LiveEntry
    <3>. HIDE DEF next
    <3>2. /\ Travels(next) /\ next.lost = TRUE
          /\ \E b \in BOOLEAN : next.new = Faulted(here.new, b)
      BY <1>2, <3>1, LeftBehindFields
    <3>. QED BY <1>2, <2>3, <3>2
  <2>. QED BY <2>1, <2>2, <2>3
<1>. HIDE DEF next, end
<1>4. Travels(o) /\ o.new = next.new /\ o.lost = next.lost BY <1>3, TravelsOff
<1>. HIDE DEF o
<1>. QED BY <1>1, <1>3, <1>4

LEMMA FaultOnly ==
  ASSUME NEW n, Fields(n), NEW b \in BOOLEAN
  PROVE  LET o == Faulted(n, b)
         IN  /\ Fields(o) /\ o.flash = n.flash /\ o.chain = n.chain /\ o.tailOff = n.tailOff
             /\ o.oldSpace = n.oldSpace /\ o.list = n.list /\ o.fault \in BOOLEAN
<1>. DEFINE o == Faulted(n, b)
<1>1. DOMAIN n = {"flash", "chain", "tailOff", "oldSpace", "list", "fault"} BY DEF Fields
<1>2. /\ o.flash = n.flash /\ o.chain = n.chain /\ o.tailOff = n.tailOff
      /\ o.oldSpace = n.oldSpace /\ o.list = n.list /\ o.fault = b
      /\ DOMAIN o = DOMAIN n /\ o = [k \in DOMAIN n |-> o[k]]
  BY <1>1 DEF Faulted
<1>. HIDE DEF o
<1>3. Fields(o) BY <1>1, <1>2 DEF Fields
<1>. QED BY <1>2, <1>3 DEF o

LEMMA NewChainMem ==
  ASSUME NEW m, Whole(m)
  PROVE  LET n == NewChain(m)
         IN  /\ Mem(n) /\ n.oldSpace = 0 /\ n.list = m.list
             /\ \A s, i : ~ Holds(n, s, i)
             /\ \A s \in ToSet(m.chain) :
                  s \in DOMAIN n.flash /\ s \notin ToSet(n.chain) /\ n.flash[s] = m.flash[s]
<1>. DEFINE c == m.chain[1]
            s == IF c % 2 = 1 THEN 2 ELSE 1
            x == [m EXCEPT !.chain = <<>>, !.oldSpace = 0]
            n == Opened(x, s)
<1>1. DOMAIN m = {"flash", "chain", "tailOff", "oldSpace", "list", "fault"} BY DEF Whole, Mem, Fields
<1>2. /\ x.flash = m.flash /\ x.chain = <<>> /\ x.oldSpace = 0 /\ x.list = m.list
      /\ x.tailOff = m.tailOff /\ x.fault = m.fault
      /\ DOMAIN x = DOMAIN m /\ x = [k \in DOMAIN m |-> x[k]]
  BY <1>1
<1>. HIDE DEF x
<1>3. Fields(x) BY <1>1, <1>2 DEF Fields
<1>4. c \in Sectors /\ c \in ToSet(m.chain) BY MemNewest DEF Whole
<1>5. s \in Sectors /\ s % 2 # c % 2 BY <1>4 DEF Sectors
<1>. HIDE DEF s
<1>6. s \notin DOMAIN m.flash BY <1>5 DEF Whole, Mem, Chained
<1>7. /\ Fields(n) /\ n.chain = <<s>> \o x.chain /\ n.oldSpace = x.oldSpace
      /\ n.list = x.list /\ n.tailOff = HeadLen /\ n.fault = x.fault
      /\ n.flash = [t \in DOMAIN x.flash \cup {s} |-> IF t = s THEN <<>> ELSE x.flash[t]]
  BY <1>3, OpenedFields
<1>8. NewChain(m) = n BY DEF NewChain, s, x
<1>9. Stored(n.flash)
  <2>1. Stored(x.flash) BY <1>2 DEF Whole, Mem
  <2>. HIDE DEF n
  <2>. QED BY <1>5, <1>7, <2>1, OpenedStored
<1>. HIDE DEF n
<1>10. /\ DOMAIN n.flash = DOMAIN m.flash \cup {s} /\ n.flash[s] = <<>>
       /\ \A t \in DOMAIN m.flash : n.flash[t] = m.flash[t]
  BY <1>2, <1>6, <1>7
<1>11. /\ n.chain \in Seq(Sectors) /\ n.chain # <<>> /\ n.chain[1] = s /\ IsInjective(n.chain)
       /\ ToSet(n.chain) = {s}
  <2>1. x.chain \in Seq(Sectors) /\ ToSet(x.chain) = {} /\ IsInjective(x.chain)
    BY <1>2 DEF ToSet, IsInjective
  <2>. QED BY <1>5, <1>7, <2>1, Consed
<1>12. \A t \in DOMAIN m.flash : t % 2 = c % 2 /\ t \in Sectors
  BY DEF Whole, Mem, Chained, Stored
<1>13. Chained(n.flash, n.chain)
  <2>1. \A t \in DOMAIN n.flash : t % 2 = s % 2 => t <= s
    BY <1>5, <1>10, <1>12 DEF Sectors
  <2>. QED BY <1>5, <1>10, <1>11, <2>1 DEF Chained
<1>14. Mem(n)
  <2>1. m.fault \in BOOLEAN BY DEF Whole, Mem, Tailed
  <2>2. Tailed(n) BY <1>2, <1>7, <1>10, <1>11, <2>1, OpenedTail
  <2>. QED BY <1>2, <1>7, <1>9, <1>13, <2>2 DEF Mem
<1>15. \A t, i : ~ Holds(n, t, i) BY <1>10, <1>11 DEF Holds
<1>16. \A t \in ToSet(m.chain) :
         t \in DOMAIN n.flash /\ t \notin ToSet(n.chain) /\ n.flash[t] = m.flash[t]
  BY <1>6, <1>10, <1>11 DEF Whole
<1>. QED BY <1>2, <1>7, <1>8, <1>14, <1>15, <1>16

LEMMA CopiesBegin ==
  ASSUME NEW m, Whole(m)
  PROVE  Traverses(m, Traversal(NewChain(m)), 1, 0)
<1>. DEFINE n == NewChain(m)
            t == Traversal(n)
<1>1. /\ Mem(n) /\ n.oldSpace = 0 /\ n.list = m.list /\ \A s, i : ~ Holds(n, s, i)
      /\ \A s \in ToSet(m.chain) :
           s \in DOMAIN n.flash /\ s \notin ToSet(n.chain) /\ n.flash[s] = m.flash[s]
  BY NewChainMem
<1>2. One(n) BY <1>1 DEF One
<1>3. \A a, b : ~ Passed(m, 1, 0, a, b)
  <2>. SUFFICES ASSUME NEW a, NEW b, Passed(m, 1, 0, a, b) PROVE FALSE OBVIOUS
  <2>1. a \in 1 .. Len(m.chain) /\ m.chain[a] \in DOMAIN m.flash
    BY DEF Passed, Whole, Mem, Chained, ToSet
  <2>2. m.flash[m.chain[a]] \in Seq(Entries) BY <2>1, MemNewest DEF Whole
  <2>3. b \in Nat \ {0} BY <2>2 DEF Passed
  <2>. QED BY <2>1, <2>3 DEF Passed
<1>. HIDE DEF n
<1>4. Copies(m, n, FALSE, 1, 0) BY <1>1, <1>2, <1>3 DEF Copies
<1>5. Travels(t) /\ t.new = n /\ t.lost = FALSE BY DEF Traversal, Travels
<1>. HIDE DEF t
<1>6. Traverses(m, t, 1, 0) BY <1>4, <1>5 DEF Traverses
<1>. QED BY <1>6 DEF n, t

LEMMA CopiesEntry ==
  ASSUME NEW m, Whole(m), One(m), NEW k \in DOMAIN m.chain,
         NEW i \in 1 .. Len(m.flash[m.chain[k]]), NEW t, Traverses(m, t, k, i - 1)
  PROVE  Traverses(m, Copied(t, EntryAt(m, k, i)), k, i)
<1>. DEFINE e == EntryAt(m, k, i)
            w == Copied(t, e)
            n == t.new
            o == w.new
<1>1. /\ m.chain[k] \in DOMAIN m.flash /\ m.chain[k] \in ToSet(m.chain)
      /\ m.flash[m.chain[k]] \in Seq(Entries) /\ k \in Nat
  <2>1. m.chain[k] \in DOMAIN m.flash /\ m.chain[k] \in ToSet(m.chain) /\ k \in Nat
    BY DEF Whole, Mem, Chained, ToSet
  <2>. QED BY <2>1, MemNewest DEF Whole
<1>2. e \in Entries /\ i \in DOMAIN m.flash[m.chain[k]] BY <1>1 DEF EntryAt
<1>3. ASSUME NEW a, NEW b
      PROVE  Passed(m, k, i, a, b) <=> Passed(m, k, i - 1, a, b) \/ (a = k /\ b = i)
  <2>1. ASSUME a \in DOMAIN m.chain, b \in DOMAIN m.flash[m.chain[a]]
        PROVE  a \in Nat /\ b \in Nat
    <3>1. m.chain[a] \in DOMAIN m.flash BY <2>1 DEF Whole, Mem, Chained, ToSet
    <3>2. m.flash[m.chain[a]] \in Seq(Entries) BY <3>1, MemNewest DEF Whole
    <3>. QED BY <2>1, <3>2 DEF Whole, Mem, Chained
  <2>2. i \in Nat OBVIOUS
  <2>. QED BY <1>1, <1>2, <2>1, <2>2 DEF Passed
<1>4. ~ Passed(m, k, i - 1, k, i) BY <1>1 DEF Passed
<1>. HIDE DEF e
<1>5. /\ Travels(w)
      /\ \/ ~ LiveEntry(e) /\ w.new = n /\ w.lost = t.lost
         \/ LiveEntry(e) /\ w.new = Added(n, e) /\ w.lost = t.lost
         \/ /\ e.kind = "index" /\ w.lost = TRUE
            /\ \E b \in BOOLEAN : w.new = Faulted(n, b)
  BY CopiedFields DEF Traverses
<1>6. Copies(m, n, t.lost, k, i - 1) BY DEF Traverses
<1>. HIDE DEF w, n
<1>. SUFFICES Copies(m, o, w.lost, k, i) BY <1>5 DEF Traverses, w, e
<1>7. CASE ~ LiveEntry(e) /\ o = n /\ w.lost = t.lost
  <2>. HIDE DEF o
  <2>1. \A a, b : Passed(m, k, i, a, b) /\ Saved(EntryAt(m, a, b), t.lost) =>
          Passed(m, k, i - 1, a, b)
    BY <1>3, <1>7 DEF Saved, e
  <2>2. Copies(m, n, t.lost, k, i) BY <1>3, <1>6, <2>1 DEF Copies
  <2>. QED BY <1>7, <2>2
<1>8. CASE e.kind = "index" /\ w.lost = TRUE /\ \E b \in BOOLEAN : o = Faulted(n, b)
  <2>1. PICK b \in BOOLEAN : o = Faulted(n, b) BY <1>8
  <2>2. Mem(n) /\ Fields(n) BY <1>6 DEF Copies, Mem
  <2>. HIDE DEF o
  <2>3. /\ Fields(o) /\ o.flash = n.flash /\ o.chain = n.chain /\ o.tailOff = n.tailOff
        /\ o.oldSpace = n.oldSpace /\ o.list = n.list /\ o.fault \in BOOLEAN
    BY <2>1, <2>2, FaultOnly
  <2>4. Mem(o) BY <2>2, <2>3 DEF Mem, Tailed
  <2>5. \A s, j : Holds(o, s, j) <=> Holds(n, s, j) BY <2>3 DEF Holds
  <2>6. One(o) BY <1>6, <2>3, <2>5 DEF One, Copies
  <2>7. ASSUME NEW a, NEW c, Passed(m, k, i, a, c), Saved(EntryAt(m, a, c), TRUE)
        PROVE  \E s, j : Holds(o, s, j) /\ o.flash[s][j] = EntryAt(m, a, c)
    <3>1. EntryAt(m, a, c).kind # "index" /\ LiveEntry(EntryAt(m, a, c)) BY <2>7 DEF Saved
    <3>2. Passed(m, k, i - 1, a, c) BY <1>3, <1>8, <2>7, <3>1 DEF e
    <3>3. Saved(EntryAt(m, a, c), t.lost) BY <3>1 DEF Saved
    <3>. QED BY <1>6, <2>3, <2>5, <3>2, <3>3 DEF Copies
  <2>8. \A s \in ToSet(m.chain) :
          s \in DOMAIN o.flash /\ s \notin ToSet(o.chain) /\ o.flash[s] = m.flash[s]
    BY <1>6, <2>3 DEF Copies
  <2>9. \A s, j : Holds(o, s, j) =>
           /\ LiveEntry(o.flash[s][j])
           /\ \E a, c : Passed(m, k, i, a, c) /\ EntryAt(m, a, c) = o.flash[s][j]
    BY <1>3, <1>6, <2>3, <2>5 DEF Copies
  <2>10. Copies(m, o, TRUE, k, i) BY <1>6, <2>3, <2>4, <2>6, <2>7, <2>8, <2>9 DEF Copies
  <2>. QED BY <1>8, <2>10
<1>9. CASE LiveEntry(e) /\ o = Added(n, e) /\ w.lost = t.lost
  <2>. DEFINE c == o.chain[1]
              z == Len(o.flash[c])
  <2>2. More(n, o, e) BY <1>2, <1>9, <1>6, AddedMem DEF Copies
  <2>. HIDE DEF o
  <2>3. /\ Mem(o) /\ o.oldSpace = 0 /\ o.list = m.list
        /\ Holds(o, c, z) /\ ~ Holds(n, c, z) /\ o.flash[c][z] = e
        /\ \A s, j : Holds(n, s, j) => Holds(o, s, j) /\ o.flash[s][j] = n.flash[s][j]
        /\ \A s, j : Holds(o, s, j) => Holds(n, s, j) \/ (s = c /\ j = z)
    BY <1>6, <2>2 DEF More, Copies
  <2>. HIDE DEF c, z
  <2>4. \A s \in ToSet(m.chain) :
          s \in DOMAIN o.flash /\ s \notin ToSet(o.chain) /\ o.flash[s] = m.flash[s]
    BY <1>6, <2>2 DEF More, Copies
  <2>5. ASSUME NEW s, NEW j, Holds(n, s, j), Rivals(n.flash[s][j], e)
        PROVE  FALSE
    <3>1. PICK a, b : Passed(m, k, i - 1, a, b) /\ EntryAt(m, a, b) = n.flash[s][j]
      BY <1>6, <2>5 DEF Copies
    <3>2. Holds(m, m.chain[a], b) /\ Holds(m, m.chain[k], i)
      BY <1>1, <1>2, <3>1 DEF Holds, Passed, ToSet
    <3>3. m.chain[a] = m.chain[k] /\ b = i BY <2>5, <3>1, <3>2 DEF One, EntryAt, e
    <3>4. a = k BY <3>1, <3>3 DEF Passed, Whole, Mem, Chained, IsInjective
    <3>. QED BY <1>4, <3>1, <3>3, <3>4
  <2>6. One(o)
    <3>. SUFFICES ASSUME NEW s, NEW j, NEW u, NEW l, Holds(o, s, j), Holds(o, u, l),
                         Rivals(o.flash[s][j], o.flash[u][l])
                  PROVE  s = u /\ j = l
      BY DEF One
    <3>1. Rivals(o.flash[u][l], o.flash[s][j]) BY DEF Rivals
    <3>2. CASE Holds(n, s, j) /\ Holds(n, u, l) BY <1>6, <2>3, <3>2 DEF Copies, One
    <3>3. CASE Holds(n, s, j) /\ u = c /\ l = z BY <2>3, <2>5, <3>3
    <3>4. CASE s = c /\ j = z /\ Holds(n, u, l) BY <2>3, <2>5, <3>1, <3>4
    <3>. QED BY <2>3, <3>2, <3>3, <3>4
  <2>7. ASSUME NEW s, NEW j, Holds(o, s, j)
        PROVE  /\ LiveEntry(o.flash[s][j])
               /\ \E a, b : Passed(m, k, i, a, b) /\ EntryAt(m, a, b) = o.flash[s][j]
    <3>1. CASE Holds(n, s, j) BY <1>3, <1>6, <2>3, <3>1 DEF Copies
    <3>2. CASE s = c /\ j = z
      <4>1. Passed(m, k, i, k, i) BY <1>3
      <4>. QED BY <1>9, <2>3, <3>2, <4>1 DEF e
    <3>. QED BY <2>3, <2>7, <3>1, <3>2
  <2>8. ASSUME NEW a, NEW b, Passed(m, k, i, a, b), Saved(EntryAt(m, a, b), t.lost)
        PROVE  \E s, j : Holds(o, s, j) /\ o.flash[s][j] = EntryAt(m, a, b)
    <3>1. CASE Passed(m, k, i - 1, a, b)
      <4>1. PICK s, j : Holds(n, s, j) /\ n.flash[s][j] = EntryAt(m, a, b)
        BY <1>6, <2>8, <3>1 DEF Copies
      <4>. QED BY <2>3, <4>1
    <3>2. CASE a = k /\ b = i BY <2>3, <3>2 DEF e
    <3>. QED BY <1>3, <2>8, <3>1, <3>2
  <2>9. Copies(m, o, t.lost, k, i) BY <2>3, <2>4, <2>6, <2>7, <2>8 DEF Copies
  <2>. QED BY <1>9, <2>9
<1>. QED BY <1>7, <1>9, <1>5, <1>8

LEMMA CopiesSector ==
  ASSUME NEW m, Whole(m), One(m), NEW k \in DOMAIN m.chain, NEW t, Traverses(m, t, k, 0)
  PROVE  Traverses(m, CopiedSector(t, m.chain[k]), k + 1, 0)
<1>. DEFINE c == m.chain[k]
            q == m.flash[c]
            n == [t EXCEPT !.off = HeadLen, !.rcache = 0]
            o == CopiedSector(t, c)
<1>0. Travels(t) /\ Copies(m, t.new, t.lost, k, 0) BY DEF Traverses
<1>1. /\ c \in DOMAIN m.flash /\ c \in ToSet(m.chain) /\ k \in Nat
      /\ t.new.flash[c] = q /\ q \in Seq(Entries)
  <2>1. c \in DOMAIN m.flash /\ c \in ToSet(m.chain) /\ k \in Nat
    BY DEF Whole, Mem, Chained, ToSet
  <2>. QED BY <1>0, <2>1, MemNewest DEF Whole, Copies
<1>2. PICK new : /\ new[0] = n /\ CopiedThrough(n, q) = new[Len(q)]
                 /\ \A i \in 1 .. Len(q) : new[i] = Copied(new[i - 1], q[i])
  BY <1>1, CopiedFold
<1>3. o = new[Len(q)]
  <2>1. o = CopiedThrough(n, t.new.flash[c]) BY DEF CopiedSector, CopiedThrough
  <2>. HIDE DEF o, n
  <2>. QED BY <1>1, <1>2, <2>1
<1>. DEFINE T == {i \in Nat : i <= Len(q) => Traverses(m, new[i], k, i)}
<1>. HIDE DEF o
<1>4. 0 \in T
  <2>. DEFINE r == [t EXCEPT !.off = HeadLen]
  <2>1. Travels(n) /\ n.new = t.new /\ n.lost = t.lost
    <3>1. Travels(r) /\ r.new = t.new /\ r.lost = t.lost BY <1>0, TravelsOff
    <3>2. n = [r EXCEPT !.rcache = 0] OBVIOUS
    <3>. HIDE DEF r, n
    <3>. QED BY <3>1, <3>2, TravelsWindow
  <2>. HIDE DEF n
  <2>. QED BY <1>0, <1>2, <2>1 DEF Traverses
<1>. HIDE DEF n
<1>5. ASSUME NEW i \in Nat, i \in T PROVE i + 1 \in T
  <2>. SUFFICES ASSUME i + 1 <= Len(q) PROVE Traverses(m, new[i + 1], k, i + 1) OBVIOUS
  <2>1. i + 1 \in 1 .. Len(q) /\ (i + 1) - 1 = i /\ i <= Len(q) BY <1>1
  <2>2. Traverses(m, new[i], k, (i + 1) - 1) BY <1>5, <2>1
  <2>3. new[i + 1] = Copied(new[i], EntryAt(m, k, i + 1)) BY <1>2, <2>1 DEF EntryAt
  <2>. QED BY <2>1, <2>2, <2>3, CopiesEntry
<1>. HIDE DEF T
<1>6. Nat \subseteq T BY <1>4, <1>5, Induct
<1>7. Traverses(m, o, k, Len(q)) BY <1>1, <1>3, <1>6 DEF T
<1>8. ASSUME NEW a, NEW b
      PROVE  Passed(m, k, Len(q), a, b) <=> Passed(m, k + 1, 0, a, b)
  <2>1. ASSUME a \in DOMAIN m.chain, b \in DOMAIN m.flash[m.chain[a]]
        PROVE  a \in Nat /\ b \in Nat \ {0} /\ (a = k => b <= Len(q))
    <3>1. m.chain[a] \in DOMAIN m.flash BY <2>1 DEF Whole, Mem, Chained, ToSet
    <3>2. m.flash[m.chain[a]] \in Seq(Entries) BY <3>1, MemNewest DEF Whole
    <3>. QED BY <2>1, <3>2 DEF Whole, Mem, Chained
  <2>2. Len(q) \in Nat BY <1>1
  <2>. QED BY <1>1, <2>1, <2>2 DEF Passed
<1>9. Traverses(m, o, k + 1, 0) BY <1>7, <1>8 DEF Traverses, Copies
<1>. QED BY <1>9 DEF o

LEMMA CopiesAll ==
  ASSUME NEW m, Whole(m), One(m)
  PROVE  Traverses(m, Moved(m), Len(m.chain) + 1, 0)
<1>. DEFINE top   == Len(m.chain)
            begin == Traversal(NewChain(m))
<1>0. m.chain \in Seq(Sectors) /\ top \in Nat /\ DOMAIN m.chain = 1 .. top
  BY DEF Whole, Mem, Chained
<1>1. PICK new : /\ new[0] = begin
                 /\ CopiedChain(begin, m.chain) = new[top]
                 /\ \A i \in 1 .. top : new[i] = CopiedSector(new[i - 1], m.chain[i])
  BY <1>0, SectorsFold
<1>2. Moved(m) = new[top]
  <2>1. Moved(m) = CopiedChain(begin, m.chain) BY DEF Moved, CopiedChain
  <2>. QED BY <1>1, <2>1
<1>. DEFINE T == {i \in Nat : i <= top => Traverses(m, new[i], i + 1, 0)}
<1>3. 0 \in T BY <1>1, CopiesBegin
<1>4. ASSUME NEW i \in Nat, i \in T PROVE i + 1 \in T
  <2>. SUFFICES ASSUME i + 1 <= top PROVE Traverses(m, new[i + 1], (i + 1) + 1, 0) OBVIOUS
  <2>1. i + 1 \in DOMAIN m.chain /\ (i + 1) - 1 = i /\ i <= top BY <1>0
  <2>2. Traverses(m, new[i], i + 1, 0) BY <1>4, <2>1
  <2>3. new[i + 1] = CopiedSector(new[i], m.chain[i + 1]) BY <1>0, <1>1, <2>1
  <2>. QED BY <2>1, <2>2, <2>3, CopiesSector
<1>. HIDE DEF T
<1>5. Nat \subseteq T BY <1>3, <1>4, Induct
<1>. QED BY <1>0, <1>2, <1>5 DEF T

(* What is live in m is in n, but for indexes that were lost, and nothing    *)
(* else.                                                                    *)
SameLive(m, n, lost) ==
  /\ \A s, i : Holds(n, s, i) =>
       /\ LiveEntry(n.flash[s][i])
       /\ \E t, j : Holds(m, t, j) /\ m.flash[t][j] = n.flash[s][i]
  /\ \A t, j : Holds(m, t, j) /\ Saved(m.flash[t][j], lost) =>
       \E s, i : Holds(n, s, i) /\ n.flash[s][i] = m.flash[t][j]

LEMMA RestrictedFields ==
  ASSUME NEW m, Fields(m), NEW S
  PROVE  LET n == [m EXCEPT !.flash = Restrict(@, S)]
         IN  /\ Fields(n) /\ n.chain = m.chain /\ n.oldSpace = m.oldSpace /\ n.list = m.list
             /\ n.flash = [s \in S |-> m.flash[s]]
             /\ n.tailOff = m.tailOff /\ n.fault = m.fault
<1>. DEFINE n == [m EXCEPT !.flash = Restrict(@, S)]
<1>1. DOMAIN m = {"flash", "chain", "tailOff", "oldSpace", "list", "fault"} BY DEF Fields
<1>2. /\ n.flash = Restrict(m.flash, S) /\ n.tailOff = m.tailOff /\ n.fault = m.fault
      /\ n.chain = m.chain /\ n.oldSpace = m.oldSpace /\ n.list = m.list
      /\ DOMAIN n = DOMAIN m /\ n = [k \in DOMAIN m |-> n[k]]
  BY <1>1
<1>. HIDE DEF n
<1>3. Fields(n) BY <1>1, <1>2 DEF Fields
<1>4. n.flash = [s \in S |-> m.flash[s]] BY <1>2 DEF Restrict
<1>. QED BY <1>2, <1>3, <1>4 DEF n

(* dir_gc of a directory none of whose files is open keeps nothing twice and *)
(* leaves no old space, and loses nothing but the indexes that the traversal *)
(* leaves behind.                                                           *)
LEMMA CollectedMem ==
  ASSUME NEW m, Whole(m), One(m), m.list = <<>>
  PROVE  LET n == Collected(m)
         IN  /\ Whole(n) /\ One(n) /\ n.oldSpace = 0 /\ n.list = <<>>
             /\ SameLive(m, n, Moved(m).lost)
<1>. DEFINE o == Moved(m).new
            lost == Moved(m).lost
            k == Len(m.chain) + 1
            n == [o EXCEPT !.flash = Restrict(@, ToSet(o.chain))]
<1>1. Copies(m, o, lost, k, 0) BY CopiesAll DEF Traverses
<1>2. Collected(m) = n
  <2>1. Cleared(m) = m BY UndoneEmpty DEF Cleared
  <2>2. DOMAIN [j \in DOMAIN m.list |-> j] = {} OBVIOUS
  <2>3. FoldLeft(Reprogrammed, o, [j \in DOMAIN m.list |-> j]) = o BY <2>2, ReprogrammedEmpty
  <2>. HIDE DEF n
  <2>. QED BY <2>1, <2>3 DEF Collected, n
<1>. HIDE DEF o, lost
<1>3. /\ Fields(n) /\ n.chain = o.chain /\ n.oldSpace = o.oldSpace /\ n.list = o.list
      /\ n.flash = [s \in ToSet(o.chain) |-> o.flash[s]]
      /\ n.tailOff = o.tailOff /\ n.fault = o.fault
  BY <1>1, RestrictedFields DEF Copies, Mem
<1>. HIDE DEF n
<1>4. Mem(o) /\ One(o) /\ o.oldSpace = 0 /\ o.list = <<>> BY <1>1 DEF Copies
<1>5. /\ DOMAIN n.flash = ToSet(n.chain) /\ ToSet(n.chain) \subseteq DOMAIN o.flash
      /\ \A s \in ToSet(n.chain) : n.flash[s] = o.flash[s]
  BY <1>3, <1>4 DEF Mem, Chained
<1>6. Stored(n.flash)
  <2>1. n.flash \in [DOMAIN n.flash -> Seq(Entries)]
    <3>1. \A s \in ToSet(n.chain) : o.flash[s] \in Seq(Entries) BY <1>4, <1>5, MemNewest
    <3>. QED BY <1>3, <1>5, <3>1
  <2>. QED BY <1>4, <1>5, <2>1 DEF Mem, Stored
<1>7. Mem(n)
  <2>1. o.chain[1] \in ToSet(n.chain) BY <1>3, <1>4, MemNewest
  <2>2. Tailed(n) BY <1>3, <1>4, <1>5, <2>1 DEF Mem, Tailed
  <2>. QED BY <1>3, <1>4, <1>5, <1>6, <2>2 DEF Mem, Chained
<1>8. Whole(n) BY <1>5, <1>7 DEF Whole
<1>9. \A s, i : (Holds(n, s, i) <=> Holds(o, s, i)) /\ (Holds(n, s, i) => n.flash[s] = o.flash[s])
  BY <1>3, <1>5 DEF Holds
<1>10. One(n) BY <1>4, <1>9 DEF One
<1>11. ASSUME NEW a, NEW b, Passed(m, k, 0, a, b)
       PROVE  Holds(m, m.chain[a], b)
  BY <1>11 DEF Passed, Holds, ToSet
<1>12. ASSUME NEW t, NEW j, Holds(m, t, j)
       PROVE  \E a : Passed(m, k, 0, a, j) /\ t = m.chain[a]
  <2>1. PICK a \in DOMAIN m.chain : t = m.chain[a] BY <1>12 DEF Holds, ToSet
  <2>2. a < k BY DEF Whole, Mem, Chained
  <2>. QED BY <1>12, <2>1, <2>2 DEF Passed, Holds
<1>13. SameLive(m, n, lost)
  <2>1. ASSUME NEW s, NEW i, Holds(n, s, i)
        PROVE  /\ LiveEntry(n.flash[s][i])
               /\ \E t, j : Holds(m, t, j) /\ m.flash[t][j] = n.flash[s][i]
    <3>1. Holds(o, s, i) /\ n.flash[s][i] = o.flash[s][i] BY <1>9, <2>1
    <3>2. PICK a, b : Passed(m, k, 0, a, b) /\ EntryAt(m, a, b) = o.flash[s][i]
      BY <1>1, <3>1 DEF Copies
    <3>3. LiveEntry(o.flash[s][i]) BY <1>1, <3>1 DEF Copies
    <3>. QED BY <1>11, <3>1, <3>2, <3>3 DEF EntryAt
  <2>2. ASSUME NEW t, NEW j, Holds(m, t, j), Saved(m.flash[t][j], lost)
        PROVE  \E s, i : Holds(n, s, i) /\ n.flash[s][i] = m.flash[t][j]
    <3>1. PICK a : Passed(m, k, 0, a, j) /\ t = m.chain[a] BY <1>12, <2>2
    <3>2. PICK s, i : Holds(o, s, i) /\ o.flash[s][i] = EntryAt(m, a, j)
      BY <1>1, <2>2, <3>1 DEF Copies, EntryAt
    <3>. QED BY <1>9, <3>1, <3>2 DEF EntryAt
  <2>. QED BY <2>1, <2>2 DEF SameLive
<1>. QED BY <1>2, <1>3, <1>4, <1>8, <1>10, <1>13 DEF n, lost

-----------------------------------------------------------------------------
(* Open files, old space, and what a directory says of its files.           *)
Pos == (Sectors \cup {Null}) \X Nat

OpenFiles ==
  [id : Files, name : Pos, data : Pos, ver : Nat, size : Nat, len : Nat,
   big : BOOLEAN, dirty : BOOLEAN]

Cell(m, p) == m.flash[p[1]][p[2]]

HandleOK(m, h) ==
  /\ Holds(m, h.name[1], h.name[2]) /\ Cell(m, h.name).kind = "name"
  /\ Cell(m, h.name).id = h.id
  /\ h.data = NoPos \/ /\ Holds(m, h.data[1], h.data[2])
                       /\ \/ Cell(m, h.data).kind = "deleted"
                          \/ /\ Cell(m, h.data).kind \in Data /\ Cell(m, h.data).id = h.id
                             /\ Cell(m, h.data).len = h.len
  /\ \A s, i : Holds(m, s, i) /\ m.flash[s][i].kind \in Data /\ m.flash[s][i].id = h.id =>
       h.data = <<s, i>>
  /\ h.dirty => h.ver \in {1, 2} /\ h.size \in SmallLens \cup {IndexLen}
  /\ ~ h.dirty /\ h.ver # 0 =>
       \E s, i : Holds(m, s, i) /\ m.flash[s][i].kind \in Data /\ m.flash[s][i].id = h.id

Handles(m) ==
  /\ m.list \in Seq(OpenFiles) /\ Len(m.list) <= ListMax
  /\ \A j, k \in DOMAIN m.list : m.list[j].id = m.list[k].id => j = k
  /\ \A k \in DOMAIN m.list : HandleOK(m, m.list[k])

Dead(m) ==
  {q \in ToSet(m.chain) \X Nat : Holds(m, q[1], q[2]) /\ Cell(m, q).kind = "deleted"}

DeadLen(m) == LengthOf([q \in Dead(m) |-> Cell(m, q)])

NamedIn(m, f) == \E s, i : Holds(m, s, i) /\ m.flash[s][i].kind = "name" /\ m.flash[s][i].id = f

DataIn(m, f, v) ==
  \E s, i : /\ Holds(m, s, i) /\ m.flash[s][i].kind \in Data /\ m.flash[s][i].id = f
            /\ m.flash[s][i].val = v

Sound(m) ==
  /\ Whole(m) /\ One(m) /\ IsFiniteSet(Dead(m))
  /\ \A f, v : DataIn(m, f, v) => NamedIn(m, f)

LEMMA HoldsFacts ==
  ASSUME NEW m, Mem(m), NEW s, NEW i, Holds(m, s, i)
  PROVE  /\ s \in Sectors /\ s # Null /\ i \in Nat /\ s \in DOMAIN m.flash
         /\ <<s, i>> \in Pos /\ m.flash[s][i] \in Entries
<1>1. s \in DOMAIN m.flash BY DEF Holds, Mem, Chained
<1>2. m.flash[s] \in Seq(Entries) /\ s \in Sectors BY <1>1, MemNewest
<1>3. i \in Nat /\ m.flash[s][i] \in Entries BY <1>2 DEF Holds
<1>. QED BY <1>1, <1>2, <1>3, NullAssumption DEF Pos

LEMMA Kinds ==
  /\ "name" \in Names /\ "name" \notin Data /\ "deleted" \notin Names \cup Data
  /\ "ospace" \notin Names \cup Data /\ "ospace" # "deleted"
  /\ \A k \in Names : k = "name"
BY DEF Names, Data

LEMMA DeadFacts ==
  ASSUME NEW m, Mem(m), IsFiniteSet(Dead(m))
  PROVE  Measured([q \in Dead(m) |-> Cell(m, q)]) /\ DeadLen(m) \in Nat
<1>. DEFINE g == [q \in Dead(m) |-> Cell(m, q)]
<1>1. ASSUME NEW q \in Dead(m) PROVE g[q].len \in Nat
  <2>1. m.flash[q[1]][q[2]] \in Entries BY HoldsFacts DEF Dead
  <2>. QED BY <2>1, SizesFacts DEF Cell, Entries
<1>2. Measured(g) BY <1>1 DEF Measured
<1>. QED BY <1>2, LengthNat DEF DeadLen

LEMMA DeadSame ==
  ASSUME NEW m, NEW n, Dead(n) = Dead(m), Mem(m), IsFiniteSet(Dead(m)),
         \A q \in Dead(m) : Cell(n, q).len = Cell(m, q).len
  PROVE  DeadLen(n) = DeadLen(m)
<1>. DEFINE g == [q \in Dead(m) |-> Cell(m, q)]
            h == [q \in Dead(n) |-> Cell(n, q)]
<1>1. Measured(g) BY DeadFacts
<1>2. DOMAIN h = DOMAIN g /\ \A q \in DOMAIN g : h[q].len = g[q].len OBVIOUS
<1>. HIDE DEF g, h
<1>3. LengthOf(h) = LengthOf(g) BY <1>1, <1>2, LengthSame
<1>. QED BY <1>3 DEF DeadLen, g, h

LEMMA DeadEmpty ==
  ASSUME NEW m, Dead(m) = {}
  PROVE  IsFiniteSet(Dead(m)) /\ DeadLen(m) = 0
<1>. DEFINE g == [q \in Dead(m) |-> Cell(m, q)]
<1>1. DOMAIN g = {} OBVIOUS
<1>. HIDE DEF g
<1>2. LengthOf(g) = 0 BY <1>1, LengthEmpty
<1>. QED BY <1>2, FS_EmptySet DEF DeadLen, g

LEMMA MoreDead ==
  ASSUME NEW m, NEW n, NEW e, Mem(m), More(m, n, e), e.kind # "deleted", IsFiniteSet(Dead(m))
  PROVE  IsFiniteSet(Dead(n)) /\ DeadLen(n) = DeadLen(m)
<1>1. ASSUME NEW q \in Dead(n) PROVE q \in Dead(m)
  <2>1. q = <<q[1], q[2]>> /\ q[2] \in Nat /\ Holds(n, q[1], q[2])
        /\ n.flash[q[1]][q[2]].kind = "deleted"
    BY DEF Dead, Cell
  <2>2. Holds(m, q[1], q[2]) BY <2>1 DEF More
  <2>3. q[1] \in ToSet(m.chain) /\ n.flash[q[1]][q[2]] = m.flash[q[1]][q[2]]
    BY <2>2 DEF Holds, More
  <2>. QED BY <2>1, <2>2, <2>3 DEF Dead, Cell
<1>2. ASSUME NEW q \in Dead(m) PROVE q \in Dead(n) /\ Cell(n, q) = Cell(m, q)
  <2>1. q = <<q[1], q[2]>> /\ q[2] \in Nat /\ Holds(m, q[1], q[2])
        /\ m.flash[q[1]][q[2]].kind = "deleted"
    BY DEF Dead, Cell
  <2>2. Holds(n, q[1], q[2]) /\ n.flash[q[1]][q[2]] = m.flash[q[1]][q[2]] BY <2>1 DEF More
  <2>. QED BY <2>1, <2>2 DEF Dead, Cell, Holds
<1>3. Dead(n) = Dead(m) BY <1>1, <1>2
<1>. QED BY <1>2, <1>3, DeadSame

LEMMA LessDead ==
  ASSUME NEW m, NEW n, NEW s, NEW i, Mem(m), Less(m, n, s, i), Holds(m, s, i),
         IsFiniteSet(Dead(m))
  PROVE  /\ IsFiniteSet(Dead(n))
         /\ m.flash[s][i].kind = "deleted" => DeadLen(n) = DeadLen(m)
         /\ m.flash[s][i].kind # "deleted" => DeadLen(n) = DeadLen(m) + m.flash[s][i].len
<1>. DEFINE p == <<s, i>>
            len == m.flash[s][i].len
<1>0. /\ p \in ToSet(m.chain) \X Nat /\ n.flash[s][i] = Tombstone(len) /\ len \in Nat
      /\ Tombstone(len).kind = "deleted" /\ Tombstone(len).len = len
  <2>1. i \in Nat /\ m.flash[s][i] \in Entries /\ s \in ToSet(m.chain) BY HoldsFacts DEF Holds
  <2>. QED BY <2>1, NullEntry, SizesFacts DEF Less, Entries
<1>1. \A q \in ToSet(m.chain) \X Nat :
        (Holds(n, q[1], q[2]) <=> Holds(m, q[1], q[2]))
        /\ (Holds(m, q[1], q[2]) /\ q # p => Cell(n, q) = Cell(m, q))
  BY DEF Less, Cell
<1>2. Cell(n, p) = Tombstone(len) /\ Holds(n, p[1], p[2]) BY <1>0 DEF Cell, Less
<1>3. n.chain = m.chain BY DEF Less
<1>4. Dead(n) = Dead(m) \cup {p} BY <1>0, <1>1, <1>2, <1>3 DEF Dead
<1>5. IsFiniteSet(Dead(n)) BY <1>4, FS_AddElement
<1>6. \A q \in Dead(m) : q # p => Cell(n, q) = Cell(m, q) BY <1>1 DEF Dead
<1>7. CASE m.flash[s][i].kind = "deleted"
  <2>1. p \in Dead(m) BY <1>0, <1>7 DEF Dead, Cell
  <2>2. Cell(m, p).len = len BY DEF Cell
  <2>3. Dead(n) = Dead(m) /\ \A q \in Dead(m) : Cell(n, q).len = Cell(m, q).len
    BY <1>0, <1>2, <1>4, <1>6, <2>1, <2>2
  <2>. QED BY <1>5, <1>7, <2>3, DeadSame
<1>8. CASE m.flash[s][i].kind # "deleted"
  <2>. DEFINE g == [q \in Dead(m) |-> Cell(m, q)]
              h == [q \in Dead(n) |-> Cell(n, q)]
  <2>1. p \notin Dead(m) BY <1>8 DEF Dead, Cell
  <2>2. Measured(g) BY DeadFacts
  <2>3. /\ DOMAIN g = Dead(m) /\ DOMAIN h = Dead(m) \cup {p} /\ h[p].len = len
        /\ \A q \in Dead(m) : h[q].len = g[q].len
    BY <1>0, <1>2, <1>4, <1>6, <2>1
  <2>. HIDE DEF g, h, p
  <2>4. LengthOf(h) = LengthOf(g) + h[p].len BY <1>0, <2>1, <2>2, <2>3, LengthMore
  <2>5. DeadLen(n) = DeadLen(m) + len BY <2>3, <2>4 DEF DeadLen, g, h
  <2>. QED BY <1>5, <1>8, <2>5
<1>. QED BY <1>7, <1>8

-----------------------------------------------------------------------------
(* Programming an entry.                                                    *)
NoRival(m, e) == \A s, i : Holds(m, s, i) => ~ Rivals(m.flash[s][i], e)

(* What the directory says in n is what it says in m, and e. *)
SaysMore(m, n, e) ==
  /\ \A f : NamedIn(n, f) <=> NamedIn(m, f) \/ (e.kind = "name" /\ e.id = f)
  /\ \A f, v : DataIn(n, f, v) <=> DataIn(m, f, v) \/ (e.kind \in Data /\ e.id = f /\ e.val = v)

Says(m, n) ==
  /\ \A f : NamedIn(n, f) <=> NamedIn(m, f)
  /\ \A f, v : DataIn(n, f, v) <=> DataIn(m, f, v)

(* The same, when data may be missing in n. *)
SaysAtMost(m, n, e) ==
  /\ \A f : NamedIn(n, f) <=> NamedIn(m, f) \/ (e.kind = "name" /\ e.id = f)
  /\ \A f, v : DataIn(n, f, v) => DataIn(m, f, v) \/ (e.kind \in Data /\ e.id = f /\ e.val = v)

SaysNoMore(m, n) ==
  /\ \A f : NamedIn(n, f) <=> NamedIn(m, f)
  /\ \A f, v : DataIn(n, f, v) => DataIn(m, f, v)

(* A program of len leaves no index behind. *)
Moves(m, len) == NeedsGc(m, len) => ~ Moved(m).lost

LEMMA MoreSays ==
  ASSUME NEW m, NEW n, NEW e, More(m, n, e)
  PROVE  SaysMore(m, n, e)
<1>. DEFINE c == n.chain[1]
            z == Len(n.flash[c])
<1>1. Holds(n, c, z) /\ n.flash[c][z] = e BY DEF More
<1>2. \A s, i : Holds(m, s, i) => Holds(n, s, i) /\ n.flash[s][i] = m.flash[s][i] BY DEF More
<1>3. \A s, i : Holds(n, s, i) => Holds(m, s, i) \/ (s = c /\ i = z) BY DEF More
<1>. HIDE DEF c, z
<1>4. \A f : NamedIn(n, f) <=> NamedIn(m, f) \/ (e.kind = "name" /\ e.id = f)
  BY <1>1, <1>2, <1>3 DEF NamedIn
<1>5. \A f, v : DataIn(n, f, v) <=> DataIn(m, f, v) \/ (e.kind \in Data /\ e.id = f /\ e.val = v)
  BY <1>1, <1>2, <1>3 DEF DataIn
<1>. QED BY <1>4, <1>5 DEF SaysMore

LEMMA RivalsBack == \A d, e : Rivals(d, e) <=> Rivals(e, d)
BY DEF Rivals

LEMMA MoreOne ==
  ASSUME NEW m, NEW n, NEW e, More(m, n, e), One(m), NoRival(m, e)
  PROVE  One(n)
<1>. DEFINE c == n.chain[1]
            z == Len(n.flash[c])
<1>1. Holds(n, c, z) /\ n.flash[c][z] = e BY DEF More
<1>2. \A s, i : Holds(m, s, i) => Holds(n, s, i) /\ n.flash[s][i] = m.flash[s][i] BY DEF More
<1>3. \A s, i : Holds(n, s, i) => Holds(m, s, i) \/ (s = c /\ i = z) BY DEF More
<1>. HIDE DEF c, z
<1>4. SUFFICES ASSUME NEW s, NEW i, NEW t, NEW j, Holds(n, s, i), Holds(n, t, j),
                      Rivals(n.flash[s][i], n.flash[t][j])
               PROVE  s = t /\ i = j
  BY DEF One
<1>5. CASE Holds(m, s, i) /\ Holds(m, t, j) BY <1>2, <1>4, <1>5 DEF One
<1>6. CASE Holds(m, s, i) /\ ~ Holds(m, t, j)
  BY <1>1, <1>2, <1>3, <1>4, <1>6 DEF NoRival
<1>7. CASE ~ Holds(m, s, i) /\ Holds(m, t, j)
  BY <1>1, <1>2, <1>3, <1>4, <1>7, RivalsBack DEF NoRival
<1>8. CASE ~ Holds(m, s, i) /\ ~ Holds(m, t, j) BY <1>3, <1>4, <1>8
<1>. QED BY <1>5, <1>6, <1>7, <1>8

LEMMA MoreWhole ==
  ASSUME NEW m, NEW n, NEW e, Whole(m), More(m, n, e)
  PROVE  Whole(n)
<1>1. Mem(n) /\ DOMAIN m.flash \subseteq DOMAIN n.flash
      /\ DOMAIN n.flash \ DOMAIN m.flash \subseteq ToSet(n.chain)
      /\ ToSet(m.chain) \subseteq ToSet(n.chain)
  BY DEF More
<1>2. ToSet(n.chain) \subseteq DOMAIN n.flash BY <1>1 DEF Mem, Chained
<1>. QED BY <1>1, <1>2 DEF Whole

LEMMA AddedSound ==
  ASSUME NEW m, Sound(m), NEW e \in Entries, e.kind # "deleted", NoRival(m, e),
         e.kind \in Data => NamedIn(m, e.id)
  PROVE  LET n == Added(m, e)
         IN  More(m, n, e) /\ Sound(n) /\ DeadLen(n) = DeadLen(m) /\ SaysMore(m, n, e)
<1>. DEFINE n == Added(m, e)
<1>1. More(m, n, e) BY AddedMem DEF Sound, Whole
<1>. HIDE DEF n
<1>2. IsFiniteSet(Dead(n)) /\ DeadLen(n) = DeadLen(m) BY <1>1, MoreDead DEF Sound, Whole
<1>3. SaysMore(m, n, e) BY <1>1, MoreSays
<1>4. One(n) /\ Whole(n) BY <1>1, MoreOne, MoreWhole DEF Sound
<1>5. \A f, v : DataIn(n, f, v) => NamedIn(n, f)
  <2>. TAKE f, v
  <2>1. \A w : DataIn(m, f, w) => NamedIn(m, f) BY DEF Sound
  <2>. QED BY <1>3, <2>1 DEF SaysMore
<1>6. Sound(n) BY <1>2, <1>4, <1>5 DEF Sound
<1>. QED BY <1>1, <1>2, <1>3, <1>6 DEF n

LEMMA SameLiveSays ==
  ASSUME NEW m, NEW n, NEW lost \in BOOLEAN, SameLive(m, n, lost)
  PROVE  SaysNoMore(m, n) /\ (~ lost => Says(m, n))
<1>1. \A s, i : Holds(n, s, i) => \E t, j : Holds(m, t, j) /\ m.flash[t][j] = n.flash[s][i]
  BY DEF SameLive
<1>2. \A t, j : Holds(m, t, j) /\ Saved(m.flash[t][j], lost) =>
        \E s, i : Holds(n, s, i) /\ n.flash[s][i] = m.flash[t][j]
  BY DEF SameLive
<1>3. ASSUME NEW f PROVE NamedIn(n, f) <=> NamedIn(m, f)
  <2>1. \A t, j : m.flash[t][j].kind = "name" => Saved(m.flash[t][j], lost)
    BY Kinds DEF LiveEntry, Saved
  <2>. QED BY <1>1, <1>2, <2>1 DEF NamedIn
<1>4. ASSUME NEW f, NEW v PROVE DataIn(n, f, v) => DataIn(m, f, v)
  BY <1>1 DEF DataIn
<1>5. ASSUME ~ lost, NEW f, NEW v PROVE DataIn(m, f, v) => DataIn(n, f, v)
  <2>1. \A t, j : m.flash[t][j].kind \in Data => Saved(m.flash[t][j], lost)
    BY <1>5 DEF LiveEntry, Saved
  <2>. QED BY <1>2, <2>1 DEF DataIn
<1>. QED BY <1>3, <1>4, <1>5 DEF Says, SaysNoMore

LEMMA CollectedSound ==
  ASSUME NEW m, Sound(m), m.list = <<>>
  PROVE  LET n == Collected(m)
         IN  /\ Sound(n) /\ n.oldSpace = 0 /\ n.list = <<>> /\ DeadLen(n) = 0
             /\ SaysNoMore(m, n) /\ (~ Moved(m).lost => Says(m, n))
             /\ \A e : NoRival(m, e) => NoRival(n, e)
<1>. DEFINE n == Collected(m)
            lost == Moved(m).lost
<1>0. lost \in BOOLEAN BY CopiesAll DEF Traverses, Travels, Sound
<1>1. Whole(n) /\ One(n) /\ n.oldSpace = 0 /\ n.list = <<>> /\ SameLive(m, n, lost)
  BY CollectedMem DEF Sound
<1>. HIDE DEF n, lost
<1>2. SaysNoMore(m, n) /\ (~ lost => Says(m, n)) BY <1>0, <1>1, SameLiveSays
<1>3. Dead(n) = {}
  <2>1. \A s, i : Holds(n, s, i) => LiveEntry(n.flash[s][i]) BY <1>1 DEF SameLive
  <2>. QED BY <2>1, Kinds DEF Dead, Cell, LiveEntry
<1>4. IsFiniteSet(Dead(n)) /\ DeadLen(n) = 0 BY <1>3, DeadEmpty
<1>5. \A f, v : DataIn(n, f, v) => NamedIn(n, f)
  <2>. TAKE f, v
  <2>1. DataIn(m, f, v) => NamedIn(m, f) BY DEF Sound
  <2>. QED BY <1>2, <2>1 DEF SaysNoMore
<1>6. \A e : NoRival(m, e) => NoRival(n, e)
  <2>1. \A s, i : Holds(n, s, i) => \E t, j : Holds(m, t, j) /\ m.flash[t][j] = n.flash[s][i]
    BY <1>1 DEF SameLive
  <2>. QED BY <2>1 DEF NoRival
<1>7. Sound(n) BY <1>1, <1>4, <1>5 DEF Sound
<1>. QED BY <1>1, <1>2, <1>4, <1>6, <1>7 DEF n, lost

LEMMA SoundNat ==
  ASSUME NEW m, Sound(m)
  PROVE  Mem(m) /\ DeadLen(m) \in Nat /\ m.oldSpace \in Nat
BY DeadFacts DEF Sound, Whole, Mem

(* dir_prog, where no file is open if it comes to a GC. *)
LEMMA ProgrammedSound ==
  ASSUME NEW m, Sound(m), NEW e \in Entries, e.kind # "deleted", NoRival(m, e),
         e.kind \in Data => NamedIn(m, e.id), NeedsGc(m, e.len) => m.list = <<>>
  PROVE  LET n == Programmed(m, e)
             p == LastPos(n)
         IN  /\ Sound(n) /\ n.list = m.list
             /\ SaysAtMost(m, n, e) /\ (Moves(m, e.len) => SaysMore(m, n, e))
             /\ m.list # <<>> => More(m, n, e)
             /\ DeadLen(n) <= DeadLen(m)
             /\ DeadLen(m) <= m.oldSpace => DeadLen(n) <= n.oldSpace
             /\ Holds(n, p[1], p[2]) /\ Cell(n, p) = e
             /\ p = <<n.chain[1], Len(n.flash[n.chain[1]])>> /\ p \in Pos
<1>. DEFINE n == Programmed(m, e)
            p == LastPos(n)
<1>0. p = <<n.chain[1], Len(n.flash[n.chain[1]])>> BY DEF LastPos
<1>1. SUFFICES /\ Sound(n) /\ n.list = m.list
               /\ SaysAtMost(m, n, e) /\ (Moves(m, e.len) => SaysMore(m, n, e))
               /\ m.list # <<>> => More(m, n, e)
               /\ DeadLen(n) <= DeadLen(m)
               /\ DeadLen(m) <= m.oldSpace => DeadLen(n) <= n.oldSpace
               /\ \E k : More(k, n, e)
  <2>. HIDE DEF n, p
  <2>1. Holds(n, p[1], p[2]) /\ Cell(n, p) = e BY <1>0, <1>1 DEF More, Cell
  <2>2. <<p[1], p[2]>> \in Pos BY <1>1, <2>1, SoundNat, HoldsFacts
  <2>. QED BY <1>0, <1>1, <2>1, <2>2 DEF n, p
<1>. HIDE DEF p
<1>2. CASE ~ NeedsGc(m, e.len)
  <2>1. n = Added(m, e) BY <1>2 DEF Programmed
  <2>. HIDE DEF n
  <2>2. More(m, n, e) /\ Sound(n) /\ DeadLen(n) = DeadLen(m) /\ SaysMore(m, n, e)
    BY <2>1, AddedSound
  <2>3. n.list = m.list /\ n.oldSpace = m.oldSpace BY <2>2 DEF More
  <2>4. SaysAtMost(m, n, e) BY <2>2 DEF SaysMore, SaysAtMost
  <2>. QED BY <2>2, <2>3, <2>4, SoundNat
<1>3. CASE NeedsGc(m, e.len)
  <2>. DEFINE k == Collected(m)
  <2>1. n = Added(k, e) BY <1>3 DEF Programmed
  <2>2. /\ Sound(k) /\ k.oldSpace = 0 /\ k.list = <<>> /\ DeadLen(k) = 0
        /\ SaysNoMore(m, k) /\ (Moves(m, e.len) => Says(m, k))
        /\ NoRival(k, e) /\ m.list = <<>>
    BY <1>3, CollectedSound DEF Moves
  <2>. HIDE DEF n, k
  <2>3. e.kind \in Data => NamedIn(k, e.id) BY <2>2 DEF SaysNoMore
  <2>4. More(k, n, e) /\ Sound(n) /\ DeadLen(n) = 0 /\ SaysMore(k, n, e)
    BY <2>1, <2>2, <2>3, AddedSound
  <2>5. n.list = m.list /\ n.oldSpace = 0 BY <2>2, <2>4 DEF More
  <2>6. Moves(m, e.len) => SaysMore(m, n, e) BY <2>2, <2>4 DEF Says, SaysMore
  <2>7. SaysAtMost(m, n, e) BY <2>2, <2>4 DEF SaysNoMore, SaysMore, SaysAtMost
  <2>. QED BY <2>2, <2>4, <2>5, <2>6, <2>7, SoundNat
<1>. QED BY <1>2, <1>3

-----------------------------------------------------------------------------
(* Handles. *)

LEMMA HandleMore ==
  ASSUME NEW m, NEW n, NEW e, NEW h, HandleOK(m, h), More(m, n, e),
         e.kind \in Data => e.id # h.id
  PROVE  HandleOK(n, h)
<1>. DEFINE c == n.chain[1]
            z == Len(n.flash[c])
<1>1. Holds(n, c, z) /\ n.flash[c][z] = e BY DEF More
<1>2. \A s, i : Holds(m, s, i) => Holds(n, s, i) /\ n.flash[s][i] = m.flash[s][i] BY DEF More
<1>3. \A s, i : Holds(n, s, i) => Holds(m, s, i) \/ (s = c /\ i = z) BY DEF More
<1>. HIDE DEF c, z
<1>4. /\ Holds(n, h.name[1], h.name[2]) /\ Cell(n, h.name).kind = "name"
      /\ Cell(n, h.name).id = h.id
  <2>1. /\ Holds(m, h.name[1], h.name[2]) /\ Cell(m, h.name).kind = "name"
        /\ Cell(m, h.name).id = h.id
    BY DEF HandleOK
  <2>. QED BY <1>2, <2>1 DEF Cell
<1>5. h.data = NoPos \/ /\ Holds(n, h.data[1], h.data[2])
                        /\ \/ Cell(n, h.data).kind = "deleted"
                           \/ /\ Cell(n, h.data).kind \in Data /\ Cell(n, h.data).id = h.id
                              /\ Cell(n, h.data).len = h.len
  <2>1. h.data = NoPos \/ /\ Holds(m, h.data[1], h.data[2])
                          /\ \/ Cell(m, h.data).kind = "deleted"
                             \/ /\ Cell(m, h.data).kind \in Data /\ Cell(m, h.data).id = h.id
                                /\ Cell(m, h.data).len = h.len
    BY DEF HandleOK
  <2>2. Holds(m, h.data[1], h.data[2]) =>
          Holds(n, h.data[1], h.data[2]) /\ Cell(n, h.data) = Cell(m, h.data)
    BY <1>2 DEF Cell
  <2>. QED BY <2>1, <2>2
<1>6. \A s, i : Holds(n, s, i) /\ n.flash[s][i].kind \in Data /\ n.flash[s][i].id = h.id =>
        h.data = <<s, i>>
  BY <1>1, <1>2, <1>3 DEF HandleOK
<1>7. ~ h.dirty /\ h.ver # 0 =>
        \E s, i : Holds(n, s, i) /\ n.flash[s][i].kind \in Data /\ n.flash[s][i].id = h.id
  <2>1. ~ h.dirty /\ h.ver # 0 =>
          \E s, i : Holds(m, s, i) /\ m.flash[s][i].kind \in Data /\ m.flash[s][i].id = h.id
    BY DEF HandleOK
  <2>. QED BY <1>2, <2>1
<1>8. h.dirty => h.ver \in {1, 2} /\ h.size \in SmallLens \cup {IndexLen} BY DEF HandleOK
<1>. QED BY <1>4, <1>5, <1>6, <1>7, <1>8 DEF HandleOK

(* The entry that is deleted is not of h, or is deleted already. *)
LEMMA HandleLess ==
  ASSUME NEW m, NEW n, NEW s, NEW i, NEW h, Mem(m), HandleOK(m, h),
         Holds(m, s, i), Less(m, n, s, i),
         m.flash[s][i].kind # "deleted" => m.flash[s][i].id # h.id
  PROVE  HandleOK(n, h)
<1>1. \A t, j : Holds(n, t, j) <=> Holds(m, t, j) BY DEF Less
<1>2. \A t, j : Holds(m, t, j) /\ ~ (t = s /\ j = i) => n.flash[t][j] = m.flash[t][j] BY DEF Less
<1>3. n.flash[s][i].kind = "deleted"
  <2>1. m.flash[s][i] \in Entries BY HoldsFacts
  <2>. QED BY <2>1, NullEntry DEF Less
<1>4. "deleted" # "name" /\ "deleted" \notin Data BY Kinds DEF Names
<1>5. /\ Holds(n, h.name[1], h.name[2]) /\ Cell(n, h.name).kind = "name"
      /\ Cell(n, h.name).id = h.id
  <2>1. /\ Holds(m, h.name[1], h.name[2]) /\ Cell(m, h.name).kind = "name"
        /\ Cell(m, h.name).id = h.id
    BY DEF HandleOK
  <2>2. ~ (h.name[1] = s /\ h.name[2] = i) BY <1>4, <2>1 DEF Cell
  <2>. QED BY <1>1, <1>2, <2>1, <2>2 DEF Cell
<1>6. h.data = NoPos \/ /\ Holds(n, h.data[1], h.data[2])
                        /\ \/ Cell(n, h.data).kind = "deleted"
                           \/ /\ Cell(n, h.data).kind \in Data /\ Cell(n, h.data).id = h.id
                              /\ Cell(n, h.data).len = h.len
  <2>1. h.data = NoPos \/ /\ Holds(m, h.data[1], h.data[2])
                          /\ \/ Cell(m, h.data).kind = "deleted"
                             \/ /\ Cell(m, h.data).kind \in Data /\ Cell(m, h.data).id = h.id
                                /\ Cell(m, h.data).len = h.len
    BY DEF HandleOK
  <2>2. CASE h.data[1] = s /\ h.data[2] = i BY <1>1, <1>3, <2>1, <2>2 DEF Cell
  <2>3. CASE ~ (h.data[1] = s /\ h.data[2] = i)
    <3>1. Holds(m, h.data[1], h.data[2]) =>
            Holds(n, h.data[1], h.data[2]) /\ Cell(n, h.data) = Cell(m, h.data)
      BY <1>1, <1>2, <2>3 DEF Cell
    <3>. QED BY <2>1, <3>1
  <2>. QED BY <2>2, <2>3
<1>7. \A t, j : Holds(n, t, j) /\ n.flash[t][j].kind \in Data /\ n.flash[t][j].id = h.id =>
        h.data = <<t, j>>
  <2>. TAKE t, j
  <2>1. \A u, k : Holds(m, u, k) /\ m.flash[u][k].kind \in Data /\ m.flash[u][k].id = h.id =>
          h.data = <<u, k>>
    BY DEF HandleOK
  <2>2. CASE t = s /\ j = i BY <1>3, <1>4, <2>2
  <2>3. CASE ~ (t = s /\ j = i) BY <1>1, <1>2, <2>1, <2>3
  <2>. QED BY <2>2, <2>3
<1>8. ~ h.dirty /\ h.ver # 0 =>
        \E t, j : Holds(n, t, j) /\ n.flash[t][j].kind \in Data /\ n.flash[t][j].id = h.id
  <2>1. SUFFICES ASSUME ~ h.dirty, h.ver # 0
                 PROVE  \E t, j : Holds(n, t, j) /\ n.flash[t][j].kind \in Data
                                  /\ n.flash[t][j].id = h.id
    OBVIOUS
  <2>2. PICK t, j : Holds(m, t, j) /\ m.flash[t][j].kind \in Data /\ m.flash[t][j].id = h.id
    BY <2>1 DEF HandleOK
  <2>3. ~ (t = s /\ j = i) BY <1>4, <2>2
  <2>4. Holds(n, t, j) /\ n.flash[t][j] = m.flash[t][j] BY <1>1, <1>2, <2>2, <2>3
  <2>. QED BY <2>2, <2>4
<1>9. h.dirty => h.ver \in {1, 2} /\ h.size \in SmallLens \cup {IndexLen} BY DEF HandleOK
<1>. QED BY <1>5, <1>6, <1>7, <1>8, <1>9 DEF HandleOK

-----------------------------------------------------------------------------
(* Deleting an entry. *)
LEMMA LessSays ==
  ASSUME NEW m, NEW n, NEW s, NEW i, Mem(m), One(m), Holds(m, s, i), Less(m, n, s, i)
  PROVE  LET e == m.flash[s][i]
         IN  /\ \A f : NamedIn(n, f) <=> NamedIn(m, f) /\ ~ (e.kind = "name" /\ e.id = f)
             /\ \A f, v : DataIn(n, f, v) <=> DataIn(m, f, v) /\ ~ (e.kind \in Data /\ e.id = f)
             /\ One(n)
<1>. DEFINE e == m.flash[s][i]
<1>1. \A t, j : Holds(n, t, j) <=> Holds(m, t, j) BY DEF Less
<1>2. \A t, j : Holds(m, t, j) /\ ~ (t = s /\ j = i) => n.flash[t][j] = m.flash[t][j] BY DEF Less
<1>3. n.flash[s][i].kind = "deleted"
  <2>1. m.flash[s][i] \in Entries BY HoldsFacts
  <2>. QED BY <2>1, NullEntry DEF Less
<1>4. "deleted" # "name" /\ "deleted" \notin Data BY Kinds DEF Names
<1>5. \A t, j : Holds(m, t, j) /\ Rivals(m.flash[t][j], e) => t = s /\ j = i BY DEF One
<1>6. ASSUME NEW f PROVE NamedIn(n, f) <=> NamedIn(m, f) /\ ~ (e.kind = "name" /\ e.id = f)
  <2>1. ASSUME NamedIn(n, f) PROVE NamedIn(m, f) /\ ~ (e.kind = "name" /\ e.id = f)
    <3>1. PICK t, j : Holds(n, t, j) /\ n.flash[t][j].kind = "name" /\ n.flash[t][j].id = f
      BY <2>1 DEF NamedIn
    <3>2. Holds(m, t, j) /\ ~ (t = s /\ j = i) /\ m.flash[t][j] = n.flash[t][j]
      BY <1>1, <1>2, <1>3, <1>4, <3>1
    <3>3. e.kind = "name" /\ e.id = f => Rivals(m.flash[t][j], e)
      BY <3>1, <3>2 DEF Rivals, Names
    <3>. QED BY <1>5, <3>1, <3>2, <3>3 DEF NamedIn
  <2>2. ASSUME NamedIn(m, f), ~ (e.kind = "name" /\ e.id = f) PROVE NamedIn(n, f)
    <3>1. PICK t, j : Holds(m, t, j) /\ m.flash[t][j].kind = "name" /\ m.flash[t][j].id = f
      BY <2>2 DEF NamedIn
    <3>2. n.flash[t][j] = m.flash[t][j] BY <1>2, <2>2, <3>1
    <3>. QED BY <1>1, <3>1, <3>2 DEF NamedIn
  <2>. QED BY <2>1, <2>2
<1>7. ASSUME NEW f, NEW v
      PROVE  DataIn(n, f, v) <=> DataIn(m, f, v) /\ ~ (e.kind \in Data /\ e.id = f)
  <2>1. ASSUME DataIn(n, f, v) PROVE DataIn(m, f, v) /\ ~ (e.kind \in Data /\ e.id = f)
    <3>1. PICK t, j : /\ Holds(n, t, j) /\ n.flash[t][j].kind \in Data /\ n.flash[t][j].id = f
                      /\ n.flash[t][j].val = v
      BY <2>1 DEF DataIn
    <3>2. Holds(m, t, j) /\ ~ (t = s /\ j = i) /\ m.flash[t][j] = n.flash[t][j]
      BY <1>1, <1>2, <1>3, <1>4, <3>1
    <3>3. e.kind \in Data /\ e.id = f => Rivals(m.flash[t][j], e)
      BY <3>1, <3>2 DEF Rivals
    <3>. QED BY <1>5, <3>1, <3>2, <3>3 DEF DataIn
  <2>2. ASSUME DataIn(m, f, v), ~ (e.kind \in Data /\ e.id = f) PROVE DataIn(n, f, v)
    <3>1. PICK t, j : /\ Holds(m, t, j) /\ m.flash[t][j].kind \in Data /\ m.flash[t][j].id = f
                      /\ m.flash[t][j].val = v
      BY <2>2 DEF DataIn
    <3>2. n.flash[t][j] = m.flash[t][j] BY <1>2, <2>2, <3>1
    <3>. QED BY <1>1, <3>1, <3>2 DEF DataIn
  <2>. QED BY <2>1, <2>2
<1>8. One(n)
  <2>1. SUFFICES ASSUME NEW t, NEW j, NEW u, NEW k, Holds(n, t, j), Holds(n, u, k),
                        Rivals(n.flash[t][j], n.flash[u][k])
                 PROVE  t = u /\ j = k
    BY DEF One
  <2>2. ~ (t = s /\ j = i) /\ ~ (u = s /\ k = i)
    BY <1>3, <2>1, Kinds DEF Rivals
  <2>3. n.flash[t][j] = m.flash[t][j] /\ n.flash[u][k] = m.flash[u][k]
        /\ Holds(m, t, j) /\ Holds(m, u, k)
    BY <1>1, <1>2, <2>1, <2>2
  <2>. QED BY <2>1, <2>3 DEF One
<1>. QED BY <1>6, <1>7, <1>8

LEMMA LessSound ==
  ASSUME NEW m, NEW n, NEW s, NEW i, Sound(m), Holds(m, s, i), Less(m, n, s, i),
         m.flash[s][i].kind = "name" => \A v : ~ DataIn(m, m.flash[s][i].id, v)
  PROVE  Sound(n)
<1>. DEFINE e == m.flash[s][i]
<1>1. /\ \A f : NamedIn(n, f) <=> NamedIn(m, f) /\ ~ (e.kind = "name" /\ e.id = f)
      /\ \A f, v : DataIn(n, f, v) <=> DataIn(m, f, v) /\ ~ (e.kind \in Data /\ e.id = f)
      /\ One(n)
  BY LessSays DEF Sound, Whole
<1>2. \A f, v : DataIn(n, f, v) => NamedIn(n, f)
  <2>. TAKE f, v
  <2>1. DataIn(m, f, v) => NamedIn(m, f) BY DEF Sound
  <2>. QED BY <1>1, <2>1
<1>3. Whole(n) BY DEF Sound, Whole, Less
<1>4. IsFiniteSet(Dead(n)) BY LessDead DEF Sound, Whole
<1>. QED BY <1>1, <1>2, <1>3, <1>4 DEF Sound

(* What stays of a handle when the data of its file is deleted. *)
Bare(m, h) ==
  /\ Holds(m, h.name[1], h.name[2]) /\ Cell(m, h.name).kind = "name"
  /\ Cell(m, h.name).id = h.id
  /\ h.data = NoPos \/ (Holds(m, h.data[1], h.data[2]) /\ Cell(m, h.data).kind = "deleted")

(* What all deletions keep: the dead are counted. *)
Kept(m, n) ==
  /\ Sound(n) /\ n.list = m.list
  /\ DeadLen(m) <= m.oldSpace => DeadLen(n) <= n.oldSpace

LEMMA NoPlace ==
  ASSUME NEW m, NEW h, Mem(m), HandleOK(m, h),
         h.data = NoPos \/ (Holds(m, h.data[1], h.data[2]) /\ Cell(m, h.data).kind = "deleted")
  PROVE  \A s, i : Holds(m, s, i) /\ m.flash[s][i].kind \in Data => m.flash[s][i].id # h.id
<1>1. SUFFICES ASSUME NEW s, NEW i, Holds(m, s, i), m.flash[s][i].kind \in Data,
                      m.flash[s][i].id = h.id
               PROVE  FALSE
  OBVIOUS
<1>2. h.data = <<s, i>> BY <1>1 DEF HandleOK
<1>3. s # Null BY <1>1, HoldsFacts
<1>. QED BY <1>1, <1>2, <1>3, Kinds DEF NoPos, Cell

LEMMA DeletedData ==
  ASSUME NEW m, Sound(m), NEW h \in OpenFiles, HandleOK(m, h)
  PROVE  LET n == Deleted(m, h.data, h.len)
         IN  /\ Kept(m, n) /\ Bare(n, h)
             /\ \A f : NamedIn(n, f) <=> NamedIn(m, f)
             /\ \A f, v : DataIn(n, f, v) <=> DataIn(m, f, v) /\ f # h.id
             /\ \A g : HandleOK(m, g) /\ g.id # h.id => HandleOK(n, g)
<1>. DEFINE n == Deleted(m, h.data, h.len)
            s == h.data[1]
            i == h.data[2]
<1>0. Mem(m) /\ One(m) /\ DeadLen(m) \in Nat /\ m.oldSpace \in Nat /\ IsFiniteSet(Dead(m))
  BY SoundNat DEF Sound
<1>1. h.data = <<s, i>> /\ h.len \in Nat BY DEF OpenFiles, Pos
<1>2. CASE h.data = NoPos
  <2>1. n = m BY <1>2 DEF Deleted, NoPos
  <2>2. \A f, v : DataIn(m, f, v) => f # h.id BY <1>0, <1>2, NoPlace DEF DataIn
  <2>. HIDE DEF n, s, i
  <2>3. /\ Holds(m, h.name[1], h.name[2]) /\ Cell(m, h.name).kind = "name"
        /\ Cell(m, h.name).id = h.id
    BY DEF HandleOK
  <2>4. Bare(m, h) BY <1>2, <2>3 DEF Bare
  <2>5. Kept(m, m) BY DEF Kept
  <2>. QED BY <2>1, <2>2, <2>4, <2>5 DEF n
<1>3. CASE h.data # NoPos
  <2>. DEFINE e == m.flash[s][i]
  <2>1. /\ Holds(m, s, i)
        /\ e.kind = "deleted" \/ (e.kind \in Data /\ e.id = h.id /\ e.len = h.len)
    BY <1>3 DEF HandleOK, Cell
  <2>2. n = Deleted(m, <<s, i>>, h.len) BY <1>1
  <2>3. Less(m, n, s, i) /\ n.oldSpace = m.oldSpace + h.len
    BY <1>0, <1>1, <2>1, <2>2, DeletedMem, SMTT(30)
  <2>. HIDE DEF n, s, i
  <2>4. e.kind # "name" BY <2>1, Kinds DEF Names
  <2>5. Sound(n) BY <2>1, <2>3, <2>4, LessSound
  <2>6. /\ e.kind = "deleted" => DeadLen(n) = DeadLen(m)
        /\ e.kind # "deleted" => DeadLen(n) = DeadLen(m) + e.len
    BY <1>0, <2>1, <2>3, LessDead
  <2>7. DeadLen(m) <= m.oldSpace => DeadLen(n) <= n.oldSpace
    BY <1>0, <1>1, <2>1, <2>3, <2>6
  <2>8. n.list = m.list BY <2>3 DEF Less
  <2>9. Kept(m, n) BY <2>5, <2>7, <2>8 DEF Kept
  <2>10. /\ \A f : NamedIn(n, f) <=> NamedIn(m, f) /\ ~ (e.kind = "name" /\ e.id = f)
         /\ \A f, v : DataIn(n, f, v) <=> DataIn(m, f, v) /\ ~ (e.kind \in Data /\ e.id = f)
    BY <1>0, <2>1, <2>3, LessSays
  <2>11. \A f, v : DataIn(n, f, v) <=> DataIn(m, f, v) /\ f # h.id
    <3>1. CASE e.kind = "deleted"
      <4>1. Cell(m, h.data).kind = "deleted" /\ Holds(m, h.data[1], h.data[2])
        BY <2>1, <3>1 DEF Cell, s, i
      <4>2. \A f, v : DataIn(m, f, v) => f # h.id BY <1>0, <4>1, NoPlace DEF DataIn
      <4>3. e.kind \notin Data BY <3>1, Kinds
      <4>. QED BY <2>10, <4>2, <4>3
    <3>2. CASE e.kind \in Data /\ e.id = h.id BY <2>10, <3>2
    <3>. QED BY <2>1, <3>1, <3>2
  <2>12. \A g : HandleOK(m, g) /\ g.id # h.id => HandleOK(n, g)
    BY <1>0, <2>1, <2>3, HandleLess
  <2>13. Bare(n, h)
    <3>1. \A t, j : Holds(n, t, j) <=> Holds(m, t, j) BY <2>3 DEF Less
    <3>2. \A t, j : Holds(m, t, j) /\ ~ (t = s /\ j = i) => n.flash[t][j] = m.flash[t][j]
      BY <2>3 DEF Less
    <3>3. n.flash[s][i].kind = "deleted"
      <4>1. e \in Entries BY <1>0, <2>1, HoldsFacts
      <4>. QED BY <2>3, <4>1, NullEntry DEF Less
    <3>4. /\ Holds(m, h.name[1], h.name[2]) /\ Cell(m, h.name).kind = "name"
          /\ Cell(m, h.name).id = h.id
      BY DEF HandleOK
    <3>5. ~ (h.name[1] = s /\ h.name[2] = i) BY <2>4, <3>4 DEF Cell
    <3>6. n.flash[h.name[1]][h.name[2]] = m.flash[h.name[1]][h.name[2]] BY <3>2, <3>4, <3>5
    <3>7. Holds(n, h.data[1], h.data[2]) /\ Cell(n, h.data).kind = "deleted"
      BY <2>1, <3>1, <3>3 DEF Cell, s, i
    <3>. QED BY <3>1, <3>4, <3>6, <3>7 DEF Bare, Cell
  <2>. QED BY <2>4, <2>9, <2>10, <2>11, <2>12, <2>13 DEF n
<1>. QED BY <1>2, <1>3

LEMMA DeletedName ==
  ASSUME NEW m, Sound(m), NEW h \in OpenFiles, Bare(m, h), \A v : ~ DataIn(m, h.id, v)
  PROVE  LET n == Deleted(m, h.name, NameLen)
         IN  /\ Kept(m, n)
             /\ \A f : NamedIn(n, f) <=> NamedIn(m, f) /\ f # h.id
             /\ \A f, v : DataIn(n, f, v) <=> DataIn(m, f, v)
             /\ \A g : HandleOK(m, g) /\ g.id # h.id => HandleOK(n, g)
<1>. DEFINE n == Deleted(m, h.name, NameLen)
            s == h.name[1]
            i == h.name[2]
            e == m.flash[s][i]
<1>0. Mem(m) /\ One(m) /\ DeadLen(m) \in Nat /\ m.oldSpace \in Nat /\ IsFiniteSet(Dead(m))
  BY SoundNat DEF Sound
<1>1. h.name = <<s, i>> /\ NameLen \in Nat BY SizesFacts DEF OpenFiles, Pos, Lens
<1>2. Holds(m, s, i) /\ e.kind = "name" /\ e.id = h.id BY DEF Bare, Cell
<1>3. e.len = NameLen
  <2>1. e \in Entries BY <1>0, <1>2, HoldsFacts
  <2>. QED BY <1>2, <2>1 DEF Entries
<1>4. n = Deleted(m, <<s, i>>, NameLen) BY <1>1
<1>5. Less(m, n, s, i) /\ n.oldSpace = m.oldSpace + NameLen
  BY <1>0, <1>1, <1>2, <1>4, DeletedMem
<1>. HIDE DEF n, s, i
<1>6. Sound(n) BY <1>2, <1>5, LessSound
<1>7. e.kind # "deleted" /\ e.kind \notin Data BY <1>2, Kinds DEF Names
<1>8. DeadLen(n) = DeadLen(m) + NameLen BY <1>0, <1>2, <1>3, <1>5, <1>7, LessDead
<1>9. Kept(m, n) BY <1>0, <1>1, <1>5, <1>6, <1>8 DEF Kept, Less
<1>10. /\ \A f : NamedIn(n, f) <=> NamedIn(m, f) /\ ~ (e.kind = "name" /\ e.id = f)
       /\ \A f, v : DataIn(n, f, v) <=> DataIn(m, f, v) /\ ~ (e.kind \in Data /\ e.id = f)
  BY <1>0, <1>2, <1>5, LessSays
<1>11. \A g : HandleOK(m, g) /\ g.id # h.id => HandleOK(n, g)
  BY <1>0, <1>2, <1>5, HandleLess
<1>. QED BY <1>2, <1>7, <1>9, <1>10, <1>11 DEF n

-----------------------------------------------------------------------------
(* The list of open files. *)
Listed(l) ==
  /\ l \in Seq(OpenFiles)
  /\ \A j, k \in DOMAIN l : l[j].id = l[k].id => j = k

LEMMA ListConsed ==
  ASSUME NEW l, Listed(l), NEW h \in OpenFiles, \A k \in DOMAIN l : l[k].id # h.id
  PROVE  LET d == <<h>> \o l
         IN  /\ Listed(d) /\ Len(d) = Len(l) + 1
             /\ \A j \in DOMAIN d : d[j] = h \/ \E k \in DOMAIN l : d[j] = l[k]
<1>. DEFINE d == <<h>> \o l
<1>1. /\ d \in Seq(OpenFiles) /\ Len(d) = Len(l) + 1 /\ d[1] = h /\ Len(l) \in Nat
      /\ \A j \in DOMAIN d : j # 1 => j - 1 \in DOMAIN l /\ d[j] = l[j - 1]
      /\ DOMAIN d = 1 .. Len(d) /\ DOMAIN l = 1 .. Len(l)
  BY DEF Listed
<1>. HIDE DEF d
<1>2. \A j, k \in DOMAIN d : d[j].id = d[k].id => j = k
  <2>. TAKE j, k \in DOMAIN d
  <2>. HAVE d[j].id = d[k].id
  <2>1. CASE j = 1 \/ k = 1 BY <1>1, <2>1
  <2>2. CASE j # 1 /\ k # 1
    <3>1. j - 1 = k - 1 BY <1>1, <2>2 DEF Listed
    <3>. QED BY <1>1, <3>1
  <2>. QED BY <2>1, <2>2
<1>3. \A j \in DOMAIN d : d[j] = h \/ \E k \in DOMAIN l : d[j] = l[k] BY <1>1
<1>. QED BY <1>1, <1>2, <1>3 DEF Listed, d

LEMMA ListReplaced ==
  ASSUME NEW l, Listed(l), NEW k \in DOMAIN l, NEW h \in OpenFiles, h.id = l[k].id
  PROVE  LET d == [l EXCEPT ![k] = h]
         IN  /\ Listed(d) /\ Len(d) = Len(l) /\ DOMAIN d = DOMAIN l /\ d[k] = h
             /\ \A j \in DOMAIN l : j # k => d[j] = l[j] /\ l[j].id # h.id
<1>. DEFINE d == [l EXCEPT ![k] = h]
<1>1. /\ d \in Seq(OpenFiles) /\ Len(d) = Len(l) /\ DOMAIN d = DOMAIN l /\ d[k] = h
      /\ \A j \in DOMAIN l : j # k => d[j] = l[j]
  BY DEF Listed
<1>. HIDE DEF d
<1>2. \A j \in DOMAIN l : d[j].id = l[j].id BY <1>1
<1>3. \A i, j \in DOMAIN d : d[i].id = d[j].id => i = j BY <1>1, <1>2 DEF Listed
<1>4. \A j \in DOMAIN l : j # k => l[j].id # h.id BY DEF Listed
<1>. QED BY <1>1, <1>3, <1>4 DEF Listed, d

LEMMA ListRemoved ==
  ASSUME NEW l, Listed(l), NEW k \in DOMAIN l
  PROVE  LET d == RemoveAt(l, k)
         IN  /\ Listed(d) /\ Len(d) <= Len(l)
             /\ \A j \in DOMAIN d : \E i \in DOMAIN l : i # k /\ d[j] = l[i]
<1>. DEFINE a == SubSeq(l, 1, k - 1)
            b == SubSeq(l, k + 1, Len(l))
            d == RemoveAt(l, k)
            from(j) == IF j < k THEN j ELSE j + 1
<1>0. l \in Seq(OpenFiles) /\ k \in 1 .. Len(l) /\ Len(l) \in Nat /\ DOMAIN l = 1 .. Len(l)
  BY DEF Listed
<1>1. a \in Seq(OpenFiles) /\ Len(a) = k - 1 /\ \A i \in 1 .. k - 1 : a[i] = l[i]
  BY <1>0
<1>2. b \in Seq(OpenFiles) /\ Len(b) = Len(l) - k /\ \A i \in 1 .. Len(l) - k : b[i] = l[k + i]
  BY <1>0
<1>3. d = a \o b BY DEF RemoveAt
<1>. HIDE DEF a, b, d
<1>4. d \in Seq(OpenFiles) /\ Len(d) = Len(l) - 1 /\ DOMAIN d = 1 .. Len(l) - 1
  <2>1. d \in Seq(OpenFiles) /\ Len(d) = Len(a) + Len(b) BY <1>1, <1>2, <1>3, ConcatProperties
  <2>. QED BY <1>0, <1>1, <1>2, <2>1
<1>5. \A j \in DOMAIN d : from(j) \in DOMAIN l /\ from(j) # k /\ d[j] = l[from(j)]
  <2>. TAKE j \in DOMAIN d
  <2>0. /\ j \in 1 .. Len(a) + Len(b)
        /\ d[j] = IF j <= Len(a) THEN a[j] ELSE b[j - Len(a)]
    <3>1. j \in 1 .. Len(a) + Len(b) BY <1>0, <1>1, <1>2, <1>4
    <3>. QED BY <1>1, <1>2, <1>3, <3>1, ConcatProperties
  <2>1. CASE j < k BY <1>0, <1>1, <2>0, <1>4, <2>1
  <2>2. CASE ~ (j < k)
    <3>1. d[j] = b[j - (k - 1)] BY <1>0, <1>1, <2>0, <1>4, <2>2
    <3>2. j - (k - 1) \in 1 .. Len(l) - k /\ k + (j - (k - 1)) = j + 1 BY <1>0, <1>4, <2>2
    <3>3. d[j] = l[j + 1] BY <1>2, <3>1, <3>2
    <3>. QED BY <1>0, <1>4, <2>2, <3>3
  <2>. QED BY <2>1, <2>2
<1>6. \A i, j \in DOMAIN d : from(i) = from(j) => i = j BY <1>0, <1>4
<1>. HIDE DEF from
<1>7. \A i, j \in DOMAIN d : d[i].id = d[j].id => i = j BY <1>5, <1>6 DEF Listed
<1>. QED BY <1>0, <1>4, <1>5, <1>7 DEF Listed, d

LEMMA HandlesListed ==
  ASSUME NEW m
  PROVE  Handles(m) <=> /\ Listed(m.list) /\ Len(m.list) <= ListMax
                        /\ \A k \in DOMAIN m.list : HandleOK(m, m.list[k])
BY DEF Handles, Listed

(* A change of the list alone, or of fault. *)
LEMMA ListOnly ==
  ASSUME NEW m, NEW n, Fields(n), n.flash = m.flash, n.chain = m.chain,
         n.tailOff = m.tailOff, n.oldSpace = m.oldSpace, n.fault \in BOOLEAN
  PROVE  /\ Sound(m) => Sound(n)
         /\ DeadLen(n) = DeadLen(m) /\ Says(m, n)
         /\ \A h : HandleOK(m, h) => HandleOK(n, h)
<1>1. \A s, i : Holds(n, s, i) <=> Holds(m, s, i) BY DEF Holds
<1>2. \A p : Cell(n, p) = Cell(m, p) BY DEF Cell
<1>3. Dead(n) = Dead(m) BY <1>1, <1>2 DEF Dead
<1>4. DeadLen(n) = DeadLen(m) BY <1>2, <1>3 DEF DeadLen
<1>5. Says(m, n) BY <1>1 DEF Says, NamedIn, DataIn
<1>6. \A h : HandleOK(m, h) => HandleOK(n, h) BY <1>1, <1>2 DEF HandleOK
<1>7. ASSUME Sound(m) PROVE Sound(n)
  <2>1. Whole(n) BY <1>7 DEF Sound, Whole, Mem, Tailed
  <2>2. One(n) BY <1>1, <1>7 DEF Sound, One
  <2>. QED BY <1>3, <1>5, <1>7, <2>1, <2>2 DEF Sound, Says
<1>. QED BY <1>4, <1>5, <1>6, <1>7

LEMMA WithList ==
  ASSUME NEW m, Fields(m), NEW l
  PROVE  LET n == [m EXCEPT !.list = l]
         IN  /\ Fields(n) /\ n.flash = m.flash /\ n.chain = m.chain
             /\ n.tailOff = m.tailOff /\ n.oldSpace = m.oldSpace /\ n.list = l
             /\ n.fault = m.fault
<1>. DEFINE n == [m EXCEPT !.list = l]
<1>1. DOMAIN m = {"flash", "chain", "tailOff", "oldSpace", "list", "fault"} BY DEF Fields
<1>2. /\ n.flash = m.flash /\ n.chain = m.chain /\ n.oldSpace = m.oldSpace /\ n.list = l
      /\ n.tailOff = m.tailOff /\ n.fault = m.fault
      /\ DOMAIN n = DOMAIN m /\ n = [k \in DOMAIN m |-> n[k]]
  BY <1>1
<1>. HIDE DEF n
<1>3. Fields(n) BY <1>1, <1>2 DEF Fields
<1>. QED BY <1>2, <1>3 DEF n

-----------------------------------------------------------------------------
(* What the operations make of an open directory. *)
Good(m) == Sound(m) /\ Handles(m) /\ DeadLen(m) <= m.oldSpace

LEMMA GoodListed ==
  ASSUME NEW m, Sound(m), DeadLen(m) <= m.oldSpace, NEW l, Listed(l), Len(l) <= ListMax,
         \A j \in DOMAIN l : HandleOK(m, l[j])
  PROVE  LET n == [m EXCEPT !.list = l]
         IN  Good(n) /\ Fields(n) /\ Says(m, n) /\ n.list = l
<1>. DEFINE n == [m EXCEPT !.list = l]
<1>1. /\ Fields(n) /\ n.flash = m.flash /\ n.chain = m.chain
      /\ n.tailOff = m.tailOff /\ n.oldSpace = m.oldSpace /\ n.list = l
      /\ n.fault \in BOOLEAN
  BY SoundNat, WithList DEF Mem, Tailed
<1>. HIDE DEF n
<1>2. Sound(n) /\ DeadLen(n) = DeadLen(m) /\ Says(m, n)
      /\ \A h : HandleOK(m, h) => HandleOK(n, h)
  BY <1>1, ListOnly
<1>3. Handles(n) BY <1>1, <1>2, HandlesListed
<1>. QED BY <1>1, <1>2, <1>3 DEF Good, n

LEMMA GoodHandle ==
  ASSUME NEW m, Good(m), NEW k \in DOMAIN m.list
  PROVE  /\ m.list[k] \in OpenFiles /\ HandleOK(m, m.list[k]) /\ m.list # <<>>
         /\ Listed(m.list) /\ Len(m.list) <= ListMax
BY HandlesListed DEF Good, Handles

(* file_close, of what is not dirty any more. *)
LEMMA DroppedGood ==
  ASSUME NEW m, Good(m), NEW k \in DOMAIN m.list
  PROVE  LET n == [m EXCEPT !.list = RemoveAt(@, k)]
         IN  Good(n) /\ Fields(n) /\ Says(m, n)
<1>. DEFINE d == RemoveAt(m.list, k)
<1>1. /\ Listed(d) /\ Len(d) <= Len(m.list)
      /\ \A j \in DOMAIN d : \E i \in DOMAIN m.list : i # k /\ d[j] = m.list[i]
  BY GoodHandle, ListRemoved
<1>2. Len(d) <= ListMax /\ Len(d) \in Nat /\ Len(m.list) \in Nat
  BY <1>1, GoodHandle, SizesFacts DEF Listed
<1>3. \A j \in DOMAIN d : HandleOK(m, d[j]) BY <1>1, GoodHandle
<1>. HIDE DEF d
<1>4. LET n == [m EXCEPT !.list = d] IN Good(n) /\ Fields(n) /\ Says(m, n)
  BY <1>1, <1>2, <1>3, GoodListed DEF Good
<1>. QED BY <1>4 DEF d

(* file_flush, of the handle h. *)
Refilled(m, h) == Programmed(Deleted(m, h.data, h.len), DataEntry(h))

Clean(h, p) == [h EXCEPT !.data = p, !.len = h.size, !.dirty = FALSE]

Flush(m, k) ==
  LET p == Refilled(m, m.list[k])
  IN  [p EXCEPT !.list[k] = [@ EXCEPT !.data = LastPos(p), !.len = m.list[k].size, !.dirty = FALSE]]

LEMMA DataEntryFacts ==
  ASSUME NEW h \in OpenFiles, h.size \in SmallLens \cup {IndexLen}
  PROVE  LET e == DataEntry(h)
         IN  /\ e \in Entries /\ e.kind \in Data /\ e.kind # "deleted" /\ e.kind # "name"
             /\ e.id = h.id /\ e.val = h.ver /\ e.len = h.size
<1>1. h.id \in Files /\ h.ver \in Nat /\ h.big \in BOOLEAN BY DEF OpenFiles
<1>2. h.size \in Lens BY DEF Lens
<1>. QED BY <1>1, <1>2 DEF DataEntry, Entry, Entries, Data, Names

LEMMA CleanFields ==
  ASSUME NEW h \in OpenFiles, NEW p \in Pos
  PROVE  LET g == Clean(h, p)
         IN  /\ g \in OpenFiles /\ g.id = h.id /\ g.name = h.name /\ g.data = p
             /\ g.ver = h.ver /\ g.len = h.size /\ g.dirty = FALSE
BY DEF Clean, OpenFiles

LEMMA RefilledGood ==
  ASSUME NEW m, Good(m), NEW k \in DOMAIN m.list, m.list[k].dirty,
         LET h == m.list[k] IN ~ NeedsGc(Deleted(m, h.data, h.len), h.size)
  PROVE  LET h == m.list[k]
             p == Refilled(m, h)
             q == LastPos(p)
         IN  /\ Sound(p) /\ p.list = m.list /\ DeadLen(p) <= p.oldSpace
             /\ \A g : HandleOK(m, g) /\ g.id # h.id => HandleOK(p, g)
             /\ q \in Pos /\ HandleOK(p, Clean(h, q))
             /\ \A f : NamedIn(p, f) <=> NamedIn(m, f)
             /\ \A f, v : DataIn(p, f, v) <=> IF f = h.id THEN v = h.ver ELSE DataIn(m, f, v)
<1>. DEFINE h == m.list[k]
            x == Deleted(m, h.data, h.len)
            e == DataEntry(h)
            p == Refilled(m, h)
            q == LastPos(p)
<1>1. h \in OpenFiles /\ HandleOK(m, h) /\ m.list # <<>> /\ Sound(m) /\ DeadLen(m) <= m.oldSpace
  BY GoodHandle DEF Good
<1>2. ~ NeedsGc(x, h.size) /\ h.dirty OBVIOUS
<1>3. p = Programmed(x, e) BY DEF Refilled
<1>. HIDE DEF h
<1>4. /\ Kept(m, x) /\ Bare(x, h)
      /\ \A f : NamedIn(x, f) <=> NamedIn(m, f)
      /\ \A f, v : DataIn(x, f, v) <=> DataIn(m, f, v) /\ f # h.id
      /\ \A g : HandleOK(m, g) /\ g.id # h.id => HandleOK(x, g)
  BY <1>1, DeletedData
<1>. HIDE DEF x
<1>5. h.ver \in {1, 2} /\ h.size \in SmallLens \cup {IndexLen} BY <1>1, <1>2 DEF HandleOK
<1>6. /\ e \in Entries /\ e.kind \in Data /\ e.kind # "deleted" /\ e.kind # "name"
      /\ e.id = h.id /\ e.val = h.ver /\ e.len = h.size
  BY <1>1, <1>5, DataEntryFacts
<1>. HIDE DEF e, p
<1>7. NoRival(x, e)
  <2>1. SUFFICES ASSUME NEW s, NEW i, Holds(x, s, i), Rivals(x.flash[s][i], e) PROVE FALSE
    BY DEF NoRival
  <2>2. x.flash[s][i].kind \in Data /\ x.flash[s][i].id = h.id
    BY <1>6, <2>1, Kinds DEF Rivals
  <2>3. DataIn(x, h.id, x.flash[s][i].val) BY <2>1, <2>2 DEF DataIn
  <2>. QED BY <1>4, <2>3
<1>8. NamedIn(x, e.id) BY <1>4, <1>6, SMTT(30) DEF Bare, NamedIn, Cell
<1>9. Sound(x) /\ x.list = m.list /\ DeadLen(x) <= x.oldSpace BY <1>1, <1>4 DEF Kept
<1>10. Moves(x, e.len) BY <1>2, <1>6 DEF Moves
<1>11. /\ Sound(p) /\ p.list = x.list /\ SaysMore(x, p, e) /\ More(x, p, e)
       /\ DeadLen(p) <= p.oldSpace
       /\ Holds(p, q[1], q[2]) /\ Cell(p, q) = e
       /\ q = <<p.chain[1], Len(p.flash[p.chain[1]])>> /\ q \in Pos
  BY <1>1, <1>2, <1>3, <1>6, <1>7, <1>8, <1>9, <1>10, ProgrammedSound
<1>. HIDE DEF q
<1>12. \A g : HandleOK(m, g) /\ g.id # h.id => HandleOK(p, g)
  BY <1>4, <1>6, <1>11, HandleMore
<1>13. \A f : NamedIn(p, f) <=> NamedIn(m, f) BY <1>4, <1>6, <1>11 DEF SaysMore
<1>14. \A f, v : DataIn(p, f, v) <=> IF f = h.id THEN v = h.ver ELSE DataIn(m, f, v)
  BY <1>4, <1>6, <1>11 DEF SaysMore
<1>15. HandleOK(p, Clean(h, q))
  <2>. DEFINE g == Clean(h, q)
  <2>1. /\ g.id = h.id /\ g.name = h.name /\ g.data = q
        /\ g.ver = h.ver /\ g.len = h.size /\ g.dirty = FALSE
    BY <1>1, <1>11, CleanFields
  <2>. HIDE DEF g
  <2>2. \A s, i : Holds(x, s, i) => Holds(p, s, i) /\ p.flash[s][i] = x.flash[s][i]
    BY <1>11 DEF More
  <2>3. /\ Holds(p, g.name[1], g.name[2]) /\ Cell(p, g.name).kind = "name"
        /\ Cell(p, g.name).id = g.id
    BY <1>4, <2>1, <2>2, SMTT(30) DEF Bare, Cell
  <2>4. \A s, i : Holds(p, s, i) => Holds(x, s, i) \/ <<s, i>> = q BY <1>11 DEF More
  <2>5. \A s, i : Holds(p, s, i) /\ p.flash[s][i].kind \in Data /\ p.flash[s][i].id = g.id =>
          g.data = <<s, i>>
    <3>1. SUFFICES ASSUME NEW s, NEW i, Holds(p, s, i), p.flash[s][i].kind \in Data,
                          p.flash[s][i].id = g.id, Holds(x, s, i)
                   PROVE  FALSE
      BY <2>1, <2>4
    <3>2. DataIn(x, h.id, x.flash[s][i].val) BY <2>1, <2>2, <3>1 DEF DataIn
    <3>. QED BY <1>4, <3>2
  <2>6. /\ Holds(p, g.data[1], g.data[2]) /\ Cell(p, g.data).kind \in Data
        /\ Cell(p, g.data).id = g.id /\ Cell(p, g.data).len = g.len
    BY <1>6, <1>11, <2>1
  <2>7. HandleOK(p, g) BY <2>1, <2>3, <2>5, <2>6 DEF HandleOK, Cell
  <2>. QED BY <2>7 DEF g
<1>. QED BY <1>9, <1>11, <1>12, <1>13, <1>14, <1>15 DEF h, p, q

LEMMA FlushGood ==
  ASSUME NEW m, Good(m), NEW k \in DOMAIN m.list, m.list[k].dirty,
         LET h == m.list[k] IN ~ NeedsGc(Deleted(m, h.data, h.len), h.size)
  PROVE  LET h == m.list[k]
             n == Flush(m, k)
         IN  /\ Good(n) /\ Fields(n) /\ k \in DOMAIN n.list /\ n.list[k].id = h.id
             /\ DOMAIN n.list = DOMAIN m.list
             /\ \A j \in DOMAIN m.list : n.list[j].id = m.list[j].id
             /\ \A f : NamedIn(n, f) <=> NamedIn(m, f)
             /\ \A f, v : DataIn(n, f, v) <=> IF f = h.id THEN v = h.ver ELSE DataIn(m, f, v)
<1>. DEFINE h == m.list[k]
            p == Refilled(m, h)
            q == LastPos(p)
            g == Clean(h, q)
            l == [m.list EXCEPT ![k] = g]
            n == Flush(m, k)
<1>1. /\ Sound(p) /\ p.list = m.list /\ DeadLen(p) <= p.oldSpace
      /\ \A b : HandleOK(m, b) /\ b.id # h.id => HandleOK(p, b)
      /\ q \in Pos /\ HandleOK(p, g)
      /\ \A f : NamedIn(p, f) <=> NamedIn(m, f)
      /\ \A f, v : DataIn(p, f, v) <=> IF f = h.id THEN v = h.ver ELSE DataIn(m, f, v)
  BY RefilledGood
<1>2. n = [p EXCEPT !.list = l]
  <2>. HIDE DEF p, q
  <2>1. n = [p EXCEPT !.list[k] = [@ EXCEPT !.data = q, !.len = h.size, !.dirty = FALSE]]
    BY DEF Flush, p, q
  <2>2. p.list[k] = h BY <1>1
  <2>. QED BY <1>1, <2>1, <2>2 DEF Clean
<1>3. h \in OpenFiles /\ Listed(m.list) /\ Len(m.list) <= ListMax
      /\ \A j \in DOMAIN m.list : HandleOK(m, m.list[j])
  BY GoodHandle
<1>. HIDE DEF h, p, q
<1>4. g \in OpenFiles /\ g.id = h.id BY <1>1, <1>3, CleanFields
<1>. HIDE DEF g
<1>5. /\ Listed(l) /\ Len(l) = Len(m.list) /\ DOMAIN l = DOMAIN m.list /\ l[k] = g
      /\ \A j \in DOMAIN m.list : j # k => l[j] = m.list[j] /\ m.list[j].id # g.id
  BY <1>3, <1>4, ListReplaced DEF h
<1>. HIDE DEF l, n
<1>6. \A j \in DOMAIN l : HandleOK(p, l[j]) BY <1>1, <1>3, <1>4, <1>5
<1>7. Good(n) /\ Fields(n) /\ Says(p, n) /\ n.list = l
  BY <1>1, <1>2, <1>3, <1>5, <1>6, GoodListed
<1>8. /\ k \in DOMAIN n.list /\ n.list[k].id = h.id /\ DOMAIN n.list = DOMAIN m.list
      /\ \A j \in DOMAIN m.list : n.list[j].id = m.list[j].id
  BY <1>4, <1>5, <1>7 DEF h
<1>9. /\ \A f : NamedIn(n, f) <=> NamedIn(m, f)
      /\ \A f, v : DataIn(n, f, v) <=> IF f = h.id THEN v = h.ver ELSE DataIn(m, f, v)
  BY <1>1, <1>7 DEF Says
<1>. QED BY <1>7, <1>8, <1>9 DEF h, n

(* create_file. *)
LEMMA CreatedGood ==
  ASSUME NEW m, Good(m), NEW f \in Files, ~ NamedIn(m, f), Len(m.list) < ListMax,
         NeedsGc(m, NameLen) => m.list = <<>>
  PROVE  LET x == Programmed(m, NameEntry(f))
             n == [x EXCEPT !.list = <<Handle(f, LastPos(x))>> \o @]
         IN  /\ Good(n) /\ Fields(n)
             /\ \A g : NamedIn(n, g) <=> NamedIn(m, g) \/ g = f
             /\ Moves(m, NameLen) => \A g, v : DataIn(n, g, v) <=> DataIn(m, g, v)
<1>. DEFINE e == NameEntry(f)
            x == Programmed(m, e)
            q == LastPos(x)
            h == Handle(f, q)
            l == <<h>> \o m.list
<1>1. /\ e \in Entries /\ e.kind = "name" /\ e.kind \notin Data /\ e.kind # "deleted"
      /\ e.id = f /\ e.len = NameLen
  BY DEF NameEntry, Entry, Entries, Names, Data, Lens
<1>. HIDE DEF e
<1>2. NoRival(m, e)
  <2>1. SUFFICES ASSUME NEW s, NEW i, Holds(m, s, i), Rivals(m.flash[s][i], e) PROVE FALSE
    BY DEF NoRival
  <2>2. m.flash[s][i].kind = "name" /\ m.flash[s][i].id = f BY <1>1, <2>1, Kinds DEF Rivals
  <2>. QED BY <2>1, <2>2 DEF NamedIn
<1>3. Sound(m) /\ Listed(m.list) /\ DeadLen(m) <= m.oldSpace
      /\ \A k \in DOMAIN m.list : HandleOK(m, m.list[k])
  BY HandlesListed DEF Good
<1>4. /\ Sound(x) /\ x.list = m.list /\ (m.list # <<>> => More(m, x, e))
      /\ SaysAtMost(m, x, e) /\ (Moves(m, NameLen) => SaysMore(m, x, e))
      /\ DeadLen(x) <= x.oldSpace
      /\ Holds(x, q[1], q[2]) /\ Cell(x, q) = e /\ q \in Pos
  BY <1>1, <1>2, <1>3, ProgrammedSound
<1>. HIDE DEF x, q
<1>5. /\ \A g : NamedIn(x, g) <=> NamedIn(m, g) \/ g = f
      /\ \A g, v : DataIn(x, g, v) => DataIn(m, g, v)
      /\ Moves(m, NameLen) => \A g, v : DataIn(x, g, v) <=> DataIn(m, g, v)
  BY <1>1, <1>4 DEF SaysMore, SaysAtMost
<1>6. /\ h \in OpenFiles /\ h.id = f /\ h.name = q /\ h.data = NoPos /\ h.dirty = FALSE
      /\ h.ver = 0
  BY <1>4 DEF Handle, OpenFiles, NoPos, Pos
<1>. HIDE DEF h
<1>7. \A k \in DOMAIN m.list : m.list[k].id # h.id
  <2>. TAKE k \in DOMAIN m.list
  <2>1. HandleOK(m, m.list[k]) BY <1>3
  <2>2. NamedIn(m, m.list[k].id) BY <2>1 DEF HandleOK, NamedIn, Cell
  <2>. QED BY <1>6, <2>2
<1>8. /\ Listed(l) /\ Len(l) = Len(m.list) + 1
      /\ \A j \in DOMAIN l : l[j] = h \/ \E k \in DOMAIN m.list : l[j] = m.list[k]
  BY <1>3, <1>6, <1>7, ListConsed
<1>9. HandleOK(x, h)
  <2>1. \A s, i : Holds(x, s, i) /\ x.flash[s][i].kind \in Data => x.flash[s][i].id # f
    <3>1. \A v : DataIn(m, f, v) => NamedIn(m, f) BY <1>3 DEF Sound
    <3>2. \A v : ~ DataIn(x, f, v) BY <1>5, <3>1
    <3>. QED BY <3>2 DEF DataIn
  <2>. QED BY <1>1, <1>4, <1>6, <2>1 DEF HandleOK
<1>10. \A k \in DOMAIN m.list : HandleOK(x, m.list[k])
  <2>. TAKE k \in DOMAIN m.list
  <2>1. More(m, x, e) BY <1>4
  <2>. QED BY <1>1, <1>3, <2>1, HandleMore
<1>. HIDE DEF l
<1>11. \A j \in DOMAIN l : HandleOK(x, l[j]) BY <1>8, <1>9, <1>10
<1>12. Len(l) <= ListMax
  <2>1. Len(m.list) \in Nat BY <1>3 DEF Listed
  <2>. QED BY <1>8, <2>1, SizesFacts
<1>13. LET n == [x EXCEPT !.list = l] IN Good(n) /\ Fields(n) /\ Says(x, n)
  BY <1>4, <1>8, <1>11, <1>12, GoodListed
<1>14. [x EXCEPT !.list = l] = [x EXCEPT !.list = <<h>> \o @] BY <1>4 DEF l
<1>. QED BY <1>5, <1>13, <1>14 DEF h, x, q, e, Says

(* s2b_file_write. *)
LEMMA GrownGood ==
  ASSUME NEW m, Good(m), NEW k \in DOMAIN m.list
  PROVE  LET h == m.list[k]
             x == Deleted(m, h.data, h.len)
             n == [x EXCEPT !.list[k] = Grown(@)]
         IN  /\ Good(n) /\ Fields(n)
             /\ \A f : NamedIn(n, f) <=> NamedIn(m, f)
             /\ \A f, v : DataIn(n, f, v) <=> DataIn(m, f, v) /\ f # h.id
<1>. DEFINE h == m.list[k]
            x == Deleted(m, h.data, h.len)
            g == Grown(h)
            l == [m.list EXCEPT ![k] = g]
<1>1. h \in OpenFiles /\ HandleOK(m, h) /\ Listed(m.list) /\ Len(m.list) <= ListMax
      /\ Sound(m) /\ DeadLen(m) <= m.oldSpace
      /\ \A j \in DOMAIN m.list : HandleOK(m, m.list[j])
  BY GoodHandle DEF Good
<1>. HIDE DEF h
<1>2. /\ Kept(m, x) /\ Bare(x, h)
      /\ \A f : NamedIn(x, f) <=> NamedIn(m, f)
      /\ \A f, v : DataIn(x, f, v) <=> DataIn(m, f, v) /\ f # h.id
      /\ \A b : HandleOK(m, b) /\ b.id # h.id => HandleOK(x, b)
  BY <1>1, DeletedData
<1>. HIDE DEF x
<1>3. /\ g \in OpenFiles /\ g.id = h.id /\ g.name = h.name /\ g.data = h.data
      /\ g.ver \in {1, 2} /\ g.size = IndexLen /\ g.dirty = TRUE
  <2>. DEFINE v == NextVersion(h)
  <2>1. v \in {1, 2} /\ v \in Nat /\ IndexLen \in Nat BY SizesFacts DEF NextVersion, Lens
  <2>. HIDE DEF v
  <2>2. /\ g = [h EXCEPT !.ver = v, !.size = IndexLen, !.len = IndexLen, !.big = TRUE,
                         !.dirty = TRUE]
    BY DEF Grown, v
  <2>3. g \in OpenFiles BY <1>1, <2>1, <2>2 DEF OpenFiles
  <2>4. DOMAIN h = {"id", "name", "data", "ver", "size", "len", "big", "dirty"}
    BY <1>1 DEF OpenFiles
  <2>. QED BY <2>1, <2>2, <2>3, <2>4
<1>. HIDE DEF g
<1>4. /\ Listed(l) /\ Len(l) = Len(m.list) /\ DOMAIN l = DOMAIN m.list /\ l[k] = g
      /\ \A j \in DOMAIN m.list : j # k => l[j] = m.list[j] /\ m.list[j].id # g.id
  BY <1>1, <1>3, ListReplaced DEF h
<1>5. HandleOK(x, g)
  <2>1. ASSUME NEW s, NEW i, Holds(x, s, i), x.flash[s][i].kind \in Data
        PROVE  x.flash[s][i].id # h.id
    <3>1. DataIn(x, x.flash[s][i].id, x.flash[s][i].val) BY <2>1 DEF DataIn
    <3>. QED BY <1>2, <3>1
  <2>. QED BY <1>2, <1>3, <2>1 DEF HandleOK, Bare
<1>6. x.list = m.list /\ Sound(x) /\ DeadLen(x) <= x.oldSpace BY <1>1, <1>2 DEF Kept
<1>. HIDE DEF l
<1>7. \A j \in DOMAIN l : HandleOK(x, l[j]) BY <1>1, <1>2, <1>3, <1>4, <1>5
<1>8. LET n == [x EXCEPT !.list = l] IN Good(n) /\ Fields(n) /\ Says(x, n)
  BY <1>1, <1>4, <1>6, <1>7, GoodListed
<1>9. [x EXCEPT !.list = l] = [x EXCEPT !.list[k] = Grown(@)]
  BY <1>6 DEF l, g, h
<1>. QED BY <1>2, <1>8, <1>9 DEF h, x, Says

(* file_delete. *)
LEMMA ErasedGood ==
  ASSUME NEW m, Good(m), NEW k \in DOMAIN m.list
  PROVE  LET h == m.list[k]
             x == Deleted(Deleted(m, h.data, h.len), h.name, NameLen)
             n == [x EXCEPT !.list = RemoveAt(@, k)]
         IN  /\ Good(n) /\ Fields(n)
             /\ \A f : NamedIn(n, f) <=> NamedIn(m, f) /\ f # h.id
             /\ \A f, v : DataIn(n, f, v) <=> DataIn(m, f, v) /\ f # h.id
<1>. DEFINE h == m.list[k]
            y == Deleted(m, h.data, h.len)
            x == Deleted(y, h.name, NameLen)
            l == RemoveAt(m.list, k)
<1>1. h \in OpenFiles /\ HandleOK(m, h) /\ Listed(m.list) /\ Len(m.list) <= ListMax
      /\ Sound(m) /\ DeadLen(m) <= m.oldSpace
      /\ \A j \in DOMAIN m.list : HandleOK(m, m.list[j])
  BY GoodHandle DEF Good
<1>2. /\ Listed(l) /\ Len(l) <= Len(m.list)
      /\ \A j \in DOMAIN l : \E i \in DOMAIN m.list : i # k /\ l[j] = m.list[i]
  BY <1>1, ListRemoved
<1>3. \A i \in DOMAIN m.list : i # k => m.list[i].id # h.id BY <1>1 DEF Listed
<1>. HIDE DEF h, l
<1>4. /\ Kept(m, y) /\ Bare(y, h)
      /\ \A f : NamedIn(y, f) <=> NamedIn(m, f)
      /\ \A f, v : DataIn(y, f, v) <=> DataIn(m, f, v) /\ f # h.id
      /\ \A b : HandleOK(m, b) /\ b.id # h.id => HandleOK(y, b)
  BY <1>1, DeletedData
<1>. HIDE DEF y
<1>5. /\ Kept(y, x)
      /\ \A f : NamedIn(x, f) <=> NamedIn(y, f) /\ f # h.id
      /\ \A f, v : DataIn(x, f, v) <=> DataIn(y, f, v)
      /\ \A b : HandleOK(y, b) /\ b.id # h.id => HandleOK(x, b)
  BY <1>1, <1>4, DeletedName DEF Kept
<1>. HIDE DEF x
<1>6. x.list = m.list /\ Sound(x) /\ DeadLen(x) <= x.oldSpace BY <1>1, <1>4, <1>5 DEF Kept
<1>7. \A j \in DOMAIN l : HandleOK(x, l[j]) BY <1>1, <1>2, <1>3, <1>4, <1>5
<1>8. Len(l) <= ListMax
  <2>1. Len(l) \in Nat /\ Len(m.list) \in Nat BY <1>1, <1>2 DEF Listed
  <2>. QED BY <1>1, <1>2, <2>1, SizesFacts
<1>9. LET n == [x EXCEPT !.list = l] IN Good(n) /\ Fields(n) /\ Says(x, n)
  BY <1>2, <1>6, <1>7, <1>8, GoodListed
<1>10. [x EXCEPT !.list = l] = [x EXCEPT !.list = RemoveAt(@, k)] BY <1>6 DEF l
<1>. QED BY <1>4, <1>5, <1>9, <1>10 DEF h, x, y, Says

(* small_file_write and big_file_write. *)
LEMMA ChangedGood ==
  ASSUME NEW m, Good(m), NEW k \in DOMAIN m.list, NEW size \in SmallLens \cup {IndexLen}
  PROVE  LET h == m.list[k]
             l == [m.list EXCEPT ![k].ver = NextVersion(m.list[k]), ![k].size = size,
                                 ![k].dirty = TRUE]
             n == [m EXCEPT !.list = l]
         IN  Good(n) /\ Fields(n) /\ Says(m, n) /\ n.list = l
<1>. DEFINE h == m.list[k]
            v == NextVersion(h)
            g == [h EXCEPT !.ver = v, !.size = size, !.dirty = TRUE]
            l == [m.list EXCEPT ![k] = g]
<1>1. h \in OpenFiles /\ HandleOK(m, h) /\ Listed(m.list) /\ Len(m.list) <= ListMax
      /\ Sound(m) /\ DeadLen(m) <= m.oldSpace
      /\ \A j \in DOMAIN m.list : HandleOK(m, m.list[j])
  BY GoodHandle DEF Good
<1>2. v \in {1, 2} /\ v \in Nat /\ size \in Nat BY SizesFacts DEF NextVersion, Lens
<1>3. [m.list EXCEPT ![k].ver = v, ![k].size = size, ![k].dirty = TRUE] = l
  <2>. HIDE DEF v
  <2>. QED BY <1>1 DEF Listed
<1>. HIDE DEF h, v
<1>4. g \in OpenFiles BY <1>1, <1>2 DEF OpenFiles
<1>5. DOMAIN h = {"id", "name", "data", "ver", "size", "len", "big", "dirty"}
  BY <1>1 DEF OpenFiles
<1>6. /\ g.id = h.id /\ g.name = h.name /\ g.data = h.data /\ g.len = h.len
      /\ g.ver \in {1, 2} /\ g.size = size /\ g.dirty = TRUE
  BY <1>2, <1>5
<1>. HIDE DEF g
<1>7. HandleOK(m, g) BY <1>1, <1>6 DEF HandleOK
<1>8. /\ Listed(l) /\ Len(l) = Len(m.list) /\ DOMAIN l = DOMAIN m.list /\ l[k] = g
      /\ \A j \in DOMAIN m.list : j # k => l[j] = m.list[j] /\ m.list[j].id # g.id
  BY <1>1, <1>4, <1>6, ListReplaced DEF h
<1>. HIDE DEF l
<1>9. \A j \in DOMAIN l : HandleOK(m, l[j]) BY <1>1, <1>7, <1>8
<1>10. LET n == [m EXCEPT !.list = l] IN Good(n) /\ Fields(n) /\ Says(m, n) /\ n.list = l
  BY <1>1, <1>8, <1>9, GoodListed
<1>. QED BY <1>3, <1>10 DEF h, v

(* file_lowopen, of the name at p and the data at q. *)
OpenedHandle(f, p, q, e) ==
  [Handle(f, p) EXCEPT !.data = q, !.ver = e.val, !.size = e.len, !.len = e.len,
                       !.big = e.kind = "index"]

LEMMA ReopenedGood ==
  ASSUME NEW m, Good(m), NEW f \in Files, NEW p \in Pos, NEW q \in Pos, Len(m.list) < ListMax,
         Holds(m, p[1], p[2]), Cell(m, p).kind = "name", Cell(m, p).id = f,
         Holds(m, q[1], q[2]), Cell(m, q).kind \in Data, Cell(m, q).id = f,
         \A k \in DOMAIN m.list : m.list[k].id # f
  PROVE  LET l == <<OpenedHandle(f, p, q, Cell(m, q))>> \o m.list
             n == [m EXCEPT !.list = l]
         IN  Good(n) /\ Fields(n) /\ Says(m, n) /\ n.list = l
<1>. DEFINE e == Cell(m, q)
            h == OpenedHandle(f, p, q, e)
            l == <<h>> \o m.list
<1>1. Sound(m) /\ Listed(m.list) /\ DeadLen(m) <= m.oldSpace /\ Len(m.list) <= ListMax
      /\ \A k \in DOMAIN m.list : HandleOK(m, m.list[k])
  BY HandlesListed DEF Good
<1>2. e \in Entries BY <1>1, SoundNat, HoldsFacts DEF Cell
<1>. HIDE DEF e
<1>3. e.val \in Nat /\ e.len \in Nat BY <1>2, SizesFacts DEF Entries
<1>4. /\ h \in OpenFiles /\ h.id = f /\ h.name = p /\ h.data = q /\ h.len = e.len
      /\ h.dirty = FALSE
  BY <1>3 DEF OpenedHandle, Handle, OpenFiles
<1>. HIDE DEF h
<1>5. \A s, i : Holds(m, s, i) /\ m.flash[s][i].kind \in Data /\ m.flash[s][i].id = f =>
        q = <<s, i>>
  <2>1. SUFFICES ASSUME NEW s, NEW i, Holds(m, s, i), m.flash[s][i].kind \in Data,
                        m.flash[s][i].id = f
                 PROVE  q = <<s, i>>
    OBVIOUS
  <2>2. Rivals(m.flash[s][i], m.flash[q[1]][q[2]]) BY <2>1 DEF Rivals, Cell
  <2>3. s = q[1] /\ i = q[2] BY <1>1, <2>1, <2>2 DEF Sound, One
  <2>. QED BY <2>3 DEF Pos
<1>6. HandleOK(m, h) BY <1>4, <1>5, SMTT(30) DEF HandleOK, e, Cell
<1>7. /\ Listed(l) /\ Len(l) = Len(m.list) + 1
      /\ \A j \in DOMAIN l : l[j] = h \/ \E k \in DOMAIN m.list : l[j] = m.list[k]
  BY <1>1, <1>4, ListConsed
<1>8. Len(l) <= ListMax
  <2>1. Len(m.list) \in Nat BY <1>1 DEF Listed
  <2>. QED BY <1>7, <2>1, SizesFacts
<1>. HIDE DEF l
<1>9. \A j \in DOMAIN l : HandleOK(m, l[j]) BY <1>1, <1>6, <1>7
<1>10. LET n == [m EXCEPT !.list = l] IN Good(n) /\ Fields(n) /\ Says(m, n) /\ n.list = l
  BY <1>1, <1>7, <1>8, <1>9, GoodListed
<1>. QED BY <1>10 DEF e, h, l

(* A closed directory: its last entry records at least what is dead. *)
Closed(m) ==
  /\ Sound(m) /\ m.list = <<>> /\ Len(m.chain) = 1
  /\ LET q == m.flash[m.chain[1]]
     IN  q # <<>> /\ q[Len(q)].kind = "ospace" /\ DeadLen(m) <= q[Len(q)].val

(* dir_close. *)
LEMMA ShutClosed ==
  ASSUME NEW m, Good(m), m.list = <<>>, Len(Programmed(m, OspaceEntry(m.oldSpace)).chain) = 1
  PROVE  LET n == Programmed(m, OspaceEntry(m.oldSpace))
         IN  Closed(n) /\ Fields(n) /\ (Moves(m, OspaceLen) => Says(m, n))
<1>. DEFINE e == OspaceEntry(m.oldSpace)
            n == Programmed(m, e)
            p == LastPos(n)
            q == n.flash[n.chain[1]]
<1>1. Sound(m) /\ m.oldSpace \in Nat /\ DeadLen(m) \in Nat /\ DeadLen(m) <= m.oldSpace
  BY SoundNat DEF Good
<1>2. /\ e \in Entries /\ e.kind = "ospace" /\ e.kind # "deleted" /\ e.kind # "name"
      /\ e.kind \notin Data /\ e.val = m.oldSpace /\ e.len = OspaceLen
  BY <1>1 DEF OspaceEntry, Entry, Entries, Names, Data, Lens
<1>. HIDE DEF e
<1>3. NoRival(m, e) BY <1>2, Kinds DEF NoRival, Rivals
<1>4. /\ Sound(n) /\ n.list = m.list /\ (Moves(m, OspaceLen) => SaysMore(m, n, e))
      /\ DeadLen(n) <= DeadLen(m) /\ Holds(n, p[1], p[2]) /\ Cell(n, p) = e
      /\ p = <<n.chain[1], Len(n.flash[n.chain[1]])>>
  BY <1>1, <1>2, <1>3, ProgrammedSound
<1>5. Len(n.chain) = 1 BY DEF e
<1>. HIDE DEF n, p
<1>6. q # <<>> /\ q[Len(q)] = e BY <1>4 DEF Holds, Cell
<1>7. DeadLen(n) <= q[Len(q)].val
  <2>1. DeadLen(n) \in Nat BY <1>4, SoundNat
  <2>. QED BY <1>1, <1>2, <1>4, <1>6, <2>1
<1>8. Closed(n) BY <1>2, <1>4, <1>5, <1>6, <1>7 DEF Closed
<1>9. Moves(m, OspaceLen) => Says(m, n) BY <1>2, <1>4 DEF Says, SaysMore
<1>10. Fields(n) BY <1>4, SoundNat DEF Mem
<1>. QED BY <1>8, <1>9, <1>10 DEF n, e

(* dir_lowopen. *)
CountedChain(qs) == FoldLeft(CountedSector, 0, qs)

LEMMA CountedOne ==
  ASSUME NEW qs, DOMAIN qs = {1}
  PROVE  CountedChain(qs) = CountedSector(0, qs[1])
<1>. DEFINE Step(g, s) == IF s = {} THEN 0
                          ELSE LET x == Max(s) IN CountedSector(g[s \ {x}], qs[x])
            Def(g) == g = [s \in SUBSET {1} |-> Step(g, s)]
            iter == CHOOSE g : Def(g)
            wit == [s \in SUBSET {1} |-> IF s = {} THEN 0 ELSE CountedSector(0, qs[1])]
<1>1. CountedChain(qs) = iter[{1}] BY DEF CountedChain, FoldLeft, MapThenFoldSet
<1>2. Max({1}) = 1
  <2>1. {1} \in SUBSET (1 .. 0 + 1) OBVIOUS
  <2>. QED BY <2>1, MaxTop
<1>3. SUBSET {1} = {{}, {1}} OBVIOUS
<1>4. Def(wit)
  <2>1. wit[{}] = 0 /\ wit[{1}] = CountedSector(0, qs[1]) BY <1>3
  <2>2. ASSUME NEW s \in SUBSET {1} PROVE wit[s] = Step(wit, s)
    <3>1. CASE s = {} BY <2>1, <3>1
    <3>2. CASE s = {1} BY <1>2, <2>1, <3>2
    <3>. QED BY <1>3, <3>1, <3>2
  <2>. QED BY <2>2
<1>5. Def(iter)
  <2>. HIDE DEF Def, wit
  <2>. QED BY <1>4
<1>. HIDE DEF iter
<1>6. iter[{1}] = CountedSector(iter[{}], qs[1])
  <2>1. iter[{1}] = Step(iter, {1}) BY <1>3, <1>5
  <2>2. {1} \ {Max({1})} = {} BY <1>2
  <2>. QED BY <1>2, <2>1, <2>2
<1>7. iter[{}] = 0 BY <1>3, <1>5
<1>. QED BY <1>1, <1>6, <1>7

LEMMA CountedClosed ==
  ASSUME NEW m, Closed(m)
  PROVE  LET n == CountedChain([k \in DOMAIN m.chain |-> m.flash[m.chain[k]]])
         IN  n \in Nat /\ DeadLen(m) <= n
<1>. DEFINE q  == m.flash[m.chain[1]]
            qs == [k \in DOMAIN m.chain |-> m.flash[m.chain[k]]]
<1>1. DOMAIN m.chain = {1}
  <2>1. m.chain \in Seq(Sectors) BY SoundNat DEF Closed, Mem, Chained
  <2>. QED BY <2>1 DEF Closed
<1>2. q \in Seq(Entries) /\ q # <<>> /\ q[Len(q)].kind = "ospace" /\ DeadLen(m) <= q[Len(q)].val
  BY SoundNat, MemNewest DEF Closed
<1>3. DOMAIN qs = {1} /\ qs[1] = q BY <1>1
<1>. HIDE DEF q, qs
<1>4. CountedChain(qs) = CountedThrough(0, q) BY <1>3, CountedOne DEF CountedSector, CountedThrough
<1>5. Len(q) \in 1 .. Len(q) /\ q[Len(q)] \in Entries BY <1>2
<1>6. CountedThrough(0, q) = q[Len(q)].val
  <2>1. PICK new : /\ CountedThrough(0, q) = new[Len(q)]
                   /\ \A i \in 1 .. Len(q) : new[i] = Counted(new[i - 1], q[i])
    BY <1>2, CountedFold
  <2>2. new[Len(q)] = Counted(new[Len(q) - 1], q[Len(q)]) BY <1>5, <2>1
  <2>. QED BY <1>2, <2>1, <2>2 DEF Counted
<1>7. q[Len(q)].val \in Nat BY <1>5 DEF Entries
<1>. QED BY <1>2, <1>4, <1>6, <1>7 DEF qs

-----------------------------------------------------------------------------
(* Places of the traversal and positions.                                   *)
LEMMA MemoryFields ==
  /\ Fields(Memory) /\ Memory.flash = flash /\ Memory.chain = chain
  /\ Memory.tailOff = tailOff /\ Memory.oldSpace = oldSpace /\ Memory.list = list
  /\ Memory.fault = fault
BY DEF Memory, Fields

LEMMA Became ==
  ASSUME NEW m, Fields(m), Become(m)
  PROVE  Memory' = m
BY DEF Become, Fields, Memory

LEMMA PlaceFacts ==
  ASSUME Mem(Memory)
  PROVE  /\ \A p \in Places :
              /\ p = <<p[1], p[2]>> /\ p[1] \in DOMAIN chain /\ p[2] \in Nat
              /\ Holds(Memory, PosOf(p)[1], PosOf(p)[2]) /\ PosOf(p) \in Pos
              /\ At(p) = Cell(Memory, PosOf(p)) /\ At(p) \in Entries
         /\ \A s, i : Holds(Memory, s, i) => \E p \in Places : PosOf(p) = <<s, i>>
         /\ \A p, q \in Places : PosOf(p) = PosOf(q) => p = q
<1>0. /\ Memory.flash = flash /\ Memory.chain = chain
      /\ chain \in Seq(Sectors) /\ IsInjective(chain) /\ ToSet(chain) \subseteq DOMAIN flash
      /\ \A s \in DOMAIN flash : flash[s] \in Seq(Entries)
  BY MemoryFields, MemNewest DEF Mem, Chained
<1>1. ASSUME NEW p \in Places
      PROVE  /\ p = <<p[1], p[2]>> /\ p[1] \in DOMAIN chain /\ p[2] \in DOMAIN flash[chain[p[1]]]
             /\ PosOf(p)[1] = chain[p[1]] /\ PosOf(p)[2] = p[2]
  BY DEF Places, PosOf
<1>2. ASSUME NEW p \in Places
      PROVE  /\ p[2] \in Nat
             /\ Holds(Memory, PosOf(p)[1], PosOf(p)[2]) /\ PosOf(p) \in Pos
             /\ At(p) = Cell(Memory, PosOf(p)) /\ At(p) \in Entries
  <2>1. chain[p[1]] \in ToSet(chain) BY <1>1 DEF ToSet
  <2>2. Holds(Memory, PosOf(p)[1], PosOf(p)[2]) BY <1>0, <1>1, <2>1 DEF Holds
  <2>3. At(p) = Cell(Memory, PosOf(p)) BY <1>0, <1>1 DEF At, Cell
  <2>4. PosOf(p) = <<PosOf(p)[1], PosOf(p)[2]>> BY DEF PosOf
  <2>. QED BY <1>1, <2>2, <2>3, <2>4, HoldsFacts DEF Cell
<1>3. ASSUME NEW s, NEW i, Holds(Memory, s, i)
      PROVE  \E p \in Places : PosOf(p) = <<s, i>>
  <2>1. s \in ToSet(chain) /\ i \in DOMAIN flash[s] BY <1>0, <1>3 DEF Holds
  <2>2. PICK k \in DOMAIN chain : chain[k] = s BY <2>1 DEF ToSet
  <2>3. <<k, i>> \in Places BY <2>1, <2>2 DEF Places
  <2>4. PosOf(<<k, i>>) = <<s, i>> BY <2>2 DEF PosOf
  <2>. QED BY <2>3, <2>4
<1>4. ASSUME NEW p \in Places, NEW q \in Places, PosOf(p) = PosOf(q)
      PROVE  p = q
  <2>1. chain[p[1]] = chain[q[1]] /\ p[2] = q[2] BY <1>1, <1>4
  <2>2. p[1] = q[1] BY <1>0, <1>1, <2>1 DEF IsInjective
  <2>. QED BY <1>1, <2>1, <2>2
<1>. QED BY <1>1, <1>2, <1>3, <1>4

LEMMA LiveOne ==
  ASSUME Sound(Memory), NEW kinds \in {Names, Data}, NEW f
  PROVE  \A p, q \in Live(kinds, f) : p = q
<1>1. SUFFICES ASSUME NEW p \in Live(kinds, f), NEW q \in Live(kinds, f) PROVE p = q
  OBVIOUS
<1>2. /\ p \in Places /\ At(p).kind \in kinds /\ At(p).id = f
      /\ q \in Places /\ At(q).kind \in kinds /\ At(q).id = f
  BY DEF Live
<1>3. Rivals(At(p), At(q)) BY <1>2 DEF Rivals
<1>4. /\ Holds(Memory, PosOf(p)[1], PosOf(p)[2]) /\ At(p) = Cell(Memory, PosOf(p))
      /\ Holds(Memory, PosOf(q)[1], PosOf(q)[2]) /\ At(q) = Cell(Memory, PosOf(q))
      /\ (PosOf(p) = PosOf(q) => p = q)
  BY <1>2, PlaceFacts, SoundNat
<1>5. PosOf(p)[1] = PosOf(q)[1] /\ PosOf(p)[2] = PosOf(q)[2]
  BY <1>3, <1>4 DEF Sound, One, Cell
<1>6. PosOf(p) = PosOf(q) BY <1>5 DEF PosOf
<1>. QED BY <1>4, <1>6

LEMMA FirstLive ==
  ASSUME Sound(Memory), NEW kinds \in {Names, Data}, NEW f, NEW places,
         places \subseteq Live(kinds, f), places # {}
  PROVE  First(places) \in places
<1>1. PICK p \in places : TRUE OBVIOUS
<1>2. \A q \in places : q = p BY LiveOne
<1>3. p[2] \in Nat BY PlaceFacts, SoundNat DEF Live
<1>4. \A q \in places : p[1] < q[1] \/ (p[1] = q[1] /\ p[2] <= q[2]) BY <1>2, <1>3
<1>. QED BY <1>4 DEF First

LEMMA LiveSays ==
  ASSUME Sound(Memory), NEW f
  PROVE  /\ Live(Names, f) # {} <=> NamedIn(Memory, f)
         /\ \A v : DataIn(Memory, f, v) <=> \E p \in Live(Data, f) : At(p).val = v
<1>1. ASSUME NEW s, NEW i, Holds(Memory, s, i)
      PROVE  \E p \in Places : PosOf(p) = <<s, i>> /\ At(p) = Memory.flash[s][i]
  <2>1. PICK p \in Places : PosOf(p) = <<s, i>> BY <1>1, PlaceFacts, SoundNat
  <2>2. At(p) = Cell(Memory, PosOf(p)) BY PlaceFacts, SoundNat
  <2>. QED BY <2>1, <2>2 DEF Cell
<1>2. ASSUME NEW p \in Places
      PROVE  \E s, i : Holds(Memory, s, i) /\ At(p) = Memory.flash[s][i]
  BY PlaceFacts, SoundNat DEF Cell
<1>3. Live(Names, f) # {} <=> NamedIn(Memory, f)
  BY <1>1, <1>2, Kinds DEF Live, NamedIn
<1>4. ASSUME NEW v PROVE DataIn(Memory, f, v) <=> \E p \in Live(Data, f) : At(p).val = v
  BY <1>1, <1>2 DEF Live, DataIn
<1>. QED BY <1>3, <1>4

-----------------------------------------------------------------------------
(* The inductive invariant. *)
IInv ==
  /\ dirOpen \in BOOLEAN
  /\ dirOpen => Good(Memory)
  /\ ~ dirOpen => Closed(Memory)

LEMMA InvSound ==
  ASSUME IInv
  PROVE  Sound(Memory) /\ Handles(Memory)
<1>1. CASE dirOpen BY <1>1 DEF IInv, Good
<1>2. CASE ~ dirOpen
  <2>1. Closed(Memory) BY <1>2 DEF IInv
  <2>2. Memory.list \in Seq(OpenFiles) /\ Len(Memory.list) <= ListMax /\ DOMAIN Memory.list = {}
    BY <2>1, SizesFacts DEF Closed
  <2>. QED BY <2>1, <2>2 DEF Closed, Handles
<1>. QED BY <1>1, <1>2

LEMMA InvTypes ==
  ASSUME IInv
  PROVE  TypeOK
<1>1. Sound(Memory) /\ Handles(Memory) /\ dirOpen \in BOOLEAN
  BY InvSound DEF IInv
<1>2. DOMAIN flash = ToSet(chain) /\ Stored(flash) /\ Chained(flash, chain) /\ oldSpace \in Nat
      /\ fault \in BOOLEAN
  BY <1>1, MemoryFields DEF Sound, Whole, Mem, Tailed
<1>3. \A s \in DOMAIN flash : \A i \in DOMAIN flash[s] : flash[s][i] \in Entries
  BY <1>2 DEF Stored
<1>4. ASSUME NEW e \in Entries
      PROVE  /\ e.kind \in Names \cup Data \cup {"ospace", "deleted"}
             /\ e.id \in Files \cup {Null} /\ e.val \in Nat
             /\ e.len \in SmallLens \cup {NameLen, IndexLen, OspaceLen}
  BY DEF Entries, Lens
<1>5. \A s \in DOMAIN flash : EndOf(flash[s]) <= SectorSize BY <1>2 DEF Stored, EndOf
<1>6. tailOff \in Nat
  <2>1. /\ tailOff = HeadLen + LengthOf(flash[chain[1]]) /\ LengthOf(flash[chain[1]]) \in Nat
    BY <1>1, MemNewest, MemoryFields DEF Sound, Whole
  <2>. QED BY <2>1, SizesFacts
<1>7. chain # <<>> /\ IsInjective(chain) /\ ToSet(chain) \subseteq Sectors
  BY <1>2 DEF Chained, Stored
<1>8. Len(list) <= ListMax BY <1>1, MemoryFields DEF Handles
<1>. QED BY <1>1, <1>2, <1>3, <1>4, <1>5, <1>7, <1>8, <1>6 DEF TypeOK

LEMMA AtMostOne ==
  ASSUME NEW S, \A p, q \in S : p = q
  PROVE  Cardinality(S) <= 1
<1>1. CASE S = {} BY <1>1, FS_EmptySet
<1>2. CASE S # {}
  <2>1. PICK p \in S : TRUE BY <1>2
  <2>2. S = {p} BY <2>1
  <2>3. Cardinality({p}) = 1 BY FS_Singleton
  <2>. QED BY <2>2, <2>3
<1>. QED BY <1>1, <1>2

LEMMA InvOne ==
  ASSUME IInv
  PROVE  OneEntry
<1>1. Sound(Memory) BY InvSound
<1>2. ASSUME NEW f, NEW kinds \in {Names, Data} PROVE Cardinality(Live(kinds, f)) <= 1
  BY <1>1, LiveOne, AtMostOne
<1>. QED BY <1>2 DEF OneEntry

LEMMA InvPositions ==
  ASSUME IInv
  PROVE  PositionsTrue
<1>1. Sound(Memory) /\ Handles(Memory) BY InvSound
<1>2. SUFFICES ASSUME NEW k \in DOMAIN list
               PROVE  LET f == list[k].id IN
                      /\ {PosOf(p) : p \in Live(Names, f)} = {list[k].name}
                      /\ \A p \in Live(Data, f) : PosOf(p) = list[k].data
                      /\ ~ list[k].dirty /\ list[k].ver # 0 => Live(Data, f) # {}
  BY DEF PositionsTrue
<1>. DEFINE h == list[k]
            f == h.id
<1>3. h \in OpenFiles /\ HandleOK(Memory, h) BY <1>1, MemoryFields DEF Handles
<1>. HIDE DEF h
<1>4. \A p \in Places : /\ Holds(Memory, PosOf(p)[1], PosOf(p)[2])
                        /\ At(p) = Memory.flash[PosOf(p)[1]][PosOf(p)[2]]
                        /\ PosOf(p) = <<PosOf(p)[1], PosOf(p)[2]>>
  BY <1>1, PlaceFacts, SoundNat DEF Cell, PosOf
<1>5. {PosOf(p) : p \in Live(Names, f)} = {h.name}
  <2>1. PICK p \in Places : PosOf(p) = <<h.name[1], h.name[2]>>
    BY <1>1, <1>3, PlaceFacts, SoundNat DEF HandleOK
  <2>2. h.name = <<h.name[1], h.name[2]>> BY <1>3 DEF OpenFiles, Pos
  <2>3. At(p) = Cell(Memory, h.name) BY <1>1, <2>1, <2>2, PlaceFacts, SoundNat
  <2>4. p \in Live(Names, f) BY <1>3, <2>3, Kinds DEF HandleOK, Live
  <2>5. \A q \in Live(Names, f) : q = p BY <1>1, <2>4, LiveOne
  <2>. QED BY <2>1, <2>2, <2>4, <2>5
<1>6. \A p \in Live(Data, f) : PosOf(p) = h.data
  <2>. TAKE p \in Live(Data, f)
  <2>1. p \in Places /\ At(p).kind \in Data /\ At(p).id = f BY DEF Live
  <2>. DEFINE s == PosOf(p)[1]
              i == PosOf(p)[2]
  <2>2. Holds(Memory, s, i) /\ Memory.flash[s][i].kind \in Data /\ Memory.flash[s][i].id = f
        /\ PosOf(p) = <<s, i>>
    BY <1>4, <2>1
  <2>. HIDE DEF s, i
  <2>. QED BY <1>3, <2>2 DEF HandleOK
<1>7. ~ h.dirty /\ h.ver # 0 => Live(Data, f) # {}
  <2>1. SUFFICES ASSUME ~ h.dirty, h.ver # 0 PROVE Live(Data, f) # {} OBVIOUS
  <2>2. \E s, i : Holds(Memory, s, i) /\ Memory.flash[s][i].kind \in Data
                  /\ Memory.flash[s][i].id = f
    BY <1>3, <2>1 DEF HandleOK
  <2>3. \E v : DataIn(Memory, f, v) BY <2>2 DEF DataIn
  <2>. QED BY <1>1, <2>3, LiveSays
<1>. QED BY <1>5, <1>6, <1>7 DEF h

LEMMA InvDead ==
  ASSUME IInv
  PROVE  DeadCounted
<1>. DEFINE dead == {q \in {PosOf(p) : p \in Places} : flash[q[1]][q[2]].kind = "deleted"}
<1>1. SUFFICES ASSUME dirOpen PROVE LengthOf([q \in dead |-> flash[q[1]][q[2]]]) <= oldSpace
  BY DEF DeadCounted
<1>2. Good(Memory) /\ Memory.flash = flash /\ Memory.oldSpace = oldSpace /\ Mem(Memory)
  BY <1>1, MemoryFields, InvSound, SoundNat DEF IInv
<1>3. dead = Dead(Memory)
  <2>1. ASSUME NEW q \in dead PROVE q \in Dead(Memory)
    <3>1. PICK p \in Places : q = PosOf(p) OBVIOUS
    <3>2. Holds(Memory, q[1], q[2]) /\ q \in Pos /\ q = <<q[1], q[2]>>
      BY <1>2, <3>1, PlaceFacts DEF PosOf
    <3>. QED BY <1>2, <3>2, HoldsFacts DEF Dead, Cell, Holds
  <2>2. ASSUME NEW q \in Dead(Memory) PROVE q \in dead
    <3>1. /\ Holds(Memory, q[1], q[2]) /\ q = <<q[1], q[2]>>
          /\ flash[q[1]][q[2]].kind = "deleted"
      BY <1>2 DEF Dead, Cell
    <3>2. \E p \in Places : PosOf(p) = <<q[1], q[2]>> BY <1>2, <3>1, PlaceFacts
    <3>. QED BY <3>1, <3>2
  <2>. QED BY <2>1, <2>2
<1>. HIDE DEF dead
<1>4. LengthOf([q \in dead |-> flash[q[1]][q[2]]]) = DeadLen(Memory)
  BY <1>2, <1>3 DEF DeadLen, Cell
<1>. QED BY <1>2, <1>4 DEF Good

-----------------------------------------------------------------------------
(* What a directory shows of its files. *)
VersionsOf(m, f) == {v \in Nat : DataIn(m, f, v)}

Version(m, f) == IF VersionsOf(m, f) = {} THEN 0 ELSE Pick(VersionsOf(m, f))

Shows(m) ==
  [f \in Files |-> IF NamedIn(m, f) THEN [named |-> TRUE, version |-> Version(m, f)]
                   ELSE [named |-> FALSE, version |-> 0]]

LEMMA SavedShown ==
  ASSUME Sound(Memory)
  PROVE  SavedIn = Shows(Memory)
<1>1. ASSUME NEW f \in Files
      PROVE  (IF Live(Data, f) = {} THEN 0 ELSE At(First(Live(Data, f))).val) = Version(Memory, f)
  <2>1. CASE Live(Data, f) = {}
    <3>1. VersionsOf(Memory, f) = {} BY <2>1, LiveSays DEF VersionsOf
    <3>. QED BY <2>1, <3>1 DEF Version
  <2>2. CASE Live(Data, f) # {}
    <3>. DEFINE p == First(Live(Data, f))
    <3>1. p \in Live(Data, f) BY <2>2, FirstLive
    <3>. HIDE DEF p
    <3>2. \A q \in Live(Data, f) : q = p BY <3>1, LiveOne
    <3>3. \A v : DataIn(Memory, f, v) <=> v = At(p).val BY <3>1, <3>2, LiveSays
    <3>4. At(p).val \in Nat BY <3>1, SoundNat, PlaceFacts DEF Live, Entries
    <3>5. VersionsOf(Memory, f) = {At(p).val} BY <3>3, <3>4 DEF VersionsOf
    <3>6. Version(Memory, f) = At(p).val BY <3>5, PickIn DEF Version
    <3>. QED BY <2>2, <3>6 DEF p
  <2>. QED BY <2>1, <2>2
<1>2. ASSUME NEW f \in Files PROVE Live(Names, f) = {} <=> ~ NamedIn(Memory, f) BY LiveSays
<1>3. ASSUME NEW f \in Files PROVE SavedIn[f] = Shows(Memory)[f]
  BY <1>1, <1>2 DEF SavedIn, Shows
<1>. QED BY <1>3 DEF SavedIn, Shows

LEMMA VersionSame ==
  ASSUME NEW m, NEW n, NEW f, \A v : DataIn(n, f, v) <=> DataIn(m, f, v)
  PROVE  Version(n, f) = Version(m, f)
<1>1. VersionsOf(n, f) = VersionsOf(m, f) BY DEF VersionsOf
<1>. QED BY <1>1 DEF Version

LEMMA VersionNone ==
  ASSUME NEW m, NEW f, \A v : ~ DataIn(m, f, v)
  PROVE  Version(m, f) = 0
<1>1. VersionsOf(m, f) = {} BY DEF VersionsOf
<1>. QED BY <1>1 DEF Version

LEMMA Versioned ==
  ASSUME NEW m, NEW n, NEW f \in Files, NEW ver, NamedIn(m, f),
         \A g : NamedIn(n, g) <=> NamedIn(m, g),
         Version(n, f) = ver, \A g : g # f => Version(n, g) = Version(m, g)
  PROVE  Shows(m)[f].named /\ Shows(n) = [Shows(m) EXCEPT ![f].version = ver]
<1>. DEFINE M == Shows(m)
            N == Shows(n)
            K == [M EXCEPT ![f].version = ver]
            r == [named |-> TRUE, version |-> Version(m, f)]
<1>1. DOMAIN M = Files /\ DOMAIN N = Files /\ DOMAIN K = Files BY DEF Shows
<1>2. /\ M[f] = r /\ N[f] = [named |-> TRUE, version |-> ver]
      /\ \A g \in Files : g # f => N[g] = M[g]
  BY DEF Shows
<1>3. N = [g \in Files |-> N[g]] BY DEF Shows
<1>4. [r EXCEPT !.version = ver] = [named |-> TRUE, version |-> ver]
  <2>. DEFINE c == [r EXCEPT !.version = ver]
  <2>1. /\ DOMAIN r = {"named", "version"} /\ r.named = TRUE
        /\ c = [k \in DOMAIN r |-> c[k]]
    OBVIOUS
  <2>. HIDE DEF r
  <2>2. DOMAIN c = {"named", "version"} /\ c.named = TRUE /\ c.version = ver BY <2>1
  <2>. HIDE DEF c
  <2>3. c = [named |-> TRUE, version |-> ver] BY <2>1, <2>2
  <2>. QED BY <2>3 DEF c
<1>. HIDE DEF M, N, r
<1>5. K = [g \in Files |-> K[g]] BY <1>1
<1>6. K[f] = [M[f] EXCEPT !.version = ver] /\ \A g \in Files : g # f => K[g] = M[g] BY <1>1
<1>7. \A g \in Files : N[g] = K[g] BY <1>2, <1>4, <1>6
<1>. HIDE DEF K
<1>8. N = K BY <1>3, <1>5, <1>7
<1>. QED BY <1>2, <1>8 DEF M, N, K, r

LEMMA ShowsSame ==
  ASSUME NEW m, NEW n, Says(m, n)
  PROVE  Shows(n) = Shows(m)
<1>1. \A f : Version(n, f) = Version(m, f) BY VersionSame DEF Says
<1>. QED BY <1>1 DEF Says, Shows

(* The data of f, and of no other file, is another version.                 *)
Replaces(m, n, f, ver) ==
  \A g, v : DataIn(n, g, v) <=> IF g = f THEN v = ver ELSE DataIn(m, g, v)

ShowsVersion(m, n, f, ver) ==
  Shows(m)[f].named /\ Shows(n) = [Shows(m) EXCEPT ![f].version = ver]

LEMMA ShowsSave ==
  ASSUME NEW m, NEW n, NEW f \in Files, NEW ver \in Nat, NamedIn(m, f),
         \A g : NamedIn(n, g) <=> NamedIn(m, g), Replaces(m, n, f, ver)
  PROVE  ShowsVersion(m, n, f, ver)
<1>1. VersionsOf(n, f) = {ver} BY DEF VersionsOf, Replaces
<1>2. Version(n, f) = ver BY <1>1, PickIn DEF Version
<1>3. \A g : g # f => Version(n, g) = Version(m, g) BY VersionSame DEF Replaces
<1>. QED BY <1>2, <1>3, Versioned DEF ShowsVersion

LEMMA ShowsForget ==
  ASSUME NEW m, NEW n, NEW f \in Files, NamedIn(m, f),
         \A g : NamedIn(n, g) <=> NamedIn(m, g),
         \A g, v : DataIn(n, g, v) <=> DataIn(m, g, v) /\ g # f
  PROVE  Shows(m)[f].named /\ Shows(n) = [Shows(m) EXCEPT ![f].version = 0]
<1>1. Version(n, f) = 0 BY VersionNone
<1>2. \A g : g # f => Version(n, g) = Version(m, g) BY VersionSame
<1>. QED BY <1>1, <1>2, Versioned

LEMMA ShowsCreate ==
  ASSUME NEW m, NEW n, NEW f \in Files, Sound(m), ~ NamedIn(m, f),
         \A g : NamedIn(n, g) <=> NamedIn(m, g) \/ g = f,
         \A g, v : DataIn(n, g, v) <=> DataIn(m, g, v)
  PROVE  ~ Shows(m)[f].named /\ Shows(n) = [Shows(m) EXCEPT ![f] = [named |-> TRUE, version |-> 0]]
<1>1. \A v : ~ DataIn(n, f, v) BY DEF Sound
<1>2. Version(n, f) = 0 BY <1>1, VersionNone
<1>3. \A g : Version(n, g) = Version(m, g) BY VersionSame
<1>4. ~ Shows(m)[f].named BY DEF Shows
<1>. QED BY <1>2, <1>3, <1>4 DEF Shows

LEMMA ShowsDelete ==
  ASSUME NEW m, NEW n, NEW f \in Files,
         \A g : NamedIn(n, g) <=> NamedIn(m, g) /\ g # f,
         \A g, v : DataIn(n, g, v) <=> DataIn(m, g, v) /\ g # f
  PROVE  Shows(n) = [Shows(m) EXCEPT ![f] = [named |-> FALSE, version |-> 0]]
<1>1. \A g : g # f => Version(n, g) = Version(m, g) BY VersionSame
<1>. QED BY <1>1 DEF Shows

-----------------------------------------------------------------------------
(* The steps.  Each keeps the invariant and is one of NF2FSNames, or leaves  *)
(* what the directory shows as it was.                                      *)
Step(m, n) ==
  \/ Says(m, n)
  \/ \E f \in Files :
       \/ ~ NamedIn(m, f) /\ Sound(m) /\ (\A g : NamedIn(n, g) <=> NamedIn(m, g) \/ g = f)
          /\ (\A g, v : DataIn(n, g, v) <=> DataIn(m, g, v))
       \/ \E ver \in {1, 2} :
            NamedIn(m, f) /\ (\A g : NamedIn(n, g) <=> NamedIn(m, g))
            /\ (\A g, v : DataIn(n, g, v) <=> IF g = f THEN v = ver ELSE DataIn(m, g, v))
       \/ NamedIn(m, f) /\ (\A g : NamedIn(n, g) <=> NamedIn(m, g))
          /\ (\A g, v : DataIn(n, g, v) <=> DataIn(m, g, v) /\ g # f)
       \/ (\A g : NamedIn(n, g) <=> NamedIn(m, g) /\ g # f)
          /\ (\A g, v : DataIn(n, g, v) <=> DataIn(m, g, v) /\ g # f)

LEMMA IndexFacts ==
  ASSUME NEW f, IsOpen(f)
  PROVE  IndexOf(f) \in DOMAIN list /\ list[IndexOf(f)].id = f
BY DEF IsOpen, IndexOf

LEMMA OpenDirectory ==
  ASSUME IInv, NEW f, IsOpen(f)
  PROVE  dirOpen /\ Good(Memory) /\ Memory.list # <<>>
<1>1. list # <<>> BY DEF IsOpen
<1>2. dirOpen BY <1>1, MemoryFields DEF IInv, Closed
<1>. QED BY <1>1, <1>2, MemoryFields DEF IInv

LEMMA NamedOpen ==
  ASSUME IInv, NEW f, IsOpen(f)
  PROVE  NamedIn(Memory, f)
<1>. DEFINE h == Memory.list[IndexOf(f)]
<1>1. IndexOf(f) \in DOMAIN Memory.list /\ h.id = f BY IndexFacts, MemoryFields
<1>2. HandleOK(Memory, h) BY <1>1, OpenDirectory, GoodHandle
<1>. HIDE DEF h
<1>. QED BY <1>1, <1>2 DEF HandleOK, NamedIn, Cell

LEMMA NothingChanged ==
  ASSUME IInv, UNCHANGED vars
  PROVE  IInv' /\ Memory' = Memory
BY DEF IInv, vars, Memory

(* An assertion that fails changes nothing. *)
LEMMA FaultStep ==
  ASSUME IInv, dirOpen, fault' = TRUE,
         UNCHANGED <<flash, chain, tailOff, oldSpace, list, dirOpen>>
  PROVE  IInv' /\ Step(Memory, Memory')
<1>. DEFINE m == Memory
            n == Memory'
<1>1. Good(m) BY DEF IInv
<1>2. /\ Fields(n) /\ n.flash = m.flash /\ n.chain = m.chain /\ n.tailOff = m.tailOff
      /\ n.oldSpace = m.oldSpace /\ n.list = m.list /\ n.fault \in BOOLEAN
  BY DEF Memory, Fields
<1>3. dirOpen' /\ dirOpen' \in BOOLEAN OBVIOUS
<1>. HIDE DEF m, n
<1>4. Sound(n) /\ DeadLen(n) = DeadLen(m) /\ Says(m, n)
      /\ \A h : HandleOK(m, h) => HandleOK(n, h)
  BY <1>1, <1>2, ListOnly DEF Good
<1>5. Handles(n) BY <1>1, <1>2, <1>4, HandlesListed DEF Good
<1>6. Good(n) BY <1>1, <1>2, <1>4, <1>5 DEF Good
<1>7. IInv' BY <1>3, <1>6 DEF IInv, n
<1>. QED BY <1>4, <1>7 DEF Step, m, n

(* What the assumptions say of a GC that finds no file open. *)
LEMMA AllowedMoves ==
  ASSUME NEW m, NEW len, QuietGc, IndexesMove, Allowed(m, len)
  PROVE  Moves(m, len)
<1>1. SUFFICES ASSUME NeedsGc(m, len) PROVE ~ Moved(m).lost BY DEF Moves
<1>2. DOMAIN m.list = {} /\ ~ Moved(Cleared(m)).lost BY <1>1 DEF Allowed
<1>3. Cleared(m) = m BY <1>2, UndoneEmpty DEF Cleared
<1>. QED BY <1>2, <1>3

LEMMA CreateStep ==
  ASSUME QuietGc, IInv, NEW f \in Files, Create(f)
  PROVE  IInv' /\ (IndexesMove => Step(Memory, Memory'))
<1>. DEFINE x == Programmed(Memory, NameEntry(f))
            n == [x EXCEPT !.list = <<Handle(f, LastPos(x))>> \o @]
<1>1. dirOpen /\ Len(list) < ListMax /\ Live(Names, f) = {} /\ Allowed(Memory, NameLen)
      /\ Become(n) /\ UNCHANGED dirOpen
  BY DEF Create
<1>2. Good(Memory) /\ Sound(Memory) /\ dirOpen \in BOOLEAN
  BY <1>1 DEF IInv, Good
<1>3. ~ NamedIn(Memory, f) BY <1>1, <1>2, LiveSays
<1>4. NeedsGc(Memory, NameLen) => Memory.list = <<>> BY <1>1, MemoryFields DEF Allowed
<1>5. /\ Good(n) /\ Fields(n)
      /\ \A g : NamedIn(n, g) <=> NamedIn(Memory, g) \/ g = f
      /\ Moves(Memory, NameLen) => \A g, v : DataIn(n, g, v) <=> DataIn(Memory, g, v)
  BY <1>1, <1>2, <1>3, <1>4, MemoryFields, CreatedGood
<1>. HIDE DEF n
<1>6. Memory' = n BY <1>1, <1>5, Became
<1>7. IInv' BY <1>1, <1>2, <1>5, <1>6 DEF IInv
<1>8. IndexesMove => Moves(Memory, NameLen) BY <1>1, AllowedMoves
<1>9. IndexesMove => Step(Memory, n) BY <1>2, <1>3, <1>5, <1>8 DEF Step
<1>. QED BY <1>6, <1>7, <1>9

LEMMA OpenStep ==
  ASSUME IInv, NEW f \in Files, Open(f)
  PROVE  IInv' /\ Step(Memory, Memory')
<1>. DEFINE m    == Memory
            name == First(Live(Names, f))
            p    == PosOf(name)
            seen(start) == {q \in Live(Data, f) :
                              (q[1] = name[1] /\ q[2] >= start) \/ (q[1] > name[1] /\ start = 0)}
            hit(start)  == First(seen(start))
            q(start) == PosOf(hit(start))
            l(start) == <<OpenedHandle(f, p, q(start), At(hit(start)))>> \o list
<1>0. /\ dirOpen /\ Len(list) < ListMax /\ Live(Names, f) # {} /\ ~ IsOpen(f)
      /\ UNCHANGED <<flash, chain, tailOff, oldSpace, dirOpen>>
  BY DEF Open
<1>1. Good(m) /\ Sound(m) /\ dirOpen \in BOOLEAN
  BY <1>0 DEF IInv, Good
<1>2. \E start : \/ fault' = TRUE /\ UNCHANGED list
                 \/ seen(start) # {} /\ list' = l(start) /\ UNCHANGED fault
  <2>. HIDE DEF name
  <2>. QED BY DEF Open, OpenedHandle, name
<1>3. PICK start : \/ fault' = TRUE /\ UNCHANGED list
                   \/ seen(start) # {} /\ list' = l(start) /\ UNCHANGED fault
  BY <1>2
<1>4. CASE fault' = TRUE /\ UNCHANGED list BY <1>0, <1>4, FaultStep
<1>5. CASE seen(start) # {} /\ list' = l(start) /\ UNCHANGED fault
  <2>1. name \in Live(Names, f) /\ hit(start) \in Live(Data, f)
    <3>1. seen(start) \subseteq Live(Data, f) /\ seen(start) # {} BY <1>5
    <3>. HIDE DEF seen
    <3>2. hit(start) \in Live(Data, f) BY <1>1, <3>1, FirstLive
    <3>. QED BY <1>0, <1>1, <3>2, FirstLive
  <2>. DEFINE z == q(start)
              e == At(hit(start))
  <2>2. /\ p \in Pos /\ Holds(m, p[1], p[2]) /\ Cell(m, p).kind = "name" /\ Cell(m, p).id = f
        /\ z \in Pos /\ Holds(m, z[1], z[2]) /\ Cell(m, z).kind \in Data /\ Cell(m, z).id = f
        /\ Cell(m, z) = e
    <3>. HIDE DEF name, hit
    <3>. QED BY <1>1, <2>1, PlaceFacts, SoundNat, Kinds DEF Live
  <2>. DEFINE n == [m EXCEPT !.list = l(start)]
  <2>3. Len(m.list) < ListMax /\ \A k \in DOMAIN m.list : m.list[k].id # f
    BY <1>0, MemoryFields DEF IsOpen
  <2>4. l(start) = <<OpenedHandle(f, p, z, Cell(m, z))>> \o m.list
    BY <2>2, MemoryFields
  <2>. HIDE DEF m, p, z, e, l
  <2>5. Good(n) /\ Fields(n) /\ Says(m, n) /\ n.list = l(start)
    <3>1. LET r == <<OpenedHandle(f, p, z, Cell(m, z))>> \o m.list
              w == [m EXCEPT !.list = r]
          IN  Good(w) /\ Fields(w) /\ Says(m, w) /\ w.list = r
      BY <1>1, <2>2, <2>3, ReopenedGood
    <3>. QED BY <2>4, <3>1
  <2>6. Memory' = n BY <1>0, <1>5 DEF Memory, m
  <2>. HIDE DEF n
  <2>7. IInv' BY <1>0, <1>1, <1>5, <2>5, <2>6 DEF IInv
  <2>. QED BY <2>5, <2>6, <2>7 DEF Step, m
<1>. QED BY <1>3, <1>4, <1>5

LEMMA WriteStep ==
  ASSUME IInv, NEW f \in Files, Write(f)
  PROVE  IInv' /\ Step(Memory, Memory')
<1>. DEFINE k == IndexOf(f)
            l(size) == [Memory.list EXCEPT ![k].ver = NextVersion(Memory.list[k]),
                                           ![k].size = size, ![k].dirty = TRUE]
<1>1. IsOpen(f) /\ UNCHANGED <<flash, chain, tailOff, oldSpace, dirOpen, fault>>
  BY DEF Write
<1>2. PICK size \in SmallLens \cup {IndexLen} : list' = l(size) BY MemoryFields DEF Write
<1>3. dirOpen /\ Good(Memory) /\ dirOpen \in BOOLEAN
  BY <1>1, OpenDirectory DEF IInv
<1>4. k \in DOMAIN Memory.list BY <1>1, IndexFacts, MemoryFields
<1>. DEFINE n == [Memory EXCEPT !.list = l(size)]
<1>. HIDE DEF k
<1>5. Good(n) /\ Fields(n) /\ Says(Memory, n) /\ n.list = l(size)
  BY <1>3, <1>4, ChangedGood
<1>6. Memory' = n BY <1>1, <1>2 DEF Memory
<1>. HIDE DEF n
<1>7. IInv' BY <1>1, <1>3, <1>5, <1>6 DEF IInv
<1>. QED BY <1>5, <1>6, <1>7 DEF Step

LEMMA GrowBigStep ==
  ASSUME IInv, NEW f \in Files, GrowBig(f)
  PROVE  IInv' /\ Step(Memory, Memory')
<1>. DEFINE k == IndexOf(f)
            h == Memory.list[k]
            x == Deleted(Memory, h.data, h.len)
            n == [x EXCEPT !.list[k] = Grown(@)]
<1>1. IsOpen(f) /\ Become(n) /\ UNCHANGED dirOpen BY MemoryFields DEF GrowBig
<1>2. dirOpen /\ Good(Memory) /\ dirOpen \in BOOLEAN
  BY <1>1, OpenDirectory DEF IInv
<1>3. k \in DOMAIN Memory.list /\ h.id = f BY <1>1, IndexFacts, MemoryFields
<1>4. /\ Good(n) /\ Fields(n)
      /\ \A g : NamedIn(n, g) <=> NamedIn(Memory, g)
      /\ \A g, v : DataIn(n, g, v) <=> DataIn(Memory, g, v) /\ g # h.id
  <2>. HIDE DEF k
  <2>. QED BY <1>2, <1>3, GrownGood
<1>5. NamedIn(Memory, f) BY <1>1, NamedOpen
<1>. HIDE DEF n, h, k
<1>6. Memory' = n BY <1>1, <1>4, Became
<1>7. IInv' BY <1>1, <1>2, <1>4, <1>6 DEF IInv
<1>. QED BY <1>3, <1>4, <1>5, <1>6, <1>7 DEF Step

(* A flush in the directory as it is: no file is open when it comes to a GC. *)
LEMMA FlushedStep ==
  ASSUME QuietGc, IInv, NEW f \in Files, IsOpen(f),
         LET k == IndexOf(f) IN list[k].dirty /\ FlushAllowed(list[k])
  PROVE  LET n == Flushed(IndexOf(f))
             k == IndexOf(f)
         IN  /\ Good(n) /\ Fields(n) /\ k \in DOMAIN n.list
             /\ NamedIn(Memory, f) /\ list[k].ver \in {1, 2}
             /\ \A g : NamedIn(n, g) <=> NamedIn(Memory, g)
             /\ \A g, v : DataIn(n, g, v) <=> IF g = f THEN v = list[k].ver
                                              ELSE DataIn(Memory, g, v)
<1>. DEFINE k == IndexOf(f)
            h == Memory.list[k]
            n == Flush(Memory, k)
<1>1. dirOpen /\ Good(Memory) /\ Memory.list # <<>> BY OpenDirectory
<1>2. k \in DOMAIN Memory.list /\ h.id = f /\ h = list[k] /\ Memory.list = list
  BY IndexFacts, MemoryFields
<1>3. n = Flushed(k)
  BY <1>2 DEF Flush, Refilled, Flushed
<1>4. h.dirty /\ ~ NeedsGc(Deleted(Memory, h.data, h.len), h.size)
  <2>. DEFINE d == Deleted(Memory, h.data, h.len)
  <2>1. "list" \in DOMAIN Memory BY DEF Memory
  <2>2. d.list = Memory.list BY <2>1 DEF Deleted
  <2>3. h.dirty /\ Allowed(d, h.size) BY <1>2 DEF FlushAllowed
  <2>. HIDE DEF d
  <2>4. ~ NeedsGc(d, h.size) BY <1>1, <2>2, <2>3 DEF Allowed
  <2>. QED BY <2>3, <2>4 DEF d
<1>5. HandleOK(Memory, h) BY <1>1, <1>2, GoodHandle
<1>6. h.ver \in {1, 2} BY <1>4, <1>5 DEF HandleOK
<1>7. /\ Good(n) /\ Fields(n) /\ k \in DOMAIN n.list
      /\ \A g : NamedIn(n, g) <=> NamedIn(Memory, g)
      /\ \A g, v : DataIn(n, g, v) <=> IF g = h.id THEN v = h.ver ELSE DataIn(Memory, g, v)
  <2>. HIDE DEF k, n
  <2>. QED BY <1>1, <1>2, <1>4, FlushGood DEF n
<1>8. NamedIn(Memory, f) BY NamedOpen
<1>. HIDE DEF n, h
<1>. QED BY <1>2, <1>3, <1>6, <1>7, <1>8

LEMMA SyncStep ==
  ASSUME QuietGc, IInv, NEW f \in Files, Sync(f)
  PROVE  IInv' /\ Step(Memory, Memory')
<1>. DEFINE k == IndexOf(f)
            n == Flushed(k)
<1>1. IsOpen(f) /\ list[k].dirty /\ FlushAllowed(list[k]) /\ Become(n)
      /\ UNCHANGED dirOpen
  BY DEF Sync
<1>2. /\ Good(n) /\ Fields(n) /\ NamedIn(Memory, f) /\ list[k].ver \in {1, 2}
      /\ \A g : NamedIn(n, g) <=> NamedIn(Memory, g)
      /\ \A g, v : DataIn(n, g, v) <=> IF g = f THEN v = list[k].ver ELSE DataIn(Memory, g, v)
  BY <1>1, FlushedStep
<1>3. dirOpen /\ dirOpen \in BOOLEAN BY <1>1, OpenDirectory DEF IInv
<1>. HIDE DEF n, k
<1>4. Memory' = n BY <1>1, <1>2, Became
<1>5. IInv' BY <1>1, <1>2, <1>3, <1>4 DEF IInv
<1>. QED BY <1>2, <1>4, <1>5 DEF Step

LEMMA CloseStep ==
  ASSUME QuietGc, IInv, NEW f \in Files, Close(f)
  PROVE  IInv' /\ Step(Memory, Memory')
<1>. DEFINE k == IndexOf(f)
            x == IF list[k].dirty THEN Flushed(k) ELSE Memory
            n == [x EXCEPT !.list = RemoveAt(@, k)]
<1>1. IsOpen(f) /\ (list[k].dirty => FlushAllowed(list[k])) /\ Become(n)
      /\ UNCHANGED dirOpen
  BY DEF Close
<1>2. dirOpen /\ Good(Memory) /\ dirOpen \in BOOLEAN
  BY <1>1, OpenDirectory DEF IInv
<1>3. Good(x) /\ k \in DOMAIN x.list /\ Step(Memory, x)
      /\ \A y : Says(x, y) => Step(Memory, y)
  <2>1. CASE list[k].dirty
    <3>1. /\ Good(x) /\ k \in DOMAIN x.list /\ NamedIn(Memory, f) /\ list[k].ver \in {1, 2}
          /\ \A g : NamedIn(x, g) <=> NamedIn(Memory, g)
          /\ \A g, v : DataIn(x, g, v) <=> IF g = f THEN v = list[k].ver ELSE DataIn(Memory, g, v)
      BY <1>1, <2>1, FlushedStep
    <3>. HIDE DEF x, k
    <3>. QED BY <3>1 DEF Step, Says
  <2>2. CASE ~ list[k].dirty
    <3>1. x = Memory BY <2>2
    <3>2. k \in DOMAIN Memory.list BY <1>1, IndexFacts, MemoryFields
    <3>. HIDE DEF x, k
    <3>. QED BY <1>2, <3>1, <3>2 DEF Step, Says
  <2>. QED BY <2>1, <2>2
<1>. HIDE DEF x, k
<1>4. Good(n) /\ Fields(n) /\ Says(x, n) BY <1>3, DroppedGood
<1>5. Step(Memory, n) BY <1>3, <1>4
<1>. HIDE DEF n
<1>6. Memory' = n BY <1>1, <1>4, Became
<1>7. IInv' BY <1>1, <1>2, <1>4, <1>6 DEF IInv
<1>. QED BY <1>5, <1>6, <1>7

LEMMA DeleteStep ==
  ASSUME IInv, NEW f \in Files, Delete(f)
  PROVE  IInv' /\ Step(Memory, Memory')
<1>. DEFINE k == IndexOf(f)
            h == Memory.list[k]
            x == Deleted(Deleted(Memory, h.data, h.len), h.name, NameLen)
            n == [x EXCEPT !.list = RemoveAt(@, k)]
<1>1. /\ IsOpen(f) /\ UNCHANGED dirOpen
      /\ \/ Become(n)
         \/ fault' = TRUE /\ UNCHANGED <<flash, chain, tailOff, oldSpace, list>>
  BY MemoryFields DEF Delete
<1>2. dirOpen /\ Good(Memory) /\ dirOpen \in BOOLEAN
  BY <1>1, OpenDirectory DEF IInv
<1>3. k \in DOMAIN Memory.list /\ h.id = f BY <1>1, IndexFacts, MemoryFields
<1>4. /\ Good(n) /\ Fields(n)
      /\ \A g : NamedIn(n, g) <=> NamedIn(Memory, g) /\ g # h.id
      /\ \A g, v : DataIn(n, g, v) <=> DataIn(Memory, g, v) /\ g # h.id
  <2>. HIDE DEF k
  <2>. QED BY <1>2, <1>3, ErasedGood
<1>. HIDE DEF n, h, k
<1>5. CASE Become(n)
  <2>1. Memory' = n BY <1>4, <1>5, Became
  <2>2. IInv' BY <1>1, <1>2, <1>4, <2>1 DEF IInv
  <2>. QED BY <1>3, <1>4, <2>1, <2>2 DEF Step
<1>6. CASE fault' = TRUE /\ UNCHANGED <<flash, chain, tailOff, oldSpace, list>>
  BY <1>1, <1>2, <1>6, FaultStep
<1>. QED BY <1>1, <1>5, <1>6

LEMMA CloseDirStep ==
  ASSUME QuietGc, ShortClosed, IInv, CloseDir
  PROVE  IInv' /\ (IndexesMove => Step(Memory, Memory'))
<1>. DEFINE n == Programmed(Memory, OspaceEntry(Memory.oldSpace))
<1>1. dirOpen /\ list = <<>> /\ Len(n.chain) = 1 /\ Become(n) /\ dirOpen' = FALSE
      /\ Allowed(Memory, OspaceLen)
  BY MemoryFields DEF CloseDir
<1>2. Good(Memory) BY <1>1 DEF IInv
<1>3. Closed(n) /\ Fields(n) /\ (Moves(Memory, OspaceLen) => Says(Memory, n))
  BY <1>1, <1>2, MemoryFields, ShutClosed
<1>. HIDE DEF n
<1>4. Memory' = n BY <1>1, <1>3, Became
<1>5. IInv' BY <1>1, <1>3, <1>4 DEF IInv
<1>6. IndexesMove => Moves(Memory, OspaceLen) BY <1>1, AllowedMoves
<1>. QED BY <1>3, <1>4, <1>5, <1>6 DEF Step

LEMMA OpenDirStep ==
  ASSUME IInv, OpenDir
  PROVE  IInv' /\ Step(Memory, Memory')
<1>. DEFINE c == CountedChain([k \in DOMAIN chain |-> flash[chain[k]]])
<1>1. ~ dirOpen /\ oldSpace' = c /\ dirOpen' = TRUE /\ UNCHANGED <<flash, chain, list, fault>>
      /\ tailOff' = EndOf(flash[Last(chain)])
  BY DEF OpenDir, CountedChain
<1>2. Closed(Memory) BY <1>1 DEF IInv
<1>3. c \in Nat /\ DeadLen(Memory) <= c BY <1>2, MemoryFields, CountedClosed
<1>. HIDE DEF c
<1>. DEFINE m == Memory
            n == [flash |-> flash, chain |-> chain, tailOff |-> EndOf(flash[chain[1]]),
                  oldSpace |-> c, list |-> list, fault |-> fault]
<1>4. Last(chain) = chain[1] BY <1>2, MemoryFields DEF Closed, Last
<1>5. Memory' = n BY <1>1, <1>4 DEF Memory
<1>6. /\ n.flash = m.flash /\ n.chain = m.chain /\ n.list = m.list /\ n.oldSpace = c /\ Fields(n)
      /\ n.tailOff = EndOf(n.flash[n.chain[1]]) /\ n.fault = m.fault
  BY DEF Memory, Fields
<1>. HIDE DEF m, n
<1>7. \A s, i : Holds(n, s, i) <=> Holds(m, s, i) BY <1>6 DEF Holds
<1>8. \A p : Cell(n, p) = Cell(m, p) BY <1>6 DEF Cell
<1>9. Dead(n) = Dead(m) BY <1>6, <1>7, <1>8 DEF Dead
<1>10. DeadLen(n) = DeadLen(m) BY <1>8, <1>9 DEF DeadLen
<1>11. Says(m, n) BY <1>6, <1>7 DEF Says, NamedIn, DataIn
<1>12. Sound(n)
  <2>1. Sound(m) BY <1>2 DEF Closed, m
  <2>2. Whole(n) BY <1>3, <1>6, <2>1 DEF Sound, Whole, Mem, Tailed
  <2>3. One(n) BY <1>6, <1>7, <2>1 DEF Sound, One
  <2>. QED BY <1>9, <1>11, <2>1, <2>2, <2>3 DEF Sound, Says
<1>13. Good(n)
  <2>1. n.list = <<>> /\ DOMAIN n.list = {} /\ n.list \in Seq(OpenFiles) /\ Len(n.list) <= ListMax
    BY <1>2, <1>6, SizesFacts DEF Closed, m
  <2>2. Handles(n) BY <2>1 DEF Handles
  <2>. QED BY <1>3, <1>6, <1>10, <1>12, <2>2 DEF Good, m
<1>14. IInv' BY <1>1, <1>2, <1>5, <1>13 DEF IInv
<1>. QED BY <1>5, <1>11, <1>14 DEF Step, m

(* The directory as it is formatted satisfies the invariant and shows nothing. *)
LEMMA InvInit ==
  ASSUME Init
  PROVE  IInv /\ \A f, v : ~ NamedIn(Memory, f) /\ ~ DataIn(Memory, f, v)
<1>. DEFINE m == Memory
<1>1. /\ m.flash = [s \in {1} |-> <<>>] /\ m.chain = <<1>> /\ m.oldSpace = 0 /\ m.list = <<>>
      /\ m.tailOff = HeadLen /\ m.fault = FALSE /\ dirOpen = TRUE /\ Fields(m)
  BY MemoryFields DEF Init
<1>. HIDE DEF m
<1>2. \A s, i : ~ Holds(m, s, i)
  <2>1. ToSet(m.chain) = {1} /\ m.flash[1] = <<>> BY <1>1 DEF ToSet
  <2>2. \A i : i \notin DOMAIN m.flash[1] BY <2>1
  <2>. QED BY <2>1, <2>2 DEF Holds
<1>3. 1 \in Sectors /\ <<>> \in Seq(Entries) /\ HeadLen <= SectorSize
  <2>1. NameLen \in Nat /\ HeadLen + NameLen < SectorSize /\ HeadLen \in Nat /\ SectorSize \in Nat
    BY SizesFacts DEF Lens
  <2>. QED BY <2>1 DEF Sectors
<1>4. LengthOf(<<>>) = 0 BY LengthEmpty
<1>5. Stored(m.flash) BY <1>1, <1>3, <1>4, SizesFacts DEF Stored
<1>6. ToSet(<<1>>) = {1} /\ IsInjective(<<1>>) BY DEF ToSet, IsInjective
<1>7. Chained(m.flash, m.chain) BY <1>1, <1>3, <1>6 DEF Chained
<1>8. Tailed(m)
  <2>1. m.flash[m.chain[1]] = <<>> BY <1>1
  <2>. QED BY <1>1, <2>1, OpenedTail
<1>9. Whole(m) BY <1>1, <1>5, <1>6, <1>7, <1>8 DEF Whole, Mem
<1>10. Dead(m) = {} BY <1>2 DEF Dead
<1>11. IsFiniteSet(Dead(m)) /\ DeadLen(m) = 0 BY <1>10, DeadEmpty
<1>12. \A f, v : ~ NamedIn(m, f) /\ ~ DataIn(m, f, v) BY <1>2 DEF NamedIn, DataIn
<1>13. Sound(m) BY <1>2, <1>9, <1>11, <1>12 DEF Sound, One
<1>14. Handles(m) BY <1>1, SizesFacts DEF Handles
<1>15. Good(m) BY <1>1, <1>11, <1>13, <1>14 DEF Good
<1>. QED BY <1>1, <1>12, <1>15 DEF IInv, m

(* Every step keeps the invariant, and does to what the directory says of    *)
(* its files what one operation of NF2FSNames does, or nothing.             *)
LEMMA InvNext ==
  ASSUME QuietGc, ShortClosed, IInv, [Next]_vars
  PROVE  IInv' /\ (IndexesMove => Step(Memory, Memory'))
<1>1. ASSUME NEW f \in Files, Create(f) PROVE IInv' /\ (IndexesMove => Step(Memory, Memory'))
  BY <1>1, CreateStep
<1>2. ASSUME NEW f \in Files, Open(f) PROVE IInv' /\ Step(Memory, Memory')
  BY <1>2, OpenStep
<1>3. ASSUME NEW f \in Files, Write(f) PROVE IInv' /\ Step(Memory, Memory')
  BY <1>3, WriteStep
<1>4. ASSUME NEW f \in Files, GrowBig(f) PROVE IInv' /\ Step(Memory, Memory')
  BY <1>4, GrowBigStep
<1>5. ASSUME NEW f \in Files, Sync(f) PROVE IInv' /\ Step(Memory, Memory')
  BY <1>5, SyncStep
<1>6. ASSUME NEW f \in Files, Close(f) PROVE IInv' /\ Step(Memory, Memory')
  BY <1>6, CloseStep
<1>7. ASSUME NEW f \in Files, Delete(f) PROVE IInv' /\ Step(Memory, Memory')
  BY <1>7, DeleteStep
<1>8. CASE CloseDir BY <1>8, CloseDirStep
<1>9. CASE OpenDir BY <1>9, OpenDirStep
<1>10. CASE UNCHANGED vars
  <2>1. IInv' /\ Memory' = Memory BY <1>10, NothingChanged
  <2>2. Says(Memory, Memory) BY DEF Says
  <2>. QED BY <2>1, <2>2 DEF Step
<1>. QED BY <1>1, <1>2, <1>3, <1>4, <1>5, <1>6, <1>7, <1>8, <1>9, <1>10 DEF Next

(* The invariant holds in every state. *)
LEMMA Invariant ==
  ASSUME QuietGc, ShortClosed
  PROVE  Spec => []IInv
<1>1. Init => IInv BY InvInit
<1>2. IInv /\ [Next]_vars => IInv' BY InvNext
<1>. QED BY <1>1, <1>2, PTL DEF Spec

(* Sectors hold entries and never overflow: dir_prog opens a new sector      *)
(* before an entry would pass the end of one, and GC does it for its copies. *)
(* Assumed: a GC finds no file open, a directory is closed with one sector.  *)
THEOREM TypeCorrect ==
  ASSUME QuietGc, ShortClosed
  PROVE  Spec => []TypeOK
<1>1. IInv => TypeOK BY InvTypes
<1>. QED BY <1>1, Invariant, PTL

(* If no GC finds a file open, and a directory is closed with one sector     *)
(* only, it has no two live names and no two live data entries of a file:    *)
(* dir_prog with its new sectors, deletes in place by any number of open    *)
(* files, big files made of small ones, and GC, index left behind or not,    *)
(* leave one.  A GC with a file open leaves two: DirGc.cfg.                 *)
THEOREM OneEntryOfEach ==
  ASSUME QuietGc, ShortClosed
  PROVE  Spec => []OneEntry
<1>1. IInv => OneEntry BY InvOne
<1>. QED BY <1>1, Invariant, PTL

(* Under the same two assumptions the positions an open file keeps of its    *)
(* name and its data are those of its live entries, through programs into    *)
(* new sectors and deletes in place by any number of open files.  A GC moves *)
(* names without telling the open files: that it finds none is assumed.      *)
THEOREM PositionsAreTrue ==
  ASSUME QuietGc, ShortClosed
  PROVE  Spec => []PositionsTrue
<1>1. IInv => PositionsTrue BY InvPositions
<1>. QED BY <1>1, Invariant, PTL

(* Old space does not fall behind what is deleted in an open directory, and  *)
(* what dir_close records of a directory of one sector dir_open counts again *)
(* in full.  It does not for a directory of several sectors: DirClose.cfg.   *)
THEOREM DeadAreCounted ==
  ASSUME QuietGc, ShortClosed
  PROVE  Spec => []DeadCounted
<1>1. IInv => DeadCounted BY InvDead
<1>. QED BY <1>1, Invariant, PTL

LEMMA NamesInit ==
  ASSUME Init
  PROVE  Directory!Init
<1>1. Sound(Memory) /\ \A f : ~ NamedIn(Memory, f) BY InvInit, InvSound
<1>2. SavedIn = Shows(Memory) BY <1>1, SavedShown
<1>3. SavedIn = [f \in Files |-> [named |-> FALSE, version |-> 0]] BY <1>1, <1>2 DEF Shows
<1>. QED BY <1>3 DEF Directory!Init, Directory!Nothing

LEMMA InvShown == IInv => SavedIn = Shows(Memory)
BY InvSound, SavedShown

LEMMA NamesNext ==
  ASSUME QuietGc, IndexesMove, ShortClosed, IInv, [Next]_vars
  PROVE  [Directory!Next]_SavedIn
<1>1. IInv' /\ Step(Memory, Memory') BY InvNext
<1>2. SavedIn = Shows(Memory) BY InvShown
<1>3. SavedIn' = Shows(Memory')
  <2>1. (IInv => SavedIn = Shows(Memory))' BY InvShown, PTL
  <2>. QED BY <1>1, <2>1
<1>4. CASE Says(Memory, Memory') BY <1>2, <1>3, <1>4, ShowsSame
<1>5. ASSUME NEW f \in Files, ~ NamedIn(Memory, f), Sound(Memory),
             \A g : NamedIn(Memory', g) <=> NamedIn(Memory, g) \/ g = f,
             \A g, v : DataIn(Memory', g, v) <=> DataIn(Memory, g, v)
      PROVE  Directory!Create(f)
  BY <1>2, <1>3, <1>5, ShowsCreate DEF Directory!Create
<1>6. ASSUME NEW f \in Files, NEW ver \in {1, 2}, NamedIn(Memory, f),
             \A g : NamedIn(Memory', g) <=> NamedIn(Memory, g),
             \A g, v : DataIn(Memory', g, v) <=> IF g = f THEN v = ver ELSE DataIn(Memory, g, v)
      PROVE  Directory!Save(f, ver) /\ ver \in Directory!Versions
  <2>1. ver \in Nat /\ ver \in Directory!Versions BY DEF Directory!Versions
  <2>2. /\ Shows(Memory)[f].named
        /\ Shows(Memory') = [Shows(Memory) EXCEPT ![f].version = ver]
    <3>. DEFINE m == Memory
                n == Memory'
    <3>1. NamedIn(m, f) BY <1>6
    <3>2. \A g : NamedIn(n, g) <=> NamedIn(m, g) BY <1>6
    <3>3. Replaces(m, n, f, ver) BY <1>6 DEF Replaces
    <3>4. ver \in Nat BY <2>1
    <3>. HIDE DEF m, n
    <3>5. ShowsVersion(m, n, f, ver) BY <3>1, <3>2, <3>3, <3>4, ShowsSave
    <3>. QED BY <3>5 DEF ShowsVersion, m, n
  <2>. QED BY <1>2, <1>3, <2>1, <2>2 DEF Directory!Save
<1>7. ASSUME NEW f \in Files, NamedIn(Memory, f),
             \A g : NamedIn(Memory', g) <=> NamedIn(Memory, g),
             \A g, v : DataIn(Memory', g, v) <=> DataIn(Memory, g, v) /\ g # f
      PROVE  Directory!Forget(f)
  BY <1>2, <1>3, <1>7, ShowsForget DEF Directory!Forget
<1>8. ASSUME NEW f \in Files,
             \A g : NamedIn(Memory', g) <=> NamedIn(Memory, g) /\ g # f,
             \A g, v : DataIn(Memory', g, v) <=> DataIn(Memory, g, v) /\ g # f
      PROVE  Directory!Delete(f)
  BY <1>2, <1>3, <1>8, ShowsDelete DEF Directory!Delete, Directory!Nothing
<1>. QED BY <1>1, <1>4, <1>5, <1>6, <1>7, <1>8 DEF Step, Directory!Next

(* Where no GC finds a file open or leaves an index behind, and a directory  *)
(* is closed with one sector only, the log with its deletes, its new sectors *)
(* and its GC implements a map from names to versions: every step saves,     *)
(* forgets, creates or deletes one file, or changes nothing of what the     *)
(* directory shows.  A GC that leaves an index behind loses a file that     *)
(* nobody touched: DirGcIndex.cfg.                                          *)
THEOREM ImplementsNames ==
  ASSUME QuietGc, IndexesMove, ShortClosed
  PROVE  Spec => NamesSpec
<1>1. Init => Directory!Init BY NamesInit
<1>2. IInv /\ [Next]_vars => [Directory!Next]_SavedIn BY NamesNext
<1>. QED BY <1>1, <1>2, Invariant, PTL DEF Spec, NamesSpec, Directory!Spec
=============================================================================
