--------------------------- MODULE NF2FSTree_proofs ---------------------------
(***************************************************************************)
(* Proofs about NF2FSTree, for any number of names, ids, directories, slots *)
(* of the tree and sectors of a directory, whichever directories are full.  *)
(*                                                                         *)
(* The argument has four layers.                                           *)
(*   Names.  A directory shows the names in its log and those that calls of *)
(*   dir_prog are about to write (Shown).  Sound says of names, lengths,    *)
(*   ids, the tree and the two lists that an id is one name, that a name    *)
(*   has the tail of its directory, that a slot is the name of a directory  *)
(*   whose father has a slot, an open directory has a slot, and an open     *)
(*   file is a name of an open directory.                                   *)
(*   Changes.  Each way in which an operation changes these, whatever the   *)
(*   log looks like, is a predicate (SlotOpened, NameAdded, DirGone, ...)   *)
(*   and a lemma that Sound survives it.  Only a new sector changes the     *)
(*   tail and the name of a directory together (RootMoved, DirMoved).       *)
(*   Programming.  Extended and Written keep Good, and each leaves less to  *)
(*   do: twice the full directories and the calls that have not returned    *)
(*   (Left).  So dir_prog returns with every call written (ProgrammedGood); *)
(*   what an open file or directory is for is as before (Kept).             *)
(*   Operations.  Inv is Good between operations; each one keeps it.        *)
(***************************************************************************)
EXTENDS NF2FSTree, FiniteSetTheorems, SequenceTheorems, WellFoundedInduction, TLAPS

-----------------------------------------------------------------------------
(* What the variables, and what an operation works on, range over.          *)
Entries == [kind : {"dir", "file"}, name : Names, id : Ids, tail : 0 .. ChainMax]
Chains  == [Ids -> Seq(Seq(Entries))]
Slots   == [id : Ids \cup {Null}, father : Ids \cup {Null}, name : Names \cup {Null},
            stored : Names \cup {Null}, tail : Nat]
Trees   == [1 .. TreeMax -> Slots]
Handles == [id : Ids, father : Ids \cup {Null}, name : Names \cup {Null}, tail : Nat]
Opened  == [id : Ids, father : Ids, name : Names]
Calls   == [dir : Ids, names : Seq(Entries)]

Memories ==
  [log : Chains, super : Nat, used : SUBSET Ids, tree : Trees, dirs : Seq(Handles),
   files : Seq(Opened), full : SUBSET Ids, calls : Seq(Calls), at : Ids,
   err : BOOLEAN, fault : BOOLEAN]

(* The names of a directory: in its log, and those of calls that have not   *)
(* returned.                                                                *)
InLog(m, d) == {e \in Entries : \E s \in DOMAIN m.log[d] : \E k \in DOMAIN m.log[d][s] : e = m.log[d][s][k]}
Due(m, d)   == {e \in Entries : \E j \in DOMAIN m.calls :
                  m.calls[j].dir = d /\ \E k \in DOMAIN m.calls[j].names : e = m.calls[j].names[k]}
Shown(m) == [d \in Ids |-> InLog(m, d) \cup Due(m, d)]
Lens(m)  == [d \in Ids |-> Len(m.log[d])]

InTree(tr, id) == \E i \in DOMAIN tr : tr[i].id = id

(* An id is one name of one directory.                                      *)
Unique(shown) ==
  \A d, g \in Ids : \A e \in shown[d] : \A f \in shown[g] : e.id = f.id => d = g /\ e = f

(* An id is used if and only if something is called so.                     *)
Exact(shown, ids) ==
  /\ Root \in ids /\ \A d \in Ids : \A e \in shown[d] : e.id \in ids /\ e.id # Root
  /\ \A id \in ids \ {Root} : \E d \in Ids : \E e \in shown[d] : e.id = id

OneFile(shown) ==
  \A d \in Ids : \A e, f \in shown[d] :
    e.kind = "file" /\ f.kind = "file" /\ e.name = f.name => e = f

(* A name knows the tail of its directory; only directories hold names.     *)
TailsTold(shown, len) ==
  \A d \in Ids : \A e \in shown[d] :
    (e.kind = "dir" => e.tail = len[e.id] /\ e.tail >= 1) /\ (e.kind = "file" => e.tail = 0)
OnlyDirs(shown) ==
  \A d \in Ids : shown[d] # {} =>
    d = Root \/ \E g \in Ids : \E e \in shown[g] : e.id = d /\ e.kind = "dir"

NamesGood(shown, len, ids) ==
  Unique(shown) /\ Exact(shown, ids) /\ OneFile(shown) /\ TailsTold(shown, len) /\ OnlyDirs(shown)

(* A slot is the name of a directory whose father has a slot.               *)
SlotGood(shown, tr, t) ==
  /\ t.father \in Ids /\ t.name = t.stored /\ InTree(tr, t.father)
  /\ Name("dir", t.stored, t.id, t.tail) \in shown[t.father]

TreeGood(shown, len, sup, tr) ==
  /\ sup = len[Root] /\ sup >= 1
  /\ tr[1].id = Root /\ tr[1].father = Null /\ tr[1].tail = sup
  /\ \A i, j \in DOMAIN tr : tr[i].id = tr[j].id /\ tr[i].id # Null => i = j
  /\ \A i \in DOMAIN tr \ {1} : tr[i].id # Null => SlotGood(shown, tr, tr[i])

(* An open directory has a slot.                                            *)
HandleGood(shown, len, tr, h) ==
  /\ h.tail = len[h.id] /\ h.tail >= 1 /\ InTree(tr, h.id)
  /\ h.id # Root => h.father \in Ids /\ Name("dir", h.name, h.id, h.tail) \in shown[h.father]

DirsGood(shown, len, tr, list) ==
  /\ IsIn(list, Root)
  /\ \A i, j \in DOMAIN list : list[i].id = list[j].id => i = j
  /\ \A k \in DOMAIN list : HandleGood(shown, len, tr, list[k])

FilesGood(shown, dlist, list) ==
  /\ \A i, j \in DOMAIN list : list[i].id = list[j].id => i = j
  /\ \A k \in DOMAIN list : /\ IsIn(dlist, list[k].father)
                            /\ Name("file", list[k].name, list[k].id, 0) \in shown[list[k].father]

LensGood(len, filled) ==
  /\ \A d \in Ids : len[d] <= ChainMax
  /\ \A d \in filled : 1 <= len[d] /\ len[d] < ChainMax

CallsGood(filled, dlist, list) ==
  \A j \in DOMAIN list : /\ IsIn(dlist, list[j].dir)
                         /\ \A k \in DOMAIN list[j].names : list[j].names[k].id \notin filled

Sound(shown, len, sup, ids, tr, dlist, flist) ==
  /\ NamesGood(shown, len, ids) /\ TreeGood(shown, len, sup, tr)
  /\ DirsGood(shown, len, tr, dlist) /\ FilesGood(shown, dlist, flist)

Good(m) ==
  /\ m \in Memories
  /\ Sound(Shown(m), Lens(m), m.super, m.used, m.tree, m.dirs, m.files)
  /\ LensGood(Lens(m), m.full)
  /\ CallsGood(m.full, m.dirs, m.calls)

Inv == Good(Memory({})) /\ fault \in BOOLEAN

-----------------------------------------------------------------------------
(* A set of numbers has a least one, and induction over the numbers for a   *)
(* set: what a fold computes is reached element by element with it.         *)
LEMMA Least ==
  ASSUME NEW T \in SUBSET Nat, T # {}
  PROVE  \E x \in T : \A y \in T : x <= y
<1>. DEFINE R == OpToRel(<, Nat)
<1>1. IsWellFoundedOn(R, Nat) BY NatLessThanWellFounded
<1>2. \A x, y \in Nat : y < x => <<y, x>> \in R
  BY DEF OpToRel
<1>. HIDE DEF R
<1>3. PICK x \in T : \A y \in T : ~ (<<y, x>> \in R)
  BY <1>1, WFMin
<1>4. \A y \in T : x <= y
  <2>. TAKE y \in T
  <2>1. x \in Nat /\ y \in Nat OBVIOUS
  <2>2. ~ (y < x) BY <1>2, <1>3, <2>1
  <2>. QED BY <2>1, <2>2
<1>. QED BY <1>4

LEMMA Induct ==
  ASSUME NEW T, 0 \in T, \A n \in Nat : n \in T => n + 1 \in T
  PROVE  Nat \subseteq T
<1>. DEFINE U == {n \in Nat : n \notin T}
<1>. SUFFICES ASSUME U # {} PROVE FALSE OBVIOUS
<1>1. PICK x \in U : \A y \in U : x <= y  BY Least
<1>2. x # 0 BY <1>1
<1>3. x - 1 \in Nat /\ x - 1 \notin U BY <1>1, <1>2
<1>. QED BY <1>1, <1>2, <1>3

LEMMA MaxTop ==
  ASSUME NEW k \in Nat, NEW s \in SUBSET (1 .. k + 1), k + 1 \in s
  PROVE  Max(s) = k + 1
<1>1. \A y \in s : y \in Int /\ k + 1 >= y OBVIOUS
<1>2. \A x \in s : (\A y \in s : x >= y) => x = k + 1 BY <1>1
<1>. QED BY <1>1, <1>2 DEF Max

LEMMA IntervalTop ==
  ASSUME NEW i \in Nat \ {0}
  PROVE  Max(1 .. i) = i /\ (1 .. i) \ {i} = 1 .. i - 1 /\ 1 .. i # {}
<1>1. i - 1 \in Nat /\ (i - 1) + 1 = i /\ i \in 1 .. i OBVIOUS
<1>2. Max(1 .. i) = i BY <1>1, MaxTop
<1>3. ASSUME NEW j PROVE j \in (1 .. i) \ {i} <=> j \in 1 .. i - 1 OBVIOUS
<1>4. (1 .. i) \ {i} = 1 .. i - 1 BY <1>3
<1>. QED BY <1>1, <1>2, <1>4

-----------------------------------------------------------------------------
(* The folds, element by element: there is a function that says what has    *)
(* been computed after each.                                                *)
KeptOf(kept, h, id) == IF h.id = id THEN kept ELSE Append(kept, h)

LEMMA WithoutFold ==
  ASSUME NEW S, NEW q \in Seq(S), NEW id
  PROVE  \E new : /\ new[0] = <<>> /\ Without(q, id) = new[Len(q)]
                  /\ \A i \in 1 .. Len(q) : new[i] = KeptOf(new[i - 1], q[i], id)
<1>. DEFINE Step(g, s) == IF s = {} THEN <<>>
                          ELSE LET x == Max(s) IN KeptOf(g[s \ {x}], q[x], id)
            Def(g, k) == g = [s \in SUBSET (1 .. k) |-> Step(g, s)]
            top  == Len(q)
            iter == CHOOSE g : Def(g, top)
<1>0. top \in Nat /\ DOMAIN q = 1 .. top  OBVIOUS
<1>1. Without(q, id) = iter[1 .. top]
  BY <1>0 DEF Without, KeptOf, FoldLeft, MapThenFoldSet
<1>2. \E g : Def(g, 0)
  <2>1. SUBSET (1 .. 0) = {{}} OBVIOUS
  <2>2. Def([s \in {{}} |-> <<>>], 0) BY <2>1
  <2>. QED BY <2>2
<1>3. ASSUME NEW k \in Nat, NEW g, Def(g, k)
      PROVE  \E h : Def(h, k + 1)
  <2>. DEFINE h == [s \in SUBSET (1 .. k + 1) |->
                      IF k + 1 \in s THEN KeptOf(g[s \ {k + 1}], q[k + 1], id) ELSE g[s]]
  <2>1. ASSUME NEW s \in SUBSET (1 .. k + 1), k + 1 \in s
        PROVE  h[s] = Step(h, s)
    <3>1. Max(s) = k + 1 BY <2>1, MaxTop
    <3>2. s \ {k + 1} \in SUBSET (1 .. k + 1) /\ k + 1 \notin s \ {k + 1} OBVIOUS
    <3>3. h[s \ {k + 1}] = g[s \ {k + 1}] BY <3>2
    <3>. QED BY <2>1, <3>1, <3>3
  <2>2. ASSUME NEW s \in SUBSET (1 .. k + 1), k + 1 \notin s
        PROVE  h[s] = Step(h, s)
    <3>1. s \in SUBSET (1 .. k) BY <2>2
    <3>2. h[s] = g[s] BY <2>2
    <3>3. g[s] = Step(g, s) BY <1>3, <3>1
    <3>4. h[s \ {Max(s)}] = g[s \ {Max(s)}] BY <2>2
    <3>. QED BY <3>2, <3>3, <3>4
  <2>3. Def(h, k + 1) BY <2>1, <2>2
  <2>. QED BY <2>3
<1>4. \E g : Def(g, top)
  <2>. DEFINE T == {k \in Nat : \E g : Def(g, k)}
  <2>. HIDE DEF Def
  <2>1. 0 \in T BY <1>2
  <2>2. \A k \in Nat : k \in T => k + 1 \in T BY <1>3
  <2>. HIDE DEF T
  <2>3. Nat \subseteq T BY <2>1, <2>2, Induct
  <2>. QED BY <1>0, <2>3 DEF T
<1>5. Def(iter, top)
  <2>. HIDE DEF Def
  <2>. QED BY <1>4
<1>. HIDE DEF iter
<1>6. ASSUME NEW i \in 1 .. top
      PROVE  iter[1 .. i] = KeptOf(iter[1 .. i - 1], q[i], id)
  <2>1. 1 .. i \in SUBSET (1 .. top) BY <1>0
  <2>2. Max(1 .. i) = i /\ (1 .. i) \ {i} = 1 .. i - 1 /\ 1 .. i # {} BY <1>0, IntervalTop
  <2>3. iter[1 .. i] = Step(iter, 1 .. i) BY <1>5, <2>1
  <2>. QED BY <2>2, <2>3
<1>7. iter[1 .. 0] = <<>>
  <2>1. 1 .. 0 = {} /\ 1 .. 0 \in SUBSET (1 .. top) OBVIOUS
  <2>. QED BY <2>1, <1>5
<1>. DEFINE new == [i \in 0 .. top |-> iter[1 .. i]]
<1>8. new[0] = <<>> /\ new[top] = iter[1 .. top] BY <1>0, <1>7
<1>9. \A i \in 1 .. top : new[i] = KeptOf(new[i - 1], q[i], id) BY <1>0, <1>6
<1>. QED BY <1>1, <1>8, <1>9

LEMMA AdvancedFold ==
  ASSUME NEW m, NEW steps \in Nat
  PROVE  \E new : /\ new[0] = m /\ AdvancedBy(m, steps) = new[steps]
                  /\ \A i \in 1 .. steps : new[i] = Advanced(new[i - 1])
<1>. DEFINE Step(g, s) == IF s = {} THEN m
                          ELSE LET x == Max(s) IN Advanced(g[s \ {x}])
            Def(g, k) == g = [s \in SUBSET (1 .. k) |-> Step(g, s)]
            top  == steps
            iter == CHOOSE g : Def(g, top)
<1>0. top \in Nat /\ DOMAIN [i \in 1 .. steps |-> i] = 1 .. top  OBVIOUS
<1>1. AdvancedBy(m, steps) = iter[1 .. top]
  BY <1>0 DEF AdvancedBy, FoldLeft, MapThenFoldSet
<1>2. \E g : Def(g, 0)
  <2>1. SUBSET (1 .. 0) = {{}} OBVIOUS
  <2>2. Def([s \in {{}} |-> m], 0) BY <2>1
  <2>. QED BY <2>2
<1>3. ASSUME NEW k \in Nat, NEW g, Def(g, k)
      PROVE  \E h : Def(h, k + 1)
  <2>. DEFINE h == [s \in SUBSET (1 .. k + 1) |->
                      IF k + 1 \in s THEN Advanced(g[s \ {k + 1}]) ELSE g[s]]
  <2>1. ASSUME NEW s \in SUBSET (1 .. k + 1), k + 1 \in s
        PROVE  h[s] = Step(h, s)
    <3>1. Max(s) = k + 1 BY <2>1, MaxTop
    <3>2. s \ {k + 1} \in SUBSET (1 .. k + 1) /\ k + 1 \notin s \ {k + 1} OBVIOUS
    <3>3. h[s \ {k + 1}] = g[s \ {k + 1}] BY <3>2
    <3>. QED BY <2>1, <3>1, <3>3
  <2>2. ASSUME NEW s \in SUBSET (1 .. k + 1), k + 1 \notin s
        PROVE  h[s] = Step(h, s)
    <3>1. s \in SUBSET (1 .. k) BY <2>2
    <3>2. h[s] = g[s] BY <2>2
    <3>3. g[s] = Step(g, s) BY <1>3, <3>1
    <3>4. h[s \ {Max(s)}] = g[s \ {Max(s)}] BY <2>2
    <3>. QED BY <3>2, <3>3, <3>4
  <2>3. Def(h, k + 1) BY <2>1, <2>2
  <2>. QED BY <2>3
<1>4. \E g : Def(g, top)
  <2>. DEFINE T == {k \in Nat : \E g : Def(g, k)}
  <2>. HIDE DEF Def
  <2>1. 0 \in T BY <1>2
  <2>2. \A k \in Nat : k \in T => k + 1 \in T BY <1>3
  <2>. HIDE DEF T
  <2>3. Nat \subseteq T BY <2>1, <2>2, Induct
  <2>. QED BY <1>0, <2>3 DEF T
<1>5. Def(iter, top)
  <2>. HIDE DEF Def
  <2>. QED BY <1>4
<1>. HIDE DEF iter
<1>6. ASSUME NEW i \in 1 .. top
      PROVE  iter[1 .. i] = Advanced(iter[1 .. i - 1])
  <2>1. 1 .. i \in SUBSET (1 .. top) BY <1>0
  <2>2. Max(1 .. i) = i /\ (1 .. i) \ {i} = 1 .. i - 1 /\ 1 .. i # {} BY <1>0, IntervalTop
  <2>3. iter[1 .. i] = Step(iter, 1 .. i) BY <1>5, <2>1
  <2>. QED BY <2>2, <2>3
<1>7. iter[1 .. 0] = m
  <2>1. 1 .. 0 = {} /\ 1 .. 0 \in SUBSET (1 .. top) OBVIOUS
  <2>. QED BY <2>1, <1>5
<1>. DEFINE new == [i \in 0 .. top |-> iter[1 .. i]]
<1>8. new[0] = m /\ new[top] = iter[1 .. top] BY <1>0, <1>7
<1>9. \A i \in 1 .. top : new[i] = Advanced(new[i - 1]) BY <1>0, <1>6
<1>. QED BY <1>1, <1>8, <1>9

LEMMA SoughtFold ==
  ASSUME NEW y, NEW name, NEW steps \in Nat
  PROVE  \E new : /\ new[0] = y /\ SoughtBy(y, name, steps) = new[steps]
                  /\ \A i \in 1 .. steps : new[i] = Sought(new[i - 1], name)
<1>. DEFINE Step(g, s) == IF s = {} THEN y
                          ELSE LET x == Max(s) IN Sought(g[s \ {x}], name)
            Def(g, k) == g = [s \in SUBSET (1 .. k) |-> Step(g, s)]
            top  == steps
            iter == CHOOSE g : Def(g, top)
<1>0. top \in Nat /\ DOMAIN [i \in 1 .. steps |-> i] = 1 .. top  OBVIOUS
<1>1. SoughtBy(y, name, steps) = iter[1 .. top]
  BY <1>0 DEF SoughtBy, FoldLeft, MapThenFoldSet
<1>2. \E g : Def(g, 0)
  <2>1. SUBSET (1 .. 0) = {{}} OBVIOUS
  <2>2. Def([s \in {{}} |-> y], 0) BY <2>1
  <2>. QED BY <2>2
<1>3. ASSUME NEW k \in Nat, NEW g, Def(g, k)
      PROVE  \E h : Def(h, k + 1)
  <2>. DEFINE h == [s \in SUBSET (1 .. k + 1) |->
                      IF k + 1 \in s THEN Sought(g[s \ {k + 1}], name) ELSE g[s]]
  <2>1. ASSUME NEW s \in SUBSET (1 .. k + 1), k + 1 \in s
        PROVE  h[s] = Step(h, s)
    <3>1. Max(s) = k + 1 BY <2>1, MaxTop
    <3>2. s \ {k + 1} \in SUBSET (1 .. k + 1) /\ k + 1 \notin s \ {k + 1} OBVIOUS
    <3>3. h[s \ {k + 1}] = g[s \ {k + 1}] BY <3>2
    <3>. QED BY <2>1, <3>1, <3>3
  <2>2. ASSUME NEW s \in SUBSET (1 .. k + 1), k + 1 \notin s
        PROVE  h[s] = Step(h, s)
    <3>1. s \in SUBSET (1 .. k) BY <2>2
    <3>2. h[s] = g[s] BY <2>2
    <3>3. g[s] = Step(g, s) BY <1>3, <3>1
    <3>4. h[s \ {Max(s)}] = g[s \ {Max(s)}] BY <2>2
    <3>. QED BY <3>2, <3>3, <3>4
  <2>3. Def(h, k + 1) BY <2>1, <2>2
  <2>. QED BY <2>3
<1>4. \E g : Def(g, top)
  <2>. DEFINE T == {k \in Nat : \E g : Def(g, k)}
  <2>. HIDE DEF Def
  <2>1. 0 \in T BY <1>2
  <2>2. \A k \in Nat : k \in T => k + 1 \in T BY <1>3
  <2>. HIDE DEF T
  <2>3. Nat \subseteq T BY <2>1, <2>2, Induct
  <2>. QED BY <1>0, <2>3 DEF T
<1>5. Def(iter, top)
  <2>. HIDE DEF Def
  <2>. QED BY <1>4
<1>. HIDE DEF iter
<1>6. ASSUME NEW i \in 1 .. top
      PROVE  iter[1 .. i] = Sought(iter[1 .. i - 1], name)
  <2>1. 1 .. i \in SUBSET (1 .. top) BY <1>0
  <2>2. Max(1 .. i) = i /\ (1 .. i) \ {i} = 1 .. i - 1 /\ 1 .. i # {} BY <1>0, IntervalTop
  <2>3. iter[1 .. i] = Step(iter, 1 .. i) BY <1>5, <2>1
  <2>. QED BY <2>2, <2>3
<1>7. iter[1 .. 0] = y
  <2>1. 1 .. 0 = {} /\ 1 .. 0 \in SUBSET (1 .. top) OBVIOUS
  <2>. QED BY <2>1, <1>5
<1>. DEFINE new == [i \in 0 .. top |-> iter[1 .. i]]
<1>8. new[0] = y /\ new[top] = iter[1 .. top] BY <1>0, <1>7
<1>9. \A i \in 1 .. top : new[i] = Sought(new[i - 1], name) BY <1>0, <1>6
<1>. QED BY <1>1, <1>8, <1>9

LEMMA FollowedFold ==
  ASSUME NEW S, NEW q \in Seq(S), NEW tr, NEW y
  PROVE  \E new : /\ new[0] = y /\ FollowedBy(tr, y, q) = new[Len(q)]
                  /\ \A i \in 1 .. Len(q) : new[i] = Followed(tr, new[i - 1], q[i])
<1>. DEFINE Step(g, s) == IF s = {} THEN y
                          ELSE LET x == Max(s) IN Followed(tr, g[s \ {x}], q[x])
            Def(g, k) == g = [s \in SUBSET (1 .. k) |-> Step(g, s)]
            top  == Len(q)
            iter == CHOOSE g : Def(g, top)
<1>0. top \in Nat /\ DOMAIN q = 1 .. top  OBVIOUS
<1>1. FollowedBy(tr, y, q) = iter[1 .. top]
  BY <1>0 DEF FollowedBy, FoldLeft, MapThenFoldSet
<1>2. \E g : Def(g, 0)
  <2>1. SUBSET (1 .. 0) = {{}} OBVIOUS
  <2>2. Def([s \in {{}} |-> y], 0) BY <2>1
  <2>. QED BY <2>2
<1>3. ASSUME NEW k \in Nat, NEW g, Def(g, k)
      PROVE  \E h : Def(h, k + 1)
  <2>. DEFINE h == [s \in SUBSET (1 .. k + 1) |->
                      IF k + 1 \in s THEN Followed(tr, g[s \ {k + 1}], q[k + 1]) ELSE g[s]]
  <2>1. ASSUME NEW s \in SUBSET (1 .. k + 1), k + 1 \in s
        PROVE  h[s] = Step(h, s)
    <3>1. Max(s) = k + 1 BY <2>1, MaxTop
    <3>2. s \ {k + 1} \in SUBSET (1 .. k + 1) /\ k + 1 \notin s \ {k + 1} OBVIOUS
    <3>3. h[s \ {k + 1}] = g[s \ {k + 1}] BY <3>2
    <3>. QED BY <2>1, <3>1, <3>3
  <2>2. ASSUME NEW s \in SUBSET (1 .. k + 1), k + 1 \notin s
        PROVE  h[s] = Step(h, s)
    <3>1. s \in SUBSET (1 .. k) BY <2>2
    <3>2. h[s] = g[s] BY <2>2
    <3>3. g[s] = Step(g, s) BY <1>3, <3>1
    <3>4. h[s \ {Max(s)}] = g[s \ {Max(s)}] BY <2>2
    <3>. QED BY <3>2, <3>3, <3>4
  <2>3. Def(h, k + 1) BY <2>1, <2>2
  <2>. QED BY <2>3
<1>4. \E g : Def(g, top)
  <2>. DEFINE T == {k \in Nat : \E g : Def(g, k)}
  <2>. HIDE DEF Def
  <2>1. 0 \in T BY <1>2
  <2>2. \A k \in Nat : k \in T => k + 1 \in T BY <1>3
  <2>. HIDE DEF T
  <2>3. Nat \subseteq T BY <2>1, <2>2, Induct
  <2>. QED BY <1>0, <2>3 DEF T
<1>5. Def(iter, top)
  <2>. HIDE DEF Def
  <2>. QED BY <1>4
<1>. HIDE DEF iter
<1>6. ASSUME NEW i \in 1 .. top
      PROVE  iter[1 .. i] = Followed(tr, iter[1 .. i - 1], q[i])
  <2>1. 1 .. i \in SUBSET (1 .. top) BY <1>0
  <2>2. Max(1 .. i) = i /\ (1 .. i) \ {i} = 1 .. i - 1 /\ 1 .. i # {} BY <1>0, IntervalTop
  <2>3. iter[1 .. i] = Step(iter, 1 .. i) BY <1>5, <2>1
  <2>. QED BY <2>2, <2>3
<1>7. iter[1 .. 0] = y
  <2>1. 1 .. 0 = {} /\ 1 .. 0 \in SUBSET (1 .. top) OBVIOUS
  <2>. QED BY <2>1, <1>5
<1>. DEFINE new == [i \in 0 .. top |-> iter[1 .. i]]
<1>8. new[0] = y /\ new[top] = iter[1 .. top] BY <1>0, <1>7
<1>9. \A i \in 1 .. top : new[i] = Followed(tr, new[i - 1], q[i]) BY <1>0, <1>6
<1>. QED BY <1>1, <1>8, <1>9

FlushedOf(n, f, dirty) == IF f.id \in dirty THEN Flushed(n, f.id) ELSE n

LEMMA FlushedFold ==
  ASSUME NEW S, NEW q \in Seq(S), NEW m, NEW dirty
  PROVE  \E new : /\ new[0] = m /\ FlushedAll(m, q, dirty) = new[Len(q)]
                  /\ \A i \in 1 .. Len(q) : new[i] = FlushedOf(new[i - 1], q[i], dirty)
<1>. DEFINE Step(g, s) == IF s = {} THEN m
                          ELSE LET x == Max(s) IN FlushedOf(g[s \ {x}], q[x], dirty)
            Def(g, k) == g = [s \in SUBSET (1 .. k) |-> Step(g, s)]
            top  == Len(q)
            iter == CHOOSE g : Def(g, top)
<1>0. top \in Nat /\ DOMAIN q = 1 .. top  OBVIOUS
<1>1. FlushedAll(m, q, dirty) = iter[1 .. top]
  BY <1>0 DEF FlushedAll, FlushedOf, FoldLeft, MapThenFoldSet
<1>2. \E g : Def(g, 0)
  <2>1. SUBSET (1 .. 0) = {{}} OBVIOUS
  <2>2. Def([s \in {{}} |-> m], 0) BY <2>1
  <2>. QED BY <2>2
<1>3. ASSUME NEW k \in Nat, NEW g, Def(g, k)
      PROVE  \E h : Def(h, k + 1)
  <2>. DEFINE h == [s \in SUBSET (1 .. k + 1) |->
                      IF k + 1 \in s THEN FlushedOf(g[s \ {k + 1}], q[k + 1], dirty) ELSE g[s]]
  <2>1. ASSUME NEW s \in SUBSET (1 .. k + 1), k + 1 \in s
        PROVE  h[s] = Step(h, s)
    <3>1. Max(s) = k + 1 BY <2>1, MaxTop
    <3>2. s \ {k + 1} \in SUBSET (1 .. k + 1) /\ k + 1 \notin s \ {k + 1} OBVIOUS
    <3>3. h[s \ {k + 1}] = g[s \ {k + 1}] BY <3>2
    <3>. QED BY <2>1, <3>1, <3>3
  <2>2. ASSUME NEW s \in SUBSET (1 .. k + 1), k + 1 \notin s
        PROVE  h[s] = Step(h, s)
    <3>1. s \in SUBSET (1 .. k) BY <2>2
    <3>2. h[s] = g[s] BY <2>2
    <3>3. g[s] = Step(g, s) BY <1>3, <3>1
    <3>4. h[s \ {Max(s)}] = g[s \ {Max(s)}] BY <2>2
    <3>. QED BY <3>2, <3>3, <3>4
  <2>3. Def(h, k + 1) BY <2>1, <2>2
  <2>. QED BY <2>3
<1>4. \E g : Def(g, top)
  <2>. DEFINE T == {k \in Nat : \E g : Def(g, k)}
  <2>. HIDE DEF Def
  <2>1. 0 \in T BY <1>2
  <2>2. \A k \in Nat : k \in T => k + 1 \in T BY <1>3
  <2>. HIDE DEF T
  <2>3. Nat \subseteq T BY <2>1, <2>2, Induct
  <2>. QED BY <1>0, <2>3 DEF T
<1>5. Def(iter, top)
  <2>. HIDE DEF Def
  <2>. QED BY <1>4
<1>. HIDE DEF iter
<1>6. ASSUME NEW i \in 1 .. top
      PROVE  iter[1 .. i] = FlushedOf(iter[1 .. i - 1], q[i], dirty)
  <2>1. 1 .. i \in SUBSET (1 .. top) BY <1>0
  <2>2. Max(1 .. i) = i /\ (1 .. i) \ {i} = 1 .. i - 1 /\ 1 .. i # {} BY <1>0, IntervalTop
  <2>3. iter[1 .. i] = Step(iter, 1 .. i) BY <1>5, <2>1
  <2>. QED BY <2>2, <2>3
<1>7. iter[1 .. 0] = m
  <2>1. 1 .. 0 = {} /\ 1 .. 0 \in SUBSET (1 .. top) OBVIOUS
  <2>. QED BY <2>1, <1>5
<1>. DEFINE new == [i \in 0 .. top |-> iter[1 .. i]]
<1>8. new[0] = m /\ new[top] = iter[1 .. top] BY <1>0, <1>7
<1>9. \A i \in 1 .. top : new[i] = FlushedOf(new[i - 1], q[i], dirty) BY <1>0, <1>6
<1>. QED BY <1>1, <1>8, <1>9

StoredOf(n, h) == IF n.err THEN n ELSE Programmed(n, h.id, <<>>)

LEMMA StoredFold ==
  ASSUME NEW S, NEW q \in Seq(S), NEW m
  PROVE  \E new : /\ new[0] = m /\ StoredAll(m, q) = new[Len(q)]
                  /\ \A i \in 1 .. Len(q) : new[i] = StoredOf(new[i - 1], q[i])
<1>. DEFINE Step(g, s) == IF s = {} THEN m
                          ELSE LET x == Max(s) IN StoredOf(g[s \ {x}], q[x])
            Def(g, k) == g = [s \in SUBSET (1 .. k) |-> Step(g, s)]
            top  == Len(q)
            iter == CHOOSE g : Def(g, top)
<1>0. top \in Nat /\ DOMAIN q = 1 .. top  OBVIOUS
<1>1. StoredAll(m, q) = iter[1 .. top]
  BY <1>0 DEF StoredAll, StoredOf, FoldLeft, MapThenFoldSet
<1>2. \E g : Def(g, 0)
  <2>1. SUBSET (1 .. 0) = {{}} OBVIOUS
  <2>2. Def([s \in {{}} |-> m], 0) BY <2>1
  <2>. QED BY <2>2
<1>3. ASSUME NEW k \in Nat, NEW g, Def(g, k)
      PROVE  \E h : Def(h, k + 1)
  <2>. DEFINE h == [s \in SUBSET (1 .. k + 1) |->
                      IF k + 1 \in s THEN StoredOf(g[s \ {k + 1}], q[k + 1]) ELSE g[s]]
  <2>1. ASSUME NEW s \in SUBSET (1 .. k + 1), k + 1 \in s
        PROVE  h[s] = Step(h, s)
    <3>1. Max(s) = k + 1 BY <2>1, MaxTop
    <3>2. s \ {k + 1} \in SUBSET (1 .. k + 1) /\ k + 1 \notin s \ {k + 1} OBVIOUS
    <3>3. h[s \ {k + 1}] = g[s \ {k + 1}] BY <3>2
    <3>. QED BY <2>1, <3>1, <3>3
  <2>2. ASSUME NEW s \in SUBSET (1 .. k + 1), k + 1 \notin s
        PROVE  h[s] = Step(h, s)
    <3>1. s \in SUBSET (1 .. k) BY <2>2
    <3>2. h[s] = g[s] BY <2>2
    <3>3. g[s] = Step(g, s) BY <1>3, <3>1
    <3>4. h[s \ {Max(s)}] = g[s \ {Max(s)}] BY <2>2
    <3>. QED BY <3>2, <3>3, <3>4
  <2>3. Def(h, k + 1) BY <2>1, <2>2
  <2>. QED BY <2>3
<1>4. \E g : Def(g, top)
  <2>. DEFINE T == {k \in Nat : \E g : Def(g, k)}
  <2>. HIDE DEF Def
  <2>1. 0 \in T BY <1>2
  <2>2. \A k \in Nat : k \in T => k + 1 \in T BY <1>3
  <2>. HIDE DEF T
  <2>3. Nat \subseteq T BY <2>1, <2>2, Induct
  <2>. QED BY <1>0, <2>3 DEF T
<1>5. Def(iter, top)
  <2>. HIDE DEF Def
  <2>. QED BY <1>4
<1>. HIDE DEF iter
<1>6. ASSUME NEW i \in 1 .. top
      PROVE  iter[1 .. i] = StoredOf(iter[1 .. i - 1], q[i])
  <2>1. 1 .. i \in SUBSET (1 .. top) BY <1>0
  <2>2. Max(1 .. i) = i /\ (1 .. i) \ {i} = 1 .. i - 1 /\ 1 .. i # {} BY <1>0, IntervalTop
  <2>3. iter[1 .. i] = Step(iter, 1 .. i) BY <1>5, <2>1
  <2>. QED BY <2>2, <2>3
<1>7. iter[1 .. 0] = m
  <2>1. 1 .. 0 = {} /\ 1 .. 0 \in SUBSET (1 .. top) OBVIOUS
  <2>. QED BY <2>1, <1>5
<1>. DEFINE new == [i \in 0 .. top |-> iter[1 .. i]]
<1>8. new[0] = m /\ new[top] = iter[1 .. top] BY <1>0, <1>7
<1>9. \A i \in 1 .. top : new[i] = StoredOf(new[i - 1], q[i]) BY <1>0, <1>6
<1>. QED BY <1>1, <1>8, <1>9

-----------------------------------------------------------------------------
(* What the operators of the model return.                                  *)
LEMMA FunSeq ==
  ASSUME NEW S, NEW n \in Nat, NEW f \in [1 .. n -> S]
  PROVE  f \in Seq(S) /\ Len(f) = n /\ DOMAIN f = 1 .. n
OBVIOUS

LEMMA Single ==
  ASSUME NEW S, NEW x \in S
  PROVE  <<x>> \in Seq(S) /\ Len(<<x>>) = 1 /\ DOMAIN <<x>> = {1} /\ <<x>>[1] = x
OBVIOUS

LEMMA Sizes ==
  /\ TreeMax \in Nat \ {0} /\ FileListMax \in Nat \ {0} /\ DirListMax \in Nat \ {0}
  /\ PathLen \in Nat \ {0} /\ ChainMax \in Nat \ {0}
BY SizesAssumption

LEMMA FirstOfIn ==
  ASSUME NEW slots \in SUBSET Nat, slots # {}
  PROVE  FirstOf(slots) \in slots
BY Least DEF FirstOf

LEMMA HandleInIs ==
  ASSUME NEW list, NEW id, IsIn(list, id)
  PROVE  HandleIn(list, id) \in DOMAIN list /\ list[HandleIn(list, id)].id = id
BY DEF IsIn, HandleIn

LEMMA SlotIn ==
  ASSUME NEW tr \in Trees, NEW id, SlotsOf(tr, id) # {}
  PROVE  /\ FirstOf(SlotsOf(tr, id)) \in 1 .. TreeMax /\ FirstOf(SlotsOf(tr, id)) \in DOMAIN tr
         /\ tr[FirstOf(SlotsOf(tr, id))].id = id
<1>1. SlotsOf(tr, id) \subseteq 1 .. TreeMax /\ 1 .. TreeMax \subseteq Nat BY Sizes DEF SlotsOf, Trees
<1>2. FirstOf(SlotsOf(tr, id)) \in SlotsOf(tr, id) BY <1>1, FirstOfIn
<1>. QED BY <1>1, <1>2 DEF SlotsOf

LEMMA SlotsOfIn ==
  ASSUME NEW tr \in Trees, NEW id
  PROVE  SlotsOf(tr, id) # {} <=> InTree(tr, id)
BY DEF SlotsOf, InTree

LEMMA FirstInIs ==
  ASSUME NEW places \in SUBSET (Nat \X Nat), NEW top \in Nat, places # {},
         \A p \in places : p[1] <= top
  PROVE  FirstIn(places) \in places
<1>. DEFINE back == {n \in Nat : \E p \in places : p[1] = top - n}
            s    == CHOOSE n \in back : \A l \in back : n <= l
            near == {k \in Nat : <<top - s, k>> \in places}
            k    == CHOOSE n \in near : \A l \in near : n <= l
<1>1. back # {}
  <2>1. PICK p \in places : TRUE OBVIOUS
  <2>2. p[1] \in Nat /\ top - p[1] \in Nat /\ p[1] = top - (top - p[1]) BY <2>1
  <2>. QED BY <2>1, <2>2
<1>2. s \in back /\ \A l \in back : s <= l BY <1>1, Least
<1>. HIDE DEF s
<1>3. near # {}
  <2>1. PICK p \in places : p[1] = top - s BY <1>2
  <2>2. p = <<top - s, p[2]>> /\ p[2] \in Nat BY <2>1
  <2>. QED BY <2>2
<1>4. k \in near /\ \A l \in near : k <= l BY <1>3, Least
<1>. HIDE DEF k
<1>5. <<top - s, k>> \in places BY <1>4
<1>6. ASSUME NEW q \in places PROVE q = <<top - s, k>> \/ Before(<<top - s, k>>, q)
  <2>1. q = <<q[1], q[2]>> /\ q[1] \in Nat /\ q[2] \in Nat /\ s \in Nat /\ k \in Nat BY <1>2, <1>4
  <2>2. top - q[1] \in back BY <2>1
  <2>3. s <= top - q[1] BY <1>2, <2>2
  <2>4. CASE q[1] = top - s
    <3>1. q[2] \in near BY <2>1, <2>4
    <3>2. k <= q[2] BY <1>4, <3>1
    <3>. QED BY <2>1, <2>4, <3>2 DEF Before
  <2>5. CASE q[1] # top - s BY <2>1, <2>3, <2>5 DEF Before
  <2>. QED BY <2>4, <2>5
<1>. QED BY <1>5, <1>6 DEF FirstIn

LEMMA WithoutIs ==
  ASSUME NEW S, NEW q \in Seq(S), NEW id
  PROVE  /\ Without(q, id) \in Seq(S)
         /\ \A k \in DOMAIN Without(q, id) : Without(q, id)[k].id # id
         /\ \A k \in DOMAIN Without(q, id) : \E j \in DOMAIN q : q[j] = Without(q, id)[k]
         /\ \A j \in DOMAIN q : q[j].id # id => \E k \in DOMAIN Without(q, id) : Without(q, id)[k] = q[j]
         /\ (\A i, j \in DOMAIN q : q[i].id = q[j].id => i = j) =>
              \A i, j \in DOMAIN Without(q, id) : Without(q, id)[i].id = Without(q, id)[j].id => i = j
<1>1. PICK new : /\ new[0] = <<>> /\ Without(q, id) = new[Len(q)]
                 /\ \A i \in 1 .. Len(q) : new[i] = KeptOf(new[i - 1], q[i], id)
  BY WithoutFold
<1>. DEFINE Part(n) == /\ new[n] \in Seq(S)
                       /\ \A k \in 1 .. Len(new[n]) : new[n][k].id # id
                       /\ \A k \in 1 .. Len(new[n]) : \E j \in 1 .. n : q[j] = new[n][k]
                       /\ \A j \in 1 .. n : q[j].id # id => \E k \in 1 .. Len(new[n]) : new[n][k] = q[j]
            Once(n) == (\A i, j \in DOMAIN q : q[i].id = q[j].id => i = j) =>
              \A i, j \in 1 .. Len(new[n]) : new[n][i].id = new[n][j].id => i = j
            T == {n \in Nat : n <= Len(q) => Part(n) /\ Once(n)}
<1>2. 0 \in T
  <2>1. Part(0) BY <1>1
  <2>2. Once(0) BY <1>1
  <2>. QED BY <2>1, <2>2
<1>3. ASSUME NEW n \in Nat, n \in T PROVE n + 1 \in T
  <2>. HIDE DEF Part, Once
  <2>. SUFFICES ASSUME n + 1 <= Len(q) PROVE Part(n + 1) /\ Once(n + 1) OBVIOUS
  <2>. USE DEF Part, Once
  <2>0. n + 1 \in 1 .. Len(q) /\ Len(q) \in Nat /\ DOMAIN q = 1 .. Len(q) /\ n <= Len(q) /\ (n + 1) - 1 = n
    OBVIOUS
  <2>1. Part(n) /\ Once(n) BY <1>3, <2>0
  <2>2. new[n + 1] = KeptOf(new[n], q[n + 1], id) BY <1>1, <2>0
  <2>3. q[n + 1] \in S BY <2>0
  <2>4. CASE q[n + 1].id = id
    <3>1. new[n + 1] = new[n] BY <2>2, <2>4 DEF KeptOf
    <3>2. \A j \in 1 .. n + 1 : j = n + 1 \/ j \in 1 .. n OBVIOUS
    <3>3. Part(n + 1) BY <2>1, <2>4, <3>1, <3>2
    <3>. QED BY <2>1, <3>1, <3>3
  <2>5. CASE q[n + 1].id # id
    <3>. DEFINE a == new[n] b == new[n + 1] x == q[n + 1]
    <3>1. b = Append(a, x) BY <2>2, <2>5 DEF KeptOf
    <3>2. a \in Seq(S) /\ x \in S BY <2>1, <2>3
    <3>. HIDE DEF a, b, x
    <3>3. /\ b \in Seq(S) /\ Len(b) = Len(a) + 1 /\ Len(a) \in Nat
          /\ \A k \in 1 .. Len(a) : b[k] = a[k]
          /\ b[Len(a) + 1] = x
      BY <3>1, <3>2
    <3>4. \A k \in 1 .. Len(b) : k \in 1 .. Len(a) \/ k = Len(a) + 1 BY <3>3
    <3>4a. \A k \in 1 .. Len(a) : k \in 1 .. Len(b) BY <3>3
    <3>4b. Len(a) + 1 \in 1 .. Len(b) BY <3>3
    <3>5. \A j \in 1 .. n + 1 : j = n + 1 \/ j \in 1 .. n OBVIOUS
    <3>5a. \A j \in 1 .. n : j \in 1 .. n + 1 /\ j # n + 1 OBVIOUS
    <3>5b. n + 1 \in 1 .. n + 1 OBVIOUS
    <3>6. x.id # id BY <2>5 DEF x
    <3>7. \A k \in 1 .. Len(b) : b[k].id # id
      <4>1. \A k \in 1 .. Len(a) : a[k].id # id BY <2>1 DEF a
      <4>. QED BY <4>1, <3>3, <3>4, <3>6
    <3>8. \A k \in 1 .. Len(b) : \E j \in 1 .. n + 1 : q[j] = b[k]
      <4>1. \A k \in 1 .. Len(a) : \E j \in 1 .. n : q[j] = a[k] BY <2>1 DEF a
      <4>. QED BY <4>1, <3>3, <3>4, <3>5a, <3>5b DEF x
    <3>9. \A j \in 1 .. n + 1 : q[j].id # id => \E k \in 1 .. Len(b) : b[k] = q[j]
      <4>1. \A j \in 1 .. n : q[j].id # id => \E k \in 1 .. Len(a) : a[k] = q[j] BY <2>1 DEF a
      <4>. QED BY <4>1, <3>3, <3>4a, <3>4b, <3>5 DEF x
    <3>10. ASSUME \A i, j \in DOMAIN q : q[i].id = q[j].id => i = j
           PROVE  \A i, j \in 1 .. Len(b) : b[i].id = b[j].id => i = j
      <4>1. \A i, j \in 1 .. Len(a) : a[i].id = a[j].id => i = j BY <2>1, <3>10 DEF a
      <4>2. \A k \in 1 .. Len(a) : \E j \in 1 .. n : q[j] = a[k] BY <2>1 DEF a
      <4>3. \A j \in 1 .. n : q[j].id # x.id
        <5>1. \A j \in 1 .. n : j \in DOMAIN q /\ n + 1 \in DOMAIN q /\ j # n + 1 BY <2>0
        <5>. QED BY <5>1, <3>10 DEF x
      <4>4. \A k \in 1 .. Len(a) : a[k].id # x.id BY <4>2, <4>3
      <4>. QED BY <4>1, <4>4, <3>3, <3>4
    <3>. QED BY <3>3, <3>7, <3>8, <3>9, <3>10 DEF b
  <2>. QED BY <2>4, <2>5
<1>. HIDE DEF T
<1>4. Nat \subseteq T BY <1>2, <1>3, Induct
<1>5. Len(q) \in Nat /\ DOMAIN q = 1 .. Len(q) OBVIOUS
<1>6. Part(Len(q)) /\ Once(Len(q))
  <2>. HIDE DEF Part, Once
  <2>1. \A n \in T : n <= Len(q) => Part(n) /\ Once(n) BY DEF T
  <2>. QED BY <1>4, <1>5, <2>1
<1>. DEFINE w == Without(q, id)
<1>7. w = new[Len(q)] /\ DOMAIN q = 1 .. Len(q) BY <1>1, <1>5
<1>8. DOMAIN w = 1 .. Len(w) BY <1>6, <1>7
<1>. HIDE DEF w
<1>9. w \in Seq(S) BY <1>6, <1>7
<1>10. \A k \in DOMAIN w : w[k].id # id BY <1>6, <1>7, <1>8
<1>11. \A k \in DOMAIN w : \E j \in DOMAIN q : q[j] = w[k] BY <1>6, <1>7, <1>8
<1>12. \A j \in DOMAIN q : q[j].id # id => \E k \in DOMAIN w : w[k] = q[j] BY <1>6, <1>7, <1>8
<1>13. (\A i, j \in DOMAIN q : q[i].id = q[j].id => i = j) =>
         \A i, j \in DOMAIN w : w[i].id = w[j].id => i = j
  BY <1>6, <1>7, <1>8
<1>. QED BY <1>9, <1>10, <1>11, <1>12, <1>13 DEF w

-----------------------------------------------------------------------------
(* What each step does to the names, the tree and the lists, whatever the   *)
(* log looks like.                                                          *)
Views   == [Ids -> SUBSET Entries]
Lengths == [Ids -> Nat]

(* A list with the tail of one element changed. *)
SlotMoved(tr, new, i, tail) ==
  /\ \A j \in 1 .. TreeMax : /\ new[j].id = tr[j].id /\ new[j].father = tr[j].father
                             /\ new[j].name = tr[j].name /\ new[j].stored = tr[j].stored
                             /\ new[j].tail = IF j = i THEN tail ELSE tr[j].tail
HandleMoved(list, new, k, tail) ==
  /\ DOMAIN new = DOMAIN list
  /\ \A j \in DOMAIN list : /\ new[j].id = list[j].id /\ new[j].father = list[j].father
                            /\ new[j].name = list[j].name
                            /\ new[j].tail = IF j = k THEN tail ELSE list[j].tail

LEMMA MovedSlots ==
  ASSUME NEW tr \in Trees, NEW i \in 1 .. TreeMax, NEW tail \in Nat
  PROVE  Moved(tr, i, tail) \in Trees /\ SlotMoved(tr, Moved(tr, i, tail), i, tail)
<1>1. tr[i] \in Slots BY DEF Trees
<1>2. [tr[i] EXCEPT !.tail = tail] \in Slots BY <1>1 DEF Slots
<1>3. Moved(tr, i, tail) = [tr EXCEPT ![i] = [tr[i] EXCEPT !.tail = tail]] BY DEF Moved
<1>4. Moved(tr, i, tail) \in Trees BY <1>2, <1>3 DEF Trees
<1>5. \A j \in 1 .. TreeMax :
        Moved(tr, i, tail)[j] = IF j = i THEN [tr[i] EXCEPT !.tail = tail] ELSE tr[j]
  BY <1>3 DEF Trees
<1>6. LET new == [tr[i] EXCEPT !.tail = tail]
      IN  /\ new.id = tr[i].id /\ new.father = tr[i].father /\ new.name = tr[i].name
          /\ new.stored = tr[i].stored /\ new.tail = tail
  BY <1>1 DEF Slots
<1>. QED BY <1>4, <1>5, <1>6 DEF SlotMoved

LEMMA MovedHandles ==
  ASSUME NEW list \in Seq(Handles), NEW k \in DOMAIN list, NEW tail \in Nat
  PROVE  Moved(list, k, tail) \in Seq(Handles) /\ HandleMoved(list, Moved(list, k, tail), k, tail)
<1>0. list \in [1 .. Len(list) -> Handles] /\ Len(list) \in Nat /\ DOMAIN list = 1 .. Len(list)
  OBVIOUS
<1>1. list[k] \in Handles BY <1>0
<1>2. [list[k] EXCEPT !.tail = tail] \in Handles BY <1>1 DEF Handles
<1>3. Moved(list, k, tail) = [list EXCEPT ![k] = [list[k] EXCEPT !.tail = tail]] BY DEF Moved
<1>4. Moved(list, k, tail) \in [1 .. Len(list) -> Handles] BY <1>0, <1>2, <1>3
<1>4a. Moved(list, k, tail) \in Seq(Handles) /\ DOMAIN Moved(list, k, tail) = DOMAIN list
  BY <1>0, <1>4, FunSeq
<1>5. \A j \in DOMAIN list :
        Moved(list, k, tail)[j] = IF j = k THEN [list[k] EXCEPT !.tail = tail] ELSE list[j]
  BY <1>3, <1>0
<1>6. LET new == [list[k] EXCEPT !.tail = tail]
      IN  /\ new.id = list[k].id /\ new.father = list[k].father /\ new.name = list[k].name
          /\ new.tail = tail
  BY <1>1 DEF Handles
<1>. QED BY <1>4a, <1>5, <1>6 DEF HandleMoved

LEMMA NameIs ==
  ASSUME NEW kind, NEW name, NEW id, NEW tail
  PROVE  /\ Name(kind, name, id, tail).kind = kind /\ Name(kind, name, id, tail).name = name
         /\ Name(kind, name, id, tail).id = id /\ Name(kind, name, id, tail).tail = tail
BY DEF Name

(* The root gets a sector.                                                  *)
LEMMA RootMoved ==
  ASSUME NEW V \in Views, NEW len \in Lengths, NEW sup \in Nat, NEW ids \in SUBSET Ids,
         NEW tr \in Trees, NEW dl \in Seq(Handles), NEW fl \in Seq(Opened),
         Sound(V, len, sup, ids, tr, dl, fl),
         NEW k \in DOMAIN dl, dl[k].id = Root,
         NEW len2 \in Lengths, len2 = [len EXCEPT ![Root] = sup + 1],
         NEW tr2 \in Trees, SlotMoved(tr, tr2, 1, sup + 1),
         NEW dl2 \in Seq(Handles), HandleMoved(dl, dl2, k, sup + 1)
  PROVE  Sound(V, len2, sup + 1, ids, tr2, dl2, fl)
<1>0. /\ Root \in Ids /\ 1 \in 1 .. TreeMax /\ DOMAIN tr = 1 .. TreeMax /\ DOMAIN tr2 = 1 .. TreeMax
      /\ len2[Root] = sup + 1 /\ \A d \in Ids \ {Root} : len2[d] = len[d]
  BY IdsAssumption, Sizes DEF Trees, Lengths
<1>1. \A id : InTree(tr2, id) <=> InTree(tr, id) BY <1>0 DEF InTree, SlotMoved
<1>2. \A id : IsIn(dl2, id) <=> IsIn(dl, id) BY DEF IsIn, HandleMoved
<1>3. NamesGood(V, len2, ids)
  <2>1. \A d \in Ids : \A e \in V[d] : e.id \in Ids \ {Root}
    BY DEF Views, Entries, Sound, NamesGood, Exact
  <2>2. TailsTold(V, len2) BY <2>1, <1>0 DEF Sound, NamesGood, TailsTold
  <2>. QED BY <2>2 DEF Sound, NamesGood
<1>4. TreeGood(V, len2, sup + 1, tr2)
  <2>1. \A i \in DOMAIN tr2 \ {1} : tr2[i].id # Null => SlotGood(V, tr2, tr2[i])
    BY <1>0, <1>1 DEF Sound, TreeGood, SlotGood, SlotMoved
  <2>2. TreeGood(V, len, sup, tr) BY DEF Sound
  <2>3. sup + 1 = len2[Root] /\ sup + 1 >= 1 BY <1>0
  <2>4. tr2[1].id = Root /\ tr2[1].father = Null /\ tr2[1].tail = sup + 1
    BY <1>0, <2>2 DEF TreeGood, SlotMoved
  <2>5. \A i, j \in DOMAIN tr2 : tr2[i].id = tr2[j].id /\ tr2[i].id # Null => i = j
    BY <1>0, <2>2 DEF TreeGood, SlotMoved
  <2>. QED BY <2>1, <2>3, <2>4, <2>5 DEF TreeGood
<1>5. DirsGood(V, len2, tr2, dl2)
  <2>0. IsIn(dl2, Root) /\ \A i, j \in DOMAIN dl2 : dl2[i].id = dl2[j].id => i = j
    BY <1>2 DEF Sound, DirsGood, HandleMoved
  <2>1. ASSUME NEW j \in DOMAIN dl2 PROVE HandleGood(V, len2, tr2, dl2[j])
    <3>0. j \in DOMAIN dl /\ HandleGood(V, len, tr, dl[j]) /\ dl[j].id \in Ids /\ (dl[j].id = Root <=> j = k)
      <4>1. j \in DOMAIN dl /\ dl[j] \in Handles BY DEF HandleMoved
      <4>. QED BY <4>1 DEF Sound, DirsGood, Handles
    <3>1. CASE j = k BY <1>0, <1>1, <3>0, <3>1 DEF HandleGood, HandleMoved
    <3>2. CASE j # k BY <1>0, <1>1, <3>0, <3>2 DEF HandleGood, HandleMoved
    <3>. QED BY <3>1, <3>2
  <2>. QED BY <2>0, <2>1 DEF DirsGood
<1>6. FilesGood(V, dl2, fl) BY <1>2 DEF Sound, FilesGood
<1>. QED BY <1>3, <1>4, <1>5, <1>6 DEF Sound

(* Names under new tails: what has one id is replaced by what has the same. *)
Renamed(V, V2, g, old, new) ==
  /\ old \in V[g] /\ new \in V2[g]
  /\ old.id = new.id /\ old.kind = new.kind /\ old.name = new.name
  /\ \A x \in Ids : \A e \in V2[x] : (x = g /\ e = new) \/ (e \in V[x] /\ e.id # old.id)
  /\ \A x \in Ids : \A e \in V[x] : e.id # old.id => e \in V2[x]

RenamedDir(V, V2, len, len2, ids, g, old, new) ==
  /\ V \in Views /\ V2 \in Views /\ len \in Lengths /\ ids \in SUBSET Ids /\ g \in Ids
  /\ Renamed(V, V2, g, old, new) /\ old.kind = "dir" /\ NamesGood(V, len, ids)
  /\ len2 = [len EXCEPT ![old.id] = new.tail] /\ new.tail >= 1

LEMMA RenamedNames ==
  ASSUME NEW V, NEW V2, NEW len, NEW len2, NEW ids, NEW g, NEW old, NEW new,
         RenamedDir(V, V2, len, len2, ids, g, old, new)
  PROVE  NamesGood(V2, len2, ids)
<1>. /\ V \in Views /\ V2 \in Views /\ len \in Lengths /\ ids \in SUBSET Ids /\ g \in Ids
     /\ Renamed(V, V2, g, old, new) /\ old.kind = "dir" /\ NamesGood(V, len, ids)
     /\ len2 = [len EXCEPT ![old.id] = new.tail] /\ new.tail >= 1
  BY DEF RenamedDir
<1>0. old.id \in Ids /\ old.id # Root
  <2>1. old \in Entries BY DEF Renamed, Views
  <2>. QED BY <2>1 DEF Renamed, NamesGood, Exact, Entries
<1>1. Unique(V2)
  <2>. SUFFICES ASSUME NEW x \in Ids, NEW y \in Ids, NEW e \in V2[x], NEW f \in V2[y], e.id = f.id
                PROVE  x = y /\ e = f
    BY DEF Unique
  <2>1. (x = g /\ e = new) \/ (e \in V[x] /\ e.id # old.id) BY DEF Renamed
  <2>2. (y = g /\ f = new) \/ (f \in V[y] /\ f.id # old.id) BY DEF Renamed
  <2>3. old.id = new.id BY DEF Renamed
  <2>. QED BY <2>1, <2>2, <2>3 DEF NamesGood, Unique
<1>2. Exact(V2, ids)
  <2>1. \A d \in Ids : \A e \in V2[d] : e.id \in ids /\ e.id # Root
    BY DEF Renamed, NamesGood, Exact
  <2>2. ASSUME NEW id \in ids \ {Root} PROVE \E d \in Ids : \E e \in V2[d] : e.id = id
    <3>1. PICK d \in Ids : \E e \in V[d] : e.id = id BY DEF NamesGood, Exact
    <3>2. PICK e \in V[d] : e.id = id BY <3>1
    <3>. QED BY <3>1, <3>2 DEF Renamed
  <2>. QED BY <2>1, <2>2 DEF NamesGood, Exact
<1>3. OneFile(V2)
  BY DEF OneFile, Renamed, NamesGood
<1>4. TailsTold(V2, len2)
  <2>. SUFFICES ASSUME NEW d \in Ids, NEW e \in V2[d]
                PROVE  /\ e.kind = "dir" => e.tail = len2[e.id] /\ e.tail >= 1
                       /\ e.kind = "file" => e.tail = 0
    BY DEF TailsTold
  <2>0. e.id \in Ids BY DEF Views, Entries
  <2>1. CASE e = new
    BY <1>0, <2>1 DEF Renamed, Lengths
  <2>2. CASE e \in V[d] /\ e.id # old.id
    BY <2>0, <2>2 DEF Renamed, NamesGood, TailsTold, Lengths
  <2>. QED BY <2>1, <2>2 DEF Renamed
<1>5. OnlyDirs(V2)
  <2>. SUFFICES ASSUME NEW d \in Ids, V2[d] # {}, d # Root
                PROVE  \E x \in Ids : \E e \in V2[x] : e.id = d /\ e.kind = "dir"
    BY DEF OnlyDirs
  <2>1. V[d] # {} BY DEF Renamed
  <2>2. PICK x \in Ids : \E e \in V[x] : e.id = d /\ e.kind = "dir"
    BY <2>1 DEF NamesGood, OnlyDirs
  <2>3. PICK e \in V[x] : e.id = d /\ e.kind = "dir" BY <2>2
  <2>4. CASE e.id = old.id BY <2>3, <2>4 DEF Renamed
  <2>5. CASE e.id # old.id BY <2>2, <2>3, <2>5 DEF Renamed
  <2>. QED BY <2>4, <2>5
<1>. QED BY <1>0, <1>1, <1>2, <1>3, <1>4, <1>5 DEF NamesGood

(* Another directory gets a sector.                                         *)
LEMMA DirMoved ==
  ASSUME NEW V \in Views, NEW V2 \in Views, NEW len \in Lengths, NEW sup \in Nat,
         NEW ids \in SUBSET Ids, NEW tr \in Trees, NEW dl \in Seq(Handles), NEW fl \in Seq(Opened),
         Sound(V, len, sup, ids, tr, dl, fl),
         NEW k \in DOMAIN dl, dl[k].id # Root, NEW i \in 1 .. TreeMax, tr[i].id = dl[k].id,
         Renamed(V, V2, dl[k].father, Name("dir", dl[k].name, dl[k].id, dl[k].tail),
                 Name("dir", dl[k].name, dl[k].id, dl[k].tail + 1)),
         NEW len2 \in Lengths, len2 = [len EXCEPT ![dl[k].id] = dl[k].tail + 1],
         NEW tr2 \in Trees, SlotMoved(tr, tr2, i, dl[k].tail + 1),
         NEW dl2 \in Seq(Handles), HandleMoved(dl, dl2, k, dl[k].tail + 1)
  PROVE  Sound(V2, len2, sup, ids, tr2, dl2, fl)
<1>. DEFINE d == dl[k].id g == dl[k].father n == dl[k].name t == dl[k].tail
            old == Name("dir", n, d, t)
            new == Name("dir", n, d, t + 1)
<1>0. dl[k] \in Handles BY SMT
<1>00. t \in Nat /\ t >= 1 /\ d \in Ids /\ g \in Ids /\ d # Root
  BY <1>0 DEF Sound, DirsGood, HandleGood, Handles
<1>01. /\ old.kind = "dir" /\ new.kind = "dir" /\ old.id = d /\ new.id = d /\ old.name = n
       /\ new.name = n /\ old.tail = t /\ new.tail = t + 1
  BY NameIs
<1>02. /\ Root \in Ids /\ DOMAIN tr = 1 .. TreeMax /\ DOMAIN tr2 = 1 .. TreeMax
       /\ 1 \in 1 .. TreeMax
  BY IdsAssumption, Sizes DEF Trees
<1>03. len2 = [len EXCEPT ![d] = t + 1] /\ Renamed(V, V2, g, old, new)
       /\ SlotMoved(tr, tr2, i, t + 1) /\ HandleMoved(dl, dl2, k, t + 1) /\ tr[i].id = d
       /\ dl[k].id = d
  OBVIOUS
<1>. HIDE DEF old, new, d, g, n, t
<1>04. len2[d] = t + 1 /\ \A x \in Ids \ {d} : len2[x] = len[x] BY <1>00, <1>03 DEF Lengths
<1>1. NamesGood(V2, len2, ids)
  <2>1. len2 = [len EXCEPT ![old.id] = new.tail] BY <1>01, <1>03, Zenon
  <2>2. new.tail >= 1
    <3>1. t + 1 >= 1 BY <1>00
    <3>. QED BY <1>01, <3>1, Zenon
  <2>3. NamesGood(V, len, ids) BY DEF Sound
  <2>4. Renamed(V, V2, g, old, new) /\ old.kind = "dir" /\ g \in Ids BY <1>00, <1>01, <1>03
  <2>5. RenamedDir(V, V2, len, len2, ids, g, old, new)
    BY <2>1, <2>2, <2>3, <2>4 DEF RenamedDir
  <2>. QED BY <2>5, RenamedNames
<1>2. \A id : InTree(tr2, id) <=> InTree(tr, id) BY <1>02, <1>03 DEF InTree, SlotMoved
<1>3. \A id : IsIn(dl2, id) <=> IsIn(dl, id) BY <1>03 DEF IsIn, HandleMoved
<1>4. Unique(V) /\ Renamed(V, V2, g, old, new) BY <1>03 DEF Sound, NamesGood
<1>5. TreeGood(V2, len2, sup, tr2)
  <2>0. tr[1].id = Root /\ i # 1 BY <1>00, <1>03 DEF Sound, TreeGood
  <2>1. ASSUME NEW j \in DOMAIN tr2 \ {1}, tr2[j].id # Null PROVE SlotGood(V2, tr2, tr2[j])
    <3>1. SlotGood(V, tr, tr[j]) BY <1>02, <1>03, <2>1 DEF Sound, TreeGood, SlotMoved
    <3>2. CASE j = i
      <4>. DEFINE e == Name("dir", tr[i].stored, tr[i].id, tr[i].tail)
      <4>1. e \in V[tr[i].father] /\ tr[i].father \in Ids /\ e.id = d /\ e.name = tr[i].stored
        BY <1>03, <3>1, <3>2, NameIs DEF SlotGood
      <4>2. tr[i].father = g /\ e = old
        <5>. HIDE DEF e
        <5>. QED BY <1>00, <1>01, <1>4, <4>1 DEF Unique, Renamed
      <4>3. tr[i].stored = n BY <4>1, <4>2, <1>01
      <4>4. /\ tr2[i].id = d /\ tr2[i].father = g /\ tr2[i].stored = n /\ tr2[i].tail = t + 1
            /\ tr2[i].name = tr2[i].stored
        BY <1>03, <3>1, <3>2, <4>2, <4>3 DEF SlotMoved, SlotGood
      <4>5. Name("dir", tr2[i].stored, tr2[i].id, tr2[i].tail) = new BY <4>4 DEF new
      <4>6. InTree(tr2, g) BY <1>2, <3>1, <3>2, <4>2 DEF SlotGood
      <4>7. new \in V2[g] BY <1>4 DEF Renamed
      <4>. QED BY <1>00, <3>2, <4>4, <4>5, <4>6, <4>7 DEF SlotGood
    <3>3. CASE j # i
      <4>1. /\ tr2[j].id = tr[j].id /\ tr2[j].father = tr[j].father /\ tr2[j].stored = tr[j].stored
            /\ tr2[j].tail = tr[j].tail /\ tr2[j].name = tr[j].name
        BY <1>02, <1>03, <2>1, <3>3 DEF SlotMoved
      <4>2. tr[j].id # d BY <1>02, <1>03, <1>00, <2>1, <3>3, <4>1 DEF Sound, TreeGood
      <4>3. Name("dir", tr[j].stored, tr[j].id, tr[j].tail).id # old.id BY <1>01, <4>2, NameIs
      <4>4. Name("dir", tr[j].stored, tr[j].id, tr[j].tail) \in V2[tr[j].father]
        BY <3>1, <4>3, <1>4 DEF Renamed, SlotGood
      <4>. QED BY <1>2, <3>1, <4>1, <4>4 DEF SlotGood
    <3>. QED BY <3>2, <3>3
  <2>2. sup = len2[Root] /\ sup >= 1 BY <1>00, <1>02, <1>04 DEF Sound, TreeGood
  <2>3. tr2[1].id = Root /\ tr2[1].father = Null /\ tr2[1].tail = sup
    BY <1>02, <1>03, <2>0 DEF Sound, TreeGood, SlotMoved
  <2>4. \A a, b \in DOMAIN tr2 : tr2[a].id = tr2[b].id /\ tr2[a].id # Null => a = b
    BY <1>02, <1>03 DEF Sound, TreeGood, SlotMoved
  <2>. QED BY <2>1, <2>2, <2>3, <2>4 DEF TreeGood
<1>6. DirsGood(V2, len2, tr2, dl2)
  <2>0. IsIn(dl2, Root) /\ \A a, b \in DOMAIN dl2 : dl2[a].id = dl2[b].id => a = b
    BY <1>3, <1>03 DEF Sound, DirsGood, HandleMoved
  <2>1. ASSUME NEW j \in DOMAIN dl2 PROVE HandleGood(V2, len2, tr2, dl2[j])
    <3>0. j \in DOMAIN dl BY <1>03 DEF HandleMoved
    <3>1. HandleGood(V, len, tr, dl[j]) BY <3>0 DEF Sound, DirsGood
    <3>2. CASE j = k
      <4>1. dl2[j].id = d /\ dl2[j].father = g /\ dl2[j].name = n /\ dl2[j].tail = t + 1
        BY <3>0, <3>2, <1>03 DEF HandleMoved, d, g, n
      <4>2. InTree(tr2, d) BY <1>2, <1>03, <3>1, <3>2 DEF HandleGood
      <4>3. new \in V2[g] BY <1>4 DEF Renamed
      <4>. QED BY <1>00, <1>04, <4>1, <4>2, <4>3 DEF HandleGood, new
    <3>3. CASE j # k
      <4>1. dl2[j].id = dl[j].id /\ dl2[j].father = dl[j].father /\ dl2[j].name = dl[j].name
            /\ dl2[j].tail = dl[j].tail
        BY <3>0, <3>3, <1>03 DEF HandleMoved
      <4>2. dl[j].id # d /\ dl[j].id \in Ids
        <5>1. dl[j] \in Handles BY <3>0
        <5>. QED BY <3>0, <3>3, <1>03, <5>1 DEF Sound, DirsGood, Handles
      <4>3. Name("dir", dl[j].name, dl[j].id, dl[j].tail).id # old.id BY <1>01, <4>2, NameIs
      <4>4. dl[j].id # Root =>
              Name("dir", dl[j].name, dl[j].id, dl[j].tail) \in V2[dl[j].father]
        BY <3>1, <4>3, <1>4 DEF Renamed, HandleGood
      <4>. QED BY <1>2, <1>04, <3>1, <4>1, <4>2, <4>4 DEF HandleGood
    <3>. QED BY <3>2, <3>3
  <2>. QED BY <2>0, <2>1 DEF DirsGood
<1>7. FilesGood(V2, dl2, fl)
  <2>1. ASSUME NEW j \in DOMAIN fl
        PROVE  Name("file", fl[j].name, fl[j].id, 0) \in V2[fl[j].father]
    <3>. DEFINE e == Name("file", fl[j].name, fl[j].id, 0)
    <3>1. e \in V[fl[j].father] /\ fl[j].father \in Ids
      <4>1. fl[j] \in Opened OBVIOUS
      <4>. QED BY <4>1 DEF Sound, FilesGood, Opened
    <3>2. e.kind = "file" BY NameIs
    <3>. HIDE DEF e
    <3>3. e # old BY <3>2, <1>01
    <3>4. e.id # old.id BY <1>00, <1>4, <3>1, <3>3 DEF Unique, Renamed
    <3>5. e \in V2[fl[j].father] BY <3>1, <3>4, <1>4 DEF Renamed
    <3>. QED BY <3>5 DEF e
  <2>. QED BY <1>3, <2>1 DEF Sound, FilesGood
<1>. QED BY <1>1, <1>5, <1>6, <1>7 DEF Sound

-----------------------------------------------------------------------------
(* The other steps: each is described by a predicate on what it changes.    *)
Fit(V, len, sup, ids, tr, dl, fl) ==
  /\ V \in Views /\ len \in Lengths /\ sup \in Nat /\ ids \in SUBSET Ids
  /\ tr \in Trees /\ dl \in Seq(Handles) /\ fl \in Seq(Opened)
  /\ Sound(V, len, sup, ids, tr, dl, fl)

LEMMA FitParts ==
  ASSUME NEW V, NEW len, NEW sup, NEW ids, NEW tr, NEW dl, NEW fl, Fit(V, len, sup, ids, tr, dl, fl)
  PROVE  /\ V \in Views /\ len \in Lengths /\ sup \in Nat /\ ids \in SUBSET Ids
         /\ tr \in Trees /\ dl \in Seq(Handles) /\ fl \in Seq(Opened)
         /\ NamesGood(V, len, ids) /\ TreeGood(V, len, sup, tr)
         /\ DirsGood(V, len, tr, dl) /\ FilesGood(V, dl, fl)
         /\ DOMAIN tr = 1 .. TreeMax /\ 1 \in 1 .. TreeMax /\ Root \in Ids
         /\ \A j \in DOMAIN dl : dl[j] \in Handles /\ dl[j].id \in Ids /\ dl[j].tail \in Nat
         /\ \A j \in DOMAIN fl : fl[j] \in Opened /\ fl[j].id \in Ids /\ fl[j].father \in Ids
         /\ Null \notin Ids
<1>1. /\ V \in Views /\ len \in Lengths /\ sup \in Nat /\ ids \in SUBSET Ids
      /\ tr \in Trees /\ dl \in Seq(Handles) /\ fl \in Seq(Opened)
      /\ Sound(V, len, sup, ids, tr, dl, fl)
  BY DEF Fit
<1>2. /\ NamesGood(V, len, ids) /\ TreeGood(V, len, sup, tr)
      /\ DirsGood(V, len, tr, dl) /\ FilesGood(V, dl, fl)
  BY <1>1 DEF Sound
<1>3. DOMAIN tr = 1 .. TreeMax /\ 1 \in 1 .. TreeMax /\ Root \in Ids /\ Null \notin Ids
  BY <1>1, IdsAssumption, Sizes DEF Trees
<1>4. ASSUME NEW j \in DOMAIN dl PROVE dl[j] \in Handles /\ dl[j].id \in Ids /\ dl[j].tail \in Nat
  <2>1. dl[j] \in Handles BY <1>1
  <2>. QED BY <2>1 DEF Handles
<1>5. ASSUME NEW j \in DOMAIN fl PROVE fl[j] \in Opened /\ fl[j].id \in Ids /\ fl[j].father \in Ids
  <2>1. fl[j] \in Opened BY <1>1
  <2>. QED BY <2>1 DEF Opened
<1>. QED BY <1>1, <1>2, <1>3, <1>4, <1>5

LEMMA ConsIs ==
  ASSUME NEW S, NEW h \in S, NEW q \in Seq(S)
  PROVE  /\ <<h>> \o q \in Seq(S) /\ 1 \in DOMAIN (<<h>> \o q) /\ (<<h>> \o q)[1] = h
         /\ \A j \in DOMAIN q : j + 1 \in DOMAIN (<<h>> \o q) /\ (<<h>> \o q)[j + 1] = q[j]
         /\ \A j \in DOMAIN (<<h>> \o q) :
              j = 1 \/ (j - 1 \in DOMAIN q /\ j \in Nat /\ (<<h>> \o q)[j] = q[j - 1])
<1>1. <<h>> \in Seq(S) /\ Len(<<h>>) = 1 /\ <<h>>[1] = h BY Single
<1>. DEFINE c == <<h>> \o q
<1>2. /\ c \in Seq(S) /\ Len(c) = 1 + Len(q) /\ Len(q) \in Nat
      /\ \A j \in 1 .. 1 + Len(q) : c[j] = IF j <= 1 THEN <<h>>[j] ELSE q[j - 1]
  BY <1>1, ConcatProperties
<1>3. DOMAIN c = 1 .. 1 + Len(q) /\ DOMAIN q = 1 .. Len(q) BY <1>2
<1>. HIDE DEF c
<1>. QED BY <1>1, <1>2, <1>3 DEF c

(* dir_lowopen: a handle from a slot.                                       *)
SlotOpened(V, len, sup, ids, tr, dl, fl, i, dl2) ==
  /\ Fit(V, len, sup, ids, tr, dl, fl) /\ i \in DOMAIN tr /\ tr[i].id # Null /\ ~ IsIn(dl, tr[i].id)
  /\ dl2 = <<DirHandle(tr[i].id, tr[i].father, tr[i].stored, tr[i].tail)>> \o dl

LEMMA SlotOpenedFit ==
  ASSUME NEW V, NEW len, NEW sup, NEW ids, NEW tr, NEW dl, NEW fl, NEW i, NEW dl2,
         SlotOpened(V, len, sup, ids, tr, dl, fl, i, dl2)
  PROVE  Fit(V, len, sup, ids, tr, dl2, fl) /\ \A id : IsIn(dl, id) => IsIn(dl2, id)
<1>. DEFINE h == DirHandle(tr[i].id, tr[i].father, tr[i].stored, tr[i].tail)
<1>0. /\ Fit(V, len, sup, ids, tr, dl, fl) /\ i \in DOMAIN tr /\ tr[i].id # Null
      /\ ~ IsIn(dl, tr[i].id) /\ dl2 = <<h>> \o dl
  BY DEF SlotOpened
<1>1. /\ V \in Views /\ len \in Lengths /\ sup \in Nat /\ ids \in SUBSET Ids
      /\ tr \in Trees /\ dl \in Seq(Handles) /\ fl \in Seq(Opened)
      /\ NamesGood(V, len, ids) /\ TreeGood(V, len, sup, tr)
      /\ DirsGood(V, len, tr, dl) /\ FilesGood(V, dl, fl)
      /\ DOMAIN tr = 1 .. TreeMax
  BY <1>0, FitParts
<1>2. tr[i] \in Slots /\ tr[i].id \in Ids BY <1>0, <1>1 DEF Trees, Slots
<1>3. h.id = tr[i].id /\ h.father = tr[i].father /\ h.name = tr[i].stored /\ h.tail = tr[i].tail
  BY DEF DirHandle
<1>4. h \in Handles BY <1>2 DEF Handles, Slots, DirHandle
<1>. HIDE DEF h
<1>5. /\ dl2 \in Seq(Handles) /\ 1 \in DOMAIN dl2 /\ dl2[1] = h
      /\ \A j \in DOMAIN dl : j + 1 \in DOMAIN dl2 /\ dl2[j + 1] = dl[j]
      /\ \A j \in DOMAIN dl2 : j = 1 \/ (j - 1 \in DOMAIN dl /\ j \in Nat /\ dl2[j] = dl[j - 1])
  BY <1>0, <1>1, <1>4, ConsIs
<1>6. \A id : IsIn(dl, id) => IsIn(dl2, id) BY <1>5 DEF IsIn
<1>7. i # 1 BY <1>0, <1>1 DEF TreeGood, DirsGood
<1>8. SlotGood(V, tr, tr[i]) BY <1>0, <1>1, <1>7 DEF TreeGood
<1>9. HandleGood(V, len, tr, h)
  <2>. DEFINE e == Name("dir", tr[i].stored, tr[i].id, tr[i].tail)
  <2>1. e \in V[tr[i].father] /\ tr[i].father \in Ids BY <1>8 DEF SlotGood
  <2>2. e.kind = "dir" /\ e.id = tr[i].id /\ e.tail = tr[i].tail BY NameIs
  <2>3. tr[i].tail = len[tr[i].id] /\ tr[i].tail >= 1
    <3>. HIDE DEF e
    <3>. QED BY <1>1, <2>1, <2>2 DEF NamesGood, TailsTold
  <2>4. InTree(tr, tr[i].id) BY <1>0 DEF InTree
  <2>. QED BY <1>3, <2>1, <2>3, <2>4 DEF HandleGood
<1>10. DirsGood(V, len, tr, dl2)
  <2>1. IsIn(dl2, Root) BY <1>1, <1>6 DEF DirsGood
  <2>2. ASSUME NEW a \in DOMAIN dl2, NEW b \in DOMAIN dl2, dl2[a].id = dl2[b].id PROVE a = b
    <3>1. \A j \in DOMAIN dl : dl[j].id # h.id BY <1>0, <1>3 DEF IsIn
    <3>2. CASE a = 1
      <4>1. b = 1 BY <1>5, <2>2, <3>1, <3>2
      <4>. QED BY <3>2, <4>1
    <3>3. CASE a # 1
      <4>1. b # 1 BY <1>5, <2>2, <3>1, <3>3
      <4>2. /\ a - 1 \in DOMAIN dl /\ b - 1 \in DOMAIN dl /\ a \in Nat /\ b \in Nat
            /\ dl[a - 1].id = dl[b - 1].id
        BY <1>5, <2>2, <3>3, <4>1
      <4>3. a - 1 = b - 1 BY <1>1, <4>2 DEF DirsGood
      <4>. QED BY <4>2, <4>3
    <3>. QED BY <3>2, <3>3
  <2>3. \A j \in DOMAIN dl2 : HandleGood(V, len, tr, dl2[j]) BY <1>1, <1>5, <1>9 DEF DirsGood
  <2>. QED BY <2>1, <2>2, <2>3 DEF DirsGood
<1>11. FilesGood(V, dl2, fl) BY <1>1, <1>6 DEF FilesGood
<1>. QED BY <1>1, <1>5, <1>6, <1>10, <1>11 DEF Fit, Sound

(* tree_entry_add: a slot for a directory that has none.                    *)
SlotAdded(V, len, sup, ids, tr, dl, fl, i, t, tr2) ==
  /\ Fit(V, len, sup, ids, tr, dl, fl) /\ i \in DOMAIN tr /\ tr[i].id = Null
  /\ t \in Slots /\ t.id # Null /\ ~ InTree(tr, t.id) /\ SlotGood(V, tr, t) /\ tr2 = [tr EXCEPT ![i] = t]

LEMMA SlotAddedFit ==
  ASSUME NEW V, NEW len, NEW sup, NEW ids, NEW tr, NEW dl, NEW fl, NEW i, NEW t, NEW tr2,
         SlotAdded(V, len, sup, ids, tr, dl, fl, i, t, tr2)
  PROVE  /\ Fit(V, len, sup, ids, tr2, dl, fl)
         /\ \A id : id # Null => (InTree(tr2, id) <=> InTree(tr, id) \/ id = t.id)
<1>0. /\ Fit(V, len, sup, ids, tr, dl, fl) /\ i \in DOMAIN tr /\ tr[i].id = Null /\ t.id # Null
      /\ t \in Slots /\ ~ InTree(tr, t.id) /\ SlotGood(V, tr, t) /\ tr2 = [tr EXCEPT ![i] = t]
  BY DEF SlotAdded
<1>1. /\ V \in Views /\ len \in Lengths /\ sup \in Nat /\ ids \in SUBSET Ids
      /\ tr \in Trees /\ dl \in Seq(Handles) /\ fl \in Seq(Opened)
      /\ NamesGood(V, len, ids) /\ TreeGood(V, len, sup, tr)
      /\ DirsGood(V, len, tr, dl) /\ FilesGood(V, dl, fl)
      /\ DOMAIN tr = 1 .. TreeMax /\ 1 \in 1 .. TreeMax /\ Root \in Ids /\ Null \notin Ids
      /\ \A j \in DOMAIN dl : dl[j].id \in Ids
  BY <1>0, FitParts
<1>2. tr2 \in Trees /\ DOMAIN tr2 = 1 .. TreeMax BY <1>0, <1>1 DEF Trees
<1>3. tr2[i] = t /\ \A j \in DOMAIN tr : j # i => tr2[j] = tr[j] BY <1>0, <1>1 DEF Trees
<1>4. \A id : id # Null => (InTree(tr2, id) <=> InTree(tr, id) \/ id = t.id)
  BY <1>0, <1>1, <1>2, <1>3 DEF InTree
<1>5. i # 1 BY <1>0, <1>1 DEF TreeGood
<1>6. TreeGood(V, len, sup, tr2)
  <2>1. \A a, b \in DOMAIN tr2 : tr2[a].id = tr2[b].id /\ tr2[a].id # Null => a = b
    <3>1. \A a \in DOMAIN tr : tr[a].id # t.id BY <1>0 DEF InTree
    <3>. QED BY <1>1, <1>2, <1>3, <3>1 DEF TreeGood
  <2>2. ASSUME NEW j \in DOMAIN tr2 \ {1}, tr2[j].id # Null PROVE SlotGood(V, tr2, tr2[j])
    <3>1. CASE j = i BY <1>0, <1>1, <1>3, <1>4, <3>1 DEF SlotGood
    <3>2. CASE j # i
      <4>1. SlotGood(V, tr, tr[j]) /\ tr2[j] = tr[j] BY <1>1, <1>2, <1>3, <2>2, <3>2 DEF TreeGood
      <4>. QED BY <1>1, <1>4, <4>1 DEF SlotGood
    <3>. QED BY <3>1, <3>2
  <2>3. tr2[1].id = Root /\ tr2[1].father = Null /\ tr2[1].tail = sup /\ sup = len[Root] /\ sup >= 1
    BY <1>1, <1>3, <1>5 DEF TreeGood
  <2>. QED BY <2>1, <2>2, <2>3 DEF TreeGood
<1>7. DirsGood(V, len, tr2, dl)
  <2>1. \A j \in DOMAIN dl : InTree(tr2, dl[j].id) BY <1>1, <1>4 DEF DirsGood, HandleGood
  <2>. QED BY <1>1, <2>1 DEF DirsGood, HandleGood
<1>. QED BY <1>1, <1>2, <1>4, <1>6, <1>7 DEF Fit, Sound

(* A new name with a new id, in a directory that has a slot.                *)
NameAdded(V, len, sup, ids, tr, dl, fl, d, e, V2, len2) ==
  /\ Fit(V, len, sup, ids, tr, dl, fl) /\ d \in Ids /\ InTree(tr, d)
  /\ e \in Entries /\ e.id \notin ids
  /\ e.kind = "file" => e.tail = 0 /\ \A f \in V[d] : f.kind = "file" => f.name # e.name
  /\ e.kind = "dir" => e.tail = len2[e.id] /\ e.tail >= 1
  /\ V2 \in Views /\ len2 \in Lengths /\ \A x \in Ids : x # e.id => len2[x] = len[x]
  /\ V2[d] = V[d] \cup {e} /\ \A x \in Ids : x # d => V2[x] = V[x]

LEMMA NameAddedFit ==
  ASSUME NEW V, NEW len, NEW sup, NEW ids, NEW tr, NEW dl, NEW fl, NEW d, NEW e, NEW V2, NEW len2,
         NameAdded(V, len, sup, ids, tr, dl, fl, d, e, V2, len2)
  PROVE  Fit(V2, len2, sup, ids \cup {e.id}, tr, dl, fl)
<1>0. /\ Fit(V, len, sup, ids, tr, dl, fl) /\ d \in Ids /\ InTree(tr, d)
      /\ e \in Entries /\ e.id \notin ids
      /\ e.kind = "file" => e.tail = 0 /\ \A f \in V[d] : f.kind = "file" => f.name # e.name
      /\ e.kind = "dir" => e.tail = len2[e.id] /\ e.tail >= 1
      /\ V2 \in Views /\ len2 \in Lengths /\ \A x \in Ids : x # e.id => len2[x] = len[x]
      /\ V2[d] = V[d] \cup {e} /\ \A x \in Ids : x # d => V2[x] = V[x]
  BY DEF NameAdded
<1>1. /\ V \in Views /\ len \in Lengths /\ sup \in Nat /\ ids \in SUBSET Ids
      /\ tr \in Trees /\ dl \in Seq(Handles) /\ fl \in Seq(Opened)
      /\ NamesGood(V, len, ids) /\ TreeGood(V, len, sup, tr)
      /\ DirsGood(V, len, tr, dl) /\ FilesGood(V, dl, fl)
      /\ DOMAIN tr = 1 .. TreeMax /\ 1 \in 1 .. TreeMax /\ Root \in Ids /\ Null \notin Ids
      /\ \A j \in DOMAIN dl : dl[j] \in Handles /\ dl[j].id \in Ids
      /\ \A j \in DOMAIN fl : fl[j] \in Opened /\ fl[j].id \in Ids /\ fl[j].father \in Ids
  BY <1>0, FitParts
<1>2. e.id \in Ids /\ e.kind \in {"dir", "file"} BY <1>0 DEF Entries
<1>3. \A x \in Ids : \A f \in V[x] : f.id \in ids /\ f.id \in Ids /\ f.id # e.id
  BY <1>0, <1>1 DEF NamesGood, Exact
<1>4. Root \in ids BY <1>1 DEF NamesGood, Exact
<1>5. \A x \in Ids : V[x] \subseteq V2[x] BY <1>0
<1>6. \A x \in Ids : \A f \in V2[x] : f \in V[x] \/ (x = d /\ f = e) BY <1>0
<1>7. e \in V2[d] BY <1>0
<1>8. NamesGood(V2, len2, ids \cup {e.id})
  <2>1. Unique(V2)
    <3>. SUFFICES ASSUME NEW x \in Ids, NEW y \in Ids, NEW f \in V2[x], NEW g \in V2[y], f.id = g.id
                  PROVE  x = y /\ f = g
      BY DEF Unique
    <3>1. (f \in V[x] \/ (x = d /\ f = e)) /\ (g \in V[y] \/ (y = d /\ g = e)) BY <1>6
    <3>. QED BY <1>1, <1>3, <3>1 DEF NamesGood, Unique
  <2>2. Exact(V2, ids \cup {e.id})
    <3>1. \A x \in Ids : \A f \in V2[x] : f.id \in ids \cup {e.id} /\ f.id # Root
      BY <1>0, <1>1, <1>4, <1>6 DEF NamesGood, Exact
    <3>2. ASSUME NEW id \in (ids \cup {e.id}) \ {Root} PROVE \E x \in Ids : \E f \in V2[x] : f.id = id
      <4>1. CASE id = e.id BY <1>0, <1>7, <4>1
      <4>2. CASE id \in ids BY <1>1, <1>5, <4>2 DEF NamesGood, Exact
      <4>. QED BY <4>1, <4>2
    <3>. QED BY <1>4, <3>1, <3>2 DEF Exact
  <2>3. OneFile(V2)
    <3>. SUFFICES ASSUME NEW x \in Ids, NEW f \in V2[x], NEW g \in V2[x],
                         f.kind = "file" /\ g.kind = "file" /\ f.name = g.name
                  PROVE  f = g
      BY DEF OneFile
    <3>1. (f \in V[x] \/ (x = d /\ f = e)) /\ (g \in V[x] \/ (x = d /\ g = e)) BY <1>6
    <3>. QED BY <1>0, <1>1, <3>1 DEF NamesGood, OneFile
  <2>4. TailsTold(V2, len2) BY <1>0, <1>1, <1>3, <1>6 DEF NamesGood, TailsTold
  <2>5. OnlyDirs(V2)
    <3>. SUFFICES ASSUME NEW x \in Ids, V2[x] # {}, x # Root
                  PROVE  \E g \in Ids : \E f \in V2[g] : f.id = x /\ f.kind = "dir"
      BY DEF OnlyDirs
    <3>1. CASE V[x] # {} BY <1>1, <1>5, <3>1 DEF NamesGood, OnlyDirs
    <3>2. CASE x = d
      <4>1. PICK i \in DOMAIN tr : tr[i].id = d BY <1>0 DEF InTree
      <4>2. i # 1 /\ tr[i].id # Null BY <1>0, <1>1, <3>2, <4>1 DEF TreeGood
      <4>3. SlotGood(V, tr, tr[i]) BY <1>1, <4>1, <4>2 DEF TreeGood
      <4>. DEFINE f == Name("dir", tr[i].stored, tr[i].id, tr[i].tail)
      <4>4. f \in V[tr[i].father] /\ tr[i].father \in Ids /\ f.id = d /\ f.kind = "dir"
        BY <4>1, <4>3, NameIs DEF SlotGood
      <4>. HIDE DEF f
      <4>. QED BY <1>5, <3>2, <4>4
    <3>. QED BY <1>0, <3>1, <3>2
  <2>. QED BY <2>1, <2>2, <2>3, <2>4, <2>5 DEF NamesGood
<1>9. TreeGood(V2, len2, sup, tr)
  <2>1. len2[Root] = len[Root] BY <1>0, <1>1, <1>4
  <2>2. \A j \in DOMAIN tr \ {1} : tr[j].id # Null => SlotGood(V2, tr, tr[j])
    BY <1>1, <1>5 DEF TreeGood, SlotGood
  <2>. QED BY <1>1, <2>1, <2>2 DEF TreeGood
<1>10. DirsGood(V2, len2, tr, dl)
  <2>1. ASSUME NEW j \in DOMAIN dl PROVE HandleGood(V2, len2, tr, dl[j])
    <3>1. HandleGood(V, len, tr, dl[j]) BY <1>1 DEF DirsGood
    <3>. DEFINE f == Name("dir", dl[j].name, dl[j].id, dl[j].tail)
    <3>2. f.id = dl[j].id BY NameIs
    <3>3. dl[j].id # Root => f \in V[dl[j].father] /\ dl[j].father \in Ids BY <3>1 DEF HandleGood
    <3>4. dl[j].id # e.id
      <4>. HIDE DEF f
      <4>. QED BY <1>0, <1>3, <1>4, <3>2, <3>3
    <3>5. len2[dl[j].id] = len[dl[j].id] BY <1>0, <1>1, <3>4
    <3>. QED BY <1>5, <3>1, <3>3, <3>5 DEF HandleGood
  <2>. QED BY <1>1, <2>1 DEF DirsGood
<1>11. FilesGood(V2, dl, fl) BY <1>1, <1>5 DEF FilesGood
<1>. QED BY <1>0, <1>1, <1>2, <1>8, <1>9, <1>10, <1>11 DEF Fit, Sound

(* A file is open.                                                          *)
FileListed(V, len, sup, ids, tr, dl, fl, f, fl2) ==
  /\ Fit(V, len, sup, ids, tr, dl, fl) /\ f \in Opened /\ ~ IsIn(fl, f.id)
  /\ IsIn(dl, f.father) /\ Name("file", f.name, f.id, 0) \in V[f.father] /\ fl2 = <<f>> \o fl

LEMMA FileListedFit ==
  ASSUME NEW V, NEW len, NEW sup, NEW ids, NEW tr, NEW dl, NEW fl, NEW f, NEW fl2,
         FileListed(V, len, sup, ids, tr, dl, fl, f, fl2)
  PROVE  Fit(V, len, sup, ids, tr, dl, fl2)
<1>0. /\ Fit(V, len, sup, ids, tr, dl, fl) /\ f \in Opened /\ ~ IsIn(fl, f.id)
      /\ IsIn(dl, f.father) /\ Name("file", f.name, f.id, 0) \in V[f.father] /\ fl2 = <<f>> \o fl
  BY DEF FileListed
<1>1. fl \in Seq(Opened) /\ FilesGood(V, dl, fl) BY <1>0, FitParts
<1>2. /\ fl2 \in Seq(Opened) /\ 1 \in DOMAIN fl2 /\ fl2[1] = f
      /\ \A j \in DOMAIN fl2 : j = 1 \/ (j - 1 \in DOMAIN fl /\ j \in Nat /\ fl2[j] = fl[j - 1])
  BY <1>0, <1>1, ConsIs
<1>3. ASSUME NEW a \in DOMAIN fl2, NEW b \in DOMAIN fl2, fl2[a].id = fl2[b].id PROVE a = b
  <2>1. \A j \in DOMAIN fl : fl[j].id # f.id BY <1>0 DEF IsIn
  <2>2. CASE a = 1 BY <1>2, <1>3, <2>1, <2>2
  <2>3. CASE a # 1
    <3>1. b # 1 BY <1>2, <1>3, <2>1, <2>3
    <3>2. /\ a - 1 \in DOMAIN fl /\ b - 1 \in DOMAIN fl /\ a \in Nat /\ b \in Nat
          /\ fl[a - 1].id = fl[b - 1].id
      BY <1>2, <1>3, <2>3, <3>1
    <3>3. a - 1 = b - 1 BY <1>1, <3>2 DEF FilesGood
    <3>. QED BY <3>2, <3>3
  <2>. QED BY <2>2, <2>3
<1>4. ASSUME NEW j \in DOMAIN fl2
      PROVE  /\ IsIn(dl, fl2[j].father)
             /\ Name("file", fl2[j].name, fl2[j].id, 0) \in V[fl2[j].father]
  BY <1>0, <1>1, <1>2 DEF FilesGood
<1>5. FilesGood(V, dl, fl2) BY <1>3, <1>4 DEF FilesGood
<1>. QED BY <1>0, <1>2, <1>5 DEF Fit, Sound

(* Lists with fewer elements.                                               *)
Fewer(list, new) ==
  /\ \A i, j \in DOMAIN new : new[i].id = new[j].id => i = j
  /\ \A k \in DOMAIN new : \E j \in DOMAIN list : new[k] = list[j]
(* An id and its name go.                                                   *)
NameGone(V, V2, id) == \A x \in Ids : V2[x] = {e \in V[x] : e.id # id}

LEMMA NameGoneNames ==
  ASSUME NEW V, NEW len, NEW sup, NEW ids, NEW tr, NEW dl, NEW fl, NEW id, NEW V2, NEW len2,
         Fit(V, len, sup, ids, tr, dl, fl), NameGone(V, V2, id), id \in Ids \ {Root}, V[id] = {},
         \A x \in Ids \ {id} : len2[x] = len[x]
  PROVE  NamesGood(V2, len2, ids \ {id})
<1>1. V \in Views /\ NamesGood(V, len, ids) BY FitParts
<1>2. \A x \in Ids : \A e \in V2[x] : e \in V[x] /\ e.id # id /\ e.id \in Ids
  BY <1>1 DEF NameGone, Views, Entries
<1>3. \A x \in Ids : \A e \in V[x] : e.id # id => e \in V2[x] BY DEF NameGone
<1>4. Unique(V2) BY <1>1, <1>2 DEF NamesGood, Unique
<1>5. Exact(V2, ids \ {id}) BY <1>1, <1>2, <1>3 DEF NamesGood, Exact
<1>6. OneFile(V2) BY <1>1, <1>2 DEF NamesGood, OneFile
<1>7. TailsTold(V2, len2) BY <1>1, <1>2 DEF NamesGood, TailsTold
<1>8. OnlyDirs(V2)
  <2>. SUFFICES ASSUME NEW x \in Ids, V2[x] # {}, x # Root
                PROVE  \E g \in Ids : \E f \in V2[g] : f.id = x /\ f.kind = "dir"
    BY DEF OnlyDirs
  <2>1. V[x] # {} /\ x # id BY <1>2
  <2>2. PICK g \in Ids : \E f \in V[g] : f.id = x /\ f.kind = "dir"
    BY <1>1, <2>1 DEF NamesGood, OnlyDirs
  <2>. QED BY <1>3, <2>1, <2>2
<1>. QED BY <1>4, <1>5, <1>6, <1>7, <1>8 DEF NamesGood

(* An empty directory goes, with its slot and its handle.                   *)
DirGone(V, len, sup, ids, tr, dl, fl, id, i, V2, len2, tr2, dl2) ==
  /\ Fit(V, len, sup, ids, tr, dl, fl) /\ id \in Ids \ {Root} /\ V[id] = {}
  /\ V2 \in Views /\ NameGone(V, V2, id) /\ len2 \in Lengths /\ \A x \in Ids \ {id} : len2[x] = len[x]
  /\ i \in 1 .. TreeMax /\ tr[i].id = id /\ tr2 = [tr EXCEPT ![i] = NoSlot]
  /\ dl2 \in Seq(Handles) /\ Fewer(dl, dl2) /\ \A j \in DOMAIN dl2 : dl2[j].id # id
  /\ \A j \in DOMAIN dl : dl[j].id # id => IsIn(dl2, dl[j].id)

LEMMA DirGoneFit ==
  ASSUME NEW V, NEW len, NEW sup, NEW ids, NEW tr, NEW dl, NEW fl, NEW id, NEW i,
         NEW V2, NEW len2, NEW tr2, NEW dl2,
         DirGone(V, len, sup, ids, tr, dl, fl, id, i, V2, len2, tr2, dl2)
  PROVE  Fit(V2, len2, sup, ids \ {id}, tr2, dl2, fl)
<1>0. /\ Fit(V, len, sup, ids, tr, dl, fl) /\ id \in Ids \ {Root} /\ V[id] = {}
      /\ V2 \in Views /\ NameGone(V, V2, id) /\ len2 \in Lengths /\ \A x \in Ids \ {id} : len2[x] = len[x]
      /\ i \in 1 .. TreeMax /\ tr[i].id = id /\ tr2 = [tr EXCEPT ![i] = NoSlot]
      /\ dl2 \in Seq(Handles) /\ Fewer(dl, dl2) /\ \A j \in DOMAIN dl2 : dl2[j].id # id
      /\ \A j \in DOMAIN dl : dl[j].id # id => IsIn(dl2, dl[j].id)
  BY DEF DirGone
<1>1. /\ V \in Views /\ len \in Lengths /\ sup \in Nat /\ ids \in SUBSET Ids
      /\ tr \in Trees /\ dl \in Seq(Handles) /\ fl \in Seq(Opened)
      /\ NamesGood(V, len, ids) /\ TreeGood(V, len, sup, tr)
      /\ DirsGood(V, len, tr, dl) /\ FilesGood(V, dl, fl)
      /\ DOMAIN tr = 1 .. TreeMax /\ 1 \in 1 .. TreeMax /\ Root \in Ids /\ Null \notin Ids
      /\ \A j \in DOMAIN dl : dl[j] \in Handles /\ dl[j].id \in Ids
      /\ \A j \in DOMAIN fl : fl[j] \in Opened /\ fl[j].id \in Ids /\ fl[j].father \in Ids
  BY <1>0, FitParts
<1>2. NamesGood(V2, len2, ids \ {id}) BY <1>0, NameGoneNames
<1>3. \A x \in Ids : \A e \in V[x] : e.id # id => e \in V2[x] BY <1>0 DEF NameGone
<1>4. NoSlot \in Slots /\ NoSlot.id = Null BY DEF NoSlot, Slots
<1>5. /\ tr2 \in Trees /\ DOMAIN tr2 = 1 .. TreeMax /\ tr2[i] = NoSlot
      /\ \A j \in 1 .. TreeMax : j # i => tr2[j] = tr[j]
  BY <1>0, <1>1, <1>4 DEF Trees
<1>6. i # 1 /\ id # Null /\ id # Root BY <1>0, <1>1 DEF TreeGood
<1>7. \A x \in Ids \ {id} : InTree(tr, x) => InTree(tr2, x)
  BY <1>0, <1>1, <1>5 DEF InTree
<1>8. TreeGood(V2, len2, sup, tr2)
  <2>1. sup = len2[Root] /\ sup >= 1 /\ tr2[1].id = Root /\ tr2[1].father = Null /\ tr2[1].tail = sup
    BY <1>0, <1>1, <1>5, <1>6 DEF TreeGood
  <2>2. \A a, b \in DOMAIN tr2 : tr2[a].id = tr2[b].id /\ tr2[a].id # Null => a = b
    BY <1>1, <1>4, <1>5 DEF TreeGood
  <2>3. ASSUME NEW j \in DOMAIN tr2 \ {1}, tr2[j].id # Null PROVE SlotGood(V2, tr2, tr2[j])
    <3>1. j # i /\ tr2[j] = tr[j] BY <1>4, <1>5, <2>3
    <3>2. SlotGood(V, tr, tr[j]) BY <1>1, <1>5, <2>3, <3>1 DEF TreeGood
    <3>3. tr[j].id # id BY <1>0, <1>1, <1>5, <2>3, <3>1 DEF TreeGood
    <3>. DEFINE e == Name("dir", tr[j].stored, tr[j].id, tr[j].tail)
    <3>4. e \in V[tr[j].father] /\ e.id # id /\ tr[j].father \in Ids BY <3>2, <3>3, NameIs DEF SlotGood
    <3>5. e \in V2[tr[j].father] /\ tr[j].father # id
      <4>. HIDE DEF e
      <4>. QED BY <1>0, <1>3, <3>4
    <3>6. InTree(tr2, tr[j].father) BY <1>7, <3>2, <3>4, <3>5 DEF SlotGood
    <3>. QED BY <3>1, <3>2, <3>5, <3>6 DEF SlotGood
  <2>. QED BY <2>1, <2>2, <2>3 DEF TreeGood
<1>9. DirsGood(V2, len2, tr2, dl2)
  <2>1. IsIn(dl2, Root)
    <3>1. PICK j \in DOMAIN dl : dl[j].id = Root BY <1>1 DEF DirsGood, IsIn
    <3>. QED BY <1>0, <1>6, <3>1
  <2>2. ASSUME NEW k \in DOMAIN dl2 PROVE HandleGood(V2, len2, tr2, dl2[k])
    <3>1. PICK j \in DOMAIN dl : dl2[k] = dl[j] BY <1>0 DEF Fewer
    <3>2. HandleGood(V, len, tr, dl[j]) /\ dl[j].id # id /\ dl[j].id \in Ids BY <1>0, <1>1, <3>1 DEF DirsGood
    <3>. DEFINE e == Name("dir", dl[j].name, dl[j].id, dl[j].tail)
    <3>3. e.id # id BY <3>2, NameIs
    <3>4. dl[j].id # Root => dl[j].father \in Ids /\ e \in V2[dl[j].father]
      <4>1. dl[j].id # Root => dl[j].father \in Ids /\ e \in V[dl[j].father] BY <3>2 DEF HandleGood
      <4>. HIDE DEF e
      <4>. QED BY <1>3, <3>3, <4>1
    <3>5. InTree(tr2, dl[j].id) /\ len2[dl[j].id] = len[dl[j].id] BY <1>0, <1>7, <3>2 DEF HandleGood
    <3>. QED BY <3>1, <3>2, <3>4, <3>5 DEF HandleGood
  <2>. QED BY <1>0, <2>1, <2>2 DEF DirsGood, Fewer
<1>10. FilesGood(V2, dl2, fl)
  <2>1. ASSUME NEW k \in DOMAIN fl
        PROVE  /\ IsIn(dl2, fl[k].father)
               /\ Name("file", fl[k].name, fl[k].id, 0) \in V2[fl[k].father]
    <3>. DEFINE e == Name("file", fl[k].name, fl[k].id, 0)
    <3>1. e \in V[fl[k].father] /\ IsIn(dl, fl[k].father) /\ fl[k].father \in Ids /\ e.kind = "file"
      BY <1>1, NameIs DEF FilesGood
    <3>. HIDE DEF e
    <3>2. fl[k].father # id BY <1>0, <3>1
    <3>3. IsIn(dl2, fl[k].father) BY <1>0, <3>1, <3>2 DEF IsIn
    <3>4. e.id # id
      <4>1. SlotGood(V, tr, tr[i]) BY <1>0, <1>1, <1>6 DEF TreeGood
      <4>. DEFINE g == Name("dir", tr[i].stored, tr[i].id, tr[i].tail)
      <4>2. g \in V[tr[i].father] /\ tr[i].father \in Ids /\ g.id = id /\ g.kind = "dir"
        BY <1>0, <4>1, NameIs DEF SlotGood
      <4>. HIDE DEF g
      <4>. QED BY <1>1, <3>1, <4>2 DEF NamesGood, Unique
    <3>5. e \in V2[fl[k].father] BY <1>3, <3>1, <3>4
    <3>. QED BY <3>3, <3>5 DEF e
  <2>. QED BY <1>1, <2>1 DEF FilesGood
<1>. QED BY <1>0, <1>1, <1>2, <1>5, <1>8, <1>9, <1>10 DEF Fit, Sound

(* A directory without open files is closed.                                *)
HandleGone(V, len, sup, ids, tr, dl, fl, id, dl2) ==
  /\ Fit(V, len, sup, ids, tr, dl, fl) /\ id # Root /\ \A k \in DOMAIN fl : fl[k].father # id
  /\ dl2 \in Seq(Handles) /\ Fewer(dl, dl2)
  /\ \A j \in DOMAIN dl : dl[j].id # id => IsIn(dl2, dl[j].id)

LEMMA HandleGoneFit ==
  ASSUME NEW V, NEW len, NEW sup, NEW ids, NEW tr, NEW dl, NEW fl, NEW id, NEW dl2,
         HandleGone(V, len, sup, ids, tr, dl, fl, id, dl2)
  PROVE  Fit(V, len, sup, ids, tr, dl2, fl)
<1>0. /\ Fit(V, len, sup, ids, tr, dl, fl) /\ id # Root /\ \A k \in DOMAIN fl : fl[k].father # id
      /\ dl2 \in Seq(Handles) /\ Fewer(dl, dl2)
      /\ \A j \in DOMAIN dl : dl[j].id # id => IsIn(dl2, dl[j].id)
  BY DEF HandleGone
<1>1. DirsGood(V, len, tr, dl) /\ FilesGood(V, dl, fl) BY <1>0, FitParts
<1>2. IsIn(dl2, Root)
  <2>1. PICK j \in DOMAIN dl : dl[j].id = Root BY <1>1 DEF DirsGood, IsIn
  <2>. QED BY <1>0, <2>1
<1>3. DirsGood(V, len, tr, dl2) BY <1>0, <1>1, <1>2 DEF DirsGood, Fewer
<1>4. FilesGood(V, dl2, fl) BY <1>0, <1>1 DEF FilesGood, IsIn
<1>. QED BY <1>0, <1>3, <1>4 DEF Fit, Sound

(* Files are closed.                                                        *)
LEMMA FilesFewerFit ==
  ASSUME NEW V, NEW len, NEW sup, NEW ids, NEW tr, NEW dl, NEW fl, NEW fl2,
         Fit(V, len, sup, ids, tr, dl, fl), fl2 \in Seq(Opened), Fewer(fl, fl2)
  PROVE  Fit(V, len, sup, ids, tr, dl, fl2)
<1>1. FilesGood(V, dl, fl) BY FitParts
<1>2. FilesGood(V, dl, fl2) BY <1>1 DEF FilesGood, Fewer
<1>. QED BY <1>2 DEF Fit, Sound

(* A file goes.                                                             *)
FileGone(V, len, sup, ids, tr, dl, fl, k, V2, fl2) ==
  /\ Fit(V, len, sup, ids, tr, dl, fl) /\ k \in DOMAIN fl
  /\ V2 \in Views /\ NameGone(V, V2, fl[k].id)
  /\ fl2 \in Seq(Opened) /\ Fewer(fl, fl2) /\ \A j \in DOMAIN fl2 : fl2[j].id # fl[k].id

LEMMA FileGoneFit ==
  ASSUME NEW V, NEW len, NEW sup, NEW ids, NEW tr, NEW dl, NEW fl, NEW k, NEW V2, NEW fl2,
         FileGone(V, len, sup, ids, tr, dl, fl, k, V2, fl2)
  PROVE  Fit(V2, len, sup, ids \ {fl[k].id}, tr, dl, fl2)
<1>. DEFINE id == fl[k].id
<1>0. /\ Fit(V, len, sup, ids, tr, dl, fl) /\ k \in DOMAIN fl
      /\ V2 \in Views /\ NameGone(V, V2, id)
      /\ fl2 \in Seq(Opened) /\ Fewer(fl, fl2) /\ \A j \in DOMAIN fl2 : fl2[j].id # id
  BY DEF FileGone
<1>1. /\ V \in Views /\ len \in Lengths /\ sup \in Nat /\ ids \in SUBSET Ids
      /\ tr \in Trees /\ dl \in Seq(Handles) /\ fl \in Seq(Opened)
      /\ NamesGood(V, len, ids) /\ TreeGood(V, len, sup, tr)
      /\ DirsGood(V, len, tr, dl) /\ FilesGood(V, dl, fl)
      /\ \A j \in DOMAIN fl : fl[j] \in Opened /\ fl[j].id \in Ids /\ fl[j].father \in Ids
  BY <1>0, FitParts
<1>. DEFINE e == Name("file", fl[k].name, fl[k].id, 0)
<1>2. e \in V[fl[k].father] /\ fl[k].father \in Ids /\ e.kind = "file" /\ e.id = id
  BY <1>0, <1>1, NameIs DEF FilesGood
<1>3. id \in Ids \ {Root}
  <2>. HIDE DEF e
  <2>. QED BY <1>0, <1>1, <1>2 DEF NamesGood, Exact
<1>. HIDE DEF e, id
<1>4. \A x \in Ids : \A g \in V[x] : g.id = id => g = e
  BY <1>1, <1>2 DEF NamesGood, Unique
<1>5. V[id] = {} BY <1>1, <1>2, <1>3, <1>4 DEF NamesGood, OnlyDirs
<1>6. \A x \in Ids : \A g \in V[x] : g # e => g \in V2[x] BY <1>0, <1>4 DEF NameGone
<1>7. NamesGood(V2, len, ids \ {id}) BY <1>0, <1>3, <1>5, NameGoneNames
<1>8. TreeGood(V2, len, sup, tr)
  <2>1. ASSUME NEW j \in DOMAIN tr \ {1}, tr[j].id # Null PROVE SlotGood(V2, tr, tr[j])
    <3>1. SlotGood(V, tr, tr[j]) BY <1>1, <2>1 DEF TreeGood
    <3>2. Name("dir", tr[j].stored, tr[j].id, tr[j].tail) # e BY <1>2, NameIs
    <3>. QED BY <1>6, <3>1, <3>2 DEF SlotGood
  <2>. QED BY <1>1, <2>1 DEF TreeGood
<1>9. DirsGood(V2, len, tr, dl)
  <2>1. ASSUME NEW j \in DOMAIN dl PROVE HandleGood(V2, len, tr, dl[j])
    <3>1. HandleGood(V, len, tr, dl[j]) BY <1>1 DEF DirsGood
    <3>2. Name("dir", dl[j].name, dl[j].id, dl[j].tail) # e BY <1>2, NameIs
    <3>. QED BY <1>6, <3>1, <3>2 DEF HandleGood
  <2>. QED BY <1>1, <2>1 DEF DirsGood
<1>10. FilesGood(V2, dl, fl2)
  <2>1. ASSUME NEW j \in DOMAIN fl2
        PROVE  /\ IsIn(dl, fl2[j].father)
               /\ Name("file", fl2[j].name, fl2[j].id, 0) \in V2[fl2[j].father]
    <3>1. PICK a \in DOMAIN fl : fl2[j] = fl[a] BY <1>0 DEF Fewer
    <3>2. IsIn(dl, fl[a].father) /\ Name("file", fl[a].name, fl[a].id, 0) \in V[fl[a].father]
          /\ fl[a].father \in Ids
      BY <1>1 DEF FilesGood
    <3>3. Name("file", fl[a].name, fl[a].id, 0) # e
      <4>1. fl[a].id # id BY <1>0, <3>1
      <4>. QED BY <1>2, <4>1, NameIs
    <3>. QED BY <1>6, <3>1, <3>2, <3>3
  <2>. QED BY <1>0, <2>1 DEF FilesGood, Fewer
<1>. QED BY <1>0, <1>1, <1>7, <1>8, <1>9, <1>10 DEF Fit, Sound, id

(* mount: only the root.                                                    *)
LEMMA MountedFit ==
  ASSUME NEW V, NEW len, NEW sup, NEW ids, NEW tr, NEW dl, NEW fl,
         Fit(V, len, sup, ids, tr, dl, fl)
  PROVE  Fit(V, len, sup, ids,
             [i \in 1 .. TreeMax |-> IF i = 1 THEN Slot(Root, Null, Null, Null, sup) ELSE NoSlot],
             <<DirHandle(Root, Null, Null, sup)>>, <<>>)
<1>. DEFINE tr2 == [i \in 1 .. TreeMax |-> IF i = 1 THEN Slot(Root, Null, Null, Null, sup) ELSE NoSlot]
            h   == DirHandle(Root, Null, Null, sup)
            dl2 == <<h>>
<1>1. /\ V \in Views /\ len \in Lengths /\ sup \in Nat /\ ids \in SUBSET Ids
      /\ NamesGood(V, len, ids) /\ sup = len[Root] /\ sup >= 1
      /\ 1 \in 1 .. TreeMax /\ Root \in Ids /\ Null \notin Ids
  BY FitParts DEF TreeGood
<1>2. /\ tr2 \in Trees /\ DOMAIN tr2 = 1 .. TreeMax /\ tr2[1].id = Root /\ tr2[1].father = Null
      /\ tr2[1].tail = sup
      /\ \A i \in 1 .. TreeMax : i # 1 => tr2[i].id = Null
  BY <1>1 DEF Trees, Slots, Slot, NoSlot
<1>3. h \in Handles /\ h.id = Root /\ h.tail = sup BY <1>1 DEF Handles, DirHandle
<1>. HIDE DEF tr2, h
<1>4. dl2 \in Seq(Handles) /\ DOMAIN dl2 = {1} /\ dl2[1] = h BY <1>3, Single
<1>5. TreeGood(V, len, sup, tr2) BY <1>1, <1>2 DEF TreeGood
<1>6. DirsGood(V, len, tr2, dl2)
  BY <1>1, <1>2, <1>3, <1>4 DEF DirsGood, IsIn, HandleGood, InTree
<1>7. FilesGood(V, dl2, <<>>) /\ <<>> \in Seq(Opened) BY DEF FilesGood
<1>. QED BY <1>1, <1>2, <1>4, <1>5, <1>6, <1>7 DEF Fit, Sound, tr2, h

-----------------------------------------------------------------------------
(* The steps on what an operation works on.                                 *)
LEMMA GoodParts ==
  ASSUME NEW m, Good(m)
  PROVE  /\ m \in Memories
         /\ Fit(Shown(m), Lens(m), m.super, m.used, m.tree, m.dirs, m.files)
         /\ LensGood(Lens(m), m.full) /\ CallsGood(m.full, m.dirs, m.calls)
<1>1. m \in Memories /\ Sound(Shown(m), Lens(m), m.super, m.used, m.tree, m.dirs, m.files)
  BY DEF Good
<1>2. Shown(m) \in Views BY DEF Shown, Views, InLog, Due
<1>3. Lens(m) \in Lengths
  <2>1. m.log \in Chains BY <1>1 DEF Memories
  <2>2. \A d \in Ids : Len(m.log[d]) \in Nat BY <2>1 DEF Chains
  <2>. QED BY <2>2 DEF Lens, Lengths
<1>4. /\ m.super \in Nat /\ m.used \in SUBSET Ids /\ m.tree \in Trees
      /\ m.dirs \in Seq(Handles) /\ m.files \in Seq(Opened)
  BY <1>1 DEF Memories
<1>. QED BY <1>1, <1>2, <1>3, <1>4 DEF Good, Fit

LEMMA GoodFrom ==
  ASSUME NEW m \in Memories, Fit(Shown(m), Lens(m), m.super, m.used, m.tree, m.dirs, m.files),
         LensGood(Lens(m), m.full), CallsGood(m.full, m.dirs, m.calls)
  PROVE  Good(m)
BY DEF Good, Fit

LEMMA MemoryTypes ==
  ASSUME NEW m \in Memories
  PROVE  /\ m.log \in Chains /\ m.super \in Nat /\ m.used \in SUBSET Ids /\ m.tree \in Trees
         /\ m.dirs \in Seq(Handles) /\ m.files \in Seq(Opened) /\ m.full \in SUBSET Ids
         /\ m.calls \in Seq(Calls) /\ m.at \in Ids /\ m.err \in BOOLEAN /\ m.fault \in BOOLEAN
         /\ \A d \in Ids : /\ m.log[d] \in Seq(Seq(Entries)) /\ Len(m.log[d]) \in Nat
                           /\ DOMAIN m.log[d] = 1 .. Len(m.log[d])
                           /\ \A s \in DOMAIN m.log[d] : m.log[d][s] \in Seq(Entries)
         /\ \A j \in DOMAIN m.calls : m.calls[j] \in Calls /\ m.calls[j].dir \in Ids
                                      /\ m.calls[j].names \in Seq(Entries)
<1>1. /\ m.log \in Chains /\ m.super \in Nat /\ m.used \in SUBSET Ids /\ m.tree \in Trees
      /\ m.dirs \in Seq(Handles) /\ m.files \in Seq(Opened) /\ m.full \in SUBSET Ids
      /\ m.calls \in Seq(Calls) /\ m.at \in Ids /\ m.err \in BOOLEAN /\ m.fault \in BOOLEAN
  BY DEF Memories
<1>2. ASSUME NEW d \in Ids
      PROVE  /\ m.log[d] \in Seq(Seq(Entries)) /\ Len(m.log[d]) \in Nat
             /\ DOMAIN m.log[d] = 1 .. Len(m.log[d])
             /\ \A s \in DOMAIN m.log[d] : m.log[d][s] \in Seq(Entries)
  <2>1. m.log[d] \in Seq(Seq(Entries)) BY <1>1 DEF Chains
  <2>. QED BY <2>1
<1>3. ASSUME NEW j \in DOMAIN m.calls
      PROVE  m.calls[j] \in Calls /\ m.calls[j].dir \in Ids /\ m.calls[j].names \in Seq(Entries)
  <2>1. m.calls[j] \in Calls BY <1>1
  <2>. QED BY <2>1 DEF Calls
<1>. QED BY <1>1, <1>2, <1>3

LEMMA InLogIs ==
  ASSUME NEW m \in Memories, NEW d \in Ids
  PROVE  /\ \A s \in DOMAIN m.log[d] : \A k \in DOMAIN m.log[d][s] :
              m.log[d][s][k] \in Entries /\ m.log[d][s][k] \in InLog(m, d)
         /\ \A e \in InLog(m, d) : \E s \in DOMAIN m.log[d] : \E k \in DOMAIN m.log[d][s] : e = m.log[d][s][k]
<1>1. \A s \in DOMAIN m.log[d] : m.log[d][s] \in Seq(Entries) BY MemoryTypes
<1>2. \A s \in DOMAIN m.log[d] : \A k \in DOMAIN m.log[d][s] : m.log[d][s][k] \in Entries
  BY <1>1
<1>. QED BY <1>2 DEF InLog

LEMMA ShownIs ==
  ASSUME NEW m, NEW d \in Ids
  PROVE  /\ Shown(m)[d] = InLog(m, d) \cup Due(m, d) /\ Lens(m)[d] = Len(m.log[d])
         /\ InLog(m, d) \subseteq Entries /\ Due(m, d) \subseteq Entries
BY DEF Shown, Lens, InLog, Due

LEMMA ShownSame ==
  ASSUME NEW m, NEW r,
         \A d \in Ids : /\ InLog(m, d) \cup Due(m, d) = InLog(r, d) \cup Due(r, d)
                        /\ Len(m.log[d]) = Len(r.log[d])
  PROVE  Shown(r) = Shown(m) /\ Lens(r) = Lens(m)
BY DEF Shown, Lens

LEMMA SameLog ==
  ASSUME NEW m, NEW r, r.log = m.log, r.calls = m.calls
  PROVE  Shown(r) = Shown(m) /\ Lens(r) = Lens(m)
BY DEF Shown, Lens, InLog, Due

(* Without calls the names shown are those in the log.                      *)
LEMMA NothingDue ==
  ASSUME NEW m, m.calls = <<>>, NEW d \in Ids
  PROVE  Due(m, d) = {} /\ Shown(m)[d] = InLog(m, d)
BY DEF Due, Shown

LEMMA OpenKnown ==
  ASSUME NEW m, Good(m), NEW d, IsIn(m.dirs, d)
  PROVE  LET k == HandleIn(m.dirs, d) IN
         /\ k \in DOMAIN m.dirs /\ m.dirs[k].id = d /\ m.dirs[k] \in Handles /\ d \in Ids
         /\ m.dirs[k].tail = Len(m.log[d]) /\ m.dirs[k].tail >= 1 /\ m.dirs[k].tail \in Nat
         /\ SlotsOf(m.tree, d) # {} /\ FirstOf(SlotsOf(m.tree, d)) \in DOMAIN m.tree
         /\ FirstOf(SlotsOf(m.tree, d)) \in 1 .. TreeMax
         /\ m.tree[FirstOf(SlotsOf(m.tree, d))].id = d
         /\ d # Root => /\ m.dirs[k].father \in Ids
                        /\ Name("dir", m.dirs[k].name, d, m.dirs[k].tail) \in Shown(m)[m.dirs[k].father]
<1>. DEFINE k == HandleIn(m.dirs, d)
<1>1. k \in DOMAIN m.dirs /\ m.dirs[k].id = d BY HandleInIs
<1>. HIDE DEF k
<1>2. /\ DirsGood(Shown(m), Lens(m), m.tree, m.dirs) /\ m.dirs[k] \in Handles /\ m.dirs[k].id \in Ids
      /\ m.dirs[k].tail \in Nat /\ m.tree \in Trees
  BY <1>1, GoodParts, FitParts
<1>3. HandleGood(Shown(m), Lens(m), m.tree, m.dirs[k]) BY <1>1, <1>2 DEF DirsGood
<1>4. m.dirs[k].tail = Len(m.log[d]) /\ m.dirs[k].tail >= 1
  BY <1>1, <1>2, <1>3, ShownIs DEF HandleGood
<1>5. SlotsOf(m.tree, d) # {} BY <1>1, <1>2, <1>3, SlotsOfIn DEF HandleGood
<1>6. /\ FirstOf(SlotsOf(m.tree, d)) \in DOMAIN m.tree /\ FirstOf(SlotsOf(m.tree, d)) \in 1 .. TreeMax
      /\ m.tree[FirstOf(SlotsOf(m.tree, d))].id = d
  BY <1>2, <1>5, SlotIn
<1>7. d # Root => /\ m.dirs[k].father \in Ids
                  /\ Name("dir", m.dirs[k].name, d, m.dirs[k].tail) \in Shown(m)[m.dirs[k].father]
  BY <1>1, <1>3 DEF HandleGood
<1>. QED BY <1>1, <1>2, <1>4, <1>5, <1>6, <1>7 DEF k

(* A slot in use: its tail is that of its directory.                        *)
LEMMA SlotKnown ==
  ASSUME NEW m, Good(m), NEW i \in DOMAIN m.tree, m.tree[i].id # Null
  PROVE  /\ m.tree[i].id \in Ids /\ m.tree[i].tail = Len(m.log[m.tree[i].id]) /\ m.tree[i].tail >= 1
         /\ m.tree[i] \in Slots
<1>1. /\ TreeGood(Shown(m), Lens(m), m.super, m.tree) /\ m.tree \in Trees /\ Root \in Ids
      /\ NamesGood(Shown(m), Lens(m), m.used) /\ DOMAIN m.tree = 1 .. TreeMax
  BY GoodParts, FitParts
<1>2. m.tree[i] \in Slots /\ m.tree[i].id \in Ids BY <1>1 DEF Trees, Slots
<1>3. CASE i = 1 BY <1>1, <1>2, <1>3, ShownIs DEF TreeGood
<1>4. CASE i # 1
  <2>1. SlotGood(Shown(m), m.tree, m.tree[i]) BY <1>1, <1>4 DEF TreeGood
  <2>. DEFINE e == Name("dir", m.tree[i].stored, m.tree[i].id, m.tree[i].tail)
  <2>2. /\ e \in Shown(m)[m.tree[i].father] /\ m.tree[i].father \in Ids /\ e.kind = "dir"
        /\ e.id = m.tree[i].id /\ e.tail = m.tree[i].tail
    BY <2>1, NameIs DEF SlotGood
  <2>. HIDE DEF e
  <2>3. e.tail = Lens(m)[e.id] /\ e.tail >= 1 BY <1>1, <2>2 DEF NamesGood, TailsTold
  <2>. QED BY <1>2, <2>2, <2>3, ShownIs
<1>. QED BY <1>3, <1>4

(* What an operation keeps when it opens a directory on the way.            *)
OpenedOn(m, r) ==
  /\ r.log = m.log /\ r.super = m.super /\ r.used = m.used /\ r.tree = m.tree /\ r.files = m.files
  /\ r.full = m.full /\ r.calls = m.calls /\ r.at = m.at /\ r.err = m.err /\ r.fault = m.fault
  /\ \A id : IsIn(m.dirs, id) => IsIn(r.dirs, id)

LEMMA LowOpenedGood ==
  ASSUME NEW m, Good(m), NEW i \in DOMAIN m.tree, m.tree[i].id # Null
  PROVE  /\ Good(LowOpened(m, m.tree[i])) /\ OpenedOn(m, LowOpened(m, m.tree[i]))
         /\ IsIn(LowOpened(m, m.tree[i]).dirs, m.tree[i].id)
<1>. DEFINE t == m.tree[i]
            h == DirHandle(t.id, t.father, t.stored, t.tail)
            dl2 == <<h>> \o m.dirs
            r == [m EXCEPT !.dirs = dl2]
<1>1. m \in Memories /\ Fit(Shown(m), Lens(m), m.super, m.used, m.tree, m.dirs, m.files)
      /\ LensGood(Lens(m), m.full) /\ CallsGood(m.full, m.dirs, m.calls)
  BY GoodParts
<1>2. CASE IsIn(m.dirs, t.id)
  <2>1. LowOpened(m, t) = m BY <1>2 DEF LowOpened
  <2>. QED BY <1>2, <2>1 DEF OpenedOn
<1>3. CASE ~ IsIn(m.dirs, t.id)
  <2>1. t.id \in Ids /\ t.tail = Len(m.log[t.id]) /\ t \in Slots /\ t.tail \in Nat
    <3>1. t.id \in Ids /\ t.tail = Len(m.log[t.id]) /\ t \in Slots BY SlotKnown
    <3>. QED BY <3>1 DEF Slots
  <2>2. LowOpened(m, t) = r
    <3>1. Readable(m, t.id, t.tail) BY <2>1 DEF Readable
    <3>. QED BY <1>3, <3>1 DEF LowOpened
  <2>3. /\ r.log = m.log /\ r.super = m.super /\ r.used = m.used /\ r.tree = m.tree
        /\ r.files = m.files /\ r.full = m.full /\ r.calls = m.calls /\ r.at = m.at
        /\ r.err = m.err /\ r.fault = m.fault /\ r.dirs = dl2
    BY <1>1 DEF Memories
  <2>4. h \in Handles /\ h.id = t.id BY <2>1 DEF Handles, DirHandle, Slots
  <2>5. m.dirs \in Seq(Handles) BY <1>1, MemoryTypes
  <2>6. SlotOpened(Shown(m), Lens(m), m.super, m.used, m.tree, m.dirs, m.files, i, dl2)
    BY <1>1, <1>3 DEF SlotOpened
  <2>. HIDE DEF h
  <2>7. /\ Fit(Shown(m), Lens(m), m.super, m.used, m.tree, dl2, m.files)
        /\ \A id : IsIn(m.dirs, id) => IsIn(dl2, id)
    BY <2>6, SlotOpenedFit
  <2>8. dl2 \in Seq(Handles) /\ 1 \in DOMAIN dl2 /\ dl2[1] = h BY <2>4, <2>5, ConsIs
  <2>. HIDE DEF dl2
  <2>9. r \in Memories BY <1>1, <2>8 DEF Memories
  <2>. HIDE DEF r
  <2>10. Shown(r) = Shown(m) /\ Lens(r) = Lens(m) BY <2>3, SameLog
  <2>11. CallsGood(r.full, r.dirs, r.calls) BY <1>1, <2>3, <2>7 DEF CallsGood
  <2>12. Good(r) BY <1>1, <2>3, <2>7, <2>9, <2>10, <2>11, GoodFrom
  <2>13. IsIn(r.dirs, t.id) BY <2>3, <2>4, <2>8 DEF IsIn
  <2>14. OpenedOn(m, r) BY <2>3, <2>7 DEF OpenedOn
  <2>. HIDE DEF t
  <2>15. Good(LowOpened(m, t)) /\ OpenedOn(m, LowOpened(m, t)) /\ IsIn(LowOpened(m, t).dirs, t.id)
    BY <2>2, <2>12, <2>13, <2>14
  <2>. QED BY <2>15 DEF t
<1>. QED BY <1>2, <1>3

LEMMA RewrittenIs ==
  ASSUME NEW chains \in Chains, NEW d \in Ids, NEW chain \in Seq(Seq(Entries))
  PROVE  /\ Rewritten(chains, d, chain) \in Chains
         /\ \A x \in Ids : Rewritten(chains, d, chain)[x] = IF x = d THEN chain ELSE chains[x]
BY DEF Rewritten, Chains

LEMMA ErasedIs ==
  ASSUME NEW m \in Memories, NEW d \in Ids, NEW id
  PROVE  LET r == Erased(m, d, id) IN
         /\ r \in Memories
         /\ r.super = m.super /\ r.used = m.used /\ r.tree = m.tree /\ r.dirs = m.dirs
         /\ r.files = m.files /\ r.full = m.full /\ r.calls = m.calls /\ r.at = m.at
         /\ r.err = m.err /\ r.fault = m.fault
         /\ Lens(r) = Lens(m)
         /\ \A x \in Ids : InLog(r, x) = IF x = d THEN {e \in InLog(m, x) : e.id # id} ELSE InLog(m, x)
<1>. DEFINE new == [s \in DOMAIN m.log[d] |-> Without(m.log[d][s], id)]
            r == Erased(m, d, id)
<1>1. /\ m.log \in Chains /\ m.log[d] \in Seq(Seq(Entries)) /\ Len(m.log[d]) \in Nat
      /\ DOMAIN m.log[d] = 1 .. Len(m.log[d])
      /\ \A s \in DOMAIN m.log[d] : m.log[d][s] \in Seq(Entries)
  BY MemoryTypes
<1>2. \A s \in DOMAIN m.log[d] : new[s] \in Seq(Entries)
  BY <1>1, WithoutIs
<1>3. new \in [1 .. Len(m.log[d]) -> Seq(Entries)] BY <1>1, <1>2
<1>4. new \in Seq(Seq(Entries)) /\ Len(new) = Len(m.log[d]) /\ DOMAIN new = DOMAIN m.log[d]
  BY <1>1, <1>3, FunSeq
<1>5. \A s \in DOMAIN m.log[d] : new[s] = Without(m.log[d][s], id) OBVIOUS
<1>6. r = [m EXCEPT !.log = Rewritten(m.log, d, new)] BY DEF Erased
<1>. HIDE DEF new
<1>7. /\ Rewritten(m.log, d, new) \in Chains
      /\ \A x \in Ids : Rewritten(m.log, d, new)[x] = IF x = d THEN new ELSE m.log[x]
  BY <1>1, <1>4, RewrittenIs
<1>8. r \in Memories BY <1>6, <1>7 DEF Memories
<1>9. /\ r.super = m.super /\ r.used = m.used /\ r.tree = m.tree /\ r.dirs = m.dirs
      /\ r.files = m.files /\ r.full = m.full /\ r.calls = m.calls /\ r.at = m.at
      /\ r.err = m.err /\ r.fault = m.fault /\ r.log = Rewritten(m.log, d, new)
  BY <1>6 DEF Memories
<1>. HIDE DEF r
<1>10. Lens(r) = Lens(m) BY <1>4, <1>7, <1>9 DEF Lens
<1>11. ASSUME NEW x \in Ids, x # d PROVE InLog(r, x) = InLog(m, x)
  BY <1>7, <1>9, <1>11 DEF InLog
<1>12. InLog(r, d) = {e \in InLog(m, d) : e.id # id}
  <2>1. r.log[d] = new BY <1>7, <1>9
  <2>2. ASSUME NEW e \in InLog(r, d) PROVE e \in InLog(m, d) /\ e.id # id
    <3>1. PICK s \in DOMAIN new : \E k \in DOMAIN new[s] : e = new[s][k] BY <1>8, <2>1, InLogIs
    <3>2. PICK k \in DOMAIN new[s] : e = new[s][k] BY <3>1
    <3>3. s \in DOMAIN m.log[d] /\ m.log[d][s] \in Seq(Entries) /\ new[s] = Without(m.log[d][s], id)
      BY <1>1, <1>4, <1>5
    <3>4. PICK j \in DOMAIN m.log[d][s] : m.log[d][s][j] = new[s][k] BY <3>2, <3>3, WithoutIs
    <3>5. e.id # id BY <3>2, <3>3, WithoutIs
    <3>6. e \in InLog(m, d) BY <3>2, <3>3, <3>4, InLogIs
    <3>. QED BY <3>5, <3>6
  <2>3. ASSUME NEW e \in InLog(m, d), e.id # id PROVE e \in InLog(r, d)
    <3>1. PICK s \in DOMAIN m.log[d] : \E k \in DOMAIN m.log[d][s] : e = m.log[d][s][k] BY InLogIs
    <3>2. PICK k \in DOMAIN m.log[d][s] : e = m.log[d][s][k] BY <3>1
    <3>3. s \in DOMAIN new /\ m.log[d][s] \in Seq(Entries) /\ new[s] = Without(m.log[d][s], id)
      BY <1>1, <1>4, <1>5
    <3>4. PICK j \in DOMAIN new[s] : new[s][j] = e BY <2>3, <3>2, <3>3, WithoutIs
    <3>. QED BY <1>8, <2>1, <3>3, <3>4, InLogIs
  <2>. QED BY <2>2, <2>3
<1>13. \A x \in Ids : InLog(r, x) = IF x = d THEN {e \in InLog(m, x) : e.id # id} ELSE InLog(m, x)
  BY <1>11, <1>12
<1>14. /\ r \in Memories
       /\ r.super = m.super /\ r.used = m.used /\ r.tree = m.tree /\ r.dirs = m.dirs
       /\ r.files = m.files /\ r.full = m.full /\ r.calls = m.calls /\ r.at = m.at
       /\ r.err = m.err /\ r.fault = m.fault
  BY <1>8, <1>9
<1>. QED BY <1>10, <1>13, <1>14 DEF r

-----------------------------------------------------------------------------
(* dir_prog.  What it keeps: the names of files, those of directories that  *)
(* do not get a sector, the open directories and files, what the slots of   *)
(* the tree are for.                                                        *)
Kept(m, r) ==
  /\ r.used = m.used /\ r.files = m.files /\ r.at = m.at /\ r.err = m.err /\ r.fault = m.fault
  /\ r.full \subseteq m.full
  /\ \A id : IsIn(m.dirs, id) => IsIn(r.dirs, id)
  /\ \A i \in 1 .. TreeMax : r.tree[i].id = m.tree[i].id
  /\ \A d \in Ids : \A e \in Shown(m)[d] :
       e.kind = "file" \/ e.id \notin m.full => e \in Shown(r)[d]
  /\ \A d \in Ids \ m.full : Lens(r)[d] = Lens(m)[d]

LEMMA KeptSelf ==
  ASSUME NEW m
  PROVE  Kept(m, m)
BY DEF Kept

LEMMA KeptOn ==
  ASSUME NEW m, NEW n, NEW r, Kept(m, n), Kept(n, r)
  PROVE  Kept(m, r)
<1>1. \A d \in Ids : \A e \in Shown(m)[d] :
        e.kind = "file" \/ e.id \notin m.full => e \in Shown(r)[d]
  BY DEF Kept
<1>2. \A d \in Ids \ m.full : Lens(r)[d] = Lens(m)[d] BY DEF Kept
<1>. QED BY <1>1, <1>2 DEF Kept

LEMMA HeadCall ==
  ASSUME NEW m, Good(m), m.calls # <<>>
  PROVE  /\ 1 \in DOMAIN m.calls /\ Head(m.calls) = m.calls[1] /\ Len(m.calls) \in Nat \ {0}
         /\ Head(m.calls).dir \in Ids /\ Head(m.calls).names \in Seq(Entries)
         /\ IsIn(m.dirs, Head(m.calls).dir)
         /\ Tail(m.calls) \in Seq(Calls) /\ Len(Tail(m.calls)) = Len(m.calls) - 1
         /\ \A j \in DOMAIN Tail(m.calls) : j + 1 \in DOMAIN m.calls /\ Tail(m.calls)[j] = m.calls[j + 1]
         /\ \A j \in DOMAIN m.calls : j = 1 \/ (j - 1 \in DOMAIN Tail(m.calls) /\ j \in Nat
                                                /\ Tail(m.calls)[j - 1] = m.calls[j])
<1>1. m \in Memories /\ CallsGood(m.full, m.dirs, m.calls) BY GoodParts
<1>2. m.calls \in Seq(Calls) /\ \A j \in DOMAIN m.calls : m.calls[j] \in Calls /\ m.calls[j].dir \in Ids
                                      /\ m.calls[j].names \in Seq(Entries)
  BY <1>1, MemoryTypes
<1>. DEFINE q == m.calls
            T == Tail(q)
<1>. HIDE DEF q
<1>3. q \in Seq(Calls) /\ q # <<>> BY <1>2 DEF q
<1>4. 1 \in DOMAIN q /\ Head(q) = q[1] /\ Len(q) \in Nat \ {0} /\ DOMAIN q = 1 .. Len(q) BY <1>3
<1>5. /\ T \in Seq(Calls) /\ Len(T) = Len(q) - 1 /\ \A j \in 1 .. Len(T) : T[j] = q[j + 1]
  BY <1>3, HeadTailProperties
<1>6. DOMAIN T = 1 .. Len(q) - 1 BY <1>5
<1>. HIDE DEF T
<1>7. \A j \in DOMAIN T : j + 1 \in DOMAIN q /\ T[j] = q[j + 1] BY <1>4, <1>5, <1>6
<1>8. ASSUME NEW j \in DOMAIN q PROVE j = 1 \/ (j - 1 \in DOMAIN T /\ j \in Nat /\ T[j - 1] = q[j])
  <2>1. j = 1 \/ (j \in Nat /\ j - 1 \in 1 .. Len(q) - 1 /\ (j - 1) + 1 = j) BY <1>4
  <2>. QED BY <2>1, <1>5, <1>6
<1>9. q[1].dir \in Ids /\ q[1].names \in Seq(Entries) /\ IsIn(m.dirs, q[1].dir)
  BY <1>1, <1>2, <1>4 DEF CallsGood, q
<1>. QED BY <1>4, <1>5, <1>7, <1>8, <1>9 DEF q, T

LEMMA DueIs ==
  ASSUME NEW m, Good(m), m.calls # <<>>, NEW d \in Ids
  PROVE  \A e \in Entries :
           e \in Due(m, d) <=>
             \/ Head(m.calls).dir = d /\ \E k \in DOMAIN Head(m.calls).names : e = Head(m.calls).names[k]
             \/ \E j \in DOMAIN Tail(m.calls) :
                  Tail(m.calls)[j].dir = d /\ \E k \in DOMAIN Tail(m.calls)[j].names : e = Tail(m.calls)[j].names[k]
<1>1. /\ 1 \in DOMAIN m.calls /\ Head(m.calls) = m.calls[1]
      /\ \A j \in DOMAIN Tail(m.calls) : j + 1 \in DOMAIN m.calls /\ Tail(m.calls)[j] = m.calls[j + 1]
      /\ \A j \in DOMAIN m.calls : j = 1 \/ (j - 1 \in DOMAIN Tail(m.calls) /\ j \in Nat
                                                /\ Tail(m.calls)[j - 1] = m.calls[j])
  BY HeadCall
<1>. DEFINE T == Tail(m.calls) q == m.calls c == Head(m.calls)
            In(l, e) == \E k \in DOMAIN l.names : e = l.names[k]
<1>2. /\ 1 \in DOMAIN q /\ c = q[1]
      /\ \A j \in DOMAIN T : j + 1 \in DOMAIN q /\ T[j] = q[j + 1]
      /\ \A j \in DOMAIN q : j = 1 \/ (j - 1 \in DOMAIN T /\ j \in Nat /\ T[j - 1] = q[j])
  BY <1>1
<1>3. \A e \in Entries : e \in Due(m, d) <=> \E j \in DOMAIN q : q[j].dir = d /\ In(q[j], e)
  BY DEF Due
<1>. HIDE DEF T, q, c, In
<1>4. \A e \in Entries : (\E j \in DOMAIN q : q[j].dir = d /\ In(q[j], e)) <=>
        \/ c.dir = d /\ In(c, e)
        \/ \E j \in DOMAIN T : T[j].dir = d /\ In(T[j], e)
  BY <1>2
<1>5. \A e \in Entries : e \in Due(m, d) <=>
        \/ c.dir = d /\ In(c, e)
        \/ \E j \in DOMAIN T : T[j].dir = d /\ In(T[j], e)
  BY <1>3, <1>4
<1>. QED BY <1>5 DEF T, q, c, In

LEMMA ConcatIs ==
  ASSUME NEW S, NEW a \in Seq(S), NEW q \in Seq(S)
  PROVE  /\ a \o q \in Seq(S)
         /\ \A k \in DOMAIN a : k \in DOMAIN (a \o q) /\ (a \o q)[k] = a[k]
         /\ \A k \in DOMAIN q : k + Len(a) \in DOMAIN (a \o q) /\ (a \o q)[k + Len(a)] = q[k]
         /\ \A k \in DOMAIN (a \o q) : (k \in DOMAIN a /\ (a \o q)[k] = a[k])
                                       \/ (k - Len(a) \in DOMAIN q /\ (a \o q)[k] = q[k - Len(a)])
<1>. DEFINE b == a \o q
<1>1. /\ b \in Seq(S) /\ Len(b) = Len(a) + Len(q)
      /\ \A k \in 1 .. Len(a) + Len(q) : b[k] = IF k <= Len(a) THEN a[k] ELSE q[k - Len(a)]
  BY ConcatProperties
<1>2. Len(a) \in Nat /\ Len(q) \in Nat /\ DOMAIN a = 1 .. Len(a) /\ DOMAIN q = 1 .. Len(q) OBVIOUS
<1>. HIDE DEF b
<1>3. DOMAIN b = 1 .. Len(a) + Len(q) BY <1>1
<1>4. \A k \in DOMAIN a : k \in DOMAIN b /\ b[k] = a[k] BY <1>1, <1>2, <1>3
<1>5. \A k \in DOMAIN q : k + Len(a) \in DOMAIN b /\ b[k + Len(a)] = q[k]
  <2>. SUFFICES ASSUME NEW k \in DOMAIN q PROVE k + Len(a) \in DOMAIN b /\ b[k + Len(a)] = q[k]
    OBVIOUS
  <2>1. /\ k + Len(a) \in 1 .. Len(a) + Len(q) /\ ~ (k + Len(a) <= Len(a))
        /\ (k + Len(a)) - Len(a) = k
    BY <1>2
  <2>. QED BY <1>1, <1>3, <2>1
<1>6. \A k \in DOMAIN b : (k \in DOMAIN a /\ b[k] = a[k])
                          \/ (k - Len(a) \in DOMAIN q /\ b[k] = q[k - Len(a)])
  BY <1>1, <1>2, <1>3
<1>. QED BY <1>1, <1>4, <1>5, <1>6 DEF b

(* There is room: the names go from the call to the log.                    *)
LEMMA WrittenGood ==
  ASSUME NEW m, Good(m), m.calls # <<>>
  PROVE  LET r == Written(m) IN
         Good(r) /\ Kept(m, r) /\ r.full = m.full /\ r.calls = Tail(m.calls) /\ r.super = m.super
<1>. DEFINE c    == Head(m.calls)
            old  == m.log[c.dir]
            tail == m.dirs[HandleIn(m.dirs, c.dir)].tail
            new  == [s \in DOMAIN old |-> IF s = tail THEN old[s] \o c.names ELSE old[s]]
            r    == Written(m)
<1>1. m \in Memories /\ Fit(Shown(m), Lens(m), m.super, m.used, m.tree, m.dirs, m.files)
      /\ LensGood(Lens(m), m.full) /\ CallsGood(m.full, m.dirs, m.calls)
  BY GoodParts
<1>2. /\ c.dir \in Ids /\ c.names \in Seq(Entries) /\ IsIn(m.dirs, c.dir)
      /\ Tail(m.calls) \in Seq(Calls)
      /\ \A j \in DOMAIN Tail(m.calls) : j + 1 \in DOMAIN m.calls /\ Tail(m.calls)[j] = m.calls[j + 1]
  BY HeadCall
<1>3. tail = Len(m.log[c.dir]) /\ tail >= 1 /\ tail \in Nat BY <1>2, OpenKnown
<1>4. /\ m.log \in Chains /\ old \in Seq(Seq(Entries)) /\ Len(old) \in Nat /\ DOMAIN old = 1 .. Len(old)
      /\ \A s \in DOMAIN old : old[s] \in Seq(Entries)
  BY <1>1, <1>2, MemoryTypes
<1>5. tail \in DOMAIN old BY <1>3, <1>4
<1>6. r = [m EXCEPT !.log = Rewritten(m.log, c.dir, new), !.calls = Tail(m.calls)] BY DEF Written
<1>7. \A s \in DOMAIN old : new[s] = IF s = tail THEN old[s] \o c.names ELSE old[s] OBVIOUS
<1>7a. DOMAIN new = DOMAIN old OBVIOUS
<1>. DEFINE d == c.dir q == c.names
<1>. HIDE DEF new, c, tail, old
<1>8. ASSUME NEW s \in DOMAIN old PROVE new[s] \in Seq(Entries)
  <2>1. old[s] \in Seq(Entries) /\ c.names \in Seq(Entries) BY <1>2, <1>4
  <2>2. old[s] \o c.names \in Seq(Entries) BY <2>1, ConcatIs
  <2>. QED BY <1>7, <2>1, <2>2
<1>9. new \in Seq(Seq(Entries)) /\ Len(new) = Len(old)
  <2>1. new \in [1 .. Len(old) -> Seq(Entries)]
    <3>1. new = [s \in DOMAIN old |-> new[s]] BY DEF new
    <3>. QED BY <1>4, <1>8, <3>1
  <2>. QED BY <1>4, <2>1, FunSeq
<1>10. /\ Rewritten(m.log, d, new) \in Chains
       /\ \A x \in Ids : Rewritten(m.log, d, new)[x] = IF x = d THEN new ELSE m.log[x]
  BY <1>2, <1>4, <1>9, RewrittenIs
<1>11. r \in Memories BY <1>1, <1>2, <1>6, <1>10 DEF Memories
<1>12. /\ r.super = m.super /\ r.used = m.used /\ r.tree = m.tree /\ r.dirs = m.dirs
       /\ r.files = m.files /\ r.full = m.full /\ r.calls = Tail(m.calls) /\ r.at = m.at
       /\ r.err = m.err /\ r.fault = m.fault /\ r.log = Rewritten(m.log, d, new)
  BY <1>1, <1>6 DEF Memories
<1>. HIDE DEF r
<1>13. ASSUME NEW x \in Ids, x # d PROVE InLog(r, x) = InLog(m, x)
  BY <1>10, <1>12, <1>13 DEF InLog
<1>14. ASSUME NEW e \in Entries
       PROVE  e \in InLog(r, d) <=> e \in InLog(m, d) \/ \E k \in DOMAIN q : e = q[k]
  <2>0. d \in Ids /\ r.log[d] = new /\ m.log[d] = old BY <1>2, <1>10, <1>12 DEF old
  <2>. DEFINE a == old[tail] b == a \o q
  <2>1. a \in Seq(Entries) /\ q \in Seq(Entries) /\ new[tail] = b BY <1>2, <1>4, <1>5, <1>7
  <2>. HIDE DEF a, q
  <2>2. /\ \A k \in DOMAIN a : k \in DOMAIN b /\ b[k] = a[k]
        /\ \A k \in DOMAIN q : k + Len(a) \in DOMAIN b /\ b[k + Len(a)] = q[k]
        /\ \A k \in DOMAIN b : (k \in DOMAIN a /\ b[k] = a[k])
                               \/ (k - Len(a) \in DOMAIN q /\ b[k] = q[k - Len(a)])
    BY <2>1, ConcatIs
  <2>. HIDE DEF b
  <2>3. \A k \in DOMAIN a : k \in DOMAIN b /\ b[k] = a[k] BY <2>2
  <2>4. \A k \in DOMAIN q : k + Len(a) \in DOMAIN b /\ b[k + Len(a)] = q[k] BY <2>2
  <2>5. \A k \in DOMAIN b : (k \in DOMAIN a /\ b[k] = a[k])
                            \/ (k - Len(a) \in DOMAIN q /\ b[k] = q[k - Len(a)])
    BY <2>2
  <2>6. ASSUME e \in InLog(r, d) PROVE e \in InLog(m, d) \/ \E k \in DOMAIN q : e = q[k]
    <3>1. PICK s \in DOMAIN new : \E k \in DOMAIN new[s] : e = new[s][k] BY <1>11, <2>0, <2>6, InLogIs
    <3>2. CASE s = tail BY <1>1, <1>5, <2>0, <2>1, <2>5, <3>1, <3>2, InLogIs DEF a
    <3>3. CASE s # tail BY <1>1, <1>7, <1>7a, <2>0, <3>1, <3>3, InLogIs
    <3>. QED BY <3>2, <3>3
  <2>7. ASSUME e \in InLog(m, d) PROVE e \in InLog(r, d)
    <3>1. PICK s \in DOMAIN old : \E k \in DOMAIN old[s] : e = old[s][k] BY <1>1, <2>0, <2>7, InLogIs
    <3>2. PICK k \in DOMAIN old[s] : e = old[s][k] BY <3>1
    <3>3. s \in DOMAIN new /\ k \in DOMAIN new[s] /\ new[s][k] = e
      <4>1. CASE s = tail BY <1>7a, <2>1, <2>3, <3>2, <4>1 DEF a
      <4>2. CASE s # tail BY <1>7, <1>7a, <3>2, <4>2
      <4>. QED BY <4>1, <4>2
    <3>. QED BY <1>11, <2>0, <3>3, InLogIs
  <2>8. ASSUME NEW k \in DOMAIN q, e = q[k] PROVE e \in InLog(r, d)
    <3>1. tail \in DOMAIN new /\ k + Len(a) \in DOMAIN new[tail] /\ new[tail][k + Len(a)] = e
      BY <1>5, <1>7a, <2>1, <2>4, <2>8
    <3>. QED BY <1>11, <2>0, <3>1, InLogIs
  <2>. QED BY <2>6, <2>7, <2>8
<1>15. ASSUME NEW x \in Ids, NEW e \in Entries
       PROVE  /\ e \in Due(m, x) <=> (d = x /\ \E k \in DOMAIN q : e = q[k]) \/ e \in Due(r, x)
  BY <1>12, DueIs DEF Due, c
<1>16. ASSUME NEW x \in Ids
       PROVE  /\ InLog(m, x) \cup Due(m, x) = InLog(r, x) \cup Due(r, x)
              /\ Len(m.log[x]) = Len(r.log[x])
  <2>1. /\ InLog(m, x) \subseteq Entries /\ Due(m, x) \subseteq Entries
        /\ InLog(r, x) \subseteq Entries /\ Due(r, x) \subseteq Entries
    BY ShownIs
  <2>2. \A e \in Entries : e \in InLog(m, x) \cup Due(m, x) <=> e \in InLog(r, x) \cup Due(r, x)
    <3>. HIDE DEF d, q
    <3>. QED BY <1>13, <1>14, <1>15
  <2>3. Len(m.log[x]) = Len(r.log[x]) BY <1>9, <1>10, <1>12 DEF old
  <2>. QED BY <2>1, <2>2, <2>3
<1>17. Shown(r) = Shown(m) /\ Lens(r) = Lens(m) BY <1>16, ShownSame
<1>18. CallsGood(r.full, r.dirs, r.calls) BY <1>1, <1>2, <1>12 DEF CallsGood
<1>19. Good(r) BY <1>1, <1>11, <1>12, <1>17, <1>18, GoodFrom
<1>20. Kept(m, r) BY <1>12, <1>17 DEF Kept
<1>. QED BY <1>12, <1>19, <1>20 DEF r

(* A sector more for the directory of the last call.                        *)
LongerOf(chain, tail) == SubSeq(chain, 1, tail) \o <<<<>>>>

LEMMA LongerIs ==
  ASSUME NEW chain \in Seq(Seq(Entries))
  PROVE  /\ LongerOf(chain, Len(chain)) \in Seq(Seq(Entries))
         /\ Len(LongerOf(chain, Len(chain))) = Len(chain) + 1
         /\ \A s \in DOMAIN chain : s \in DOMAIN LongerOf(chain, Len(chain))
                                     /\ LongerOf(chain, Len(chain))[s] = chain[s]
         /\ \A s \in DOMAIN LongerOf(chain, Len(chain)) :
              s \in DOMAIN chain \/ LongerOf(chain, Len(chain))[s] = <<>>
<1>1. SubSeq(chain, 1, Len(chain)) = chain BY SubSeqFull
<1>2. <<>> \in Seq(Entries) OBVIOUS
<1>. DEFINE one == <<<<>>>> new == chain \o one
<1>3. one \in Seq(Seq(Entries)) /\ Len(one) = 1 /\ DOMAIN one = {1} /\ one[1] = <<>>
  BY <1>2, Single
<1>4. LongerOf(chain, Len(chain)) = new BY <1>1 DEF LongerOf
<1>. HIDE DEF one
<1>5. /\ new \in Seq(Seq(Entries))
      /\ \A s \in DOMAIN chain : s \in DOMAIN new /\ new[s] = chain[s]
      /\ \A s \in DOMAIN new : s \in DOMAIN chain
                               \/ (s - Len(chain) \in DOMAIN one /\ new[s] = one[s - Len(chain)])
  BY <1>3, ConcatIs
<1>6. Len(new) = Len(chain) + 1 BY <1>3, ConcatProperties
<1>. HIDE DEF new
<1>7. \A s \in DOMAIN new : s \in DOMAIN chain \/ new[s] = <<>> BY <1>3, <1>5
<1>. QED BY <1>4, <1>5, <1>6, <1>7

LEMMA LongerLog ==
  ASSUME NEW m \in Memories, NEW r \in Memories, NEW d \in Ids,
         r.log = Rewritten(m.log, d, LongerOf(m.log[d], Len(m.log[d])))
  PROVE  /\ \A x \in Ids : InLog(r, x) = InLog(m, x)
         /\ Lens(r) = [Lens(m) EXCEPT ![d] = Len(m.log[d]) + 1]
<1>. DEFINE chain == m.log[d] new == LongerOf(chain, Len(chain))
<1>1. m.log \in Chains /\ chain \in Seq(Seq(Entries)) BY MemoryTypes
<1>. HIDE DEF chain
<1>2. /\ new \in Seq(Seq(Entries)) /\ Len(new) = Len(chain) + 1
      /\ \A s \in DOMAIN chain : s \in DOMAIN new /\ new[s] = chain[s]
      /\ \A s \in DOMAIN new : s \in DOMAIN chain \/ new[s] = <<>>
  BY <1>1, LongerIs
<1>3. r.log = Rewritten(m.log, d, new) BY DEF chain
<1>. HIDE DEF new
<1>4. \A x \in Ids : r.log[x] = IF x = d THEN new ELSE m.log[x] BY <1>1, <1>2, <1>3, RewrittenIs
<1>5. ASSUME NEW x \in Ids PROVE InLog(r, x) = InLog(m, x)
  <2>1. CASE x # d BY <1>4, <2>1 DEF InLog
  <2>2. CASE x = d
    <3>0. r.log[d] = new /\ m.log[d] = chain BY <1>4 DEF chain
    <3>1. ASSUME NEW e \in InLog(r, d) PROVE e \in InLog(m, d)
      <4>1. PICK s \in DOMAIN new : \E k \in DOMAIN new[s] : e = new[s][k] BY <3>0, InLogIs
      <4>2. new[s] # <<>> BY <4>1
      <4>3. s \in DOMAIN chain /\ new[s] = chain[s] BY <1>2, <4>2
      <4>. QED BY <3>0, <4>1, <4>3, InLogIs
    <3>2. ASSUME NEW e \in InLog(m, d) PROVE e \in InLog(r, d)
      <4>1. PICK s \in DOMAIN chain : \E k \in DOMAIN chain[s] : e = chain[s][k] BY <3>0, InLogIs
      <4>2. PICK l \in DOMAIN chain[s] : e = chain[s][l] BY <4>1
      <4>3. s \in DOMAIN new /\ new[s] = chain[s] BY <1>2
      <4>4. s \in DOMAIN r.log[d] /\ l \in DOMAIN r.log[d][s] /\ e = r.log[d][s][l]
        BY <3>0, <4>2, <4>3
      <4>. QED BY <4>4, InLogIs
    <3>3. InLog(r, d) = InLog(m, d) BY <3>1, <3>2
    <3>. QED BY <2>2, <3>3
  <2>. QED BY <2>1, <2>2
<1>6. \A x \in Ids : Lens(r)[x] = IF x = d THEN Len(chain) + 1 ELSE Lens(m)[x]
  BY <1>2, <1>4, ShownIs
<1>7. Lens(r) = [Lens(m) EXCEPT ![d] = Len(chain) + 1]
  <2>1. Lens(r) = [x \in Ids |-> Lens(r)[x]] /\ Lens(m) = [x \in Ids |-> Lens(m)[x]] BY DEF Lens
  <2>. HIDE DEF chain
  <2>. QED BY <1>6, <2>1
<1>. QED BY <1>5, <1>7 DEF chain

(* dir_update up to the tree.                                               *)
ToldOf(m, d, k, i, tail) ==
  [m EXCEPT !.full = m.full \ {d}, !.dirs = Moved(m.dirs, k, tail),
            !.log = Rewritten(m.log, d, LongerOf(m.log[d], m.dirs[k].tail)),
            !.tree = Moved(m.tree, i, tail)]

ToldFacts(m, d, k, i, tail, t) ==
  /\ t \in Memories /\ k \in DOMAIN m.dirs /\ m.dirs[k].id = d /\ i \in 1 .. TreeMax /\ m.tree[i].id = d
  /\ d \in Ids /\ m.dirs[k].tail = Len(m.log[d]) /\ tail = m.dirs[k].tail + 1 /\ tail <= ChainMax
  /\ tail \in Nat /\ tail >= 1
  /\ t.full = m.full \ {d} /\ SlotMoved(m.tree, t.tree, i, tail) /\ HandleMoved(m.dirs, t.dirs, k, tail)
  /\ t.super = m.super /\ t.used = m.used /\ t.files = m.files /\ t.calls = m.calls /\ t.at = m.at
  /\ t.err = m.err /\ t.fault = m.fault
  /\ \A x \in Ids : InLog(t, x) = InLog(m, x)
  /\ Lens(t) = [Lens(m) EXCEPT ![d] = tail] /\ LensGood(Lens(t), t.full)

LEMMA ToldIs ==
  ASSUME NEW m, Good(m), NEW d, d \in m.full, IsIn(m.dirs, d)
  PROVE  LET k == HandleIn(m.dirs, d)
             i == FirstOf(SlotsOf(m.tree, d))
             tail == m.dirs[k].tail + 1
         IN  ToldFacts(m, d, k, i, tail, ToldOf(m, d, k, i, tail)) /\ SlotsOf(m.tree, d) # {}
<1>. DEFINE k == HandleIn(m.dirs, d)
            i == FirstOf(SlotsOf(m.tree, d))
            tail == m.dirs[k].tail + 1
            t == ToldOf(m, d, k, i, tail)
<1>1. /\ m \in Memories /\ LensGood(Lens(m), m.full) BY GoodParts
<1>2. /\ k \in DOMAIN m.dirs /\ m.dirs[k].id = d /\ d \in Ids
      /\ m.dirs[k].tail = Len(m.log[d]) /\ m.dirs[k].tail >= 1 /\ m.dirs[k].tail \in Nat
      /\ SlotsOf(m.tree, d) # {} /\ i \in 1 .. TreeMax /\ m.tree[i].id = d
  BY OpenKnown
<1>. DEFINE h == m.dirs[k].tail
<1>3. h = Len(m.log[d]) /\ h \in Nat /\ h >= 1 /\ tail = h + 1 BY <1>2
<1>. HIDE DEF k, i, h, tail
<1>4. tail \in Nat /\ tail >= 1 BY <1>3
<1>5. /\ m.log \in Chains /\ m.tree \in Trees /\ m.dirs \in Seq(Handles) /\ m.full \in SUBSET Ids
      /\ m.log[d] \in Seq(Seq(Entries))
  BY <1>1, <1>2, MemoryTypes
<1>6. Len(m.log[d]) < ChainMax BY <1>1, <1>2, ShownIs DEF LensGood
<1>7. tail <= ChainMax BY <1>3, <1>6, Sizes
<1>8. Moved(m.tree, i, tail) \in Trees /\ SlotMoved(m.tree, Moved(m.tree, i, tail), i, tail)
  BY <1>2, <1>4, <1>5, MovedSlots
<1>9. Moved(m.dirs, k, tail) \in Seq(Handles) /\ HandleMoved(m.dirs, Moved(m.dirs, k, tail), k, tail)
  BY <1>2, <1>4, <1>5, MovedHandles
<1>. DEFINE chain == LongerOf(m.log[d], Len(m.log[d]))
<1>10. chain \in Seq(Seq(Entries)) BY <1>5, LongerIs
<1>. HIDE DEF chain
<1>11. Rewritten(m.log, d, chain) \in Chains BY <1>2, <1>5, <1>10, RewrittenIs
<1>12. t = [m EXCEPT !.full = m.full \ {d}, !.dirs = Moved(m.dirs, k, tail),
                     !.log = Rewritten(m.log, d, chain), !.tree = Moved(m.tree, i, tail)]
  BY <1>2 DEF ToldOf, chain
<1>13. m.full \ {d} \in SUBSET Ids BY <1>5
<1>14. t \in Memories BY <1>1, <1>8, <1>9, <1>11, <1>12, <1>13 DEF Memories
<1>15. /\ t.full = m.full \ {d} /\ t.dirs = Moved(m.dirs, k, tail)
       /\ t.log = Rewritten(m.log, d, chain) /\ t.tree = Moved(m.tree, i, tail)
       /\ t.super = m.super /\ t.used = m.used /\ t.files = m.files /\ t.calls = m.calls /\ t.at = m.at
       /\ t.err = m.err /\ t.fault = m.fault
  BY <1>1, <1>12 DEF Memories
<1>. HIDE DEF t
<1>16. /\ \A x \in Ids : InLog(t, x) = InLog(m, x)
       /\ Lens(t) = [Lens(m) EXCEPT ![d] = Len(m.log[d]) + 1]
  BY <1>1, <1>2, <1>14, <1>15, LongerLog DEF chain
<1>17. Lens(t) = [Lens(m) EXCEPT ![d] = tail] BY <1>3, <1>16
<1>18. LensGood(Lens(t), t.full)
  <2>1. \A x \in Ids : Lens(t)[x] = IF x = d THEN tail ELSE Lens(m)[x]
    <3>1. Lens(m) = [x \in Ids |-> Lens(m)[x]] BY DEF Lens
    <3>. QED BY <1>17, <3>1
  <2>2. m.full \in SUBSET Ids BY <1>5
  <2>. QED BY <1>1, <1>7, <1>15, <2>1, <2>2 DEF LensGood
<1>19. ToldFacts(m, d, k, i, tail, t) /\ SlotsOf(m.tree, d) # {}
  <2>1. m.dirs[k].tail = Len(m.log[d]) /\ tail = m.dirs[k].tail + 1 BY <1>2, <1>3 DEF h
  <2>. QED BY <1>2, <1>4, <1>7, <1>8, <1>9, <1>14, <1>15, <1>16, <1>17, <1>18, <2>1 DEF ToldFacts
<1>. QED BY <1>19 DEF t, tail, k, i

LEMMA MovedIn ==
  ASSUME NEW dl, NEW dl2, NEW k, NEW tail, HandleMoved(dl, dl2, k, tail), NEW id
  PROVE  IsIn(dl2, id) <=> IsIn(dl, id)
BY DEF HandleMoved, IsIn

(* Extended, step by step.                                                  *)
LEMMA ExtendedIs ==
  ASSUME NEW m, Good(m), m.calls # <<>>, Head(m.calls).dir \in m.full
  PROVE  LET d == Head(m.calls).dir
             k == HandleIn(m.dirs, d)
             tail == m.dirs[k].tail + 1
             told == ToldOf(m, d, k, FirstOf(SlotsOf(m.tree, d)), tail)
             g    == m.dirs[k].father
             up   == SlotsOf(m.tree, g)
             open == LowOpened(told, told.tree[FirstOf(up)])
             call == [dir |-> g, names |-> <<Name("dir", m.dirs[k].name, d, tail)>>]
         IN  /\ ToldFacts(m, d, k, FirstOf(SlotsOf(m.tree, d)), tail, told)
             /\ d = Root => Extended(m) = [told EXCEPT !.super = tail]
             /\ d # Root /\ up # {} /\ ~ open.err =>
                  Extended(m) = [Erased(open, g, d) EXCEPT
                                   !.calls = <<call>> \o Erased(open, g, d).calls]
<1>. DEFINE d == Head(m.calls).dir
            k == HandleIn(m.dirs, d)
            h == m.dirs[k]
            tail == h.tail + 1
            i == FirstOf(SlotsOf(m.tree, d))
            new  == [m EXCEPT !.full = m.full \ {d}, !.dirs = Moved(m.dirs, k, tail),
                              !.log = Rewritten(m.log, d, LongerOf(m.log[d], h.tail))]
            told == [new EXCEPT !.tree = MovedInTree(new.tree, i, tail)]
            up   == SlotsOf(m.tree, h.father)
            open == LowOpened(told, told.tree[FirstOf(up)])
            call == [dir |-> h.father, names |-> <<Name("dir", h.name, d, tail)>>]
<1>1. ToldFacts(m, d, k, i, tail, ToldOf(m, d, k, i, tail)) /\ SlotsOf(m.tree, d) # {}
  <2>1. IsIn(m.dirs, d) BY HeadCall
  <2>. QED BY <2>1, ToldIs
<1>2. Extended(m) =
        IF SlotsOf(m.tree, d) = {} THEN Failed(new)
        ELSE IF d = Root THEN [told EXCEPT !.super = tail]
        ELSE IF up = {} THEN Failed(told)
        ELSE IF open.err THEN open
        ELSE [Erased(open, h.father, d) EXCEPT !.calls = <<call>> \o Erased(open, h.father, d).calls]
  BY DEF Extended, LongerOf
<1>3. told = ToldOf(m, d, k, i, tail)
  <2>1. m \in Memories BY GoodParts
  <2>2. new.tree = m.tree BY <2>1 DEF Memories
  <2>3. told = [new EXCEPT !.tree = Moved(m.tree, i, tail)] BY <2>2 DEF MovedInTree
  <2>. QED BY <2>3 DEF ToldOf
<1>. HIDE DEF told, new
<1>4. /\ d = Root => Extended(m) = [told EXCEPT !.super = tail]
      /\ d # Root /\ up # {} /\ ~ open.err =>
           Extended(m) = [Erased(open, h.father, d) EXCEPT
                            !.calls = <<call>> \o Erased(open, h.father, d).calls]
  <2>. HIDE DEF d, up, open, call, h, tail, k
  <2>. QED BY <1>1, <1>2
<1>. QED BY <1>1, <1>3, <1>4

LEMMA ExtendedRoot ==
  ASSUME NEW m, Good(m), m.calls # <<>>, Head(m.calls).dir \in m.full, Head(m.calls).dir = Root
  PROVE  LET r == Extended(m) IN
         Good(r) /\ Kept(m, r) /\ r.full = m.full \ {Root} /\ r.calls = m.calls
<1>. DEFINE k == HandleIn(m.dirs, Root)
            tail == m.dirs[k].tail + 1
            i == FirstOf(SlotsOf(m.tree, Root))
            t == ToldOf(m, Root, k, i, tail)
            r == Extended(m)
<1>1. ToldFacts(m, Root, k, i, tail, t) /\ r = [t EXCEPT !.super = tail] BY ExtendedIs, Zenon
<1>2. m \in Memories /\ Fit(Shown(m), Lens(m), m.super, m.used, m.tree, m.dirs, m.files)
      /\ LensGood(Lens(m), m.full) /\ CallsGood(m.full, m.dirs, m.calls)
  BY GoodParts
<1>. HIDE DEF k, i, tail, t, r
<1>3. /\ t \in Memories /\ k \in DOMAIN m.dirs /\ m.dirs[k].id = Root /\ i \in 1 .. TreeMax
      /\ m.tree[i].id = Root /\ m.dirs[k].tail = Len(m.log[Root]) /\ tail = m.dirs[k].tail + 1
      /\ tail \in Nat /\ tail >= 1
      /\ t.full = m.full \ {Root} /\ SlotMoved(m.tree, t.tree, i, tail)
      /\ HandleMoved(m.dirs, t.dirs, k, tail)
      /\ t.used = m.used /\ t.files = m.files /\ t.calls = m.calls /\ t.at = m.at
      /\ t.err = m.err /\ t.fault = m.fault
      /\ \A x \in Ids : InLog(t, x) = InLog(m, x)
      /\ Lens(t) = [Lens(m) EXCEPT ![Root] = tail] /\ LensGood(Lens(t), t.full)
  BY <1>1 DEF ToldFacts
<1>4. /\ TreeGood(Shown(m), Lens(m), m.super, m.tree) /\ Root \in Ids /\ Null \notin Ids
      /\ 1 \in 1 .. TreeMax /\ DOMAIN m.tree = 1 .. TreeMax /\ m.super \in Nat
      /\ Lens(m) \in Lengths /\ Shown(m) \in Views
  BY <1>2, FitParts
<1>5. i = 1 /\ tail = m.super + 1
  <2>1. m.super = Lens(m)[Root] /\ m.tree[1].id = Root BY <1>4 DEF TreeGood
  <2>2. m.super = Len(m.log[Root]) BY <1>4, <2>1, ShownIs
  <2>3. i = 1 BY <1>3, <1>4, <2>1 DEF TreeGood
  <2>. QED BY <1>3, <2>2, <2>3
<1>6. /\ r \in Memories /\ r.super = tail /\ r.log = t.log /\ r.used = m.used /\ r.tree = t.tree
      /\ r.dirs = t.dirs /\ r.files = m.files /\ r.full = m.full \ {Root} /\ r.calls = m.calls
      /\ r.at = m.at /\ r.err = m.err /\ r.fault = m.fault
  BY <1>1, <1>3 DEF Memories
<1>7. /\ \A x \in Ids : InLog(r, x) \cup Due(r, x) = InLog(m, x) \cup Due(m, x)
      /\ Lens(r) = Lens(t)
  <2>1. \A x \in Ids : InLog(r, x) = InLog(t, x) BY <1>6 DEF InLog
  <2>2. \A x \in Ids : Due(r, x) = Due(m, x) BY <1>6 DEF Due
  <2>. QED BY <1>3, <1>6, <2>1, <2>2 DEF Lens
<1>8. Shown(r) = Shown(m) BY <1>7 DEF Shown
<1>9. t.tree \in Trees /\ t.dirs \in Seq(Handles) /\ t.files \in Seq(Opened) BY <1>3, MemoryTypes
<1>10. Lens(r) \in Lengths /\ Lens(r) = [Lens(m) EXCEPT ![Root] = m.super + 1]
  <2>1. Lens(r) = [Lens(m) EXCEPT ![Root] = m.super + 1] BY <1>3, <1>5, <1>7
  <2>. QED BY <1>4, <2>1 DEF Lengths
<1>11. Fit(Shown(r), Lens(r), r.super, r.used, r.tree, r.dirs, r.files)
  <2>1. Sound(Shown(m), Lens(r), m.super + 1, m.used, t.tree, t.dirs, m.files)
    <3>. DEFINE V == Shown(m) len == Lens(m) len2 == Lens(r) sup == m.super ids == m.used
                tr == m.tree dl == m.dirs fl == m.files tr2 == t.tree dl2 == t.dirs
    <3>1. /\ V \in Views /\ len \in Lengths /\ sup \in Nat /\ ids \in SUBSET Ids /\ tr \in Trees
          /\ dl \in Seq(Handles) /\ fl \in Seq(Opened) /\ Sound(V, len, sup, ids, tr, dl, fl)
      BY <1>2 DEF Fit
    <3>2. k \in DOMAIN dl /\ dl[k].id = Root BY <1>3
    <3>3. len2 \in Lengths /\ len2 = [len EXCEPT ![Root] = sup + 1] BY <1>10
    <3>4. /\ tr2 \in Trees /\ SlotMoved(tr, tr2, 1, sup + 1)
          /\ dl2 \in Seq(Handles) /\ HandleMoved(dl, dl2, k, sup + 1)
      BY <1>3, <1>5, <1>9
    <3>. HIDE DEF V, len, len2, sup, ids, tr, dl, fl, tr2, dl2
    <3>5. Sound(V, len2, sup + 1, ids, tr2, dl2, fl) BY <3>1, <3>2, <3>3, <3>4, RootMoved
    <3>. QED BY <3>5 DEF V, len, len2, sup, ids, tr, dl, fl, tr2, dl2
  <2>2. Fit(Shown(m), Lens(r), m.super + 1, m.used, t.tree, t.dirs, m.files)
    BY <1>2, <1>3, <1>4, <1>5, <1>9, <1>10, <2>1 DEF Fit
  <2>. QED BY <1>5, <1>6, <1>8, <2>2
<1>12. \A id : IsIn(m.dirs, id) <=> IsIn(r.dirs, id) BY <1>3, <1>6, MovedIn
<1>13. CallsGood(r.full, r.dirs, r.calls) BY <1>2, <1>6, <1>12 DEF CallsGood
<1>14. LensGood(Lens(r), r.full) BY <1>3, <1>6, <1>7
<1>15. Good(r) BY <1>6, <1>11, <1>13, <1>14, GoodFrom
<1>16. Kept(m, r)
  <2>1. \A j \in 1 .. TreeMax : r.tree[j].id = m.tree[j].id BY <1>3, <1>6 DEF SlotMoved
  <2>2. \A x \in Ids \ m.full : Lens(r)[x] = Lens(m)[x]
    <3>1. Root \in m.full OBVIOUS
    <3>. QED BY <1>4, <1>10, <3>1 DEF Lengths
  <2>. QED BY <1>6, <1>8, <1>12, <2>1, <2>2 DEF Kept
<1>. QED BY <1>6, <1>15, <1>16 DEF r

(* dir_lowopen of the father on the way, while its own name is not yet      *)
(* written: the tails of all other slots are right.                         *)
LEMMA LowOpenedOn ==
  ASSUME NEW m \in Memories, NEW t \in Slots, t.id \in Ids,
         ~ IsIn(m.dirs, t.id) => Readable(m, t.id, t.tail)
  PROVE  LET r == LowOpened(m, t) IN
         /\ r \in Memories /\ OpenedOn(m, r)
         /\ IsIn(m.dirs, t.id) => r.dirs = m.dirs
         /\ ~ IsIn(m.dirs, t.id) =>
              r.dirs = <<DirHandle(t.id, t.father, t.stored, t.tail)>> \o m.dirs
<1>. DEFINE h == DirHandle(t.id, t.father, t.stored, t.tail)
            dl2 == <<h>> \o m.dirs
            r == [m EXCEPT !.dirs = dl2]
<1>1. CASE IsIn(m.dirs, t.id)
  <2>1. LowOpened(m, t) = m BY <1>1 DEF LowOpened
  <2>. QED BY <1>1, <2>1 DEF OpenedOn
<1>2. CASE ~ IsIn(m.dirs, t.id)
  <2>1. LowOpened(m, t) = r BY <1>2 DEF LowOpened
  <2>2. h \in Handles BY DEF Handles, DirHandle, Slots
  <2>3. m.dirs \in Seq(Handles) BY MemoryTypes
  <2>. HIDE DEF h
  <2>4. /\ dl2 \in Seq(Handles)
        /\ \A j \in DOMAIN m.dirs : j + 1 \in DOMAIN dl2 /\ dl2[j + 1] = m.dirs[j]
    BY <2>2, <2>3, ConsIs
  <2>. HIDE DEF dl2
  <2>5. r \in Memories BY <2>4 DEF Memories
  <2>6. /\ r.log = m.log /\ r.super = m.super /\ r.used = m.used /\ r.tree = m.tree
        /\ r.files = m.files /\ r.full = m.full /\ r.calls = m.calls /\ r.at = m.at
        /\ r.err = m.err /\ r.fault = m.fault /\ r.dirs = dl2
    BY DEF Memories
  <2>7. \A id : IsIn(m.dirs, id) => IsIn(dl2, id) BY <2>4 DEF IsIn
  <2>8. OpenedOn(m, r) BY <2>6, <2>7 DEF OpenedOn
  <2>9. r.dirs = <<h>> \o m.dirs BY <2>6 DEF dl2
  <2>. HIDE DEF r
  <2>. QED BY <1>2, <2>1, <2>5, <2>8, <2>9 DEF h
<1>. QED BY <1>1, <1>2

LEMMA ExtendedDir ==
  ASSUME NEW m, Good(m), m.calls # <<>>, Head(m.calls).dir \in m.full, Head(m.calls).dir # Root,
         ~ m.err
  PROVE  LET r == Extended(m) IN
         Good(r) /\ Kept(m, r) /\ r.full = m.full \ {Head(m.calls).dir}
         /\ Len(r.calls) = Len(m.calls) + 1
<1>. DEFINE d == Head(m.calls).dir
            k == HandleIn(m.dirs, d)
            n == m.dirs[k].name
            g == m.dirs[k].father
            tail == m.dirs[k].tail + 1
            i == FirstOf(SlotsOf(m.tree, d))
            t == ToldOf(m, d, k, i, tail)
            up == SlotsOf(m.tree, g)
            a == FirstOf(up)
            o == LowOpened(t, t.tree[a])
            call == [dir |-> g, names |-> <<Name("dir", n, d, tail)>>]
            x == Erased(o, g, d)
            r == Extended(m)
            old == Name("dir", n, d, m.dirs[k].tail)
            new == Name("dir", n, d, tail)
<1>0. d \in m.full /\ d # Root OBVIOUS
<1>1. /\ ToldFacts(m, d, k, i, tail, t)
      /\ up # {} /\ ~ o.err => r = [x EXCEPT !.calls = <<call>> \o x.calls]
  BY <1>0, ExtendedIs, Zenon
<1>2. m \in Memories /\ Fit(Shown(m), Lens(m), m.super, m.used, m.tree, m.dirs, m.files)
      /\ LensGood(Lens(m), m.full) /\ CallsGood(m.full, m.dirs, m.calls)
  BY GoodParts
<1>3. /\ g \in Ids /\ old \in Shown(m)[g] /\ IsIn(m.dirs, d)
  BY <1>0, HeadCall, OpenKnown
<1>4. /\ old.kind = "dir" /\ old.name = n /\ old.id = d /\ old.tail = m.dirs[k].tail
      /\ new.kind = "dir" /\ new.name = n /\ new.id = d /\ new.tail = tail
  BY NameIs
<1>4a. new = Name("dir", n, d, tail) /\ old = Name("dir", n, d, m.dirs[k].tail)
       /\ n = m.dirs[k].name /\ g = m.dirs[k].father
       /\ call = [dir |-> g, names |-> <<new>>]
  OBVIOUS
<1>. HIDE DEF old, new, d, k, n, g, tail, i, t, up, r, call
<1>5. /\ t \in Memories /\ k \in DOMAIN m.dirs /\ m.dirs[k].id = d /\ i \in 1 .. TreeMax
      /\ m.tree[i].id = d /\ d \in Ids /\ m.dirs[k].tail = Len(m.log[d]) /\ tail = m.dirs[k].tail + 1
      /\ tail <= ChainMax /\ tail \in Nat /\ tail >= 1
      /\ t.full = m.full \ {d} /\ SlotMoved(m.tree, t.tree, i, tail)
      /\ HandleMoved(m.dirs, t.dirs, k, tail) /\ t.super = m.super
      /\ t.used = m.used /\ t.files = m.files /\ t.calls = m.calls /\ t.at = m.at
      /\ t.err = m.err /\ t.fault = m.fault
      /\ \A y \in Ids : InLog(t, y) = InLog(m, y)
      /\ Lens(t) = [Lens(m) EXCEPT ![d] = tail] /\ LensGood(Lens(t), t.full)
  BY <1>1 DEF ToldFacts
<1>6. /\ Shown(m) \in Views /\ Lens(m) \in Lengths /\ m.tree \in Trees /\ DOMAIN m.tree = 1 .. TreeMax
      /\ NamesGood(Shown(m), Lens(m), m.used) /\ TreeGood(Shown(m), Lens(m), m.super, m.tree)
      /\ m.dirs[k] \in Handles /\ Null \notin Ids
  BY <1>2, <1>5, FitParts
(* The father has a slot. *)
<1>7. InTree(m.tree, g)
  <2>1. i # 1 /\ m.tree[i].id # Null BY <1>0, <1>5, <1>6 DEF TreeGood
  <2>2. SlotGood(Shown(m), m.tree, m.tree[i]) BY <1>5, <1>6, <2>1 DEF TreeGood
  <2>. DEFINE e == Name("dir", m.tree[i].stored, m.tree[i].id, m.tree[i].tail)
  <2>3. e \in Shown(m)[m.tree[i].father] /\ m.tree[i].father \in Ids /\ e.id = d
    BY <1>5, <2>2, NameIs DEF SlotGood
  <2>. HIDE DEF e
  <2>4. m.tree[i].father = g BY <1>3, <1>4, <1>6, <2>3 DEF NamesGood, Unique
  <2>. QED BY <2>2, <2>4 DEF SlotGood
<1>8. up # {} /\ a \in 1 .. TreeMax /\ m.tree[a].id = g
  BY <1>6, <1>7, SlotsOfIn, SlotIn DEF up
<1>. HIDE DEF a
<1>. DEFINE s == t.tree[a]
<1>9. s \in Slots /\ s.id = g /\ s.father = m.tree[a].father /\ s.stored = m.tree[a].stored
      /\ t.tree \in Trees /\ t.dirs \in Seq(Handles) /\ DOMAIN t.tree = 1 .. TreeMax
  <2>1. t.tree \in Trees /\ t.dirs \in Seq(Handles) BY <1>5, MemoryTypes
  <2>. QED BY <1>5, <1>8, <2>1 DEF SlotMoved, Trees
<1>10. ~ IsIn(t.dirs, s.id) => Readable(t, s.id, s.tail)
  <2>. SUFFICES ASSUME ~ IsIn(t.dirs, g) PROVE Readable(t, g, s.tail) BY <1>9
  <2>1. g # d
    <3>1. IsIn(t.dirs, d) BY <1>3, <1>5, MovedIn
    <3>. QED BY <3>1
  <2>2. a # i BY <1>5, <1>8, <2>1
  <2>3. s.tail = m.tree[a].tail BY <1>5, <1>8, <2>2 DEF SlotMoved
  <2>4. m.tree[a].tail = Len(m.log[g]) /\ m.tree[a].id # Null BY <1>3, <1>6, <1>8, SlotKnown
  <2>5. Len(t.log[g]) = Len(m.log[g])
    <3>1. Lens(t)[g] = Lens(m)[g] BY <1>3, <1>5, <1>6, <2>1 DEF Lengths
    <3>. QED BY <1>3, <3>1, ShownIs
  <2>6. Len(m.log[g]) \in Nat BY <1>2, <1>3, MemoryTypes
  <2>. QED BY <2>3, <2>4, <2>5, <2>6 DEF Readable
<1>11. /\ o \in Memories /\ OpenedOn(t, o)
       /\ IsIn(t.dirs, g) => o.dirs = t.dirs
       /\ ~ IsIn(t.dirs, g) => o.dirs = <<DirHandle(s.id, s.father, s.stored, s.tail)>> \o t.dirs
  <2>1. s.id \in Ids BY <1>3, <1>9
  <2>. QED BY <1>5, <1>9, <1>10, <2>1, LowOpenedOn
<1>. HIDE DEF o, s
<1>12. /\ o.log = t.log /\ o.super = m.super /\ o.used = m.used /\ o.tree = t.tree
       /\ o.files = m.files /\ o.full = m.full \ {d} /\ o.calls = m.calls /\ o.at = m.at
       /\ o.err = m.err /\ o.fault = m.fault
  BY <1>5, <1>11 DEF OpenedOn
<1>13. /\ x \in Memories
       /\ x.super = m.super /\ x.used = m.used /\ x.tree = t.tree /\ x.dirs = o.dirs
       /\ x.files = m.files /\ x.full = m.full \ {d} /\ x.calls = m.calls /\ x.at = m.at
       /\ x.err = m.err /\ x.fault = m.fault /\ Lens(x) = Lens(o)
       /\ \A y \in Ids : InLog(x, y) = IF y = g THEN {e \in InLog(o, y) : e.id # d} ELSE InLog(o, y)
  BY <1>3, <1>11, <1>12, ErasedIs
<1>. HIDE DEF x
<1>14. r = [x EXCEPT !.calls = <<call>> \o x.calls] BY <1>1, <1>8, <1>12
<1>. DEFINE calls2 == <<call>> \o m.calls
<1>15. call \in Calls /\ call.dir = g /\ call.names = <<new>> /\ new \in Entries
       /\ <<new>> \in Seq(Entries) /\ DOMAIN <<new>> = {1} /\ <<new>>[1] = new
  <2>1. old \in Entries BY <1>3, <1>6 DEF Views
  <2>2. n \in Names BY <1>4, <2>1 DEF Entries
  <2>3. new \in Entries BY <1>4a, <1>5, <2>2, Sizes DEF Entries, Name
  <2>4. <<new>> \in Seq(Entries) /\ DOMAIN <<new>> = {1} /\ <<new>>[1] = new BY <2>3, Single
  <2>5. call.dir = g /\ call.names = <<new>> BY <1>4a
  <2>. HIDE DEF call
  <2>6. call \in Calls BY <1>3, <1>4a, <2>4 DEF Calls
  <2>. QED BY <2>3, <2>4, <2>5, <2>6
<1>16. m.calls \in Seq(Calls) BY <1>2, MemoryTypes
<1>17. /\ calls2 \in Seq(Calls) /\ 1 \in DOMAIN calls2 /\ calls2[1] = call
       /\ \A j \in DOMAIN m.calls : j + 1 \in DOMAIN calls2 /\ calls2[j + 1] = m.calls[j]
       /\ \A j \in DOMAIN calls2 : j = 1 \/ (j - 1 \in DOMAIN m.calls /\ j \in Nat /\ calls2[j] = m.calls[j - 1])
  BY <1>15, <1>16, ConsIs
<1>17a. Len(calls2) = Len(m.calls) + 1
  <2>1. <<call>> \in Seq(Calls) /\ Len(<<call>>) = 1 /\ Len(m.calls) \in Nat BY <1>15, <1>16, Single
  <2>2. Len(calls2) = Len(<<call>>) + Len(m.calls) BY <1>16, <2>1, ConcatProperties
  <2>. QED BY <2>1, <2>2
<1>18. r = [x EXCEPT !.calls = calls2] BY <1>13, <1>14
<1>. HIDE DEF calls2
<1>19. /\ r \in Memories /\ r.super = m.super /\ r.used = m.used /\ r.tree = t.tree /\ r.dirs = o.dirs
       /\ r.files = m.files /\ r.full = m.full \ {d} /\ r.calls = calls2 /\ r.at = m.at
       /\ r.err = m.err /\ r.fault = m.fault /\ r.log = x.log
  BY <1>13, <1>17, <1>18 DEF Memories
(* The names shown. *)
<1>20. /\ \A y \in Ids : InLog(r, y) = IF y = g THEN {e \in InLog(m, y) : e.id # d} ELSE InLog(m, y)
       /\ Lens(r) = [Lens(m) EXCEPT ![d] = tail]
  <2>1. \A y \in Ids : InLog(r, y) = InLog(x, y) BY <1>19 DEF InLog
  <2>2. \A y \in Ids : InLog(o, y) = InLog(t, y) BY <1>12 DEF InLog
  <2>3. Lens(r) = Lens(x) BY <1>19 DEF Lens
  <2>4. Lens(o) = Lens(t) BY <1>12 DEF Lens
  <2>5. ASSUME NEW y \in Ids
        PROVE  InLog(r, y) = IF y = g THEN {e \in InLog(m, y) : e.id # d} ELSE InLog(m, y)
    <3>1. InLog(o, y) = InLog(m, y) BY <1>5, <2>2
    <3>2. InLog(r, y) = IF y = g THEN {e \in InLog(o, y) : e.id # d} ELSE InLog(o, y)
      BY <1>13, <2>1
    <3>. QED BY <3>1, <3>2
  <2>. QED BY <1>5, <1>13, <2>3, <2>4, <2>5
<1>21. ASSUME NEW y \in Ids, NEW e \in Entries
       PROVE  e \in Due(r, y) <=> e \in Due(m, y) \/ (y = g /\ e = new)
  <2>. DEFINE In(l) == l.dir = y /\ \E j \in DOMAIN l.names : e = l.names[j]
  <2>1. e \in Due(m, y) <=> \E j \in DOMAIN m.calls : In(m.calls[j]) BY DEF Due
  <2>2. e \in Due(r, y) <=> \E j \in DOMAIN calls2 : In(calls2[j]) BY <1>19 DEF Due
  <2>3. In(call) <=> y = g /\ e = new BY <1>15
  <2>. HIDE DEF In
  <2>4. (\E j \in DOMAIN calls2 : In(calls2[j])) <=> (\E j \in DOMAIN m.calls : In(m.calls[j])) \/ In(call)
    BY <1>17
  <2>. QED BY <2>1, <2>2, <2>3, <2>4
<1>22. \A y \in Ids : \A e \in Due(m, y) : e.id # d
  <2>. SUFFICES ASSUME NEW y \in Ids, NEW e \in Due(m, y) PROVE e.id # d OBVIOUS
  <2>1. PICK j \in DOMAIN m.calls : \E l \in DOMAIN m.calls[j].names : e = m.calls[j].names[l]
    BY DEF Due
  <2>. QED BY <1>0, <1>2, <2>1 DEF CallsGood
<1>23. Renamed(Shown(m), Shown(r), g, old, new)
  <2>. DEFINE V == Shown(m) W == Shown(r)
  <2>0. /\ \A y \in Ids : V[y] = InLog(m, y) \cup Due(m, y) /\ W[y] = InLog(r, y) \cup Due(r, y)
        /\ \A y \in Ids : InLog(m, y) \subseteq Entries /\ Due(m, y) \subseteq Entries
        /\ \A y \in Ids : InLog(r, y) \subseteq Entries /\ Due(r, y) \subseteq Entries
    BY ShownIs
  <2>. HIDE DEF V, W
  <2>1. old \in V[g] BY <1>3 DEF V
  <2>2. new \in W[g] BY <1>3, <1>15, <1>21, <2>0
  <2>3. ASSUME NEW y \in Ids, NEW e \in W[y]
        PROVE  (y = g /\ e = new) \/ (e \in V[y] /\ e.id # old.id)
    <3>1. CASE e \in InLog(r, y) /\ y = g BY <1>4, <1>20, <2>0, <3>1
    <3>2. CASE e \in InLog(r, y) /\ y # g
      <4>1. e \in V[y] BY <1>20, <2>0, <3>2
      <4>2. e.id # d BY <1>3, <1>4, <1>6, <3>2, <4>1 DEF NamesGood, Unique, V
      <4>. QED BY <1>4, <4>1, <4>2
    <3>3. CASE e \in Due(r, y)
      <4>1. e \in Due(m, y) \/ (y = g /\ e = new) BY <1>21, <2>0, <3>3
      <4>. QED BY <1>4, <1>22, <2>0, <4>1
    <3>. QED BY <2>0, <3>1, <3>2, <3>3
  <2>4. ASSUME NEW y \in Ids, NEW e \in V[y], e.id # old.id PROVE e \in W[y]
    <3>1. CASE e \in InLog(m, y)
      <4>1. e \in InLog(r, y) BY <1>4, <1>20, <2>4, <3>1
      <4>. QED BY <2>0, <4>1
    <3>2. CASE e \in Due(m, y)
      <4>1. e \in Due(r, y) BY <1>21, <2>0, <3>2
      <4>. QED BY <2>0, <4>1
    <3>. QED BY <2>0, <3>1, <3>2
  <2>5. old.id = new.id /\ old.kind = new.kind /\ old.name = new.name BY <1>4
  <2>6. Renamed(V, W, g, old, new) BY <2>1, <2>2, <2>3, <2>4, <2>5 DEF Renamed
  <2>. QED BY <2>6 DEF V, W
<1>24. Lens(r) \in Lengths BY <1>5, <1>6, <1>20 DEF Lengths
<1>25. Shown(r) \in Views BY DEF Shown, Views, InLog, Due
<1>26. Sound(Shown(r), Lens(r), m.super, m.used, t.tree, t.dirs, m.files)
  <2>. DEFINE V == Shown(m) V2 == Shown(r) len == Lens(m) len2 == Lens(r) sup == m.super ids == m.used
              tr == m.tree dl == m.dirs fl == m.files tr2 == t.tree dl2 == t.dirs
  <2>1. /\ V \in Views /\ V2 \in Views /\ len \in Lengths /\ sup \in Nat /\ ids \in SUBSET Ids
        /\ tr \in Trees /\ dl \in Seq(Handles) /\ fl \in Seq(Opened)
        /\ Sound(V, len, sup, ids, tr, dl, fl)
    BY <1>2, <1>25 DEF Fit
  <2>2. k \in DOMAIN dl /\ dl[k].id # Root /\ i \in 1 .. TreeMax /\ tr[i].id = dl[k].id
    BY <1>0, <1>5
  <2>3. Renamed(V, V2, dl[k].father, Name("dir", dl[k].name, dl[k].id, dl[k].tail),
                Name("dir", dl[k].name, dl[k].id, dl[k].tail + 1))
    BY <1>4a, <1>5, <1>23
  <2>4. len2 \in Lengths /\ len2 = [len EXCEPT ![dl[k].id] = dl[k].tail + 1]
    BY <1>5, <1>20, <1>24
  <2>5. /\ tr2 \in Trees /\ SlotMoved(tr, tr2, i, dl[k].tail + 1)
        /\ dl2 \in Seq(Handles) /\ HandleMoved(dl, dl2, k, dl[k].tail + 1)
    BY <1>5, <1>9
  <2>. HIDE DEF V, V2, len, len2, sup, ids, tr, dl, fl, tr2, dl2
  <2>6. Sound(V2, len2, sup, ids, tr2, dl2, fl) BY <2>1, <2>2, <2>3, <2>4, <2>5, DirMoved
  <2>. QED BY <2>6 DEF V, V2, len, len2, sup, ids, tr, dl, fl, tr2, dl2
<1>27. Fit(Shown(r), Lens(r), m.super, m.used, t.tree, t.dirs, m.files)
  <2>1. m.super \in Nat /\ m.used \in SUBSET Ids /\ m.files \in Seq(Opened) BY <1>2, MemoryTypes
  <2>. QED BY <1>9, <1>24, <1>25, <1>26, <2>1 DEF Fit
<1>28. /\ Fit(Shown(r), Lens(r), m.super, m.used, t.tree, o.dirs, m.files)
       /\ \A id : IsIn(t.dirs, id) => IsIn(o.dirs, id)
       /\ IsIn(o.dirs, g)
  <2>1. CASE IsIn(t.dirs, g) BY <1>11, <1>27, <2>1
  <2>2. CASE ~ IsIn(t.dirs, g)
    <3>1. o.dirs = <<DirHandle(t.tree[a].id, t.tree[a].father, t.tree[a].stored, t.tree[a].tail)>> \o t.dirs
      BY <1>11, <2>2 DEF s
    <3>2. t.tree[a].id = g /\ g # Null BY <1>3, <1>6, <1>9 DEF s
    <3>3. SlotOpened(Shown(r), Lens(r), m.super, m.used, t.tree, t.dirs, m.files, a, o.dirs)
      BY <1>8, <1>9, <1>27, <2>2, <3>1, <3>2 DEF SlotOpened
    <3>4. /\ Fit(Shown(r), Lens(r), m.super, m.used, t.tree, o.dirs, m.files)
          /\ \A id : IsIn(t.dirs, id) => IsIn(o.dirs, id)
      BY <3>3, SlotOpenedFit
    <3>5. IsIn(o.dirs, g)
      <4>. DEFINE hd == DirHandle(t.tree[a].id, t.tree[a].father, t.tree[a].stored, t.tree[a].tail)
      <4>1. hd.id = g BY <3>2 DEF DirHandle
      <4>2. hd \in Handles BY <1>3, <1>9, <3>2 DEF s, DirHandle, Handles, Slots
      <4>. HIDE DEF hd
      <4>3. 1 \in DOMAIN (<<hd>> \o t.dirs) /\ (<<hd>> \o t.dirs)[1] = hd BY <1>9, <4>2, ConsIs
      <4>4. o.dirs = <<hd>> \o t.dirs BY <3>1 DEF hd
      <4>. QED BY <4>1, <4>3, <4>4 DEF IsIn
    <3>. QED BY <3>4, <3>5
  <2>. QED BY <2>1, <2>2
<1>29. \A id : IsIn(m.dirs, id) => IsIn(r.dirs, id) BY <1>5, <1>19, <1>28, MovedIn
<1>30. CallsGood(r.full, r.dirs, r.calls)
  <2>. SUFFICES ASSUME NEW j \in DOMAIN calls2
                PROVE  /\ IsIn(r.dirs, calls2[j].dir)
                       /\ \A l \in DOMAIN calls2[j].names : calls2[j].names[l].id \notin m.full \ {d}
    BY <1>19 DEF CallsGood
  <2>1. CASE j = 1
    <3>1. calls2[j].dir = g /\ calls2[j].names = <<new>> BY <1>15, <1>17, <2>1
    <3>. QED BY <1>4, <1>15, <1>19, <1>28, <3>1
  <2>2. CASE j # 1
    <3>1. j - 1 \in DOMAIN m.calls /\ calls2[j] = m.calls[j - 1] BY <1>17, <2>2
    <3>. QED BY <1>2, <1>29, <3>1 DEF CallsGood
  <2>. QED BY <2>1, <2>2
<1>31. LensGood(Lens(r), r.full) BY <1>5, <1>19, <1>20
<1>32. Good(r) BY <1>19, <1>28, <1>30, <1>31, GoodFrom
<1>33. Kept(m, r)
  <2>1. \A j \in 1 .. TreeMax : r.tree[j].id = m.tree[j].id BY <1>5, <1>19 DEF SlotMoved
  <2>2. \A y \in Ids \ m.full : Lens(r)[y] = Lens(m)[y] BY <1>0, <1>6, <1>20 DEF Lengths
  <2>3. ASSUME NEW y \in Ids, NEW e \in Shown(m)[y], e.kind = "file" \/ e.id \notin m.full
        PROVE  e \in Shown(r)[y]
    <3>1. e.id # d
      <4>1. CASE e.kind = "file" BY <1>3, <1>4, <1>6, <4>1 DEF NamesGood, Unique
      <4>2. CASE e.id \notin m.full BY <1>0, <4>2
      <4>. QED BY <2>3, <4>1, <4>2
    <3>. QED BY <1>4, <1>23, <3>1 DEF Renamed
  <2>. QED BY <1>19, <1>29, <2>1, <2>2, <2>3 DEF Kept
<1>34. r.full = m.full \ {d} /\ Len(r.calls) = Len(m.calls) + 1 BY <1>17a, <1>19
<1>. QED BY <1>32, <1>33, <1>34 DEF r, d

(* One step of dir_prog leaves less to do.                                  *)
Left(m) == 2 * Cardinality(m.full) + Len(m.calls)

LEMMA AdvancedGood ==
  ASSUME NEW m, Good(m), ~ m.err
  PROVE  LET r == Advanced(m) IN
         /\ Good(r) /\ Kept(m, r) /\ Left(m) \in Nat /\ Left(r) \in Nat
         /\ m.calls = <<>> => r.calls = <<>>
         /\ m.calls # <<>> => Left(r) < Left(m)
<1>. DEFINE r == Advanced(m) d == Head(m.calls).dir
<1>1. \A n : Good(n) => Cardinality(n.full) \in Nat /\ IsFiniteSet(n.full) /\ Len(n.calls) \in Nat
  <2>. SUFFICES ASSUME NEW n, Good(n)
                PROVE  Cardinality(n.full) \in Nat /\ IsFiniteSet(n.full) /\ Len(n.calls) \in Nat
    OBVIOUS
  <2>1. n.full \in SUBSET Ids /\ n.calls \in Seq(Calls) BY GoodParts, MemoryTypes
  <2>2. IsFiniteSet(n.full) BY <2>1, IdsAssumption, FS_Subset
  <2>. QED BY <2>1, <2>2, FS_CardinalityType
<1>2. \A n : Good(n) => Left(n) \in Nat BY <1>1 DEF Left
<1>3. CASE m.calls = <<>>
  <2>1. r = m BY <1>3 DEF Advanced
  <2>. QED BY <1>2, <1>3, <2>1, KeptSelf
<1>4. CASE m.calls # <<>> /\ d \notin m.full
  <2>1. r = Written(m) BY <1>4 DEF Advanced
  <2>2. Good(r) /\ Kept(m, r) /\ r.full = m.full /\ r.calls = Tail(m.calls)
    BY <1>4, <2>1, WrittenGood
  <2>3. Len(r.calls) = Len(m.calls) - 1 BY <1>4, <2>2, HeadCall
  <2>4. Left(r) < Left(m)
    <3>. DEFINE c == Cardinality(m.full) l == Len(m.calls)
    <3>1. c \in Nat /\ l \in Nat BY <1>1
    <3>2. Left(m) = 2 * c + l /\ Left(r) = 2 * c + (l - 1) BY <2>2, <2>3 DEF Left
    <3>. HIDE DEF c, l
    <3>. QED BY <3>1, <3>2
  <2>. QED BY <1>2, <1>4, <2>2, <2>4
<1>5. CASE m.calls # <<>> /\ d \in m.full
  <2>1. r = Extended(m) BY <1>5 DEF Advanced
  <2>2. Good(r) /\ Kept(m, r) /\ r.full = m.full \ {d} /\ Len(r.calls) <= Len(m.calls) + 1
    <3>1. CASE d = Root
      <4>1. Good(r) /\ Kept(m, r) /\ r.full = m.full \ {Root} /\ r.calls = m.calls
        BY <1>5, <2>1, <3>1, ExtendedRoot
      <4>2. Len(m.calls) \in Nat BY <1>1
      <4>3. Len(m.calls) <= Len(m.calls) + 1 BY <4>2
      <4>. QED BY <3>1, <4>1, <4>3
    <3>2. CASE d # Root
      <4>1. Good(r) /\ Kept(m, r) /\ r.full = m.full \ {d} /\ Len(r.calls) = Len(m.calls) + 1
        BY <1>5, <2>1, <3>2, ExtendedDir
      <4>2. Len(m.calls) \in Nat BY <1>1
      <4>3. Len(r.calls) <= Len(m.calls) + 1
        <5>. DEFINE l == Len(m.calls) p == Len(r.calls)
        <5>1. l \in Nat /\ p = l + 1 BY <4>1, <4>2
        <5>. HIDE DEF l, p
        <5>2. p <= l + 1 BY <5>1
        <5>. QED BY <5>2 DEF l, p
      <4>. QED BY <4>1, <4>3
    <3>. QED BY <3>1, <3>2
  <2>3. Cardinality(r.full) = Cardinality(m.full) - 1
    <3>1. IsFiniteSet(m.full) BY <1>1
    <3>. DEFINE f == m.full
    <3>2. d \in f /\ r.full = f \ {d} /\ IsFiniteSet(f) BY <1>5, <2>2, <3>1
    <3>. HIDE DEF d, f, r
    <3>3. Cardinality(f \ {d}) = Cardinality(f) - 1 BY <3>2, FS_RemoveElement
    <3>. QED BY <3>2, <3>3 DEF f
  <2>4. Left(r) < Left(m)
    <3>. DEFINE c == Cardinality(m.full) l == Len(m.calls) p == Len(r.calls)
    <3>1. c \in Nat /\ l \in Nat /\ p \in Nat /\ p <= l + 1 BY <1>1, <2>2
    <3>2. Left(m) = 2 * c + l /\ Left(r) = 2 * (c - 1) + p BY <2>3 DEF Left
    <3>. HIDE DEF c, l, p
    <3>. QED BY <3>1, <3>2
  <2>. QED BY <1>2, <1>5, <2>2, <2>4
<1>. QED BY <1>3, <1>4, <1>5

Called(m, d, names) == [m EXCEPT !.calls = <<[dir |-> d, names |-> names]>>]

LEMMA ProgrammedGood ==
  ASSUME NEW m \in Memories, NEW d, NEW names, ~ m.err, Good(Called(m, d, names))
  PROVE  LET r == Programmed(m, d, names) IN
         Good(r) /\ Kept(Called(m, d, names), r) /\ r.calls = <<>> /\ ~ r.err
<1>. DEFINE c == Called(m, d, names)
            top == 2 * Cardinality(m.full) + 1
<1>1. Good(c) /\ ~ c.err /\ c.full = m.full /\ Len(c.calls) = 1
  BY DEF Called, Memories
<1>2. Cardinality(m.full) \in Nat
  <2>1. IsFiniteSet(m.full) BY MemoryTypes, IdsAssumption, FS_Subset
  <2>. QED BY <2>1, FS_CardinalityType
<1>3. top \in Nat /\ Left(c) = top BY <1>1, <1>2 DEF Left
<1>3a. Programmed(m, d, names) = [AdvancedBy(c, top) EXCEPT !.calls = <<>>]
  BY DEF Programmed, Called
<1>. HIDE DEF c, top
<1>4. PICK new : /\ new[0] = c /\ AdvancedBy(c, top) = new[top]
                 /\ \A i \in 1 .. top : new[i] = Advanced(new[i - 1])
  BY <1>3, AdvancedFold
<1>. DEFINE Part(n) == /\ Good(new[n]) /\ Kept(c, new[n]) /\ ~ new[n].err /\ Left(new[n]) \in Nat
                       /\ new[n].calls = <<>> \/ Left(new[n]) + n <= top
            T == {n \in Nat : n <= top => Part(n)}
<1>5. 0 \in T
  <2>1. new[0] = c /\ Left(new[0]) + 0 <= top /\ Left(new[0]) \in Nat BY <1>3, <1>4
  <2>2. Part(0) BY <1>1, <2>1, KeptSelf
  <2>. HIDE DEF Part
  <2>. QED BY <2>2
<1>6. ASSUME NEW n \in Nat, n \in T PROVE n + 1 \in T
  <2>. HIDE DEF Part
  <2>. SUFFICES ASSUME n + 1 <= top PROVE Part(n + 1) OBVIOUS
  <2>. USE DEF Part
  <2>1. n + 1 \in 1 .. top /\ n <= top /\ (n + 1) - 1 = n BY <1>3
  <2>2. Part(n) BY <1>6, <2>1
  <2>. DEFINE a == new[n] b == new[n + 1]
  <2>3. b = Advanced(a) BY <1>4, <2>1
  <2>4. Good(a) /\ Kept(c, a) /\ ~ a.err /\ Left(a) \in Nat /\ (a.calls = <<>> \/ Left(a) + n <= top)
    BY <2>2
  <2>. HIDE DEF a, b
  <2>5. /\ Good(b) /\ Kept(a, b) /\ Left(b) \in Nat
        /\ a.calls = <<>> => b.calls = <<>>
        /\ a.calls # <<>> => Left(b) < Left(a)
    BY <2>3, <2>4, AdvancedGood
  <2>6. Kept(c, b) BY <2>4, <2>5, KeptOn
  <2>7. ~ b.err BY <2>4, <2>5 DEF Kept
  <2>8. b.calls = <<>> \/ Left(b) + (n + 1) <= top BY <1>3, <2>4, <2>5
  <2>. QED BY <2>5, <2>6, <2>7, <2>8 DEF b
<1>7. Part(top)
  <2>. HIDE DEF T
  <2>1. Nat \subseteq T BY <1>5, <1>6, Induct
  <2>2. \A n \in T : n <= top => Part(n) BY DEF T
  <2>. HIDE DEF Part
  <2>. QED BY <1>3, <2>1, <2>2
<1>. DEFINE e == new[top]
<1>8. Good(e) /\ Kept(c, e) /\ ~ e.err /\ (e.calls = <<>> \/ Left(e) + top <= top) /\ Left(e) \in Nat
  BY <1>7
<1>. HIDE DEF e
<1>9. e \in Memories /\ Cardinality(e.full) \in Nat /\ e.calls \in Seq(Calls)
  <2>1. e \in Memories BY <1>8, GoodParts
  <2>2. IsFiniteSet(e.full) BY <2>1, MemoryTypes, IdsAssumption, FS_Subset
  <2>. QED BY <2>1, <2>2, FS_CardinalityType, MemoryTypes
<1>10. e.calls = <<>>
  <2>. SUFFICES ASSUME Left(e) + top <= top PROVE e.calls = <<>> BY <1>8
  <2>1. Left(e) = 0 BY <1>3, <1>8
  <2>. DEFINE l == Len(e.calls) f == Cardinality(e.full)
  <2>2. l \in Nat /\ f \in Nat /\ 2 * f + l = 0 BY <1>9, <2>1 DEF Left
  <2>. HIDE DEF f, l
  <2>3. l = 0 BY <2>2
  <2>. QED BY <1>9, <2>3 DEF l
<1>11. [e EXCEPT !.calls = <<>>] = e BY <1>9, <1>10 DEF Memories
<1>12. Programmed(m, d, names) = e BY <1>3a, <1>4, <1>11 DEF e
<1>. QED BY <1>8, <1>10, <1>12 DEF c

(* dir_prog of nothing: what a directory's old space amounts to here.       *)
LEMMA ProgrammedNothing ==
  ASSUME NEW m, Good(m), m.calls = <<>>, ~ m.err, NEW d, IsIn(m.dirs, d)
  PROVE  LET r == Programmed(m, d, <<>>) IN
         Good(r) /\ Kept(m, r) /\ r.calls = <<>> /\ ~ r.err
<1>. DEFINE call == [dir |-> d, names |-> <<>>] calls == <<call>> c == Called(m, d, <<>>)
<1>1. /\ m \in Memories /\ Fit(Shown(m), Lens(m), m.super, m.used, m.tree, m.dirs, m.files)
      /\ LensGood(Lens(m), m.full) /\ CallsGood(m.full, m.dirs, m.calls)
  BY GoodParts
<1>2. d \in Ids BY OpenKnown
<1>3. call \in Calls /\ call.dir = d /\ call.names = <<>> BY <1>2 DEF Calls
<1>3a. c = [m EXCEPT !.calls = calls] BY DEF Called
<1>. HIDE DEF call
<1>4. calls \in Seq(Calls) /\ DOMAIN calls = {1} /\ calls[1] = call BY <1>3, Single
<1>. HIDE DEF calls
<1>5. /\ c \in Memories /\ c.log = m.log /\ c.super = m.super /\ c.used = m.used /\ c.tree = m.tree
      /\ c.dirs = m.dirs /\ c.files = m.files /\ c.full = m.full /\ c.calls = calls
      /\ c.at = m.at /\ c.err = m.err /\ c.fault = m.fault
  BY <1>1, <1>3a, <1>4 DEF Memories
<1>. HIDE DEF c
<1>6. ASSUME NEW x \in Ids
      PROVE  /\ InLog(m, x) \cup Due(m, x) = InLog(c, x) \cup Due(c, x)
             /\ Len(m.log[x]) = Len(c.log[x])
  <2>1. InLog(c, x) = InLog(m, x) BY <1>5 DEF InLog
  <2>2. Due(m, x) = {} BY NothingDue
  <2>3. Due(c, x) = {} BY <1>3, <1>4, <1>5 DEF Due
  <2>. QED BY <1>5, <2>1, <2>2, <2>3
<1>7. Shown(c) = Shown(m) /\ Lens(c) = Lens(m) BY <1>6, ShownSame
<1>8. CallsGood(c.full, c.dirs, c.calls) BY <1>3, <1>4, <1>5 DEF CallsGood
<1>9. Good(c) BY <1>1, <1>5, <1>7, <1>8, GoodFrom
<1>10. Kept(m, c) BY <1>5, <1>7 DEF Kept
<1>11. Good(Called(m, d, <<>>)) BY <1>9 DEF c
<1>12. LET r == Programmed(m, d, <<>>) IN
       Good(r) /\ Kept(Called(m, d, <<>>), r) /\ r.calls = <<>> /\ ~ r.err
  BY <1>1, <1>11, ProgrammedGood
<1>. QED BY <1>10, <1>12, KeptOn DEF c

-----------------------------------------------------------------------------
(* Paths.                                                                   *)
LEMMA ErrGood ==
  ASSUME NEW m, Good(m)
  PROVE  /\ Good(Failed(m)) /\ Failed(m).calls = m.calls /\ Failed(m).err /\ Failed(m).fault = m.fault
         /\ Good(Stopped(m)) /\ Stopped(m).calls = m.calls /\ Stopped(m).err /\ Stopped(m).fault
<1>1. m \in Memories /\ Sound(Shown(m), Lens(m), m.super, m.used, m.tree, m.dirs, m.files)
      /\ LensGood(Lens(m), m.full) /\ CallsGood(m.full, m.dirs, m.calls)
  BY DEF Good
<1>. DEFINE f == Failed(m) s == Stopped(m)
<1>2. /\ f \in Memories /\ f.log = m.log /\ f.super = m.super /\ f.used = m.used /\ f.tree = m.tree
      /\ f.dirs = m.dirs /\ f.files = m.files /\ f.full = m.full /\ f.calls = m.calls /\ f.err
      /\ f.fault = m.fault
  BY <1>1 DEF Memories, Failed
<1>3. /\ s \in Memories /\ s.log = m.log /\ s.super = m.super /\ s.used = m.used /\ s.tree = m.tree
      /\ s.dirs = m.dirs /\ s.files = m.files /\ s.full = m.full /\ s.calls = m.calls /\ s.err
      /\ s.fault
  BY <1>1 DEF Memories, Stopped
<1>. HIDE DEF f, s
<1>4. Shown(f) = Shown(m) /\ Lens(f) = Lens(m) BY <1>2, SameLog
<1>5. Shown(s) = Shown(m) /\ Lens(s) = Lens(m) BY <1>3, SameLog
<1>6. Good(f) BY <1>1, <1>2, <1>4 DEF Good
<1>7. Good(s) BY <1>1, <1>3, <1>5 DEF Good
<1>. QED BY <1>2, <1>3, <1>6, <1>7 DEF f, s

LEMMA MatchesIs ==
  ASSUME Begins = {}, NEW n, NEW s
  PROVE  Matches(n, s) <=> n = s
BY DEF Matches

LEMMA FoundIs ==
  ASSUME Begins = {}, NEW m, Good(m), m.calls = <<>>, NEW d \in Ids, NEW tail, tail = Len(m.log[d]),
         NEW kind, NEW name
  PROVE  LET found == Found(m, d, tail, kind, name)
             e == At(m, d, FirstIn(found))
         IN  /\ found # {} => e \in Shown(m)[d] /\ e.kind = kind /\ e.name = name
             /\ found = {} => \A f \in Shown(m)[d] : ~ (f.kind = kind /\ f.name = name)
<1>. DEFINE found == Found(m, d, tail, kind, name)
            p == FirstIn(found)
<1>1. m \in Memories BY GoodParts
<1>2. /\ m.log[d] \in Seq(Seq(Entries)) /\ Len(m.log[d]) \in Nat /\ DOMAIN m.log[d] = 1 .. tail
      /\ \A s \in DOMAIN m.log[d] : m.log[d][s] \in Seq(Entries)
  BY <1>1, MemoryTypes
<1>3. \A q \in found : /\ q[1] \in DOMAIN m.log[d] /\ q[2] \in DOMAIN m.log[d][q[1]] /\ q = <<q[1], q[2]>>
                       /\ At(m, d, q).kind = kind /\ At(m, d, q).name = name
  BY <1>2, MatchesIs DEF Found, Traversal
<1>4. found \subseteq Nat \X Nat /\ \A q \in found : q[1] <= tail
  <2>. SUFFICES ASSUME NEW q \in found PROVE q \in Nat \X Nat /\ q[1] <= tail OBVIOUS
  <2>1. q[1] \in 1 .. tail /\ q[2] \in DOMAIN m.log[d][q[1]] /\ m.log[d][q[1]] \in Seq(Entries)
        /\ q = <<q[1], q[2]>>
    BY <1>2, <1>3
  <2>2. q[2] \in 1 .. Len(m.log[d][q[1]]) BY <2>1
  <2>3. q[1] \in Nat /\ q[2] \in Nat /\ q[1] <= tail BY <1>2, <2>1, <2>2
  <2>. QED BY <2>1, <2>3
<1>5. ASSUME found # {}
      PROVE  At(m, d, p) \in Shown(m)[d] /\ At(m, d, p).kind = kind /\ At(m, d, p).name = name
  <2>0. found \in SUBSET (Nat \X Nat) /\ tail \in Nat BY <1>2, <1>4
  <2>. HIDE DEF found
  <2>1. p \in found BY <1>4, <1>5, <2>0, FirstInIs
  <2>2. At(m, d, p) \in InLog(m, d) BY <1>1, <1>3, <2>1, InLogIs DEF At
  <2>. QED BY <1>3, <2>1, <2>2, NothingDue
<1>6. ASSUME found = {}, NEW f \in Shown(m)[d], f.kind = kind, f.name = name PROVE FALSE
  <2>1. f \in InLog(m, d) BY <1>6, NothingDue
  <2>2. PICK s \in DOMAIN m.log[d] : \E k \in DOMAIN m.log[d][s] : f = m.log[d][s][k]
    BY <1>1, <2>1, InLogIs
  <2>3. PICK k \in DOMAIN m.log[d][s] : f = m.log[d][s][k] BY <2>2
  <2>4. <<s, k>> \in Traversal(m, d, tail) BY <1>2, <2>3 DEF Traversal
  <2>5. At(m, d, <<s, k>>) = f BY <2>3 DEF At
  <2>6. <<s, k>> \in found BY <1>6, <2>4, <2>5, MatchesIs DEF Found
  <2>. QED BY <1>6, <2>6
<1>. QED BY <1>5, <1>6

(* A directory is looked for in flash, whose name has no slot.              *)
Seeking(m, x, name) ==
  /\ Good(x.m) /\ x.m.calls = <<>> /\ x.m.err = m.err /\ x.m.fault = m.fault
  /\ x.dir \in Ids /\ InTree(x.m.tree, x.dir) /\ x.tail = Len(x.m.log[x.dir])
  /\ NamedSlots(x.m.tree, x.dir, name) = {}

LEMMA SoughtGood ==
  ASSUME Begins = {}, NEW m, NEW x, NEW name \in Names, Seeking(m, x, name)
  PROVE  Seeking(m, Sought(x, name), name)
<1>. DEFINE n == x.m d == x.dir
            free == SlotsOf(n.tree, Null)
            found == Found(n, d, x.tail, "dir", name)
            e == At(n, d, FirstIn(found))
            slot == Slot(e.id, d, name, e.name, e.tail)
            i == FirstOf(free)
            tr2 == [n.tree EXCEPT ![i] = slot]
            r == [n EXCEPT !.tree = tr2]
            y == Sought(x, name)
<1>1. /\ Good(n) /\ n.calls = <<>> /\ n.err = m.err /\ n.fault = m.fault
      /\ d \in Ids /\ InTree(n.tree, d) /\ x.tail = Len(n.log[d]) /\ NamedSlots(n.tree, d, name) = {}
  BY DEF Seeking
<1>2. CASE free = {} \/ ~ Readable(n, d, x.tail) \/ found = {}
  <2>1. y = x BY <1>2 DEF Sought
  <2>. QED BY <2>1
<1>3. CASE free # {} /\ Readable(n, d, x.tail) /\ found # {}
  <2>1. y = [m |-> r, dir |-> e.id, tail |-> e.tail] BY <1>3 DEF Sought
  <2>2. e \in Shown(n)[d] /\ e.kind = "dir" /\ e.name = name BY <1>1, <1>3, FoundIs
  <2>. HIDE DEF e, found
  <2>3. n \in Memories /\ Fit(Shown(n), Lens(n), n.super, n.used, n.tree, n.dirs, n.files)
        /\ LensGood(Lens(n), n.full) /\ CallsGood(n.full, n.dirs, n.calls)
    BY <1>1, GoodParts
  <2>4. /\ NamesGood(Shown(n), Lens(n), n.used) /\ TreeGood(Shown(n), Lens(n), n.super, n.tree)
        /\ Shown(n) \in Views /\ n.tree \in Trees /\ DOMAIN n.tree = 1 .. TreeMax /\ Null \notin Ids
    BY <2>3, FitParts
  <2>5. e \in Entries /\ e.id \in Ids /\ e.tail \in Nat BY <1>1, <2>2, <2>4, Sizes DEF Views, Entries
  <2>6. i \in DOMAIN n.tree /\ n.tree[i].id = Null BY <1>3, <2>4, SlotIn
  <2>. HIDE DEF free, i
  <2>7. ~ InTree(n.tree, e.id)
    <3>. SUFFICES ASSUME NEW j \in DOMAIN n.tree, n.tree[j].id = e.id PROVE FALSE BY DEF InTree
    <3>1. j # 1 /\ n.tree[j].id # Null BY <1>1, <2>2, <2>4, <2>5 DEF TreeGood, NamesGood, Exact
    <3>2. SlotGood(Shown(n), n.tree, n.tree[j]) BY <2>4, <3>1 DEF TreeGood
    <3>. DEFINE f == Name("dir", n.tree[j].stored, n.tree[j].id, n.tree[j].tail)
    <3>3. /\ f \in Shown(n)[n.tree[j].father] /\ n.tree[j].father \in Ids /\ f.id = e.id
          /\ f.name = n.tree[j].stored /\ n.tree[j].name = n.tree[j].stored
      BY <3>2, NameIs DEF SlotGood
    <3>. HIDE DEF f
    <3>4. n.tree[j].father = d /\ f = e BY <1>1, <2>2, <2>4, <3>3 DEF NamesGood, Unique
    <3>5. n.tree[j].name = name BY <2>2, <3>3, <3>4
    <3>6. j \in NamedSlots(n.tree, d, name) BY <3>1, <3>4, <3>5, MatchesIs DEF NamedSlots
    <3>. QED BY <1>1, <3>6
  <2>8. /\ slot.id = e.id /\ slot.father = d /\ slot.name = name /\ slot.stored = name
        /\ slot.tail = e.tail /\ slot \in Slots
    BY <1>1, <2>2, <2>5 DEF Slot, Slots
  <2>9. SlotGood(Shown(n), n.tree, slot)
    <3>1. Name("dir", slot.stored, slot.id, slot.tail) = e
      <4>1. e = [kind |-> e.kind, name |-> e.name, id |-> e.id, tail |-> e.tail] BY <2>5 DEF Entries
      <4>. QED BY <2>2, <2>8, <4>1 DEF Name
    <3>. QED BY <1>1, <2>2, <2>8, <3>1 DEF SlotGood
  <2>. HIDE DEF slot
  <2>10. SlotAdded(Shown(n), Lens(n), n.super, n.used, n.tree, n.dirs, n.files, i, slot, tr2)
    BY <2>3, <2>4, <2>5, <2>6, <2>7, <2>8, <2>9 DEF SlotAdded
  <2>11. /\ Fit(Shown(n), Lens(n), n.super, n.used, tr2, n.dirs, n.files)
         /\ \A id : id # Null => (InTree(tr2, id) <=> InTree(n.tree, id) \/ id = slot.id)
    BY <2>10, SlotAddedFit
  <2>12. tr2 \in Trees BY <2>11, FitParts
  <2>13. /\ tr2[i] = slot /\ DOMAIN tr2 = DOMAIN n.tree
         /\ \A j \in DOMAIN n.tree : j # i => tr2[j] = n.tree[j]
    BY <2>4, <2>6 DEF Trees
  <2>. HIDE DEF tr2
  <2>14. /\ r \in Memories /\ r.log = n.log /\ r.super = n.super /\ r.used = n.used /\ r.tree = tr2
         /\ r.dirs = n.dirs /\ r.files = n.files /\ r.full = n.full /\ r.calls = n.calls
         /\ r.err = n.err /\ r.fault = n.fault
    BY <2>3, <2>12 DEF Memories
  <2>. HIDE DEF r
  <2>15. Shown(r) = Shown(n) /\ Lens(r) = Lens(n) BY <2>14, SameLog
  <2>16. Good(r) BY <2>3, <2>11, <2>14, <2>15, GoodFrom
  <2>17. InTree(tr2, e.id) BY <2>4, <2>5, <2>8, <2>11
  <2>18. e.tail = Len(r.log[e.id])
    <3>1. e.tail = Lens(n)[e.id] BY <1>1, <2>2, <2>4 DEF NamesGood, TailsTold
    <3>. QED BY <2>5, <2>14, <3>1, ShownIs
  <2>19. NamedSlots(tr2, e.id, name) = {}
    <3>. SUFFICES ASSUME NEW j \in DOMAIN tr2, tr2[j].id # Null, tr2[j].father = e.id PROVE FALSE
      BY DEF NamedSlots
    <3>1. CASE j = i
      <4>1. e.id = d BY <2>8, <2>13, <3>1
      <4>. QED BY <1>1, <2>7, <4>1
    <3>2. CASE j # i
      <4>1. n.tree[j].id # Null /\ n.tree[j].father = e.id /\ j \in DOMAIN n.tree BY <2>13, <3>2
      <4>2. CASE j = 1
        <5>1. n.tree[1].father = Null BY <2>4 DEF TreeGood
        <5>. QED BY <2>4, <2>5, <4>1, <4>2, <5>1
      <4>3. CASE j # 1
        <5>1. InTree(n.tree, e.id) BY <2>4, <4>1, <4>3 DEF TreeGood, SlotGood
        <5>. QED BY <2>7, <5>1
      <4>. QED BY <4>2, <4>3
    <3>. QED BY <3>1, <3>2
  <2>20. y.m = r /\ y.dir = e.id /\ y.tail = e.tail BY <2>1
  <2>. HIDE DEF y
  <2>21. Seeking(m, y, name)
    BY <1>1, <2>5, <2>14, <2>16, <2>17, <2>18, <2>19, <2>20 DEF Seeking
  <2>. QED BY <2>21 DEF y
<1>. QED BY <1>2, <1>3

LEMMA MissedGood ==
  ASSUME Begins = {}, NEW m, Good(m), m.calls = <<>>, NEW i \in DOMAIN m.tree, m.tree[i].id # Null,
         NEW name \in Names, NamedSlots(m.tree, m.tree[i].id, name) = {}
  PROVE  LET r == Missed(m, m.tree[i], name) IN Good(r) /\ r.calls = <<>> /\ r.err
<1>. DEFINE s == m.tree[i]
            y == [m |-> m, dir |-> s.id, tail |-> s.tail]
            end == SoughtBy(y, name, TreeMax)
<1>1. Seeking(m, y, name)
  <2>1. s.id \in Ids /\ s.tail = Len(m.log[s.id]) BY SlotKnown
  <2>2. InTree(m.tree, s.id) BY DEF InTree
  <2>3. y.m = m /\ y.dir = s.id /\ y.tail = s.tail OBVIOUS
  <2>4. NamedSlots(m.tree, s.id, name) = {} OBVIOUS
  <2>. HIDE DEF y, s
  <2>. QED BY <2>1, <2>2, <2>3, <2>4 DEF Seeking
<1>2. TreeMax \in Nat BY Sizes
<1>. HIDE DEF y
<1>3. PICK new : /\ new[0] = y /\ end = new[TreeMax]
                 /\ \A j \in 1 .. TreeMax : new[j] = Sought(new[j - 1], name)
  BY <1>2, SoughtFold
<1>. DEFINE T == {n \in Nat : n <= TreeMax => Seeking(m, new[n], name)}
<1>4. 0 \in T BY <1>1, <1>3
<1>5. ASSUME NEW n \in Nat, n \in T PROVE n + 1 \in T
  <2>. SUFFICES ASSUME n + 1 <= TreeMax PROVE Seeking(m, new[n + 1], name) OBVIOUS
  <2>1. n + 1 \in 1 .. TreeMax /\ n <= TreeMax /\ (n + 1) - 1 = n BY <1>2
  <2>2. Seeking(m, new[n], name) BY <1>5, <2>1
  <2>3. new[n + 1] = Sought(new[n], name) BY <1>3, <2>1
  <2>4. Seeking(m, Sought(new[n], name), name) BY <2>2, SoughtGood
  <2>. QED BY <2>3, <2>4
<1>6. Seeking(m, end, name)
  <2>. HIDE DEF T
  <2>1. Nat \subseteq T BY <1>4, <1>5, Induct
  <2>2. \A n \in T : n <= TreeMax => Seeking(m, new[n], name) BY DEF T
  <2>. QED BY <1>2, <1>3, <2>1, <2>2
<1>7. Good(end.m) /\ end.m.calls = <<>> BY <1>6 DEF Seeking
<1>8. Missed(m, s, name) = IF SlotsOf(end.m.tree, Null) = {} THEN Stopped(end.m) ELSE Failed(end.m)
  BY DEF Missed, y
<1>. HIDE DEF end, s
<1>9. LET r == Missed(m, s, name) IN Good(r) /\ r.calls = <<>> /\ r.err BY <1>7, <1>8, ErrGood
<1>. QED BY <1>9 DEF s

(* father_dir_find.                                                         *)
Following(tr, x) ==
  /\ x.slot \in DOMAIN tr /\ tr[x.slot].id # Null /\ x.missing \in Names \cup {Null}
  /\ x.missing # Null => NamedSlots(tr, tr[x.slot].id, x.missing) = {}
  /\ DOMAIN x = {"slot", "missing"}

LEMMA FollowedGood ==
  ASSUME NEW tr \in Trees, NEW x, x = [slot |-> x.slot, missing |-> x.missing], NEW name \in Names,
         Following(tr, x)
  PROVE  /\ Following(tr, Followed(tr, x, name))
         /\ LET y == Followed(tr, x, name) IN y = [slot |-> y.slot, missing |-> y.missing]
<1>. DEFINE next == NamedSlots(tr, tr[x.slot].id, name)
            y == Followed(tr, x, name)
<1>1. CASE x.missing # Null
  <2>1. y = x BY <1>1 DEF Followed
  <2>. QED BY <2>1, Zenon
<1>2. CASE x.missing = Null /\ next = {}
  <2>1. y = [slot |-> x.slot, missing |-> name] BY <1>2 DEF Followed
  <2>2. y.slot = x.slot /\ y.missing = name /\ DOMAIN y = {"slot", "missing"} BY <2>1
  <2>3. y = [slot |-> y.slot, missing |-> y.missing] BY <2>1
  <2>. HIDE DEF y
  <2>4. Following(tr, y) BY <1>2, <2>2 DEF Following
  <2>. QED BY <2>3, <2>4 DEF y
<1>3. CASE x.missing = Null /\ next # {}
  <2>1. y = [slot |-> FirstOf(next), missing |-> Null] BY <1>3 DEF Followed
  <2>2. y.slot = FirstOf(next) /\ y.missing = Null /\ DOMAIN y = {"slot", "missing"} BY <2>1
  <2>3. y = [slot |-> y.slot, missing |-> y.missing] BY <2>1
  <2>4. next \in SUBSET Nat /\ \A j \in next : j \in DOMAIN tr /\ tr[j].id # Null
    BY Sizes DEF NamedSlots, Trees
  <2>5. FirstOf(next) \in next
    <3>. HIDE DEF next
    <3>. QED BY <1>3, <2>4, FirstOfIn
  <2>. HIDE DEF y
  <2>6. Following(tr, y) BY <2>2, <2>4, <2>5 DEF Following
  <2>. QED BY <2>3, <2>6 DEF y
<1>. QED BY <1>1, <1>2, <1>3

LEMMA FollowedByGood ==
  ASSUME NEW tr \in Trees, tr[1].id # Null, NEW names \in Seq(Names)
  PROVE  Following(tr, FollowedBy(tr, [slot |-> 1, missing |-> Null], names))
<1>. DEFINE x == [slot |-> 1, missing |-> Null]
            Part(y) == Following(tr, y) /\ y = [slot |-> y.slot, missing |-> y.missing]
<1>1. Part(x)
  <2>1. 1 \in DOMAIN tr BY Sizes DEF Trees
  <2>2. x.slot = 1 /\ x.missing = Null /\ DOMAIN x = {"slot", "missing"} OBVIOUS
  <2>3. x = [slot |-> x.slot, missing |-> x.missing] OBVIOUS
  <2>. HIDE DEF x
  <2>. QED BY <2>1, <2>2, <2>3 DEF Following
<1>2. Len(names) \in Nat /\ \A j \in 1 .. Len(names) : names[j] \in Names OBVIOUS
<1>. HIDE DEF x
<1>3. PICK new : /\ new[0] = x /\ FollowedBy(tr, x, names) = new[Len(names)]
                 /\ \A j \in 1 .. Len(names) : new[j] = Followed(tr, new[j - 1], names[j])
  BY FollowedFold
<1>. DEFINE T == {n \in Nat : n <= Len(names) => Part(new[n])}
<1>. HIDE DEF Part
<1>4. 0 \in T BY <1>1, <1>3
<1>5. ASSUME NEW n \in Nat, n \in T PROVE n + 1 \in T
  <2>. HIDE DEF Part
  <2>. SUFFICES ASSUME n + 1 <= Len(names) PROVE Part(new[n + 1]) OBVIOUS
  <2>. USE DEF Part
  <2>1. n + 1 \in 1 .. Len(names) /\ n <= Len(names) /\ (n + 1) - 1 = n BY <1>2
  <2>2. Part(new[n]) BY <1>5, <2>1
  <2>3. new[n + 1] = Followed(tr, new[n], names[n + 1]) /\ names[n + 1] \in Names BY <1>2, <1>3, <2>1
  <2>4. Part(Followed(tr, new[n], names[n + 1])) BY <2>2, <2>3, FollowedGood DEF Part
  <2>. QED BY <2>3, <2>4
<1>. HIDE DEF T
<1>6. Nat \subseteq T BY <1>4, <1>5, Induct
<1>7. \A n \in T : n <= Len(names) => Part(new[n]) BY DEF T
<1>8. Part(new[Len(names)]) BY <1>2, <1>6, <1>7
<1>. QED BY <1>3, <1>8 DEF Part, x

LEMMA ResolvedGood ==
  ASSUME Begins = {}, NEW m, Good(m), m.calls = <<>>, ~ m.err, NEW names \in Seq(Names)
  PROVE  LET r == Resolved(m, names) IN
         /\ Good(r) /\ r.calls = <<>>
         /\ ~ r.err => /\ r.full = m.full /\ r.used = m.used /\ r.tree = m.tree /\ r.fault = m.fault
                       /\ IsIn(r.dirs, r.at)
<1>. DEFINE end == FollowedBy(m.tree, [slot |-> 1, missing |-> Null], names)
            i == end.slot
            n == [m EXCEPT !.at = m.tree[i].id]
            r == Resolved(m, names)
<1>0. /\ m \in Memories /\ Sound(Shown(m), Lens(m), m.super, m.used, m.tree, m.dirs, m.files)
      /\ LensGood(Lens(m), m.full) /\ CallsGood(m.full, m.dirs, m.calls)
  BY DEF Good
<1>1. m.tree \in Trees /\ m.tree[1].id = Root /\ Root # Null
  <2>1. TreeGood(Shown(m), Lens(m), m.super, m.tree) /\ m.tree \in Trees /\ Root \in Ids /\ Null \notin Ids
    BY GoodParts, FitParts
  <2>. QED BY <2>1 DEF TreeGood
<1>2. Following(m.tree, end) BY <1>1, FollowedByGood
<1>3. r = IF end.missing # Null THEN Missed(m, m.tree[i], end.missing) ELSE LowOpened(n, m.tree[i])
  BY DEF Resolved
<1>. HIDE DEF end
<1>4. i \in DOMAIN m.tree /\ m.tree[i].id # Null BY <1>2 DEF Following
<1>5. CASE end.missing # Null
  <2>1. end.missing \in Names /\ NamedSlots(m.tree, m.tree[i].id, end.missing) = {}
    BY <1>2, <1>5 DEF Following
  <2>2. LET s == Missed(m, m.tree[i], end.missing) IN Good(s) /\ s.calls = <<>> /\ s.err
    BY <1>4, <2>1, MissedGood
  <2>. QED BY <1>3, <1>5, <2>2
<1>6. CASE end.missing = Null
  <2>1. m.tree[i].id \in Ids BY <1>4, SlotKnown
  <2>2. /\ n \in Memories /\ n.log = m.log /\ n.super = m.super /\ n.used = m.used /\ n.tree = m.tree
        /\ n.dirs = m.dirs /\ n.files = m.files /\ n.full = m.full /\ n.calls = m.calls
        /\ n.at = m.tree[i].id /\ n.err = m.err /\ n.fault = m.fault
    BY <1>0, <2>1 DEF Memories
  <2>. HIDE DEF n
  <2>3. Shown(n) = Shown(m) /\ Lens(n) = Lens(m) BY <2>2, SameLog
  <2>4. Good(n) BY <1>0, <2>2, <2>3 DEF Good
  <2>5. LET s == LowOpened(n, n.tree[i]) IN Good(s) /\ OpenedOn(n, s) /\ IsIn(s.dirs, n.tree[i].id)
    BY <1>4, <2>2, <2>4, LowOpenedGood
  <2>6. r = LowOpened(n, n.tree[i]) BY <1>3, <1>6, <2>2
  <2>7. Good(r) /\ OpenedOn(n, r) /\ IsIn(r.dirs, n.tree[i].id) BY <2>5, <2>6
  <2>. HIDE DEF r
  <2>8. /\ Good(r) /\ r.calls = <<>>
        /\ ~ r.err => /\ r.full = m.full /\ r.used = m.used /\ r.tree = m.tree /\ r.fault = m.fault
                      /\ IsIn(r.dirs, r.at)
    BY <2>2, <2>7 DEF OpenedOn
  <2>. QED BY <2>8 DEF r
<1>. QED BY <1>5, <1>6

-----------------------------------------------------------------------------
(* Where an operation begins and ends.                                      *)
Ended(m) == m.fault \in BOOLEAN /\ (~ m.fault => Good(m) /\ m.calls = <<>>)

LEMMA MemoryIs ==
  ASSUME NEW full
  PROVE  LET m == Memory(full) IN
         /\ m.log = log /\ m.super = super /\ m.used = used /\ m.tree = tree /\ m.dirs = dirs
         /\ m.files = files /\ m.full = full /\ m.calls = <<>> /\ m.at = Root
         /\ m.err = FALSE /\ m.fault = FALSE
BY DEF Memory

LEMMA Begun ==
  ASSUME Inv, NEW full \in SUBSET MayFill
  PROVE  LET m == Memory(full) IN
         /\ Good(m) /\ m.calls = <<>> /\ ~ m.err /\ ~ m.fault /\ m.full \subseteq m.used
         /\ m.log = log /\ m.super = super /\ m.used = used /\ m.tree = tree /\ m.dirs = dirs
         /\ m.files = files
<1>. DEFINE z == Memory({}) m == Memory(full)
<1>1. Good(z) BY DEF Inv
<1>2. /\ z.log = log /\ z.super = super /\ z.used = used /\ z.tree = tree /\ z.dirs = dirs
      /\ z.files = files /\ z.full = {} /\ z.calls = <<>> /\ z.at = Root
      /\ z.err = FALSE /\ z.fault = FALSE
  BY MemoryIs
<1>3. /\ m.log = log /\ m.super = super /\ m.used = used /\ m.tree = tree /\ m.dirs = dirs
      /\ m.files = files /\ m.full = full /\ m.calls = <<>> /\ m.at = Root
      /\ m.err = FALSE /\ m.fault = FALSE
  BY MemoryIs
<1>4. full \in SUBSET Ids BY DEF MayFill
<1>4a. m = [log |-> log, super |-> super, used |-> used, tree |-> tree, dirs |-> dirs,
            files |-> files, full |-> full, calls |-> <<>>, at |-> Root,
            err |-> FALSE, fault |-> FALSE]
  BY DEF Memory
<1>. HIDE DEF z, m
<1>5. z \in Memories /\ Fit(Shown(z), Lens(z), z.super, z.used, z.tree, z.dirs, z.files)
      /\ LensGood(Lens(z), z.full) /\ CallsGood(z.full, z.dirs, z.calls)
  BY <1>1, GoodParts
<1>6. m \in Memories
  <2>1. /\ log \in Chains /\ super \in Nat /\ used \in SUBSET Ids /\ tree \in Trees
        /\ dirs \in Seq(Handles) /\ files \in Seq(Opened) /\ Root \in Ids /\ <<>> \in Seq(Calls)
    BY <1>2, <1>5, MemoryTypes
  <2>. QED BY <1>4, <1>4a, <2>1 DEF Memories
<1>7. Shown(m) = Shown(z) /\ Lens(m) = Lens(z) BY <1>2, <1>3, SameLog
<1>8. LensGood(Lens(m), m.full)
  <2>1. \A d \in Ids : Lens(m)[d] <= ChainMax BY <1>5, <1>7 DEF LensGood
  <2>2. ASSUME NEW d \in full PROVE 1 <= Lens(m)[d] /\ Lens(m)[d] < ChainMax
    <3>1. d \in Ids /\ log[d] # <<>> /\ Len(log[d]) < ChainMax BY DEF MayFill
    <3>2. Lens(m)[d] = Len(log[d]) BY <1>3, <3>1, ShownIs
    <3>3. m.log[d] \in Seq(Seq(Entries)) BY <1>6, <3>1, MemoryTypes
    <3>4. Len(log[d]) >= 1 BY <1>3, <3>1, <3>3
    <3>. QED BY <3>1, <3>2, <3>4
  <2>. QED BY <1>3, <2>1, <2>2 DEF LensGood
<1>9. CallsGood(m.full, m.dirs, m.calls) BY <1>3 DEF CallsGood
<1>10. Good(m) BY <1>2, <1>3, <1>5, <1>6, <1>7, <1>8, <1>9, GoodFrom
<1>11. full \subseteq used
  <2>. SUFFICES ASSUME NEW d \in full PROVE d \in used OBVIOUS
  <2>0. d \in Ids BY <1>4
  <2>1. /\ NamesGood(Shown(z), Lens(z), used) /\ TreeGood(Shown(z), Lens(z), super, tree)
        /\ DirsGood(Shown(z), Lens(z), tree, dirs) /\ DOMAIN tree = 1 .. TreeMax /\ Null \notin Ids
    BY <1>2, <1>5, FitParts
  <2>2. InTree(tree, d)
    <3>1. (\E i \in DOMAIN tree : tree[i].id = d) \/ (\E k \in DOMAIN dirs : dirs[k].id = d)
      BY DEF MayFill
    <3>2. CASE \E i \in DOMAIN tree : tree[i].id = d BY <3>2 DEF InTree
    <3>3. CASE \E k \in DOMAIN dirs : dirs[k].id = d BY <2>1, <3>3 DEF DirsGood, HandleGood
    <3>. QED BY <3>1, <3>2, <3>3
  <2>3. PICK i \in DOMAIN tree : tree[i].id = d BY <2>2 DEF InTree
  <2>4. CASE i = 1 BY <2>1, <2>3, <2>4 DEF TreeGood, NamesGood, Exact
  <2>5. CASE i # 1
    <3>1. SlotGood(Shown(z), tree, tree[i]) BY <2>0, <2>1, <2>3, <2>5 DEF TreeGood
    <3>. DEFINE e == Name("dir", tree[i].stored, tree[i].id, tree[i].tail)
    <3>2. e \in Shown(z)[tree[i].father] /\ tree[i].father \in Ids /\ e.id = d
      BY <2>3, <3>1, NameIs DEF SlotGood
    <3>. HIDE DEF e
    <3>. QED BY <2>1, <3>2 DEF NamesGood, Exact
  <2>. QED BY <2>4, <2>5
<1>. QED BY <1>3, <1>10, <1>11 DEF m

LEMMA Becomes ==
  ASSUME Inv, NEW m, Ended(m), Become(m)
  PROVE  Inv'
<1>. DEFINE n == [log |-> log', super |-> super', used |-> used', tree |-> tree', dirs |-> dirs',
                  files |-> files', full |-> {}, calls |-> <<>>, at |-> Root,
                  err |-> FALSE, fault |-> FALSE]
<1>1. fault' = m.fault /\ m.fault \in BOOLEAN BY DEF Become, Ended
<1>2. Inv' <=> Good(n) /\ fault' \in BOOLEAN BY DEF Inv, Memory
<1>3. CASE m.fault
  <2>1. /\ log' = log /\ super' = super /\ used' = used /\ tree' = tree /\ dirs' = dirs
        /\ files' = files
    BY <1>3 DEF Become
  <2>2. n = Memory({}) BY <2>1 DEF Memory
  <2>3. Good(n) BY <2>2 DEF Inv
  <2>. HIDE DEF n
  <2>. QED BY <1>1, <1>2, <2>3
<1>4. CASE ~ m.fault
  <2>1. /\ log' = m.log /\ super' = m.super /\ used' = m.used /\ tree' = m.tree /\ dirs' = m.dirs
        /\ files' = m.files
    BY <1>4 DEF Become
  <2>2. Good(m) /\ m.calls = <<>> BY <1>4 DEF Ended
  <2>3. m \in Memories /\ Fit(Shown(m), Lens(m), m.super, m.used, m.tree, m.dirs, m.files)
        /\ LensGood(Lens(m), m.full)
    BY <2>2, GoodParts
  <2>4. n.log = m.log /\ n.super = m.super /\ n.used = m.used /\ n.tree = m.tree
        /\ n.dirs = m.dirs /\ n.files = m.files /\ n.full = {} /\ n.calls = <<>>
    BY <2>1
  <2>5. n \in Memories
    <3>1. /\ m.log \in Chains /\ m.super \in Nat /\ m.used \in SUBSET Ids /\ m.tree \in Trees
          /\ m.dirs \in Seq(Handles) /\ m.files \in Seq(Opened)
      BY <2>3, MemoryTypes
    <3>2. {} \in SUBSET Ids /\ <<>> \in Seq(Calls) /\ Root \in Ids BY IdsAssumption
    <3>. QED BY <2>1, <3>1, <3>2 DEF Memories
  <2>. HIDE DEF n
  <2>6. Shown(n) = Shown(m) /\ Lens(n) = Lens(m) BY <2>2, <2>4, SameLog
  <2>7. LensGood(Lens(n), n.full) /\ CallsGood(n.full, n.dirs, n.calls)
    BY <2>3, <2>4, <2>6 DEF LensGood, CallsGood
  <2>8. Good(n) BY <2>3, <2>4, <2>5, <2>6, <2>7, GoodFrom
  <2>. QED BY <1>1, <1>2, <2>8
<1>. QED BY <1>3, <1>4

(* A thing of a new id is named.                                            *)
NewNamed(m, n, d, e) ==
  /\ Good(m) /\ m.calls = <<>> /\ m.full \subseteq m.used /\ IsIn(m.dirs, d)
  /\ e \in Entries /\ e.id \notin m.used
  /\ n.super = m.super /\ n.used = m.used \cup {e.id} /\ n.tree = m.tree /\ n.dirs = m.dirs
  /\ n.files = m.files /\ n.full = m.full /\ n.calls = <<>> /\ n.at = m.at /\ n.err = m.err
  /\ n.fault = m.fault /\ n \in Memories
  /\ \/ /\ e.kind = "file" /\ e.tail = 0 /\ n.log = m.log
        /\ \A f \in Shown(m)[d] : f.kind = "file" => f.name # e.name
     \/ e.kind = "dir" /\ e.tail = 1 /\ n.log = Rewritten(m.log, e.id, <<<<>>>>)

LEMMA NewNamedGood ==
  ASSUME NEW m, NEW n, NEW d, NEW e, NewNamed(m, n, d, e)
  PROVE  LET c == Called(n, d, <<e>>) IN
         /\ Good(c) /\ e \in Shown(c)[d] /\ c.used = n.used /\ c.tree = m.tree /\ c.dirs = m.dirs
         /\ c.files = m.files /\ c.full = m.full /\ c.at = m.at /\ c.fault = m.fault /\ e.id \notin c.full
<1>. DEFINE call == [dir |-> d, names |-> <<e>>] calls == <<call>> c == Called(n, d, <<e>>)
            V == Shown(m) W == Shown(c) len == Lens(m) len2 == Lens(c)
<1>1. /\ Good(m) /\ m.calls = <<>> /\ m.full \subseteq m.used /\ IsIn(m.dirs, d)
      /\ e \in Entries /\ e.id \notin m.used
      /\ n.super = m.super /\ n.used = m.used \cup {e.id} /\ n.tree = m.tree /\ n.dirs = m.dirs
      /\ n.files = m.files /\ n.full = m.full /\ n.calls = <<>> /\ n.at = m.at /\ n.err = m.err
      /\ n.fault = m.fault /\ n \in Memories
      /\ \/ /\ e.kind = "file" /\ e.tail = 0 /\ n.log = m.log
            /\ \A f \in V[d] : f.kind = "file" => f.name # e.name
         \/ e.kind = "dir" /\ e.tail = 1 /\ n.log = Rewritten(m.log, e.id, <<<<>>>>)
  BY DEF NewNamed
<1>2. m \in Memories /\ Fit(V, len, m.super, m.used, m.tree, m.dirs, m.files)
      /\ LensGood(len, m.full) /\ CallsGood(m.full, m.dirs, m.calls)
  BY <1>1, GoodParts
<1>3. d \in Ids /\ e.id \in Ids /\ e.kind \in {"file", "dir"} BY <1>1, OpenKnown DEF Entries
<1>3a. InTree(m.tree, d)
  <2>1. SlotsOf(m.tree, d) # {} /\ m.tree \in Trees BY <1>1, <1>2, OpenKnown, MemoryTypes
  <2>. QED BY <2>1, SlotsOfIn
<1>4. <<e>> \in Seq(Entries) /\ DOMAIN <<e>> = {1} /\ <<e>>[1] = e BY <1>1, Single
<1>5. call \in Calls /\ call.dir = d /\ call.names = <<e>> BY <1>3, <1>4 DEF Calls
<1>5a. c = [n EXCEPT !.calls = calls] BY DEF Called
<1>. HIDE DEF call
<1>6. calls \in Seq(Calls) /\ DOMAIN calls = {1} /\ calls[1] = call BY <1>5, Single
<1>. HIDE DEF calls
<1>7. /\ c \in Memories /\ c.log = n.log /\ c.super = m.super /\ c.used = m.used \cup {e.id}
      /\ c.tree = m.tree /\ c.dirs = m.dirs /\ c.files = m.files /\ c.full = m.full
      /\ c.calls = calls /\ c.at = m.at /\ c.err = m.err /\ c.fault = m.fault
  BY <1>1, <1>5a, <1>6 DEF Memories
<1>. HIDE DEF c
<1>8. /\ V \in Views /\ len \in Lengths /\ NamesGood(V, len, m.used) /\ Root \in m.used
  BY <1>2, FitParts DEF NamesGood, Exact
<1>9. V[e.id] = {}
  <2>. SUFFICES ASSUME V[e.id] # {} PROVE FALSE OBVIOUS
  <2>1. PICK g \in Ids : \E f \in V[g] : f.id = e.id /\ f.kind = "dir"
    BY <1>1, <1>3, <1>8 DEF NamesGood, OnlyDirs
  <2>. QED BY <1>1, <1>8, <2>1 DEF NamesGood, Exact
<1>10. /\ \A x \in Ids : InLog(c, x) = InLog(m, x)
       /\ \A x \in Ids : x # e.id => len2[x] = len[x]
       /\ e.kind = "dir" => len2[e.id] = 1
  <2>1. CASE e.kind = "file"
    <3>1. c.log = m.log BY <1>1, <1>7, <2>1
    <3>. QED BY <2>1, <3>1 DEF InLog, Lens
  <2>2. CASE e.kind = "dir"
    <3>1. <<<<>>>> \in Seq(Seq(Entries)) /\ Len(<<<<>>>>) = 1 /\ DOMAIN <<<<>>>> = {1} /\ <<<<>>>>[1] = <<>>
      <4>1. <<>> \in Seq(Entries) OBVIOUS
      <4>. QED BY <4>1, Single
    <3>. DEFINE one == <<<<>>>>
    <3>2. m.log \in Chains BY <1>2, MemoryTypes
    <3>2a. c.log = Rewritten(m.log, e.id, one) BY <1>1, <1>7, <2>2
    <3>3. one \in Seq(Seq(Entries)) /\ Len(one) = 1 /\ DOMAIN one = {1} /\ one[1] = <<>> BY <3>1
    <3>. HIDE DEF one
    <3>4. \A x \in Ids : c.log[x] = IF x = e.id THEN one ELSE m.log[x]
      BY <1>3, <3>2, <3>2a, <3>3, RewrittenIs
    <3>5. \A x \in Ids : x # e.id => InLog(c, x) = InLog(m, x) /\ len2[x] = len[x]
      BY <3>4 DEF InLog, Lens
    <3>6. InLog(m, e.id) = {} BY <1>1, <1>3, <1>9, NothingDue
    <3>7. InLog(c, e.id) = {} BY <1>3, <3>3, <3>4 DEF InLog
    <3>8. len2[e.id] = 1 BY <1>3, <3>3, <3>4 DEF Lens
    <3>. QED BY <3>5, <3>6, <3>7, <3>8
  <2>. QED BY <1>3, <2>1, <2>2
<1>11. W[d] = V[d] \cup {e} /\ \A x \in Ids : x # d => W[x] = V[x]
  <2>1. \A x \in Ids : V[x] = InLog(m, x) BY <1>1, NothingDue
  <2>2. \A x \in Ids : W[x] = InLog(c, x) \cup Due(c, x) BY ShownIs
  <2>3. Due(c, d) = {e} BY <1>1, <1>4, <1>5, <1>6, <1>7 DEF Due
  <2>4. \A x \in Ids : x # d => Due(c, x) = {} BY <1>5, <1>6, <1>7 DEF Due
  <2>. HIDE DEF V, W
  <2>. QED BY <1>3, <1>10, <2>1, <2>2, <2>3, <2>4
<1>12. W \in Views /\ len2 \in Lengths
  <2>1. W \in Views BY DEF Shown, Views, InLog, Due
  <2>2. \A x \in Ids : Len(c.log[x]) \in Nat BY <1>7, MemoryTypes
  <2>. QED BY <2>1, <2>2 DEF Lens, Lengths
<1>. HIDE DEF V, W, len, len2
<1>13. NameAdded(V, len, m.super, m.used, m.tree, m.dirs, m.files, d, e, W, len2)
  BY <1>1, <1>2, <1>3, <1>3a, <1>10, <1>11, <1>12 DEF NameAdded
<1>14. Fit(W, len2, c.super, c.used, c.tree, c.dirs, c.files) BY <1>7, <1>13, NameAddedFit
<1>15. e.id \notin m.full BY <1>1
<1>16. LensGood(len2, c.full)
  <2>1. \A x \in m.full : len2[x] = len[x] /\ x \in Ids
    <3>1. m.full \in SUBSET Ids BY <1>2, MemoryTypes
    <3>. QED BY <1>10, <1>15, <3>1
  <2>2. ASSUME NEW x \in Ids PROVE len2[x] <= ChainMax
    <3>1. CASE x # e.id \/ e.kind = "file"
      <4>1. len2[x] = len[x]
        <5>1. CASE x # e.id BY <1>10, <5>1
        <5>2. CASE e.kind = "file"
          <6>1. c.log = m.log BY <1>1, <1>7, <5>2
          <6>. QED BY <6>1 DEF len, len2, Lens
        <5>. QED BY <3>1, <5>1, <5>2
      <4>. QED BY <1>2, <4>1 DEF LensGood
    <3>2. CASE x = e.id /\ e.kind = "dir" BY <1>10, <3>2, Sizes
    <3>. QED BY <1>3, <3>1, <3>2
  <2>. QED BY <1>2, <1>7, <2>1, <2>2 DEF LensGood
<1>17. CallsGood(c.full, c.dirs, c.calls) BY <1>1, <1>4, <1>5, <1>6, <1>7, <1>15 DEF CallsGood
<1>18. Good(c) BY <1>7, <1>14, <1>16, <1>17, GoodFrom DEF W, len2
<1>19. e \in W[d] BY <1>11
<1>. QED BY <1>1, <1>7, <1>15, <1>18, <1>19 DEF c, W

-----------------------------------------------------------------------------
(* Opening.                                                                 *)
LEMMA GoodAfter ==
  ASSUME NEW m, Good(m), NEW r \in Memories, r.calls = <<>>, r.full = m.full, Lens(r) = Lens(m),
         Fit(Shown(r), Lens(r), r.super, r.used, r.tree, r.dirs, r.files)
  PROVE  Good(r)
<1>1. LensGood(Lens(r), r.full) BY GoodParts
<1>2. CallsGood(r.full, r.dirs, r.calls) BY DEF CallsGood
<1>. QED BY <1>1, <1>2, GoodFrom

(* The files that are open have ids that are used.                          *)
LEMMA FileIdsUsed ==
  ASSUME NEW m, Good(m), NEW k \in DOMAIN m.files
  PROVE  m.files[k].id \in m.used /\ m.files[k].id # Root
<1>1. /\ NamesGood(Shown(m), Lens(m), m.used) /\ FilesGood(Shown(m), m.dirs, m.files)
      /\ m.files[k].father \in Ids
  BY GoodParts, FitParts
<1>. DEFINE e == Name("file", m.files[k].name, m.files[k].id, 0)
<1>2. e \in Shown(m)[m.files[k].father] /\ e.id = m.files[k].id BY <1>1, NameIs DEF FilesGood
<1>. HIDE DEF e
<1>. QED BY <1>1, <1>2 DEF NamesGood, Exact

LEMMA ListedGood ==
  ASSUME NEW m, Good(m), m.calls = <<>>, NEW f \in Opened, ~ IsIn(m.files, f.id),
         IsIn(m.dirs, f.father), Name("file", f.name, f.id, 0) \in Shown(m)[f.father]
  PROVE  LET r == [m EXCEPT !.files = <<f>> \o @] IN
         Good(r) /\ r.calls = <<>> /\ r.fault = m.fault
<1>. DEFINE list == <<f>> \o m.files r == [m EXCEPT !.files = list]
<1>1. m \in Memories /\ Fit(Shown(m), Lens(m), m.super, m.used, m.tree, m.dirs, m.files)
  BY GoodParts
<1>2. FileListed(Shown(m), Lens(m), m.super, m.used, m.tree, m.dirs, m.files, f, list)
  BY <1>1 DEF FileListed
<1>. HIDE DEF list
<1>3. Fit(Shown(m), Lens(m), m.super, m.used, m.tree, m.dirs, list) BY <1>2, FileListedFit
<1>4. list \in Seq(Opened) BY <1>3, FitParts
<1>5. /\ r \in Memories /\ r.log = m.log /\ r.super = m.super /\ r.used = m.used
      /\ r.tree = m.tree /\ r.dirs = m.dirs /\ r.files = list /\ r.full = m.full
      /\ r.calls = m.calls /\ r.fault = m.fault
  BY <1>1, <1>4 DEF Memories
<1>6. r = [m EXCEPT !.files = <<f>> \o @] BY DEF list
<1>. HIDE DEF r
<1>7. Shown(r) = Shown(m) /\ Lens(r) = Lens(m) BY <1>5, SameLog
<1>8. Good(r) BY <1>3, <1>5, <1>7, GoodAfter
<1>. QED BY <1>5, <1>6, <1>8

(* An operation that failed, or stopped, without more.                      *)
LEMMA ErrEnds ==
  ASSUME NEW m, Good(m), m.calls = <<>>
  PROVE  Ended(m) /\ Ended(Failed(m)) /\ Ended(Stopped(m))
<1>1. m \in Memories BY GoodParts
<1>2. m.fault \in BOOLEAN BY <1>1, MemoryTypes
<1>. QED BY <1>2, ErrGood DEF Ended

(* What file_open and dir_open are told.                                    *)
Asked(m, name, id) ==
  /\ Good(m) /\ m.calls = <<>> /\ ~ m.err /\ m.fault = FALSE /\ m.full \subseteq m.used
  /\ IsIn(m.dirs, m.at) /\ name \in Names /\ (id = Null \/ (id \in Ids /\ id \notin m.used))

LEMMA AskedIs ==
  ASSUME NEW m, NEW name, NEW id, Asked(m, name, id)
  PROVE  /\ m \in Memories /\ m.at \in Ids /\ FatherOf(m).id = m.at
         /\ FatherOf(m).tail = Len(m.log[m.at])
         /\ Fit(Shown(m), Lens(m), m.super, m.used, m.tree, m.dirs, m.files)
         /\ InTree(m.tree, m.at) /\ m.tree \in Trees
<1>1. Good(m) /\ IsIn(m.dirs, m.at) BY DEF Asked
<1>2. /\ m \in Memories /\ Fit(Shown(m), Lens(m), m.super, m.used, m.tree, m.dirs, m.files)
  BY <1>1, GoodParts
<1>3. m.tree \in Trees BY <1>2, MemoryTypes
<1>4. /\ m.dirs[HandleIn(m.dirs, m.at)].id = m.at /\ m.at \in Ids
      /\ m.dirs[HandleIn(m.dirs, m.at)].tail = Len(m.log[m.at]) /\ SlotsOf(m.tree, m.at) # {}
  BY <1>1, OpenKnown
<1>5. InTree(m.tree, m.at) BY <1>3, <1>4, SlotsOfIn
<1>. QED BY <1>2, <1>3, <1>4, <1>5 DEF FatherOf

(* A name is given to a new file.                                           *)
LEMMA FileMade ==
  ASSUME Begins = {}, NEW m, NEW name, NEW id, Asked(m, name, id), id # Null,
         Found(m, m.at, Len(m.log[m.at]), "file", name) = {}
  PROVE  LET new == Programmed([m EXCEPT !.used = @ \cup {id}], m.at, <<Name("file", name, id, 0)>>) IN
         /\ Good(new) /\ new.calls = <<>> /\ ~ new.err /\ new.fault = FALSE /\ IsIn(new.dirs, m.at)
         /\ Name("file", name, id, 0) \in Shown(new)[m.at] /\ new.files = m.files
<1>. DEFINE ids == m.used \cup {id} n == [m EXCEPT !.used = ids] d == m.at
            e == Name("file", name, id, 0) c == Called(n, d, <<e>>) new == Programmed(n, d, <<e>>)
<1>1. /\ Good(m) /\ m.calls = <<>> /\ ~ m.err /\ m.fault = FALSE /\ m.full \subseteq m.used
      /\ IsIn(m.dirs, d) /\ name \in Names /\ id \in Ids /\ id \notin m.used
  BY DEF Asked
<1>2. m \in Memories /\ d \in Ids BY AskedIs
<1>3. ids \in SUBSET Ids BY <1>1, <1>2, MemoryTypes
<1>4. e.kind = "file" /\ e.id = id /\ e.name = name /\ e.tail = 0 BY NameIs
<1>5. e \in Entries BY <1>1, Sizes DEF Name, Entries
<1>6. n = [m EXCEPT !.used = @ \cup {id}] OBVIOUS
<1>. HIDE DEF e, ids
<1>7. /\ n.log = m.log /\ n.super = m.super /\ n.used = ids /\ n.tree = m.tree /\ n.dirs = m.dirs
      /\ n.files = m.files /\ n.full = m.full /\ n.calls = <<>> /\ n.at = m.at /\ n.err = m.err
      /\ n.fault = m.fault /\ n \in Memories
  BY <1>1, <1>2, <1>3 DEF Memories
<1>8. \A f \in Shown(m)[d] : f.kind = "file" => f.name # e.name
  <2>1. \A f \in Shown(m)[d] : ~ (f.kind = "file" /\ f.name = name) BY <1>1, <1>2, FoundIs
  <2>. HIDE DEF d
  <2>. QED BY <1>4, <2>1
<1>. HIDE DEF n, d
<1>9. NewNamed(m, n, d, e) BY <1>1, <1>4, <1>5, <1>7, <1>8 DEF NewNamed, ids
<1>10. /\ Good(c) /\ e \in Shown(c)[d] /\ c.dirs = m.dirs /\ c.files = m.files /\ c.fault = m.fault
  BY <1>9, NewNamedGood
<1>11. ~ n.err BY <1>1, <1>7
<1>12. Good(new) /\ Kept(c, new) /\ new.calls = <<>> /\ ~ new.err
  BY <1>7, <1>10, <1>11, ProgrammedGood
<1>. HIDE DEF c, new
<1>13. IsIn(new.dirs, d) /\ e \in Shown(new)[d] /\ new.files = m.files /\ new.fault = FALSE
  BY <1>1, <1>2, <1>4, <1>10, <1>12 DEF Kept, d
<1>14. /\ Good(new) /\ new.calls = <<>> /\ ~ new.err /\ new.fault = FALSE /\ IsIn(new.dirs, d)
       /\ e \in Shown(new)[d] /\ new.files = m.files
  BY <1>12, <1>13
<1>. QED BY <1>6, <1>14 DEF new, e, d

LEMMA FileOpenedEnds ==
  ASSUME Begins = {}, NEW m, NEW name, NEW id, Asked(m, name, id)
  PROVE  Ended(FileOpened(m, FatherOf(m), name, id))
<1>. DEFINE d == m.at tail == Len(m.log[d]) found == Found(m, d, tail, "file", name)
            new == Programmed([m EXCEPT !.used = @ \cup {id}], d, <<Name("file", name, id, 0)>>)
            F(f) == [id |-> f, father |-> d, name |-> name]
            Listed(n, f) == [n EXCEPT !.files = <<F(f)>> \o @]
            e == At(m, d, FirstIn(found))
            r == FileOpened(m, FatherOf(m), name, id)
<1>1. /\ Good(m) /\ m.calls = <<>> /\ ~ m.err /\ m.fault = FALSE
      /\ IsIn(m.dirs, d) /\ name \in Names /\ (id = Null \/ (id \in Ids /\ id \notin m.used))
  BY DEF Asked
<1>2. /\ m \in Memories /\ d \in Ids /\ FatherOf(m).id = d /\ FatherOf(m).tail = tail
      /\ Fit(Shown(m), Lens(m), m.super, m.used, m.tree, m.dirs, m.files)
  BY AskedIs
<1>3. r = IF found # {} THEN IF IsIn(m.files, e.id) THEN m ELSE Listed(m, e.id)
          ELSE IF id = Null THEN Failed(m)
          ELSE IF new.err THEN new ELSE Listed(new, id)
  BY <1>2 DEF FileOpened
<1>. HIDE DEF r
<1>4. ASSUME NEW f \in Ids PROVE F(f) \in Opened /\ F(f).id = f /\ F(f).father = d /\ F(f).name = name
  BY <1>1, <1>2 DEF Opened
<1>5. CASE found # {}
  <2>1. e \in Shown(m)[d] /\ e.kind = "file" /\ e.name = name BY <1>1, <1>2, <1>5, FoundIs
  <2>2. NamesGood(Shown(m), Lens(m), m.used) BY <1>2, FitParts
  <2>. HIDE DEF e, F
  <2>3. e \in Entries /\ e.tail = 0
    <3>1. Shown(m)[d] \subseteq Entries BY <1>2, ShownIs
    <3>. QED BY <1>2, <2>1, <2>2, <3>1 DEF NamesGood, TailsTold
  <2>4. e.id \in Ids BY <2>3 DEF Entries
  <2>5. e = Name("file", name, e.id, 0) BY <2>1, <2>3 DEF Entries, Name
  <2>6. CASE IsIn(m.files, e.id)
    <3>1. r = m BY <1>3, <1>5, <2>6
    <3>. QED BY <1>1, <3>1, ErrEnds DEF r
  <2>7. CASE ~ IsIn(m.files, e.id)
    <3>1. r = Listed(m, e.id) BY <1>3, <1>5, <2>7
    <3>. DEFINE f == F(e.id)
    <3>2. f \in Opened /\ f.id = e.id /\ f.father = d /\ f.name = name BY <1>4, <2>4
    <3>. HIDE DEF f
    <3>3. /\ ~ IsIn(m.files, f.id) /\ IsIn(m.dirs, f.father)
          /\ Name("file", f.name, f.id, 0) \in Shown(m)[f.father]
      BY <1>1, <2>1, <2>5, <2>7, <3>2
    <3>4. LET x == [m EXCEPT !.files = <<f>> \o @] IN
          Good(x) /\ x.calls = <<>> /\ x.fault = m.fault
      BY <1>1, <3>2, <3>3, ListedGood
    <3>5. r = [m EXCEPT !.files = <<f>> \o @] BY <3>1 DEF f
    <3>. QED BY <1>1, <3>4, <3>5 DEF Ended, r
  <2>. QED BY <2>6, <2>7
<1>6. CASE found = {} /\ id = Null
  <2>1. r = Failed(m) BY <1>3, <1>6
  <2>. QED BY <1>1, <2>1, ErrEnds DEF r
<1>7. CASE found = {} /\ id # Null
  <2>1. /\ Good(new) /\ new.calls = <<>> /\ ~ new.err /\ new.fault = FALSE /\ IsIn(new.dirs, d)
        /\ Name("file", name, id, 0) \in Shown(new)[d] /\ new.files = m.files
    BY <1>7, FileMade
  <2>2. r = Listed(new, id) BY <1>3, <1>7, <2>1
  <2>3. id \in Ids /\ id \notin m.used BY <1>1, <1>7
  <2>4. ~ IsIn(new.files, id) BY <1>1, <2>1, <2>3, FileIdsUsed DEF IsIn
  <2>. DEFINE f == F(id)
  <2>5. f \in Opened /\ f.id = id /\ f.father = d /\ f.name = name BY <1>4, <2>3
  <2>6. r = [new EXCEPT !.files = <<f>> \o @] BY <2>2
  <2>. HIDE DEF f, new
  <2>7. /\ ~ IsIn(new.files, f.id) /\ IsIn(new.dirs, f.father)
        /\ Name("file", f.name, f.id, 0) \in Shown(new)[f.father]
    BY <2>1, <2>4, <2>5
  <2>8. LET x == [new EXCEPT !.files = <<f>> \o @] IN
        Good(x) /\ x.calls = <<>> /\ x.fault = new.fault
    BY <2>1, <2>5, <2>7, ListedGood
  <2>. QED BY <2>1, <2>6, <2>8 DEF Ended, r
<1>. QED BY <1>5, <1>6, <1>7 DEF r

(* An id that is not used has no slot.                                      *)
LEMMA NoSlotOf ==
  ASSUME NEW m, Good(m), NEW id \in Ids, id \notin m.used
  PROVE  ~ InTree(m.tree, id)
<1>. SUFFICES ASSUME InTree(m.tree, id) PROVE FALSE OBVIOUS
<1>1. /\ NamesGood(Shown(m), Lens(m), m.used) /\ TreeGood(Shown(m), Lens(m), m.super, m.tree)
      /\ Null \notin Ids
  BY GoodParts, FitParts
<1>2. PICK i \in DOMAIN m.tree : m.tree[i].id = id BY DEF InTree
<1>3. CASE i = 1 BY <1>1, <1>2, <1>3 DEF TreeGood, NamesGood, Exact
<1>4. CASE i # 1
  <2>1. SlotGood(Shown(m), m.tree, m.tree[i]) BY <1>1, <1>2, <1>4 DEF TreeGood
  <2>. DEFINE e == Name("dir", m.tree[i].stored, m.tree[i].id, m.tree[i].tail)
  <2>2. e \in Shown(m)[m.tree[i].father] /\ m.tree[i].father \in Ids /\ e.id = id
    BY <1>2, <2>1, NameIs DEF SlotGood
  <2>. HIDE DEF e
  <2>. QED BY <1>1, <2>2 DEF NamesGood, Exact
<1>. QED BY <1>3, <1>4

(* A name is given to a new directory.                                      *)
NewDir(m, name, id) ==
  Programmed([m EXCEPT !.used = @ \cup {id}, !.log = Rewritten(@, id, <<<<>>>>)],
             m.at, <<Name("dir", name, id, 1)>>)
AddedDir(m, d, name, id) ==
  [m EXCEPT !.dirs = <<DirHandle(id, d, name, 1)>> \o @,
            !.tree = TreeAdd(@, Slot(id, d, name, name, 1))]

IsMade(m, name, id, new) ==
  /\ Good(new) /\ new.calls = <<>> /\ ~ new.err /\ new.fault = FALSE /\ IsIn(new.dirs, m.at)
  /\ Name("dir", name, id, 1) \in Shown(new)[m.at]
  /\ \A i \in 1 .. TreeMax : new.tree[i].id = m.tree[i].id

LEMMA DirMade ==
  ASSUME NEW m, NEW name, NEW id, Asked(m, name, id), id # Null
  PROVE  IsMade(m, name, id, NewDir(m, name, id))
<1>. DEFINE ids == m.used \cup {id} one == <<<<>>>> chains == Rewritten(m.log, id, one)
            n == [m EXCEPT !.used = ids, !.log = chains] d == m.at
            e == Name("dir", name, id, 1) c == Called(n, d, <<e>>) new == Programmed(n, d, <<e>>)
<1>1. /\ Good(m) /\ m.calls = <<>> /\ ~ m.err /\ m.fault = FALSE /\ m.full \subseteq m.used
      /\ IsIn(m.dirs, d) /\ name \in Names /\ id \in Ids /\ id \notin m.used
  BY DEF Asked
<1>2. m \in Memories /\ d \in Ids BY AskedIs
<1>3. ids \in SUBSET Ids /\ m.log \in Chains BY <1>1, <1>2, MemoryTypes
<1>4. e.kind = "dir" /\ e.id = id /\ e.name = name /\ e.tail = 1 BY NameIs
<1>5. e \in Entries BY <1>1, Sizes DEF Name, Entries
<1>6. n = [m EXCEPT !.used = @ \cup {id}, !.log = Rewritten(@, id, <<<<>>>>)] OBVIOUS
<1>6a. one \in Seq(Seq(Entries))
  <2>1. <<>> \in Seq(Entries) OBVIOUS
  <2>. QED BY <2>1, Single
<1>. HIDE DEF one
<1>6b. chains \in Chains BY <1>1, <1>3, <1>6a, RewrittenIs
<1>6c. chains = Rewritten(m.log, id, <<<<>>>>) BY DEF one
<1>. HIDE DEF e, ids, chains
<1>7. /\ n.log = chains /\ n.super = m.super /\ n.used = ids /\ n.tree = m.tree /\ n.dirs = m.dirs
      /\ n.files = m.files /\ n.full = m.full /\ n.calls = <<>> /\ n.at = m.at /\ n.err = m.err
      /\ n.fault = m.fault /\ n \in Memories
  BY <1>1, <1>2, <1>3, <1>6b DEF Memories
<1>. HIDE DEF n, d
<1>9. NewNamed(m, n, d, e)
  BY <1>1, <1>4, <1>5, <1>6c, <1>7 DEF NewNamed, ids
<1>10. /\ Good(c) /\ e \in Shown(c)[d] /\ c.dirs = m.dirs /\ c.tree = m.tree /\ c.fault = m.fault
       /\ e.id \notin c.full
  BY <1>9, NewNamedGood
<1>11. ~ n.err BY <1>1, <1>7
<1>12. Good(new) /\ Kept(c, new) /\ new.calls = <<>> /\ ~ new.err
  BY <1>7, <1>10, <1>11, ProgrammedGood
<1>. HIDE DEF c, new
<1>13. IsIn(new.dirs, d) /\ e \in Shown(new)[d] /\ new.fault = FALSE
  BY <1>1, <1>2, <1>4, <1>10, <1>12 DEF Kept, d
<1>13a. \A i \in 1 .. TreeMax : new.tree[i].id = m.tree[i].id BY <1>10, <1>12 DEF Kept
<1>14. /\ Good(new) /\ new.calls = <<>> /\ ~ new.err /\ new.fault = FALSE /\ IsIn(new.dirs, d)
       /\ e \in Shown(new)[d] /\ \A i \in 1 .. TreeMax : new.tree[i].id = m.tree[i].id
  BY <1>12, <1>13, <1>13a
<1>15. new = NewDir(m, name, id) BY <1>6 DEF new, e, d, NewDir
<1>16. IsMade(m, name, id, new) BY <1>14 DEF e, d, IsMade
<1>. QED BY <1>15, <1>16

(* It gets a slot and a handle.                                             *)
LEMMA DirAddedGood ==
  ASSUME NEW m, Good(m), m.calls = <<>>, NEW d, IsIn(m.dirs, d), NEW name \in Names, NEW id \in Ids,
         ~ InTree(m.tree, id), SlotsOf(m.tree, Null) # {}, Name("dir", name, id, 1) \in Shown(m)[d]
  PROVE  LET r == AddedDir(m, d, name, id) IN
         Good(r) /\ r.calls = <<>> /\ r.fault = m.fault
<1>. DEFINE t == Slot(id, d, name, name, 1) i == FirstOf(SlotsOf(m.tree, Null))
            tr2 == [m.tree EXCEPT ![i] = t] dl2 == <<DirHandle(id, d, name, 1)>> \o m.dirs
            r == [m EXCEPT !.dirs = dl2, !.tree = tr2]
            V == Shown(m) len == Lens(m)
<1>1. m \in Memories /\ Fit(V, len, m.super, m.used, m.tree, m.dirs, m.files) BY GoodParts
<1>2. m.tree \in Trees BY <1>1, MemoryTypes
<1>3. i \in 1 .. TreeMax /\ i \in DOMAIN m.tree /\ m.tree[i].id = Null BY <1>2, SlotIn
<1>4. SlotsOf(m.tree, id) = {} /\ d \in Ids /\ InTree(m.tree, d)
  <2>1. d \in Ids /\ SlotsOf(m.tree, d) # {} BY OpenKnown
  <2>. QED BY <1>2, <2>1, SlotsOfIn
<1>5. /\ t.id = id /\ t.father = d /\ t.name = name /\ t.stored = name /\ t.tail = 1 BY DEF Slot
<1>6. t \in Slots BY <1>4 DEF Slot, Slots
<1>7. TreeAdd(m.tree, t) = tr2 BY <1>4, <1>5 DEF TreeAdd
<1>8. SlotGood(V, m.tree, t) BY <1>4, <1>5 DEF SlotGood
<1>9. id # Null /\ DOMAIN m.tree = 1 .. TreeMax /\ DirsGood(V, len, m.tree, m.dirs) BY <1>1, FitParts
<1>. HIDE DEF V, len, i
<1>10. SlotAdded(V, len, m.super, m.used, m.tree, m.dirs, m.files, i, t, tr2)
  BY <1>1, <1>3, <1>5, <1>6, <1>8, <1>9 DEF SlotAdded
<1>10a. tr2[i] = t /\ i \in DOMAIN tr2 BY <1>3
<1>. HIDE DEF tr2
<1>11. Fit(V, len, m.super, m.used, tr2, m.dirs, m.files) BY <1>10, SlotAddedFit
<1>12. ~ IsIn(m.dirs, id) BY <1>9 DEF DirsGood, HandleGood, IsIn
<1>12a. dl2 = <<DirHandle(t.id, t.father, t.stored, t.tail)>> \o m.dirs BY <1>5
<1>. HIDE DEF t, dl2
<1>13. SlotOpened(V, len, m.super, m.used, tr2, m.dirs, m.files, i, dl2)
  BY <1>5, <1>9, <1>10a, <1>11, <1>12, <1>12a DEF SlotOpened
<1>14. Fit(V, len, m.super, m.used, tr2, dl2, m.files) BY <1>13, SlotOpenedFit
<1>15. tr2 \in Trees /\ dl2 \in Seq(Handles) BY <1>14, FitParts
<1>16. /\ r \in Memories /\ r.log = m.log /\ r.super = m.super /\ r.used = m.used
       /\ r.tree = tr2 /\ r.dirs = dl2 /\ r.files = m.files /\ r.full = m.full
       /\ r.calls = m.calls /\ r.fault = m.fault
  BY <1>1, <1>15 DEF Memories
<1>17. r = AddedDir(m, d, name, id) BY <1>7 DEF t, dl2, AddedDir
<1>. HIDE DEF r
<1>18. Shown(r) = V /\ Lens(r) = len BY <1>16, SameLog DEF V, len
<1>19. Good(r) BY <1>14, <1>16, <1>18, GoodAfter DEF len
<1>. QED BY <1>16, <1>17, <1>19

LEMMA DirOpenedEnds ==
  ASSUME NEW m, NEW name, NEW id, Asked(m, name, id),
         NamedSlots(m.tree, m.at, name) # {} \/ SlotsOf(m.tree, Null) # {}
  PROVE  Ended(DirOpened(m, FatherOf(m), name, id))
<1>. DEFINE d == m.at slots == NamedSlots(m.tree, d, name)
            found == Found(m, d, Len(m.log[d]), "file", name) # {}
            new == NewDir(m, name, id) added == AddedDir(new, d, name, id)
            r == DirOpened(m, FatherOf(m), name, id)
<1>1. /\ Good(m) /\ m.calls = <<>> /\ ~ m.err /\ m.fault = FALSE
      /\ IsIn(m.dirs, d) /\ name \in Names /\ (id = Null \/ (id \in Ids /\ id \notin m.used))
  BY DEF Asked
<1>2. /\ m \in Memories /\ d \in Ids /\ FatherOf(m).id = d /\ FatherOf(m).tail = Len(m.log[d])
      /\ m.tree \in Trees
  BY AskedIs
<1>3. r = IF slots # {} THEN LowOpened(m, m.tree[FirstOf(slots)])
          ELSE IF found THEN Stopped(m)
          ELSE IF id = Null THEN Failed(m)
          ELSE IF new.err THEN new ELSE added
  BY <1>2 DEF DirOpened, NewDir, AddedDir
<1>. HIDE DEF r, found
<1>4. CASE slots # {}
  <2>1. slots \in SUBSET Nat /\ \A i \in slots : i \in DOMAIN m.tree /\ m.tree[i].id # Null
    <3>0. DOMAIN m.tree = 1 .. TreeMax BY <1>2 DEF Trees
    <3>1. DOMAIN m.tree \subseteq Nat BY <3>0, Sizes
    <3>2. \A i \in slots : i \in DOMAIN m.tree /\ m.tree[i].id # Null BY DEF NamedSlots
    <3>. QED BY <3>1, <3>2
  <2>. DEFINE i == FirstOf(slots)
  <2>2. i \in DOMAIN m.tree /\ m.tree[i].id # Null BY <1>4, <2>1, FirstOfIn
  <2>3. r = LowOpened(m, m.tree[i]) BY <1>3, <1>4
  <2>. HIDE DEF i
  <2>4. Good(LowOpened(m, m.tree[i])) /\ OpenedOn(m, LowOpened(m, m.tree[i]))
    BY <1>1, <2>2, LowOpenedGood
  <2>5. Good(r) /\ r.calls = <<>> /\ r.fault = FALSE BY <1>1, <2>3, <2>4 DEF OpenedOn
  <2>. QED BY <2>5 DEF Ended, r
<1>5. CASE slots = {} /\ found
  <2>1. r = Stopped(m) BY <1>3, <1>5
  <2>. QED BY <1>1, <2>1, ErrEnds DEF r
<1>6. CASE slots = {} /\ ~ found /\ id = Null
  <2>1. r = Failed(m) BY <1>3, <1>6
  <2>. QED BY <1>1, <2>1, ErrEnds DEF r
<1>7. CASE slots = {} /\ ~ found /\ id # Null
  <2>1. /\ Good(new) /\ new.calls = <<>> /\ ~ new.err /\ new.fault = FALSE /\ IsIn(new.dirs, d)
        /\ Name("dir", name, id, 1) \in Shown(new)[d]
        /\ \A i \in 1 .. TreeMax : new.tree[i].id = m.tree[i].id
    <3>1. id # Null BY <1>7
    <3>2. IsMade(m, name, id, NewDir(m, name, id)) BY <3>1, DirMade
    <3>. QED BY <3>2 DEF IsMade
  <2>2. r = added BY <1>3, <1>7, <2>1
  <2>3. id \in Ids /\ id \notin m.used BY <1>1, <1>7
  <2>4. ~ InTree(m.tree, id) BY <1>1, <2>3, NoSlotOf
  <2>5. SlotsOf(m.tree, Null) # {} BY <1>7
  <2>. HIDE DEF new
  <2>6. new.tree \in Trees
    <3>1. new \in Memories BY <2>1, GoodParts
    <3>. QED BY <3>1, MemoryTypes
  <2>7. DOMAIN new.tree = 1 .. TreeMax /\ DOMAIN m.tree = 1 .. TreeMax BY <1>2, <2>6 DEF Trees
  <2>8. ~ InTree(new.tree, id) BY <2>1, <2>4, <2>7 DEF InTree
  <2>9. SlotsOf(new.tree, Null) # {} BY <2>1, <2>5, <2>7 DEF SlotsOf
  <2>10. Good(added) /\ added.calls = <<>> /\ added.fault = new.fault
    BY <1>1, <2>1, <2>3, <2>8, <2>9, DirAddedGood
  <2>. QED BY <2>1, <2>2, <2>10 DEF Ended, r
<1>. QED BY <1>4, <1>5, <1>6, <1>7

-----------------------------------------------------------------------------
(* The operations.                                                          *)
LEMMA PathIs ==
  ASSUME NEW path \in Paths
  PROVE  Front(path) \in Seq(Names) /\ Last(path) \in Names
<1>1. PICK n \in 1 .. PathLen : path \in [1 .. n -> Names] BY DEF Paths
<1>2. n \in Nat /\ n \in 1 .. n /\ n - 1 \in Int BY <1>1, Sizes
<1>3. path \in Seq(Names) /\ Len(path) = n BY <1>1, <1>2, FunSeq
<1>4. Last(path) \in Names BY <1>1, <1>2, <1>3 DEF Last
<1>5. \A i \in 1 .. n - 1 : path[i] \in Names
  <2>1. \A i \in 1 .. n - 1 : i \in 1 .. n BY <1>2
  <2>. QED BY <1>1, <2>1
<1>6. SubSeq(path, 1, n - 1) \in Seq(Names) BY <1>2, <1>5, SubSeqProperties
<1>. QED BY <1>3, <1>4, <1>6 DEF Front

LEMMA Resolves ==
  ASSUME Begins = {}, Inv, NEW path \in Paths, NEW full \in SUBSET MayFill
  PROVE  LET m == Resolved(Memory(full), Front(path)) IN
         /\ Ended(m)
         /\ ~ m.err => \A id \in NewIds : Asked(m, Last(path), id)
<1>. DEFINE b == Memory(full) m == Resolved(b, Front(path))
<1>1. /\ Good(b) /\ b.calls = <<>> /\ ~ b.err /\ ~ b.fault /\ b.full \subseteq b.used /\ b.used = used
  BY Begun
<1>2. Front(path) \in Seq(Names) /\ Last(path) \in Names BY PathIs
<1>. HIDE DEF b
<1>3. /\ Good(m) /\ m.calls = <<>>
      /\ ~ m.err => /\ m.full = b.full /\ m.used = b.used /\ m.tree = b.tree /\ m.fault = b.fault
                    /\ IsIn(m.dirs, m.at)
  BY <1>1, <1>2, ResolvedGood
<1>4. b.fault = FALSE
  <2>1. b \in Memories BY <1>1, GoodParts
  <2>. QED BY <1>1, <2>1, MemoryTypes
<1>. HIDE DEF m
<1>5. Ended(m) BY <1>3, ErrEnds
<1>6. ASSUME ~ m.err, NEW id \in NewIds PROVE Asked(m, Last(path), id)
  <2>1. id = Null \/ (id \in Ids /\ id \notin m.used) BY <1>1, <1>3, <1>6 DEF NewIds
  <2>. QED BY <1>1, <1>2, <1>3, <1>4, <1>6, <2>1 DEF Asked
<1>7. Ended(m) /\ (~ m.err => \A id \in NewIds : Asked(m, Last(path), id)) BY <1>5, <1>6
<1>. QED BY <1>7 DEF m, b

LEMMA OpenFileKeeps ==
  ASSUME Begins = {}, Inv, NEW path \in Paths, NEW full \in SUBSET MayFill, OpenFile(path, full)
  PROVE  Inv'
<1>. DEFINE m == Resolved(Memory(full), Front(path))
<1>1. \/ m.err /\ Become(m)
      \/ ~ m.err /\ \E id \in NewIds : Become(FileOpened(m, FatherOf(m), Last(path), id))
  BY DEF OpenFile
<1>2. Ended(m) /\ (~ m.err => \A id \in NewIds : Asked(m, Last(path), id)) BY Resolves
<1>. HIDE DEF m
<1>3. CASE m.err /\ Become(m) BY <1>2, <1>3, Becomes
<1>4. CASE ~ m.err /\ \E id \in NewIds : Become(FileOpened(m, FatherOf(m), Last(path), id))
  <2>1. PICK id \in NewIds : Become(FileOpened(m, FatherOf(m), Last(path), id)) BY <1>4
  <2>2. Ended(FileOpened(m, FatherOf(m), Last(path), id)) BY <1>2, <1>4, FileOpenedEnds
  <2>. QED BY <2>1, <2>2, Becomes
<1>. QED BY <1>1, <1>3, <1>4

LEMMA OpenDirKeeps ==
  ASSUME Begins = {}, RoomInTree, Inv, NEW path \in Paths, NEW full \in SUBSET MayFill,
         OpenDir(path, full)
  PROVE  Inv'
<1>. DEFINE m == Resolved(Memory(full), Front(path))
            room == NamedSlots(m.tree, m.at, Last(path)) # {} \/ SlotsOf(m.tree, Null) # {}
<1>1. \/ m.err /\ Become(m)
      \/ ~ m.err /\ room /\ \E id \in NewIds : Become(DirOpened(m, FatherOf(m), Last(path), id))
  BY DEF OpenDir
<1>2. Ended(m) /\ (~ m.err => \A id \in NewIds : Asked(m, Last(path), id)) BY Resolves
<1>. HIDE DEF m
<1>3. CASE m.err /\ Become(m) BY <1>2, <1>3, Becomes
<1>4. CASE ~ m.err /\ room /\ \E id \in NewIds : Become(DirOpened(m, FatherOf(m), Last(path), id))
  <2>1. PICK id \in NewIds : Become(DirOpened(m, FatherOf(m), Last(path), id)) BY <1>4
  <2>2. Ended(DirOpened(m, FatherOf(m), Last(path), id)) BY <1>2, <1>4, DirOpenedEnds
  <2>. QED BY <2>1, <2>2, Becomes
<1>. QED BY <1>1, <1>3, <1>4

(* What a list of handles is without one of them.                           *)
LEMMA RestIs ==
  ASSUME NEW q \in Seq(Handles), NEW d, \A i, j \in DOMAIN q : q[i].id = q[j].id => i = j
  PROVE  /\ Without(q, d) \in Seq(Handles) /\ Fewer(q, Without(q, d))
         /\ \A k \in DOMAIN Without(q, d) : Without(q, d)[k].id # d
         /\ \A j \in DOMAIN q : q[j].id # d => IsIn(Without(q, d), q[j].id)
<1>. DEFINE r == Without(q, d)
<1>1. r \in Seq(Handles) BY WithoutIs
<1>2. \A k \in DOMAIN r : r[k].id # d BY WithoutIs
<1>3. \A k \in DOMAIN r : \E j \in DOMAIN q : q[j] = r[k] BY WithoutIs
<1>4. \A j \in DOMAIN q : q[j].id # d => \E k \in DOMAIN r : r[k] = q[j] BY WithoutIs
<1>5. \A i, j \in DOMAIN r : r[i].id = r[j].id => i = j BY WithoutIs
<1>. HIDE DEF r
<1>6. Fewer(q, r) BY <1>3, <1>5 DEF Fewer
<1>7. \A j \in DOMAIN q : q[j].id # d => IsIn(r, q[j].id) BY <1>4 DEF IsIn
<1>. QED BY <1>1, <1>2, <1>6, <1>7 DEF r

LEMMA CloseDirKeeps ==
  ASSUME Inv, NEW d \in Ids \ {Root}, NEW full \in SUBSET MayFill, CloseDir(d, full)
  PROVE  Inv'
<1>. DEFINE b == Memory(full) m == Programmed(b, d, <<>>) list == Without(m.dirs, d)
            r == [m EXCEPT !.dirs = list]
<1>1. IsIn(dirs, d) /\ ~ Busy(d) /\ Become(IF m.err THEN m ELSE r) BY DEF CloseDir
<1>2. Good(b) /\ b.calls = <<>> /\ ~ b.err /\ ~ b.fault /\ b.dirs = dirs /\ b.files = files BY Begun
<1>. HIDE DEF b
<1>3. Good(m) /\ Kept(b, m) /\ m.calls = <<>> /\ ~ m.err BY <1>1, <1>2, ProgrammedNothing
<1>. HIDE DEF m
<1>4. m.files = files /\ ~ m.fault BY <1>2, <1>3 DEF Kept
<1>5. m \in Memories /\ Fit(Shown(m), Lens(m), m.super, m.used, m.tree, m.dirs, m.files)
  BY <1>3, GoodParts
<1>6. m.dirs \in Seq(Handles) /\ m.fault \in BOOLEAN BY <1>5, MemoryTypes
<1>7. DirsGood(Shown(m), Lens(m), m.tree, m.dirs) BY <1>5, FitParts
<1>8. /\ list \in Seq(Handles) /\ Fewer(m.dirs, list)
      /\ \A j \in DOMAIN m.dirs : m.dirs[j].id # d => IsIn(list, m.dirs[j].id)
  <2>1. \A i, j \in DOMAIN m.dirs : m.dirs[i].id = m.dirs[j].id => i = j BY <1>7 DEF DirsGood
  <2>. QED BY <1>6, <2>1, RestIs
<1>9. r = [m EXCEPT !.dirs = list] OBVIOUS
<1>. HIDE DEF list
<1>12. HandleGone(Shown(m), Lens(m), m.super, m.used, m.tree, m.dirs, m.files, d, list)
  <2>1. \A k \in DOMAIN m.files : m.files[k].father # d BY <1>1, <1>4 DEF Busy
  <2>. QED BY <1>5, <1>8, <2>1 DEF HandleGone
<1>13. Fit(Shown(m), Lens(m), m.super, m.used, m.tree, list, m.files) BY <1>12, HandleGoneFit
<1>14. /\ r \in Memories /\ r.log = m.log /\ r.super = m.super /\ r.used = m.used
       /\ r.tree = m.tree /\ r.dirs = list /\ r.files = m.files /\ r.full = m.full
       /\ r.calls = m.calls /\ r.fault = m.fault
  BY <1>5, <1>8, <1>9 DEF Memories
<1>15. Become(r) BY <1>1, <1>3
<1>. HIDE DEF r
<1>16. Shown(r) = Shown(m) /\ Lens(r) = Lens(m) BY <1>14, SameLog
<1>17. Good(r) BY <1>3, <1>13, <1>14, <1>16, GoodAfter
<1>18. Ended(r) BY <1>3, <1>6, <1>14, <1>17 DEF Ended
<1>. QED BY <1>15, <1>18, Becomes

(* An open file's directory is open.                                        *)
LEMMA FatherOpen ==
  ASSUME NEW m, Good(m), NEW f, IsIn(m.files, f)
  PROVE  LET k == HandleIn(m.files, f) IN
         /\ k \in DOMAIN m.files /\ m.files[k].id = f /\ IsIn(m.dirs, m.files[k].father)
         /\ m.files[k].father \in Ids
         /\ Name("file", m.files[k].name, f, 0) \in Shown(m)[m.files[k].father]
<1>1. FilesGood(Shown(m), m.dirs, m.files) /\ \A j \in DOMAIN m.files : m.files[j].father \in Ids
  BY GoodParts, FitParts
<1>. QED BY <1>1, HandleInIs DEF FilesGood

LEMMA TailIs ==
  ASSUME NEW q \in Seq(Opened), q # <<>>, \A i, j \in DOMAIN q : q[i].id = q[j].id => i = j
  PROVE  /\ Tail(q) \in Seq(Opened) /\ Fewer(q, Tail(q)) /\ 1 \in DOMAIN q
         /\ \A j \in DOMAIN Tail(q) : Tail(q)[j].id # q[1].id
<1>. DEFINE T == Tail(q)
<1>1. T \in Seq(Opened) /\ Len(T) = Len(q) - 1 /\ \A i \in 1 .. Len(T) : T[i] = q[i + 1]
  BY HeadTailProperties
<1>2. Len(q) \in Nat /\ Len(q) >= 1 /\ DOMAIN q = 1 .. Len(q) OBVIOUS
<1>3. DOMAIN T = 1 .. Len(q) - 1 BY <1>1
<1>. HIDE DEF T
<1>4. \A i \in DOMAIN T : i \in Nat /\ i + 1 \in DOMAIN q /\ i + 1 # 1 /\ T[i] = q[i + 1]
  BY <1>1, <1>2, <1>3
<1>5. 1 \in DOMAIN q BY <1>2
<1>6. ASSUME NEW i \in DOMAIN T, NEW j \in DOMAIN T, T[i].id = T[j].id PROVE i = j
  <2>1. i + 1 = j + 1 BY <1>4, <1>6
  <2>. QED BY <1>4, <2>1
<1>7. Fewer(q, T) BY <1>4, <1>6 DEF Fewer
<1>8. \A j \in DOMAIN T : T[j].id # q[1].id BY <1>4, <1>5
<1>. QED BY <1>1, <1>5, <1>7, <1>8 DEF T

LEMMA FreedEnds ==
  ASSUME NEW m, Good(m), m.calls = <<>>, NEW f, IsIn(m.files, f)
  PROVE  Ended(Freed(m, f))
<1>. DEFINE list == Tail(m.files) r == [m EXCEPT !.files = list]
<1>1. m \in Memories /\ Fit(Shown(m), Lens(m), m.super, m.used, m.tree, m.dirs, m.files)
  BY GoodParts
<1>2. m.files \in Seq(Opened) /\ m.fault \in BOOLEAN BY <1>1, MemoryTypes
<1>3. FilesGood(Shown(m), m.dirs, m.files) BY <1>1, FitParts
<1>4. m.files # <<>>
  <2>1. PICK k \in DOMAIN m.files : m.files[k].id = f BY DEF IsIn
  <2>. QED BY <2>1
<1>5. list \in Seq(Opened) /\ Fewer(m.files, list)
  <2>1. \A i, j \in DOMAIN m.files : m.files[i].id = m.files[j].id => i = j BY <1>3 DEF FilesGood
  <2>. QED BY <1>2, <1>4, <2>1, TailIs
<1>6. Freed(m, f) = IF m.files[1].id = f THEN r ELSE Stopped(m) BY DEF Freed
<1>7. r = [m EXCEPT !.files = list] OBVIOUS
<1>. HIDE DEF list
<1>8. Fit(Shown(m), Lens(m), m.super, m.used, m.tree, m.dirs, list) BY <1>1, <1>5, FilesFewerFit
<1>9. /\ r \in Memories /\ r.log = m.log /\ r.super = m.super /\ r.used = m.used
      /\ r.tree = m.tree /\ r.dirs = m.dirs /\ r.files = list /\ r.full = m.full
      /\ r.calls = m.calls /\ r.fault = m.fault
  BY <1>1, <1>5, <1>7 DEF Memories
<1>. HIDE DEF r
<1>10. Shown(r) = Shown(m) /\ Lens(r) = Lens(m) BY <1>9, SameLog
<1>11. Good(r) BY <1>8, <1>9, <1>10, GoodAfter
<1>12. Ended(r) BY <1>2, <1>9, <1>11 DEF Ended
<1>13. Ended(Stopped(m)) BY ErrEnds
<1>. QED BY <1>6, <1>12, <1>13

LEMMA FlushedGood ==
  ASSUME NEW m, Good(m), m.calls = <<>>, NEW f, IsIn(m.files, f)
  PROVE  LET r == Flushed(m, f) IN Good(r) /\ r.calls = <<>> /\ Kept(m, r)
<1>. DEFINE d == m.files[HandleIn(m.files, f)].father r == Flushed(m, f) p == Programmed(m, d, <<>>)
<1>1. IsIn(m.dirs, d) BY FatherOpen
<1>2. r = IF m.err THEN m ELSE p BY <1>1 DEF Flushed
<1>. HIDE DEF r, d
<1>3. CASE m.err BY <1>2, <1>3, KeptSelf DEF r
<1>4. CASE ~ m.err
  <2>1. Good(p) /\ Kept(m, p) /\ p.calls = <<>> BY <1>1, <1>4, ProgrammedNothing
  <2>2. r = p BY <1>2, <1>4
  <2>. HIDE DEF p
  <2>. QED BY <2>1, <2>2 DEF r
<1>. QED BY <1>3, <1>4

LEMMA CloseFileKeeps ==
  ASSUME Inv, NEW f, NEW full \in SUBSET MayFill, CloseFile(f, full)
  PROVE  Inv'
<1>. DEFINE z == Memory({}) b == Memory(full) m == Flushed(b, f)
<1>1. IsIn(files, f) /\ (Become(Freed(z, f)) \/ Become(IF m.err THEN m ELSE Freed(m, f)))
  BY DEF CloseFile
<1>2. Good(z) /\ z.calls = <<>> /\ z.files = files BY MemoryIs DEF Inv
<1>3. Good(b) /\ b.calls = <<>> /\ b.files = files BY Begun
<1>. HIDE DEF z, b
<1>4. Ended(Freed(z, f)) BY <1>1, <1>2, FreedEnds
<1>5. Good(m) /\ m.calls = <<>> /\ Kept(b, m) BY <1>1, <1>3, FlushedGood
<1>. HIDE DEF m
<1>6. IsIn(m.files, f) BY <1>1, <1>3, <1>5 DEF Kept
<1>7. Ended(Freed(m, f)) /\ Ended(m) BY <1>5, <1>6, FreedEnds, ErrEnds
<1>8. Become(Freed(z, f)) \/ Become(m) \/ Become(Freed(m, f)) BY <1>1
<1>. QED BY <1>4, <1>7, <1>8, Becomes

(* A directory without names is deleted.                                    *)
DirDropped(m, d) ==
  LET h == m.dirs[HandleIn(m.dirs, d)]
  IN  [Erased(m, h.father, d) EXCEPT
         !.log = Rewritten(@, d, <<>>), !.tree = TreeRemove(@, d), !.used = @ \ {d}]

LEMMA DirDroppedIs ==
  ASSUME NEW m, Good(m), m.calls = <<>>, m.full = {}, NEW d \in Ids \ {Root}, IsIn(m.dirs, d),
         InLog(m, d) = {}
  PROVE  LET r == DirDropped(m, d)
             i == FirstOf(SlotsOf(m.tree, d))
         IN  /\ r \in Memories /\ r.super = m.super /\ r.used = m.used \ {d}
             /\ r.tree = [m.tree EXCEPT ![i] = NoSlot] /\ r.dirs = m.dirs /\ r.files = m.files
             /\ r.full = {} /\ r.calls = <<>> /\ r.fault = m.fault
             /\ \A x \in Ids \ {d} : Lens(r)[x] = Lens(m)[x]
             /\ \A x \in Ids : Lens(r)[x] <= ChainMax
             /\ NameGone(Shown(m), Shown(r), d) /\ Shown(m)[d] = {}
<1>. DEFINE k == HandleIn(m.dirs, d) g == m.dirs[k].father i == FirstOf(SlotsOf(m.tree, d))
            tr2 == [m.tree EXCEPT ![i] = NoSlot] a == Erased(m, g, d)
            none == <<>> chains == Rewritten(a.log, d, none) ids == m.used \ {d}
            r == [a EXCEPT !.log = chains, !.tree = tr2, !.used = ids]
            e == Name("dir", m.dirs[k].name, d, m.dirs[k].tail)
<1>1. m \in Memories /\ Fit(Shown(m), Lens(m), m.super, m.used, m.tree, m.dirs, m.files)
  BY GoodParts
<1>1a. LensGood(Lens(m), m.full) BY GoodParts
<1>2. m.tree \in Trees /\ m.used \in SUBSET Ids BY <1>1, MemoryTypes
<1>3. SlotsOf(m.tree, d) # {} /\ i \in DOMAIN m.tree /\ g \in Ids /\ e \in Shown(m)[g] /\ e.id = d
  BY OpenKnown, NameIs
<1>4. NamesGood(Shown(m), Lens(m), m.used) BY <1>1, FitParts
<1>. HIDE DEF g
<1>5. /\ a \in Memories
      /\ a.super = m.super /\ a.used = m.used /\ a.tree = m.tree /\ a.dirs = m.dirs
      /\ a.files = m.files /\ a.full = m.full /\ a.calls = m.calls /\ a.at = m.at
      /\ a.err = m.err /\ a.fault = m.fault
      /\ Lens(a) = Lens(m)
      /\ \A x \in Ids : InLog(a, x) = IF x = g THEN {f \in InLog(m, x) : f.id # d} ELSE InLog(m, x)
  BY <1>1, <1>3, ErasedIs
<1>6. TreeRemove(a.tree, d) = tr2 BY <1>3, <1>5 DEF TreeRemove
<1>7. tr2 \in Trees
  <2>1. NoSlot \in Slots BY DEF NoSlot, Slots
  <2>. QED BY <1>2, <2>1 DEF Trees
<1>8. DirDropped(m, d) = r BY <1>5, <1>6 DEF DirDropped, g
<1>8a. none \in Seq(Seq(Entries)) /\ DOMAIN none = {} /\ Len(none) = 0 OBVIOUS
<1>9. a.log \in Chains BY <1>5, MemoryTypes
<1>. HIDE DEF a, none
<1>. DEFINE old == a.log
<1>9a. chains = Rewritten(old, d, none) /\ old \in Chains BY <1>9
<1>. HIDE DEF old, chains
<1>9b. chains \in Chains
  <2>1. d \in Ids OBVIOUS
  <2>. QED BY <1>8a, <1>9a, <2>1, RewrittenIs
<1>9c. \A x \in Ids : Rewritten(old, d, none)[x] = IF x = d THEN none ELSE old[x]
  BY <1>9a DEF Rewritten, Chains
<1>10. chains \in Chains /\ \A x \in Ids : chains[x] = IF x = d THEN none ELSE a.log[x]
  BY <1>9a, <1>9b, <1>9c DEF old
<1>. HIDE DEF tr2
<1>11. /\ r \in Memories /\ r.log = chains /\ r.super = m.super /\ r.used = ids /\ r.tree = tr2
       /\ r.dirs = m.dirs /\ r.files = m.files /\ r.full = {} /\ r.calls = <<>> /\ r.fault = m.fault
  BY <1>2, <1>5, <1>7, <1>10 DEF Memories
<1>. HIDE DEF r, e, g, i
<1>12. \A x \in Ids : InLog(r, x) = IF x = d THEN {} ELSE InLog(a, x)
  <2>1. InLog(r, d) = {} BY <1>8a, <1>10, <1>11 DEF InLog
  <2>2. \A x \in Ids : x # d => InLog(r, x) = InLog(a, x) BY <1>10, <1>11 DEF InLog
  <2>. QED BY <2>1, <2>2
<1>13. \A x \in Ids : Lens(r)[x] = IF x = d THEN 0 ELSE Lens(m)[x]
  <2>1. \A x \in Ids : Lens(r)[x] = Len(r.log[x]) /\ Lens(a)[x] = Len(a.log[x]) BY DEF Lens
  <2>. QED BY <1>5, <1>8a, <1>10, <1>11, <2>1
<1>14. \A x \in Ids : Shown(m)[x] = InLog(m, x) /\ Shown(r)[x] = InLog(r, x)
  BY <1>11, NothingDue
<1>15. ASSUME NEW x \in Ids PROVE Shown(r)[x] = {f \in Shown(m)[x] : f.id # d}
  <2>1. CASE x = d BY <1>12, <1>14, <2>1
  <2>2. CASE x # d /\ x = g BY <1>5, <1>12, <1>14, <2>2
  <2>3. CASE x # d /\ x # g
    <3>1. \A f \in Shown(m)[x] : f.id # d BY <1>3, <1>4, <2>3 DEF NamesGood, Unique
    <3>. QED BY <1>5, <1>12, <1>14, <2>3, <3>1
  <2>. QED BY <2>1, <2>2, <2>3
<1>16. NameGone(Shown(m), Shown(r), d) /\ Shown(m)[d] = {} BY <1>14, <1>15 DEF NameGone
<1>17. \A x \in Ids : Lens(r)[x] <= ChainMax BY <1>1a, <1>13, Sizes DEF LensGood
<1>18. \A x \in Ids \ {d} : Lens(r)[x] = Lens(m)[x] BY <1>13
<1>. QED BY <1>8, <1>11, <1>16, <1>17, <1>18 DEF tr2, i

LEMMA DeleteDirKeeps ==
  ASSUME EmptyOnly, Inv, NEW d \in Ids \ {Root}, DeleteDir(d)
  PROVE  Inv'
<1>. DEFINE m == Memory({}) gone == DirDropped(m, d) list == Without(gone.dirs, d)
            r == [gone EXCEPT !.dirs = list] i == FirstOf(SlotsOf(m.tree, d))
<1>1. /\ Good(m) /\ m.calls = <<>> /\ m.full = {} /\ m.dirs = dirs /\ m.log = log /\ m.fault = FALSE
  BY MemoryIs DEF Inv
<1>2. IsIn(dirs, d) /\ Traversal(m, d, Len(log[d])) = {} /\ Become(DirDeleted(d)) BY DEF DeleteDir
<1>3. DirDeleted(d) = IF dirs[1].id = d THEN Stopped(gone) ELSE r
  BY <1>1 DEF DirDeleted, DirDropped
<1>. HIDE DEF m
<1>4. m \in Memories /\ Fit(Shown(m), Lens(m), m.super, m.used, m.tree, m.dirs, m.files) BY <1>1, GoodParts
<1>5. InLog(m, d) = {}
  <2>. SUFFICES ASSUME NEW e \in InLog(m, d) PROVE FALSE OBVIOUS
  <2>1. PICK s \in DOMAIN m.log[d] : \E k \in DOMAIN m.log[d][s] : e = m.log[d][s][k]
    BY <1>4, InLogIs
  <2>2. PICK k \in DOMAIN m.log[d][s] : e = m.log[d][s][k] BY <2>1
  <2>3. s \in 1 .. Len(log[d]) BY <1>1, <1>4, MemoryTypes
  <2>4. <<s, k>> \in Traversal(m, d, Len(log[d])) BY <2>2, <2>3 DEF Traversal
  <2>. QED BY <1>2, <2>4
<1>6. /\ gone \in Memories /\ gone.super = m.super /\ gone.used = m.used \ {d}
      /\ gone.tree = [m.tree EXCEPT ![i] = NoSlot] /\ gone.dirs = m.dirs /\ gone.files = m.files
      /\ gone.full = {} /\ gone.calls = <<>> /\ gone.fault = m.fault
      /\ \A x \in Ids \ {d} : Lens(gone)[x] = Lens(m)[x]
      /\ \A x \in Ids : Lens(gone)[x] <= ChainMax
      /\ NameGone(Shown(m), Shown(gone), d) /\ Shown(m)[d] = {}
  BY <1>1, <1>2, <1>5, DirDroppedIs
<1>. HIDE DEF gone
<1>7. CASE dirs[1].id = d
  <2>1. Stopped(gone).fault BY <1>6 DEF Stopped, Memories
  <2>2. Stopped(gone).fault = TRUE BY <1>6 DEF Stopped, Memories
  <2>3. Ended(Stopped(gone)) BY <2>1, <2>2 DEF Ended
  <2>. QED BY <1>2, <1>3, <1>7, <2>3, Becomes
<1>8. CASE dirs[1].id # d
  <2>1. DirsGood(Shown(m), Lens(m), m.tree, m.dirs) BY <1>4, FitParts
  <2>2. m.dirs \in Seq(Handles) BY <1>4, MemoryTypes
  <2>3. /\ list \in Seq(Handles) /\ Fewer(m.dirs, list)
        /\ \A k \in DOMAIN list : list[k].id # d
        /\ \A j \in DOMAIN m.dirs : m.dirs[j].id # d => IsIn(list, m.dirs[j].id)
    <3>1. \A a, b \in DOMAIN m.dirs : m.dirs[a].id = m.dirs[b].id => a = b BY <2>1 DEF DirsGood
    <3>. QED BY <1>6, <2>2, <3>1, RestIs
  <2>4. i \in 1 .. TreeMax /\ m.tree[i].id = d BY <1>1, <1>2, OpenKnown
  <2>5. Shown(gone) \in Views /\ Lens(gone) \in Lengths
    <3>1. Shown(gone) \in Views BY DEF Shown, Views, InLog, Due
    <3>2. \A x \in Ids : Len(gone.log[x]) \in Nat BY <1>6, MemoryTypes
    <3>. QED BY <3>1, <3>2 DEF Lens, Lengths
  <2>. HIDE DEF i, list
  <2>6. DirGone(Shown(m), Lens(m), m.super, m.used, m.tree, m.dirs, m.files, d, i,
                Shown(gone), Lens(gone), gone.tree, list)
    BY <1>4, <1>6, <2>3, <2>4, <2>5 DEF DirGone
  <2>7. Fit(Shown(gone), Lens(gone), m.super, m.used \ {d}, gone.tree, list, m.files)
    BY <2>6, DirGoneFit
  <2>8. r = [gone EXCEPT !.dirs = list] OBVIOUS
  <2>9. /\ r \in Memories /\ r.log = gone.log /\ r.super = m.super /\ r.used = m.used \ {d}
        /\ r.tree = gone.tree /\ r.dirs = list /\ r.files = m.files /\ r.full = {}
        /\ r.calls = <<>> /\ r.fault = FALSE
    BY <1>1, <1>6, <2>3, <2>8 DEF Memories
  <2>10. Become(r) BY <1>2, <1>3, <1>8
  <2>. HIDE DEF r
  <2>11. Shown(r) = Shown(gone) /\ Lens(r) = Lens(gone) BY <1>6, <2>9, SameLog
  <2>12. LensGood(Lens(r), r.full) BY <1>6, <2>9, <2>11 DEF LensGood
  <2>13. CallsGood(r.full, r.dirs, r.calls) BY <2>9 DEF CallsGood
  <2>14. Good(r) BY <2>7, <2>9, <2>11, <2>12, <2>13, GoodFrom
  <2>15. Ended(r) BY <2>9, <2>14 DEF Ended
  <2>. QED BY <2>10, <2>15, Becomes
<1>. QED BY <1>7, <1>8

LEMMA DeleteFileKeeps ==
  ASSUME Inv, NEW f \in Ids, DeleteFile(f)
  PROVE  Inv'
<1>. DEFINE m == Memory({}) k == HandleIn(m.files, f) d == m.files[k].father a == Erased(m, d, f)
            ids == m.used \ {f} gone == [a EXCEPT !.used = ids] list == Tail(m.files)
            r == [gone EXCEPT !.files = list]
            e == Name("file", m.files[k].name, f, 0)
<1>1. /\ Good(m) /\ m.calls = <<>> /\ m.full = {} /\ m.dirs = dirs /\ m.files = files
      /\ m.fault = FALSE
  BY MemoryIs DEF Inv
<1>2. IsIn(m.files, f) /\ Become(FileDeleted(f)) BY <1>1 DEF DeleteFile
<1>3. /\ FileDeleted(f) = IF IsIn(m.dirs, d) THEN Freed([a EXCEPT !.used = @ \ {f}], f)
                          ELSE Failed(a)
  BY <1>1 DEF FileDeleted
<1>. HIDE DEF m
<1>4. /\ k \in DOMAIN m.files /\ m.files[k].id = f /\ IsIn(m.dirs, d) /\ d \in Ids
      /\ e \in Shown(m)[d] /\ e.id = f
  BY <1>1, <1>2, FatherOpen, NameIs
<1>5. m \in Memories /\ Fit(Shown(m), Lens(m), m.super, m.used, m.tree, m.dirs, m.files)
  BY <1>1, GoodParts
<1>6. NamesGood(Shown(m), Lens(m), m.used) /\ FilesGood(Shown(m), m.dirs, m.files) BY <1>5, FitParts
<1>6a. m.used \in SUBSET Ids /\ m.files \in Seq(Opened) BY <1>5, MemoryTypes
<1>. HIDE DEF d
<1>7. /\ a \in Memories
      /\ a.super = m.super /\ a.used = m.used /\ a.tree = m.tree /\ a.dirs = m.dirs
      /\ a.files = m.files /\ a.full = m.full /\ a.calls = m.calls /\ a.at = m.at
      /\ a.err = m.err /\ a.fault = m.fault
      /\ Lens(a) = Lens(m)
      /\ \A x \in Ids : InLog(a, x) = IF x = d THEN {g \in InLog(m, x) : g.id # f} ELSE InLog(m, x)
  BY <1>4, <1>5, ErasedIs
<1>8. Become(Freed(gone, f)) BY <1>2, <1>3, <1>4, <1>7
<1>. HIDE DEF a, k, e
<1>9. /\ gone \in Memories /\ gone.log = a.log /\ gone.super = m.super /\ gone.used = ids
      /\ gone.tree = m.tree /\ gone.dirs = m.dirs /\ gone.files = m.files /\ gone.full = {}
      /\ gone.calls = <<>> /\ gone.fault = FALSE
  BY <1>1, <1>6a, <1>7 DEF Memories
<1>10. Freed(gone, f) = IF m.files[1].id = f THEN r ELSE Stopped(gone) BY <1>9 DEF Freed
<1>. HIDE DEF gone
<1>11. CASE m.files[1].id # f
  <2>1. Stopped(gone).fault BY <1>9 DEF Stopped, Memories
  <2>2. Stopped(gone).fault = TRUE BY <1>9 DEF Stopped, Memories
  <2>3. Ended(Stopped(gone)) BY <2>1, <2>2 DEF Ended
  <2>. QED BY <1>8, <1>10, <1>11, <2>3, Becomes
<1>12. CASE m.files[1].id = f
  <2>1. m.files # <<>> BY <1>4
  <2>2. /\ list \in Seq(Opened) /\ Fewer(m.files, list) /\ 1 \in DOMAIN m.files
        /\ \A j \in DOMAIN list : list[j].id # f
    <3>1. \A i, j \in DOMAIN m.files : m.files[i].id = m.files[j].id => i = j BY <1>6 DEF FilesGood
    <3>. QED BY <1>6a, <1>12, <2>1, <3>1, TailIs
  <2>3. r = [gone EXCEPT !.files = list] OBVIOUS
  <2>. HIDE DEF list, ids
  <2>4. /\ r \in Memories /\ r.log = a.log /\ r.super = m.super /\ r.used = ids
        /\ r.tree = m.tree /\ r.dirs = m.dirs /\ r.files = list /\ r.full = {}
        /\ r.calls = <<>> /\ r.fault = FALSE
    BY <1>9, <2>2, <2>3 DEF Memories
  <2>5. Become(r) BY <1>8, <1>10, <1>12
  <2>. HIDE DEF r
  <2>6. \A x \in Ids : Shown(m)[x] = InLog(m, x) /\ Shown(r)[x] = InLog(r, x)
    BY <1>1, <2>4, NothingDue
  <2>7. \A x \in Ids : InLog(r, x) = InLog(a, x) BY <2>4 DEF InLog
  <2>8. ASSUME NEW x \in Ids PROVE Shown(r)[x] = {g \in Shown(m)[x] : g.id # f}
    <3>1. CASE x = d BY <1>7, <2>6, <2>7, <3>1
    <3>2. CASE x # d
      <4>1. \A g \in Shown(m)[x] : g.id # f BY <1>4, <1>6, <3>2 DEF NamesGood, Unique
      <4>. QED BY <1>7, <2>6, <2>7, <3>2, <4>1
    <3>. QED BY <3>1, <3>2
  <2>9. Lens(r) = Lens(m) BY <1>7, <2>4 DEF Lens
  <2>10. Shown(r) \in Views BY DEF Shown, Views, InLog, Due
  <2>11. NameGone(Shown(m), Shown(r), f) BY <2>8 DEF NameGone
  <2>12. FileGone(Shown(m), Lens(m), m.super, m.used, m.tree, m.dirs, m.files, 1, Shown(r), list)
    BY <1>5, <1>12, <2>2, <2>10, <2>11 DEF FileGone
  <2>13. Fit(Shown(r), Lens(m), m.super, m.used \ {m.files[1].id}, m.tree, m.dirs, list)
    BY <2>12, FileGoneFit
  <2>14. Fit(Shown(r), Lens(r), r.super, r.used, r.tree, r.dirs, r.files)
    BY <1>12, <2>4, <2>9, <2>13 DEF ids
  <2>15. Good(r) BY <1>1, <2>4, <2>9, <2>14, GoodAfter
  <2>16. Ended(r) BY <2>4, <2>15 DEF Ended
  <2>. QED BY <2>5, <2>16, Becomes
<1>. QED BY <1>11, <1>12

LEMMA RemountKeeps ==
  ASSUME Inv, NEW full \in SUBSET MayFill, NEW dirty, Remount(full, dirty)
  PROVE  Inv'
<1>. DEFINE b == Memory(full) flushed == FlushedAll(b, files, dirty)
            stored == StoredAll(flushed, flushed.dirs)
            tr == [i \in 1 .. TreeMax |->
                     IF i = 1 THEN Slot(Root, Null, Null, Null, stored.super) ELSE NoSlot]
            dl == <<DirHandle(Root, Null, Null, stored.super)>>
            none == <<>>
            r == [stored EXCEPT !.tree = tr, !.dirs = dl, !.files = none]
<1>1. Become(IF stored.err THEN stored ELSE r) BY DEF Remount
<1>2. Good(b) /\ b.calls = <<>> /\ b.files = files BY Begun
<1>. HIDE DEF b
<1>3. files \in Seq(Opened)
  <2>1. b \in Memories BY <1>2, GoodParts
  <2>. QED BY <1>2, <2>1, MemoryTypes
<1>4. Good(flushed) /\ flushed.calls = <<>> /\ Kept(b, flushed)
  <2>. DEFINE top == Len(files)
  <2>1. top \in Nat BY <1>3
  <2>2. PICK new : /\ new[0] = b /\ flushed = new[top]
                   /\ \A i \in 1 .. top : new[i] = FlushedOf(new[i - 1], files[i], dirty)
    BY <1>3, FlushedFold
  <2>. DEFINE Part(n) == Good(new[n]) /\ new[n].calls = <<>> /\ Kept(b, new[n])
              T == {n \in Nat : n <= top => Part(n)}
  <2>3. 0 \in T BY <1>2, <2>2, KeptSelf
  <2>4. ASSUME NEW n \in Nat, n \in T PROVE n + 1 \in T
    <3>. HIDE DEF Part
    <3>. SUFFICES ASSUME n + 1 <= top PROVE Part(n + 1) OBVIOUS
    <3>. USE DEF Part
    <3>1. n + 1 \in 1 .. top /\ n <= top /\ (n + 1) - 1 = n BY <2>1
    <3>. DEFINE x == new[n] y == new[n + 1] f == files[n + 1].id
    <3>2. Good(x) /\ x.calls = <<>> /\ Kept(b, x) BY <2>4, <3>1
    <3>3. y = FlushedOf(x, files[n + 1], dirty) BY <2>2, <3>1
    <3>4. n + 1 \in DOMAIN files BY <1>3, <3>1
    <3>5. IsIn(x.files, f) BY <1>2, <3>2, <3>4 DEF Kept, IsIn
    <3>6. y = x \/ y = Flushed(x, f) BY <3>3 DEF FlushedOf
    <3>. HIDE DEF x, y, f
    <3>7. CASE y = x BY <3>2, <3>7 DEF y
    <3>8. CASE y = Flushed(x, f)
      <4>1. Good(Flushed(x, f)) /\ Flushed(x, f).calls = <<>> /\ Kept(x, Flushed(x, f))
        BY <3>2, <3>5, FlushedGood
      <4>2. Good(y) /\ y.calls = <<>> /\ Kept(b, y) BY <3>2, <3>8, <4>1, KeptOn
      <4>. QED BY <4>2 DEF y
    <3>. QED BY <3>6, <3>7, <3>8
  <2>. HIDE DEF T
  <2>5. Nat \subseteq T BY <2>3, <2>4, Induct
  <2>6. top \in T BY <2>1, <2>5
  <2>7. Part(top)
    <3>1. \A n \in T : n <= top => Part(n) BY DEF T
    <3>. HIDE DEF Part
    <3>. QED BY <2>1, <2>6, <3>1
  <2>. QED BY <2>2, <2>7
<1>. HIDE DEF flushed
<1>5. Good(stored) /\ stored.calls = <<>>
  <2>. DEFINE q == flushed.dirs top == Len(q)
  <2>0. q \in Seq(Handles)
    <3>1. flushed \in Memories BY <1>4, GoodParts
    <3>. QED BY <3>1, MemoryTypes
  <2>1. top \in Nat BY <2>0
  <2>2. PICK new : /\ new[0] = flushed /\ stored = new[top]
                   /\ \A i \in 1 .. top : new[i] = StoredOf(new[i - 1], q[i])
    BY <2>0, StoredFold
  <2>. DEFINE Part(n) == Good(new[n]) /\ new[n].calls = <<>> /\ Kept(flushed, new[n])
              T == {n \in Nat : n <= top => Part(n)}
  <2>3. 0 \in T BY <1>4, <2>2, KeptSelf
  <2>4. ASSUME NEW n \in Nat, n \in T PROVE n + 1 \in T
    <3>. HIDE DEF Part
    <3>. SUFFICES ASSUME n + 1 <= top PROVE Part(n + 1) OBVIOUS
    <3>. USE DEF Part
    <3>1. n + 1 \in 1 .. top /\ n <= top /\ (n + 1) - 1 = n BY <2>1
    <3>. DEFINE x == new[n] y == new[n + 1] d == q[n + 1].id p == Programmed(x, d, <<>>)
    <3>2. Good(x) /\ x.calls = <<>> /\ Kept(flushed, x) BY <2>4, <3>1
    <3>3. y = StoredOf(x, q[n + 1]) BY <2>2, <3>1
    <3>4. n + 1 \in DOMAIN q BY <2>0, <3>1
    <3>5. IsIn(x.dirs, d) BY <3>2, <3>4 DEF Kept, IsIn
    <3>6. y = IF x.err THEN x ELSE p BY <3>3 DEF StoredOf
    <3>. HIDE DEF x, y, d
    <3>7. CASE x.err BY <3>2, <3>6, <3>7 DEF y
    <3>8. CASE ~ x.err
      <4>1. Good(p) /\ p.calls = <<>> /\ Kept(x, p) BY <3>2, <3>5, <3>8, ProgrammedNothing
      <4>2. y = p BY <3>6, <3>8
      <4>. HIDE DEF p
      <4>3. Good(y) /\ y.calls = <<>> /\ Kept(flushed, y) BY <3>2, <4>1, <4>2, KeptOn
      <4>. QED BY <4>3 DEF y
    <3>. QED BY <3>7, <3>8
  <2>. HIDE DEF T
  <2>5. Nat \subseteq T BY <2>3, <2>4, Induct
  <2>6. top \in T BY <2>1, <2>5
  <2>7. Part(top)
    <3>1. \A n \in T : n <= top => Part(n) BY DEF T
    <3>. HIDE DEF Part
    <3>. QED BY <2>1, <2>6, <3>1
  <2>. QED BY <2>2, <2>7
<1>. HIDE DEF stored
<1>6. /\ stored \in Memories
      /\ Fit(Shown(stored), Lens(stored), stored.super, stored.used, stored.tree, stored.dirs,
             stored.files)
  BY <1>5, GoodParts
<1>7. Fit(Shown(stored), Lens(stored), stored.super, stored.used, tr, dl, none) BY <1>6, MountedFit
<1>8. r = [stored EXCEPT !.tree = tr, !.dirs = dl, !.files = none] OBVIOUS
<1>. HIDE DEF tr, dl, none
<1>9. tr \in Trees /\ dl \in Seq(Handles) /\ none \in Seq(Opened) BY <1>7, FitParts
<1>10. /\ r \in Memories /\ r.log = stored.log /\ r.super = stored.super /\ r.used = stored.used
       /\ r.tree = tr /\ r.dirs = dl /\ r.files = none /\ r.full = stored.full
       /\ r.calls = stored.calls /\ r.fault = stored.fault
  BY <1>6, <1>8, <1>9 DEF Memories
<1>. HIDE DEF r
<1>11. Shown(r) = Shown(stored) /\ Lens(r) = Lens(stored) BY <1>10, SameLog
<1>12. Good(r) BY <1>5, <1>7, <1>10, <1>11, GoodAfter
<1>13. Ended(r) /\ Ended(stored) BY <1>5, <1>10, <1>12, ErrEnds
<1>. QED BY <1>1, <1>13, Becomes

-----------------------------------------------------------------------------
(* The invariant.                                                           *)
LEMMA InvInit ==
  ASSUME Init
  PROVE  Inv
<1>. DEFINE m == Memory({}) one == <<<<>>>> none == <<>> h == DirHandle(Root, Null, Null, 1)
            t == Slot(Root, Null, Null, Null, 1) dl == <<h>>
            chains == [d \in Ids |-> IF d = Root THEN one ELSE none]
            tr == [i \in 1 .. TreeMax |-> IF i = 1 THEN t ELSE NoSlot]
<1>1. /\ log = chains /\ super = 1 /\ used = {Root} /\ tree = tr /\ dirs = dl /\ files = none
      /\ fault = FALSE
  BY DEF Init
<1>2. m = [log |-> log, super |-> super, used |-> used, tree |-> tree, dirs |-> dirs,
           files |-> files, full |-> {}, calls |-> none, at |-> Root, err |-> FALSE, fault |-> FALSE]
  BY DEF Memory
<1>3. Root \in Ids /\ Null \notin Ids BY IdsAssumption
<1>4. /\ one \in Seq(Seq(Entries)) /\ none \in Seq(Seq(Entries)) /\ none \in Seq(Opened)
      /\ none \in Seq(Calls) /\ Len(one) = 1 /\ Len(none) = 0 /\ DOMAIN one = {1} /\ one[1] = none
      /\ DOMAIN none = {}
  <2>1. none \in Seq(Entries) OBVIOUS
  <2>2. one \in Seq(Seq(Entries)) /\ Len(one) = 1 /\ DOMAIN one = {1} /\ one[1] = none
    BY <2>1, Single
  <2>. QED BY <2>2
<1>5. /\ h \in Handles /\ h.id = Root /\ h.tail = 1
      /\ t \in Slots /\ t.id = Root /\ t.father = Null /\ t.tail = 1
      /\ NoSlot \in Slots /\ NoSlot.id = Null
  BY <1>3 DEF DirHandle, Slot, NoSlot, Handles, Slots
<1>. HIDE DEF h, t, one, none
<1>6. dl \in Seq(Handles) /\ DOMAIN dl = {1} /\ dl[1] = h BY <1>5, Single
<1>7. /\ tr \in Trees /\ DOMAIN tr = 1 .. TreeMax /\ 1 \in 1 .. TreeMax /\ tr[1] = t
      /\ \A i \in 1 .. TreeMax : i # 1 => tr[i] = NoSlot
  BY <1>5, Sizes DEF Trees
<1>8. chains \in Chains /\ \A d \in Ids : chains[d] = IF d = Root THEN one ELSE none
  BY <1>4 DEF Chains
<1>. HIDE DEF dl, tr, chains
<1>9. /\ m \in Memories /\ m.log = chains /\ m.super = 1 /\ m.used = {Root} /\ m.tree = tr
      /\ m.dirs = dl /\ m.files = none /\ m.full = {} /\ m.calls = none
  <2>1. /\ m.log = chains /\ m.super = 1 /\ m.used = {Root} /\ m.tree = tr
        /\ m.dirs = dl /\ m.files = none /\ m.full = {} /\ m.calls = none
    BY <1>1, <1>2
  <2>2. {Root} \in SUBSET Ids /\ {} \in SUBSET Ids /\ 1 \in Nat BY <1>3
  <2>3. m = [log |-> chains, super |-> 1, used |-> {Root}, tree |-> tr, dirs |-> dl, files |-> none,
             full |-> {}, calls |-> none, at |-> Root, err |-> FALSE, fault |-> FALSE]
    BY <1>1, <1>2
  <2>. HIDE DEF m
  <2>4. m \in Memories BY <1>3, <1>4, <1>6, <1>7, <1>8, <2>2, <2>3 DEF Memories
  <2>. QED BY <2>1, <2>4 DEF m
<1>. HIDE DEF m
<1>10. \A d \in Ids : Shown(m)[d] = {}
  <2>1. \A d \in Ids : InLog(m, d) = {} BY <1>4, <1>8, <1>9 DEF InLog
  <2>2. \A d \in Ids : Due(m, d) = {} BY <1>4, <1>9 DEF Due
  <2>. QED BY <2>1, <2>2, ShownIs
<1>11. Lens(m)[Root] = 1 /\ \A d \in Ids : Lens(m)[d] <= 1 /\ Lens(m)[d] \in Nat
  <2>1. \A d \in Ids : Lens(m)[d] = Len(chains[d]) BY <1>9, ShownIs
  <2>2. ASSUME NEW d \in Ids PROVE Lens(m)[d] <= 1 /\ Lens(m)[d] \in Nat /\ (d = Root => Lens(m)[d] = 1)
    <3>1. CASE d = Root
      <4>1. Lens(m)[d] = 1 BY <1>4, <1>8, <2>1, <3>1
      <4>. QED BY <4>1
    <3>2. CASE d # Root
      <4>1. Lens(m)[d] = 0 BY <1>4, <1>8, <2>1, <3>2
      <4>. QED BY <3>2, <4>1
    <3>. QED BY <3>1, <3>2
  <2>. QED BY <1>3, <2>2
<1>12. Shown(m) \in Views BY DEF Shown, Views, InLog, Due
<1>13. Lens(m) \in Lengths BY <1>11 DEF Lengths, Lens
<1>14. NamesGood(Shown(m), Lens(m), m.used)
  BY <1>9, <1>10 DEF NamesGood, Unique, Exact, OneFile, TailsTold, OnlyDirs
<1>15. InTree(tr, Root) BY <1>5, <1>7 DEF InTree
<1>16. TreeGood(Shown(m), Lens(m), m.super, m.tree) BY <1>5, <1>7, <1>9, <1>11 DEF TreeGood
<1>17. DirsGood(Shown(m), Lens(m), m.tree, m.dirs)
  <2>1. HandleGood(Shown(m), Lens(m), tr, h) BY <1>5, <1>11, <1>15 DEF HandleGood
  <2>. QED BY <1>5, <1>6, <1>9, <2>1 DEF DirsGood, IsIn
<1>18. FilesGood(Shown(m), m.dirs, m.files) BY <1>4, <1>9 DEF FilesGood
<1>19. Fit(Shown(m), Lens(m), m.super, m.used, m.tree, m.dirs, m.files)
  BY <1>3, <1>4, <1>6, <1>7, <1>9, <1>12, <1>13, <1>14, <1>16, <1>17, <1>18 DEF Fit, Sound
<1>20. LensGood(Lens(m), m.full)
  <2>1. \A d \in Ids : Lens(m)[d] <= ChainMax BY <1>11, Sizes
  <2>. QED BY <1>9, <2>1 DEF LensGood
<1>21. CallsGood(m.full, m.dirs, m.calls) BY <1>4, <1>9 DEF CallsGood
<1>22. Good(m) BY <1>9, <1>19, <1>20, <1>21, GoodFrom
<1>. QED BY <1>1, <1>22 DEF Inv, m

LEMMA InvNext ==
  ASSUME Begins = {}, EmptyOnly, RoomInTree, Inv, [Next]_vars
  PROVE  Inv'
<1>1. CASE UNCHANGED vars BY <1>1 DEF vars, Inv, Memory, Good, Shown, Lens, InLog, Due
<1>2. CASE Next
  <2>1. PICK full \in SUBSET MayFill :
          \/ \E path \in Paths : OpenFile(path, full) \/ OpenDir(path, full)
          \/ \E id \in Ids \ {Root} : CloseDir(id, full) \/ CloseFile(id, full)
          \/ \E id \in Ids \ {Root} : DeleteDir(id) \/ DeleteFile(id)
          \/ \E dirty \in SUBSET {files[k].id : k \in DOMAIN files} : Remount(full, dirty)
    BY <1>2 DEF Next
  <2>2. CASE \E path \in Paths : OpenFile(path, full) BY <2>2, OpenFileKeeps
  <2>3. CASE \E path \in Paths : OpenDir(path, full) BY <2>3, OpenDirKeeps
  <2>4. CASE \E id \in Ids \ {Root} : CloseDir(id, full) BY <2>4, CloseDirKeeps
  <2>5. CASE \E id \in Ids \ {Root} : CloseFile(id, full) BY <2>5, CloseFileKeeps
  <2>6. CASE \E id \in Ids \ {Root} : DeleteDir(id) BY <2>6, DeleteDirKeeps
  <2>7. CASE \E id \in Ids \ {Root} : DeleteFile(id) BY <2>7, DeleteFileKeeps
  <2>8. CASE \E dirty \in SUBSET {files[k].id : k \in DOMAIN files} : Remount(full, dirty)
    BY <2>8, RemountKeeps
  <2>. QED BY <2>1, <2>2, <2>3, <2>4, <2>5, <2>6, <2>7, <2>8
<1>. QED BY <1>1, <1>2

LEMMA InvAlways ==
  ASSUME Begins = {}, EmptyOnly, RoomInTree
  PROVE  Spec => []Inv
<1>1. Init => Inv BY InvInit
<1>2. Inv /\ [Next]_vars => Inv' BY InvNext
<1>. QED BY <1>1, <1>2, PTL DEF Spec

(* What the names of a directory are.                                       *)
LEMMA NamesInIs ==
  ASSUME Inv, NEW d \in Ids
  PROVE  NamesIn(d) = Shown(Memory({}))[d] /\ NamesIn(d) \subseteq Entries
<1>. DEFINE m == Memory({})
<1>1. Good(m) /\ m.log = log /\ m.calls = <<>> BY MemoryIs DEF Inv
<1>. HIDE DEF m
<1>2. m \in Memories BY <1>1, GoodParts
<1>3. Shown(m)[d] = InLog(m, d) /\ InLog(m, d) \subseteq Entries BY <1>1, NothingDue, ShownIs
<1>4. ASSUME NEW e \in NamesIn(d) PROVE e \in InLog(m, d)
  <2>1. PICK s \in DOMAIN log[d] : e \in ToSet(log[d][s]) BY DEF NamesIn
  <2>2. PICK k \in DOMAIN log[d][s] : e = log[d][s][k] BY <2>1 DEF ToSet
  <2>. QED BY <1>1, <1>2, <2>2, InLogIs
<1>5. ASSUME NEW e \in InLog(m, d) PROVE e \in NamesIn(d)
  <2>1. PICK s \in DOMAIN log[d] : \E k \in DOMAIN log[d][s] : e = log[d][s][k]
    BY <1>1, <1>2, InLogIs
  <2>2. e \in ToSet(log[d][s]) BY <2>1 DEF ToSet
  <2>. QED BY <2>2 DEF NamesIn
<1>. QED BY <1>3, <1>4, <1>5 DEF m

(* The invariant, on the variables.                                         *)
LEMMA InvIs ==
  ASSUME Inv
  PROVE  LET V == [d \in Ids |-> NamesIn(d)]
             len == [d \in Ids |-> Len(log[d])]
         IN  /\ Fit(V, len, super, used, tree, dirs, files)
             /\ \A d \in Ids : len[d] <= ChainMax
<1>. DEFINE m == Memory({}) V == [d \in Ids |-> NamesIn(d)] len == [d \in Ids |-> Len(log[d])]
<1>1. /\ Good(m) /\ m.log = log /\ m.super = super /\ m.used = used /\ m.tree = tree
      /\ m.dirs = dirs /\ m.files = files
  BY MemoryIs DEF Inv
<1>2. \A d \in Ids : NamesIn(d) = Shown(m)[d] BY NamesInIs
<1>. HIDE DEF m
<1>3. Fit(Shown(m), Lens(m), m.super, m.used, m.tree, m.dirs, m.files) /\ LensGood(Lens(m), m.full)
  BY <1>1, GoodParts
<1>4. V = Shown(m)
  <2>1. Shown(m) = [d \in Ids |-> Shown(m)[d]] BY DEF Shown
  <2>. QED BY <1>2, <2>1
<1>5. len = Lens(m) BY <1>1 DEF Lens
<1>. QED BY <1>1, <1>3, <1>4, <1>5 DEF LensGood

LEMMA AtMostOne ==
  ASSUME NEW S, \A a, b \in S : a = b
  PROVE  Cardinality(S) <= 1
<1>1. CASE S = {} BY <1>1, FS_EmptySet
<1>2. CASE S # {}
  <2>1. PICK x \in S : TRUE BY <1>2
  <2>2. S = {x} BY <2>1
  <2>3. Cardinality({x}) = 1 BY FS_Singleton
  <2>. QED BY <2>2, <2>3
<1>. QED BY <1>1, <1>2

LEMMA InvTypes ==
  ASSUME Inv
  PROVE  TypeOK
<1>. DEFINE V == [d \in Ids |-> NamesIn(d)] len == [d \in Ids |-> Len(log[d])]
<1>1. Fit(V, len, super, used, tree, dirs, files) /\ \A d \in Ids : len[d] <= ChainMax BY InvIs
<1>1a. \A d \in Ids : len[d] = Len(log[d]) OBVIOUS
<1>. HIDE DEF V, len
<1>2. /\ super \in Nat /\ used \in SUBSET Ids /\ tree \in Trees /\ NamesGood(V, len, used)
      /\ TreeGood(V, len, super, tree) /\ DirsGood(V, len, tree, dirs) /\ Root \in Ids /\ Null \notin Ids
  BY <1>1, FitParts
<1>3. \A d \in Ids : Len(log[d]) <= ChainMax BY <1>1, <1>1a
<1>4. ASSUME NEW d \in Ids, NEW e \in NamesIn(d)
      PROVE  e.kind \in {"dir", "file"} /\ e.name \in Names /\ e.id \in Ids /\ e.tail \in 0 .. ChainMax
  <2>1. e \in Entries BY NamesInIs
  <2>. QED BY <2>1 DEF Entries
<1>5. super \in 1 .. ChainMax
  <2>1. super = len[Root] /\ super >= 1 BY <1>2 DEF TreeGood
  <2>2. super <= ChainMax BY <1>1, <1>2, <2>1
  <2>. QED BY <1>2, <2>1, <2>2, Sizes
<1>6. Root \in used BY <1>2 DEF NamesGood, Exact
<1>7. Len(tree) = TreeMax /\ tree[1].id = Root
  <2>1. TreeMax \in Nat /\ tree \in [1 .. TreeMax -> Slots] BY <1>2, Sizes DEF Trees
  <2>. QED BY <1>2, <2>1, FunSeq DEF TreeGood
<1>8. ASSUME NEW id \in Ids PROVE Cardinality(SlotsOf(tree, id)) <= 1
  <2>1. \A i, j \in SlotsOf(tree, id) : i = j BY <1>2 DEF SlotsOf, TreeGood
  <2>. QED BY <2>1, AtMostOne
<1>9. IsIn(dirs, Root) BY <1>2 DEF DirsGood
<1>10. fault \in BOOLEAN BY DEF Inv
<1>11. used \subseteq Ids BY <1>2
<1>. QED BY <1>3, <1>4, <1>5, <1>6, <1>7, <1>8, <1>9, <1>10, <1>11 DEF TypeOK

LEMMA InvTails ==
  ASSUME Inv
  PROVE  TailsAgree
<1>. DEFINE V == [d \in Ids |-> NamesIn(d)] len == [d \in Ids |-> Len(log[d])]
<1>1. Fit(V, len, super, used, tree, dirs, files) BY InvIs
<1>2. (\A d \in Ids : V[d] = NamesIn(d)) /\ \A d \in Ids : len[d] = Len(log[d]) OBVIOUS
<1>. HIDE DEF V, len
<1>3. /\ NamesGood(V, len, used) /\ TreeGood(V, len, super, tree) /\ DirsGood(V, len, tree, dirs)
      /\ DOMAIN tree = 1 .. TreeMax /\ Root \in Ids
      /\ \A j \in DOMAIN dirs : dirs[j].id \in Ids
  BY <1>1, FitParts
<1>4. super = Len(log[Root]) /\ tree[1].tail = super BY <1>2, <1>3 DEF TreeGood
<1>5. ASSUME NEW d \in Ids, NEW e \in NamesIn(d), e.kind = "dir" PROVE e.tail = Len(log[e.id])
  <2>1. e.id \in Ids
    <3>1. e \in Entries BY NamesInIs
    <3>. QED BY <3>1 DEF Entries
  <2>2. e.tail = len[e.id] BY <1>2, <1>3, <1>5 DEF NamesGood, TailsTold
  <2>. QED BY <1>2, <2>1, <2>2
<1>6. ASSUME NEW i \in 2 .. TreeMax, tree[i].id # Null
      PROVE  Name("dir", tree[i].stored, tree[i].id, tree[i].tail) \in NamesIn(tree[i].father)
  <2>1. i \in DOMAIN tree \ {1} BY <1>3, Sizes
  <2>2. SlotGood(V, tree, tree[i]) BY <1>3, <1>6, <2>1 DEF TreeGood
  <2>. QED BY <1>2, <2>2 DEF SlotGood
<1>7. ASSUME NEW k \in DOMAIN dirs PROVE dirs[k].tail = Len(log[dirs[k].id])
  <2>1. HandleGood(V, len, tree, dirs[k]) BY <1>3 DEF DirsGood
  <2>. QED BY <1>2, <1>3, <2>1 DEF HandleGood
<1>. QED BY <1>4, <1>5, <1>6, <1>7 DEF TailsAgree

LEMMA InvIds ==
  ASSUME Inv
  PROVE  IdsExact
<1>. DEFINE V == [d \in Ids |-> NamesIn(d)] len == [d \in Ids |-> Len(log[d])]
            named == UNION {{e.id : e \in NamesIn(d)} : d \in Ids}
<1>1. Fit(V, len, super, used, tree, dirs, files) BY InvIs
<1>2. \A d \in Ids : V[d] = NamesIn(d) OBVIOUS
<1>. HIDE DEF V, len
<1>3. NamesGood(V, len, used) BY <1>1, FitParts
<1>4. \A id : id \in named <=> \E d \in Ids : \E e \in NamesIn(d) : id = e.id OBVIOUS
<1>5. used = {Root} \cup named
  <2>1. Root \in used /\ (\A d \in Ids : \A e \in NamesIn(d) : e.id \in used)
    BY <1>2, <1>3 DEF NamesGood, Exact
  <2>2. \A id \in used \ {Root} : \E d \in Ids : \E e \in NamesIn(d) : e.id = id
    BY <1>2, <1>3 DEF NamesGood, Exact
  <2>. HIDE DEF named
  <2>. QED BY <1>4, <2>1, <2>2
<1>6. ASSUME NEW id \in Ids
      PROVE  Cardinality(UNION {{<<d, e>> : e \in {x \in NamesIn(d) : x.id = id}} : d \in Ids}) <= 1
  <2>. DEFINE S == UNION {{<<d, e>> : e \in {x \in NamesIn(d) : x.id = id}} : d \in Ids}
  <2>1. \A p \in S : \E d \in Ids : \E e \in NamesIn(d) : p = <<d, e>> /\ e.id = id OBVIOUS
  <2>2. \A d, g \in Ids : \A e \in NamesIn(d) : \A f \in NamesIn(g) : e.id = f.id => d = g /\ e = f
    BY <1>2, <1>3 DEF NamesGood, Unique
  <2>. HIDE DEF S
  <2>3. \A p, q \in S : p = q
    <3>. SUFFICES ASSUME NEW p \in S, NEW q \in S PROVE p = q OBVIOUS
    <3>1. PICK d \in Ids : \E e \in NamesIn(d) : p = <<d, e>> /\ e.id = id BY <2>1
    <3>2. PICK e \in NamesIn(d) : p = <<d, e>> /\ e.id = id BY <3>1
    <3>3. PICK g \in Ids : \E f \in NamesIn(g) : q = <<g, f>> /\ f.id = id BY <2>1
    <3>4. PICK f \in NamesIn(g) : q = <<g, f>> /\ f.id = id BY <3>3
    <3>. QED BY <2>2, <3>2, <3>4
  <2>4. Cardinality(S) <= 1 BY <2>3, AtMostOne
  <2>. QED BY <2>4 DEF S
<1>. QED BY <1>5, <1>6 DEF IdsExact

LEMMA InvFiles ==
  ASSUME Inv
  PROVE  FilesReachable /\ FilesOnce
<1>. DEFINE V == [d \in Ids |-> NamesIn(d)] len == [d \in Ids |-> Len(log[d])]
<1>1. Fit(V, len, super, used, tree, dirs, files) BY InvIs
<1>2. \A d \in Ids : V[d] = NamesIn(d) OBVIOUS
<1>. HIDE DEF V, len
<1>3. /\ NamesGood(V, len, used) /\ FilesGood(V, dirs, files)
      /\ \A j \in DOMAIN files : files[j].father \in Ids
  BY <1>1, FitParts
<1>4. FilesReachable BY <1>2, <1>3 DEF FilesGood, FilesReachable
<1>5. FilesOnce
  <2>1. \A d \in Ids : \A e, g \in NamesIn(d) :
          e.kind = "file" /\ g.kind = "file" /\ e.name = g.name => e = g
    BY <1>2, <1>3 DEF NamesGood, OneFile
  <2>. QED BY <2>1 DEF FilesOnce
<1>. QED BY <1>4, <1>5

-----------------------------------------------------------------------------
(* What holds for any number of names, ids, directories and slots, with any *)
(* directories full at any time: no name begins with another one (Begins),  *)
(* only empty directories are deleted (EmptyOnly), and a directory is       *)
(* created while the tree has room (RoomInTree).                            *)

(* Names, ids and tails stay in their ranges through file_open, dir_open,   *)
(* closing, deleting and a mount; no directory has two slots of the tree,   *)
(* and the root is open.                                                    *)
THEOREM TypeCorrect ==
  ASSUME Begins = {}, EmptyOnly, RoomInTree
  PROVE  Spec => []TypeOK
<1>1. Inv => TypeOK BY InvTypes
<1>. QED BY <1>1, InvAlways, PTL

(* dir_update tells every copy of a tail: whatever sectors dir_prog adds on *)
(* the way to the root, the superblock, the father's log, the tree and the  *)
(* handles have the number of the directory's last sector.                  *)
THEOREM TailsAlwaysAgree ==
  ASSUME Begins = {}, EmptyOnly, RoomInTree
  PROVE  Spec => []TailsAgree
<1>1. Inv => TailsAgree BY InvTails
<1>. QED BY <1>1, InvAlways, PTL

(* id_alloc and id_free, by file_open, dir_open, file_delete and            *)
(* dir_delete: an id in use is one name of one directory, and no other id   *)
(* is named.                                                                *)
THEOREM IdsStayExact ==
  ASSUME Begins = {}, EmptyOnly, RoomInTree
  PROVE  Spec => []IdsExact
<1>1. Inv => IdsExact BY InvIds
<1>. QED BY <1>1, InvAlways, PTL

(* dir_close and dir_delete never leave an open file behind: its directory  *)
(* is open and has its name, so that file_flush and file_delete work.       *)
THEOREM FilesStayReachable ==
  ASSUME Begins = {}, EmptyOnly, RoomInTree
  PROVE  Spec => []FilesReachable
<1>1. Inv => FilesReachable BY InvFiles
<1>. QED BY <1>1, InvAlways, PTL

(* file_open never makes a second file of a name: its lookup sees every     *)
(* sector of the directory, also those that were added on the way.          *)
THEOREM FilesStayOnce ==
  ASSUME Begins = {}, EmptyOnly, RoomInTree
  PROVE  Spec => []FilesOnce
<1>1. Inv => FilesOnce BY InvFiles
<1>. QED BY <1>1, InvAlways, PTL
===============================================================================
