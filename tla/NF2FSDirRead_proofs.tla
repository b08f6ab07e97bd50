--------------------------- MODULE NF2FSDirRead_proofs ---------------------------
(***************************************************************************)
(* Proofs about NF2FSDirRead, for any names, lengths and cache, as long as  *)
(* no subdirectory gets a new sector during a listing.                      *)
(*                                                                         *)
(* Why a listing is exact: a name that stays where it is has been returned  *)
(* once if its place is behind the reader, and never if it is ahead.  The   *)
(* reader passes a place when it returns the name in it, or finds none      *)
(* there; it leaves a sector only behind its last entry; and what is added  *)
(* to the log was not there when the listing began.                         *)
(***************************************************************************)
EXTENDS NF2FSDirRead, TLAPS

(* Name n is entry i of sector s of the log. *)
IsAt(l, n, s, i) == s \in 1 .. Len(l) /\ i \in 1 .. Len(l[s]) /\ l[s][i].name = n

Behind(s, i) == s > pos.sector \/ (s = pos.sector /\ i < Current)

(* A name has one place at most. *)
Unique ==
  \A n \in Names : \A s, i, t, j \in Nat :
    IsAt(log, n, s, i) /\ IsAt(log, n, t, j) => s = t /\ i = j

(* Names of the listing are there, and were returned once the reader is     *)
(* past them.                                                               *)
Listing ==
  \A n \in still :
    /\ \E s, i \in Nat : IsAt(log, n, s, i)
    /\ \A s, i \in Nat : IsAt(log, n, s, i) => got[n] = IF Behind(s, i) THEN 1 ELSE 0

NotBegun == pos.sector = 0 => still = {} /\ got = [n \in Names |-> 0] /\ ~ ended

AllBehind == ended => \A n \in still : \A s, i \in Nat : IsAt(log, n, s, i) => Behind(s, i)

Running == busy => ~ ended

IInv == TypeOK /\ Unique /\ Listing /\ NotBegun /\ AllBehind /\ Running

-----------------------------------------------------------------------------
(* Places in the log. *)

LEMMA LiveIsAt ==
  ASSUME log \in Seq(Seq(Entries)), NEW n
  PROVE  /\ \A p \in Live(n) : /\ p = <<p[1], p[2]>> /\ p[1] \in Nat /\ p[2] \in Nat
                               /\ IsAt(log, n, p[1], p[2])
         /\ \A s, i \in Nat : IsAt(log, n, s, i) => <<s, i>> \in Live(n)
<1>1. DOMAIN log = 1 .. Len(log) /\ \A s \in DOMAIN log : DOMAIN log[s] = 1 .. Len(log[s])
  OBVIOUS
<1>2. ASSUME NEW p \in Live(n)
      PROVE  p = <<p[1], p[2]>> /\ p[1] \in Nat /\ p[2] \in Nat /\ IsAt(log, n, p[1], p[2])
  <2>1. PICK s \in DOMAIN log : p \in {s} \X DOMAIN log[s]
    BY <1>2 DEF Live
  <2>2. p = <<p[1], p[2]>> /\ p[1] = s /\ p[2] \in DOMAIN log[s]
    BY <2>1
  <2>3. log[p[1]][p[2]].name = n
    BY <1>2 DEF Live
  <2> QED BY <1>1, <2>1, <2>2, <2>3 DEF IsAt
<1>3. ASSUME NEW s \in Nat, NEW i \in Nat, IsAt(log, n, s, i)
      PROVE  <<s, i>> \in Live(n)
  <2>1. s \in DOMAIN log /\ <<s, i>> \in {s} \X DOMAIN log[s]
    BY <1>1, <1>3 DEF IsAt
  <2>2. <<s, i>>[1] = s /\ <<s, i>>[2] = i
    OBVIOUS
  <2> QED BY <1>3, <2>1, <2>2 DEF Live, IsAt
<1> QED BY <1>2, <1>3

(* A log with an entry added holds what it did, and the entry at its end. *)
LEMMA AddedAt ==
  ASSUME NEW l \in Seq(Seq(Entries)), l # <<>>, NEW e \in Entries, NEW extended \in BOOLEAN,
         NEW s \in Nat, NEW i \in Nat, NEW n
  PROVE  LET m == Added(l, e, extended)
             t == IF extended THEN Len(l) + 1 ELSE Len(l)
             j == IF extended THEN 1 ELSE Len(l[Len(l)]) + 1
         IN  /\ m \in Seq(Seq(Entries)) /\ m # <<>>
             /\ Len(m) >= Len(l) /\ (s \in 1 .. Len(l) => Len(m[s]) >= Len(l[s]))
             /\ IsAt(m, n, s, i) <=> IsAt(l, n, s, i) \/ (n = e.name /\ s = t /\ i = j)
             /\ ~ IsAt(l, n, t, j)
<1> DEFINE m == Added(l, e, extended)
           t == IF extended THEN Len(l) + 1 ELSE Len(l)
           j == IF extended THEN 1 ELSE Len(l[Len(l)]) + 1
<1>1. Len(l) \in Nat \ {0} /\ \A x \in 1 .. Len(l) : l[x] \in Seq(Entries) /\ Len(l[x]) \in Nat
  OBVIOUS
<1>2. CASE extended
  <2>1. m = Append(l, <<e>>)
    BY <1>2 DEF Added
  <2>2. <<e>> \in Seq(Entries) /\ Len(<<e>>) = 1 /\ <<e>>[1] = e
    OBVIOUS
  <2>3. m \in Seq(Seq(Entries)) /\ Len(m) = Len(l) + 1 /\ m[Len(l) + 1] = <<e>>
        /\ \A x \in 1 .. Len(l) : m[x] = l[x]
    BY <2>1, <2>2
  <2>4. t = Len(l) + 1 /\ j = 1
    BY <1>2
  <2>5. IsAt(m, n, s, i) <=> IsAt(l, n, s, i) \/ (n = e.name /\ s = t /\ i = j)
    <3>1. CASE s = Len(l) + 1
      <4>1. ~ IsAt(l, n, s, i)
        BY <1>1, <3>1 DEF IsAt
      <4>2. IsAt(m, n, s, i) <=> i = 1 /\ n = e.name
        BY <1>1, <2>2, <2>3, <3>1 DEF IsAt
      <4> QED BY <2>4, <3>1, <4>1, <4>2
    <3>2. CASE s # Len(l) + 1
      <4>1. IsAt(m, n, s, i) <=> IsAt(l, n, s, i)
        BY <1>1, <2>3, <3>2, SMTT(30) DEF IsAt
      <4> QED BY <2>4, <3>2, <4>1
    <3> QED BY <3>1, <3>2
  <2>6. ~ IsAt(l, n, t, j)
    BY <1>1, <2>4 DEF IsAt
  <2>7. m # <<>> /\ Len(m) >= Len(l) /\ (s \in 1 .. Len(l) => Len(m[s]) >= Len(l[s]))
    BY <1>1, <2>3
  <2> QED BY <2>3, <2>5, <2>6, <2>7
<1>3. CASE ~ extended
  <2>1. m = [l EXCEPT ![Len(l)] = Append(l[Len(l)], e)]
    BY <1>3 DEF Added
  <2> DEFINE last == Append(l[Len(l)], e)
  <2>2. /\ last \in Seq(Entries) /\ Len(last) = Len(l[Len(l)]) + 1
        /\ last[Len(l[Len(l)]) + 1] = e /\ \A x \in 1 .. Len(l[Len(l)]) : last[x] = l[Len(l)][x]
    BY <1>1
  <2>3. m \in Seq(Seq(Entries)) /\ Len(m) = Len(l) /\ m[Len(l)] = last
        /\ \A x \in 1 .. Len(l) : x # Len(l) => m[x] = l[x]
    BY <1>1, <2>1, <2>2
  <2>4. t = Len(l) /\ j = Len(l[Len(l)]) + 1
    BY <1>3
  <2>5. IsAt(m, n, s, i) <=> IsAt(l, n, s, i) \/ (n = e.name /\ s = t /\ i = j)
    <3>1. CASE s = Len(l)
      <4>1. IsAt(m, n, s, i) <=> i \in 1 .. Len(last) /\ last[i].name = n
        BY <1>1, <2>3, <3>1 DEF IsAt
      <4>2. IsAt(l, n, s, i) <=> i \in 1 .. Len(l[s]) /\ l[s][i].name = n
        BY <1>1, <3>1 DEF IsAt
      <4> QED BY <1>1, <2>2, <2>4, <3>1, <4>1, <4>2
    <3>2. CASE s # Len(l)
      <4>1. IsAt(m, n, s, i) <=> IsAt(l, n, s, i)
        BY <1>1, <2>3, <3>2 DEF IsAt
      <4> QED BY <2>4, <3>2, <4>1
    <3> QED BY <3>1, <3>2
  <2>6. ~ IsAt(l, n, t, j)
    BY <1>1, <2>4 DEF IsAt
  <2>7. m # <<>> /\ Len(m) >= Len(l) /\ (s \in 1 .. Len(l) => Len(m[s]) >= Len(l[s]))
    <3>1. Len(m) = Len(l) /\ Len(l) > 0
      BY <1>1, <2>3
    <3>2. CASE s = Len(l)
      BY <1>1, <2>2, <2>3, <3>1, <3>2
    <3>3. CASE s # Len(l)
      BY <1>1, <2>3, <3>1, <3>3
    <3> QED BY <3>2, <3>3
  <2> QED BY <2>3, <2>5, <2>6, <2>7
<1> QED BY <1>2, <1>3

(* A log with a name deleted holds the others where they were. *)
LEMMA ErasedAt ==
  ASSUME log \in Seq(Seq(Entries)), NEW t \in Nat, NEW j \in Nat, NEW o,
         IsAt(log, o, t, j), NEW s \in Nat, NEW i \in Nat, NEW n \in Names
  PROVE  LET m == Erased(<<t, j>>)
         IN  /\ m \in Seq(Seq(Entries)) /\ Len(m) = Len(log)
             /\ s \in 1 .. Len(log) => Len(m[s]) = Len(log[s])
             /\ IsAt(m, n, s, i) <=> IsAt(log, n, s, i) /\ ~ (s = t /\ i = j)
<1> DEFINE m == Erased(<<t, j>>)
           gone == [log[t][j] EXCEPT !.name = Null]
           sect == [log[t] EXCEPT ![j] = gone]
<1>1. t \in 1 .. Len(log) /\ j \in 1 .. Len(log[t]) /\ log[t] \in Seq(Entries)
      /\ log[t][j] \in Entries
  BY DEF IsAt
<1>2. gone \in Entries /\ gone.name = Null
  BY <1>1 DEF Entries
<1>3. sect \in Seq(Entries) /\ Len(sect) = Len(log[t]) /\ sect[j] = gone
      /\ \A x \in 1 .. Len(log[t]) : x # j => sect[x] = log[t][x]
  BY <1>1, <1>2
<1>4. m = [log EXCEPT ![t] = sect]
  BY <1>1 DEF Erased
<1>5. m \in Seq(Seq(Entries)) /\ Len(m) = Len(log) /\ m[t] = sect
      /\ \A x \in 1 .. Len(log) : x # t => m[x] = log[x]
  <2> HIDE DEF m, sect
  <2> QED BY <1>1, <1>3, <1>4
<1>6. s \in 1 .. Len(log) => Len(m[s]) = Len(log[s])
  BY <1>3, <1>5
<1>7. IsAt(m, n, s, i) <=> IsAt(log, n, s, i) /\ ~ (s = t /\ i = j)
  <2>1. CASE s # t
    BY <1>5, <2>1 DEF IsAt
  <2>2. CASE s = t /\ i # j
    BY <1>3, <1>5, <2>2 DEF IsAt
  <2>3. CASE s = t /\ i = j
    <3>1. m[s][i] = gone
      BY <1>3, <1>5, <2>3
    <3>2. ~ IsAt(m, n, s, i)
      BY <1>2, <3>1, NamesAssumption DEF IsAt
    <3> QED BY <2>3, <3>2
  <2> QED BY <2>1, <2>2, <2>3
<1> QED BY <1>5, <1>6, <1>7

-----------------------------------------------------------------------------
(* The steps.                                                               *)

(* A change to the log between two calls that leaves the names of the       *)
(* listing where they are, or takes them off the listing.                   *)
LEMMA LogChanges ==
  ASSUME IInv, UNCHANGED <<pos, busy, ended, got>>, still' \subseteq still,
         log' \in Seq(Seq(Entries)), Len(log') >= Len(log),
         \A s \in 1 .. Len(log) : Len(log'[s]) >= Len(log[s]),
         \A n \in still' : \A s, i \in Nat : IsAt(log', n, s, i) <=> IsAt(log, n, s, i),
         Unique'
  PROVE  IInv'
<1>1. TypeOK'
  BY SMTT(30) DEF IInv, TypeOK
<1>2. \A s, i \in Nat : Behind(s, i)' <=> Behind(s, i)
  BY DEF Behind, Current
<1>3. Listing'
  BY <1>2 DEF IInv, Listing
<1>4. NotBegun'
  BY DEF IInv, NotBegun
<1>5. AllBehind' /\ Running'
  BY <1>2 DEF IInv, AllBehind, Running
<1> QED BY <1>1, <1>3, <1>4, <1>5 DEF IInv

(* An entry added keeps all that was there, and its own name is new. *)
LEMMA AdditionChanges ==
  ASSUME IInv, NEW e \in Entries, NEW extended \in BOOLEAN,
         log' = Added(log, e, extended),
         \A s, i \in Nat : e.name \in Names => ~ IsAt(log, e.name, s, i)
  PROVE  /\ log' \in Seq(Seq(Entries)) /\ Len(log') >= Len(log)
         /\ \A s \in 1 .. Len(log) : Len(log'[s]) >= Len(log[s])
         /\ \A n \in Names, s, i \in Nat :
               n # e.name => (IsAt(log', n, s, i) <=> IsAt(log, n, s, i))
         /\ Unique'
<1> DEFINE t == IF extended THEN Len(log) + 1 ELSE Len(log)
           j == IF extended THEN 1 ELSE Len(log[Len(log)]) + 1
<1>1. log \in Seq(Seq(Entries)) /\ log # <<>>
  BY DEF IInv, TypeOK
<1>2. ASSUME NEW s \in Nat, NEW i \in Nat, NEW n
      PROVE  /\ log' \in Seq(Seq(Entries)) /\ Len(log') >= Len(log)
             /\ s \in 1 .. Len(log) => Len(log'[s]) >= Len(log[s])
             /\ IsAt(log', n, s, i) <=> IsAt(log, n, s, i) \/ (n = e.name /\ s = t /\ i = j)
  BY <1>1, AddedAt
<1>3. log' \in Seq(Seq(Entries)) /\ Len(log') >= Len(log)
  BY <1>2
<1>4. ASSUME NEW s \in 1 .. Len(log) PROVE Len(log'[s]) >= Len(log[s])
  <2>1. s \in Nat /\ 0 \in Nat
    OBVIOUS
  <2>2. s \in 1 .. Len(log) => Len(log'[s]) >= Len(log[s])
    BY <1>2, <2>1
  <2> QED BY <2>2
<1>5. \A n \in Names, s, i \in Nat : n # e.name => (IsAt(log', n, s, i) <=> IsAt(log, n, s, i))
  BY <1>2
<1>6. Unique'
  <2> SUFFICES ASSUME NEW n \in Names, NEW s \in Nat, NEW i \in Nat,
                      NEW u \in Nat, NEW k \in Nat, IsAt(log', n, s, i), IsAt(log', n, u, k)
               PROVE  s = u /\ i = k
    BY DEF Unique
  <2>1. CASE n # e.name
    BY <1>5, <2>1 DEF IInv, Unique
  <2>2. CASE n = e.name
    <3>1. s = t /\ i = j /\ u = t /\ k = j
      BY <1>2, <2>2
    <3> QED BY <3>1
  <2> QED BY <2>1, <2>2
<1> QED BY <1>3, <1>4, <1>5, <1>6

LEMMA CreateStep ==
  ASSUME IInv, NEW n \in Names, NEW len \in NameLens, NEW extended \in BOOLEAN,
         Create(n, len, extended)
  PROVE  IInv'
<1> DEFINE e == Entry(n, len)
<1>1. e \in Entries /\ e.name = n
  BY DEF Entry, Entries, Lens
<1>2. \A s, i \in Nat : ~ IsAt(log, n, s, i)
  BY LiveIsAt DEF Create, IInv, TypeOK
<1>3. log' = Added(log, e, extended)
  BY DEF Create
<1>4. n \notin still /\ still' = still /\ still \subseteq Names
  BY <1>2 DEF IInv, Listing, Create, TypeOK
<1>5. /\ log' \in Seq(Seq(Entries)) /\ Len(log') >= Len(log)
      /\ \A s \in 1 .. Len(log) : Len(log'[s]) >= Len(log[s])
      /\ \A m \in Names, s, i \in Nat : m # n => (IsAt(log', m, s, i) <=> IsAt(log, m, s, i))
      /\ Unique'
  <2> HIDE DEF e
  <2> QED BY <1>1, <1>2, <1>3, AdditionChanges
<1>6. \A m \in still' : \A s, i \in Nat : IsAt(log', m, s, i) <=> IsAt(log, m, s, i)
  BY <1>4, <1>5
<1> QED BY <1>4, <1>5, <1>6, LogChanges DEF Create

(* An entry without a name. *)
LEMMA OtherChanges ==
  ASSUME IInv, NEW len \in OtherLens, NEW extended \in BOOLEAN,
         log' = Added(log, Entry(Null, len), extended)
  PROVE  /\ log' \in Seq(Seq(Entries)) /\ Len(log') >= Len(log)
         /\ \A s \in 1 .. Len(log) : Len(log'[s]) >= Len(log[s])
         /\ \A n \in Names, s, i \in Nat : IsAt(log', n, s, i) <=> IsAt(log, n, s, i)
         /\ Unique'
<1> DEFINE e == Entry(Null, len)
<1>1. e \in Entries /\ e.name = Null /\ Null \notin Names
  BY NamesAssumption DEF Entry, Entries, Lens
<1>2. log' = Added(log, e, extended)
  OBVIOUS
<1> HIDE DEF e
<1> QED BY <1>1, <1>2, AdditionChanges

LEMMA SaveStep ==
  ASSUME IInv, NEW len \in OtherLens, NEW extended \in BOOLEAN, Save(len, extended)
  PROVE  IInv'
<1>1. still' \subseteq still /\ still \subseteq Names /\ UNCHANGED <<pos, busy, ended, got>>
  BY DEF Save, IInv, TypeOK
<1>2. log' = Added(log, Entry(Null, len), extended)
  BY DEF Save
<1> QED BY <1>1, <1>2, OtherChanges, LogChanges

LEMMA ReopenStep ==
  ASSUME IInv, NEW len \in OtherLens, NEW extended \in BOOLEAN, Reopen(len, extended)
  PROVE  IInv'
<1>1. log' = Added(log, Entry(Null, len), extended) /\ pos' = Unset /\ ended' = FALSE
      /\ got' = [n \in Names |-> 0] /\ still' = {} /\ busy' = FALSE
  BY DEF Reopen, IInv, TypeOK
<1>2. log' \in Seq(Seq(Entries)) /\ Len(log') >= Len(log) /\ Unique'
  BY <1>1, OtherChanges
<1>3. TypeOK'
  <2>1. log' # <<>> /\ Len(log') \in Nat
    BY <1>2 DEF IInv, TypeOK
  <2>2. pos' = [sector |-> 0, at |-> 0]
    BY <1>1 DEF Unset, Place
  <2>3. pos' \in [sector : 0 .. Len(log'), at : Nat] /\ pos'.sector = 0 /\ pos'.at = 0
    BY <2>1, <2>2
  <2>4. got' \in [Names -> Nat] /\ still' \subseteq Names
    BY <1>1
  <2>5. busy' \in BOOLEAN /\ ended' \in BOOLEAN /\ ~ busy'
    BY <1>1
  <2> QED BY <1>2, <2>1, <2>3, <2>4, <2>5 DEF TypeOK
<1>4. Listing' /\ NotBegun' /\ AllBehind' /\ Running'
  BY <1>1 DEF Listing, NotBegun, AllBehind, Running
<1> QED BY <1>2, <1>3, <1>4 DEF IInv

(* A name deleted at place (t, j). *)
LEMMA ErasureChanges ==
  ASSUME IInv, NEW n \in Names, NEW p \in Live(n)
  PROVE  LET m == Erased(p)
         IN  /\ m \in Seq(Seq(Entries)) /\ Len(m) = Len(log)
             /\ \A s \in 1 .. Len(log) : Len(m[s]) = Len(log[s])
             /\ \A o \in Names, s, i \in Nat :
                  IsAt(m, o, s, i) <=> IsAt(log, o, s, i) /\ o # n
<1> DEFINE m == Erased(p)
<1>1. log \in Seq(Seq(Entries))
  BY DEF IInv, TypeOK
<1>2. p = <<p[1], p[2]>> /\ p[1] \in Nat /\ p[2] \in Nat /\ IsAt(log, n, p[1], p[2])
  BY <1>1, LiveIsAt
<1>3. m = Erased(<<p[1], p[2]>>)
  BY <1>2
<1>4. ASSUME NEW s \in Nat, NEW i \in Nat, NEW o \in Names
      PROVE  /\ m \in Seq(Seq(Entries)) /\ Len(m) = Len(log)
             /\ s \in 1 .. Len(log) => Len(m[s]) = Len(log[s])
             /\ IsAt(m, o, s, i) <=> IsAt(log, o, s, i) /\ ~ (s = p[1] /\ i = p[2])
  <2> HIDE DEF m
  <2> QED BY <1>1, <1>2, <1>3, ErasedAt
<1>5. \A o \in Names, s, i \in Nat : IsAt(m, o, s, i) <=> IsAt(log, o, s, i) /\ o # n
  <2> SUFFICES ASSUME NEW s \in Nat, NEW i \in Nat, NEW o \in Names
               PROVE  IsAt(m, o, s, i) <=> IsAt(log, o, s, i) /\ o # n
    OBVIOUS
  <2>1. CASE o = n
    BY <1>2, <1>4, <2>1 DEF IInv, Unique
  <2>2. CASE o # n
    BY <1>2, <1>4, <2>2, SMTT(30) DEF IsAt
  <2> QED BY <2>1, <2>2
<1>6. n \in Names /\ 0 \in Nat
  OBVIOUS
<1>7. m \in Seq(Seq(Entries)) /\ Len(m) = Len(log)
  BY <1>4, <1>6
<1>8. \A s \in 1 .. Len(log) : Len(m[s]) = Len(log[s])
  BY <1>1, <1>4, <1>6
<1> QED BY <1>5, <1>7, <1>8

LEMMA DeleteStep ==
  ASSUME IInv, NEW n \in Names, Delete(n)
  PROVE  IInv'
<1>1. PICK p \in Live(n) : log' = Erased(p)
  BY DEF Delete
<1>2. /\ log' \in Seq(Seq(Entries)) /\ Len(log') = Len(log)
      /\ \A s \in 1 .. Len(log) : Len(log'[s]) = Len(log[s])
      /\ \A o \in Names, s, i \in Nat : IsAt(log', o, s, i) <=> IsAt(log, o, s, i) /\ o # n
  BY <1>1, ErasureChanges
<1>3. Unique'
  BY <1>2 DEF IInv, Unique
<1>4. still' = still \ {n} /\ still \subseteq Names /\ UNCHANGED <<pos, busy, ended, got>>
  BY DEF Delete, IInv, TypeOK
<1>5. \A o \in still' : \A s, i \in Nat : IsAt(log', o, s, i) <=> IsAt(log, o, s, i)
  BY <1>2, <1>4
<1>6. /\ Len(log') >= Len(log) /\ still' \subseteq still
      /\ \A s \in 1 .. Len(log) : Len(log'[s]) >= Len(log[s])
  BY <1>2, <1>4 DEF IInv, TypeOK
<1> QED BY <1>2, <1>3, <1>4, <1>5, <1>6, LogChanges

(* Before a listing a subdirectory's name may move. *)
LEMMA MoveStep ==
  ASSUME IInv, StillDirs, NEW n \in Names, NEW extended \in BOOLEAN, Move(n, extended)
  PROVE  IInv'
<1>1. PICK p \in Live(n) : log' = Added(Erased(p), Entry(n, log[p[1]][p[2]].len), extended)
  BY DEF Move
<1> DEFINE m == Erased(p)
           e == Entry(n, log[p[1]][p[2]].len)
           t == IF extended THEN Len(m) + 1 ELSE Len(m)
           j == IF extended THEN 1 ELSE Len(m[Len(m)]) + 1
<1>2. /\ m \in Seq(Seq(Entries)) /\ Len(m) = Len(log)
      /\ \A s \in 1 .. Len(log) : Len(m[s]) = Len(log[s])
      /\ \A o \in Names, s, i \in Nat : IsAt(m, o, s, i) <=> IsAt(log, o, s, i) /\ o # n
  BY ErasureChanges
<1>3. e \in Entries /\ e.name = n
  <2>1. log \in Seq(Seq(Entries))
    BY DEF IInv, TypeOK
  <2>2. IsAt(log, n, p[1], p[2])
    BY <2>1, LiveIsAt
  <2>3. log[p[1]][p[2]] \in Entries
    BY <2>1, <2>2 DEF IsAt
  <2> QED BY <2>3 DEF Entry, Entries
<1>4. m # <<>> /\ Len(log) \in Nat
  BY <1>2 DEF IInv, TypeOK
<1>5. ASSUME NEW s \in Nat, NEW i \in Nat, NEW o \in Names
      PROVE  /\ log' \in Seq(Seq(Entries)) /\ log' # <<>>
             /\ IsAt(log', o, s, i) <=> IsAt(m, o, s, i) \/ (o = n /\ s = t /\ i = j)
  <2> HIDE DEF m, e
  <2>1. log' = Added(m, e, extended)
    BY <1>1 DEF m, e
  <2> QED BY <1>2, <1>3, <1>4, <2>1, AddedAt, SMTT(30)
<1>6. log' \in Seq(Seq(Entries)) /\ log' # <<>>
  <2>1. 0 \in Nat /\ n \in Names
    OBVIOUS
  <2> QED BY <1>5, <2>1
<1>7. Unique'
  <2> HIDE DEF m, t, j
  <2> SUFFICES ASSUME NEW o \in Names, NEW s \in Nat, NEW i \in Nat,
                      NEW u \in Nat, NEW k \in Nat, IsAt(log', o, s, i), IsAt(log', o, u, k)
               PROVE  s = u /\ i = k
    BY DEF Unique
  <2>1. CASE o # n
    BY <1>2, <1>5, <2>1 DEF IInv, Unique
  <2>2. CASE o = n
    <3>1. s = t /\ i = j /\ u = t /\ k = j
      BY <1>2, <1>5, <2>2
    <3> QED BY <3>1
  <2> QED BY <2>1, <2>2
<1>8. pos = Unset /\ still = {} /\ got = [o \in Names |-> 0] /\ ~ ended
  BY DEF Move, IInv, NotBegun, Unset, Place
<1>9. UNCHANGED <<pos, busy, ended, got, still>>
  BY DEF Move
<1>10. TypeOK'
  <2>1. pos' = [sector |-> 0, at |-> 0] /\ Len(log') \in Nat
    BY <1>6, <1>8, <1>9 DEF Unset, Place
  <2>2. pos' \in [sector : 0 .. Len(log'), at : Nat]
    BY <2>1
  <2> QED BY <1>6, <1>8, <1>9, <2>1, <2>2 DEF IInv, TypeOK
<1>11. Listing' /\ NotBegun' /\ AllBehind' /\ Running'
  BY <1>8, <1>9 DEF Listing, NotBegun, AllBehind, Running
<1> QED BY <1>7, <1>10, <1>11 DEF IInv

(* The first call: nothing is behind a reader at the head of the tail.      *)
LEMMA CallStep ==
  ASSUME IInv, Call
  PROVE  IInv'
<1>1. log \in Seq(Seq(Entries)) /\ log # <<>> /\ Len(log) \in Nat \ {0}
  BY DEF IInv, TypeOK
<1>2. CASE pos = Unset
  <2>1. pos' = [sector |-> Len(log), at |-> 0] /\ still' = LiveNames
        /\ busy' = TRUE /\ ended' = FALSE /\ log' = log /\ got' = got
    BY <1>2 DEF Call, Place
  <2>2. got = [n \in Names |-> 0]
    BY <1>2 DEF IInv, NotBegun, Unset, Place
  <2>3. TypeOK'
    <3>1. pos' \in [sector : 0 .. Len(log'), at : Nat] /\ pos'.sector = Len(log') /\ pos'.at = 0
      BY <1>1, <2>1
    <3>2. still' \subseteq Names /\ got' \in [Names -> Nat]
      BY <2>1 DEF LiveNames, IInv, TypeOK
    <3>3. log'[Len(log')] \in Seq(Entries) /\ Len(log'[Len(log')]) \in Nat
      BY <1>1, <2>1
    <3>4. log' \in Seq(Seq(Entries)) /\ log' # <<>> /\ Len(log') > 0
      BY <1>1, <2>1
    <3>5. busy' \in BOOLEAN /\ ended' \in BOOLEAN
      BY <2>1
    <3>6. pos'.at <= Len(log'[pos'.sector]) + 1
      BY <3>1, <3>3
    <3> QED BY <3>1, <3>2, <3>4, <3>5, <3>6 DEF TypeOK
  <2>4. Listing'
    <3> SUFFICES ASSUME NEW n \in LiveNames
                 PROVE  /\ \E s, i \in Nat : IsAt(log, n, s, i)
                        /\ \A s, i \in Nat : IsAt(log, n, s, i) =>
                              got[n] = 0 /\ ~ Behind(s, i)'
      BY <2>1 DEF Listing
    <3>1. n \in Names /\ Live(n) # {}
      BY DEF LiveNames
    <3>2. \E s, i \in Nat : IsAt(log, n, s, i)
      BY <1>1, <3>1, LiveIsAt
    <3>3. ASSUME NEW s \in Nat, NEW i \in Nat, IsAt(log, n, s, i) PROVE ~ Behind(s, i)'
      BY <2>1, <3>3 DEF Behind, Current, IsAt
    <3> QED BY <2>2, <3>1, <3>2, <3>3
  <2>5. Unique' /\ NotBegun' /\ AllBehind' /\ Running'
    BY <1>1, <2>1 DEF IInv, Unique, NotBegun, AllBehind, Running
  <2> QED BY <2>3, <2>4, <2>5 DEF IInv
<1>3. CASE pos # Unset
  <2>1. UNCHANGED <<log, pos, still, got>> /\ busy' = TRUE /\ ended' = FALSE
    BY <1>3 DEF Call
  <2>2. pos.sector # 0
    BY <1>3 DEF IInv, TypeOK, Unset, Place
  <2>3. TypeOK'
    BY <2>1, <2>2 DEF IInv, TypeOK
  <2>4. Listing' /\ Unique' /\ NotBegun' /\ AllBehind' /\ Running'
    BY <2>1, <2>2 DEF IInv, Listing, Unique, NotBegun, AllBehind, Running, Behind, Current
  <2> QED BY <2>3, <2>4 DEF IInv
<1> QED BY <1>2, <1>3

(* What a pass of the loop finds: the place of the reader is in the log, or *)
(* one entry behind its last sector's end.                                  *)
LEMMA AtWork ==
  ASSUME IInv, busy
  PROVE  /\ pos = [sector |-> pos.sector, at |-> pos.at] /\ pos.sector \in 1 .. Len(log)
         /\ Current \in Nat \ {0} /\ Current <= Len(log[pos.sector]) + 1
         /\ log \in Seq(Seq(Entries)) /\ log # <<>> /\ Len(log[pos.sector]) \in Nat
         /\ \A s \in Nat : pos.sector # s => s > pos.sector \/ s < pos.sector
<1>1. log \in Seq(Seq(Entries)) /\ log # <<>> /\ pos \in [sector : 0 .. Len(log), at : Nat]
  BY DEF IInv, TypeOK
<1>2. pos.sector \in 1 .. Len(log) /\ pos.at \in Nat /\ pos.at <= Len(log[pos.sector]) + 1
  BY <1>1 DEF IInv, TypeOK
<1>3. Len(log[pos.sector]) \in Nat
  BY <1>1, <1>2
<1> QED BY <1>1, <1>2, <1>3 DEF Current

(* A step that only moves the reader keeps the type.                        *)
LEMMA ReaderMoves ==
  ASSUME IInv, busy, NEW s \in 1 .. Len(log), NEW i \in Nat, i <= Len(log[s]) + 1,
         pos' = Place(s, i), busy' \in BOOLEAN, ended' \in BOOLEAN, got' \in [Names -> Nat],
         UNCHANGED <<log, still>>
  PROVE  TypeOK' /\ Unique' /\ NotBegun'
<1>1. pos' = [sector |-> s, at |-> i] /\ pos'.sector = s /\ pos'.at = i
  BY DEF Place
<1>2. log' = log /\ still' = still /\ log \in Seq(Seq(Entries)) /\ log # <<>>
      /\ still \subseteq Names /\ Len(log) \in Nat
  BY DEF IInv, TypeOK
<1>3. pos' \in [sector : 0 .. Len(log'), at : Nat]
  BY <1>1, <1>2
<1>4. TypeOK'
  BY <1>1, <1>2, <1>3 DEF TypeOK
<1>5. Unique'
  BY <1>2 DEF IInv, Unique
<1>6. NotBegun'
  BY <1>1 DEF NotBegun
<1> QED BY <1>4, <1>5, <1>6

(* If besides no place of a name of the listing is passed, nothing changes. *)
LEMMA NothingPassed ==
  ASSUME IInv, UNCHANGED <<log, still, got>>, ~ ended',
         TypeOK', Unique', NotBegun',
         \A n \in still : \A s, i \in Nat : IsAt(log, n, s, i) => (Behind(s, i)' <=> Behind(s, i))
  PROVE  IInv'
<1>1. Listing'
  BY DEF IInv, Listing
<1>2. AllBehind' /\ Running'
  BY DEF AllBehind, Running
<1> QED BY <1>1, <1>2 DEF IInv

LEMMA NextSectorStep ==
  ASSUME IInv, NextSector
  PROVE  IInv'
<1>1. busy /\ AtEnd /\ pos.sector > 1 /\ pos' = Place(pos.sector - 1, 0)
      /\ UNCHANGED <<log, busy, ended, got, still>> /\ ~ ended
  BY DEF NextSector, Older, IInv, Running
<1>2. pos.sector \in 1 .. Len(log) /\ Current > Len(log[pos.sector])
      /\ Current \in Nat /\ log \in Seq(Seq(Entries)) /\ Len(log) \in Nat
  BY <1>1, AtWork DEF AtEnd
<1>3. pos.sector - 1 \in 1 .. Len(log) /\ 0 <= Len(log[pos.sector - 1]) + 1
  BY <1>1, <1>2
<1>4. TypeOK' /\ Unique' /\ NotBegun'
  BY <1>1, <1>3, ReaderMoves DEF IInv, TypeOK
<1>5. ASSUME NEW n \in still, NEW s \in Nat, NEW i \in Nat, IsAt(log, n, s, i)
      PROVE  Behind(s, i)' <=> Behind(s, i)
  <2>1. pos'.sector = pos.sector - 1 /\ pos'.at = 0 /\ Current' = 1
    BY <1>1 DEF Place, Current
  <2>2. s \in 1 .. Len(log) /\ i \in 1 .. Len(log[s])
    BY <1>5 DEF IsAt
  <2> QED BY <1>2, <2>1, <2>2, SMTT(30) DEF Behind
<1> QED BY <1>1, <1>4, <1>5, NothingPassed

LEMMA NoMoreStep ==
  ASSUME IInv, NoMore
  PROVE  IInv'
<1>1. busy /\ AtEnd /\ pos.sector = 1 /\ pos' = Place(1, Current) /\ busy' = FALSE /\ ended' = TRUE
      /\ UNCHANGED <<log, got, still>>
  BY DEF NoMore
<1>2. pos.sector \in 1 .. Len(log) /\ Current > Len(log[pos.sector]) /\ Current <= Len(log[1]) + 1
      /\ Current \in Nat \ {0} /\ log \in Seq(Seq(Entries)) /\ Len(log) \in Nat
  BY <1>1, AtWork DEF AtEnd
<1>3. TypeOK' /\ Unique' /\ NotBegun'
  BY <1>1, <1>2, ReaderMoves DEF IInv, TypeOK
<1>4. pos'.sector = 1 /\ Current' = Current
  BY <1>1, <1>2 DEF Place, Current
<1>5. ASSUME NEW n \in still, NEW s \in Nat, NEW i \in Nat, IsAt(log, n, s, i)
      PROVE  Behind(s, i)' /\ Behind(s, i)
  <2>1. s \in 1 .. Len(log) /\ i \in 1 .. Len(log[s])
    BY <1>5 DEF IsAt
  <2> QED BY <1>1, <1>2, <1>4, <2>1 DEF Behind
<1>6. Listing' /\ AllBehind' /\ Running'
  BY <1>1, <1>5 DEF IInv, Listing, AllBehind, Running
<1> QED BY <1>3, <1>6 DEF IInv

LEMMA ReadAgainStep ==
  ASSUME IInv, ReadAgain
  PROVE  IInv'
<1>1. busy /\ pos' = Place(pos.sector, Current) /\ UNCHANGED <<log, busy, ended, got, still>>
      /\ ~ ended
  BY DEF ReadAgain, IInv, Running
<1>2. pos.sector \in 1 .. Len(log) /\ Current <= Len(log[pos.sector]) + 1 /\ Current \in Nat \ {0}
  BY <1>1, AtWork
<1>3. TypeOK' /\ Unique' /\ NotBegun'
  BY <1>1, <1>2, ReaderMoves DEF IInv, TypeOK
<1>4. pos'.sector = pos.sector /\ Current' = Current
  BY <1>1, <1>2 DEF Place, Current
<1> QED BY <1>1, <1>3, <1>4, NothingPassed DEF Behind

(* The reader passes one place. *)
LEMMA PlacePassed ==
  ASSUME IInv, busy, ~ AtEnd, pos' = Passed
  PROVE  /\ Current + 1 \in Nat /\ pos.sector \in 1 .. Len(log)
         /\ Current + 1 <= Len(log[pos.sector]) + 1
         /\ IsAt(log, Here.name, pos.sector, Current) /\ Current \in Nat /\ pos.sector \in Nat
         /\ \A s, i \in Nat : s = pos.sector /\ i = Current => ~ Behind(s, i) /\ Behind(s, i)'
         /\ \A s, i \in Nat : s # pos.sector \/ i # Current => (Behind(s, i)' <=> Behind(s, i))
<1>1. pos.sector \in 1 .. Len(log) /\ Current \in Nat \ {0} /\ Current <= Len(log[pos.sector])
      /\ Len(log[pos.sector]) \in Nat
  BY AtWork DEF AtEnd
<1>2. pos'.sector = pos.sector /\ Current' = Current + 1
  BY <1>1 DEF Passed, Place, Current
<1>3. IsAt(log, Here.name, pos.sector, Current)
  BY <1>1 DEF IsAt, Here
<1>4. pos.sector \in Nat /\ Len(log) \in Nat
  BY <1>1 DEF IInv, TypeOK
<1>5. \A s, i \in Nat : s # pos.sector \/ i # Current => (Behind(s, i)' <=> Behind(s, i))
  BY <1>1, <1>2, <1>4 DEF Behind
<1>6. \A s, i \in Nat : s = pos.sector /\ i = Current => ~ Behind(s, i) /\ Behind(s, i)'
  BY <1>1, <1>2, <1>4 DEF Behind
<1> QED BY <1>1, <1>3, <1>4, <1>5, <1>6

LEMMA SkipStep ==
  ASSUME IInv, Skip
  PROVE  IInv'
<1>1. busy /\ ~ AtEnd /\ pos' = Passed /\ Here.name = Null
      /\ UNCHANGED <<log, busy, ended, got, still>> /\ ~ ended
  BY DEF Skip, IInv, Running
<1>2. TypeOK' /\ Unique' /\ NotBegun'
  BY <1>1, PlacePassed, ReaderMoves DEF IInv, TypeOK, Passed
<1>3. ASSUME NEW n \in still, NEW s \in Nat, NEW i \in Nat, IsAt(log, n, s, i)
      PROVE  s # pos.sector \/ i # Current
  <2>1. n # Null
    BY NamesAssumption DEF IInv, TypeOK
  <2> QED BY <1>1, <1>3, <2>1, PlacePassed DEF IsAt
<1>4. \A n \in still : \A s, i \in Nat : IsAt(log, n, s, i) => (Behind(s, i)' <=> Behind(s, i))
  BY <1>1, <1>3, PlacePassed
<1> QED BY <1>1, <1>2, <1>4, NothingPassed

(* The name at the place passed is returned, and it has no other place.     *)
LEMMA ReturnStep ==
  ASSUME IInv, Return
  PROVE  IInv'
<1> DEFINE m == Here.name
<1>1. busy /\ ~ AtEnd /\ pos' = Passed /\ m # Null /\ busy' = FALSE
      /\ got' = [got EXCEPT ![m] = @ + 1] /\ UNCHANGED <<log, ended, still>> /\ ~ ended
  BY DEF Return, IInv, Running
<1>2. got \in [Names -> Nat] /\ still \subseteq Names
  BY DEF IInv, TypeOK
<1>3. m \in Names
  <2>1. log \in Seq(Seq(Entries)) /\ IsAt(log, m, pos.sector, Current)
    BY <1>1, AtWork, PlacePassed
  <2>2. Here \in Entries
    BY <2>1 DEF IsAt, Here
  <2> QED BY <1>1, <2>2 DEF Entries
<1>4. got' \in [Names -> Nat] /\ got'[m] = got[m] + 1 /\ \A n \in Names : n # m => got'[n] = got[n]
  <2> HIDE DEF m
  <2> QED BY <1>1, <1>2, <1>3
<1>5. TypeOK' /\ Unique' /\ NotBegun'
  <2>1. busy' \in BOOLEAN /\ ended' \in BOOLEAN
    BY <1>1 DEF IInv, TypeOK
  <2> QED BY <1>1, <1>4, <2>1, PlacePassed, ReaderMoves DEF Passed
<1>6. Listing'
  <2> SUFFICES ASSUME NEW n \in still
               PROVE  /\ \E s, i \in Nat : IsAt(log, n, s, i)
                      /\ \A s, i \in Nat : IsAt(log, n, s, i) =>
                            got'[n] = IF Behind(s, i)' THEN 1 ELSE 0
    BY <1>1 DEF Listing
  <2>1. \E s, i \in Nat : IsAt(log, n, s, i)
    BY DEF IInv, Listing
  <2>2. ASSUME NEW s \in Nat, NEW i \in Nat, IsAt(log, n, s, i)
        PROVE  got'[n] = IF Behind(s, i)' THEN 1 ELSE 0
    <3>1. got[n] = IF Behind(s, i) THEN 1 ELSE 0
      BY <2>2 DEF IInv, Listing
    <3>2. CASE n = m
      <4>1. s = pos.sector /\ i = Current
        BY <1>1, <1>3, <2>2, <3>2, PlacePassed DEF IInv, Unique
      <4>2. ~ Behind(s, i) /\ Behind(s, i)'
        BY <1>1, <4>1, PlacePassed
      <4> QED BY <1>4, <3>1, <3>2, <4>2
    <3>3. CASE n # m
      <4>1. s # pos.sector \/ i # Current
        BY <1>1, <2>2, <3>3, PlacePassed DEF IsAt
      <4>2. Behind(s, i)' <=> Behind(s, i)
        BY <1>1, <4>1, PlacePassed
      <4>3. got'[n] = got[n]
        BY <1>2, <1>4, <3>3
      <4> QED BY <3>1, <4>2, <4>3
    <3> QED BY <3>2, <3>3
  <2> QED BY <2>1, <2>2
<1>7. AllBehind' /\ Running'
  BY <1>1 DEF IInv, AllBehind, Running
<1> QED BY <1>5, <1>6, <1>7 DEF IInv

-----------------------------------------------------------------------------
LEMMA InitInductive == Init => IInv
<1> SUFFICES ASSUME Init PROVE IInv
  OBVIOUS
<1>1. log = <<<<>>>> /\ pos = [sector |-> 0, at |-> 0] /\ busy = FALSE /\ ended = FALSE
      /\ got = [n \in Names |-> 0] /\ still = {}
  BY DEF Init, Unset, Place
<1>2. log \in Seq(Seq(Entries)) /\ log # <<>> /\ Len(log) = 1 /\ log[1] = <<>>
  <2>1. <<>> \in Seq(Entries)
    OBVIOUS
  <2> QED BY <1>1, <2>1
<1>3. TypeOK
  <2>1. pos \in [sector : 0 .. Len(log), at : Nat] /\ pos.sector = 0 /\ pos.at = 0
    BY <1>1, <1>2
  <2>2. got \in [Names -> Nat] /\ still \subseteq Names /\ busy \in BOOLEAN /\ ended \in BOOLEAN
    BY <1>1
  <2> QED BY <1>1, <1>2, <2>1, <2>2 DEF TypeOK
<1>4. Unique
  BY <1>2 DEF Unique, IsAt
<1>5. Listing /\ NotBegun /\ AllBehind /\ Running
  BY <1>1 DEF Listing, NotBegun, AllBehind, Running
<1> QED BY <1>3, <1>4, <1>5 DEF IInv

LEMMA StepInductive ==
  ASSUME StillDirs
  PROVE  IInv /\ [Next]_vars => IInv'
<1> SUFFICES ASSUME IInv, [Next]_vars PROVE IInv'
  OBVIOUS
<1>1. ASSUME NEW extended \in BOOLEAN, NEW n \in Names, NEW len \in NameLens,
             Create(n, len, extended)
      PROVE  IInv'
  BY <1>1, CreateStep
<1>2. ASSUME NEW extended \in BOOLEAN, NEW len \in OtherLens, Save(len, extended)
      PROVE  IInv'
  BY <1>2, SaveStep
<1>3. ASSUME NEW extended \in BOOLEAN, NEW len \in OtherLens, Reopen(len, extended)
      PROVE  IInv'
  BY <1>3, ReopenStep
<1>4. ASSUME NEW extended \in BOOLEAN, NEW n \in Dirs, Move(n, extended)
      PROVE  IInv'
  BY <1>4, MoveStep, NamesAssumption
<1>5. ASSUME NEW n \in Names, Delete(n)
      PROVE  IInv'
  BY <1>5, DeleteStep
<1>6. CASE Call
  BY <1>6, CallStep
<1>7. CASE Pass
  BY <1>7, NextSectorStep, NoMoreStep, ReadAgainStep, SkipStep, ReturnStep DEF Pass
<1>8. CASE UNCHANGED vars
  BY <1>8 DEF vars, IInv, TypeOK, Unique, Listing, NotBegun, AllBehind, Running, Behind, Current
<1> QED BY <1>1, <1>2, <1>3, <1>4, <1>5, <1>6, <1>7, <1>8 DEF Next

LEMMA Inductive ==
  ASSUME StillDirs
  PROVE  Spec => []IInv
<1>1. Init => IInv
  BY InitInductive
<1>2. IInv /\ [Next]_vars => IInv'
  BY StepInductive
<1> QED BY <1>1, <1>2, PTL DEF Spec

(* Type correctness: the reader stays in the log, one place behind the end  *)
(* of a sector at most.                                                     *)
THEOREM TypeCorrect ==
  ASSUME StillDirs
  PROVE  Spec => []TypeOK
<1>1. IInv => TypeOK
  BY DEF IInv
<1> QED BY <1>1, Inductive, PTL

(* No name that is there from the first call of dir_read on is returned by  *)
(* two calls, whatever is created, deleted and saved in between.            *)
THEOREM NothingListedTwice ==
  ASSUME StillDirs
  PROVE  Spec => []ListedOnce
<1>1. IInv => ListedOnce
  <2> SUFFICES ASSUME IInv, NEW n \in still PROVE got[n] <= 1
    BY DEF ListedOnce
  <2>1. PICK s \in Nat, i \in Nat : IsAt(log, n, s, i)
    BY DEF IInv, Listing
  <2>2. got[n] = IF Behind(s, i) THEN 1 ELSE 0
    BY <2>1 DEF IInv, Listing
  <2> QED BY <2>2
<1> QED BY <1>1, Inductive, PTL

(* When dir_read says that there is no more, it has returned every name     *)
(* that was there from the first call on.                                   *)
THEOREM NothingLeftOut ==
  ASSUME StillDirs
  PROVE  Spec => []ListedAll
<1>1. IInv => ListedAll
  <2> SUFFICES ASSUME IInv, ended, NEW n \in still PROVE got[n] >= 1
    BY DEF ListedAll
  <2>1. PICK s \in Nat, i \in Nat : IsAt(log, n, s, i)
    BY DEF IInv, Listing
  <2>2. Behind(s, i)
    BY <2>1 DEF IInv, AllBehind
  <2>3. got[n] = 1
    BY <2>1, <2>2 DEF IInv, Listing
  <2> QED BY <2>3
<1> QED BY <1>1, Inductive, PTL
================================================================================
