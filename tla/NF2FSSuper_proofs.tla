-------------------------- MODULE NF2FSSuper_proofs --------------------------
(***************************************************************************)
(* Proofs about NF2FSSuper for every capacity of a superblock sector,      *)
(* every width of the extend field and any number of moves of the root     *)
(* directory, with power lost between any two flash programs.              *)
(***************************************************************************)
EXTENDS NF2FSSuper, TLAPS

(* In a session the superblock in use is the one validated last; while the  *)
(* next one is made its head is half programmed.                            *)
SessionPlace ==
  /\ pc \in {"idle", "prog", "written", "flush"} => cur = newest /\ super[cur].head = "using"
  /\ pc \in {"basic", "validate"} => super[cur].head = "allocating"

(* A COMMIT record is valid only when the system is down or about to be,    *)
(* and then only in the whole superblock that was validated last.           *)
CommitPlace ==
  \A s \in Supers : Live(s, "commit") # {} =>
    pc \in {"down", "flush"} /\ s = newest /\ super[s].head = "using"

(* One COMMIT record at most is valid: mount deletes the only one. *)
CommitOnce == \A s \in Supers : \A i, j \in Live(s, "commit") : i = j

(* An erased sector holds no record. *)
ErasedEmpty == \A s \in Supers : super[s].head = "null" => super[s].records = <<>>

(* The record that is being programmed has room, and no written flag yet. *)
RecordPending ==
  /\ todo.state = "torn"
  /\ pc \in {"prog", "validate"} => Len(super[cur].records) < Capacity
  /\ pc = "prog" => todo \in Records
  /\ pc = "written" =>
       /\ super[cur].records # <<>>
       /\ super[cur].records[Len(super[cur].records)] = todo

(* The root's name_off names a record of the superblock in use. *)
RootPlace == pc \in {"idle", "validate"} => nameAt \in 0 .. Len(super[cur].records)

IInv ==
  /\ TypeOK
  /\ RootPlace
  /\ SessionPlace
  /\ CommitPlace
  /\ CommitOnce
  /\ ErasedEmpty
  /\ RecordPending

-----------------------------------------------------------------------------
(* The extend field keeps its width. *)
LEMMA ModRange ==
  ASSUME NEW e \in Nat, NEW n \in Nat \ {0}
  PROVE  e % n \in 0 .. n - 1
BY SMT

(* The constants as natural numbers. *)
LEMMA Sizes ==
  /\ Capacity \in Nat /\ Capacity > 1
  /\ Versions \in Nat /\ Versions > 3
  /\ MaxTail \in Nat
BY CapacityAssumption, VersionsAssumption, MaxTailAssumption

(* A device that was never formatted. *)
LEMMA InitInvariant == Init => IInv
<1> SUFFICES ASSUME Init PROVE IInv
  OBVIOUS
<1> USE Sizes DEF Init, Supers
<1>1. Blank \in Sector /\ Blank.head = "null" /\ Blank.records = <<>>
  BY DEF Blank, Sector
<1>2. \A s \in Supers : super[s] = Blank
  OBVIOUS
<1>3. TypeOK
  BY <1>1, <1>2 DEF TypeOK
<1>4. \A s \in Supers, kind \in {"root", "commit"} : Live(s, kind) = {}
  BY <1>1, <1>2 DEF Live
<1>5. NoRecord.state = "torn"
  BY DEF NoRecord, Record
<1>6. QED
  BY <1>1, <1>2, <1>3, <1>4, <1>5
  DEF IInv, SessionPlace, CommitPlace, CommitOnce, ErasedEmpty, RootPlace, RecordPending

(* Steps that leave both sectors and the pending record alone. *)
LEMMA QuietStepsInvariant ==
  ASSUME IInv, Work \/ FlushMaps
  PROVE  IInv'
<1>1. UNCHANGED <<super, newest, root, cur, nameAt, tail, todo>> /\ saved' \in BOOLEAN
  BY DEF Work, FlushMaps, flash, ram
<1>2. \/ pc = "idle" /\ pc' = "idle"
      \/ pc = "flush" /\ pc' = "down"
  BY DEF Work, FlushMaps
<1>3. \A s \in Supers : Live(s, "commit")' = Live(s, "commit")
  BY <1>1 DEF Live
<1>4. TypeOK'
  BY <1>1, <1>2 DEF IInv, TypeOK
<1>5. QED
  BY <1>1, <1>2, <1>3, <1>4
  DEF IInv, SessionPlace, CommitPlace, CommitOnce, ErasedEmpty, RootPlace, RecordPending

(* format of a blank device: nothing is programmed yet. *)
LEMMA FormatInvariant == ASSUME IInv, Format PROVE IInv'
<1>1. /\ super' = super /\ newest' = newest /\ root' = root
      /\ cur' = 1 /\ nameAt' = 0 /\ tail' = 0 /\ todo' = NoRecord /\ saved' = FALSE
      /\ pc' = "erase"
  BY DEF Format, flash
<1>2. cur' \in Supers /\ nameAt' \in 0 .. Capacity /\ tail' \in 0 .. MaxTail
  BY <1>1, Sizes DEF Supers
<1>3. TypeOK'
  BY <1>1, <1>2 DEF IInv, TypeOK
<1>4. \A s \in Supers : Live(s, "commit")' = {}
  BY <1>1 DEF IInv, Format, ErasedEmpty, Live
<1>5. QED
  BY <1>1, <1>3, <1>4
  DEF IInv, RootPlace, SessionPlace, CommitPlace, CommitOnce, ErasedEmpty, RootPlace, RecordPending, NoRecord, Record

(* Deleting a record keeps the types, and every other record's liveness.    *)
LEMMA Deleted ==
  ASSUME TypeOK, NEW t \in Supers, NEW i \in DOMAIN super[t].records,
         super' = SetState(t, i, "deleted")
  PROVE  /\ super' \in [Supers -> Sector]
         /\ \A s \in Supers : /\ Len(super'[s].records) = Len(super[s].records)
                              /\ super'[s].head = super[s].head
                              /\ super'[s].extend = super[s].extend
                              /\ Live(s, "commit")' = Live(s, "commit") \ (IF s = t THEN {i} ELSE {})
                              /\ super[s].records = <<>> => super'[s].records = <<>>
<1> DEFINE rec == [super[t].records[i] EXCEPT !.state = "deleted"]
           recs == [super[t].records EXCEPT ![i] = rec]
<1>1. super[t] \in Sector /\ super[t].records \in Seq(Records)
  BY DEF TypeOK, Sector
<1>2. rec \in Records /\ rec.state = "deleted"
  <2>1. super[t].records[i] \in Records
    BY <1>1
  <2>2. QED
    BY <2>1 DEF Records
<1>3. recs \in Seq(Records) /\ Len(recs) = Len(super[t].records) /\ DOMAIN recs = DOMAIN super[t].records
  BY <1>1, <1>2
<1>4. super' = [super EXCEPT ![t] = [super[t] EXCEPT !.records = recs]]
  BY <1>1 DEF SetState, TypeOK
<1>5. super'[t] = [super[t] EXCEPT !.records = recs] /\ \A s \in Supers \ {t} : super'[s] = super[s]
  BY <1>4 DEF TypeOK
<1>6. super'[t] \in Sector /\ super'[t].records = recs
  BY <1>1, <1>3, <1>5 DEF Sector
<1>7. super' \in [Supers -> Sector]
  BY <1>4, <1>5, <1>6 DEF TypeOK
<1>8. \A s \in Supers \ {t} : Live(s, "commit")' = Live(s, "commit")
  BY <1>5 DEF Live
<1>9. Live(t, "commit")' = Live(t, "commit") \ {i}
  <2>1. \A j \in DOMAIN recs : recs[j] = IF j = i THEN rec ELSE super[t].records[j]
    BY <1>3
  <2>2. QED
    BY <2>1, <1>2, <1>3, <1>6 DEF Live
<1>10. super[t].records # <<>>
  BY <1>1
<1>11. super'[t].head = super[t].head /\ super'[t].extend = super[t].extend
  BY <1>1, <1>5 DEF Sector
<1>12. QED
  BY <1>3, <1>5, <1>6, <1>7, <1>8, <1>9, <1>10, <1>11

(* mount deletes the only COMMIT record that is valid. *)
LEMMA MountInvariant == ASSUME IInv, Mount PROVE IInv'
<1> USE Sizes
<1> PICK c \in Live(Select, "commit"), i \in FirstRoot(Select) :
      /\ super' = SetState(Select, c, "deleted")
      /\ nameAt' = i /\ tail' = super[Select].records[i].tail
  BY DEF Mount
<1>1. Select \in Supers
  BY DEF Select, Supers
<1>2. /\ TypeOK /\ c \in DOMAIN super[Select].records
  BY DEF IInv, Live
<1>3. /\ super' \in [Supers -> Sector]
      /\ \A s \in Supers : /\ Len(super'[s].records) = Len(super[s].records)
                           /\ super'[s].head = super[s].head
                           /\ Live(s, "commit")' = Live(s, "commit") \ (IF s = Select THEN {c} ELSE {})
                           /\ super[s].records = <<>> => super'[s].records = <<>>
  BY <1>1, <1>2, Deleted
<1>4. Select = newest /\ super[Select].head = "using"
  BY <1>1 DEF IInv, CommitPlace
<1>5. \A s \in Supers : Live(s, "commit")' = {}
  <2>1. \A s \in Supers : s # Select => Live(s, "commit") = {}
    BY <1>4 DEF IInv, CommitPlace
  <2>2. Live(Select, "commit") = {c}
    BY <1>1 DEF IInv, CommitOnce
  <2>3. QED
    BY <2>1, <2>2, <1>3
<1>6. /\ nameAt' \in 0 .. Capacity /\ tail' \in 0 .. MaxTail
      /\ nameAt' \in 0 .. Len(super[Select].records)
  <2>1. super[Select].records \in Seq(Records) /\ Len(super[Select].records) <= Capacity
    BY <1>1, <1>2 DEF TypeOK, Sector
  <2>2. i \in 1 .. Len(super[Select].records)
    BY <2>1 DEF FirstRoot, Live
  <2>3. super[Select].records[i] \in Records
    BY <2>1, <2>2
  <2>4. QED
    BY <2>1, <2>2, <2>3 DEF Records
<1>7. TypeOK'
  BY <1>1, <1>2, <1>3, <1>6 DEF TypeOK, Mount
<1>8. /\ cur' = Select /\ todo' = NoRecord /\ pc' = "idle" /\ newest' = newest
  BY DEF Mount
<1>9. QED
  BY <1>1, <1>3, <1>4, <1>5, <1>6, <1>7, <1>8
  DEF IInv, SessionPlace, CommitPlace, CommitOnce, ErasedEmpty, RootPlace, RecordPending, NoRecord, Record

(* The record given to prog_in_superblock is a record, not yet written. *)
LEMMA BeginRecord ==
  ASSUME NEW kind \in {"root", "commit"}, NEW t \in 0 .. MaxTail
  PROVE  Record(kind, t) \in Records /\ Record(kind, t).state = "torn"
BY DEF Record, Records

(* The root directory moves, whichever record its move destroys. *)
LEMMA RootMovesInvariant == ASSUME IInv, RootMoves PROVE IInv'
<1> USE Sizes
<1>1. TypeOK /\ pc = "idle" /\ tail + 1 \in 0 .. MaxTail /\ cur \in Supers
  BY DEF IInv, TypeOK, RootMoves
<1>2. /\ super' \in [Supers -> Sector]
      /\ \A s \in Supers : /\ Len(super'[s].records) = Len(super[s].records)
                           /\ super'[s].head = super[s].head
                           /\ Live(s, "commit")' \subseteq Live(s, "commit")
                           /\ super[s].records = <<>> => super'[s].records = <<>>
  <2>1. CASE super' = super
    BY <2>1, <1>1 DEF TypeOK, Live
  <2>2. CASE \E i \in DOMAIN super[cur].records : super' = SetState(cur, i, "deleted")
    <3> PICK i \in DOMAIN super[cur].records : super' = SetState(cur, i, "deleted")
      BY <2>2
    <3> QED
      BY <1>1, Deleted
  <2>3. super[cur].records \in Seq(Records) /\ nameAt \in 0 .. Len(super[cur].records)
    BY <1>1 DEF IInv, RootPlace, TypeOK, Sector
  <2>4. QED
    BY <2>1, <2>2, <2>3 DEF RootMoves
<1>3. \A s \in Supers : Live(s, "commit")' = {}
  BY <1>1, <1>2 DEF IInv, CommitPlace
<1>4. todo' \in Records /\ todo'.state = "torn"
  BY <1>1, BeginRecord DEF RootMoves, Begin
<1>5. pc' \in {"prog", "erase"} /\ (pc' = "prog" => Len(super'[cur].records) < Capacity)
  BY <1>1, <1>2 DEF RootMoves, Begin
<1>6. TypeOK'
  BY <1>1, <1>2, <1>4, <1>5 DEF TypeOK, RootMoves
<1>7. QED
  BY <1>1, <1>2, <1>3, <1>4, <1>5, <1>6
  DEF IInv, RootMoves, SessionPlace, CommitPlace, CommitOnce, ErasedEmpty, RootPlace, RecordPending

(* superblock_change begins: the other sector is erased. *)
LEMMA EraseOtherInvariant == ASSUME IInv, EraseOther PROVE IInv'
<1> USE Sizes
<1> DEFINE other == 1 - cur
<1>1. TypeOK /\ other \in Supers /\ cur' = other /\ pc' = "head"
  BY DEF IInv, TypeOK, EraseOther, Supers
<1>2. super' = [super EXCEPT ![other] = [@ EXCEPT !.head = "null", !.records = <<>>]]
  BY DEF EraseOther
<1>3. super[other] \in Sector /\ <<>> \in Seq(Records)
  BY <1>1 DEF TypeOK
<1>4. /\ super'[other] = [super[other] EXCEPT !.head = "null", !.records = <<>>]
      /\ \A s \in Supers \ {other} : super'[s] = super[s]
  BY <1>1, <1>2 DEF TypeOK
<1>5. super'[other] \in Sector /\ super'[other].head = "null" /\ super'[other].records = <<>>
  BY <1>3, <1>4 DEF Sector
<1>6. super' \in [Supers -> Sector]
  BY <1>1, <1>2, <1>4, <1>5 DEF TypeOK
<1>7. \A s \in Supers : Live(s, "commit") = {}
  BY DEF IInv, CommitPlace, EraseOther
<1>8. \A s \in Supers : Live(s, "commit")' = {}
  <2>1. \A s \in Supers \ {other} : Live(s, "commit")' = Live(s, "commit")
    BY <1>4 DEF Live
  <2>2. DOMAIN super'[other].records = {}
    BY <1>5
  <2>3. \A s \in Supers : s = other => Live(s, "commit")' = {}
    BY <2>2 DEF Live
  <2>4. QED
    BY <1>7, <2>1, <2>3
<1>9. TypeOK'
  BY <1>1, <1>4, <1>5, <1>6 DEF TypeOK, EraseOther
<1>10. QED
  BY <1>1, <1>4, <1>5, <1>8, <1>9
  DEF IInv, EraseOther, SessionPlace, CommitPlace, CommitOnce, ErasedEmpty, RootPlace, RecordPending

(* Steps that change the head of the sector in use and no record. *)
LEMMA HeadStepsInvariant ==
  ASSUME IInv, ProgHead \/ ValidateHead
  PROVE  IInv'
<1> USE Sizes
<1>1. TypeOK /\ cur \in Supers /\ super[cur] \in Sector
  BY DEF IInv, TypeOK
<1>2. PICK head \in {"allocating", "using"}, extend \in 0 .. Versions - 1 :
        super' = [super EXCEPT ![cur] = [@ EXCEPT !.head = head, !.extend = extend]]
  <2>0. super[cur].extend + 2 \in Nat /\ Versions \in Nat \ {0}
    BY <1>1 DEF Sector
  <2>1. (super[cur].extend + 2) % Versions \in 0 .. Versions - 1
    BY <2>0, ModRange
  <2>2. CASE ProgHead
    BY <2>1, <2>2 DEF ProgHead
  <2>3. CASE ValidateHead
    <3>1. super[cur] = [super[cur] EXCEPT !.extend = super[cur].extend]
      BY <1>1 DEF Sector
    <3>2. super[cur].extend \in 0 .. Versions - 1
      BY <1>1 DEF Sector
    <3>3. super' = [super EXCEPT ![cur] = [@ EXCEPT !.head = "using"]]
      BY <2>3 DEF ValidateHead
    <3>4. [super[cur] EXCEPT !.head = "using"]
            = [super[cur] EXCEPT !.head = "using", !.extend = super[cur].extend]
      BY <1>1 DEF Sector
    <3>5. QED
      BY <3>2, <3>3, <3>4
  <2>4. QED
    BY <2>2, <2>3
<1>3. /\ super'[cur] = [super[cur] EXCEPT !.head = head, !.extend = extend]
      /\ \A s \in Supers \ {cur} : super'[s] = super[s]
  BY <1>1, <1>2 DEF TypeOK
<1>4. super'[cur] \in Sector /\ super'[cur].head = head /\ super'[cur].records = super[cur].records
  BY <1>1, <1>3 DEF Sector
<1>5. super' \in [Supers -> Sector] /\ \A s \in Supers : super'[s].records = super[s].records
  BY <1>1, <1>2, <1>3, <1>4 DEF TypeOK
<1>6. \A s \in Supers : Live(s, "commit")' = {}
  <2>1. \A s \in Supers : Live(s, "commit") = {}
    BY DEF IInv, CommitPlace, ProgHead, ValidateHead
  <2>2. QED
    BY <1>5, <2>1 DEF Live
<1>7. UNCHANGED <<cur, nameAt, tail, todo, saved, root>>
  BY DEF ProgHead, ValidateHead, ram
<1>8. CASE ProgHead
  <2>1. TypeOK'
    BY <1>1, <1>5, <1>7, <1>8 DEF TypeOK, ProgHead
  <2>2. QED
    BY <1>3, <1>4, <1>5, <1>6, <1>7, <1>8, <2>1
    DEF IInv, ProgHead, SessionPlace, CommitPlace, CommitOnce, ErasedEmpty, RootPlace, RecordPending
<1>9. CASE ValidateHead
  <2>1. TypeOK'
    BY <1>1, <1>5, <1>7, <1>9 DEF TypeOK, ValidateHead
  <2>2. super'[cur].head = "using"
    BY <1>1, <1>9 DEF ValidateHead, TypeOK, Sector
  <2>3. pc' = "prog" => todo' \in Records
    BY <1>1, <1>7, <1>9 DEF ValidateHead, TypeOK
  <2>4. QED
    BY <1>3, <1>4, <1>5, <1>6, <1>7, <1>9, <2>1, <2>2, <2>3
    DEF IInv, ValidateHead, SessionPlace, CommitPlace, CommitOnce, ErasedEmpty, RootPlace, RecordPending
<1>10. QED
  BY <1>8, <1>9

(* Programming changes the records of the sector in use only. *)
LEMMA Reprogrammed ==
  ASSUME TypeOK, NEW recs \in Seq(Records), Len(recs) <= Capacity,
         super' = [super EXCEPT ![cur].records = recs]
  PROVE  /\ super' \in [Supers -> Sector]
         /\ \A s \in Supers : Len(super'[s].records) <= Capacity
         /\ super'[cur].records = recs
         /\ \A s \in Supers : super'[s].head = super[s].head
         /\ \A s \in Supers : s # cur => super'[s] = super[s]
<1>1. cur \in Supers /\ super[cur] \in Sector
  BY DEF TypeOK
<1>2. super'[cur] = [super[cur] EXCEPT !.records = recs]
  BY <1>1 DEF TypeOK
<1>3. super'[cur] \in Sector /\ super'[cur].records = recs /\ super'[cur].head = super[cur].head
  BY <1>1, <1>2, SMTT(30) DEF Sector
<1>4. \A s \in Supers : s # cur => super'[s] = super[s]
  BY DEF TypeOK
<1>5. super' \in [Supers -> Sector]
  BY <1>3, <1>4 DEF TypeOK
<1>6. QED
  BY <1>3, <1>4, <1>5 DEF TypeOK

(* A fresh superblock begins with the root's record. *)
LEMMA ProgBasicInvariant == ASSUME IInv, ProgBasic PROVE IInv'
<1> USE Sizes
<1> DEFINE rec == [Record("root", tail) EXCEPT !.state = "valid"]
<1>1. TypeOK /\ cur \in Supers /\ tail \in 0 .. MaxTail
  BY DEF IInv, TypeOK
<1>2. rec \in Records /\ rec.kind = "root"
  BY <1>1 DEF Records, Record
<1>3. PICK recs \in Seq(Records) :
        recs = <<rec>> /\ Len(recs) = 1 /\ DOMAIN recs = {1} /\ recs[1].kind = "root"
  <2> HIDE DEF rec
  <2>1. <<rec>> \in Seq(Records) /\ Len(<<rec>>) = 1 /\ DOMAIN <<rec>> = {1} /\ <<rec>>[1] = rec
    BY <1>2
  <2>2. QED
    BY <1>2, <2>1
<1>4. super' = [super EXCEPT ![cur].records = recs] /\ Len(recs) <= Capacity
  BY <1>3 DEF ProgBasic
<1>5. /\ super' \in [Supers -> Sector]
      /\ \A s \in Supers : Len(super'[s].records) <= Capacity
      /\ super'[cur].records = recs
      /\ \A s \in Supers : super'[s].head = super[s].head
      /\ \A s \in Supers : s # cur => super'[s] = super[s]
  BY <1>1, <1>4, Reprogrammed
<1>6. /\ UNCHANGED <<cur, tail, todo, saved, newest>>
      /\ nameAt' = 1 /\ root' = tail /\ pc' = "validate"
  BY DEF ProgBasic
<1>7. \A s \in Supers : Live(s, "commit")' = {}
  <2>1. \A s \in Supers : Live(s, "commit") = {}
    BY DEF IInv, CommitPlace, ProgBasic
  <2>2. \A s \in Supers : s # cur => Live(s, "commit")' = Live(s, "commit")
    BY <1>5 DEF Live
  <2>3. \A s \in Supers : s = cur => Live(s, "commit")' = {}
    BY <1>3, <1>5 DEF Live
  <2>4. QED
    BY <2>1, <2>2, <2>3
<1>8. TypeOK'
  BY <1>1, <1>5, <1>6 DEF TypeOK
<1>9. super'[cur'].head = "allocating" /\ Len(super'[cur'].records) = 1
  BY <1>1, <1>3, <1>5, <1>6 DEF IInv, SessionPlace, ProgBasic
<1>10. ErasedEmpty'
  BY <1>1, <1>5, <1>6, <1>9 DEF IInv, ErasedEmpty
<1>11. QED
  BY <1>1, <1>6, <1>7, <1>8, <1>9, <1>10
  DEF IInv, SessionPlace, CommitPlace, CommitOnce, RootPlace, RecordPending

(* A log with one more record. *)
LEMMA Appended ==
  ASSUME NEW q \in Seq(Records), NEW r \in Records
  PROVE  /\ Append(q, r) \in Seq(Records)
         /\ Len(Append(q, r)) = Len(q) + 1
         /\ Append(q, r)[Len(q) + 1] = r
         /\ \A i \in 1 .. Len(q) : Append(q, r)[i] = q[i]
OBVIOUS

(* A log with one record changed. *)
LEMMA Updated ==
  ASSUME NEW q \in Seq(Records), NEW r \in Records, NEW n \in 1 .. Len(q)
  PROVE  /\ [q EXCEPT ![n] = r] \in Seq(Records)
         /\ Len([q EXCEPT ![n] = r]) = Len(q)
         /\ [q EXCEPT ![n] = r][n] = r
         /\ \A i \in 1 .. Len(q) : i # n => [q EXCEPT ![n] = r][i] = q[i]
OBVIOUS

(* The valid COMMIT records of a log that differs in record n only, when    *)
(* the others were not valid COMMIT records.                                *)
LEMMA LiveAfter ==
  ASSUME NEW s \in Supers, NEW n \in Nat,
         super[s].records \in Seq(Records), super'[s].records \in Seq(Records),
         Live(s, "commit") = {},
         Len(super'[s].records) >= Len(super[s].records),
         \A i \in 1 .. Len(super'[s].records) :
            i # n => /\ i \in 1 .. Len(super[s].records)
                     /\ super'[s].records[i] = super[s].records[i]
  PROVE  /\ Live(s, "commit")' \subseteq {n}
         /\ super'[s].records[n].state # "valid" => Live(s, "commit")' = {}
         /\ super'[s].records[n].kind # "commit" => Live(s, "commit")' = {}
<1>1. \A i \in Live(s, "commit")' :
        /\ i \in 1 .. Len(super'[s].records)
        /\ super'[s].records[i].kind = "commit" /\ super'[s].records[i].state = "valid"
  BY DEF Live
<1>2. \A i \in 1 .. Len(super[s].records) :
        ~(super[s].records[i].kind = "commit" /\ super[s].records[i].state = "valid")
  BY DEF Live
<1>3. \A i \in Live(s, "commit")' : i = n
  BY <1>1, <1>2
<1>4. QED
  BY <1>1, <1>3

(* A record is programmed after the others; it has no written flag yet. *)
LEMMA ProgRecordInvariant == ASSUME IInv, ProgRecord PROVE IInv'
<1> USE Sizes
<1>1. /\ TypeOK /\ cur \in Supers /\ super[cur].records \in Seq(Records)
      /\ todo \in Records /\ Len(super[cur].records) < Capacity /\ todo.state = "torn"
      /\ cur = newest /\ super[cur].head = "using"
  BY DEF IInv, TypeOK, Sector, RecordPending, SessionPlace, ProgRecord
<1>2. PICK recs \in Seq(Records), n \in Nat :
        /\ recs = Append(super[cur].records, todo)
        /\ Len(recs) = n /\ n = Len(super[cur].records) + 1
        /\ recs[n] = todo
        /\ \A i \in 1 .. Len(super[cur].records) : recs[i] = super[cur].records[i]
  <2> DEFINE log == super[cur].records
             longer == Append(log, todo)
  <2>1. log \in Seq(Records) /\ Len(log) + 1 \in Nat
    BY <1>1
  <2> HIDE DEF log
  <2>2. /\ longer \in Seq(Records) /\ Len(longer) = Len(log) + 1
        /\ longer[Len(log) + 1] = todo
        /\ \A i \in 1 .. Len(log) : longer[i] = log[i]
    BY <1>1, <2>1, Appended
  <2> HIDE DEF longer
  <2>3. \E recs \in Seq(Records), n \in Nat :
           /\ recs = longer
           /\ Len(recs) = n /\ n = Len(log) + 1
           /\ recs[n] = todo
           /\ \A i \in 1 .. Len(log) : recs[i] = log[i]
    BY <2>1, <2>2
  <2>4. QED
    BY <2>3 DEF log, longer
<1>3. super' = [super EXCEPT ![cur].records = recs] /\ Len(recs) <= Capacity
  BY <1>1, <1>2 DEF ProgRecord
<1>4. /\ super' \in [Supers -> Sector]
      /\ \A s \in Supers : Len(super'[s].records) <= Capacity
      /\ super'[cur].records = recs
      /\ \A s \in Supers : super'[s].head = super[s].head
      /\ \A s \in Supers : s # cur => super'[s] = super[s]
  BY <1>1, <1>3, Reprogrammed
<1>5. UNCHANGED <<cur, nameAt, tail, todo, saved, newest, root>> /\ pc = "prog" /\ pc' = "written"
  BY DEF ProgRecord, ram
<1>6. \A s \in Supers : Live(s, "commit")' = {}
  <2>1. \A s \in Supers : Live(s, "commit") = {}
    BY <1>5 DEF IInv, CommitPlace
  <2>2. \A s \in Supers : s # cur => Live(s, "commit")' = Live(s, "commit")
    BY <1>4 DEF Live
  <2>3. \A s \in Supers : s = cur => Live(s, "commit")' = {}
    <3> SUFFICES ASSUME NEW s \in Supers, s = cur PROVE Live(s, "commit")' = {}
      OBVIOUS
    <3>1. super'[s].records = recs /\ super[s].records \in Seq(Records)
      BY <1>1, <1>4
    <3>2. \A i \in 1 .. Len(recs) :
            i # n => i \in 1 .. Len(super[s].records) /\ recs[i] = super[s].records[i]
      BY <1>1, <1>2
    <3>3. recs[n].state # "valid" /\ Len(recs) >= Len(super[s].records)
      BY <1>1, <1>2
    <3>4. QED
      BY <2>1, <3>1, <3>2, <3>3, LiveAfter, SMTT(30)
  <2>4. QED
    BY <2>1, <2>2, <2>3
<1>7. TypeOK'
  BY <1>1, <1>4, <1>5 DEF TypeOK
<1>8. super'[cur'].head = "using" /\ cur' = newest'
  BY <1>1, <1>4, <1>5
<1>9. ErasedEmpty'
  BY <1>1, <1>4, <1>5 DEF IInv, ErasedEmpty
<1>10. recs # <<>> /\ todo' \in Records
  BY <1>1, <1>2, <1>5
<1>11. super'[cur'].records # <<>> /\ super'[cur'].records[Len(super'[cur'].records)] = todo'
  BY <1>2, <1>4, <1>5, <1>10
<1>12. QED
  BY <1>1, <1>5, <1>6, <1>7, <1>8, <1>9, <1>11
  DEF IInv, SessionPlace, CommitPlace, CommitOnce, RootPlace, RecordPending

(* The written flag makes the last record valid, a COMMIT record only when  *)
(* an unmount is under way.                                                 *)
LEMMA SetWrittenInvariant == ASSUME IInv, SetWritten PROVE IInv'
<1> USE Sizes
<1>1. PICK n \in Nat :
      /\ n = Len(super[cur].records)
      /\ TypeOK /\ cur \in Supers /\ super[cur] \in Sector /\ super[cur].records \in Seq(Records)
      /\ n \in 1 .. n /\ super[cur].records[n] = todo
      /\ cur = newest /\ super[cur].head = "using" /\ pc = "written"
  BY DEF IInv, TypeOK, Sector, RecordPending, SessionPlace, SetWritten
<1>2. todo \in Records
  BY <1>1
<1>3. PICK rec \in Records : rec = [todo EXCEPT !.state = "valid"] /\ rec.kind = todo.kind
  <2>1. [todo EXCEPT !.state = "valid"] \in Records
    BY <1>2 DEF Records
  <2>2. [todo EXCEPT !.state = "valid"].kind = todo.kind
    BY <1>2 DEF Records
  <2>3. QED
    BY <2>1, <2>2
<1>4. PICK recs \in Seq(Records) :
        /\ recs = [super[cur].records EXCEPT ![n] = rec]
        /\ Len(recs) = n /\ recs[n] = rec
        /\ \A i \in 1 .. n : i # n => recs[i] = super[cur].records[i]
  <2> DEFINE log == super[cur].records
             changed == [log EXCEPT ![n] = rec]
  <2>1. log \in Seq(Records) /\ n = Len(log) /\ n \in 1 .. Len(log)
    BY <1>1
  <2> HIDE DEF log
  <2>2. /\ changed \in Seq(Records) /\ Len(changed) = n /\ changed[n] = rec
        /\ \A i \in 1 .. n : i # n => changed[i] = log[i]
    BY <1>3, <2>1, Updated
  <2> HIDE DEF changed
  <2>3. \E recs \in Seq(Records) :
           /\ recs = changed
           /\ Len(recs) = n /\ recs[n] = rec
           /\ \A i \in 1 .. n : i # n => recs[i] = log[i]
    BY <2>2
  <2>4. QED
    BY <2>3 DEF log, changed
<1>5. super' = [super EXCEPT ![cur].records = recs] /\ Len(recs) <= Capacity
  <2>1. super' = [super EXCEPT ![cur].records[n].state = "valid"]
    BY <1>1 DEF SetWritten, SetState
  <2>2. super' = [super EXCEPT ![cur] = [super[cur] EXCEPT !.records = recs]]
    BY <1>1, <1>3, <1>4, <2>1 DEF TypeOK
  <2>3. QED
    BY <1>1, <1>4, <2>2 DEF TypeOK
<1>6. /\ super' \in [Supers -> Sector]
      /\ \A s \in Supers : Len(super'[s].records) <= Capacity
      /\ super'[cur].records = recs
      /\ \A s \in Supers : super'[s].head = super[s].head
      /\ \A s \in Supers : s # cur => super'[s] = super[s]
  BY <1>1, <1>5, Reprogrammed
<1>7. /\ UNCHANGED <<cur, tail, saved, newest>> /\ todo' = NoRecord
      /\ nameAt' \in {0, nameAt} /\ root' \in {root, todo.tail}
      /\ \/ todo.kind = "root" /\ pc' = "idle" /\ nameAt' = 0
         \/ todo.kind = "commit" /\ pc' = "flush"
  BY <1>2 DEF SetWritten, Records
<1>8. \A s \in Supers : Live(s, "commit")' \subseteq IF s = cur /\ todo.kind = "commit" THEN {n} ELSE {}
  <2>1. \A s \in Supers : Live(s, "commit") = {}
    BY <1>1 DEF IInv, CommitPlace
  <2>2. \A s \in Supers : s # cur => Live(s, "commit")' = Live(s, "commit")
    BY <1>6 DEF Live
  <2>3. \A s \in Supers : s = cur => /\ Live(s, "commit")' \subseteq {n}
                                     /\ todo.kind # "commit" => Live(s, "commit")' = {}
    <3> SUFFICES ASSUME NEW s \in Supers, s = cur
                 PROVE  /\ Live(s, "commit")' \subseteq {n}
                        /\ todo.kind # "commit" => Live(s, "commit")' = {}
      OBVIOUS
    <3>1. super'[s].records = recs /\ super[s].records \in Seq(Records)
      BY <1>1, <1>6
    <3>2. \A i \in 1 .. Len(recs) :
            i # n => i \in 1 .. Len(super[s].records) /\ recs[i] = super[s].records[i]
      BY <1>1, <1>4
    <3>3. recs[n].kind = todo.kind /\ Len(recs) >= Len(super[s].records)
      BY <1>1, <1>3, <1>4
    <3>4. QED
      BY <2>1, <3>1, <3>2, <3>3, LiveAfter
  <2>4. QED
    BY <2>1, <2>2, <2>3
<1>9. TypeOK'
  <2>1. todo.tail \in 0 .. MaxTail
    BY <1>2 DEF Records
  <2>2. QED
    BY <1>1, <1>6, <1>7, <2>1 DEF TypeOK
<1>10. ErasedEmpty'
  BY <1>1, <1>6 DEF IInv, ErasedEmpty
<1>11. super'[cur'].head = "using" /\ cur' = newest'
  BY <1>1, <1>6, <1>7
<1>12. RootPlace' /\ RecordPending'
  <2>1. pc' = "idle" => nameAt' \in 0 .. Len(super'[cur'].records)
    BY <1>4, <1>6, <1>7, <1>1
  <2>2. QED
    BY <1>7, <2>1 DEF RootPlace, RecordPending, NoRecord, Record
<1>13. QED
  BY <1>1, <1>7, <1>8, <1>9, <1>10, <1>11, <1>12
  DEF IInv, SessionPlace, CommitPlace, CommitOnce

(* unmount begins: the COMMIT record is still to be programmed. *)
LEMMA UnmountInvariant == ASSUME IInv, Unmount PROVE IInv'
<1>1. /\ UNCHANGED <<super, newest, root, cur, nameAt, tail, saved>>
      /\ todo' = Record("commit", 0) /\ pc = "idle" /\ pc' \in {"prog", "erase"}
      /\ pc' = "prog" => Len(super[cur].records) < Capacity
  BY DEF Unmount, Begin, flash
<1>2. todo' \in Records /\ todo'.state = "torn"
  BY <1>1, Sizes, BeginRecord
<1>3. TypeOK'
  BY <1>1, <1>2 DEF IInv, TypeOK
<1>4. \A s \in Supers : Live(s, "commit")' = {}
  <2>1. \A s \in Supers : Live(s, "commit") = {}
    BY <1>1 DEF IInv, CommitPlace
  <2>2. QED
    BY <1>1, <2>1 DEF Live
<1>5. QED
  BY <1>1, <1>2, <1>3, <1>4
  DEF IInv, SessionPlace, CommitPlace, CommitOnce, ErasedEmpty, RootPlace, RecordPending

(* Power is lost: an erased sector had no record to lose. *)
LEMMA CrashInvariant == ASSUME IInv, Crash PROVE IInv'
<1>1. /\ super' = [s \in Supers |-> IF super[s].head = "null" THEN Blank ELSE super[s]]
      /\ UNCHANGED <<newest, root, cur, nameAt, tail, todo, saved>> /\ pc' = "down"
  BY DEF Crash, ram
<1>2. Blank \in Sector /\ Blank.head = "null" /\ Blank.records = <<>>
  BY Sizes DEF Blank, Sector
<1>3. /\ super' \in [Supers -> Sector]
      /\ \A s \in Supers : super'[s].head = super[s].head /\ super'[s].records = super[s].records
  BY <1>1, <1>2 DEF IInv, TypeOK, ErasedEmpty
<1>4. TypeOK'
  BY <1>1, <1>3 DEF IInv, TypeOK
<1>5. \A s \in Supers : Live(s, "commit")' = Live(s, "commit")
  BY <1>3 DEF Live
<1>6. ErasedEmpty' /\ CommitOnce'
  BY <1>3, <1>5 DEF IInv, ErasedEmpty, CommitOnce
<1>7. CommitPlace'
  BY <1>1, <1>3, <1>5 DEF IInv, CommitPlace
<1>8. QED
  BY <1>1, <1>4, <1>6, <1>7 DEF IInv, SessionPlace, RootPlace, RecordPending

-----------------------------------------------------------------------------
(* Every step, and a stutter, keeps the invariant. *)
LEMMA StepInvariant == ASSUME IInv, [Next]_vars PROVE IInv'
<1>1. CASE Next
  <2>1. CASE Format           BY <2>1, FormatInvariant
  <2>2. CASE Mount            BY <2>2, MountInvariant
  <2>3. CASE Work             BY <2>3, QuietStepsInvariant
  <2>4. CASE RootMoves        BY <2>4, RootMovesInvariant
  <2>5. CASE EraseOther       BY <2>5, EraseOtherInvariant
  <2>6. CASE ProgHead         BY <2>6, HeadStepsInvariant
  <2>7. CASE ProgBasic        BY <2>7, ProgBasicInvariant
  <2>8. CASE ValidateHead     BY <2>8, HeadStepsInvariant
  <2>9. CASE ProgRecord       BY <2>9, ProgRecordInvariant
  <2>10. CASE SetWritten      BY <2>10, SetWrittenInvariant
  <2>11. CASE Unmount         BY <2>11, UnmountInvariant
  <2>12. CASE FlushMaps       BY <2>12, QuietStepsInvariant
  <2>13. CASE Crash           BY <2>13, CrashInvariant
  <2>14. QED
    BY <1>1, <2>1, <2>2, <2>3, <2>4, <2>5, <2>6, <2>7, <2>8, <2>9, <2>10, <2>11,
       <2>12, <2>13 DEF Next
<1>2. CASE UNCHANGED vars
  <2>1. UNCHANGED <<super, cur, nameAt, tail, pc, todo, saved, newest, root>>
    BY <1>2 DEF vars, flash, ram
  <2>2. \A s \in Supers : Live(s, "commit")' = Live(s, "commit")
    BY <2>1 DEF Live
  <2>3. TypeOK'
    BY <2>1 DEF IInv, TypeOK
  <2>4. QED
    BY <2>1, <2>2, <2>3
    DEF IInv, SessionPlace, CommitPlace, CommitOnce, ErasedEmpty, RootPlace, RecordPending
<1>3. QED
  BY <1>1, <1>2

(* The inductive invariant. *)
LEMMA Inductive == Spec => []IInv
<1>1. IInv /\ [Next]_vars => IInv'
  BY StepInvariant
<1>2. QED
  BY <1>1, InitInvariant, PTL DEF Spec

(* The superblock's state keeps its types: both sectors hold at most the    *)
(* records that fit, whatever superblock_change and prog_in_superblock do   *)
(* and wherever power is lost.                                              *)
THEOREM TypeCorrect == Spec => []TypeOK
<1>1. IInv => TypeOK
  BY DEF IInv
<1>2. QED
  BY <1>1, Inductive, PTL

(* While the system is up neither sector holds a valid COMMIT record, so    *)
(* the next mount tells a crash from an orderly stop.                       *)
THEOREM NoCommitWhileUp == Spec => []UpMeansNoCommit
<1>1. IInv => UpMeansNoCommit
  BY DEF IInv, CommitPlace, UpMeansNoCommit
<1>2. QED
  BY <1>1, Inductive, PTL

(* A mount that succeeds works on the superblock validated last, although   *)
(* select_supersector may prefer the older one.                             *)
THEOREM MountsNewest == Spec => []MountedNewest
<1>1. IInv => MountedNewest
  BY DEF IInv, SessionPlace, MountedNewest
<1>2. QED
  BY <1>1, Inductive, PTL
==============================================================================
