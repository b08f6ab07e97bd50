------------------------------ MODULE NF2FSDirRead ------------------------------
(***************************************************************************)
(* Listing a directory (dir_read, NF2FS.c:905-1032) while it changes.  The  *)
(* program is single-threaded, but each call of dir_read returns one name,  *)
(* and between two calls names are created, deleted and moved to the tail   *)
(* of the log.  A handle keeps the sector and the place in it where the     *)
(* next call goes on; it reads the newest sector first and each sector from *)
(* its head.                                                               *)
(*                                                                         *)
(* A place in a sector is the number of an entry.  dir_read begins a window *)
(* at the entry it is at, so that the entry is in the window if it is no    *)
(* longer than the cache; the first window of a sector also holds the       *)
(* sector's head.  Whether a sector has room for an entry is any outcome.   *)
(* A listing finds no garbage collection between its calls: the place would *)
(* be in a sector given back.                                              *)
(***************************************************************************)
EXTENDS Integers, Sequences, FiniteSets

CONSTANTS
  Names,       \* names of files and subdirectories
  Dirs,        \* those of subdirectories: dir_update moves them to the tail
  NameLens,    \* lengths of name entries
  OtherLens,   \* lengths of data, indexes and records of old space
  CacheSize,   \* cfg->cache_size
  HeadSize,    \* sizeof(NF2FS_head_t)
  HeadLen,     \* sizeof(NF2FS_dir_sector_flash_t)
  MaxSectors,  \* bounds on sectors and on entries in a sector, for TLC
  MaxEntries,
  Null,        \* no name
  StillDirs    \* assumption: no subdirectory gets a new sector during a listing

Lens == NameLens \cup OtherLens

ASSUME NamesAssumption == Dirs \subseteq Names /\ Null \notin Names
ASSUME SizesAssumption ==
  {CacheSize, HeadSize, HeadLen, MaxSectors, MaxEntries} \cup Lens \subseteq Nat \ {0}
ASSUME StillAssumption == StillDirs \in BOOLEAN

(* After an entry that is no name and ends within a head of the window's    *)
(* end, dir_read takes the next head from past its buffer; no entry does.   *)
ASSUME OverrunAssumption ==
  \A len \in Lens, base \in {0, HeadLen} :
    base + len <= CacheSize => base + len + HeadSize <= CacheSize

VARIABLES
  log,     \* log[s][i]: the entries of the chain's sectors, oldest sector first
  pos,     \* dir->pos_sector and pos_off: entry at of sector; at 0: its head
  busy,    \* in a call of dir_read
  ended,   \* the last call said that there is no more
  got,     \* got[n]: how often the calls since the first have returned n
  still    \* the names there at the first call and not deleted since

vars == <<log, pos, busy, ended, got, still>>

Entry(name, len) == [name |-> name, len |-> len]
Place(s, i)      == [sector |-> s, at |-> i]
Unset            == Place(0, 0)

Live(n)   == {p \in UNION {{s} \X DOMAIN log[s] : s \in DOMAIN log} : log[p[1]][p[2]].name = n}
LiveNames == {n \in Names : Live(n) # {}}

-----------------------------------------------------------------------------
Init ==
  /\ log = <<<<>>>> /\ pos = Unset /\ busy = FALSE /\ ended = FALSE
  /\ got = [n \in Names |-> 0] /\ still = {}

(* dir_prog of an entry: to the last sector, or to a new one. *)
Added(l, e, extended) ==
  IF extended THEN Append(l, <<e>>) ELSE [l EXCEPT ![Len(l)] = Append(@, e)]

Bounded(l) == Len(l) <= MaxSectors /\ \A s \in DOMAIN l : Len(l[s]) <= MaxEntries

(* create_file, create_dir. *)
Create(n, len, extended) ==
  /\ ~ busy /\ Live(n) = {}
  /\ log' = Added(log, Entry(n, len), extended) /\ Bounded(log')
  /\ UNCHANGED <<pos, busy, ended, got, still>>

(* file_flush.  To a listing, data and what has been deleted are the same. *)
Save(len, extended) ==
  /\ ~ busy
  /\ log' = Added(log, Entry(Null, len), extended) /\ Bounded(log')
  /\ UNCHANGED <<pos, busy, ended, got, still>>

(* data_delete of a name. *)
Erased(p) == [log EXCEPT ![p[1]][p[2]].name = Null]

(* file_delete, dir_delete. *)
Delete(n) ==
  /\ ~ busy
  /\ \E p \in Live(n) : log' = Erased(p)
  /\ still' = still \ {n}
  /\ UNCHANGED <<pos, busy, ended, got>>

(* dir_update of a subdirectory: its name is deleted and programmed again. *)
Move(n, extended) ==
  /\ ~ busy
  /\ StillDirs => pos = Unset
  /\ \E p \in Live(n) :
       log' = Added(Erased(p), Entry(n, log[p[1]][p[2]].len), extended) /\ Bounded(log')
  /\ UNCHANGED <<pos, busy, ended, got, still>>

(* dir_close, which records the old space, and dir_open: only a new handle  *)
(* begins a new listing.                                                    *)
Reopen(len, extended) ==
  /\ ~ busy
  /\ log' = Added(log, Entry(Null, len), extended) /\ Bounded(log')
  /\ pos' = Unset /\ ended' = FALSE
  /\ got' = [n \in Names |-> 0] /\ still' = {}
  /\ UNCHANGED busy

(* A call of dir_read begins; the first one takes the tail. *)
Call ==
  /\ ~ busy /\ busy' = TRUE /\ ended' = FALSE
  /\ IF pos = Unset THEN pos' = Place(Len(log), 0) /\ still' = LiveNames
     ELSE UNCHANGED <<pos, still>>
  /\ UNCHANGED <<log, got>>

(* The entry that a pass of dir_read's loop looks at. *)
Current == IF pos.at = 0 THEN 1 ELSE pos.at
Here    == log[pos.sector][Current]

(* Mutant of InWindow: every window begins with the sector's head. *)
InWindowHead == HeadLen + Here.len <= CacheSize

InWindow == (IF pos.at = 0 THEN HeadLen ELSE 0) + Here.len <= CacheSize

(* The log ends here: the sector before this one is next, or nothing is. *)
AtEnd == Current > Len(log[pos.sector])

(* Mutant of Older: the place in the sector is kept. *)
OlderKept == Place(pos.sector - 1, Current)

Older == Place(pos.sector - 1, 0)

NextSector ==
  /\ busy /\ AtEnd /\ pos.sector > 1
  /\ pos' = Older
  /\ UNCHANGED <<log, busy, ended, got, still>>

NoMore ==
  /\ busy /\ AtEnd /\ pos.sector = 1
  /\ pos' = Place(1, Current) /\ busy' = FALSE /\ ended' = TRUE
  /\ UNCHANGED <<log, got, still>>

(* The entry is cut by the window, and is read again from its head on. *)
ReadAgain ==
  /\ busy /\ ~ AtEnd /\ ~ InWindow
  /\ pos' = Place(pos.sector, Current)
  /\ UNCHANGED <<log, busy, ended, got, still>>

(* Mutants of Passed: an entry is left out; a name is not passed when it is *)
(* returned.                                                                *)
PassedTwo == Place(pos.sector, Current + 2)

PassedNot == IF Here.name = Null THEN Place(pos.sector, Current + 1)
             ELSE Place(pos.sector, Current)

Passed == Place(pos.sector, Current + 1)

Skip ==
  /\ busy /\ ~ AtEnd /\ InWindow /\ Here.name = Null
  /\ pos' = Passed
  /\ UNCHANGED <<log, busy, ended, got, still>>

Return ==
  /\ busy /\ ~ AtEnd /\ InWindow /\ Here.name # Null
  /\ pos' = Passed /\ busy' = FALSE
  /\ got' = [got EXCEPT ![Here.name] = @ + 1]
  /\ UNCHANGED <<log, ended, still>>

(* A pass of the loop in dir_read. *)
Pass == NextSector \/ NoMore \/ ReadAgain \/ Skip \/ Return

Next ==
  \/ \E extended \in BOOLEAN :
       \/ \E n \in Names, len \in NameLens : Create(n, len, extended)
       \/ \E len \in OtherLens : Save(len, extended) \/ Reopen(len, extended)
       \/ \E n \in Dirs : Move(n, extended)
  \/ \E n \in Names : Delete(n)
  \/ Call \/ Pass

Spec == Init /\ [][Next]_vars

(* A call that has begun is run to its end. *)
FairSpec == Spec /\ WF_vars(Pass)

-----------------------------------------------------------------------------
Entries == [name : Names \cup {Null}, len : Lens]

TypeOK ==
  /\ log \in Seq(Seq(Entries)) /\ log # <<>>
  /\ pos \in [sector : 0 .. Len(log), at : Nat]
  /\ pos.sector = 0 => ~ busy /\ pos.at = 0
  /\ pos.sector > 0 => pos.at <= Len(log[pos.sector]) + 1
  /\ busy \in BOOLEAN /\ ended \in BOOLEAN
  /\ got \in [Names -> Nat] /\ still \subseteq Names

(* A name that is there from the first call on is listed once at most,      *)
(* whatever is added behind the reader or deleted around it.                *)
ListedOnce == \A n \in still : got[n] <= 1

(* When a call says that there is no more, every such name has been listed. *)
ListedAll == ended => \A n \in still : got[n] >= 1

(* Every call returns. *)
CallsReturn == busy ~> ~ busy
=============================================================================
