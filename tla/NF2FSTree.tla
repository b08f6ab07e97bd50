------------------------------- MODULE NF2FSTree -------------------------------
(***************************************************************************)
(* Directories in directories: path resolution and the tree in RAM          *)
(* (NF2FS_tree.c), the lists of open files and directories, and how NF2FS.c *)
(* opens, closes, creates and deletes (NF2FS_dir.c, NF2FS_file.c).          *)
(*                                                                         *)
(* The log of a directory is here what lookups tell apart: the live names   *)
(* in each sector of its chain.  Its tail is the number of its last sector; *)
(* it is kept in the directory's name in the father's log, in the tree and  *)
(* in the handle.  Garbage collection is NF2FSDirLog's; free sectors are    *)
(* always found; an id given back may come again, as it does when the map   *)
(* is renewed.                                                             *)
(***************************************************************************)
EXTENDS Integers, Sequences, SequencesExt, FiniteSets

CONSTANTS
  Names,        \* names of files and directories
  Begins,       \* <<n, m>>: name m begins with name n
  Ids,          \* ids of files and directories
  Root,         \* NF2FS_ID_ROOT
  TreeMax,      \* tree->entry_num
  FileListMax,  \* NF2FS_FILE_LIST_MAX
  DirListMax,   \* NF2FS_DIR_LIST_MAX
  PathLen,      \* bound on the names in a path, for TLC
  ChainMax,     \* bound on the sectors of a directory, for TLC
  Null,         \* NF2FS_NULL
  EmptyOnly,    \* assumption: only empty directories are deleted
  RoomInTree    \* assumption: a directory is created only while the tree has a free slot

ASSUME IdsAssumption   == IsFiniteSet(Ids) /\ Root \in Ids /\ Null \notin Ids
ASSUME NamesAssumption == Begins \subseteq Names \X Names /\ Null \notin Names
ASSUME SizesAssumption ==
  {TreeMax, FileListMax, DirListMax, PathLen, ChainMax} \subseteq Nat \ {0}
ASSUME FlagsAssumption == EmptyOnly \in BOOLEAN /\ RoomInTree \in BOOLEAN

Paths == UNION {[1 .. n -> Names] : n \in 1 .. PathLen}

VARIABLES
  log,      \* log[d][s]: the live names in sector s of directory d; <<>>: no directory
  super,    \* the root's tail in the superblock
  used,     \* ids handed out
  tree,     \* ram_tree->tree_array
  dirs,     \* dir_list, the last one opened first
  files,    \* file_list, the last one opened first
  fault     \* an assertion failed or freed memory is linked: nothing follows

vars == <<log, super, used, tree, dirs, files, fault>>

(* What an operation works on: full are the directories whose last sector   *)
(* has no room for what is programmed next, calls the calls of dir_prog that *)
(* have not returned, the last one first, at the directory that a path has  *)
(* led to, err that the operation has failed.                               *)
Memory(full) ==
  [log |-> log, super |-> super, used |-> used, tree |-> tree, dirs |-> dirs,
   files |-> files, full |-> full, calls |-> <<>>, at |-> Root,
   err |-> FALSE, fault |-> FALSE]

(* Of a program that stopped no more is said. *)
Become(m) ==
  /\ fault' = m.fault
  /\ IF m.fault THEN UNCHANGED <<log, super, used, tree, dirs, files>>
     ELSE /\ log' = m.log /\ super' = m.super /\ used' = m.used /\ tree' = m.tree
          /\ dirs' = m.dirs /\ files' = m.files

Failed(m)  == [m EXCEPT !.err = TRUE]
Stopped(m) == [m EXCEPT !.err = TRUE, !.fault = TRUE]

(* Only directories that are open, or opened on the way, are programmed. *)
MayFill ==
  {d \in Ids : /\ log[d] # <<>> /\ Len(log[d]) < ChainMax
               /\ \/ \E i \in DOMAIN tree : tree[i].id = d
                  \/ \E k \in DOMAIN dirs : dirs[k].id = d}

-----------------------------------------------------------------------------
(* Names in flash. *)
Name(kind, name, id, tail) == [kind |-> kind, name |-> name, id |-> id, tail |-> tail]

(* memcmp(name, fname->name, namelen). *)
Matches(name, stored) == name = stored \/ <<name, stored>> \in Begins

(* Mutant of Traversal: only the newest sector. *)
TraversalTail(m, d, tail) == {<<tail, k>> : k \in DOMAIN m.log[d][tail]}

(* The places a traversal sees that begins in sector tail; it goes from the *)
(* newest sector to the oldest, and forward in each.                        *)
Traversal(m, d, tail) == UNION {{<<s, k>> : k \in DOMAIN m.log[d][s]} : s \in 1 .. tail}

Before(p, q) == p[1] > q[1] \/ (p[1] = q[1] /\ p[2] < q[2])
FirstIn(places) == CHOOSE p \in places : \A q \in places : q = p \/ Before(p, q)

At(m, d, p) == m.log[d][p[1]][p[2]]

(* dtraverse_name: where it would stop. *)
Found(m, d, tail, kind, name) ==
  {p \in Traversal(m, d, tail) : At(m, d, p).kind = kind /\ Matches(name, At(m, d, p).name)}

(* A sector that was given back fails the check of its head. *)
Readable(m, d, tail) == tail <= Len(m.log[d])

(* Mutant of Without: what comes behind it is lost. *)
WithoutRest(list, id) ==
  FoldRight(LAMBDA h, rest : IF h.id = id THEN <<>> ELSE <<h>> \o rest, list, <<>>)

(* A list or a sector without what has the id. *)
Without(list, id) ==
  FoldLeft(LAMBDA kept, h : IF h.id = id THEN kept ELSE Append(kept, h), <<>>, list)

Rewritten(chains, d, chain) == [chains EXCEPT ![d] = chain]

(* data_delete on the name of an id. *)
Erased(m, d, id) ==
  [m EXCEPT !.log = Rewritten(@, d, [s \in DOMAIN m.log[d] |-> Without(m.log[d][s], id)])]

-----------------------------------------------------------------------------
(* The tree. *)
NoSlot == [id |-> Null, father |-> Null, name |-> Null, stored |-> Null, tail |-> 0]
Slot(id, father, name, stored, tail) ==
  [id |-> id, father |-> father, name |-> name, stored |-> stored, tail |-> tail]

SlotsOf(tr, id) == {i \in DOMAIN tr : tr[i].id = id}
FirstOf(slots)  == CHOOSE i \in slots : \A j \in slots : i <= j

(* tree_entry_name_find. *)
NamedSlots(tr, father, name) ==
  {i \in DOMAIN tr : tr[i].id # Null /\ tr[i].father = father /\ Matches(name, tr[i].name)}

(* tree_entry_add: nothing when the id is there or the tree is full. *)
TreeAdd(tr, entry) ==
  IF SlotsOf(tr, entry.id) # {} \/ SlotsOf(tr, Null) = {} THEN tr
  ELSE [tr EXCEPT ![FirstOf(SlotsOf(tr, Null))] = entry]

TreeRemove(tr, id) ==
  IF SlotsOf(tr, id) = {} THEN tr ELSE [tr EXCEPT ![FirstOf(SlotsOf(tr, id))] = NoSlot]

-----------------------------------------------------------------------------
(* Open directories. *)
HandleIn(list, id) == CHOOSE k \in DOMAIN list : list[k].id = id
IsIn(list, id)     == \E k \in DOMAIN list : list[k].id = id

DirHandle(id, father, name, tail) ==
  [id |-> id, father |-> father, name |-> name, tail |-> tail]

(* dir_lowopen of what a slot of the tree names. *)
LowOpened(m, slot) ==
  IF IsIn(m.dirs, slot.id) THEN m
  ELSE IF ~ Readable(m, slot.id, slot.tail) THEN Failed(m)
  ELSE [m EXCEPT !.dirs = <<DirHandle(slot.id, slot.father, slot.stored, slot.tail)>> \o @]

Moved(list, i, tail) == [list EXCEPT ![i].tail = tail]

(* Mutant of MovedInTree: the tree keeps the old tail. *)
NotMovedInTree(tr, i, tail) == tr

(* dir_update begins with the tree. *)
MovedInTree(tr, i, tail) == Moved(tr, i, tail)

(* The last call finds its sector full: a new one, and dir_update, which    *)
(* calls dir_prog for the new tail in the father's log.                     *)
Extended(m) ==
  LET d    == Head(m.calls).dir
      k    == HandleIn(m.dirs, d)
      h    == m.dirs[k]
      tail == h.tail + 1
      own  == SlotsOf(m.tree, d)
      up   == SlotsOf(m.tree, h.father)
      new  == [m EXCEPT !.full = @ \ {d}, !.dirs = Moved(@, k, tail),
                        !.log = Rewritten(@, d, SubSeq(m.log[d], 1, h.tail) \o <<<<>>>>)]
      told == [new EXCEPT !.tree = MovedInTree(@, FirstOf(own), tail)]
      open == LowOpened(told, told.tree[FirstOf(up)])
      call == [dir |-> h.father, names |-> <<Name("dir", h.name, d, tail)>>]
  IN  IF own = {} THEN Failed(new)
      ELSE IF d = Root THEN [told EXCEPT !.super = tail]
      ELSE IF up = {} THEN Failed(told)
      ELSE IF open.err THEN open
      ELSE [Erased(open, h.father, d) EXCEPT !.calls = <<call>> \o @]

(* It has room: the names are programmed, and the call returns. *)
Written(m) ==
  LET c    == Head(m.calls)
      old  == m.log[c.dir]
      tail == m.dirs[HandleIn(m.dirs, c.dir)].tail
      new  == [s \in DOMAIN old |-> IF s = tail THEN old[s] \o c.names ELSE old[s]]
  IN  [m EXCEPT !.log = Rewritten(@, c.dir, new), !.calls = Tail(@)]

Advanced(m) ==
  IF m.err \/ m.calls = <<>> THEN m
  ELSE IF Head(m.calls).dir \in m.full THEN Extended(m) ELSE Written(m)

AdvancedBy(m, steps) == FoldLeft(LAMBDA n, i : Advanced(n), m, [i \in 1 .. steps |-> i])

(* dir_prog; what has no name in it is the empty sequence.  No directory is *)
(* extended twice, so that there are no more steps.                         *)
Programmed(m, d, names) ==
  LET called == [m EXCEPT !.calls = <<[dir |-> d, names |-> names]>>]
  IN  [AdvancedBy(called, 2 * Cardinality(m.full) + 1) EXCEPT !.calls = <<>>]

-----------------------------------------------------------------------------
(* father_dir_flash_find never advances in the path: it looks for the first *)
(* name that is missing, in the directory found last, until it is not       *)
(* there or the tree is full; what it found is in the tree by then.         *)
Sought(x, name) ==
  LET free  == SlotsOf(x.m.tree, Null)
      found == Found(x.m, x.dir, x.tail, "dir", name)
      e     == At(x.m, x.dir, FirstIn(found))
      slot  == Slot(e.id, x.dir, name, e.name, e.tail)
  IN  IF free = {} \/ ~ Readable(x.m, x.dir, x.tail) \/ found = {} THEN x
      ELSE [m    |-> [x.m EXCEPT !.tree = [x.m.tree EXCEPT ![FirstOf(free)] = slot]],
            dir  |-> e.id,
            tail |-> e.tail]

SoughtBy(x, name, steps) == FoldLeft(LAMBDA y, i : Sought(y, name), x, [i \in 1 .. steps |-> i])

Missed(m, slot, name) ==
  LET end == SoughtBy([m |-> m, dir |-> slot.id, tail |-> slot.tail], name, TreeMax)
  IN  IF SlotsOf(end.m.tree, Null) = {} THEN Stopped(end.m) ELSE Failed(end.m)

(* father_dir_find: from the root on, as long as the tree has the names;    *)
(* the directory it leads to is opened.                                     *)
Followed(tr, x, name) ==
  LET next == NamedSlots(tr, tr[x.slot].id, name)
  IN  IF x.missing # Null THEN x
      ELSE IF next = {} THEN [x EXCEPT !.missing = name]
      ELSE [x EXCEPT !.slot = FirstOf(next)]

FollowedBy(tr, x, names) == FoldLeft(LAMBDA y, name : Followed(tr, y, name), x, names)

Resolved(m, names) ==
  LET end  == FollowedBy(m.tree, [slot |-> 1, missing |-> Null], names)
      slot == m.tree[end.slot]
  IN  IF end.missing # Null THEN Missed(m, slot, end.missing)
      ELSE LowOpened([m EXCEPT !.at = slot.id], slot)

FatherOf(m) == m.dirs[HandleIn(m.dirs, m.at)]

(* id_alloc: any free id; Null when there is none. *)
NewIds == IF used = Ids THEN {Null} ELSE Ids \ used

-----------------------------------------------------------------------------
Init ==
  /\ log = [d \in Ids |-> IF d = Root THEN <<<<>>>> ELSE <<>>]
  /\ super = 1 /\ used = {Root}
  /\ tree = [i \in 1 .. TreeMax |-> IF i = 1 THEN Slot(Root, Null, Null, Null, 1) ELSE NoSlot]
  /\ dirs = <<DirHandle(Root, Null, Null, 1)>> /\ files = <<>>
  /\ fault = FALSE

(* file_open. *)
FileOpened(m, h, name, id) ==
  LET found == Found(m, h.id, h.tail, "file", name)
      new   == Programmed([m EXCEPT !.used = @ \cup {id}], h.id, <<Name("file", name, id, 0)>>)
      Listed(n, f) == [n EXCEPT !.files = <<[id |-> f, father |-> h.id, name |-> name]>> \o @]
      old   == At(m, h.id, FirstIn(found)).id
  IN  IF found # {} THEN IF IsIn(m.files, old) THEN m ELSE Listed(m, old)
      ELSE IF id = Null THEN Failed(m)
      ELSE IF new.err THEN new ELSE Listed(new, id)

OpenFile(path, full) ==
  /\ Len(files) < FileListMax
  /\ LET m == Resolved(Memory(full), Front(path)) IN
     \/ m.err /\ Become(m)
     \/ ~ m.err /\ \E id \in NewIds : Become(FileOpened(m, FatherOf(m), Last(path), id))

(* dir_open.  A name that is not in the tree is looked for among the files; *)
(* if it is one, the handle gets a tail that was never set.                 *)
DirOpened(m, h, name, id) ==
  LET slots == NamedSlots(m.tree, h.id, name)
      new   == Programmed([m EXCEPT !.used = @ \cup {id}, !.log = Rewritten(@, id, <<<<>>>>)],
                          h.id, <<Name("dir", name, id, 1)>>)
  IN  IF slots # {} THEN LowOpened(m, m.tree[FirstOf(slots)])
      ELSE IF Found(m, h.id, h.tail, "file", name) # {} THEN Stopped(m)
      ELSE IF id = Null THEN Failed(m)
      ELSE IF new.err THEN new
      ELSE [new EXCEPT !.dirs = <<DirHandle(id, h.id, name, 1)>> \o @,
                       !.tree = TreeAdd(@, Slot(id, h.id, name, name, 1))]

OpenDir(path, full) ==
  /\ Len(dirs) < DirListMax
  /\ LET m == Resolved(Memory(full), Front(path)) IN
     \/ m.err /\ Become(m)
     \/ /\ ~ m.err
        /\ RoomInTree => \/ NamedSlots(m.tree, m.at, Last(path)) # {}
                         \/ SlotsOf(m.tree, Null) # {}
        /\ \E id \in NewIds : Become(DirOpened(m, FatherOf(m), Last(path), id))

(* Mutant of Busy: open files do not matter. *)
BusyNever(d) == FALSE

(* dir_close refuses while files of the directory are open. *)
Busy(d) == \E k \in DOMAIN files : files[k].father = d

(* dir_close, which records the old space first. *)
CloseDir(d, full) ==
  /\ IsIn(dirs, d) /\ ~ Busy(d)
  /\ LET m == Programmed(Memory(full), d, <<>>)
     IN  Become(IF m.err THEN m ELSE [m EXCEPT !.dirs = Without(@, d)])

(* dir_delete: dir_free gets the list by value, so that the head stays the  *)
(* first one although it is freed.                                          *)
DirDeleted(d) ==
  LET h    == dirs[HandleIn(dirs, d)]
      gone == [Erased(Memory({}), h.father, d) EXCEPT
                 !.log = Rewritten(@, d, <<>>), !.tree = TreeRemove(@, d), !.used = @ \ {d}]
  IN  IF dirs[1].id = d THEN Stopped(gone) ELSE [gone EXCEPT !.dirs = Without(@, d)]

DeleteDir(d) ==
  /\ IsIn(dirs, d) /\ IsIn(dirs, dirs[HandleIn(dirs, d)].father)
  /\ EmptyOnly => Traversal(Memory({}), d, Len(log[d])) = {}
  /\ Become(DirDeleted(d))

(* file_free: the assertion after the removal fails for any file but the    *)
(* one at the head.                                                         *)
Freed(m, f) == IF m.files[1].id = f THEN [m EXCEPT !.files = Tail(@)] ELSE Stopped(m)

(* file_flush of a file with data to write. *)
Flushed(m, f) ==
  LET d == m.files[HandleIn(m.files, f)].father
  IN  IF m.err THEN m ELSE IF IsIn(m.dirs, d) THEN Programmed(m, d, <<>>) ELSE Failed(m)

(* file_close of a file that is dirty, or not. *)
CloseFile(f, full) ==
  /\ IsIn(files, f)
  /\ \/ Become(Freed(Memory({}), f))
     \/ LET m == Flushed(Memory(full), f) IN Become(IF m.err THEN m ELSE Freed(m, f))

(* Mutant of FileDeleted: the id is not given back. *)
FileDeletedNoId(f) ==
  LET d    == files[HandleIn(files, f)].father
      gone == Erased(Memory({}), d, f)
  IN  IF IsIn(dirs, d) THEN Freed(gone, f) ELSE Failed(gone)

(* file_delete.  Without its directory open only the name goes, and only if *)
(* there is no data in flash: otherwise nothing does.                       *)
FileDeleted(f) ==
  LET d    == files[HandleIn(files, f)].father
      gone == Erased(Memory({}), d, f)
  IN  IF IsIn(dirs, d) THEN Freed([gone EXCEPT !.used = @ \ {f}], f) ELSE Failed(gone)

DeleteFile(f) == IsIn(files, f) /\ Become(FileDeleted(f))

FlushedAll(m, list, dirty) ==
  FoldLeft(LAMBDA n, f : IF f.id \in dirty THEN Flushed(n, f.id) ELSE n, m, list)
StoredAll(m, list) ==
  FoldLeft(LAMBDA n, h : IF n.err THEN n ELSE Programmed(n, h.id, <<>>), m, list)

(* unmount flushes the dirty files and programs the old space of every open *)
(* directory; mount begins with the root.                                   *)
Remount(full, dirty) ==
  LET flushed == FlushedAll(Memory(full), files, dirty)
      stored  == StoredAll(flushed, flushed.dirs)
  IN  Become(IF stored.err THEN stored
             ELSE [stored EXCEPT
                     !.tree = [i \in 1 .. TreeMax |->
                                 IF i = 1 THEN Slot(Root, Null, Null, Null, stored.super)
                                 ELSE NoSlot],
                     !.dirs = <<DirHandle(Root, Null, Null, stored.super)>>, !.files = <<>>])

(* No path names the root itself, so no caller has its handle.  That of a   *)
(* directory which was opened on the way is had by dir_open.                *)
Next ==
  /\ ~ fault
  /\ \E full \in SUBSET MayFill :
       \/ \E path \in Paths : OpenFile(path, full) \/ OpenDir(path, full)
       \/ \E id \in Ids \ {Root} : CloseDir(id, full) \/ CloseFile(id, full)
       \/ \E id \in Ids \ {Root} : DeleteDir(id) \/ DeleteFile(id)
       \/ \E dirty \in SUBSET {files[k].id : k \in DOMAIN files} : Remount(full, dirty)

Spec == Init /\ [][Next]_vars

-----------------------------------------------------------------------------
(* The live names of a directory, in whatever sector. *)
NamesIn(d) == UNION {ToSet(log[d][s]) : s \in DOMAIN log[d]}

TypeOK ==
  /\ \A d \in Ids : Len(log[d]) <= ChainMax
  /\ \A d \in Ids : \A e \in NamesIn(d) :
       e.kind \in {"dir", "file"} /\ e.name \in Names /\ e.id \in Ids /\ e.tail \in 0 .. ChainMax
  /\ super \in 1 .. ChainMax /\ Root \in used /\ used \subseteq Ids
  /\ Len(tree) = TreeMax /\ tree[1].id = Root
  /\ \A id \in Ids : Cardinality(SlotsOf(tree, id)) <= 1
  /\ IsIn(dirs, Root)
  /\ fault \in BOOLEAN

(* The tail of a directory is kept in four places; they agree, and a lookup *)
(* that begins at any of them sees the whole directory.                     *)
TailsAgree ==
  /\ super = Len(log[Root]) /\ tree[1].tail = super
  /\ \A d \in Ids : \A e \in NamesIn(d) : e.kind = "dir" => e.tail = Len(log[e.id])
  /\ \A i \in 2 .. TreeMax : tree[i].id # Null =>
       LET t == tree[i] IN
       /\ Name("dir", t.stored, t.id, t.tail) \in NamesIn(t.father)
  /\ \A k \in DOMAIN dirs : dirs[k].tail = Len(log[dirs[k].id])

(* An id is in use when it names one thing that a path leads to, once. *)
IdsExact ==
  /\ used = {Root} \cup UNION {{e.id : e \in NamesIn(d)} : d \in Ids}
  /\ \A id \in Ids :
       Cardinality(UNION {{<<d, e>> : e \in {x \in NamesIn(d) : x.id = id}} : d \in Ids}) <= 1

(* An open file is the one that was asked for, and it can be flushed and    *)
(* deleted: its directory is open, for only then data_delete and file_flush *)
(* work.                                                                    *)
FilesReachable ==
  \A k \in DOMAIN files :
    LET f == files[k] IN
    /\ IsIn(dirs, f.father) /\ Name("file", f.name, f.id, 0) \in NamesIn(f.father)

(* No directory has two files of one name: one could not be opened.         *)
FilesOnce ==
  \A d \in Ids : \A e, g \in NamesIn(d) :
    e.kind = "file" /\ g.kind = "file" /\ e.name = g.name => e.id = g.id

(* The same of directories. *)
DirsOnce ==
  \A d \in Ids : \A e, g \in NamesIn(d) :
    e.kind = "dir" /\ g.kind = "dir" /\ e.name = g.name => e.id = g.id

NoFault == ~ fault
=============================================================================
