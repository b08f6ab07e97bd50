------------------------------- MODULE NF2FSNames -------------------------------
(***************************************************************************)
(* What a directory promises for its files: a name is there from its        *)
(* creation to its deletion, and what a reader finds under it is what was   *)
(* saved last.  Garbage collection, and closing and opening the directory,  *)
(* change neither.                                                         *)
(***************************************************************************)
EXTENDS Integers

CONSTANT Files

VARIABLE saved    \* saved[f]: whether f is there, and the version saved last

Versions == {1, 2}
Nothing  == [named |-> FALSE, version |-> 0]

Init == saved = [f \in Files |-> Nothing]

Create(f) ==
  /\ ~ saved[f].named
  /\ saved' = [saved EXCEPT ![f] = [named |-> TRUE, version |-> 0]]

Save(f, v) ==
  /\ saved[f].named
  /\ saved' = [saved EXCEPT ![f].version = v]

(* A small file grows big: what was saved is gone until the next save. *)
Forget(f) ==
  /\ saved[f].named
  /\ saved' = [saved EXCEPT ![f].version = 0]

Delete(f) == saved' = [saved EXCEPT ![f] = Nothing]

Next == \E f \in Files : Create(f) \/ Forget(f) \/ Delete(f) \/ \E v \in Versions : Save(f, v)

Spec == Init /\ [][Next]_saved
=============================================================================
