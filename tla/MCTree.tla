-------------------------------- MODULE MCTree --------------------------------
(* NF2FSTree for TLC: names of which none begins with another are           *)
(* interchangeable, and so are ids other than the root's.                   *)
EXTENDS NF2FSTree

(* One name begins with every other: for configurations without symmetry.   *)
LongerNames == LET n == CHOOSE n \in Names : TRUE IN {n} \X (Names \ {n})

TreeSymmetry == Permutations(Names) \cup Permutations(Ids \ {Root})
=============================================================================
