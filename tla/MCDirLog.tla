------------------------------ MODULE MCDirLog ------------------------------
(* NF2FSDirLog for TLC: the files are interchangeable. *)
EXTENDS NF2FSDirLog

FileSymmetry == Permutations(Files)
=============================================================================
