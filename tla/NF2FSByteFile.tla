----------------------------- MODULE NF2FSByteFile -----------------------------
(***************************************************************************)
(* What a file promises: it is a sequence of bytes.  A write replaces or    *)
(* appends bytes at a position inside the file; a write that runs out of    *)
(* space may leave the beginning of an append.  Nothing else changes the    *)
(* bytes, whatever happens to their place in flash.                         *)
(*                                                                         *)
(* A byte is the position it was written for and a tag: the caller's byte   *)
(* for a position is never the one it replaces.                             *)
(***************************************************************************)
EXTENDS Integers, Sequences

CONSTANT MaxSize     \* file_max: the largest size of a file

VARIABLE content     \* the bytes of the file, as a sequence

NewByte(bytes, p) == <<p - 1, IF p <= Len(bytes) THEN 1 - bytes[p][2] ELSE 0>>

Overlay(bytes, pos, len) ==
  [p \in 1 .. (IF pos + len > Len(bytes) THEN pos + len ELSE Len(bytes)) |->
     IF p \in pos + 1 .. pos + len THEN NewByte(bytes, p) ELSE bytes[p]]

Init == content = <<>>

Write(pos, len) == content' = Overlay(content, pos, len)

(* The file is deleted; the next one begins empty. *)
Delete == content' = <<>>

Next ==
  \/ \E pos \in 0 .. Len(content) : \E len \in 1 .. MaxSize - pos : Write(pos, len)
  \/ Delete

Spec == Init /\ [][Next]_content
=============================================================================
