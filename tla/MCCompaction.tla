---------------------------- MODULE MCCompaction ----------------------------
(* Model-checking instances of Compaction: five parts of one row each, of  *)
(* which two or three fit a group.                                         *)
EXTENDS Compaction

OneRowEach == [f \in Parts |-> {f}]
=============================================================================
