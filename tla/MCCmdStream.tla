---------------------------- MODULE MCCmdStream -----------------------------
(* A small instance of CmdStream for TLC. *)
EXTENDS CmdStream

\* The domains the repository's programs use, and one that disagrees.
WriteOrGtt == {[dom |-> "vram", write |-> TRUE], [dom |-> "gtt", write |-> FALSE]}
=============================================================================
