--------------------------- MODULE MCRegisterFile ---------------------------
(***************************************************************************)
(* Every RAT, and the first and the last element of the other arrays, in   *)
(* every order of two calls before a dispatch.                             *)
(***************************************************************************)
EXTENDS RegisterFile

AllRats == 0 .. 11
Ends == {0, 15}
FetchEnds == {816, 817, 991}
LoopCounts == {1, 32}
TwoStarts == {1, 2}

\* No dimension, and two groups of the largest size.
Groups == {<<>>, <<4095>>, <<15, 13, 21>>}

\* One thread more than the register of the group's size has bits for.
LargeGroups == {<<16, 16, 16>>}
=============================================================================
