---------------------------- MODULE MCSurfaceSync ----------------------------
(***************************************************************************)
(* Lines of 8 bytes and words of 6 bits: a buffer of a line and a half, a  *)
(* buffer of part of a line, a program as large as its object.             *)
(***************************************************************************)
EXTENDS SurfaceSync, TLC

CONSTANTS o1, o2
Objects == Permutations({o1, o2})

FewDwords == {3}
FewBytes == {4}
CodeSizes == {16}
AtStart == {0}
SecondLine == {0, 8}
=============================================================================
