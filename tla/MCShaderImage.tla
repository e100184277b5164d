--------------------------- MODULE MCShaderImage ---------------------------
(***************************************************************************)
(* Headers of ten bytes, code of up to two paddings, a byte of each sign,  *)
(* and a checksum of three bits, which overflows.                          *)
(***************************************************************************)
EXTENDS ShaderImage

Chars == {-1, 0, 3}
CodeSizes == {1, 2, 6}
=============================================================================
