--------------------------- MODULE RegisterLayout ---------------------------
(***************************************************************************)
(* The fields of the card's registers as src/evergreen_reg_auto.h declares *)
(* them, with those src/evergreen_reg.h and src/r800_state.cpp add.  A     *)
(* field is the set of the bits it occupies; a block of registers is a set *)
(* of pairs of an address and the fields of the register there.            *)
(***************************************************************************)
EXTENDS Integers

Bit == 0 .. 31

Flags(bits) == {{b} : b \in bits}
Bytes(n) == {8 * i .. 8 * i + 7 : i \in 0 .. n - 1}
Nibbles(n) == {4 * i .. 4 * i + 3 : i \in 0 .. n - 1}
Halves == {0 .. 15, 16 .. 31}
Corner == {0 .. 14, 16 .. 30}

\* Registers with the same fields; with none declared, the dword is the value.
Alike(addresses, fields) == addresses \X {fields}
Plain(addresses) == Alike(addresses, {Bit})
Reg(address, fields) == Alike({address}, fields)

Every(stride, a, b) == {a + stride * i : i \in 0 .. (b - a) \div stride}
Dwords(a, b) == Every(4, a, b)
Array(a, n, stride) == Every(stride, a, a + (n - 1) * stride)

-----------------------------------------------------------------------------
(* Configuration registers.                                                *)

VgtConfig ==
  Reg(\h88b0, {0 .. 9}) \cup Reg(\h88c0, {0 .. 2, 16 .. 18})
    \cup Reg(\h88c4, {0 .. 1, 6 .. 7, {5}}) \cup Reg(\h88d4, {0 .. 4})
    \cup Reg(\h88f0, Flags(0 .. 11)) \cup Reg(\h8958, {0 .. 5})
    \cup Reg(\h895c, {0 .. 1}) \cup Plain(Dwords(\h8960, \h8974))

PaConfig ==
  Alike({\h8a10, \h8a50}, {{31}}) \cup Reg(\h8a14, {{0}, 1 .. 2, {3}, {4}})
    \cup Reg(\h8a60, {0 .. 23}) \cup Reg(\h8b10, {0 .. 3, 8 .. 15})

SqConfig ==
  Reg(\h8c00, Flags(0 .. 1) \cup {b .. b + 1 : b \in Every(2, 18, 30)})
    \cup Reg(\h8c04, {0 .. 7, 16 .. 23, 28 .. 31})
    \cup Alike({\h8c08, \h8c0c}, {0 .. 7, 16 .. 23})
    \cup Alike({\h8c10, \h8c18}, Bytes(4))
    \cup Reg(\h8c14, Bytes(3)) \cup Reg(\h8c1c, Bytes(2))
    \cup Alike(Dwords(\h8c20, \h8c28), {0 .. 11, 16 .. 27})
    \cup Plain(Dwords(\h8c40, \h8c6c) \cup {\h8df8})

SxSpiConfig ==
  Plain(Dwords(\h8e10, \h8e1c) \cup {\h9010, \h9014, \h9870})
    \cup Reg(\h900c, Bytes(3)) \cup Reg(\h9100, {0 .. 17})
    \cup Reg(\h913c, {0 .. 3, 16 .. 31} \cup Flags(4 .. 7))
    \cup Reg(\h9494, {0 .. 1, {8}, {16}}) \cup Reg(\h9498, {{31}})
    \cup Reg(\h9508, {2 .. 3} \cup Flags({0, 1, 4, 28, 29}))
    \cup Reg(\h9874, {0 .. 30})

\* A color of five dwords for each kind of shader.
TdBorderColors ==
  UNION {Reg(a, {0 .. 4}) \cup Plain(Dwords(a + 4, a + 16)) : a \in Array(\ha400, 6, 20)}

-----------------------------------------------------------------------------
(* Context registers.                                                      *)

RenderFlags == {8 .. 10} \cup Flags(0 .. 7 \cup {12})

DbContext ==
  Reg(\h28000, RenderFlags) \cup Reg(\h28004, Flags(0 .. 1))
    \cup Reg(\h28008, {0 .. 10, 13 .. 23, {24}, {25}})
    \cup Reg(\h2800c, {0 .. 1, 2 .. 3, 4 .. 5, 13 .. 14, 19 .. 20, 21 .. 25}
                      \cup Flags(6 .. 12 \cup 15 .. 18 \cup 26 .. 31))
    \cup Reg(\h28010, {0 .. 1, 2 .. 4, {5}}) \cup Plain({\h28014, \h2802c})
    \cup Reg(\h28028, {0 .. 7, 16 .. 23})

ScreenAndDepth ==
  Alike({\h28030, \h28034, \h28200}, Halves)
    \cup Reg(\h28040, {0 .. 1, 4 .. 7, 8 .. 10, 12 .. 13, 16 .. 17, 20 .. 21, 24 .. 25}
                      \cup Flags(27 .. 31))
    \cup Reg(\h28044, {{0}, 8 .. 10}) \cup Plain(Dwords(\h28048, \h28054))
    \cup Reg(\h28058, {0 .. 10, 11 .. 21}) \cup Reg(\h2805c, {0 .. 21})
    \cup Alike(Array(\h28140, 16, 4) \cup Array(\h28180, 16, 4) \cup Array(\h281c0, 16, 4),
               {0 .. 8})

Scissors ==
  Reg(\h28204, Corner \cup {{31}}) \cup Reg(\h28208, Corner) \cup Reg(\h2820c, {0 .. 15})
    \cup Alike(Array(\h28210, 4, 8) \cup Array(\h28214, 4, 8), Corner)
    \cup Reg(\h28230, {0 .. 3, 4 .. 7, 8 .. 11, 12 .. 17, 18 .. 23, 24 .. 27, 28 .. 31})
    \cup Reg(\h28234, {0 .. 4, 8 .. 12})

TargetsAndViewports ==
  Alike({\h28238, \h2823c}, Nibbles(8))
    \cup Alike({\h28240} \cup Array(\h28250, 16, 8), Corner \cup {{31}})
    \cup Alike({\h28244} \cup Array(\h28254, 16, 8), Corner)
    \cup Plain(Array(\h282d0, 16, 8) \cup Array(\h282d4, 16, 8))
    \cup Reg(\h28350, {{0}}) \cup Alike(Array(\h28380, 32, 4), {0 .. 7})

\* The six coefficients of 16 viewports, and six clip planes of four.
BlendAndClip ==
  Plain(Dwords(\h28400, \h2840c) \cup Dwords(\h28414, \h28420) \cup {\h28438}
        \cup Dwords(\h2843c, \h285b8) \cup Dwords(\h285bc, \h28618))
    \cup Reg(\h28410, {0 .. 2, {3}, {8}}) \cup Alike({\h28430, \h28434}, Bytes(3))

SpiContext ==
  Alike(Array(\h2861c, 10, 4), Bytes(4))
    \cup Alike(Array(\h28644, 32, 4), {0 .. 7, 8 .. 9, {10}, 13 .. 16, {17}})
    \cup Reg(\h286c4, {{0}, 1 .. 5, {8}, 9 .. 13})
    \cup Reg(\h286cc, {0 .. 5, 10 .. 14, 15 .. 18} \cup Flags(8 .. 9 \cup 28 .. 30))
    \cup Reg(\h286d0, {12 .. 16, 17 .. 23, 25 .. 29} \cup Flags({8, 11, 24, 30}))
    \cup Reg(\h286d4, {2 .. 4, 5 .. 7, 8 .. 10, 11 .. 13} \cup Flags({0, 1, 14}))
    \cup Alike({\h286d8, \h286dc}, {{0}})
    \cup Reg(\h286e0, {b .. b + 1 : b \in Every(4, 0, 24)})
    \cup Reg(\h286e4, {0 .. 7, {8}})

CbBlend ==
  Alike(Array(\h28780, 8, 4),
        {0 .. 4, 5 .. 7, 8 .. 12, 16 .. 20, 21 .. 23, 24 .. 28, {29}, {30}})

VgtDraw ==
  Plain(Dwords(\h287d4, \h287e0) \cup {\h287e8, \h287f4}) \cup Reg(\h287e4, {0 .. 7})
    \cup Reg(\h287f0, {0 .. 1, 2 .. 3, {5}, {6}}) \cup Reg(\h287f8, {0 .. 27})

DbAndCbControl ==
  Reg(\h28800, Flags(0 .. 2 \cup {7}) \cup {4 .. 6} \cup {b .. b + 2 : b \in Every(3, 8, 29)})
    \cup Reg(\h28808, {{3}, 4 .. 6, 16 .. 23})
    \cup Reg(\h2880c, {4 .. 5, 13 .. 14, 16 .. 17} \cup Flags(0 .. 1 \cup 6 .. 12 \cup {15}))

ClipFlags == {14 .. 15} \cup Flags(0 .. 5 \cup {13} \cup 16 .. 22 \cup 24 .. 27)
Modes == {3 .. 4, 5 .. 7, 8 .. 10} \cup Flags(0 .. 2 \cup 11 .. 13 \cup {16} \cup 19 .. 21)

PaControl ==
  Reg(\h28810, ClipFlags) \cup Reg(\h28814, Modes)
    \cup Reg(\h28818, Flags(0 .. 5 \cup 8 .. 10)) \cup Reg(\h2881c, Flags(0 .. 23))
    \cup Reg(\h28820, Flags(0 .. 14 \cup {20})) \cup Reg(\h28824, {0 .. 1} \cup Flags(2 .. 4))
    \cup Plain({\h28828}) \cup Reg(\h2882c, {8 .. 15} \cup Flags(0 .. 7))

Resources(flags) == Bytes(2) \cup Flags(flags)
Rounding == {0 .. 1, 2 .. 3} \cup Flags(4 .. 7)

\* The programs of pixel, vertex, geometry and export shaders.
SqPrograms1 ==
  Alike({\h28830, \h28834}, {0 .. 14}) \cup Plain({\h28840, \h2885c, \h28874, \h2888c})
    \cup Reg(\h28844, Resources({21, 28, 31})) \cup Reg(\h2884c, {0 .. 4})
    \cup Alike({\h28860, \h28878, \h28890}, Resources({21, 28}))
    \cup Alike({\h28848, \h28864, \h2887c, \h28894}, Rounding)

\* Of fetch, hull and local shaders, which are the compute shaders too.
SqPrograms2 ==
  Plain({\h288a4, \h288b8, \h288d0, \h288f0}) \cup Reg(\h288a8, Resources({21}))
    \cup Alike({\h288bc, \h288d4}, Resources({21, 28})) \cup Alike({\h288c0, \h288d8}, Rounding)
    \cup Alike(Dwords(\h28900, \h28914) \cup Dwords(\h2891c, \h28934), {0 .. 14})
    \cup Plain(Array(\h28940, 16, 4) \cup Array(\h28980, 16, 4) \cup Array(\h289c0, 16, 4))

PaAndVgt ==
  Alike({\h28a00, \h28a04}, Halves) \cup Reg(\h28a08, {0 .. 15})
    \cup Reg(\h28a0c, {0 .. 15, 16 .. 23, {28}, 29 .. 30})
    \cup Reg(\h28a10, {0 .. 2}) \cup Reg(\h28a14, {0 .. 1}) \cup Plain({\h28a18, \h28a1c})
    \cup Reg(\h28a20, {0 .. 7}) \cup Reg(\h28a24, {0 .. 4, {14}, {15}, 16 .. 18})
    \cup Alike({\h28a28, \h28a2c}, {0 .. 3})
    \cup Alike({\h28a30, \h28a34}, {8 .. 15, 16 .. 23} \cup Flags(0 .. 3))

VgtGroupFormat == Alike({\h28a38, \h28a3c}, Nibbles(8))

\* The two flags of VGT_GS_MODE that turn it to compute are r800_state's own.
VgtGsMode == Reg(\h28a40, {0 .. 1, {2}, 3 .. 4, {8}} \cup Flags({14, 17}))

VgtContext ==
  Reg(\h28a48, Flags(0 .. 2)) \cup Plain({\h28a50, \h28a74, \h28a78, \h28a88, \h28aa0, \h28aa4})
    \cup Alike({\h28a54, \h28a58}, {0 .. 10}) \cup Reg(\h28a5c, {0 .. 3})
    \cup Reg(\h28a6c, {0 .. 5}) \cup Reg(\h28a7c, {0 .. 1, 2 .. 3})
    \cup Alike({\h28a84, \h28a94, \h28ab4, \h28ab8}, {{0}})
    \cup Reg(\h28a90, {0 .. 5, 19 .. 26, {27}})

DbResults ==
  Reg(\h28abc, {6 .. 11, 12 .. 17} \cup Flags(0 .. 5))
    \cup Alike({\h28ac0, \h28ac4}, {0 .. 2, 4 .. 11, 12 .. 19, {24}}) \cup Reg(\h28ac8, Bytes(4))

\* Four stream-out buffers: size, stride, base, offset; and their bases.
VgtStrmout ==
  (UNION {Plain({a, a + 8, a + 12}) \cup Reg(a + 4, {0 .. 9}) : a \in Array(\h28ad0, 4, 16)})
    \cup Plain(Dwords(\h28b10, \h28b1c) \cup {\h28b28, \h28b2c}) \cup Reg(\h28b30, {0 .. 8})
    \cup Reg(\h28b38, {0 .. 10}) \cup Alike(Dwords(\h28b44, \h28b50), {0 .. 5})

VgtStages ==
  Reg(\h28b54, {0 .. 1, {2}, 3 .. 4, {5}, 6 .. 7}) \cup Reg(\h28b58, {0 .. 7, 8 .. 13, 14 .. 19})
    \cup Alike({\h28b5c, \h28b60}, {0 .. 7, 8 .. 20})
    \cup Alike({\h28b64, \h28b68}, {0 .. 12, 13 .. 25})
    \cup Reg(\h28b70, {{0}, 8 .. 9, 10 .. 11, 12 .. 13, 14 .. 15, {16}})
    \cup Reg(\h28b78, {0 .. 7, {8}}) \cup Plain(Dwords(\h28b7c, \h28b8c))
    \cup Reg(\h28b90, {{0}, 2 .. 8}) \cup Reg(\h28b94, Flags(0 .. 3) \cup {4 .. 6})
    \cup Reg(\h28b98, Nibbles(4))

PaLines ==
  Plain(Array(\h28b9c, 12, 4)) \cup Reg(\h28c00, Flags(9 .. 12))
    \cup Reg(\h28c04, {0 .. 1, {4}, 13 .. 16}) \cup Reg(\h28c08, {{0}, 1 .. 2, 3 .. 5})
    \cup Plain(Dwords(\h28c0c, \h28c18))

PaSampleLocs == Alike(Dwords(\h28c1c, \h28c38), Nibbles(8))

PaMask == Plain({\h28c3c}) \cup Reg(\h28c58, {0 .. 7}) \cup Reg(\h28c5c, {0 .. 6})

\* Twelve RATs, of which the first eight are render targets as well.  They are
\* as far apart as set_rat has it, 0x3c and then 0x1c, not the 51 the header
\* declares as their _offset, which elsewhere is bytes and is no multiple of a
\* dword.  As the comment in set_rat has it, the size of a RAT is the whole of
\* its DIM.
Rats(a) == Array(a, 8, \h3c) \cup Array(a + 8 * \h3c, 4, \h1c)
Targets(a) == Array(a, 8, \h3c)

RatSurface ==
  Plain(Rats(\h28c60)) \cup Alike(Rats(\h28c64), {0 .. 10}) \cup Alike(Rats(\h28c68), {0 .. 21})
    \cup Alike(Rats(\h28c6c), {0 .. 10, 13 .. 23})

RatFormat ==
  {0 .. 1, 2 .. 7, 8 .. 11, 12 .. 14, 15 .. 16, 24 .. 25, 27 .. 29} \cup Flags(17 .. 23 \cup {26})

RatInfo == Alike(Rats(\h28c70), RatFormat)

RatAttrib ==
  Alike(Rats(\h28c74), {{3}, {4}, 5 .. 8} \cup {b .. b + 1 : b \in Every(3, 10, 22)})

RatDim == Alike(Rats(\h28c78), Halves \cup {Bit})

TargetMasks ==
  Plain(Targets(\h28c7c) \cup Targets(\h28c84)) \cup Alike(Targets(\h28c80), {0 .. 13})
    \cup Alike(Targets(\h28c88), {0 .. 21})
    \cup Plain(UNION {Targets(\h28c8c + 4 * w) : w \in 0 .. 3})

ConstCaches ==
  Plain(Array(\h28f00, 16, 4) \cup Array(\h28f40, 16, 4))
    \cup Alike(Array(\h28f80, 16, 4) \cup Array(\h28fc0, 16, 4), {0 .. 8})

-----------------------------------------------------------------------------
(* Resources, samplers and constants.                                      *)

\* A resource is eight dwords; its type, at the end of the last, decides how
\* the others are laid out.
TypeField == 30 .. 31

\* Words the header gives no layout for a type have no field.
VtxFields == <<{Bit}, {Bit}, {0 .. 7, 8 .. 18, {19}, 20 .. 25, 26 .. 27, {28}, {29}, 30 .. 31},
               {{2}} \cup {b .. b + 2 : b \in Every(3, 3, 12)}, {Bit}, {}, {}, {TypeField}>>

TexFields1 == <<{0 .. 2, {3}, {5}, 6 .. 17, 18 .. 31}, {0 .. 13, 14 .. 26, 28 .. 31}, {Bit}, {Bit}>>

TexFields2 ==
  <<{b .. b + 1 : b \in {0, 2, 4, 6, 8, 12}} \cup Flags({10, 11})
      \cup {b .. b + 2 : b \in Every(3, 16, 25)} \cup {28 .. 31},
    {0 .. 3, 4 .. 16, 17 .. 29}, {3 .. 5, {6}, 8 .. 19, 29 .. 31},
    {0 .. 5, 6 .. 7, 8 .. 9, 10 .. 11, {15}, 16 .. 17, TypeField}>>

FetchResources == \h30000 .. \h37fff

FetchFields(address, isBuffer) ==
  LET word == (address % 32) \div 4 + 1
  IN  IF isBuffer THEN VtxFields[word]
      ELSE IF word <= 4 THEN TexFields1[word] ELSE TexFields2[word - 4]

\* Loop constants share their addresses with jump tables.
LoopAndBoolConsts ==
  Alike(Array(\h3a200, 192, 4), {0 .. 11, 12 .. 23, 24 .. 31} \cup Bytes(4))
    \cup Plain(Array(\h3a500, 6, 4))

Samplers ==
  Alike(Array(\h3c000, 108, 12), {0 .. 2, 3 .. 5, 6 .. 8, 22 .. 24, 25 .. 26, 20 .. 21}
                                 \cup {b .. b + 1 : b \in Every(2, 9, 15)})
    \cup Alike(Array(\h3c004, 108, 12), {0 .. 11, 12 .. 23, 24 .. 27, 28 .. 31})
    \cup Alike(Array(\h3c008, 108, 12), {0 .. 13, 14 .. 19} \cup Flags({20, 21, 28, 29, 31}))
    \cup Plain({\h3cff0, \h3cff4} \cup Dwords(\h3ff00, \h3ff08))

-----------------------------------------------------------------------------
(* Registers r800_state.cpp and evergreen_reg.h name.  Where they give a   *)
(* shift only, the field reaches to the next one.                          *)

ComputeRegisters ==
  Reg(\h286e8, Flags(0 .. 2)) \cup Reg(\h8e2c, {16 .. 31}) \cup Reg(\h288e8, {0 .. 13, 14 .. 31})
    \cup Plain({\h28728, \h28720, \h28724} \cup Dwords(\h899c, \h89a4))
    \cup Reg(\h802c, {0 .. 15, 16 .. 29, {30}, {31}})
    \cup Alike(Dwords(\h286ec, \h286f4), {0 .. 15}) \cup Reg(\h89ac, {0 .. 11})
    \cup Reg(\h28b74, {{0}}) \cup Reg(\h286c8, {29 .. 31})
    \cup Reg(\h28838, {5 * i .. 5 * i + 4 : i \in 0 .. 5})

ThreadMasks == Plain(Dwords(\h8e20, \h8e28))

DynamicGprs == Plain({\h8d8c, \h288ec})

CoherFlags == Flags(0 .. 18 \cup {20} \cup 23 .. 28)

WaitAndCoher ==
  Reg(\h8040, Flags({8, 10, 15, 17, 19}) \cup {20 .. 23})
    \cup Reg(\h85f0, CoherFlags) \cup Plain({\h85f4, \h85f8})
    \cup Reg(\h85fc, {0 .. 7, {31}})

-----------------------------------------------------------------------------
Layout ==
  VgtConfig \cup PaConfig \cup SqConfig \cup SxSpiConfig \cup TdBorderColors
    \cup DbContext \cup ScreenAndDepth \cup Scissors \cup TargetsAndViewports \cup BlendAndClip
    \cup SpiContext \cup CbBlend \cup VgtDraw \cup DbAndCbControl \cup PaControl
    \cup SqPrograms1 \cup SqPrograms2 \cup PaAndVgt \cup VgtGroupFormat \cup VgtGsMode
    \cup VgtContext \cup DbResults \cup VgtStrmout \cup VgtStages
    \cup PaLines \cup PaSampleLocs \cup PaMask
    \cup RatSurface \cup RatInfo \cup RatAttrib \cup RatDim \cup TargetMasks \cup ConstCaches
    \cup LoopAndBoolConsts \cup Samplers
    \cup ComputeRegisters \cup ThreadMasks \cup DynamicGprs \cup WaitAndCoher

Declared == {r[1] : r \in Layout}

FieldsOf == [a \in Declared |-> UNION {r[2] : r \in {q \in Layout : q[1] = a}}]

\* The fields at an address; a resource there is a buffer or a texture.
FieldsAt(address, isBuffer) ==
  IF address \in FetchResources THEN FetchFields(address, isBuffer)
  ELSE IF address \in Declared THEN FieldsOf[address] ELSE {}
=============================================================================
