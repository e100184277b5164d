-------------------------- MODULE RegisterFileProofs -------------------------
(***************************************************************************)
(* Proofs about RegisterFile: whatever the setters write, in whatever      *)
(* order and for whatever arguments, the command processor finds its       *)
(* packets, none of them leaves its register space, each number lies in a  *)
(* field of its register, and a dispatch finds every register as it was    *)
(* named last.                                                             *)
(***************************************************************************)
EXTENDS RegisterFile, SetterProofs

-----------------------------------------------------------------------------
(* Fields, and the numbers that lie inside one of them.                    *)

Declares(a, d) == d \in FieldsAt(a, TRUE)

FieldFits(f, a) == \E d \in FieldsAt(a, TRUE) : Placed(f) \subseteq d

WordFits(word, a) == \A f \in word : FieldFits(f, a)

LEMMA LayoutDeclares ==
  ASSUME NEW a, NEW fs, <<a, fs>> \in Layout, a \notin FetchResources
  PROVE  \A d \in fs : Declares(a, d)
<1> DEFINE r == <<a, fs>>
           S == {q \in Layout : q[1] = a}
<1>1. r[1] = a /\ r[2] = fs /\ r \in Layout
  OBVIOUS
<1>. HIDE DEF r
<1>2. a \in Declared /\ r \in S
  BY <1>1 DEF Declared
<1>3. FieldsOf[a] = UNION {q[2] : q \in S}
  BY <1>2 DEF FieldsOf
<1>. HIDE DEF S
<1>4. \A d \in fs : d \in FieldsOf[a]
  BY <1>1, <1>2, <1>3
<1>. QED
  BY <1>2, <1>4 DEF Declares, FieldsAt

LEMMA RegDeclares ==
  ASSUME NEW block, block \subseteq Layout, NEW a, NEW fs, Reg(a, fs) \subseteq block,
         a \notin FetchResources
  PROVE  \A d \in fs : Declares(a, d)
  BY LayoutDeclares DEF Reg, Alike

LEMMA AlikeDeclares ==
  ASSUME NEW block, block \subseteq Layout, NEW A, NEW fs, Alike(A, fs) \subseteq block,
         NEW a \in A, a \notin FetchResources
  PROVE  \A d \in fs : Declares(a, d)
<1>1. <<a, fs>> \in Alike(A, fs)
  BY DEF Alike
<1>. QED
  BY <1>1, LayoutDeclares

LEMMA PlainDeclares ==
  ASSUME NEW block, block \subseteq Layout, NEW A, Plain(A) \subseteq block,
         NEW a \in A, a \notin FetchResources
  PROVE  Declares(a, Bit)
<1>1. Alike(A, {Bit}) \subseteq block
  BY DEF Plain
<1>. QED
  BY <1>1, AlikeDeclares

LEMMA LayoutBlocks ==
  /\ VgtConfig \subseteq Layout /\ PaConfig \subseteq Layout /\ SqConfig \subseteq Layout
  /\ SxSpiConfig \subseteq Layout /\ DbContext \subseteq Layout /\ ScreenAndDepth \subseteq Layout
  /\ Scissors \subseteq Layout /\ TargetsAndViewports \subseteq Layout
  /\ BlendAndClip \subseteq Layout /\ SpiContext \subseteq Layout
  /\ DbAndCbControl \subseteq Layout /\ PaControl \subseteq Layout
  /\ SqPrograms2 \subseteq Layout /\ VgtGsMode \subseteq Layout /\ VgtStages \subseteq Layout
  /\ PaLines \subseteq Layout /\ PaMask \subseteq Layout
  /\ RatSurface \subseteq Layout /\ RatInfo \subseteq Layout /\ RatAttrib \subseteq Layout
  /\ RatDim \subseteq Layout /\ ConstCaches \subseteq Layout /\ LoopAndBoolConsts \subseteq Layout
  /\ ComputeRegisters \subseteq Layout /\ ThreadMasks \subseteq Layout
  /\ DynamicGprs \subseteq Layout /\ WaitAndCoher \subseteq Layout
  BY DEF Layout

LEMMA FitZero == \A a : WordFits(Zero, a)
  BY DEF WordFits, Zero

LEMMA FitBit ==
  ASSUME NEW a, Declares(a, Bit), NEW n \in Int
  PROVE  WordFits(Plainly(n), a)
<1>1. \A b \in Ones(n) : b \in 0 .. 31
  BY DEF Ones
<1>2. Placed(<<0, n>>) \subseteq Bit
  BY <1>1 DEF Placed, Bit
<1>. QED
  BY <1>2 DEF Declares, WordFits, FieldFits, Plainly, Field, Zero

\* A field with the bits from lo to hi.
Span(a, lo, hi) == Declares(a, lo .. hi)

Power(b) == 2^b

LEMMA PowerGrows ==
  ASSUME NEW b \in 0 .. 30
  PROVE  Power(b) \in Nat \ {0} /\ Power(b + 1) = 2 * Power(b)
  BY Doubled, Zenon DEF Power

\* A larger power of two is not a smaller number.
LEMMA PowersGrow ==
  ASSUME NEW k \in 0 .. 30, NEW b \in k .. 30
  PROVE  Power(k) <= Power(b)
<1> DEFINE Bad == {c \in k .. 30 : ~ (Power(k) <= Power(c))}
<1>1. \A c \in k .. 30 : Power(c) \in Nat
  BY PowerGrows
<1>2. Power(k) \in Nat /\ k \in k .. 30
  BY <1>1
<1>3. ASSUME Bad # {} PROVE FALSE
  <2>1. Bad \in SUBSET Nat
    OBVIOUS
  <2>2. PICK c \in Bad : \A d \in Bad : ~ (d < c)
    BY <1>3, <2>1, Least
  <2>3. c \in k .. 30 /\ ~ (Power(k) <= Power(c)) /\ c # k
    BY <1>2, <2>2
  <2> DEFINE d == c - 1
  <2>4. d \in k .. 30 /\ d < c /\ d \in 0 .. 30 /\ d + 1 = c
    BY <2>3
  <2>. HIDE DEF d
  <2>5. Power(k) <= Power(d)
    BY <2>2, <2>4
  <2>6. Power(c) = 2 * Power(d)
    BY <2>4, PowerGrows
  <2>7. Power(d) \in Nat
    BY <1>1, <2>4
  <2>. QED
    BY <1>2, <2>3, <2>5, <2>6, <2>7
<1>. QED
  BY <1>1, <1>2, <1>3

\* The bits of a number below a power of two.
LEMMA OnesBelow ==
  ASSUME NEW k \in 0 .. 30, NEW n \in Nat, n < Power(k)
  PROVE  Ones(n) \subseteq 0 .. k - 1
<1>0. Ones(n) = {b \in 0 .. 30 : (n \div Power(b)) % 2 = 1}
  <2>1. ~ (n < 0)
    OBVIOUS
  <2>. QED
    BY <2>1 DEF Ones, Power
<1>1. SUFFICES ASSUME NEW b \in 0 .. 30, (n \div Power(b)) % 2 = 1, k <= b PROVE FALSE
  BY <1>0
<1>2. Power(k) <= Power(b) /\ Power(k) \in Nat /\ Power(b) \in Nat
  BY <1>1, PowersGrow, PowerGrows
<1> DEFINE w == Power(b)
           v == Power(k)
<1>3. w \in Nat /\ n < w /\ w > 0 /\ (n \div w) % 2 = 1
  BY <1>1, <1>2
<1>. HIDE DEF w
<1>4. n \div w = 0
  BY <1>3
<1>. QED
  BY <1>3, <1>4

LEMMA PowersAre ==
  /\ Power(1) = 2 /\ Power(2) = 4 /\ Power(3) = 8 /\ Power(4) = 16 /\ Power(5) = 32
  /\ Power(6) = 64 /\ Power(8) = 256 /\ Power(9) = 512 /\ Power(11) = 2048
  /\ Power(12) = 4096 /\ Power(14) = 16384 /\ Power(15) = 32768 /\ Power(16) = 65536
  /\ Power(18) = 262144
  BY DEF Power

LEMMA FitField ==
  ASSUME NEW a, NEW shift \in Nat, NEW k \in 0 .. 30, NEW d, shift .. shift + k - 1 \subseteq d,
         Declares(a, d), NEW n \in Nat, n < Power(k)
  PROVE  WordFits(Field(shift, n), a)
<1>1. Ones(n) \subseteq 0 .. k - 1
  BY OnesBelow
<1>2. Placed(<<shift, n>>) \subseteq d
  <2>1. SUFFICES ASSUME NEW b \in Ones(n) PROVE shift + b \in d
    BY DEF Placed
  <2>2. b \in 0 .. k - 1
    BY <1>1
  <2>. QED
    BY <2>2
<1>. QED
  BY <1>2 DEF Declares, WordFits, FieldFits, Field, Zero

LEMMA FitSpan ==
  ASSUME NEW a, NEW lo \in Nat, NEW hi \in Nat, Span(a, lo, hi), NEW k \in 0 .. 30,
         lo + k <= hi + 1, NEW n \in Nat, n < Power(k)
  PROVE  WordFits(Field(lo, n), a)
<1>1. lo .. lo + k - 1 \subseteq lo .. hi
  OBVIOUS
<1>. QED
  BY <1>1, FitField DEF Span

LEMMA FitFlag ==
  ASSUME NEW b \in Nat, NEW a, NEW d, b \in d, Declares(a, d)
  PROVE  WordFits(Flag(b), a)
<1>1. b .. b + 1 - 1 \subseteq d
  OBVIOUS
<1>2. WordFits(Field(b, 1), a)
  BY <1>1, FitField, PowersAre
<1>. QED
  BY <1>2 DEF Flag

LEMMA FitFlags ==
  ASSUME NEW bits \in SUBSET Nat, NEW a, \A b \in bits : \E d : b \in d /\ Declares(a, d)
  PROVE  WordFits(Literal(bits), a)
<1>1. ASSUME NEW b \in bits
      PROVE  WordFits(Flag(b), a)
  BY FitFlag
<1>. QED
  BY <1>1 DEF Literal, WordFits

LEMMA FlagIn == \A bits, b : b \in bits => {b} \in Flags(bits)
  BY DEF Flags

LEMMA EveryIn ==
  ASSUME NEW stride \in Nat \ {0}, NEW first \in Nat, NEW n \in Nat, NEW i \in 0 .. n
  PROVE  first + stride * i \in Every(stride, first, first + stride * n)
<1>1. ((first + stride * n) - first) \div stride = n
  BY SMT
<1>. QED
  BY <1>1 DEF Every

-----------------------------------------------------------------------------
(* The fields that the writes below put numbers in, by register.  Proofs   *)
(* about addresses give them in decimal, as the prover prints them.        *)

LEMMA SqConfigFields ==
  /\ Declares(\h8c00, {0})
  /\ Declares(\h8c00, {1})
  /\ Span(\h8c00, 18, 19)
  /\ Span(\h8c00, 26, 27)
  /\ Span(\h8c00, 28, 29)
  /\ Span(\h8c00, 30, 31)
<1> DEFINE a == \h8c00
           fs == Flags(0 .. 1) \cup {b .. b + 1 : b \in Every(2, 18, 30)}
<1>1. Reg(a, fs) \subseteq SqConfig
  BY SMT DEF SqConfig
<1>2. a \notin FetchResources
  BY SMT DEF FetchResources
<1>3. {0} \in fs
  BY FlagIn
<1>4. {1} \in fs
  BY FlagIn
<1>5. 18 .. 18 + 1 \in fs
  <2>1. 18 \in Every(2, 18, 30)
    <3>1. 18 = 18 + 2 * 0 /\ 0 \in 0 .. (30 - 18) \div 2
      OBVIOUS
    <3>. QED
      BY <3>1 DEF Every
  <2>. QED
    BY <2>1
<1>6. 26 .. 26 + 1 \in fs
  <2>1. 26 \in Every(2, 18, 30)
    <3>1. 26 = 18 + 2 * 4 /\ 4 \in 0 .. (30 - 18) \div 2
      OBVIOUS
    <3>. QED
      BY <3>1 DEF Every
  <2>. QED
    BY <2>1
<1>7. 28 .. 28 + 1 \in fs
  <2>1. 28 \in Every(2, 18, 30)
    <3>1. 28 = 18 + 2 * 5 /\ 5 \in 0 .. (30 - 18) \div 2
      OBVIOUS
    <3>. QED
      BY <3>1 DEF Every
  <2>. QED
    BY <2>1
<1>8. 30 .. 30 + 1 \in fs
  <2>1. 30 \in Every(2, 18, 30)
    <3>1. 30 = 18 + 2 * 6 /\ 6 \in 0 .. (30 - 18) \div 2
      OBVIOUS
    <3>. QED
      BY <3>1 DEF Every
  <2>. QED
    BY <2>1
<1>. HIDE DEF a, fs
<1>9. \A d \in fs : Declares(a, d)
  BY <1>1, <1>2, LayoutBlocks, RegDeclares
<1>. QED
  BY <1>3, <1>4, <1>5, <1>6, <1>7, <1>8, <1>9, SMT DEF Span, a

LEMMA SqGprFields ==
  /\ Span(\h8c04, 0, 7)
  /\ Span(\h8c04, 16, 23)
  /\ Span(\h8c04, 28, 31)
<1> DEFINE a == \h8c04
           fs == {0 .. 7, 16 .. 23, 28 .. 31}
<1>1. Reg(a, fs) \subseteq SqConfig
  BY SMT DEF SqConfig
<1>2. a \notin FetchResources
  BY SMT DEF FetchResources
<1>3. 0 .. 7 \in fs
  OBVIOUS
<1>4. 16 .. 23 \in fs
  OBVIOUS
<1>5. 28 .. 31 \in fs
  OBVIOUS
<1>. HIDE DEF a, fs
<1>6. \A d \in fs : Declares(a, d)
  BY <1>1, <1>2, LayoutBlocks, RegDeclares
<1>. QED
  BY <1>3, <1>4, <1>5, <1>6, SMT DEF Span, a

LEMMA SqMoreGprFields ==
  ASSUME NEW a \in {\h8c08, \h8c0c}, a \notin FetchResources
  PROVE  /\ Span(a, 0, 7)
         /\ Span(a, 16, 23)
<1> DEFINE A == {\h8c08, \h8c0c}
           fs == {0 .. 7, 16 .. 23}
<1>1. Alike(A, fs) \subseteq SqConfig
  BY SMT DEF SqConfig
<1>2. a \in A
  BY SMT
<1>3. 0 .. 7 \in fs
  OBVIOUS
<1>4. 16 .. 23 \in fs
  OBVIOUS
<1>. HIDE DEF A, fs
<1>5. \A d \in fs : Declares(a, d)
  BY <1>1, <1>2, LayoutBlocks, AlikeDeclares
<1>. QED
  BY <1>3, <1>4, <1>5, SMT DEF Span

LEMMA SqThreadFields ==
  ASSUME NEW a \in {\h8c10, \h8c18}, a \notin FetchResources
  PROVE  /\ Span(a, 0, 7)
         /\ Span(a, 8, 15)
         /\ Span(a, 16, 23)
         /\ Span(a, 24, 31)
<1> DEFINE A == {\h8c10, \h8c18}
           fs == Bytes(4)
<1>1. Alike(A, fs) \subseteq SqConfig
  BY SMT DEF SqConfig
<1>2. a \in A
  BY SMT
<1>3. 8 * 0 .. 8 * 0 + 7 \in fs
  BY DEF Bytes
<1>4. 8 * 1 .. 8 * 1 + 7 \in fs
  BY DEF Bytes
<1>5. 8 * 2 .. 8 * 2 + 7 \in fs
  BY DEF Bytes
<1>6. 8 * 3 .. 8 * 3 + 7 \in fs
  BY DEF Bytes
<1>. HIDE DEF A, fs
<1>7. \A d \in fs : Declares(a, d)
  BY <1>1, <1>2, LayoutBlocks, AlikeDeclares
<1>. QED
  BY <1>3, <1>4, <1>5, <1>6, <1>7, SMT DEF Span

LEMMA SqMoreThreadFields ==
  /\ Span(\h8c1c, 0, 7)
  /\ Span(\h8c1c, 8, 15)
<1> DEFINE a == \h8c1c
           fs == Bytes(2)
<1>1. Reg(a, fs) \subseteq SqConfig
  BY SMT DEF SqConfig
<1>2. a \notin FetchResources
  BY SMT DEF FetchResources
<1>3. 8 * 0 .. 8 * 0 + 7 \in fs
  BY DEF Bytes
<1>4. 8 * 1 .. 8 * 1 + 7 \in fs
  BY DEF Bytes
<1>. HIDE DEF a, fs
<1>5. \A d \in fs : Declares(a, d)
  BY <1>1, <1>2, LayoutBlocks, RegDeclares
<1>. QED
  BY <1>3, <1>4, <1>5, SMT DEF Span, a

LEMMA SqStackFields ==
  ASSUME NEW a \in Dwords(\h8c20, \h8c28), a \notin FetchResources
  PROVE  /\ Span(a, 0, 11)
         /\ Span(a, 16, 27)
<1> DEFINE A == Dwords(\h8c20, \h8c28)
           fs == {0 .. 11, 16 .. 27}
<1>1. Alike(A, fs) \subseteq SqConfig
  BY SMT DEF SqConfig
<1>2. a \in A
  BY SMT
<1>3. 0 .. 11 \in fs
  OBVIOUS
<1>4. 16 .. 27 \in fs
  OBVIOUS
<1>. HIDE DEF A, fs
<1>5. \A d \in fs : Declares(a, d)
  BY <1>1, <1>2, LayoutBlocks, AlikeDeclares
<1>. QED
  BY <1>3, <1>4, <1>5, SMT DEF Span

LEMMA VgtTypeFields ==
  Span(\h8958, 0, 5)
<1> DEFINE a == \h8958
           fs == {0 .. 5}
<1>1. Reg(a, fs) \subseteq VgtConfig
  BY SMT DEF VgtConfig
<1>2. a \notin FetchResources
  BY SMT DEF FetchResources
<1>3. 0 .. 5 \in fs
  OBVIOUS
<1>. HIDE DEF a, fs
<1>4. \A d \in fs : Declares(a, d)
  BY <1>1, <1>2, LayoutBlocks, RegDeclares
<1>. QED
  BY <1>3, <1>4, SMT DEF Span, a

LEMMA VgtCountFields ==
  ASSUME NEW a \in Dwords(\h8960, \h8974), a \notin FetchResources
  PROVE  Declares(a, Bit)
<1> DEFINE A == Dwords(\h8960, \h8974)
<1>1. Plain(A) \subseteq VgtConfig
  BY SMT DEF VgtConfig
<1>2. a \in A
  BY SMT
<1>. HIDE DEF A
<1>. QED
  BY <1>1, <1>2, LayoutBlocks, PlainDeclares

LEMMA PaClipFields ==
  /\ Declares(\h8a14, {0})
  /\ Span(\h8a14, 1, 2)
<1> DEFINE a == \h8a14
           fs == {{0}, 1 .. 2, {3}, {4}}
<1>1. Reg(a, fs) \subseteq PaConfig
  BY SMT DEF PaConfig
<1>2. a \notin FetchResources
  BY SMT DEF FetchResources
<1>3. {0} \in fs
  OBVIOUS
<1>4. 1 .. 2 \in fs
  OBVIOUS
<1>. HIDE DEF a, fs
<1>5. \A d \in fs : Declares(a, d)
  BY <1>1, <1>2, LayoutBlocks, RegDeclares
<1>. QED
  BY <1>3, <1>4, <1>5, SMT DEF Span, a

LEMMA SxFields ==
  ASSUME NEW a \in Dwords(\h8e10, \h8e1c) \cup {\h9010, \h9014, \h9870}, a \notin FetchResources
  PROVE  Declares(a, Bit)
<1> DEFINE A == Dwords(\h8e10, \h8e1c) \cup {\h9010, \h9014, \h9870}
<1>1. Plain(A) \subseteq SxSpiConfig
  BY SMT DEF SxSpiConfig
<1>2. a \in A
  BY SMT
<1>. HIDE DEF A
<1>. QED
  BY <1>1, <1>2, LayoutBlocks, PlainDeclares

LEMMA SpiConfigFields ==
  Span(\h913c, 0, 3)
<1> DEFINE a == \h913c
           fs == {0 .. 3, 16 .. 31} \cup Flags(4 .. 7)
<1>1. Reg(a, fs) \subseteq SxSpiConfig
  BY SMT DEF SxSpiConfig
<1>2. a \notin FetchResources
  BY SMT DEF FetchResources
<1>3. 0 .. 3 \in fs
  OBVIOUS
<1>. HIDE DEF a, fs
<1>4. \A d \in fs : Declares(a, d)
  BY <1>1, <1>2, LayoutBlocks, RegDeclares
<1>. QED
  BY <1>3, <1>4, SMT DEF Span, a

LEMMA DbRenderFields ==
  Declares(\h28000, {12})
<1> DEFINE a == \h28000
           fs == RenderFlags
<1>1. Reg(a, fs) \subseteq DbContext
  BY SMT DEF DbContext
<1>2. a \notin FetchResources
  BY SMT DEF FetchResources
<1>3. {12} \in fs
  BY FlagIn DEF RenderFlags
<1>. HIDE DEF a, fs
<1>4. \A d \in fs : Declares(a, d)
  BY <1>1, <1>2, LayoutBlocks, RegDeclares
<1>. QED
  BY <1>3, <1>4, SMT DEF Span, a

LEMMA WindowFields ==
  ASSUME NEW a \in {\h28030, \h28034, \h28200}, a \notin FetchResources
  PROVE  /\ Span(a, 0, 15)
         /\ Span(a, 16, 31)
<1> DEFINE A == {\h28030, \h28034, \h28200}
           fs == Halves
<1>1. Alike(A, fs) \subseteq ScreenAndDepth
  BY SMT DEF ScreenAndDepth
<1>2. a \in A
  BY SMT
<1>3. 0 .. 15 \in fs
  BY DEF Halves
<1>4. 16 .. 31 \in fs
  BY DEF Halves
<1>. HIDE DEF A, fs
<1>5. \A d \in fs : Declares(a, d)
  BY <1>1, <1>2, LayoutBlocks, AlikeDeclares
<1>. QED
  BY <1>3, <1>4, <1>5, SMT DEF Span

LEMMA ScissorTopFields ==
  Declares(\h28204, {31})
<1> DEFINE a == \h28204
           fs == Corner \cup {{31}}
<1>1. Reg(a, fs) \subseteq Scissors
  BY SMT DEF Scissors
<1>2. a \notin FetchResources
  BY SMT DEF FetchResources
<1>3. {31} \in fs
  OBVIOUS
<1>. HIDE DEF a, fs
<1>4. \A d \in fs : Declares(a, d)
  BY <1>1, <1>2, LayoutBlocks, RegDeclares
<1>. QED
  BY <1>3, <1>4, SMT DEF Span, a

LEMMA ScissorFields ==
  /\ Span(\h28208, 0, 14)
  /\ Span(\h28208, 16, 30)
<1> DEFINE a == \h28208
           fs == Corner
<1>1. Reg(a, fs) \subseteq Scissors
  BY SMT DEF Scissors
<1>2. a \notin FetchResources
  BY SMT DEF FetchResources
<1>3. 0 .. 14 \in fs
  BY DEF Corner
<1>4. 16 .. 30 \in fs
  BY DEF Corner
<1>. HIDE DEF a, fs
<1>5. \A d \in fs : Declares(a, d)
  BY <1>1, <1>2, LayoutBlocks, RegDeclares
<1>. QED
  BY <1>3, <1>4, <1>5, SMT DEF Span, a

LEMMA ClipRuleFields ==
  Span(\h2820c, 0, 15)
<1> DEFINE a == \h2820c
           fs == {0 .. 15}
<1>1. Reg(a, fs) \subseteq Scissors
  BY SMT DEF Scissors
<1>2. a \notin FetchResources
  BY SMT DEF FetchResources
<1>3. 0 .. 15 \in fs
  OBVIOUS
<1>. HIDE DEF a, fs
<1>4. \A d \in fs : Declares(a, d)
  BY <1>1, <1>2, LayoutBlocks, RegDeclares
<1>. QED
  BY <1>3, <1>4, SMT DEF Span, a

LEMMA ClipRectFields ==
  ASSUME NEW a \in Array(\h28210, 4, 8) \cup Array(\h28214, 4, 8), a \notin FetchResources
  PROVE  /\ Span(a, 0, 14)
         /\ Span(a, 16, 30)
<1> DEFINE A == Array(\h28210, 4, 8) \cup Array(\h28214, 4, 8)
           fs == Corner
<1>1. Alike(A, fs) \subseteq Scissors
  BY SMT DEF Scissors
<1>2. a \in A
  BY SMT
<1>3. 0 .. 14 \in fs
  BY DEF Corner
<1>4. 16 .. 30 \in fs
  BY DEF Corner
<1>. HIDE DEF A, fs
<1>5. \A d \in fs : Declares(a, d)
  BY <1>1, <1>2, LayoutBlocks, AlikeDeclares
<1>. QED
  BY <1>3, <1>4, <1>5, SMT DEF Span

LEMMA EdgeFields ==
  /\ Span(\h28230, 0, 3)
  /\ Span(\h28230, 4, 7)
  /\ Span(\h28230, 8, 11)
  /\ Span(\h28230, 12, 17)
  /\ Span(\h28230, 18, 23)
  /\ Span(\h28230, 24, 27)
  /\ Span(\h28230, 28, 31)
<1> DEFINE a == \h28230
           fs == {0 .. 3, 4 .. 7, 8 .. 11, 12 .. 17, 18 .. 23, 24 .. 27, 28 .. 31}
<1>1. Reg(a, fs) \subseteq Scissors
  BY SMT DEF Scissors
<1>2. a \notin FetchResources
  BY SMT DEF FetchResources
<1>3. 0 .. 3 \in fs
  OBVIOUS
<1>4. 4 .. 7 \in fs
  OBVIOUS
<1>5. 8 .. 11 \in fs
  OBVIOUS
<1>6. 12 .. 17 \in fs
  OBVIOUS
<1>7. 18 .. 23 \in fs
  OBVIOUS
<1>8. 24 .. 27 \in fs
  OBVIOUS
<1>9. 28 .. 31 \in fs
  OBVIOUS
<1>. HIDE DEF a, fs
<1>10. \A d \in fs : Declares(a, d)
  BY <1>1, <1>2, LayoutBlocks, RegDeclares
<1>. QED
  BY <1>3, <1>4, <1>5, <1>6, <1>7, <1>8, <1>9, <1>10, SMT DEF Span, a

LEMMA TargetMaskFields ==
  ASSUME NEW a \in {\h28238, \h2823c}, a \notin FetchResources
  PROVE  /\ Span(a, 0, 3)
         /\ Span(a, 8, 11)
<1> DEFINE A == {\h28238, \h2823c}
           fs == Nibbles(8)
<1>1. Alike(A, fs) \subseteq TargetsAndViewports
  BY SMT DEF TargetsAndViewports
<1>2. a \in A
  BY SMT
<1>3. 4 * 0 .. 4 * 0 + 3 \in fs
  BY DEF Nibbles
<1>4. 4 * 2 .. 4 * 2 + 3 \in fs
  BY DEF Nibbles
<1>. HIDE DEF A, fs
<1>5. \A d \in fs : Declares(a, d)
  BY <1>1, <1>2, LayoutBlocks, AlikeDeclares
<1>. QED
  BY <1>3, <1>4, <1>5, SMT DEF Span

LEMMA GenericTopFields ==
  ASSUME NEW a \in {\h28240} \cup Array(\h28250, 16, 8), a \notin FetchResources
  PROVE  Declares(a, {31})
<1> DEFINE A == {\h28240} \cup Array(\h28250, 16, 8)
           fs == Corner \cup {{31}}
<1>1. Alike(A, fs) \subseteq TargetsAndViewports
  BY SMT DEF TargetsAndViewports
<1>2. a \in A
  BY SMT
<1>3. {31} \in fs
  OBVIOUS
<1>. HIDE DEF A, fs
<1>4. \A d \in fs : Declares(a, d)
  BY <1>1, <1>2, LayoutBlocks, AlikeDeclares
<1>. QED
  BY <1>3, <1>4, SMT DEF Span

LEMMA GenericFields ==
  ASSUME NEW a \in {\h28244} \cup Array(\h28254, 16, 8), a \notin FetchResources
  PROVE  /\ Span(a, 0, 14)
         /\ Span(a, 16, 30)
<1> DEFINE A == {\h28244} \cup Array(\h28254, 16, 8)
           fs == Corner
<1>1. Alike(A, fs) \subseteq TargetsAndViewports
  BY SMT DEF TargetsAndViewports
<1>2. a \in A
  BY SMT
<1>3. 0 .. 14 \in fs
  BY DEF Corner
<1>4. 16 .. 30 \in fs
  BY DEF Corner
<1>. HIDE DEF A, fs
<1>5. \A d \in fs : Declares(a, d)
  BY <1>1, <1>2, LayoutBlocks, AlikeDeclares
<1>. QED
  BY <1>3, <1>4, <1>5, SMT DEF Span

LEMMA DepthRangeFields ==
  ASSUME NEW a \in Array(\h282d4, 16, 8), a \notin FetchResources
  PROVE  Declares(a, Bit)
<1> DEFINE A == Array(\h282d0, 16, 8) \cup Array(\h282d4, 16, 8)
<1>1. Plain(A) \subseteq TargetsAndViewports
  BY SMT DEF TargetsAndViewports
<1>2. a \in A
  BY SMT
<1>. HIDE DEF A
<1>. QED
  BY <1>1, <1>2, LayoutBlocks, PlainDeclares

LEMMA IndexFields ==
  ASSUME NEW a \in Dwords(\h28400, \h2840c) \cup Dwords(\h28414, \h28420) \cup {\h28438}
                    \cup Dwords(\h2843c, \h285b8) \cup Dwords(\h285bc, \h28618),
         a \notin FetchResources
  PROVE  Declares(a, Bit)
<1> DEFINE A == Dwords(\h28400, \h2840c) \cup Dwords(\h28414, \h28420) \cup {\h28438}
                  \cup Dwords(\h2843c, \h285b8) \cup Dwords(\h285bc, \h28618)
<1>1. Plain(A) \subseteq BlendAndClip
  BY SMT DEF BlendAndClip
<1>2. a \in A
  BY SMT
<1>. HIDE DEF A
<1>. QED
  BY <1>1, <1>2, LayoutBlocks, PlainDeclares

LEMMA PsInputFields ==
  Declares(\h286cc, {29})
<1> DEFINE a == \h286cc
           fs == {0 .. 5, 10 .. 14, 15 .. 18} \cup Flags(8 .. 9 \cup 28 .. 30)
<1>1. Reg(a, fs) \subseteq SpiContext
  BY SMT DEF SpiContext
<1>2. a \notin FetchResources
  BY SMT DEF FetchResources
<1>3. {29} \in fs
  BY FlagIn
<1>. HIDE DEF a, fs
<1>4. \A d \in fs : Declares(a, d)
  BY <1>1, <1>2, LayoutBlocks, RegDeclares
<1>. QED
  BY <1>3, <1>4, SMT DEF Span, a

LEMMA BarycFields ==
  Span(\h286e0, 20, 21)
<1> DEFINE a == \h286e0
           fs == {b .. b + 1 : b \in Every(4, 0, 24)}
<1>1. Reg(a, fs) \subseteq SpiContext
  BY SMT DEF SpiContext
<1>2. a \notin FetchResources
  BY SMT DEF FetchResources
<1>3. 20 .. 20 + 1 \in fs
  <2>1. 20 \in Every(4, 0, 24)
    <3>1. 20 = 0 + 4 * 5 /\ 5 \in 0 .. (24 - 0) \div 4
      OBVIOUS
    <3>. QED
      BY <3>1 DEF Every
  <2>. QED
    BY <2>1
<1>. HIDE DEF a, fs
<1>4. \A d \in fs : Declares(a, d)
  BY <1>1, <1>2, LayoutBlocks, RegDeclares
<1>. QED
  BY <1>3, <1>4, SMT DEF Span, a

LEMMA ColorControlFields ==
  /\ Span(\h28808, 4, 6)
  /\ Span(\h28808, 16, 23)
<1> DEFINE a == \h28808
           fs == {{3}, 4 .. 6, 16 .. 23}
<1>1. Reg(a, fs) \subseteq DbAndCbControl
  BY SMT DEF DbAndCbControl
<1>2. a \notin FetchResources
  BY SMT DEF FetchResources
<1>3. 4 .. 6 \in fs
  OBVIOUS
<1>4. 16 .. 23 \in fs
  OBVIOUS
<1>. HIDE DEF a, fs
<1>5. \A d \in fs : Declares(a, d)
  BY <1>1, <1>2, LayoutBlocks, RegDeclares
<1>. QED
  BY <1>3, <1>4, <1>5, SMT DEF Span, a

LEMMA ClipControlFields ==
  Declares(\h28810, {16})
<1> DEFINE a == \h28810
           fs == ClipFlags
<1>1. Reg(a, fs) \subseteq PaControl
  BY SMT DEF PaControl
<1>2. a \notin FetchResources
  BY SMT DEF FetchResources
<1>3. {16} \in fs
  BY FlagIn DEF ClipFlags
<1>. HIDE DEF a, fs
<1>4. \A d \in fs : Declares(a, d)
  BY <1>1, <1>2, LayoutBlocks, RegDeclares
<1>. QED
  BY <1>3, <1>4, SMT DEF Span, a

LEMMA ModeFields ==
  /\ Declares(\h28814, {0})
  /\ Declares(\h28814, {1})
  /\ Declares(\h28814, {2})
  /\ Span(\h28814, 5, 7)
  /\ Span(\h28814, 8, 10)
<1> DEFINE a == \h28814
           fs == Modes
<1>1. Reg(a, fs) \subseteq PaControl
  BY SMT DEF PaControl
<1>2. a \notin FetchResources
  BY SMT DEF FetchResources
<1>3. {0} \in fs
  BY FlagIn DEF Modes
<1>4. {1} \in fs
  BY FlagIn DEF Modes
<1>5. {2} \in fs
  BY FlagIn DEF Modes
<1>6. 5 .. 7 \in fs
  BY DEF Modes
<1>7. 8 .. 10 \in fs
  BY DEF Modes
<1>. HIDE DEF a, fs
<1>8. \A d \in fs : Declares(a, d)
  BY <1>1, <1>2, LayoutBlocks, RegDeclares
<1>. QED
  BY <1>3, <1>4, <1>5, <1>6, <1>7, <1>8, SMT DEF Span, a

LEMMA VteFields ==
  Declares(\h28818, {8})
<1> DEFINE a == \h28818
           fs == Flags(0 .. 5 \cup 8 .. 10)
<1>1. Reg(a, fs) \subseteq PaControl
  BY SMT DEF PaControl
<1>2. a \notin FetchResources
  BY SMT DEF FetchResources
<1>3. {8} \in fs
  BY FlagIn
<1>. HIDE DEF a, fs
<1>4. \A d \in fs : Declares(a, d)
  BY <1>1, <1>2, LayoutBlocks, RegDeclares
<1>. QED
  BY <1>3, <1>4, SMT DEF Span, a

LEMMA ShaderFields ==
  ASSUME NEW a \in {\h288bc, \h288d4}, a \notin FetchResources
  PROVE  /\ Span(a, 0, 7)
         /\ Span(a, 8, 15)
<1> DEFINE A == {\h288bc, \h288d4}
           fs == Resources({21, 28})
<1>1. Alike(A, fs) \subseteq SqPrograms2
  BY SMT DEF SqPrograms2
<1>2. a \in A
  BY SMT
<1>3. 8 * 0 .. 8 * 0 + 7 \in fs
  BY DEF Resources, Bytes
<1>4. 8 * 1 .. 8 * 1 + 7 \in fs
  BY DEF Resources, Bytes
<1>. HIDE DEF A, fs
<1>5. \A d \in fs : Declares(a, d)
  BY <1>1, <1>2, LayoutBlocks, AlikeDeclares
<1>. QED
  BY <1>3, <1>4, <1>5, SMT DEF Span

LEMMA GsModeFields ==
  /\ Declares(\h28a40, {14})
  /\ Declares(\h28a40, {17})
<1> DEFINE a == \h28a40
           fs == {0 .. 1, {2}, 3 .. 4, {8}} \cup Flags({14, 17})
<1>1. Reg(a, fs) \subseteq VgtGsMode
  BY SMT DEF VgtGsMode
<1>2. a \notin FetchResources
  BY SMT DEF FetchResources
<1>3. {14} \in fs
  BY FlagIn
<1>4. {17} \in fs
  BY FlagIn
<1>. HIDE DEF a, fs
<1>5. \A d \in fs : Declares(a, d)
  BY <1>1, <1>2, LayoutBlocks, RegDeclares
<1>. QED
  BY <1>3, <1>4, <1>5, SMT DEF Span, a

LEMMA StageFields ==
  Span(\h28b54, 0, 1)
<1> DEFINE a == \h28b54
           fs == {0 .. 1, {2}, 3 .. 4, {5}, 6 .. 7}
<1>1. Reg(a, fs) \subseteq VgtStages
  BY SMT DEF VgtStages
<1>2. a \notin FetchResources
  BY SMT DEF FetchResources
<1>3. 0 .. 1 \in fs
  OBVIOUS
<1>. HIDE DEF a, fs
<1>4. \A d \in fs : Declares(a, d)
  BY <1>1, <1>2, LayoutBlocks, RegDeclares
<1>. QED
  BY <1>3, <1>4, SMT DEF Span, a

LEMMA ImmedFields ==
  ASSUME NEW a \in Array(\h28b9c, 12, 4), a \notin FetchResources
  PROVE  Declares(a, Bit)
<1> DEFINE A == Array(\h28b9c, 12, 4)
<1>1. Plain(A) \subseteq PaLines
  BY SMT DEF PaLines
<1>2. a \in A
  BY SMT
<1>. HIDE DEF A
<1>. QED
  BY <1>1, <1>2, LayoutBlocks, PlainDeclares

LEMMA VertexFields ==
  /\ Declares(\h28c08, {0})
  /\ Span(\h28c08, 1, 2)
<1> DEFINE a == \h28c08
           fs == {{0}, 1 .. 2, 3 .. 5}
<1>1. Reg(a, fs) \subseteq PaLines
  BY SMT DEF PaLines
<1>2. a \notin FetchResources
  BY SMT DEF FetchResources
<1>3. {0} \in fs
  OBVIOUS
<1>4. 1 .. 2 \in fs
  OBVIOUS
<1>. HIDE DEF a, fs
<1>5. \A d \in fs : Declares(a, d)
  BY <1>1, <1>2, LayoutBlocks, RegDeclares
<1>. QED
  BY <1>3, <1>4, <1>5, SMT DEF Span, a

LEMMA GuardBandFields ==
  ASSUME NEW a \in Dwords(\h28c0c, \h28c18), a \notin FetchResources
  PROVE  Declares(a, Bit)
<1> DEFINE A == Dwords(\h28c0c, \h28c18)
<1>1. Plain(A) \subseteq PaLines
  BY SMT DEF PaLines
<1>2. a \in A
  BY SMT
<1>. HIDE DEF A
<1>. QED
  BY <1>1, <1>2, LayoutBlocks, PlainDeclares

LEMMA SampleMaskFields ==
  ASSUME NEW a \in {\h28c3c}, a \notin FetchResources
  PROVE  Declares(a, Bit)
<1> DEFINE A == {\h28c3c}
<1>1. Plain(A) \subseteq PaMask
  BY SMT DEF PaMask
<1>2. a \in A
  BY SMT
<1>. HIDE DEF A
<1>. QED
  BY <1>1, <1>2, LayoutBlocks, PlainDeclares

LEMMA BaseFields ==
  ASSUME NEW a \in Rats(\h28c60), a \notin FetchResources
  PROVE  Declares(a, Bit)
<1> DEFINE A == Rats(\h28c60)
<1>1. Plain(A) \subseteq RatSurface
  BY SMT DEF RatSurface
<1>2. a \in A
  BY SMT
<1>. HIDE DEF A
<1>. QED
  BY <1>1, <1>2, LayoutBlocks, PlainDeclares

LEMMA PitchFields ==
  ASSUME NEW a \in Rats(\h28c64), a \notin FetchResources
  PROVE  Span(a, 0, 10)
<1> DEFINE A == Rats(\h28c64)
           fs == {0 .. 10}
<1>1. Alike(A, fs) \subseteq RatSurface
  BY SMT DEF RatSurface
<1>2. a \in A
  BY SMT
<1>3. 0 .. 10 \in fs
  OBVIOUS
<1>. HIDE DEF A, fs
<1>4. \A d \in fs : Declares(a, d)
  BY <1>1, <1>2, LayoutBlocks, AlikeDeclares
<1>. QED
  BY <1>3, <1>4, SMT DEF Span

LEMMA SliceFields ==
  ASSUME NEW a \in Rats(\h28c68), a \notin FetchResources
  PROVE  Span(a, 0, 21)
<1> DEFINE A == Rats(\h28c68)
           fs == {0 .. 21}
<1>1. Alike(A, fs) \subseteq RatSurface
  BY SMT DEF RatSurface
<1>2. a \in A
  BY SMT
<1>3. 0 .. 21 \in fs
  OBVIOUS
<1>. HIDE DEF A, fs
<1>4. \A d \in fs : Declares(a, d)
  BY <1>1, <1>2, LayoutBlocks, AlikeDeclares
<1>. QED
  BY <1>3, <1>4, SMT DEF Span

LEMMA InfoFields ==
  ASSUME NEW a \in Rats(\h28c70), a \notin FetchResources
  PROVE  /\ Span(a, 2, 7)
         /\ Span(a, 8, 11)
         /\ Span(a, 12, 14)
         /\ Declares(a, {26})
<1> DEFINE A == Rats(\h28c70)
           fs == RatFormat
<1>1. Alike(A, fs) \subseteq RatInfo
  BY SMT DEF RatInfo
<1>2. a \in A
  BY SMT
<1>3. 2 .. 7 \in fs
  BY DEF RatFormat
<1>4. 8 .. 11 \in fs
  BY DEF RatFormat
<1>5. 12 .. 14 \in fs
  BY DEF RatFormat
<1>6. {26} \in fs
  BY FlagIn DEF RatFormat
<1>. HIDE DEF A, fs
<1>7. \A d \in fs : Declares(a, d)
  BY <1>1, <1>2, LayoutBlocks, AlikeDeclares
<1>. QED
  BY <1>3, <1>4, <1>5, <1>6, <1>7, SMT DEF Span

LEMMA AttribFields ==
  ASSUME NEW a \in Rats(\h28c74), a \notin FetchResources
  PROVE  Declares(a, {4})
<1> DEFINE A == Rats(\h28c74)
           fs == {{3}, {4}, 5 .. 8} \cup {b .. b + 1 : b \in Every(3, 10, 22)}
<1>1. Alike(A, fs) \subseteq RatAttrib
  BY SMT DEF RatAttrib
<1>2. a \in A
  BY SMT
<1>3. {4} \in fs
  OBVIOUS
<1>. HIDE DEF A, fs
<1>4. \A d \in fs : Declares(a, d)
  BY <1>1, <1>2, LayoutBlocks, AlikeDeclares
<1>. QED
  BY <1>3, <1>4, SMT DEF Span

LEMMA DimFields ==
  ASSUME NEW a \in Rats(\h28c78), a \notin FetchResources
  PROVE  Declares(a, Bit)
<1> DEFINE A == Rats(\h28c78)
           fs == Halves \cup {Bit}
<1>1. Alike(A, fs) \subseteq RatDim
  BY SMT DEF RatDim
<1>2. a \in A
  BY SMT
<1>3. Bit \in fs
  OBVIOUS
<1>. HIDE DEF A, fs
<1>4. \A d \in fs : Declares(a, d)
  BY <1>1, <1>2, LayoutBlocks, AlikeDeclares
<1>. QED
  BY <1>3, <1>4, SMT DEF Span

LEMMA CacheBaseFields ==
  ASSUME NEW a \in Array(\h28f00, 16, 4) \cup Array(\h28f40, 16, 4), a \notin FetchResources
  PROVE  Declares(a, Bit)
<1> DEFINE A == Array(\h28f00, 16, 4) \cup Array(\h28f40, 16, 4)
<1>1. Plain(A) \subseteq ConstCaches
  BY SMT DEF ConstCaches
<1>2. a \in A
  BY SMT
<1>. HIDE DEF A
<1>. QED
  BY <1>1, <1>2, LayoutBlocks, PlainDeclares

LEMMA CacheSizeFields ==
  ASSUME NEW a \in Array(\h28fc0, 16, 4), a \notin FetchResources
  PROVE  Span(a, 0, 8)
<1> DEFINE A == Array(\h28f80, 16, 4) \cup Array(\h28fc0, 16, 4)
           fs == {0 .. 8}
<1>1. Alike(A, fs) \subseteq ConstCaches
  BY SMT DEF ConstCaches
<1>2. a \in A
  BY SMT
<1>3. 0 .. 8 \in fs
  OBVIOUS
<1>. HIDE DEF A, fs
<1>4. \A d \in fs : Declares(a, d)
  BY <1>1, <1>2, LayoutBlocks, AlikeDeclares
<1>. QED
  BY <1>3, <1>4, SMT DEF Span

LEMMA LoopFields ==
  ASSUME NEW a \in Array(\h3a200, 192, 4), a \notin FetchResources
  PROVE  /\ Span(a, 0, 11)
         /\ Span(a, 12, 23)
         /\ Span(a, 24, 31)
<1> DEFINE A == Array(\h3a200, 192, 4)
           fs == {0 .. 11, 12 .. 23, 24 .. 31} \cup Bytes(4)
<1>1. Alike(A, fs) \subseteq LoopAndBoolConsts
  BY SMT DEF LoopAndBoolConsts
<1>2. a \in A
  BY SMT
<1>3. 0 .. 11 \in fs
  OBVIOUS
<1>4. 12 .. 23 \in fs
  OBVIOUS
<1>5. 24 .. 31 \in fs
  OBVIOUS
<1>. HIDE DEF A, fs
<1>6. \A d \in fs : Declares(a, d)
  BY <1>1, <1>2, LayoutBlocks, AlikeDeclares
<1>. QED
  BY <1>3, <1>4, <1>5, <1>6, SMT DEF Span

LEMMA InputFields ==
  /\ Declares(\h286e8, {0})
  /\ Declares(\h286e8, {1})
  /\ Declares(\h286e8, {2})
<1> DEFINE a == \h286e8
           fs == Flags(0 .. 2)
<1>1. Reg(a, fs) \subseteq ComputeRegisters
  BY SMT DEF ComputeRegisters
<1>2. a \notin FetchResources
  BY SMT DEF FetchResources
<1>3. {0} \in fs
  BY FlagIn
<1>4. {1} \in fs
  BY FlagIn
<1>5. {2} \in fs
  BY FlagIn
<1>. HIDE DEF a, fs
<1>6. \A d \in fs : Declares(a, d)
  BY <1>1, <1>2, LayoutBlocks, RegDeclares
<1>. QED
  BY <1>3, <1>4, <1>5, <1>6, SMT DEF Span, a

LEMMA LdsFields ==
  Span(\h8e2c, 16, 31)
<1> DEFINE a == \h8e2c
           fs == {16 .. 31}
<1>1. Reg(a, fs) \subseteq ComputeRegisters
  BY SMT DEF ComputeRegisters
<1>2. a \notin FetchResources
  BY SMT DEF FetchResources
<1>3. 16 .. 31 \in fs
  OBVIOUS
<1>. HIDE DEF a, fs
<1>4. \A d \in fs : Declares(a, d)
  BY <1>1, <1>2, LayoutBlocks, RegDeclares
<1>. QED
  BY <1>3, <1>4, SMT DEF Span, a

LEMMA LdsAllocFields ==
  /\ Span(\h288e8, 0, 13)
  /\ Span(\h288e8, 14, 31)
<1> DEFINE a == \h288e8
           fs == {0 .. 13, 14 .. 31}
<1>1. Reg(a, fs) \subseteq ComputeRegisters
  BY SMT DEF ComputeRegisters
<1>2. a \notin FetchResources
  BY SMT DEF FetchResources
<1>3. 0 .. 13 \in fs
  OBVIOUS
<1>4. 14 .. 31 \in fs
  OBVIOUS
<1>. HIDE DEF a, fs
<1>5. \A d \in fs : Declares(a, d)
  BY <1>1, <1>2, LayoutBlocks, RegDeclares
<1>. QED
  BY <1>3, <1>4, <1>5, SMT DEF Span, a

LEMMA GdsFields ==
  ASSUME NEW a \in {\h28728, \h28720, \h28724} \cup Dwords(\h899c, \h89a4), a \notin FetchResources
  PROVE  Declares(a, Bit)
<1> DEFINE A == {\h28728, \h28720, \h28724} \cup Dwords(\h899c, \h89a4)
<1>1. Plain(A) \subseteq ComputeRegisters
  BY SMT DEF ComputeRegisters
<1>2. a \in A
  BY SMT
<1>. HIDE DEF A
<1>. QED
  BY <1>1, <1>2, LayoutBlocks, PlainDeclares

LEMMA EngineFields ==
  /\ Span(\h802c, 16, 29)
  /\ Declares(\h802c, {30})
  /\ Declares(\h802c, {31})
<1> DEFINE a == \h802c
           fs == {0 .. 15, 16 .. 29, {30}, {31}}
<1>1. Reg(a, fs) \subseteq ComputeRegisters
  BY SMT DEF ComputeRegisters
<1>2. a \notin FetchResources
  BY SMT DEF FetchResources
<1>3. 16 .. 29 \in fs
  OBVIOUS
<1>4. {30} \in fs
  OBVIOUS
<1>5. {31} \in fs
  OBVIOUS
<1>. HIDE DEF a, fs
<1>6. \A d \in fs : Declares(a, d)
  BY <1>1, <1>2, LayoutBlocks, RegDeclares
<1>. QED
  BY <1>3, <1>4, <1>5, <1>6, SMT DEF Span, a

LEMMA GroupFields ==
  ASSUME NEW a \in Dwords(\h286ec, \h286f4), a \notin FetchResources
  PROVE  Span(a, 0, 15)
<1> DEFINE A == Dwords(\h286ec, \h286f4)
           fs == {0 .. 15}
<1>1. Alike(A, fs) \subseteq ComputeRegisters
  BY SMT DEF ComputeRegisters
<1>2. a \in A
  BY SMT
<1>3. 0 .. 15 \in fs
  OBVIOUS
<1>. HIDE DEF A, fs
<1>4. \A d \in fs : Declares(a, d)
  BY <1>1, <1>2, LayoutBlocks, AlikeDeclares
<1>. QED
  BY <1>3, <1>4, SMT DEF Span

LEMMA ThreadCountFields ==
  Span(\h89ac, 0, 11)
<1> DEFINE a == \h89ac
           fs == {0 .. 11}
<1>1. Reg(a, fs) \subseteq ComputeRegisters
  BY SMT DEF ComputeRegisters
<1>2. a \notin FetchResources
  BY SMT DEF FetchResources
<1>3. 0 .. 11 \in fs
  OBVIOUS
<1>. HIDE DEF a, fs
<1>4. \A d \in fs : Declares(a, d)
  BY <1>1, <1>2, LayoutBlocks, RegDeclares
<1>. QED
  BY <1>3, <1>4, SMT DEF Span, a

LEMMA ExportFields ==
  /\ Span(\h28838, 0, 4)
  /\ Span(\h28838, 5, 9)
  /\ Span(\h28838, 10, 14)
  /\ Span(\h28838, 15, 19)
  /\ Span(\h28838, 20, 24)
  /\ Span(\h28838, 25, 29)
<1> DEFINE a == \h28838
           fs == {5 * i .. 5 * i + 4 : i \in 0 .. 5}
<1>1. Reg(a, fs) \subseteq ComputeRegisters
  BY SMT DEF ComputeRegisters
<1>2. a \notin FetchResources
  BY SMT DEF FetchResources
<1>3. 5 * 0 .. 5 * 0 + 4 \in fs
  OBVIOUS
<1>4. 5 * 1 .. 5 * 1 + 4 \in fs
  OBVIOUS
<1>5. 5 * 2 .. 5 * 2 + 4 \in fs
  OBVIOUS
<1>6. 5 * 3 .. 5 * 3 + 4 \in fs
  OBVIOUS
<1>7. 5 * 4 .. 5 * 4 + 4 \in fs
  OBVIOUS
<1>8. 5 * 5 .. 5 * 5 + 4 \in fs
  OBVIOUS
<1>. HIDE DEF a, fs
<1>9. \A d \in fs : Declares(a, d)
  BY <1>1, <1>2, LayoutBlocks, RegDeclares
<1>. QED
  BY <1>3, <1>4, <1>5, <1>6, <1>7, <1>8, <1>9, SMT DEF Span, a

LEMMA ThreadMaskFields ==
  ASSUME NEW a \in Dwords(\h8e20, \h8e28), a \notin FetchResources
  PROVE  Declares(a, Bit)
<1> DEFINE A == Dwords(\h8e20, \h8e28)
<1>1. Plain(A) \subseteq ThreadMasks
  BY SMT DEF ThreadMasks
<1>2. a \in A
  BY SMT
<1>. HIDE DEF A
<1>. QED
  BY <1>1, <1>2, LayoutBlocks, PlainDeclares

LEMMA DynamicFields ==
  ASSUME NEW a \in {\h8d8c, \h288ec}, a \notin FetchResources
  PROVE  Declares(a, Bit)
<1> DEFINE A == {\h8d8c, \h288ec}
<1>1. Plain(A) \subseteq DynamicGprs
  BY SMT DEF DynamicGprs
<1>2. a \in A
  BY SMT
<1>. HIDE DEF A
<1>. QED
  BY <1>1, <1>2, LayoutBlocks, PlainDeclares

LEMMA CoherFields ==
  /\ Declares(\h85f0, {23})
  /\ Declares(\h85f0, {24})
  /\ Declares(\h85f0, {27})
<1> DEFINE a == \h85f0
           fs == CoherFlags
<1>1. Reg(a, fs) \subseteq WaitAndCoher
  BY SMT DEF WaitAndCoher
<1>2. a \notin FetchResources
  BY SMT DEF FetchResources
<1>3. {23} \in fs
  BY FlagIn DEF CoherFlags
<1>4. {24} \in fs
  BY FlagIn DEF CoherFlags
<1>5. {27} \in fs
  BY FlagIn DEF CoherFlags
<1>. HIDE DEF a, fs
<1>6. \A d \in fs : Declares(a, d)
  BY <1>1, <1>2, LayoutBlocks, RegDeclares
<1>. QED
  BY <1>3, <1>4, <1>5, <1>6, SMT DEF Span, a

LEMMA CoherSizeFields ==
  ASSUME NEW a \in {\h85f4, \h85f8}, a \notin FetchResources
  PROVE  Declares(a, Bit)
<1> DEFINE A == {\h85f4, \h85f8}
<1>1. Plain(A) \subseteq WaitAndCoher
  BY SMT DEF WaitAndCoher
<1>2. a \in A
  BY SMT
<1>. HIDE DEF A
<1>. QED
  BY <1>1, <1>2, LayoutBlocks, PlainDeclares

-----------------------------------------------------------------------------
(* Writes whose words fit the registers they go to.  At the addresses of   *)
(* resources, the write that sets a word sets the type of its resource.    *)

TypeWord(r) == 32 * (r \div 32) + 28

InBuffer(w, r) ==
  /\ w.key[1] # "reg"
  /\ \E j \in 2 .. Len(w.words) :
       w.at + 4 * (j - 1) = TypeWord(r) /\ w.words[j] = Field(30, 3)

FitsThere(w, i) ==
  LET r == w.at + 4 * (i - 1)
  IN  WordFits(w.words[i], r) /\ (r \in FetchResources => InBuffer(w, r))

WriteFits(w) == w.at # 0 => \A i \in 1 .. Len(w.words) : FitsThere(w, i)

AllFit(s) == \E S : s \in Seq(S) /\ \A w \in S : WriteFits(w)

LEMMA AllFitJoined ==
  ASSUME NEW s, NEW t, AllFit(s), AllFit(t)
  PROVE  AllFit(s \o t)
<1>1. PICK S : s \in Seq(S) /\ \A w \in S : WriteFits(w)
  BY DEF AllFit
<1>2. PICK T : t \in Seq(T) /\ \A w \in T : WriteFits(w)
  BY DEF AllFit
<1>3. s \in Seq(S \cup T) /\ t \in Seq(S \cup T)
  BY <1>1, <1>2
<1>4. s \o t \in Seq(S \cup T)
  BY <1>3
<1>5. \A w \in S \cup T : WriteFits(w)
  BY <1>1, <1>2
<1>. QED
  BY <1>4, <1>5 DEF AllFit

LEMMA AllFitFirst ==
  ASSUME NEW s, AllFit(s), s # <<>>
  PROVE  WriteFits(Head(s)) /\ AllFit(Tail(s))
<1>1. PICK S : s \in Seq(S) /\ \A w \in S : WriteFits(w)
  BY DEF AllFit
<1>2. Head(s) \in S /\ Tail(s) \in Seq(S)
  BY <1>1
<1>. QED
  BY <1>1, <1>2 DEF AllFit

LEMMA AllFitEach ==
  ASSUME NEW n \in Nat, NEW W, NEW s \in [1 .. n -> W], \A i \in 1 .. n : WriteFits(s[i])
  PROVE  AllFit(s)
<1> DEFINE S == {w \in W : WriteFits(w)}
<1>1. s \in Seq(S)
  BY SMT
<1>2. \A w \in S : WriteFits(w)
  OBVIOUS
<1>. HIDE DEF S
<1>. QED
  BY <1>1, <1>2 DEF AllFit

\* What a write is, but for the relocation behind it.
Shaped(w, key, a, words) == w.key = key /\ w.at = a /\ w.words = words

LEMMA Shapes ==
  ASSUME NEW a, NEW words, NEW name, NEW i
  PROVE  /\ Shaped(Burst(a, words), <<"reg", a>>, a, words)
         /\ Shaped(Relocated(Burst(a, words)), <<"reg", a>>, a, words)
         /\ Shaped(Element(name, i, a, words), <<name, i>>, a, words)
         /\ Shaped(Relocated(Element(name, i, a, words)), <<name, i>>, a, words)
<1> DEFINE b == Burst(a, words)
           e == Element(name, i, a, words)
<1>1. /\ b.key = <<"reg", a>> /\ b.at = a /\ b.words = words
      /\ DOMAIN b = {"op", "key", "at", "words", "reloc"}
  BY SMT DEF Burst
<1>. HIDE DEF b
<1>2. e = [b EXCEPT !["key"] = <<name, i>>]
  BY Zenon DEF Element, b
<1>3. /\ e.key = <<name, i>> /\ e.at = a /\ e.words = words
      /\ DOMAIN e = {"op", "key", "at", "words", "reloc"}
  BY <1>1, <1>2
<1>. HIDE DEF e
<1>4. ASSUME NEW w, NEW key, Shaped(w, key, a, words),
             DOMAIN w = {"op", "key", "at", "words", "reloc"}
      PROVE  Shaped(Relocated(w), key, a, words)
  BY <1>4 DEF Shaped, Relocated
<1>5. Shaped(b, <<"reg", a>>, a, words) /\ Shaped(e, <<name, i>>, a, words)
  BY <1>1, <1>3 DEF Shaped
<1>. QED
  BY <1>1, <1>3, <1>4, <1>5 DEF b, e

\* Out of the addresses of resources.
Away(a, n) == a + 4 * n <= 196608 \/ 229376 <= a

LEMMA FetchAddress == \A r \in Int : r \in FetchResources <=> 196608 <= r /\ r <= 229375
  BY SMTT(30) DEF FetchResources

LEMMA AwayIs ==
  ASSUME NEW a \in Nat, NEW n \in Nat, Away(a, n), NEW i \in 1 .. n
  PROVE  a + 4 * (i - 1) \notin FetchResources /\ a + 4 * (i - 1) \in Nat
<1> DEFINE r == a + 4 * (i - 1)
<1>1. r \in Nat /\ a <= r /\ r <= a + 4 * n - 4
  OBVIOUS
<1>2. r < 196608 \/ 229376 <= r
  BY <1>1 DEF Away
<1>. HIDE DEF r
<1>3. r \notin FetchResources
  BY <1>1, <1>2, FetchAddress, SMT
<1>. QED
  BY <1>1, <1>3, SMT DEF r

LEMMA FitShaped ==
  ASSUME NEW a \in Nat, NEW n \in Nat, Away(a, n), NEW words, Len(words) = n, NEW w, NEW key,
         Shaped(w, key, a, words), \A i \in 1 .. n : WordFits(words[i], a + 4 * (i - 1))
  PROVE  WriteFits(w)
  BY AwayIs DEF Shaped, WriteFits, FitsThere

LEMMA FitZeros ==
  ASSUME NEW a \in Nat, NEW n \in 1 .. 32, Away(a, n), NEW w, NEW key,
         Shaped(w, key, a, Zeros(n))
  PROVE  WriteFits(w)
<1>1. Len(Zeros(n)) = n /\ \A i \in 1 .. n : Zeros(n)[i] = Zero
  BY ZerosType
<1>. HIDE DEF Zeros
<1>2. n \in Nat
  OBVIOUS
<1>. QED
  BY <1>1, <1>2, FitZero, FitShaped

\* An address in the configuration or the context space.
Low(a) == a \in Nat /\ a <= 196604

LEMMA FitShape ==
  ASSUME NEW a \in Nat, Away(a, 1), NEW v, WordFits(v, a), NEW w, NEW key,
         Shaped(w, key, a, <<v>>)
  PROVE  WriteFits(w)
<1> DEFINE words == <<v>>
<1>1. Len(words) = 1 /\ 1 \in Nat /\ \A i \in 1 .. 1 : WordFits(words[i], a + 4 * (i - 1))
  BY SMT
<1>2. Shaped(w, key, a, words)
  OBVIOUS
<1>. HIDE DEF words
<1>. QED
  BY <1>1, <1>2, FitShaped

LEMMA LowAway == \A a : Low(a) => a \in Nat /\ Away(a, 1)
  BY SMT DEF Low, Away

LEMMA FitWrite ==
  ASSUME NEW a, Low(a), NEW v, WordFits(v, a)
  PROVE  WriteFits(Write(a, v)) /\ WriteFits(Relocated(Write(a, v)))
<1>1. a \in Nat /\ Away(a, 1)
  BY LowAway
<1>2. /\ Shaped(Write(a, v), <<"reg", a>>, a, <<v>>)
      /\ Shaped(Relocated(Write(a, v)), <<"reg", a>>, a, <<v>>)
  BY Shapes DEF Write
<1>. QED
  BY <1>1, <1>2, FitShape

LEMMA FitElement ==
  ASSUME NEW a \in Nat, Away(a, 1), NEW v, WordFits(v, a), NEW name, NEW i
  PROVE  /\ WriteFits(Element(name, i, a, <<v>>))
         /\ WriteFits(Relocated(Element(name, i, a, <<v>>)))
  BY Shapes, FitShape

LEMMA FitWriteZero ==
  ASSUME NEW a, Low(a)
  PROVE  WriteFits(Write(a, Zero)) /\ WriteFits(Relocated(Write(a, Zero)))
  BY FitZero, FitWrite

LEMMA FitTwo ==
  ASSUME NEW a \in Nat, Away(a, 2), NEW u, NEW v, WordFits(u, a), WordFits(v, a + 4)
  PROVE  WriteFits(Burst(a, <<u, v>>))
<1> DEFINE words == <<u, v>>
<1>1. Len(words) = 2 /\ 2 \in Nat /\ \A i \in 1 .. 2 : WordFits(words[i], a + 4 * (i - 1))
  BY SMT
<1>. HIDE DEF words
<1>2. WriteFits(Burst(a, words))
  BY <1>1, Shapes, FitShaped
<1>. QED
  BY <1>2 DEF words

LEMMA FitBurstZeros ==
  ASSUME NEW a \in Nat, NEW n \in 1 .. 32, Away(a, n)
  PROVE  /\ WriteFits(Burst(a, Zeros(n)))
         /\ \A name, i : WriteFits(Element(name, i, a, Zeros(n)))
  BY Shapes, FitZeros

-----------------------------------------------------------------------------
(* Sequences of so many writes.                                            *)

LEMMA FitNone == AllFit(<<>>)
<1> DEFINE S == {}
<1>1. <<>> \in Seq(S)
  OBVIOUS
<1>2. \A w \in S : WriteFits(w)
  OBVIOUS
<1>. HIDE DEF S
<1>. QED
  BY <1>1, <1>2 DEF AllFit

LEMMA FitTuple1 ==
  ASSUME NEW w1,
         \A w \in {w1} : WriteFits(w)
  PROVE  AllFit(<<w1>>)
<1> DEFINE S == {w1}
<1>1. <<w1>> \in Seq(S)
  BY SMT
<1>2. \A w \in S : WriteFits(w)
  OBVIOUS
<1>. HIDE DEF S
<1>. QED
  BY <1>1, <1>2 DEF AllFit

LEMMA FitTuple2 ==
  ASSUME NEW w1, NEW w2,
         \A w \in {w1, w2} : WriteFits(w)
  PROVE  AllFit(<<w1, w2>>)
<1> DEFINE S == {w1, w2}
<1>1. <<w1, w2>> \in Seq(S)
  BY SMT
<1>2. \A w \in S : WriteFits(w)
  OBVIOUS
<1>. HIDE DEF S
<1>. QED
  BY <1>1, <1>2 DEF AllFit

LEMMA FitTuple3 ==
  ASSUME NEW w1, NEW w2, NEW w3,
         \A w \in {w1, w2, w3} : WriteFits(w)
  PROVE  AllFit(<<w1, w2, w3>>)
<1> DEFINE S == {w1, w2, w3}
<1>1. <<w1, w2, w3>> \in Seq(S)
  BY SMT
<1>2. \A w \in S : WriteFits(w)
  OBVIOUS
<1>. HIDE DEF S
<1>. QED
  BY <1>1, <1>2 DEF AllFit

LEMMA FitTuple4 ==
  ASSUME NEW w1, NEW w2, NEW w3, NEW w4,
         \A w \in {w1, w2, w3, w4} : WriteFits(w)
  PROVE  AllFit(<<w1, w2, w3, w4>>)
<1> DEFINE S == {w1, w2, w3, w4}
<1>1. <<w1, w2, w3, w4>> \in Seq(S)
  BY SMT
<1>2. \A w \in S : WriteFits(w)
  OBVIOUS
<1>. HIDE DEF S
<1>. QED
  BY <1>1, <1>2 DEF AllFit

LEMMA FitTuple5 ==
  ASSUME NEW w1, NEW w2, NEW w3, NEW w4, NEW w5,
         \A w \in {w1, w2, w3, w4, w5} : WriteFits(w)
  PROVE  AllFit(<<w1, w2, w3, w4, w5>>)
<1> DEFINE S == {w1, w2, w3, w4, w5}
<1>1. <<w1, w2, w3, w4, w5>> \in Seq(S)
  BY SMT
<1>2. \A w \in S : WriteFits(w)
  OBVIOUS
<1>. HIDE DEF S
<1>. QED
  BY <1>1, <1>2 DEF AllFit

LEMMA FitTuple6 ==
  ASSUME NEW w1, NEW w2, NEW w3, NEW w4, NEW w5, NEW w6,
         \A w \in {w1, w2, w3, w4, w5, w6} : WriteFits(w)
  PROVE  AllFit(<<w1, w2, w3, w4, w5, w6>>)
<1> DEFINE S == {w1, w2, w3, w4, w5, w6}
<1>1. <<w1, w2, w3, w4, w5, w6>> \in Seq(S)
  BY SMT
<1>2. \A w \in S : WriteFits(w)
  OBVIOUS
<1>. HIDE DEF S
<1>. QED
  BY <1>1, <1>2 DEF AllFit

LEMMA FitTuple7 ==
  ASSUME NEW w1, NEW w2, NEW w3, NEW w4, NEW w5, NEW w6, NEW w7,
         \A w \in {w1, w2, w3, w4, w5, w6, w7} : WriteFits(w)
  PROVE  AllFit(<<w1, w2, w3, w4, w5, w6, w7>>)
<1> DEFINE S == {w1, w2, w3, w4, w5, w6, w7}
<1>1. <<w1, w2, w3, w4, w5, w6, w7>> \in Seq(S)
  BY SMT
<1>2. \A w \in S : WriteFits(w)
  OBVIOUS
<1>. HIDE DEF S
<1>. QED
  BY <1>1, <1>2 DEF AllFit

LEMMA FitTuple8 ==
  ASSUME NEW w1, NEW w2, NEW w3, NEW w4, NEW w5, NEW w6, NEW w7, NEW w8,
         \A w \in {w1, w2, w3, w4, w5, w6, w7, w8} : WriteFits(w)
  PROVE  AllFit(<<w1, w2, w3, w4, w5, w6, w7, w8>>)
<1> DEFINE S == {w1, w2, w3, w4, w5, w6, w7, w8}
<1>1. <<w1, w2, w3, w4, w5, w6, w7, w8>> \in Seq(S)
  BY SMT
<1>2. \A w \in S : WriteFits(w)
  OBVIOUS
<1>. HIDE DEF S
<1>. QED
  BY <1>1, <1>2 DEF AllFit

LEMMA FitTuple10 ==
  ASSUME NEW w1, NEW w2, NEW w3, NEW w4, NEW w5, NEW w6, NEW w7, NEW w8, NEW w9,
         NEW w10,
         \A w \in {w1, w2, w3, w4, w5, w6, w7, w8, w9, w10} : WriteFits(w)
  PROVE  AllFit(<<w1, w2, w3, w4, w5, w6, w7, w8, w9, w10>>)
<1> DEFINE S == {w1, w2, w3, w4, w5, w6, w7, w8, w9, w10}
<1>1. <<w1, w2, w3, w4, w5, w6, w7, w8, w9, w10>> \in Seq(S)
  BY SMT
<1>2. \A w \in S : WriteFits(w)
  OBVIOUS
<1>. HIDE DEF S
<1>. QED
  BY <1>1, <1>2 DEF AllFit

LEMMA FitTuple11 ==
  ASSUME NEW w1, NEW w2, NEW w3, NEW w4, NEW w5, NEW w6, NEW w7, NEW w8, NEW w9,
         NEW w10, NEW w11,
         \A w \in {w1, w2, w3, w4, w5, w6, w7, w8, w9, w10, w11} : WriteFits(w)
  PROVE  AllFit(<<w1, w2, w3, w4, w5, w6, w7, w8, w9, w10, w11>>)
<1> DEFINE S == {w1, w2, w3, w4, w5, w6, w7, w8, w9, w10, w11}
<1>1. <<w1, w2, w3, w4, w5, w6, w7, w8, w9, w10, w11>> \in Seq(S)
  BY SMT
<1>2. \A w \in S : WriteFits(w)
  OBVIOUS
<1>. HIDE DEF S
<1>. QED
  BY <1>1, <1>2 DEF AllFit

LEMMA FitTuple18 ==
  ASSUME NEW w1, NEW w2, NEW w3, NEW w4, NEW w5, NEW w6, NEW w7, NEW w8, NEW w9,
         NEW w10, NEW w11, NEW w12, NEW w13, NEW w14, NEW w15, NEW w16, NEW w17,
         NEW w18,
         \A w \in {w1, w2, w3, w4, w5, w6, w7, w8, w9, w10, w11, w12, w13, w14, w15, w16,
                 w17, w18} : WriteFits(w)
  PROVE  AllFit(<<w1, w2, w3, w4, w5, w6, w7, w8, w9, w10, w11, w12, w13, w14, w15, w16, w17, w18>>)
<1> DEFINE S == {w1, w2, w3, w4, w5, w6, w7, w8, w9, w10, w11, w12, w13, w14, w15, w16, w17, w18}
<1>1. <<w1, w2, w3, w4, w5, w6, w7, w8, w9, w10, w11, w12, w13, w14, w15, w16, w17, w18>> \in Seq(S)
  BY SMT
<1>2. \A w \in S : WriteFits(w)
  OBVIOUS
<1>. HIDE DEF S
<1>. QED
  BY <1>1, <1>2 DEF AllFit

LEMMA FitOff ==
  ASSUME NEW first \in Nat, NEW n \in 1 .. 32, first + 4 * n <= 196608
  PROVE  AllFit(Off(first, n))
<1> DEFINE s == Off(first, n)
<1>1. \A i \in 1 .. n : s[i] = Write(first + 4 * (i - 1), Zero)
  BY DEF Off
<1>2. \A i \in 1 .. n : WriteFits(s[i])
  <2>1. SUFFICES ASSUME NEW i \in 1 .. n PROVE WriteFits(Write(first + 4 * (i - 1), Zero))
    BY <1>1
  <2> DEFINE a == first + 4 * (i - 1)
  <2>2. Low(a)
    BY SMT DEF Low
  <2>. HIDE DEF a
  <2>3. WriteFits(Write(a, Zero))
    BY <2>2, FitWriteZero
  <2>. QED
    BY <2>3 DEF a
<1> DEFINE W == {Write(first + 4 * (i - 1), Zero) : i \in 1 .. n}
<1>3. s \in [1 .. n -> W]
  BY DEF Off
<1>. HIDE DEF s, W
<1>. QED
  BY <1>2, <1>3, AllFitEach DEF s

LEMMA RatIn ==
  ASSUME NEW a \in Nat, NEW id \in 0 .. 11
  PROVE  a + RatOffset(id) \in Rats(a) /\ RatOffset(id) \in 0 .. 564
<1>1. CASE id < 8
  <2>1. a + 60 * id \in Every(60, a, a + 60 * 7)
    <3>1. id \in 0 .. ((a + 60 * 7) - a) \div 60
      BY <1>1, SMT
    <3>. QED
      BY <3>1, SMT DEF Every
  <2>2. a + 60 * id \in Array(a, 8, \h3c)
    BY <2>1, SMT DEF Array
  <2>3. RatOffset(id) = 60 * id
    BY <1>1, SMT DEF RatOffset
  <2>. QED
    BY <1>1, <2>2, <2>3, SMT DEF Rats
<1>2. CASE 8 <= id
  <2> DEFINE b == a + 480
             i == id - 8
  <2>0. b \in Nat /\ i \in 0 .. 3
    BY <1>2
  <2>. HIDE DEF b, i
  <2>1. b + 28 * i \in Every(28, b, b + 28 * 3)
    <3>1. i \in 0 .. ((b + 28 * 3) - b) \div 28
      BY <2>0, SMT
    <3>. QED
      BY <3>1, SMT DEF Every
  <2>2. b + 28 * i \in Array(b, 4, \h1c)
    BY <2>0, <2>1, SMT DEF Array
  <2>3. RatOffset(id) = 480 + 28 * (id - 8)
    BY <1>2, SMT DEF RatOffset
  <2>. QED
    BY <1>2, <2>2, <2>3, SMT DEF Rats, b, i
<1>. QED
  BY <1>1, <1>2

-----------------------------------------------------------------------------
(* The product of sizes.                                                   *)

One(s) == CHOOSE d \in s : TRUE

\* One step of the product of the sizes whose positions are in s.
Multiplied(g, sizes, s) == IF s = {} THEN 1 ELSE sizes[One(s)] * g[s \ {One(s)}]

\* Products as far as the subsets of at most n positions.
MultipliedUpTo(g, sizes, S, n) ==
  /\ g = [s \in SUBSET S |-> g[s]]
  /\ \A s \in SUBSET S : Cardinality(s) <= n => g[s] = Multiplied(g, sizes, s)

LEMMA ProductsUpToExist ==
  ASSUME NEW sizes, NEW S, IsFiniteSet(S), NEW m \in Nat
  PROVE  \E g : MultipliedUpTo(g, sizes, S, m)
<1> DEFINE Bad == {n \in Nat : ~ \E g : MultipliedUpTo(g, sizes, S, n)}
<1>. SUFFICES ASSUME Bad # {} PROVE FALSE
  OBVIOUS
<1>1. PICK n \in Bad : \A k \in Bad : ~ (k < n)
  <2>1. Bad \in SUBSET Nat
    OBVIOUS
  <2>. HIDE DEF Bad
  <2>. QED
    BY <2>1, Least
<1>2. n \in Nat /\ ~ \E g : MultipliedUpTo(g, sizes, S, n)
  BY <1>1
<1>3. CASE n = 0
  <2> DEFINE g == [s \in SUBSET S |-> 1]
  <2>1. ASSUME NEW s \in SUBSET S, Cardinality(s) <= 0
        PROVE  s = {}
    <3>1. IsFiniteSet(s) /\ Cardinality(s) \in Nat
      BY FS_Subset, FS_CardinalityType
    <3>. QED
      BY <2>1, <3>1, FS_EmptySet
  <2>2. MultipliedUpTo(g, sizes, S, 0)
    BY <2>1 DEF MultipliedUpTo, Multiplied
  <2>. QED
    BY <1>2, <1>3, <2>2
<1>4. CASE n # 0
  <2>1. n - 1 \in Nat /\ n - 1 < n
    BY <1>2, <1>4
  <2>2. PICK f : MultipliedUpTo(f, sizes, S, n - 1)
    BY <1>1, <2>1
  <2> DEFINE g == [s \in SUBSET S |-> Multiplied(f, sizes, s)]
  <2>3. ASSUME NEW s \in SUBSET S, Cardinality(s) <= n
        PROVE  g[s] = Multiplied(g, sizes, s)
    <3>1. CASE s = {}
      BY <3>1 DEF Multiplied
    <3>2. CASE s # {}
      <4> DEFINE t == s \ {One(s)}
      <4>1. One(s) \in s
        BY <3>2 DEF One
      <4>2. t \in SUBSET S /\ Cardinality(t) <= n - 1
        BY <1>2, <2>3, <4>1, Smaller
      <4>. HIDE DEF t
      <4>3. f[t] = Multiplied(f, sizes, t)
        BY <2>2, <4>2 DEF MultipliedUpTo
      <4>4. f[t] = g[t]
        BY <4>2, <4>3
      <4>. QED
        BY <3>2, <4>4 DEF Multiplied, t
    <3>. QED
      BY <3>1, <3>2
  <2>4. g = [s \in SUBSET S |-> g[s]]
    OBVIOUS
  <2>. HIDE DEF g
  <2>5. MultipliedUpTo(g, sizes, S, n)
    BY <2>3, <2>4 DEF MultipliedUpTo
  <2>. QED
    BY <1>2, <2>5
<1>. QED
  BY <1>3, <1>4

LEMMA Times ==
  ASSUME NEW m \in Nat, NEW n \in Nat
  PROVE  m * n \in Nat /\ (m * n # 0 => m * n >= m /\ m * n >= n /\ n # 0)
<1>1. CASE m = 0
  BY <1>1, SMT
<1>2. CASE n = 0
  BY <1>2, SMT
<1>3. CASE m >= 1 /\ n >= 1
  <2>1. (m - 1) * n >= 0 /\ m * (n - 1) >= 0 /\ m * n >= 0
    BY <1>3, SMT
  <2>. QED
    BY <1>3, <2>1, SMT
<1>. QED
  BY <1>1, <1>2, <1>3

\* Unless one of them is zero, the product is as large as each.
LEMMA ProductReaches ==
  ASSUME NEW sizes \in Seq(Nat)
  PROVE  /\ Product(sizes) \in Nat
         /\ Product(sizes) # 0 => \A d \in DOMAIN sizes : sizes[d] <= Product(sizes)
<1> DEFINE S == DOMAIN sizes
           Iter(g) == g = [s \in SUBSET S |->
             IF s = {} THEN 1
             ELSE sizes[CHOOSE d \in s : TRUE] * g[s \ {CHOOSE d \in s : TRUE}]]
           it == CHOOSE g : Iter(g)
<1>1. Product(sizes) = it[S]
  BY DEF Product, FoldSeq, FoldFunction, FoldFunctionOnSet, MapThenFoldSet
<1>2. Len(sizes) \in Nat /\ S = 1 .. Len(sizes)
  OBVIOUS
<1>3. IsFiniteSet(S) /\ Cardinality(S) \in Nat
  BY <1>2, FS_Interval, FS_CardinalityType
<1>4. \A g : Iter(g) <=> g = [s \in SUBSET S |-> Multiplied(g, sizes, s)]
  BY DEF Multiplied, One
<1>5. \A d \in S : sizes[d] \in Nat
  OBVIOUS
<1>. HIDE DEF Iter, S
<1>6. Iter(it)
  <2>1. PICK g : MultipliedUpTo(g, sizes, S, Cardinality(S))
    BY <1>3, ProductsUpToExist
  <2>2. \A s \in SUBSET S : g[s] = Multiplied(g, sizes, s)
    BY <1>3, <2>1, FS_Subset DEF MultipliedUpTo
  <2>3. g = [s \in SUBSET S |-> Multiplied(g, sizes, s)]
    BY <2>1, <2>2 DEF MultipliedUpTo
  <2>. QED
    BY <1>4, <2>3
<1>. HIDE DEF it
<1> DEFINE Good(s) == it[s] \in Nat /\ (it[s] # 0 => \A d \in s : sizes[d] <= it[s])
           Bad == {s \in SUBSET S : ~ Good(s)}
           Sizes == {Cardinality(s) : s \in Bad}
<1>7. \A s \in SUBSET S : it[s] = Multiplied(it, sizes, s)
  BY <1>4, <1>6
<1>8. ASSUME Bad # {} PROVE FALSE
  <2>1. PICK n \in Sizes : \A k \in Sizes : ~ (k < n)
    <3>1. Sizes \in SUBSET Nat /\ Sizes # {}
      BY <1>3, <1>8, FS_Subset, FS_CardinalityType
    <3>. HIDE DEF Sizes
    <3>. QED
      BY <3>1, Least
  <2>2. PICK s \in Bad : n = Cardinality(s)
    BY <2>1
  <2>3. s \in SUBSET S /\ ~ Good(s)
    BY <2>2
  <2>4. s # {}
    <3>1. ASSUME s = {} PROVE FALSE
      <4>1. it[s] = 1
        BY <1>7, <2>3, <3>1 DEF Multiplied
      <4>. QED
        BY <2>3, <3>1, <4>1
    <3>. QED
      BY <3>1
  <2> DEFINE x == One(s)
             t == s \ {x}
  <2>5. x \in s
    BY <2>4 DEF One
  <2>6. t \in SUBSET S /\ Cardinality(t) < n
    BY <1>3, <2>2, <2>3, <2>5, Smaller
  <2>7. Good(t)
    <3>1. Cardinality(t) \notin Sizes
      BY <2>1, <2>6
    <3>. QED
      BY <2>6, <3>1
  <2>8. it[s] = sizes[x] * it[t]
    BY <1>7, <2>3, <2>4 DEF Multiplied
  <2>9. sizes[x] \in Nat /\ it[t] \in Nat /\ \A d \in s : d = x \/ d \in t
    BY <1>5, <2>3, <2>5, <2>7
  <2>10. it[s] \in Nat /\ (it[s] # 0 => it[s] >= sizes[x] /\ it[s] >= it[t] /\ it[t] # 0)
    BY <2>8, <2>9, Times
  <2>. HIDE DEF x, t
  <2>11. \A d \in s : it[s] # 0 => sizes[d] <= it[s]
    <3>1. ASSUME NEW d \in s, it[s] # 0 PROVE sizes[d] <= it[s]
      <4>1. d \in t => sizes[d] \in Nat /\ sizes[d] <= it[t]
        BY <1>5, <2>6, <2>7, <2>10, <3>1
      <4>. QED
        BY <2>9, <2>10, <3>1, <4>1
    <3>. QED
      BY <3>1
  <2>. QED
    BY <2>3, <2>10, <2>11
<1>9. Good(S)
  BY <1>8
<1>. QED
  BY <1>1, <1>9 DEF S

-----------------------------------------------------------------------------
(* What the setters write fits.                                            *)

LEMMA LoadIs ==
  ASSUME NEW load \in Load, NEW max \in Nat
  PROVE  UpTo(load, max) \in Nat /\ UpTo(load, max) <= max
  BY SMT DEF Load, UpTo

LEMMA FitLds ==
  ASSUME NEW load \in Load
  PROVE  AllFit(set_lds(load))
<1> DEFINE m == UpTo(load, \hffff)
           n == UpTo(load, \h3fff)
           k == UpTo(load, \h3ffff)
<1>1. m \in Nat /\ m < 65536 /\ n \in Nat /\ n < 16384 /\ k \in Nat /\ k < 262144
  BY LoadIs, SMT
<1>. HIDE DEF m, n, k
<1> DEFINE u == Field(16, m)
           v == Plainly(n) \cup Field(14, k)
<1>2. WordFits(Field(16, m), \h8e2c)
  BY <1>1, LdsFields, FitSpan, PowersAre, SMT
<1>3. WordFits(Field(0, n), \h288e8) /\ WordFits(Field(14, k), \h288e8)
  BY <1>1, LdsAllocFields, FitSpan, PowersAre, SMT
<1>4. WordFits(v, \h288e8)
  BY <1>3 DEF WordFits, Plainly
<1>. HIDE DEF u, v
<1>5. WriteFits(Write(\h8e2c, u)) /\ WriteFits(Write(\h288e8, v))
  BY <1>2, <1>4, FitWrite, SMT DEF Low, u
<1>6. set_lds(load) = <<Write(\h8e2c, u), Write(\h288e8, v)>>
  BY SMT DEF set_lds, u, v, m, n, k
<1>. QED
  BY <1>5, <1>6, FitTuple2

LEMMA FitAllOnes == \A a : Declares(a, Bit) => WordFits(AllOnes, a)
  BY FitBit DEF AllOnes

LEMMA FitGds ==
  ASSUME NEW load \in Load
  PROVE  AllFit(set_gds(load))
<1> DEFINE u == Plainly(1)
           v == IF load = 0 THEN Zero ELSE AllOnes
<1>1. /\ Declares(\h28728, Bit) /\ Declares(\h28720, Bit) /\ Declares(\h28724, Bit)
  BY GdsFields, FetchAddress, SMT
<1>2. WordFits(u, \h28728) /\ WordFits(v, \h28720) /\ WordFits(v, \h28724)
  BY <1>1, FitBit, FitAllOnes, FitZero
<1>. HIDE DEF u, v
<1>3. WriteFits(Write(\h28728, u)) /\ WriteFits(Write(\h28720, v)) /\ WriteFits(Write(\h28724, v))
  BY <1>2, FitWrite, SMT DEF Low
<1>4. set_gds(load) = <<Write(\h28728, u), Write(\h28720, v), Write(\h28724, v)>>
  BY SMT DEF set_gds, u, v
<1>. QED
  BY <1>3, <1>4, FitTuple3

LEMMA FitSe ==
  ASSUME NEW load \in Load
  PROVE  AllFit(select_se(load))
<1> DEFINE n == UpTo(load, \h3fff)
           v == Field(16, n) \cup Flag(30) \cup IF load = 1 THEN Flag(31) ELSE Zero
<1>1. n \in Nat /\ n < 16384
  BY LoadIs, SMT
<1>. HIDE DEF n
<1>2. WordFits(Field(16, n), \h802c)
  BY <1>1, EngineFields, FitSpan, PowersAre, SMT
<1>3. WordFits(Flag(30), \h802c) /\ WordFits(Flag(31), \h802c)
  BY EngineFields, FitFlag, SMT
<1>4. WordFits(v, \h802c)
  BY <1>2, <1>3, FitZero DEF WordFits
<1>. HIDE DEF v
<1>5. WriteFits(Write(\h802c, v))
  BY <1>4, FitWrite, SMT DEF Low
<1>6. select_se(load) = <<Write(\h802c, v)>>
  BY SMT DEF select_se, v, n
<1>. QED
  BY <1>5, <1>6, FitTuple1

LEMMA FitRings ==
  ASSUME NEW start \in Nat
  PROVE  AllFit(set_export(start)) /\ AllFit(set_tmp_ring(start)) /\ AllFit(no_tmp_ring)
<1> DEFINE u == Plainly(256 * start)
           v == Plainly(4 * Size(start))
<1>1. 256 * start \in Int /\ 4 * Size(start) \in Int
  BY SMT DEF Size
<1>2. /\ Declares(\h9010, Bit) /\ Declares(\h9014, Bit)
      /\ Declares(\h8e10, Bit) /\ Declares(\h8e14, Bit)
  <2>1. \h8e10 \in Dwords(\h8e10, \h8e1c) /\ \h8e14 \in Dwords(\h8e10, \h8e1c)
    <3>1. /\ 36368 = 36368 + 4 * 0 /\ 36372 = 36368 + 4 * 1
          /\ 0 \in 0 .. (36380 - 36368) \div 4 /\ 1 \in 0 .. (36380 - 36368) \div 4
      BY SMT
    <3>. QED
      BY <3>1, SMT DEF Dwords, Every
  <2>. QED
    BY <2>1, SxFields, FetchAddress, SMT
<1>3. WordFits(u, \h9010) /\ WordFits(u, \h8e10) /\ WordFits(v, \h9014) /\ WordFits(v, \h8e14)
  BY <1>1, <1>2, FitBit
<1>. HIDE DEF u, v
<1>4. /\ WriteFits(Relocated(Write(\h9010, u))) /\ WriteFits(Write(\h9014, v))
      /\ WriteFits(Relocated(Write(\h8e10, u))) /\ WriteFits(Write(\h8e14, v))
      /\ WriteFits(Write(\h8e14, Zero))
  BY <1>3, FitWrite, FitWriteZero, SMT DEF Low
<1>5. /\ set_export(start) = <<Relocated(Write(\h9010, u)), Write(\h9014, v)>>
      /\ set_tmp_ring(start) = <<Relocated(Write(\h8e10, u)), Write(\h8e14, v)>>
      /\ no_tmp_ring = <<Write(\h8e14, Zero)>>
  BY SMT DEF set_export, set_tmp_ring, no_tmp_ring, u, v
<1>. QED
  BY <1>4, <1>5, FitTuple1, FitTuple2

LEMMA FitSync ==
  ASSUME NEW flags, flags \subseteq {23, 24, 27}, NEW size \in Int
  PROVE  WriteFits(set_surface_sync(flags, size))
<1> DEFINE a == CP_COHER_CNTL
           u == Literal(flags)
           v == Plainly(Blocks(size))
           words == <<u, v, Zero>>
           key == <<"COHER", 0>>
           e == Element("COHER", 0, a, words)
           w == set_surface_sync(flags, size)
<1>1. a = 34288
  BY SMT DEF CP_COHER_CNTL
<1>2. WordFits(u, 34288)
  <2>1. \A b \in flags : b \in Nat /\ \E d : b \in d /\ Declares(34288, d)
    BY CoherFields, SMT
  <2>. QED
    BY <2>1, FitFlags
<1>3. WordFits(v, 34292)
  <2>1. Declares(34292, Bit)
    BY CoherSizeFields, FetchAddress, SMT
  <2>2. Blocks(size) \in Int
    BY SMT DEF Blocks
  <2>. QED
    BY <2>1, <2>2, FitBit
<1>4. WordFits(Zero, 34296)
  BY FitZero
<1>5. Shaped(w, key, a, words)
  <2>1. Shaped(e, key, a, words)
    BY Shapes
  <2>2. w = [[e EXCEPT !.op = "SURFACE_SYNC"] EXCEPT !.reloc = TRUE]
    BY Zenon DEF set_surface_sync, Relocated
  <2>3. DOMAIN e = {"op", "key", "at", "words", "reloc"}
    BY DEF Element, Burst
  <2>. HIDE DEF e, w, words, a, key
  <2>. QED
    BY <2>1, <2>2, <2>3 DEF Shaped
<1>6. Len(words) = 3 /\ words[1] = u /\ words[2] = v /\ words[3] = Zero
  OBVIOUS
<1>. HIDE DEF a, u, v, words, key, w
<1>7. \A i \in 1 .. 3 : WordFits(words[i], a + 4 * (i - 1))
  BY <1>1, <1>2, <1>3, <1>4, <1>6
<1>8. a \in Nat /\ Away(a, 3)
  BY <1>1 DEF Away
<1>9. WriteFits(w)
  BY <1>5, <1>6, <1>7, <1>8, FitShaped
<1>. QED
  BY <1>9 DEF w

LEMMA FitLoopConsts ==
  ASSUME NEW n \in Nat, NEW count \in Nat, count < 4096, NEW init \in Nat, init < 4096,
         NEW inc \in Nat, inc < 256, n <= 32
  PROVE  AllFit(LoopConsts(n, count, init, inc))
<1> DEFINE v == Plainly(count) \cup Field(12, init) \cup Field(24, inc)
           at(i) == LoopConst(i - 1)
           w(i) == Element("LOOP", i - 1, at(i), <<v>>)
           s == LoopConsts(n, count, init, inc)
           W == {w(i) : i \in 1 .. n}
<1>1. \A i \in 1 .. n : s[i] = w(i)
  BY DEF LoopConsts
<1>2. s \in [1 .. n -> W]
  BY DEF LoopConsts
<1>3. ASSUME NEW i \in 1 .. n
      PROVE  WriteFits(w(i))
  <2> DEFINE a == at(i)
             j == 160 + (i - 1)
  <2>1. a = 238080 + 4 * j /\ j \in 0 .. 191
    BY SMT DEF LoopConst
  <2>. HIDE DEF a, j
  <2>2. a \in Array(\h3a200, 192, 4)
    <3>1. j \in 0 .. ((238080 + 191 * 4) - 238080) \div 4
      BY <2>1, SMT
    <3>. QED
      BY <2>1, <3>1, SMT DEF Array, Every
  <2>3. a \in Nat /\ 238080 <= a
    BY <2>1
  <2>4. a \notin FetchResources
    BY <2>3, FetchAddress, SMT
  <2>5. Span(a, 0, 11) /\ Span(a, 12, 23) /\ Span(a, 24, 31)
    BY <2>2, <2>4, LoopFields
  <2>6. WordFits(Field(0, count), a) /\ WordFits(Field(12, init), a) /\ WordFits(Field(24, inc), a)
    BY <2>5, FitSpan, PowersAre, SMT
  <2>7. WordFits(v, a)
    BY <2>6 DEF WordFits, Plainly
  <2>8. Away(a, 1)
    BY <2>3 DEF Away
  <2>. HIDE DEF v
  <2>9. WriteFits(Element("LOOP", i - 1, a, <<v>>))
    BY <2>3, <2>7, <2>8, FitElement
  <2>. QED
    BY <2>9 DEF a
<1>. HIDE DEF s, W, w
<1>4. \A i \in 1 .. n : WriteFits(s[i])
  BY <1>1, <1>3
<1>5. n \in Nat
  OBVIOUS
<1>6. AllFit(s)
  BY <1>2, <1>4, <1>5, AllFitEach
<1>. QED
  BY <1>6 DEF s

LEMMA FitLoops ==
  ASSUME NEW n \in Nat, n <= 32, NEW load \in Load
  PROVE  AllFit(set_loop_consts(n, load))
<1> DEFINE u == UpTo(load, 4095)
           v == UpTo(load, 255)
<1>1. u \in Nat /\ u < 4096 /\ v \in Nat /\ v < 256
  BY LoadIs, SMT
<1>2. set_loop_consts(n, load) = LoopConsts(n, u, u, v)
  BY SMT DEF set_loop_consts
<1>. HIDE DEF u, v
<1>3. AllFit(LoopConsts(n, u, u, v))
  BY <1>1, FitLoopConsts, SMT
<1>. QED
  BY <1>2, <1>3

\* The registers of a RAT.
LEMMA FitRatRegisters ==
  ASSUME NEW id \in 0 .. 11
  PROVE  /\ Declares(Base(id), Bit) /\ Span(Pitch(id), 0, 10) /\ Span(Slice(id), 0, 21)
         /\ Span(Info(id), 2, 7) /\ Span(Info(id), 8, 11) /\ Span(Info(id), 12, 14)
         /\ Declares(Info(id), {26}) /\ Declares(Attrib(id), {4}) /\ Declares(Dim(id), Bit)
         /\ \A a \in {Base(id), Pitch(id), Slice(id), View(id), Info(id), Attrib(id), Dim(id),
                      Cmask(id), CmaskSlice(id), Fmask(id), FmaskSlice(id), ClearWord(id)} :
              a \in Nat /\ a <= 167800
<1> DEFINE o == RatOffset(id)
<1>1. o \in 0 .. 564
  <2>1. 0 \in Nat
    OBVIOUS
  <2>. QED
    BY <2>1, RatIn
<1>2. /\ Base(id) = 167008 + o /\ Pitch(id) = 167012 + o /\ Slice(id) = 167016 + o
      /\ View(id) = 167020 + o /\ Info(id) = 167024 + o /\ Attrib(id) = 167028 + o
      /\ Dim(id) = 167032 + o /\ Cmask(id) = 167036 + o /\ CmaskSlice(id) = 167040 + o
      /\ Fmask(id) = 167044 + o /\ FmaskSlice(id) = 167048 + o /\ ClearWord(id) = 167052 + o
  BY SMT DEF Base, Pitch, Slice, View, Info, Attrib, Dim, Cmask, CmaskSlice, Fmask, FmaskSlice,
             ClearWord
<1>3. /\ Base(id) \in Rats(167008) /\ Pitch(id) \in Rats(167012) /\ Slice(id) \in Rats(167016)
      /\ Info(id) \in Rats(167024) /\ Attrib(id) \in Rats(167028) /\ Dim(id) \in Rats(167032)
  <2>1. \A a \in Nat : a + o \in Rats(a)
    BY RatIn
  <2>. HIDE DEF o
  <2>. QED
    BY <1>2, <2>1
<1>. HIDE DEF o
<1>4. \A a \in {Base(id), Pitch(id), Slice(id), View(id), Info(id), Attrib(id), Dim(id),
                Cmask(id), CmaskSlice(id), Fmask(id), FmaskSlice(id), ClearWord(id)} :
        a \in Nat /\ a <= 167800
  BY <1>1, <1>2
<1>5. /\ Base(id) \notin FetchResources /\ Pitch(id) \notin FetchResources
      /\ Slice(id) \notin FetchResources /\ Info(id) \notin FetchResources
      /\ Attrib(id) \notin FetchResources /\ Dim(id) \notin FetchResources
  BY <1>4, FetchAddress, SMT
<1>6. /\ Declares(Base(id), Bit) /\ Span(Pitch(id), 0, 10) /\ Span(Slice(id), 0, 21)
  BY <1>3, <1>5, BaseFields, PitchFields, SliceFields, SMT
<1>7. /\ Span(Info(id), 2, 7) /\ Span(Info(id), 8, 11) /\ Span(Info(id), 12, 14)
      /\ Declares(Info(id), {26})
  BY <1>3, <1>5, InfoFields, SMT
<1>8. Declares(Attrib(id), {4}) /\ Declares(Dim(id), Bit)
  BY <1>3, <1>5, AttribFields, DimFields, SMT
<1>. QED
  BY <1>4, <1>6, <1>7, <1>8

LEMMA FitLowElement ==
  ASSUME NEW a, Low(a), NEW v, WordFits(v, a), NEW name, NEW i
  PROVE  /\ WriteFits(Element(name, i, a, <<v>>))
         /\ WriteFits(Relocated(Element(name, i, a, <<v>>)))
  BY LowAway, FitElement

LEMMA FitRat ==
  ASSUME NEW id \in 0 .. 11, NEW start \in Nat
  PROVE  AllFit(set_rat(id, start))
<1> DEFINE v == Plainly(start)
           size == Plainly(Size(start))
           base == Relocated(Element("BASE", id, Base(id), <<v>>))
           immed == Relocated(Element("IMMED", id, Immed(id), <<v>>))
           info == Relocated(Element("INFO", id, Info(id), <<RatInfoWord>>))
           attrib == Relocated(Element("ATTRIB", id, Attrib(id), <<Flag(4)>>))
           dim == Element("DIM", id, Dim(id), <<size>>)
           cmask == Relocated(Element("CMASK", id, Cmask(id), <<Zero>>))
           fmask == Relocated(Element("FMASK", id, Fmask(id), <<Zero>>))
<1>1. \A a \in {Base(id), Info(id), Attrib(id), Dim(id), Cmask(id), Fmask(id)} : Low(a)
  BY FitRatRegisters, SMT DEF Low
<1>2. WordFits(v, Base(id)) /\ WordFits(size, Dim(id))
  <2>1. start \in Int /\ Size(start) \in Int
    BY SMT DEF Size
  <2>. QED
    BY <2>1, FitRatRegisters, FitBit
<1>3. WordFits(RatInfoWord, Info(id))
  <2> DEFINE a == Info(id)
  <2>1. Span(a, 2, 7) /\ Span(a, 8, 11) /\ Span(a, 12, 14) /\ Declares(a, {26})
    BY FitRatRegisters
  <2>. HIDE DEF a
  <2>2. WordFits(Flag(26), a)
    BY <2>1, FitFlag
  <2>3. WordFits(Field(2, 13), a) /\ WordFits(Field(8, 1), a) /\ WordFits(Field(12, 4), a)
    BY <2>1, FitSpan, PowersAre, SMT
  <2>. QED
    BY <2>2, <2>3 DEF WordFits, RatInfoWord, a
<1>4. WordFits(Flag(4), Attrib(id))
  BY FitRatRegisters, FitFlag
<1>. HIDE DEF v, size
<1>5. WriteFits(base)
  BY <1>1, <1>2, FitLowElement
<1>6. WriteFits(dim)
  BY <1>1, <1>2, FitLowElement
<1>7. WriteFits(info) /\ WriteFits(attrib)
  BY <1>1, <1>3, <1>4, FitLowElement
<1>8. WriteFits(cmask) /\ WriteFits(fmask)
  BY <1>1, FitZero, FitLowElement
<1>9. ASSUME id < 6
      PROVE  WriteFits(immed)
  <2> DEFINE a == Immed(id)
             j == 2 * id
  <2>1. a = 166812 + 4 * j /\ j \in 0 .. 11 /\ id \in 0 .. 5
    BY <1>9, SMT DEF Immed, CB_IMMED0_BASE
  <2>. HIDE DEF a, j
  <2>2. a \in Array(\h28b9c, 12, 4)
    <3>1. j \in 0 .. ((166812 + 11 * 4) - 166812) \div 4
      BY <2>1, SMT
    <3>. QED
      BY <2>1, <3>1, SMT DEF Array, Every
  <2>3. Low(a)
    BY <2>1, SMT DEF Low
  <2>4. a \notin FetchResources
    BY <2>1, FetchAddress, SMT
  <2>5. WordFits(v, a)
    BY <2>2, <2>4, ImmedFields, FitBit DEF v
  <2>6. WriteFits(Relocated(Element("IMMED", id, a, <<v>>)))
    BY <2>3, <2>5, FitLowElement
  <2>. QED
    BY <2>6 DEF a
<1>10. set_rat(id, start) = <<base>> \o (IF id < 6 THEN <<immed>> ELSE <<>>)
                             \o <<info, attrib, dim>>
                             \o (IF id < 8 THEN <<cmask, fmask>> ELSE <<>>)
  BY Zenon DEF set_rat, v, size
<1>. HIDE DEF base, immed, info, attrib, dim, cmask, fmask
<1>11. AllFit(<<base>>) /\ AllFit(<<info, attrib, dim>>) /\ AllFit(<<cmask, fmask>>)
  BY <1>5, <1>6, <1>7, <1>8, FitTuple1, FitTuple2, FitTuple3
<1>12. AllFit(IF id < 6 THEN <<immed>> ELSE <<>>)
  BY <1>9, FitTuple1, FitNone
<1>13. AllFit(IF id < 8 THEN <<cmask, fmask>> ELSE <<>>)
  BY <1>11, FitNone
<1>. QED
  BY <1>10, <1>11, <1>12, <1>13, AllFitJoined

LEMMA FitCache ==
  ASSUME NEW i \in 0 .. 15, NEW start \in Nat, NEW load \in Load
  PROVE  AllFit(setup_const_cache(i, start, load))
<1> DEFINE n == UpTo(load, 510)
           v == Plainly(start)
           sync == set_surface_sync({27}, n)
           size == Element("CACHE_SIZE", i, CacheSize(i), <<Plainly(n)>>)
           base == Relocated(Element("CACHE_BASE", i, CacheBase(i), <<v>>))
<1>1. n \in Nat /\ n < 512
  BY LoadIs, SMT
<1>2. setup_const_cache(i, start, load) = <<sync, size, base>>
  BY Zenon DEF setup_const_cache
<1>. HIDE DEF n
<1>3. WriteFits(sync)
  <2>1. {27} \subseteq {23, 24, 27} /\ n \in Int
    BY <1>1
  <2>. QED
    BY <2>1, FitSync
<1>4. WriteFits(size)
  <2> DEFINE a == CacheSize(i)
  <2>1. a = 167872 + 4 * i
    BY SMT DEF CacheSize
  <2>. HIDE DEF a
  <2>2. a \in Array(\h28fc0, 16, 4)
    <3>1. i \in 0 .. ((167872 + 15 * 4) - 167872) \div 4
      BY SMT
    <3>. QED
      BY <2>1, <3>1, SMT DEF Array, Every
  <2>3. Low(a)
    BY <2>1, SMT DEF Low
  <2>4. a \notin FetchResources
    BY <2>1, FetchAddress, SMT
  <2>5. Span(a, 0, 8)
    BY <2>2, <2>4, CacheSizeFields
  <2>6. WordFits(Field(0, n), a)
    BY <1>1, <2>5, FitSpan, PowersAre, SMT
  <2>7. WriteFits(Element("CACHE_SIZE", i, a, <<Plainly(n)>>))
    BY <2>3, <2>6, FitLowElement DEF Plainly
  <2>. QED
    BY <2>7 DEF a
<1>5. WriteFits(base)
  <2> DEFINE a == CacheBase(i)
  <2>1. a = 167744 + 4 * i
    BY SMT DEF CacheBase
  <2>. HIDE DEF a
  <2>2. a \in Array(\h28f40, 16, 4)
    <3>1. i \in 0 .. ((167744 + 15 * 4) - 167744) \div 4
      BY SMT
    <3>. QED
      BY <2>1, <3>1, SMT DEF Array, Every
  <2>3. Low(a)
    BY <2>1, SMT DEF Low
  <2>4. a \notin FetchResources
    BY <2>1, FetchAddress, SMT
  <2>5. WordFits(v, a)
    BY <2>2, <2>4, CacheBaseFields, FitBit
  <2>. HIDE DEF v
  <2>6. WriteFits(Relocated(Element("CACHE_BASE", i, a, <<v>>)))
    BY <2>3, <2>5, FitLowElement
  <2>. QED
    BY <2>6 DEF a
<1>. HIDE DEF sync, size, base
<1>. QED
  BY <1>2, <1>3, <1>4, <1>5, FitTuple3

\* The words of a buffer, when the last of them says it is one.
LEMMA FetchDeclares ==
  ASSUME NEW id \in Nat, 816 <= id, id <= 991, NEW i \in 1 .. 8
  PROVE  LET a == Fetch(id) + 4 * (i - 1)
         IN  /\ a \in FetchResources /\ TypeWord(a) = Fetch(id) + 28
             /\ \A d : Declares(a, d) <=> d \in VtxFields[i]
<1> DEFINE a == Fetch(id) + 4 * (i - 1)
<1>1. a = 196608 + 32 * id + 4 * (i - 1) /\ a \in Nat
  BY SMT DEF Fetch
<1>2. a \in FetchResources
  BY <1>1, FetchAddress, SMT
<1>3. (a % 32) \div 4 + 1 = i /\ TypeWord(a) = Fetch(id) + 28
  <2> DEFINE b == 6144 + id
             c == 4 * (i - 1)
  <2>1. a = 32 * b + c /\ b \in Nat /\ c \in 0 .. 28 /\ c \div 4 = i - 1
    BY <1>1, SMT
  <2>2. Fetch(id) = 32 * b
    BY SMT DEF Fetch
  <2>. HIDE DEF a, b, c
  <2>3. a % 32 = c /\ a \div 32 = b
    BY <2>1, SMT
  <2>. QED
    BY <2>1, <2>2, <2>3, SMT DEF TypeWord
<1>. HIDE DEF a
<1>4. FieldsAt(a, TRUE) = VtxFields[i]
  BY <1>2, <1>3 DEF FieldsAt, FetchFields
<1>. QED
  BY <1>2, <1>3, <1>4 DEF Declares, a

LEMMA FetchWords ==
  ASSUME NEW id \in Nat, 816 <= id, id <= 991
  PROVE  LET a(i) == Fetch(id) + 4 * (i - 1)
         IN  /\ Declares(a(1), Bit) /\ Declares(a(2), Bit)
             /\ Span(a(3), 0, 7) /\ Span(a(3), 8, 18) /\ Declares(a(3), {19})
             /\ Span(a(3), 20, 25) /\ Span(a(3), 26, 27) /\ Declares(a(3), {28})
             /\ Declares(a(3), {29}) /\ Span(a(3), 30, 31)
             /\ Declares(a(4), {2}) /\ Span(a(4), 3, 5) /\ Span(a(4), 6, 8)
             /\ Span(a(4), 9, 11) /\ Span(a(4), 12, 14)
             /\ Span(a(8), 30, 31)
<1> DEFINE a(i) == Fetch(id) + 4 * (i - 1)
<1>1. \A i \in 1 .. 8 : \A d : Declares(a(i), d) <=> d \in VtxFields[i]
  BY FetchDeclares
<1> DEFINE third == {0 .. 7, 8 .. 18, {19}, 20 .. 25, 26 .. 27, {28}, {29}, 30 .. 31}
           fourth == {{2}} \cup {b .. b + 2 : b \in Every(3, 3, 12)}
<1>2. /\ VtxFields[1] = {Bit} /\ VtxFields[2] = {Bit} /\ VtxFields[3] = third
      /\ VtxFields[4] = fourth /\ VtxFields[8] = {TypeField}
  BY DEF VtxFields
<1>3. \A b \in {3, 6, 9, 12} : b .. b + 2 \in fourth
  <2>1. /\ 3 = 3 + 3 * 0 /\ 6 = 3 + 3 * 1 /\ 9 = 3 + 3 * 2 /\ 12 = 3 + 3 * 3
        /\ {0, 1, 2, 3} \subseteq 0 .. (12 - 3) \div 3
    BY SMT
  <2>2. {3, 6, 9, 12} \subseteq Every(3, 3, 12)
    BY <2>1, SMT DEF Every
  <2>. QED
    BY <2>2
<1>4. {2} \in fourth
  OBVIOUS
<1>5. /\ 0 .. 7 \in third /\ 8 .. 18 \in third /\ {19} \in third /\ 20 .. 25 \in third
      /\ 26 .. 27 \in third /\ {28} \in third /\ {29} \in third /\ 30 .. 31 \in third
  OBVIOUS
<1>. HIDE DEF a, third, fourth
<1>6. Declares(a(1), Bit) /\ Declares(a(2), Bit)
  BY <1>1, <1>2
<1>7. /\ Span(a(3), 0, 7) /\ Span(a(3), 8, 18) /\ Declares(a(3), {19})
      /\ Span(a(3), 20, 25) /\ Span(a(3), 26, 27) /\ Declares(a(3), {28})
      /\ Declares(a(3), {29}) /\ Span(a(3), 30, 31)
  BY <1>1, <1>2, <1>5 DEF Span
<1>8. /\ Declares(a(4), {2}) /\ Span(a(4), 3, 5) /\ Span(a(4), 6, 8)
      /\ Span(a(4), 9, 11) /\ Span(a(4), 12, 14)
  BY <1>1, <1>2, <1>3, <1>4, SMT DEF Span
<1>9. Span(a(8), 30, 31)
  BY <1>1, <1>2 DEF Span, TypeField
<1>. QED
  BY <1>6, <1>7, <1>8, <1>9 DEF a

\* Words that fit the registers of a buffer and say that it is one.
LEMMA FitBuffer ==
  ASSUME NEW id \in Nat, 816 <= id, id <= 991, NEW words, Len(words) = 8,
         \A i \in 1 .. 8 : WordFits(words[i], Fetch(id) + 4 * (i - 1)),
         words[8] = Field(30, 3)
  PROVE  WriteFits(Relocated(Element("FETCH", id, Fetch(id), words)))
<1> DEFINE w == Relocated(Element("FETCH", id, Fetch(id), words))
<1>1. Shaped(w, <<"FETCH", id>>, Fetch(id), words)
  BY Shapes
<1>. HIDE DEF w
<1>2. w.key[1] # "reg" /\ w.at = Fetch(id) /\ w.words = words
  BY <1>1 DEF Shaped
<1>3. ASSUME NEW i \in 1 .. 8
      PROVE  FitsThere(w, i)
  <2> DEFINE r == Fetch(id) + 4 * (i - 1)
  <2>1. TypeWord(r) = Fetch(id) + 4 * (8 - 1)
    <3>1. Fetch(id) + 28 = Fetch(id) + 4 * (8 - 1)
      BY SMT DEF Fetch
    <3>. QED
      BY <3>1, FetchDeclares
  <2>2. WordFits(words[i], r)
    OBVIOUS
  <2>. HIDE DEF r
  <2>3. InBuffer(w, r)
    <3>1. 8 \in 2 .. Len(words)
      OBVIOUS
    <3>. QED
      BY <1>2, <2>1, <3>1 DEF InBuffer
  <2>. QED
    BY <1>2, <2>2, <2>3 DEF FitsThere, r
<1>. QED
  BY <1>2, <1>3 DEF WriteFits, w

LEMMA FitFetch ==
  ASSUME NEW id \in Nat, 816 <= id, id <= 991, NEW start \in Nat, NEW hi \in {0, 511},
         NEW load \in Load
  PROVE  AllFit(set_vtx_resource(id, start, hi, load))
<1> DEFINE stride == 4 * UpTo(load, 511)
           format == UpTo(load, 63)
           few == UpTo(load, 3)
           some == UpTo(load, 7)
           a(i) == Fetch(id) + 4 * (i - 1)
           v1 == Plainly(256 * start)
           v2 == Plainly(4 * Size(start) - 1)
           v3 == BaseHi(hi) \cup Field(8, stride) \cup Field(20, format)
                   \cup Field(26, few) \cup Field(30, few)
                   \cup IF load = 1 THEN Literal({19, 28, 29}) ELSE Zero
           v4 == (UNION {Field(b, some) : b \in {3, 6, 9, 12}})
                   \cup IF load = 1 THEN Flag(2) ELSE Zero
           words == <<v1, v2, v3, v4, Zero, Zero, Zero, Field(30, 3)>>
           sync == set_surface_sync({23, 24}, 4 * Size(start))
           fetch == Relocated(Element("FETCH", id, Fetch(id), words))
<1>1. /\ stride \in Nat /\ stride < 2048 /\ format \in Nat /\ format < 64
      /\ few \in Nat /\ few < 4 /\ some \in Nat /\ some < 8
  <2>1. UpTo(load, 511) \in Nat /\ UpTo(load, 511) <= 511
    BY LoadIs
  <2>. QED
    BY <2>1, LoadIs, SMT
<1>2. set_vtx_resource(id, start, hi, load) = <<sync, fetch>>
  BY Zenon DEF set_vtx_resource
<1>3. WriteFits(sync)
  <2>1. {23, 24} \subseteq {23, 24, 27} /\ 4 * Size(start) \in Int
    BY SMT DEF Size
  <2>. QED
    BY <2>1, FitSync
<1>4. /\ Declares(a(1), Bit) /\ Declares(a(2), Bit)
      /\ Span(a(3), 0, 7) /\ Span(a(3), 8, 18) /\ Declares(a(3), {19})
      /\ Span(a(3), 20, 25) /\ Span(a(3), 26, 27) /\ Declares(a(3), {28})
      /\ Declares(a(3), {29}) /\ Span(a(3), 30, 31)
      /\ Declares(a(4), {2}) /\ Span(a(4), 3, 5) /\ Span(a(4), 6, 8)
      /\ Span(a(4), 9, 11) /\ Span(a(4), 12, 14)
      /\ Span(a(8), 30, 31)
  BY FetchWords
<1>. HIDE DEF stride, format, few, some, a
<1>5. WordFits(v1, a(1)) /\ WordFits(v2, a(2))
  <2>1. 256 * start \in Int /\ 4 * Size(start) - 1 \in Int
    BY SMT DEF Size
  <2>. QED
    BY <1>4, <2>1, FitBit
<1>6. WordFits(v3, a(3))
  <2>1. WordFits(BaseHi(hi), a(3))
    <3>1. hi % 256 \in Nat /\ hi % 256 < 256
      BY SMT
    <3> DEFINE n == hi % 256
    <3>. HIDE DEF n
    <3>2. WordFits(Field(0, n), a(3))
      BY <1>4, <3>1, FitSpan, PowersAre, SMT DEF n
    <3>. QED
      BY <3>2 DEF BaseHi, Plainly, n
  <2>2. WordFits(Field(8, stride), a(3)) /\ WordFits(Field(20, format), a(3))
    BY <1>1, <1>4, FitSpan, PowersAre, SMT
  <2>3. WordFits(Field(26, few), a(3)) /\ WordFits(Field(30, few), a(3))
    BY <1>1, <1>4, FitSpan, PowersAre, SMT
  <2>4. WordFits(Literal({19, 28, 29}), a(3))
    <3>1. \A b \in {19, 28, 29} : \E d : b \in d /\ Declares(a(3), d)
      BY <1>4
    <3>. QED
      BY <3>1, FitFlags
  <2>. QED
    BY <2>1, <2>2, <2>3, <2>4, FitZero DEF WordFits
<1>7. WordFits(v4, a(4))
  <2>1. \A b \in {3, 6, 9, 12} : WordFits(Field(b, some), a(4))
    <3>1. /\ WordFits(Field(3, some), a(4)) /\ WordFits(Field(6, some), a(4))
          /\ WordFits(Field(9, some), a(4)) /\ WordFits(Field(12, some), a(4))
      BY <1>1, <1>4, FitSpan, PowersAre, SMT
    <3>. QED
      BY <3>1
  <2>2. WordFits(Flag(2), a(4))
    BY <1>4, FitFlag
  <2>. QED
    BY <2>1, <2>2, FitZero DEF WordFits
<1>8. WordFits(Field(30, 3), a(8))
  BY <1>4, FitSpan, PowersAre, SMT
<1>9. WriteFits(fetch)
  <2>. HIDE DEF v1, v2, v3, v4
  <2>1. /\ Len(words) = 8 /\ words[8] = Field(30, 3) /\ words[1] = v1 /\ words[2] = v2
        /\ words[3] = v3 /\ words[4] = v4 /\ words[5] = Zero /\ words[6] = Zero /\ words[7] = Zero
    OBVIOUS
  <2>. HIDE DEF words
  <2>2. \A i \in 1 .. 8 : WordFits(words[i], a(i))
    BY <1>5, <1>6, <1>7, <1>8, <2>1, FitZero
  <2>. QED
    BY <2>1, <2>2, FitBuffer DEF a
<1>. HIDE DEF sync, fetch
<1>. QED
  BY <1>2, <1>3, <1>9, FitTuple2

LEMMA FitAt ==
  ASSUME NEW a \in Nat, a <= 196604, NEW v, WordFits(v, a)
  PROVE  WriteFits(Write(a, v))
<1>1. Low(a)
  BY DEF Low
<1>. QED
  BY <1>1, FitWrite

LEMMA FitLow == \A a \in Nat : a <= 196604 => a \notin FetchResources
  BY FetchAddress, SMT

LEMMA FitPrepare ==
  ASSUME NEW load \in Load
  PROVE  AllFit(prepare_compute_shader(load))
<1> DEFINE m == UpTo(load, 255)
           k == UpTo(load, 15)
           v1 == Plainly(m) \cup Field(8, m)
           v2 == Literal({0, 1}) \cup Field(18, 1)
           v3 == Field(28, k)
           v4 == Field(16, 16)
           v5 == Field(16, 64)
           v6 == Field(8, 64)
           sync == set_surface_sync({27}, 256)
           start == Relocated(Write(\h288d0, Zero))
           resources == Burst(\h288d4, <<v1, Zero>>)
<1>1. m \in Nat /\ m < 256 /\ k \in Nat /\ k < 16
  BY LoadIs, SMT
<1>2. prepare_compute_shader(load) =
        <<sync, start, resources, Write(\h8c00, v2), Write(\h8c04, v3), Write(\h8c08, Zero),
          Write(\h8c0c, v4), Write(\h8e20, AllOnes), Write(\h8e24, AllOnes),
          Write(\h8e28, AllOnes), Write(\h286c8, Zero), Write(\h8c10, Zero), Write(\h8c14, Zero),
          Write(\h8c20, Zero), Write(\h8c24, Zero), Write(\h8c28, v5), Write(\h8c18, Zero),
          Write(\h8c1c, v6)>>
  BY SMT DEF prepare_compute_shader
<1>. HIDE DEF m, k
<1>3. WriteFits(sync)
  BY FitSync
<1>4. WriteFits(start)
  BY FitWriteZero, SMT DEF Low
<1>5. WriteFits(resources)
  <2>1. Span(166100, 0, 7) /\ Span(166100, 8, 15)
    BY ShaderFields, FitLow, SMT
  <2>2. WordFits(Field(0, m), 166100) /\ WordFits(Field(8, m), 166100)
    BY <1>1, <2>1, FitSpan, PowersAre, SMT
  <2>3. WordFits(v1, 166100)
    BY <2>2 DEF WordFits, Plainly
  <2>. HIDE DEF v1
  <2>4. WordFits(Zero, 166100 + 4)
    BY FitZero
  <2>. QED
    BY <2>3, <2>4, FitTwo, SMT DEF Away
<1>6. WriteFits(Write(\h8c00, v2))
  <2>1. WordFits(Literal({0, 1}), 35840)
    <3>1. \A b \in {0, 1} : \E d : b \in d /\ Declares(35840, d)
      BY SqConfigFields, SMT
    <3>. QED
      BY <3>1, FitFlags, SMT
  <2>2. WordFits(Field(18, 1), 35840)
    BY SqConfigFields, FitSpan, PowersAre, SMT
  <2>3. WordFits(v2, 35840)
    BY <2>1, <2>2, SMT DEF WordFits
  <2>. HIDE DEF v2
  <2>. QED
    BY <2>3, FitAt, SMT
<1>7. WriteFits(Write(\h8c04, v3))
  <2>1. WordFits(v3, 35844)
    BY <1>1, SqGprFields, FitSpan, PowersAre, SMT
  <2>. HIDE DEF v3
  <2>. QED
    BY <2>1, FitAt, SMT
<1>8. WriteFits(Write(\h8c0c, v4))
  <2>1. Span(35852, 16, 23)
    BY SqMoreGprFields, FitLow, SMT
  <2>2. WordFits(v4, 35852)
    BY <2>1, FitSpan, PowersAre, SMT
  <2>. HIDE DEF v4
  <2>. QED
    BY <2>2, FitAt, SMT
<1>9. /\ WriteFits(Write(\h8e20, AllOnes)) /\ WriteFits(Write(\h8e24, AllOnes))
      /\ WriteFits(Write(\h8e28, AllOnes))
  <2> DEFINE D == Dwords(36384, 36392)
  <2>1. 36384 \in D /\ 36388 \in D /\ 36392 \in D
    <3>1. /\ 36384 = 36384 + 4 * 0 /\ 36388 = 36384 + 4 * 1 /\ 36392 = 36384 + 4 * 2
          /\ {0, 1, 2} \subseteq 0 .. (36392 - 36384) \div 4
      BY SMT
    <3>. QED
      BY <3>1, SMT DEF Dwords, Every
  <2>2. \A a \in D : a \notin FetchResources => Declares(a, Bit)
    BY ThreadMaskFields
  <2>. HIDE DEF D
  <2>3. Declares(36384, Bit) /\ Declares(36388, Bit) /\ Declares(36392, Bit)
    BY <2>1, <2>2, FitLow, SMT
  <2>4. WordFits(AllOnes, 36384) /\ WordFits(AllOnes, 36388) /\ WordFits(AllOnes, 36392)
    BY <2>3, FitAllOnes
  <2>. QED
    BY <2>4, FitAt, SMT
<1>10. WriteFits(Write(\h8c28, v5))
  <2> DEFINE D == Dwords(35872, 35880)
  <2>1. 35880 \in D
    <3>1. 35880 = 35872 + 4 * 2 /\ 2 \in 0 .. (35880 - 35872) \div 4
      BY SMT
    <3>. QED
      BY <3>1, SMT DEF Dwords, Every
  <2>2. \A a \in D : a \notin FetchResources => Span(a, 16, 27)
    BY SqStackFields
  <2>. HIDE DEF D
  <2>3. Span(35880, 16, 27)
    BY <2>1, <2>2, FitLow, SMT
  <2>4. WordFits(v5, 35880)
    BY <2>3, FitSpan, PowersAre, SMT
  <2>. HIDE DEF v5
  <2>. QED
    BY <2>4, FitAt, SMT
<1>11. WriteFits(Write(\h8c1c, v6))
  <2>1. WordFits(v6, 35868)
    BY SqMoreThreadFields, FitSpan, PowersAre, SMT
  <2>. HIDE DEF v6
  <2>. QED
    BY <2>1, FitAt, SMT
<1>12. /\ WriteFits(Write(\h8c08, Zero)) /\ WriteFits(Write(\h286c8, Zero))
       /\ WriteFits(Write(\h8c10, Zero)) /\ WriteFits(Write(\h8c14, Zero))
       /\ WriteFits(Write(\h8c20, Zero)) /\ WriteFits(Write(\h8c24, Zero))
       /\ WriteFits(Write(\h8c18, Zero))
  BY FitWriteZero, SMT DEF Low
<1>. HIDE DEF sync, start, resources, v2, v3, v4, v5, v6
<1> DEFINE x4 == Write(\h8c00, v2)
           x5 == Write(\h8c04, v3)
           x6 == Write(\h8c08, Zero)
           x7 == Write(\h8c0c, v4)
           x8 == Write(\h8e20, AllOnes)
           x9 == Write(\h8e24, AllOnes)
           x10 == Write(\h8e28, AllOnes)
           x11 == Write(\h286c8, Zero)
           x12 == Write(\h8c10, Zero)
           x13 == Write(\h8c14, Zero)
           x14 == Write(\h8c20, Zero)
           x15 == Write(\h8c24, Zero)
           x16 == Write(\h8c28, v5)
           x17 == Write(\h8c18, Zero)
           x18 == Write(\h8c1c, v6)
<1>13. prepare_compute_shader(load) =
         <<sync, start, resources, x4, x5, x6, x7, x8, x9, x10, x11, x12, x13, x14, x15, x16,
           x17, x18>>
  BY <1>2
<1>14. /\ WriteFits(x4) /\ WriteFits(x5) /\ WriteFits(x6) /\ WriteFits(x7) /\ WriteFits(x8)
       /\ WriteFits(x9) /\ WriteFits(x10) /\ WriteFits(x11) /\ WriteFits(x12) /\ WriteFits(x13)
       /\ WriteFits(x14) /\ WriteFits(x15) /\ WriteFits(x16) /\ WriteFits(x17) /\ WriteFits(x18)
  BY <1>6, <1>7, <1>8, <1>9, <1>10, <1>11, <1>12
<1>. HIDE DEF x4, x5, x6, x7, x8, x9, x10, x11, x12, x13, x14, x15, x16, x17, x18
<1>. QED
  BY <1>3, <1>4, <1>5, <1>13, <1>14, FitTuple18

\* A packet goes to no register.
LEMMA FitPacket ==
  ASSUME NEW op, NEW words
  PROVE  WriteFits(Packet(op, words))
<1>1. Packet(op, words).at = 0
  BY SMT DEF Packet, Burst
<1>. QED
  BY <1>1 DEF WriteFits

LEMMA FitDispatch ==
  ASSUME NEW local \in LocalSize, GroupsFit
  PROVE  AllFit(direct_dispatch(local))
<1> DEFINE size(d) == IF d <= Len(local) THEN local[d] ELSE 1
           n == Product(local)
           p == Packet("DISPATCH_DIRECT", [i \in 1 .. 4 |-> Plainly(1)])
<1>1. n \in Nat /\ n < 4096 /\ \A d \in 1 .. 3 : size(d) \in Nat /\ size(d) < 4096
  <2>1. /\ local \in Seq(Nat) /\ Product(local) \in Nat \ {0} /\ Product(local) < 4096
        /\ \A d \in DOMAIN local : local[d] <= Product(local)
    <3>1. local \in Seq(Nat)
      BY ArgumentAssumption
    <3> DEFINE q == Product(local)
    <3>2. q \in 1 .. 4095
      BY DEF GroupsFit
    <3>3. q # 0 => \A d \in DOMAIN local : local[d] <= q
      BY <3>1, ProductReaches
    <3>. HIDE DEF q
    <3>4. q \in Nat \ {0} /\ q < 4096 /\ \A d \in DOMAIN local : local[d] <= q
      BY <3>2, <3>3, SMT
    <3>. QED
      BY <3>1, <3>4 DEF q
  <2>2. \A d \in 1 .. Len(local) : local[d] \in Nat /\ local[d] < 4096
    <3> DEFINE q == Product(local)
    <3>1. DOMAIN local = 1 .. Len(local) /\ \A d \in 1 .. Len(local) : local[d] \in Nat
      BY <2>1
    <3>2. q \in Nat /\ q < 4096 /\ \A d \in DOMAIN local : local[d] <= q
      BY <2>1
    <3>. HIDE DEF q
    <3>. QED
      BY <3>1, <3>2, SMT
  <2>3. Len(local) \in Nat
    BY <2>1
  <2>. QED
    BY <2>1, <2>2, <2>3, SMT
<1> DEFINE s1 == Plainly(size(1))
           s2 == Plainly(size(2))
           s3 == Plainly(size(3))
           v == Plainly(n)
<1>2. direct_dispatch(local) =
        <<Write(\h8958, Plainly(1)), Write(\h899c, Zero), Write(\h89a0, Zero),
          Write(\h89a4, Zero), Write(\h286ec, s1), Write(\h286f0, s2), Write(\h286f4, s3),
          Write(\h8970, v), Write(\h89ac, v), p>>
  BY SMT DEF direct_dispatch
<1>. HIDE DEF n, size
<1>3. WriteFits(Write(\h8958, Plainly(1)))
  <2>1. WordFits(Plainly(1), 35160)
    BY VgtTypeFields, FitSpan, PowersAre, SMT DEF Plainly
  <2>. QED
    BY <2>1, FitAt, SMT
<1>4. WriteFits(Write(\h286ec, s1)) /\ WriteFits(Write(\h286f0, s2)) /\ WriteFits(Write(\h286f4, s3))
  <2> DEFINE D == Dwords(165612, 165620)
  <2>1. 165612 \in D /\ 165616 \in D /\ 165620 \in D
    <3>1. /\ 165612 = 165612 + 4 * 0 /\ 165616 = 165612 + 4 * 1 /\ 165620 = 165612 + 4 * 2
          /\ {0, 1, 2} \subseteq 0 .. (165620 - 165612) \div 4
      BY SMT
    <3>. QED
      BY <3>1, SMT DEF Dwords, Every
  <2>2. \A a \in D : a \notin FetchResources => Span(a, 0, 15)
    BY GroupFields
  <2>. HIDE DEF D
  <2>3. Span(165612, 0, 15) /\ Span(165616, 0, 15) /\ Span(165620, 0, 15)
    BY <2>1, <2>2, FitLow, SMT
  <2>4. \A d \in 1 .. 3 : size(d) \in Nat /\ size(d) < 65536
    BY <1>1, SMT
  <2>5. /\ WordFits(Field(0, size(1)), 165612) /\ WordFits(Field(0, size(2)), 165616)
        /\ WordFits(Field(0, size(3)), 165620)
    BY <2>3, <2>4, FitSpan, PowersAre, SMT
  <2>6. WordFits(s1, 165612) /\ WordFits(s2, 165616) /\ WordFits(s3, 165620)
    BY <2>5 DEF Plainly
  <2>. HIDE DEF s1, s2, s3
  <2>. QED
    BY <2>6, FitAt, SMT
<1>5. WriteFits(Write(\h8970, v)) /\ WriteFits(Write(\h89ac, v))
  <2> DEFINE D == Dwords(35168, 35188)
  <2>1. 35184 \in D
    <3>1. 35184 = 35168 + 4 * 4 /\ 4 \in 0 .. (35188 - 35168) \div 4
      BY SMT
    <3>. QED
      BY <3>1, SMT DEF Dwords, Every
  <2>2. \A a \in D : a \notin FetchResources => Declares(a, Bit)
    BY VgtCountFields
  <2>. HIDE DEF D
  <2>3. Declares(35184, Bit)
    BY <2>1, <2>2, FitLow, SMT
  <2>4. WordFits(v, 35184)
    BY <1>1, <2>3, FitBit
  <2>5. WordFits(Field(0, n), 35244)
    BY <1>1, ThreadCountFields, FitSpan, PowersAre, SMT
  <2>6. WordFits(v, 35244)
    BY <2>5 DEF Plainly
  <2>. HIDE DEF v
  <2>. QED
    BY <2>4, <2>6, FitAt, SMT
<1>6. WriteFits(Write(\h899c, Zero)) /\ WriteFits(Write(\h89a0, Zero)) /\ WriteFits(Write(\h89a4, Zero))
  BY FitWriteZero, SMT DEF Low
<1>7. WriteFits(p)
  BY FitPacket
<1>. HIDE DEF s1, s2, s3, v, p
<1> DEFINE x1 == Write(\h8958, Plainly(1))
           x2 == Write(\h899c, Zero)
           x3 == Write(\h89a0, Zero)
           x4 == Write(\h89a4, Zero)
           x5 == Write(\h286ec, s1)
           x6 == Write(\h286f0, s2)
           x7 == Write(\h286f4, s3)
           x8 == Write(\h8970, v)
           x9 == Write(\h89ac, v)
<1>8. direct_dispatch(local) = <<x1, x2, x3, x4, x5, x6, x7, x8, x9, p>>
  BY <1>2
<1>9. /\ WriteFits(x1) /\ WriteFits(x2) /\ WriteFits(x3) /\ WriteFits(x4) /\ WriteFits(x5)
      /\ WriteFits(x6) /\ WriteFits(x7) /\ WriteFits(x8) /\ WriteFits(x9)
  BY <1>3, <1>4, <1>5, <1>6
<1>. HIDE DEF x1, x2, x3, x4, x5, x6, x7, x8, x9
<1>. QED
  BY <1>7, <1>8, <1>9, FitTuple10

-----------------------------------------------------------------------------
(* What the default state writes fits.                                     *)

LEMMA FitHigh ==
  ASSUME NEW a \in Nat, NEW n \in 1 .. 32, a + 4 * n <= 196608 \/ 229376 <= a
  PROVE  WriteFits(Burst(a, Zeros(n)))
  BY FitBurstZeros DEF Away

LEMMA FitPair ==
  ASSUME NEW a, NEW hi \in Nat, Span(a, 0, hi), NEW top \in Nat, Span(a, 16, top),
         NEW k \in 0 .. 30, k <= hi + 1, 16 + k <= top + 1,
         NEW m \in Nat, m < Power(k), NEW n \in Nat, n < Power(k)
  PROVE  WordFits(Pair(m, n), a)
<1>1. WordFits(Field(0, m), a) /\ WordFits(Field(16, n), a)
  BY FitSpan, SMT
<1>. QED
  BY <1>1 DEF WordFits, Pair, Plainly

LEMMA FitSx == AllFit(set_sx_defaults)
<1>1. WriteFits(Write(\h28350, Zero)) /\ WriteFits(Burst(\h28410, Zeros(5)))
  BY FitWriteZero, FitHigh, SMT DEF Low
<1>2. set_sx_defaults = <<Write(\h28350, Zero), Burst(\h28410, Zeros(5))>>
  BY SMT DEF set_sx_defaults
<1>. QED
  BY <1>1, <1>2, FitTuple2

LEMMA FitStart == AllFit(start_3d)
  BY FitPacket, FitTuple1 DEF start_3d

LEMMA FitDb == AllFit(set_db_defaults)
<1> DEFINE x1 == Write(\h28800, Zero)
           x2 == Write(\h2880c, Zero)
           x3 == Write(\h28000, Flag(12))
           x4 == Burst(\h2800c, Zeros(2))
           x5 == Write(\h28ac8, Zero)
           x6 == Burst(\h28ac0, Zeros(2))
           x7 == Write(\h28b70, Zero)
           y1 == Off(\h28004, 2)
           y2 == Off(\h28028, 2)
<1>1. WordFits(Flag(12), 163840)
  BY DbRenderFields, FitFlag, SMT
<1>2. /\ WriteFits(x1) /\ WriteFits(x2) /\ WriteFits(x3) /\ WriteFits(x4) /\ WriteFits(x5)
      /\ WriteFits(x6) /\ WriteFits(x7)
  BY <1>1, FitAt, FitZero, FitHigh, SMT
<1>3. AllFit(y1) /\ AllFit(y2)
  BY FitOff, SMT
<1>4. set_db_defaults = <<x1, x2, x3>> \o y1 \o <<x4, x5, x6>> \o y2 \o <<x7>>
  BY SMT DEF set_db_defaults
<1>. HIDE DEF x1, x2, x3, x4, x5, x6, x7, y1, y2
<1>5. AllFit(<<x1, x2, x3>>) /\ AllFit(<<x4, x5, x6>>) /\ AllFit(<<x7>>)
  BY <1>2, FitTuple1, FitTuple3
<1>. QED
  BY <1>3, <1>4, <1>5, AllFitJoined

LEMMA SqDefaults ==
  LET sq == set_default_sq
  IN  /\ sq.ps_threads \in Nat /\ sq.ps_threads < 256 /\ sq.threads \in Nat /\ sq.threads < 256
      /\ sq.stack \in Nat /\ sq.stack < 256
<1>1. ChipFamily = "CYPRESS"
  BY ArgumentAssumption
<1>2. ChipFamily \in Large /\ ChipFamily \in {"JUNIPER", "CYPRESS", "HEMLOCK", "BARTS"}
  BY <1>1 DEF Large
<1>3. set_default_sq = [ps_threads |-> 128, threads |-> 20, stack |-> 85]
  BY <1>2, Zenon DEF set_default_sq
<1>. QED
  BY <1>3

LEMMA FitSqConfig ==
  LET pair == Pair(93, 46) \cup Field(28, 4)
  IN  WriteFits(Burst(\h8c00, <<SqConfigDefault, pair, Pair(31, 31), Pair(23, 23)>>))
<1> DEFINE pair == Pair(93, 46) \cup Field(28, 4)
           words == <<SqConfigDefault, pair, Pair(31, 31), Pair(23, 23)>>
<1>1. WordFits(SqConfigDefault, 35840)
  <2>1. WordFits(Flag(0), 35840) /\ WordFits(Flag(1), 35840)
    BY SqConfigFields, FitFlag, SMT
  <2>2. /\ WordFits(Field(26, 1), 35840) /\ WordFits(Field(28, 2), 35840)
        /\ WordFits(Field(30, 3), 35840)
    BY SqConfigFields, FitSpan, PowersAre, SMT
  <2>3. WordFits(Zero, 35840)
    BY FitZero
  <2>. QED
    BY <2>1, <2>2, <2>3, SMT DEF WordFits, SqConfigDefault
<1>2. WordFits(pair, 35844)
  <2>1. WordFits(Pair(93, 46), 35844)
    BY SqGprFields, FitPair, PowersAre, SMT
  <2>2. WordFits(Field(28, 4), 35844)
    BY SqGprFields, FitSpan, PowersAre, SMT
  <2>. QED
    BY <2>1, <2>2, SMT DEF WordFits
<1>3. WordFits(Pair(31, 31), 35848) /\ WordFits(Pair(23, 23), 35852)
  BY SqMoreGprFields, FitLow, FitPair, PowersAre, SMT
<1> DEFINE a == 35840
<1>4. Len(words) = 4 /\ \A i \in 1 .. 4 : WordFits(words[i], a + 4 * (i - 1))
  <2>1. /\ Len(words) = 4 /\ words[1] = SqConfigDefault /\ words[2] = pair
        /\ words[3] = Pair(31, 31) /\ words[4] = Pair(23, 23)
    OBVIOUS
  <2>. HIDE DEF words, pair
  <2>2. /\ WordFits(words[1], 35840) /\ WordFits(words[2], 35844)
        /\ WordFits(words[3], 35848) /\ WordFits(words[4], 35852)
    BY <1>1, <1>2, <1>3, <2>1, SMT
  <2>. QED
    BY <2>1, <2>2, SMT
<1>5. a \in Nat /\ Away(a, 4)
  BY SMT DEF Away
<1>. HIDE DEF words, a, pair
<1>6. WriteFits(Burst(a, words))
  BY <1>4, <1>5, Shapes, FitShaped
<1>. QED
  BY <1>6, SMT DEF a, words, pair

LEMMA FitSqThreads ==
  LET sq == set_default_sq
      t == sq.threads
  IN  WriteFits(Burst(\h8c18,
        <<Plainly(sq.ps_threads) \cup Field(8, t) \cup Field(16, t) \cup Field(24, t),
          Plainly(t) \cup Field(8, t)>> \o [i \in 1 .. 3 |-> Pair(sq.stack, sq.stack)]))
<1> DEFINE sq == set_default_sq
           t == sq.threads
           p == sq.ps_threads
           k == sq.stack
           v1 == Plainly(p) \cup Field(8, t) \cup Field(16, t) \cup Field(24, t)
           v2 == Plainly(t) \cup Field(8, t)
           v3 == Pair(k, k)
           front == <<v1, v2>>
           rest == [i \in 1 .. 3 |-> v3]
           words == front \o rest
           a == 35864
<1>1. p \in Nat /\ p < 256 /\ t \in Nat /\ t < 256 /\ k \in Nat /\ k < 256
  BY SqDefaults
<1>. HIDE DEF sq, t, p, k
<1>2. WordFits(v1, 35864)
  <2>1. /\ Span(35864, 0, 7) /\ Span(35864, 8, 15) /\ Span(35864, 16, 23)
        /\ Span(35864, 24, 31)
    BY SqThreadFields, FitLow, SMT
  <2>2. /\ WordFits(Field(0, p), 35864) /\ WordFits(Field(8, t), 35864)
        /\ WordFits(Field(16, t), 35864) /\ WordFits(Field(24, t), 35864)
    BY <1>1, <2>1, FitSpan, PowersAre, SMT
  <2>. QED
    BY <2>2, SMT DEF WordFits, Plainly
<1>3. WordFits(v2, 35868)
  <2>1. WordFits(Field(0, t), 35868) /\ WordFits(Field(8, t), 35868)
    BY <1>1, SqMoreThreadFields, FitSpan, PowersAre, SMT
  <2>. QED
    BY <2>1, SMT DEF WordFits, Plainly
<1>4. WordFits(v3, 35872) /\ WordFits(v3, 35876) /\ WordFits(v3, 35880)
  <2> DEFINE D == Dwords(35872, 35880)
  <2>1. 35872 \in D /\ 35876 \in D /\ 35880 \in D
    <3>1. /\ 35872 = 35872 + 4 * 0 /\ 35876 = 35872 + 4 * 1 /\ 35880 = 35872 + 4 * 2
          /\ {0, 1, 2} \subseteq 0 .. (35880 - 35872) \div 4
      BY SMT
    <3>. QED
      BY <3>1, SMT DEF Dwords, Every
  <2>2. \A r \in D : r \notin FetchResources => Span(r, 0, 11) /\ Span(r, 16, 27)
    BY SqStackFields
  <2>. HIDE DEF D
  <2>3. /\ Span(35872, 0, 11) /\ Span(35876, 0, 11) /\ Span(35880, 0, 11)
        /\ Span(35872, 16, 27) /\ Span(35876, 16, 27) /\ Span(35880, 16, 27)
    BY <2>1, <2>2, FitLow, SMT
  <2>. QED
    BY <1>1, <2>3, FitPair, PowersAre, SMT
<1>. HIDE DEF v1, v2, v3
<1>5. /\ Len(words) = 5 /\ words[1] = v1 /\ words[2] = v2 /\ words[3] = v3 /\ words[4] = v3
      /\ words[5] = v3
  <2>1. front \in Seq({v1, v2, v3}) /\ rest \in Seq({v1, v2, v3}) /\ Len(front) = 2 /\ Len(rest) = 3
    OBVIOUS
  <2>. QED
    BY <2>1
<1>. HIDE DEF words
<1>6. 5 \in Nat /\ \A i \in 1 .. 5 : WordFits(words[i], a + 4 * (i - 1))
  <2>1. /\ WordFits(words[1], 35864) /\ WordFits(words[2], 35868) /\ WordFits(words[3], 35872)
        /\ WordFits(words[4], 35876) /\ WordFits(words[5], 35880)
    BY <1>2, <1>3, <1>4, <1>5, SMT
  <2>. QED
    BY <2>1, SMT
<1>7. a \in Nat /\ Away(a, 5)
  BY SMT DEF Away
<1>. HIDE DEF a
<1>8. WriteFits(Burst(a, words))
  BY <1>5, <1>6, <1>7, Shapes, FitShaped
<1>. QED
  BY <1>8, SMT DEF a, words, front, rest, v1, v2, v3, sq, t, p, k

LEMMA FitExports ==
  WriteFits(Write(\h28838, UNION {Field(5 * i, \h1e) : i \in 0 .. 5}))
<1> DEFINE v == UNION {Field(5 * i, \h1e) : i \in 0 .. 5}
<1>1. /\ WordFits(Field(0, 30), 165944) /\ WordFits(Field(5, 30), 165944)
      /\ WordFits(Field(10, 30), 165944) /\ WordFits(Field(15, 30), 165944)
      /\ WordFits(Field(20, 30), 165944) /\ WordFits(Field(25, 30), 165944)
  BY ExportFields, FitSpan, PowersAre, SMT
<1>2. \A i \in 0 .. 5 : WordFits(Field(5 * i, 30), 165944)
  <2>1. SUFFICES ASSUME NEW i \in 0 .. 5 PROVE WordFits(Field(5 * i, 30), 165944)
    OBVIOUS
  <2>2. 5 * i \in {0, 5, 10, 15, 20, 25}
    BY SMT
  <2>. QED
    BY <1>1, <2>2, SMT
<1>3. WordFits(v, 165944)
  BY <1>2, SMT DEF WordFits
<1>. HIDE DEF v
<1>4. WriteFits(Write(165944, v))
  BY <1>3, FitAt, SMT
<1>. QED
  BY <1>4, SMT DEF v

LEMMA FitSq == AllFit(sq_setup)
<1> DEFINE sq == set_default_sq
           t == sq.threads
           pair == Pair(93, 46) \cup Field(28, 4)
           x1 == Write(\h8d8c, Flag(8))
           x2 == Burst(\h8c00, <<SqConfigDefault, pair, Pair(31, 31), Pair(23, 23)>>)
           x3 == Burst(\h8c18,
                   <<Plainly(sq.ps_threads) \cup Field(8, t) \cup Field(16, t) \cup Field(24, t),
                     Plainly(t) \cup Field(8, t)>> \o [i \in 1 .. 3 |-> Pair(sq.stack, sq.stack)])
           y == Off(\h28900, 6)
           z1 == Burst(\h2891c, Zeros(4))
           z2 == Burst(\h3cff0, Zeros(2))
           z3 == Burst(\h28380, Zeros(32))
           z4 == Burst(\h28844, Zeros(2))
           z5 == Burst(\h28780, Zeros(8))
           z6 == Write(\h288a8, Zero)
           z7 == Write(\h288ec, Zero)
           z8 == Write(\h28838, UNION {Field(5 * i, \h1e) : i \in 0 .. 5})
<1>1. WriteFits(x1)
  <2>1. Declares(36236, Bit)
    BY DynamicFields, FitLow, SMT
  <2>2. 8 \in Bit
    BY DEF Bit
  <2>3. WordFits(Flag(8), 36236)
    BY <2>1, <2>2, FitFlag
  <2>. QED
    BY <2>3, FitAt, SMT
<1>2. WriteFits(x2) /\ WriteFits(x3) /\ WriteFits(z8)
  BY FitSqConfig, FitSqThreads, FitExports
<1>3. /\ WriteFits(z1) /\ WriteFits(z2) /\ WriteFits(z3) /\ WriteFits(z4) /\ WriteFits(z5)
      /\ WriteFits(z6) /\ WriteFits(z7)
  BY FitAt, FitZero, FitHigh, SMT
<1>4. AllFit(y)
  BY FitOff, SMT
<1>5. sq_setup = <<x1, x2, x3>> \o y \o <<z1, z2, z3, z4, z5, z6, z7, z8>>
  BY SMT DEF sq_setup
<1>. HIDE DEF x1, x2, x3, y, z1, z2, z3, z4, z5, z6, z7, z8
<1>6. AllFit(<<x1, x2, x3>>) /\ AllFit(<<z1, z2, z3, z4, z5, z6, z7, z8>>)
  BY <1>1, <1>2, <1>3, FitTuple3, FitTuple8
<1>. QED
  BY <1>4, <1>5, <1>6, AllFitJoined

LEMMA FitVgt == AllFit(set_vgt_defaults)
<1> DEFINE y1 == Off(\h28a10, 12)
           y2 == Off(\h28b94, 2)
           y3 == Off(\h28ab4, 2)
           y4 == Off(\h28404, 3)
           y5 == Off(\h28a10, 8)
           x1 == Write(\h28400, AllOnes)
           x2 == Burst(\h28aa0, Zeros(2))
           z1 == Burst(\h28a30, Zeros(2))
           z2 == Burst(\h28a38, Zeros(2))
           z3 == Write(\h28a84, Zero)
           z4 == Write(\h28a94, Zero)
           z5 == Write(\h28a40, Flag(14) \cup Flag(17))
           z6 == Write(\h28b54, Plainly(2))
           z7 == Burst(\h28b94, Zeros(2))
<1>1. AllFit(y1) /\ AllFit(y2) /\ AllFit(y3) /\ AllFit(y4) /\ AllFit(y5)
  BY FitOff, SMT
<1>2. WriteFits(x1)
  <2> DEFINE D == Dwords(164864, 164876)
  <2>1. 164864 \in D
    <3>1. 164864 = 164864 + 4 * 0 /\ 0 \in 0 .. (164876 - 164864) \div 4
      BY SMT
    <3>. QED
      BY <3>1, SMT DEF Dwords, Every
  <2>2. \A a \in D : a \notin FetchResources => Declares(a, Bit)
    BY IndexFields
  <2>. HIDE DEF D
  <2>3. WordFits(AllOnes, 164864)
    BY <2>1, <2>2, FitLow, FitAllOnes, SMT
  <2>. QED
    BY <2>3, FitAt, SMT
<1>3. WriteFits(z5)
  <2> DEFINE v == Flag(14) \cup Flag(17)
  <2>1. WordFits(Flag(14), 166464) /\ WordFits(Flag(17), 166464)
    BY GsModeFields, FitFlag, SMT
  <2>2. WordFits(v, 166464)
    BY <2>1, SMT DEF WordFits
  <2>. HIDE DEF v
  <2>3. WriteFits(Write(166464, v))
    BY <2>2, FitAt, SMT
  <2>. QED
    BY <2>3, SMT DEF v
<1>4. WriteFits(z6)
  <2>1. WordFits(Plainly(2), 166740)
    BY StageFields, FitSpan, PowersAre, SMT DEF Plainly
  <2>. QED
    BY <2>1, FitAt, SMT
<1>5. /\ WriteFits(x2) /\ WriteFits(z1) /\ WriteFits(z2) /\ WriteFits(z3) /\ WriteFits(z4)
      /\ WriteFits(z7)
  BY FitAt, FitZero, FitHigh, SMT
<1>6. set_vgt_defaults = y1 \o y2 \o y3 \o <<x1>> \o y4 \o <<x2>> \o y3 \o y5
                           \o <<z1, z2, z3, z4, z5, z6, z7>>
  BY SMT DEF set_vgt_defaults
<1>. HIDE DEF y1, y2, y3, y4, y5, x1, x2, z1, z2, z3, z4, z5, z6, z7
<1>7. AllFit(<<x1>>) /\ AllFit(<<x2>>) /\ AllFit(<<z1, z2, z3, z4, z5, z6, z7>>)
  BY <1>2, <1>3, <1>4, <1>5, FitTuple1, FitTuple7
<1>8. AllFit(y1 \o y2 \o y3 \o <<x1>> \o y4)
  BY <1>1, <1>7, AllFitJoined
<1>. QED
  BY <1>1, <1>6, <1>7, <1>8, AllFitJoined

LEMMA FitScissors == AllFit(set_dummy_scissors)
<1> DEFINE p == Pair(16, 16)
           x1 == Burst(\h28240, <<Flag(31), p>>)
           x2 == Burst(\h28030, <<Zero, p>>)
           x3 == Burst(\h28204, <<Flag(31), p>>)
<1>1. WriteFits(x1)
  <2>1. Declares(164416, {31}) /\ Span(164420, 0, 14) /\ Span(164420, 16, 30)
    BY GenericTopFields, GenericFields, FitLow, SMT
  <2>2. WordFits(Flag(31), 164416)
    BY <2>1, FitFlag
  <2>3. WordFits(p, 164420)
    BY <2>1, FitPair, PowersAre, SMT
  <2>. HIDE DEF p
  <2>. QED
    BY <2>2, <2>3, FitTwo, SMT DEF Away
<1>2. WriteFits(x2)
  <2>1. Span(163892, 0, 15) /\ Span(163892, 16, 31)
    BY WindowFields, FitLow, SMT
  <2>2. WordFits(p, 163892)
    BY <2>1, FitPair, PowersAre, SMT
  <2>. HIDE DEF p
  <2>. QED
    BY <2>2, FitZero, FitTwo, SMT DEF Away
<1>3. WriteFits(x3)
  <2>1. WordFits(Flag(31), 164356)
    BY ScissorTopFields, FitFlag, SMT
  <2>2. WordFits(p, 164360)
    BY ScissorFields, FitPair, PowersAre, SMT
  <2>. HIDE DEF p
  <2>. QED
    BY <2>1, <2>2, FitTwo, SMT DEF Away
<1>4. set_dummy_scissors = <<x1, x2, x3>>
  BY SMT DEF set_dummy_scissors
<1>. HIDE DEF x1, x2, x3
<1>. QED
  BY <1>1, <1>2, <1>3, <1>4, FitTuple3

LEMMA FitClipRects ==
  AllFit([i \in 1 .. 4 |-> Burst(\h28210 + 8 * (i - 1), <<Zero, Pair(8192, 8192)>>)])
<1> DEFINE p == Pair(8192, 8192)
           w(i) == Burst(164368 + 8 * (i - 1), <<Zero, p>>)
           s == [i \in 1 .. 4 |-> w(i)]
           W == {w(i) : i \in 1 .. 4}
<1>1. ASSUME NEW i \in 1 .. 4
      PROVE  WriteFits(w(i))
  <2> DEFINE a == 164368 + 8 * (i - 1)
             b == 164372 + 8 * (i - 1)
             B == Array(164372, 4, 8)
  <2>1. a \in Nat /\ b \in Nat /\ a <= 164392 /\ b = a + 4
    BY SMT
  <2>2. b \in B
    <3>1. i - 1 \in 0 .. ((164372 + (4 - 1) * 8) - 164372) \div 8
      BY SMT
    <3>. QED
      BY <3>1, SMT DEF Array, Every
  <2>3. \A r \in B : r \notin FetchResources => Span(r, 0, 14) /\ Span(r, 16, 30)
    BY ClipRectFields
  <2>. HIDE DEF a, b, B
  <2>4. Span(b, 0, 14) /\ Span(b, 16, 30)
    BY <2>1, <2>2, <2>3, FitLow, SMT
  <2>5. WordFits(p, b)
    BY <2>4, FitPair, PowersAre, SMT
  <2>6. WordFits(Zero, a)
    BY FitZero
  <2>. HIDE DEF p
  <2>7. WriteFits(Burst(a, <<Zero, p>>))
    BY <2>1, <2>5, <2>6, FitTwo, SMT DEF Away
  <2>. QED
    BY <2>7 DEF a
<1>2. s \in [1 .. 4 -> W] /\ \A i \in 1 .. 4 : s[i] = w(i)
  OBVIOUS
<1>. HIDE DEF w, W, s
<1>3. 4 \in Nat /\ \A i \in 1 .. 4 : WriteFits(s[i])
  BY <1>1, <1>2
<1>4. AllFit(s)
  BY <1>2, <1>3, AllFitEach
<1>. QED
  BY <1>4, SMT DEF s, w, p

LEMMA FitViewports ==
  AllFit([i \in 1 .. 16 |-> Burst(\h28250 + 8 * (i - 1), <<Flag(31), Pair(8192, 8192)>>)])
<1> DEFINE p == Pair(8192, 8192)
           w(i) == Burst(164432 + 8 * (i - 1), <<Flag(31), p>>)
           s == [i \in 1 .. 16 |-> w(i)]
           W == {w(i) : i \in 1 .. 16}
<1>1. ASSUME NEW i \in 1 .. 16
      PROVE  WriteFits(w(i))
  <2> DEFINE a == 164432 + 8 * (i - 1)
             b == 164436 + 8 * (i - 1)
             A == Array(164432, 16, 8)
             B == Array(164436, 16, 8)
  <2>1. a \in Nat /\ b \in Nat /\ a <= 164552 /\ b = a + 4
    BY SMT
  <2>2. a \in A /\ b \in B
    <3>1. /\ i - 1 \in 0 .. ((164432 + (16 - 1) * 8) - 164432) \div 8
          /\ i - 1 \in 0 .. ((164436 + (16 - 1) * 8) - 164436) \div 8
      BY SMT
    <3>. QED
      BY <3>1, SMT DEF Array, Every
  <2>3. \A r \in A : r \notin FetchResources => Declares(r, {31})
    <3>1. A \subseteq {\h28240} \cup Array(\h28250, 16, 8)
      BY SMT
    <3>. HIDE DEF A
    <3>. QED
      BY <3>1, GenericTopFields, SMT
  <2>9. \A r \in B : r \notin FetchResources => Span(r, 0, 14) /\ Span(r, 16, 30)
    <3>1. B \subseteq {\h28244} \cup Array(\h28254, 16, 8)
      BY SMT
    <3>. HIDE DEF B
    <3>. QED
      BY <3>1, GenericFields, SMT
  <2>. HIDE DEF a, b, A, B
  <2>4. Declares(a, {31}) /\ Span(b, 0, 14) /\ Span(b, 16, 30)
    BY <2>1, <2>2, <2>3, <2>9, FitLow, SMT
  <2>5. WordFits(p, b)
    BY <2>4, FitPair, PowersAre, SMT
  <2>6. WordFits(Flag(31), a)
    BY <2>4, FitFlag
  <2>. HIDE DEF p
  <2>7. WriteFits(Burst(a, <<Flag(31), p>>))
    BY <2>1, <2>5, <2>6, FitTwo, SMT DEF Away
  <2>. QED
    BY <2>7 DEF a
<1>2. s \in [1 .. 16 -> W] /\ \A i \in 1 .. 16 : s[i] = w(i)
  OBVIOUS
<1>. HIDE DEF w, W, s
<1>3. 16 \in Nat /\ \A i \in 1 .. 16 : WriteFits(s[i])
  BY <1>1, <1>2
<1>4. AllFit(s)
  BY <1>2, <1>3, AllFitEach
<1>. QED
  BY <1>4, SMT DEF s, w, p

\* 1.0f fits where the dword is the value.
LEMMA FitOne ==
  ASSUME NEW a, Declares(a, Bit)
  PROVE  WordFits(One_f, a)
<1>1. Placed(<<23, 127>>) \subseteq Bit
  <2>1. 127 \in Nat /\ 127 < Power(8)
    BY PowersAre
  <2>2. Ones(127) \subseteq 0 .. 7
    BY <2>1, OnesBelow
  <2>. QED
    BY <2>2 DEF Placed, Bit
<1>. QED
  BY <1>1 DEF WordFits, FieldFits, Declares, One_f, Field, Zero

LEMMA FitGuards == AllFit([i \in 1 .. 4 |-> Write(\h28c0c + 4 * (i - 1), One_f)])
<1> DEFINE w(i) == Write(166924 + 4 * (i - 1), One_f)
           s == [i \in 1 .. 4 |-> w(i)]
           W == {w(i) : i \in 1 .. 4}
<1>1. ASSUME NEW i \in 1 .. 4
      PROVE  WriteFits(w(i))
  <2> DEFINE a == 166924 + 4 * (i - 1)
             A == Dwords(166924, 166936)
  <2>1. a \in Nat /\ a <= 166936
    BY SMT
  <2>2. a \in A
    <3>1. i - 1 \in 0 .. (166936 - 166924) \div 4
      BY SMT
    <3>. QED
      BY <3>1, SMT DEF Dwords, Every
  <2>3. \A r \in A : r \notin FetchResources => Declares(r, Bit)
    BY GuardBandFields
  <2>. HIDE DEF a, A
  <2>4. WordFits(One_f, a)
    BY <2>1, <2>2, <2>3, FitLow, FitOne, SMT
  <2>5. WriteFits(Write(a, One_f))
    BY <2>1, <2>4, FitAt, SMT
  <2>. QED
    BY <2>5 DEF a
<1>2. s \in [1 .. 4 -> W] /\ \A i \in 1 .. 4 : s[i] = w(i)
  OBVIOUS
<1>. HIDE DEF w, W, s
<1>3. 4 \in Nat /\ \A i \in 1 .. 4 : WriteFits(s[i])
  BY <1>1, <1>2
<1>4. AllFit(s)
  BY <1>2, <1>3, AllFitEach
<1>. QED
  BY <1>4, SMT DEF s, w

\* The writes of the rasterizer's defaults that are more than zeros.
LEMMA FitPaFirst ==
  LET odd == {b \in Bit : b % 2 = 1}
  IN  /\ WriteFits(Write(\h8a14, Field(1, 3) \cup Flag(0)))
      /\ WriteFits(Write(\h282d4, One_f))
      /\ WriteFits(Write(\h2820c, Plainly(\hffff)))
      /\ WriteFits(Write(\h28230, Literal(odd)))
<1> DEFINE odd == {b \in Bit : b % 2 = 1}
           v == Field(1, 3) \cup Flag(0)
<1>1. WordFits(v, 35348)
  <2>1. WordFits(Flag(0), 35348) /\ WordFits(Field(1, 3), 35348)
    BY PaClipFields, FitFlag, FitSpan, PowersAre, SMT
  <2>. QED
    BY <2>1, SMT DEF WordFits
<1>2. WordFits(One_f, 164564)
  <2> DEFINE A == Array(164564, 16, 8)
  <2>1. 164564 \in A
    <3>1. 164564 = 164564 + 8 * 0 /\ 0 \in 0 .. ((164564 + (16 - 1) * 8) - 164564) \div 8
      BY SMT
    <3>. QED
      BY <3>1, SMT DEF Array, Every
  <2>2. \A r \in A : r \notin FetchResources => Declares(r, Bit)
    BY DepthRangeFields
  <2>. HIDE DEF A
  <2>. QED
    BY <2>1, <2>2, FitLow, FitOne, SMT
<1>3. WordFits(Plainly(65535), 164364)
  BY ClipRuleFields, FitSpan, PowersAre, SMT DEF Plainly
<1>4. WordFits(Literal(odd), 164400)
  <2>1. /\ Declares(164400, 0 .. 3) /\ Declares(164400, 4 .. 7) /\ Declares(164400, 8 .. 11)
        /\ Declares(164400, 12 .. 17) /\ Declares(164400, 18 .. 23) /\ Declares(164400, 24 .. 27)
        /\ Declares(164400, 28 .. 31)
    BY EdgeFields, SMT DEF Span
  <2>2. ASSUME NEW b \in odd
        PROVE  b \in Nat /\ \E d : b \in d /\ Declares(164400, d)
    <3>1. b \in 0 .. 31
      BY DEF Bit
    <3>2. \/ b \in 0 .. 3 \/ b \in 4 .. 7 \/ b \in 8 .. 11 \/ b \in 12 .. 17
          \/ b \in 18 .. 23 \/ b \in 24 .. 27 \/ b \in 28 .. 31
      BY <3>1, SMT
    <3>3. \E d : b \in d /\ Declares(164400, d)
      BY <2>1, <3>2, SMT
    <3>. QED
      BY <3>1, <3>3
  <2>. HIDE DEF odd
  <2>3. odd \in SUBSET Nat /\ \A b \in odd : \E d : b \in d /\ Declares(164400, d)
    BY <2>2
  <2>. QED
    BY <2>3, FitFlags
<1>. HIDE DEF odd, v
<1>5. /\ WriteFits(Write(35348, v)) /\ WriteFits(Write(164564, One_f))
      /\ WriteFits(Write(164364, Plainly(65535))) /\ WriteFits(Write(164400, Literal(odd)))
  BY <1>1, <1>2, <1>3, <1>4, FitAt, SMT
<1>. QED
  BY <1>5, SMT DEF odd, v

LEMMA FitPaLater ==
  /\ WriteFits(Burst(\h28c00, <<Zero, Zero, Field(1, 2) \cup Flag(0)>>))
  /\ WriteFits(Write(\h28c3c, AllOnes)) /\ WriteFits(Write(\h28810, Flag(16)))
  /\ WriteFits(Write(\h28818, Flag(8)))
  /\ WriteFits(Write(\h28814, Literal(0 .. 2) \cup Field(5, 2) \cup Field(8, 2)))
<1> DEFINE u == Field(1, 2) \cup Flag(0)
           v == Literal(0 .. 2) \cup Field(5, 2) \cup Field(8, 2)
<1>1. WordFits(u, 166920)
  <2>1. WordFits(Flag(0), 166920) /\ WordFits(Field(1, 2), 166920)
    BY VertexFields, FitFlag, FitSpan, PowersAre, SMT
  <2>. QED
    BY <2>1, SMT DEF WordFits
<1>2. WordFits(AllOnes, 166972)
  BY SampleMaskFields, FitLow, FitAllOnes, SMT
<1>3. WordFits(Flag(16), 165904) /\ WordFits(Flag(8), 165912)
  BY ClipControlFields, VteFields, FitFlag, SMT
<1>4. WordFits(v, 165908)
  <2>1. WordFits(Literal(0 .. 2), 165908)
    <3>1. \A b \in 0 .. 2 : b = 0 \/ b = 1 \/ b = 2
      OBVIOUS
    <3>2. \A b \in 0 .. 2 : \E d : b \in d /\ Declares(165908, d)
      BY <3>1, ModeFields, SMT
    <3>. QED
      BY <3>2, FitFlags, SMT
  <2>2. WordFits(Field(5, 2), 165908) /\ WordFits(Field(8, 2), 165908)
    BY ModeFields, FitSpan, PowersAre, SMT
  <2>. QED
    BY <2>1, <2>2, SMT DEF WordFits
<1>5. WriteFits(Burst(166912, <<Zero, Zero, u>>))
  <2> DEFINE words == <<Zero, Zero, u>>
             a == 166912
  <2>1. Len(words) = 3 /\ words[1] = Zero /\ words[2] = Zero /\ words[3] = u
    OBVIOUS
  <2>. HIDE DEF words, u
  <2>2. 3 \in Nat /\ \A i \in 1 .. 3 : WordFits(words[i], a + 4 * (i - 1))
    BY <1>1, <2>1, FitZero, SMT
  <2>3. a \in Nat /\ Away(a, 3)
    BY SMT DEF Away
  <2>. HIDE DEF a
  <2>4. WriteFits(Burst(a, words))
    BY <2>1, <2>2, <2>3, Shapes, FitShaped
  <2>. QED
    BY <2>4, SMT DEF a, words
<1>. HIDE DEF u, v
<1>6. /\ WriteFits(Write(166972, AllOnes)) /\ WriteFits(Write(165904, Flag(16)))
      /\ WriteFits(Write(165912, Flag(8))) /\ WriteFits(Write(165908, v))
  BY <1>2, <1>3, <1>4, FitAt, SMT
<1>. QED
  BY <1>5, <1>6, SMT DEF u, v

LEMMA FitPa == AllFit(set_pa_defaults)
<1> DEFINE x1 == Write(\h8a14, Field(1, 3) \cup Flag(0))
           x2 == Write(\h28810, Zero)
           x3 == Write(\h282d0, Zero)
           x4 == Write(\h282d4, One_f)
           x5 == Write(\h28200, Zero)
           x6 == Write(\h2820c, Plainly(\hffff))
           x7 == Write(\h28230, Literal({b \in Bit : b % 2 = 1}))
           x8 == Write(\h28234, Zero)
           f1 == [i \in 1 .. 4 |-> Burst(\h28210 + 8 * (i - 1), <<Zero, Pair(8192, 8192)>>)]
           f2 == [i \in 1 .. 16 |-> Burst(\h28250 + 8 * (i - 1), <<Flag(31), Pair(8192, 8192)>>)]
           f3 == [i \in 1 .. 4 |-> Write(\h28c0c + 4 * (i - 1), One_f)]
           y1 == Burst(\h28a48, Zeros(2))
           y2 == Burst(\h28c00, <<Zero, Zero, Field(1, 2) \cup Flag(0)>>)
           y3 == Burst(\h28c1c, Zeros(8))
           y4 == Write(\h28c3c, AllOnes)
           y5 == Write(\h28810, Flag(16))
           y6 == Write(\h28818, Flag(8))
           y7 == Write(\h2881c, Zero)
           o == Off(\h28820, 4)
           z1 == Burst(\h28b78, Zeros(6))
           z2 == Write(\h28a0c, Zero)
           z3 == Write(\h28a08, Zero)
           z4 == Write(\h28814, Literal(0 .. 2) \cup Field(5, 2) \cup Field(8, 2))
           z5 == Write(\h28a00, Zero)
           z6 == Write(\h28a04, Zero)
<1>1. /\ WriteFits(x2) /\ WriteFits(x3) /\ WriteFits(x5) /\ WriteFits(x8)
      /\ WriteFits(y7) /\ WriteFits(z2) /\ WriteFits(z3) /\ WriteFits(z5) /\ WriteFits(z6)
  BY FitAt, FitZero, SMT
<1>2. WriteFits(y1) /\ WriteFits(y3) /\ WriteFits(z1)
  BY FitHigh, SMT
<1>3. WriteFits(x1) /\ WriteFits(x4) /\ WriteFits(x6) /\ WriteFits(x7)
  BY FitPaFirst
<1>4. WriteFits(y2) /\ WriteFits(y4) /\ WriteFits(y5) /\ WriteFits(y6) /\ WriteFits(z4)
  BY FitPaLater
<1>5. AllFit(f1) /\ AllFit(f2) /\ AllFit(f3)
  BY FitClipRects, FitViewports, FitGuards
<1>6. AllFit(o)
  BY FitOff, SMT
<1>7. set_pa_defaults =
        <<x1, x2, x3, x4, x5, x6, x7, x8>> \o f1 \o f2 \o <<y1, y2>> \o f3
          \o <<y3, y4, y5, y6, y7>> \o o \o <<z1, z2, y1>> \o set_dummy_scissors
          \o <<z3, z4, z5, z6>>
  BY SMT DEF set_pa_defaults
<1>. HIDE DEF x1, x2, x3, x4, x5, x6, x7, x8, f1, f2, f3, y1, y2, y3, y4, y5, y6, y7, o,
              z1, z2, z3, z4, z5, z6
<1>8. /\ AllFit(<<x1, x2, x3, x4, x5, x6, x7, x8>>) /\ AllFit(<<y1, y2>>)
      /\ AllFit(<<y3, y4, y5, y6, y7>>) /\ AllFit(<<z1, z2, y1>>) /\ AllFit(<<z3, z4, z5, z6>>)
  BY <1>1, <1>2, <1>3, <1>4, FitTuple2, FitTuple3, FitTuple4, FitTuple5, FitTuple8
<1>9. AllFit(<<x1, x2, x3, x4, x5, x6, x7, x8>> \o f1 \o f2 \o <<y1, y2>> \o f3)
  BY <1>5, <1>8, AllFitJoined
<1>. QED
  BY <1>6, <1>7, <1>8, <1>9, FitScissors, AllFitJoined

LEMMA FitSpi == AllFit(set_spi_defaults)
<1> DEFINE x1 == Write(\h9100, Zero)
           x2 == Write(\h913c, Plainly(4))
           x3 == Burst(\h28644, Zeros(2))
           x4 == Write(\h286d8, Zero)
           x5 == Write(\h286dc, Zero)
           x6 == Write(\h286e0, Field(20, 1))
           y1 == Burst(\h286e4, Zeros(3))
           y2 == Write(\h286c4, Zero)
           y3 == Write(\h2861c, Zero)
           y4 == Write(\h286d4, Zero)
           y5 == Burst(\h286cc, <<Flag(29), Zero>>)
           z == Write(\h286e8, Literal(0 .. 2))
<1>1. /\ WriteFits(x1) /\ WriteFits(x3) /\ WriteFits(x4) /\ WriteFits(x5)
      /\ WriteFits(y1) /\ WriteFits(y2) /\ WriteFits(y3) /\ WriteFits(y4)
  BY FitAt, FitZero, FitHigh, SMT
<1>2. WriteFits(x2) /\ WriteFits(x6)
  <2>1. WordFits(Plainly(4), 37180) /\ WordFits(Field(20, 1), 165600)
    BY SpiConfigFields, BarycFields, FitSpan, PowersAre, SMT DEF Plainly
  <2>. QED
    BY <2>1, FitAt, SMT
<1>3. WriteFits(y5)
  <2>1. WordFits(Flag(29), 165580)
    BY PsInputFields, FitFlag, SMT
  <2>. QED
    BY <2>1, FitZero, FitTwo, SMT DEF Away
<1>4. WriteFits(z)
  <2>1. \A b \in 0 .. 2 : b = 0 \/ b = 1 \/ b = 2
    OBVIOUS
  <2>2. \A b \in 0 .. 2 : \E d : b \in d /\ Declares(165608, d)
    BY <2>1, InputFields, SMT
  <2>3. WordFits(Literal(0 .. 2), 165608)
    BY <2>2, FitFlags, SMT
  <2>. QED
    BY <2>3, FitAt, SMT
<1>5. set_spi_defaults = <<x1, x2, x3, x4, x5, x6>> \o <<y1, y2, y3, y4, y5>> \o <<z>>
  BY SMT DEF set_spi_defaults, SpiBefore, SpiAfter, ComputeInput
<1>. HIDE DEF x1, x2, x3, x4, x5, x6, y1, y2, y3, y4, y5, z
<1>6. /\ AllFit(<<x1, x2, x3, x4, x5, x6>>) /\ AllFit(<<y1, y2, y3, y4, y5>>) /\ AllFit(<<z>>)
  BY <1>1, <1>2, <1>3, <1>4, FitTuple1, FitTuple5, FitTuple6
<1>. QED
  BY <1>5, <1>6, AllFitJoined

LEMMA FitClear ==
  ASSUME NEW id \in 0 .. 11
  PROVE  WriteFits(Element("CLEAR_WORD", id, ClearWord(id), Zeros(4)))
<1> DEFINE a == ClearWord(id)
<1>1. a \in Nat /\ a <= 167800
  BY FitRatRegisters
<1>. HIDE DEF a
<1>2. Away(a, 4)
  BY <1>1 DEF Away
<1>3. WriteFits(Element("CLEAR_WORD", id, a, Zeros(4)))
  BY <1>1, <1>2, FitBurstZeros
<1>. QED
  BY <1>3 DEF a

LEMMA FitRatZeros ==
  ASSUME NEW id \in 0 .. 11, NEW name
  PROVE  /\ WriteFits(Element(name, id, Pitch(id), <<Zero>>))
         /\ WriteFits(Element(name, id, Slice(id), <<Zero>>))
         /\ WriteFits(Element(name, id, View(id), <<Zero>>))
         /\ WriteFits(Element(name, id, Dim(id), <<Zero>>))
         /\ WriteFits(Element(name, id, CmaskSlice(id), <<Zero>>))
         /\ WriteFits(Element(name, id, FmaskSlice(id), <<Zero>>))
<1>1. \A a \in {Pitch(id), Slice(id), View(id), Dim(id), CmaskSlice(id), FmaskSlice(id)} : Low(a)
  BY FitRatRegisters, SMT DEF Low
<1>2. \A a : Low(a) => WriteFits(Element(name, id, a, <<Zero>>))
  BY FitZero, FitLowElement
<1>. QED
  BY <1>1, <1>2

LEMMA FitRatDefaults ==
  ASSUME NEW id \in 0 .. 11
  PROVE  AllFit(set_rat_defaults(id))
<1> DEFINE x1 == Element("PITCH", id, Pitch(id), <<Zero>>)
           x2 == Element("SLICE", id, Slice(id), <<Zero>>)
           x3 == Element("VIEW", id, View(id), <<Zero>>)
           x4 == Element("DIM", id, Dim(id), <<Zero>>)
           y1 == Element("CMASK_SLICE", id, CmaskSlice(id), <<Zero>>)
           y2 == Element("FMASK_SLICE", id, FmaskSlice(id), <<Zero>>)
           y3 == Element("CLEAR_WORD", id, ClearWord(id), Zeros(4))
<1>1. /\ WriteFits(x1) /\ WriteFits(x2) /\ WriteFits(x3) /\ WriteFits(x4)
      /\ WriteFits(y1) /\ WriteFits(y2) /\ WriteFits(y3)
  BY FitRatZeros, FitClear
<1>2. set_rat_defaults(id) = <<x1, x2, x3, x4>> \o (IF id < 8 THEN <<y1, y2, y3>> ELSE <<>>)
  BY SMT DEF set_rat_defaults
<1>. HIDE DEF x1, x2, x3, x4, y1, y2, y3
<1>3. AllFit(<<x1, x2, x3, x4>>) /\ AllFit(<<y1, y2, y3>>)
  BY <1>1, FitTuple3, FitTuple4
<1>4. AllFit(IF id < 8 THEN <<y1, y2, y3>> ELSE <<>>)
  BY <1>3, FitNone
<1>. QED
  BY <1>2, <1>3, <1>4, AllFitJoined

LEMMA FitTarget == AllFit(set_dummy_render_target)
<1> DEFINE one == Plainly(15) \cup Field(8, 15)
           two == Literal({18, 19, 22, 23}) \cup Field(4, 1)
           p == Pair(15, 15)
           x1 == Element("PITCH", 0, Pitch(0), <<Plainly(1)>>)
           x2 == Element("SLICE", 0, Slice(0), <<Plainly(3)>>)
           x3 == Element("VIEW", 0, View(0), <<Zero>>)
           x4 == Element("DIM", 0, Dim(0), <<p>>)
           x5 == Element("CMASK_SLICE", 0, CmaskSlice(0), <<Zero>>)
           x6 == Element("FMASK_SLICE", 0, FmaskSlice(0), <<Zero>>)
           x7 == Element("CLEAR_WORD", 0, ClearWord(0), Zeros(4))
           x8 == Write(\h28238, one)
           x9 == Write(\h2823c, one)
           x10 == Write(\h28808, two)
           x11 == Write(\h28780, Zero)
<1>0. 0 \in 0 .. 11
  OBVIOUS
<1>1. WriteFits(x1) /\ WriteFits(x2)
  <2> DEFINE a == Pitch(0)
             b == Slice(0)
  <2>1. Span(a, 0, 10) /\ Span(b, 0, 21)
    BY <1>0, FitRatRegisters
  <2>2. Low(a) /\ Low(b)
    BY <1>0, FitRatRegisters, SMT DEF Low
  <2>. HIDE DEF a, b
  <2>3. WordFits(Plainly(1), a) /\ WordFits(Plainly(3), b)
    BY <2>1, FitSpan, PowersAre, SMT DEF Plainly
  <2>4. /\ WriteFits(Element("PITCH", 0, a, <<Plainly(1)>>))
        /\ WriteFits(Element("SLICE", 0, b, <<Plainly(3)>>))
    BY <2>2, <2>3, FitLowElement
  <2>. QED
    BY <2>4 DEF a, b
<1>2. WriteFits(x4)
  <2> DEFINE a == Dim(0)
  <2>1. Declares(a, Bit)
    BY <1>0, FitRatRegisters
  <2>2. Low(a)
    BY <1>0, FitRatRegisters, SMT DEF Low
  <2>. HIDE DEF a
  <2>3. /\ 0 .. 0 + 4 - 1 \subseteq Bit /\ 16 .. 16 + 4 - 1 \subseteq Bit
        /\ 15 \in Nat /\ 15 < Power(4)
    BY PowersAre DEF Bit
  <2>4. WordFits(Field(0, 15), a) /\ WordFits(Field(16, 15), a)
    BY <2>1, <2>3, FitField, SMT
  <2>5. WordFits(p, a)
    BY <2>4 DEF WordFits, Pair, Plainly
  <2>. HIDE DEF p
  <2>6. WriteFits(Element("DIM", 0, a, <<p>>))
    BY <2>2, <2>5, FitLowElement
  <2>. QED
    BY <2>6 DEF a
<1>3. WriteFits(x3) /\ WriteFits(x5) /\ WriteFits(x6) /\ WriteFits(x7)
  BY <1>0, FitRatZeros, FitClear
<1>4. WriteFits(x8) /\ WriteFits(x9)
  <2>1. /\ Span(164408, 0, 3) /\ Span(164408, 8, 11)
        /\ Span(164412, 0, 3) /\ Span(164412, 8, 11)
    BY TargetMaskFields, FitLow, SMT
  <2>2. /\ WordFits(Field(0, 15), 164408) /\ WordFits(Field(8, 15), 164408)
        /\ WordFits(Field(0, 15), 164412) /\ WordFits(Field(8, 15), 164412)
    BY <2>1, FitSpan, PowersAre, SMT
  <2>3. WordFits(one, 164408) /\ WordFits(one, 164412)
    BY <2>2, SMT DEF WordFits, Plainly
  <2>. HIDE DEF one
  <2>. QED
    BY <2>3, FitAt, SMT
<1>5. WriteFits(x10)
  <2> DEFINE flags == {18, 19, 22, 23}
  <2>1. Declares(165896, 16 .. 23)
    BY ColorControlFields, SMT DEF Span
  <2>2. flags \in SUBSET Nat /\ \A b \in flags : b \in 16 .. 23
    OBVIOUS
  <2>. HIDE DEF flags
  <2>3. WordFits(Literal(flags), 165896)
    BY <2>1, <2>2, FitFlags, SMT
  <2>4. WordFits(Field(4, 1), 165896)
    BY ColorControlFields, FitSpan, PowersAre, SMT
  <2>5. WordFits(two, 165896)
    BY <2>3, <2>4, SMT DEF WordFits, flags
  <2>. HIDE DEF two
  <2>. QED
    BY <2>5, FitAt, SMT
<1>6. WriteFits(x11)
  BY FitAt, FitZero, SMT
<1>7. set_dummy_render_target = <<x1, x2, x3, x4, x5, x6, x7, x8, x9, x10, x11>>
  BY SMT DEF set_dummy_render_target
<1>. HIDE DEF x1, x2, x3, x4, x5, x6, x7, x8, x9, x10, x11
<1>. QED
  BY <1>1, <1>2, <1>3, <1>4, <1>5, <1>6, <1>7, FitTuple11

LEMMA FitAllRats ==
  AllFit(FlattenSeq([i \in 1 .. 12 |-> set_rat_defaults(i - 1)]))
<1> DEFINE rats == [i \in 1 .. 12 |-> set_rat_defaults(i - 1)]
           W == {w \in SoundWrite : WriteFits(w)}
<1>1. ASSUME NEW i \in 1 .. 12
      PROVE  set_rat_defaults(i - 1) \in Seq(W)
  <2> DEFINE s == set_rat_defaults(i - 1)
  <2>1. i - 1 \in 0 .. 11
    OBVIOUS
  <2>2. s \in Seq(SoundWrite) /\ AllFit(s)
    BY <2>1, RunRatDefaults, FitRatDefaults DEF Run
  <2>. HIDE DEF s
  <2>3. PICK S : s \in Seq(S) /\ \A w \in S : WriteFits(w)
    BY <2>2 DEF AllFit
  <2>4. \A j \in 1 .. Len(s) : s[j] \in SoundWrite /\ s[j] \in S
    BY <2>2, <2>3
  <2>5. \A j \in 1 .. Len(s) : s[j] \in W
    BY <2>3, <2>4
  <2>6. Len(s) \in Nat /\ s \in [1 .. Len(s) -> SoundWrite]
    BY <2>2
  <2>7. s \in [1 .. Len(s) -> W]
    BY <2>5, <2>6
  <2>. HIDE DEF W
  <2>8. s \in Seq(W)
    BY <2>6, <2>7
  <2>. QED
    BY <2>8 DEF s
<1>2. \A w \in W : WriteFits(w)
  OBVIOUS
<1>. HIDE DEF W
<1>3. rats \in Seq(Seq(W)) /\ rats # <<>>
  BY <1>1
<1>. HIDE DEF rats
<1>4. FlattenSeq(rats) \in Seq(W)
  BY <1>3, Flattened
<1>5. AllFit(FlattenSeq(rats))
  BY <1>2, <1>4 DEF AllFit
<1>. QED
  BY <1>5 DEF rats

LEMMA FitDefaults == AllFit(set_default_state)
<1> DEFINE rats == FlattenSeq([i \in 1 .. 12 |-> set_rat_defaults(i - 1)])
           x == Write(\h9014, Zero)
           loops == LoopConsts(1, 1, 0, 1)
<1>1. AllFit(rats)
  BY FitAllRats
<1>2. AllFit(<<x>>)
  <2>1. WriteFits(x)
    BY FitAt, FitZero, SMT
  <2>. HIDE DEF x
  <2>. QED
    BY <2>1, FitTuple1
<1>3. AllFit(loops)
  BY FitLoopConsts
<1>4. set_default_state =
        start_3d \o set_sx_defaults \o <<x>> \o set_db_defaults \o sq_setup \o set_vgt_defaults
          \o set_pa_defaults \o set_spi_defaults \o set_dummy_render_target \o rats \o loops
  BY SMT DEF set_default_state
<1>. HIDE DEF rats, x, loops
<1>5. AllFit(start_3d \o set_sx_defaults \o <<x>> \o set_db_defaults \o sq_setup)
  BY <1>2, FitStart, FitSx, FitDb, FitSq, AllFitJoined
<1>6. AllFit(start_3d \o set_sx_defaults \o <<x>> \o set_db_defaults \o sq_setup
             \o set_vgt_defaults \o set_pa_defaults \o set_spi_defaults)
  BY <1>5, FitVgt, FitPa, FitSpi, AllFitJoined
<1>. QED
  BY <1>1, <1>3, <1>4, <1>6, FitTarget, AllFitJoined

-----------------------------------------------------------------------------
(* The invariant.  Every write still to be made is one a setter makes, and *)
(* what stands in the stream is empty or the packet of such a write with   *)
(* its relocation: so the card finds packets only, and each writes inside  *)
(* one register space.  Ahead of the card, in the stream, every register   *)
(* has the value it was named with last, but for the two that a burst of   *)
(* the default state reaches over: those are set again before a dispatch.  *)

Address(r) == r \in 0 .. LastAddress /\ r % 4 = 0

RegsSound == \A r \in DOMAIN regs : Address(r) /\ regs[r] \in Word32

AskedSound == \A k \in DOMAIN asked : asked[k].at \in Nat /\ asked[k].word \in Val

\* What is left of a call that sets registers, and of one that dispatches.
Queued(s) == Settles(s) \/ Launches(s)

IInv ==
  /\ Queued(todo) /\ Len(todo) <= Len(set_default_state)
  /\ Sound(ib)
  /\ RegsSound
  /\ outside = FALSE
  /\ started \in BOOLEAN
  /\ calls \in 0 .. MaxCalls + 1
  /\ AskedSound

\* The registers once the card has read the packet in the stream, and whether
\* that packet, or the last one, starts the job.
Pending == ib # <<>> /\ WritesRegisters(Head(ib))

Ahead == IF Pending THEN Over(Written(Head(ib), Body(ib)), regs) ELSE regs

Launching ==
  \/ started
  \/ ib # <<>> /\ ~ WritesRegisters(Head(ib)) /\ Head(ib).op = "DISPATCH_DIRECT"

\* The two names that need not hold yet: the call under way sets the register
\* again, or the next dispatch does.
Owed(k) ==
  \/ k = Input /\ Coming(Input, todo)
  \/ k = Late /\ (Coming(Late, todo) \/ ~ (Launches(todo) \/ Launching))

VInv ==
  /\ \A k \in DOMAIN asked : NameOwns(k, asked[k]) /\ (HoldsIn(Ahead, asked[k]) \/ Owed(k))
  /\ Launching => todo = <<>>
  /\ started => ~ Pending

\* Every word still to be written, and every one asked for, fits its register;
\* where one is in a buffer, the type of a buffer is asked for behind it.
TypeAsked(f, r) ==
  LET t == <<"reg", TypeWord(r)>>
  IN  t \in DOMAIN f /\ f[t].at = TypeWord(r) /\ f[t].word = Field(30, 3)

AskFits(f, k) ==
  /\ WordFits(f[k].word, f[k].at)
  /\ f[k].at \in FetchResources => TypeAsked(f, f[k].at)

FitsInv == AllFit(todo) /\ \A k \in DOMAIN asked : AskFits(asked, k)

\* Of all arguments, only the threads of a group can be too large for a field.
FInv == GroupsFit => FitsInv

-----------------------------------------------------------------------------
(* The calls, and the writes they leave.                                   *)

\* What the calls pass to Queue.
Callable(s) ==
  \/ Run(s, 32)
  \/ s = set_default_state
  \/ Launches(s) /\ Coming(Late, s) /\ Len(s) <= 32

LEMMA SettlesNotLaunches ==
  ASSUME NEW s, Settles(s)
  PROVE  ~ Launches(s)
<1>1. \A w \in AnyWrite : w.op # "DISPATCH_DIRECT"
  <2>1. Wiper.op = "SET"
    BY DEF Wiper, Burst
  <2>. QED
    BY <2>1 DEF AnyWrite, SoundWrite
<1>2. ASSUME Launches(s)
      PROVE  FALSE
  <2>1. s \in Seq(AnyWrite) /\ s # <<>> /\ s[Len(s)].op = "DISPATCH_DIRECT"
    BY <1>2 DEF Launches, Launch, Settles
  <2>2. s[Len(s)] \in AnyWrite
    <3> DEFINE m == Len(s)
    <3>1. m \in Nat \ {0} /\ \A i \in 1 .. m : s[i] \in AnyWrite
      BY <2>1, ElementOfSeq
    <3>. HIDE DEF m
    <3>2. s[m] \in AnyWrite
      BY <3>1
    <3>. QED
      BY <3>2 DEF m
  <2>. QED
    BY <1>1, <2>1, <2>2
<1>. QED
  BY <1>2

LEMMA CallsWrite ==
  ASSUME NEW s, Callable(s)
  PROVE  Queued(s) /\ Len(s) <= Len(set_default_state) /\ (Launches(s) => Coming(Late, s))
<1> DEFINE d == set_default_state
<1>1. Settles(d) /\ Len(d) \in Nat /\ Len(d) >= 32
  BY DefaultWrites DEF Ample
<1>. HIDE DEF d
<1>2. CASE Run(s, 32)
  <2>1. Writes(s) /\ Len(s) \in Nat /\ Len(s) <= 32
    BY <1>2 DEF Run, Writes
  <2>2. Settles(s)
    BY <2>1, WritesSettle
  <2>3. ~ Launches(s)
    BY <2>2, SettlesNotLaunches
  <2>4. Len(s) <= Len(d)
    BY <1>1, <2>1
  <2>. QED
    BY <2>2, <2>3, <2>4 DEF Queued, d
<1>3. CASE s = d
  <2>1. Len(s) <= Len(d)
    BY <1>1, <1>3
  <2>2. ~ Launches(s)
    BY <1>1, <1>3, SettlesNotLaunches
  <2>. QED
    BY <1>1, <1>3, <2>1, <2>2 DEF Queued, d
<1>4. CASE Launches(s) /\ Coming(Late, s) /\ Len(s) <= 32
  <2>1. Len(s) \in Nat
    BY <1>4 DEF Launches
  <2>2. Len(s) <= Len(d)
    BY <1>1, <1>4, <2>1
  <2>. QED
    BY <1>4, <2>2 DEF Queued, d
<1>. QED
  BY <1>2, <1>3, <1>4 DEF Callable, d

LEMMA WiperFormed ==
  /\ Wiper \in FormedWrite /\ Wiper.op = "SET" /\ Wiper.at # 0
  /\ Wiper.at = \h286e4 /\ Wiper.key = <<"reg", \h286e4>> /\ Wiper.words = Zeros(3)
<1> DEFINE words == Zeros(3)
           n == 3
           at == \h286e4
<1>1. words \in Seq(Val) /\ Len(words) = n /\ n \in 1 .. 32
  BY ZerosType
<1>2. at \in Nat /\ at # 0 /\ Place(at, n)
  BY SMT DEF Place, InSpace, Inside, Space
<1>. HIDE DEF words, n, at
<1>3. Burst(at, words) \in FormedWrite
  BY <1>1, <1>2, BurstFormed
<1>4. /\ Burst(at, words).op = "SET" /\ Burst(at, words).at = at
      /\ Burst(at, words).key = <<"reg", at>> /\ Burst(at, words).words = words
  BY DEF Burst
<1>5. Wiper = Burst(at, words)
  BY DEF Wiper, at, words
<1>. QED
  BY <1>2, <1>3, <1>4, <1>5, SMT DEF at, words

\* The first of the writes that are left, and what is left behind it.
LEMMA StillComing ==
  ASSUME NEW S, NEW s \in Seq(S), s # <<>>, NEW key, Coming(key, s), ~ IsFor(Head(s), key)
  PROVE  Coming(key, Tail(s))
<1> DEFINE m == Len(s)
           t == Tail(s)
<1>1. m \in Nat \ {0} /\ DOMAIN s = 1 .. m /\ Head(s) = s[1]
  OBVIOUS
<1>2. DOMAIN t = 1 .. m - 1 /\ \A i \in 1 .. m - 1 : t[i] = s[i + 1]
  BY <1>1
<1>. HIDE DEF m, t
<1>3. PICK i \in 1 .. m : IsFor(s[i], key)
  BY <1>1 DEF Coming
<1>4. i # 1
  BY <1>1, <1>3
<1>5. i - 1 \in 1 .. m - 1 /\ (i - 1) + 1 = i
  BY <1>1, <1>4
<1>6. IsFor(t[i - 1], key)
  BY <1>2, <1>3, <1>5
<1>. QED
  BY <1>2, <1>5, <1>6 DEF Coming, t

LEMMA FirstOf ==
  ASSUME NEW s, Queued(s), s # <<>>
  PROVE  \/ /\ Head(s) \in SoundWrite /\ Queued(Tail(s))
            /\ Launches(Tail(s)) => Launches(s)
         \/ Head(s) = Wiper /\ Settles(Tail(s)) /\ Coming(Input, Tail(s))
         \/ Launch(Head(s)) /\ Tail(s) = <<>> /\ Launches(s)
<1> DEFINE m == Len(s)
           t == Tail(s)
<1>1. s \in Seq(AnyWrite) \/ s \in Seq(FormedWrite)
  BY DEF Queued, Settles, Launches
<1>2. m \in Nat \ {0} /\ DOMAIN s = 1 .. m /\ Head(s) = s[1]
  BY <1>1
<1>3. DOMAIN t = 1 .. m - 1 /\ Len(t) = m - 1 /\ \A i \in 1 .. m - 1 : t[i] = s[i + 1]
  BY <1>1, <1>2
<1>4. \A S : s \in Seq(S) => t \in Seq(S)
  BY <1>2
<1>. HIDE DEF m, t
<1>5. CASE Settles(s)
  <2>1. s \in Seq(AnyWrite) /\ t \in Seq(AnyWrite) /\ s[1] \in AnyWrite
    BY <1>2, <1>4, <1>5, ElementOfSeq DEF m, Settles
  <2>2. ASSUME NEW i \in 1 .. m, s[i] = Wiper
        PROVE  \E j \in 1 .. m - 1 : i < j + 1 /\ IsFor(t[j], Input)
    <3>1. PICK j \in 1 .. m : i < j /\ IsFor(s[j], Input)
      BY <1>2, <1>5, <2>2 DEF Settles
    <3>2. j - 1 \in 1 .. m - 1 /\ (j - 1) + 1 = j
      BY <1>2, <2>2, <3>1
    <3>3. IsFor(t[j - 1], Input)
      BY <1>3, <3>1, <3>2
    <3>. QED
      BY <3>1, <3>2, <3>3
  <2>3. Settles(t)
    <3>1. ASSUME NEW i \in 1 .. m - 1, t[i] = Wiper
          PROVE  \E j \in 1 .. m - 1 : i < j /\ IsFor(t[j], Input)
      <4>1. i + 1 \in 1 .. m /\ s[i + 1] = Wiper
        BY <1>2, <1>3, <3>1
      <4>2. PICK j \in 1 .. m - 1 : i + 1 < j + 1 /\ IsFor(t[j], Input)
        BY <2>2, <4>1
      <4>. QED
        BY <1>2, <4>2
    <3>. QED
      BY <1>3, <2>1, <3>1 DEF Settles
  <2>4. ~ Launches(t)
    BY <2>3, SettlesNotLaunches
  <2>5. CASE s[1] = Wiper
    <3>1. 1 \in 1 .. m
      BY <1>2
    <3>2. PICK j \in 1 .. m - 1 : IsFor(t[j], Input)
      BY <2>2, <2>5, <3>1
    <3>3. Coming(Input, t)
      BY <1>3, <3>2 DEF Coming
    <3>. QED
      BY <1>2, <2>3, <2>5, <3>3 DEF t
  <2>6. CASE s[1] \in SoundWrite
    BY <1>2, <2>3, <2>4, <2>6 DEF Queued, t
  <2>. QED
    BY <2>1, <2>5, <2>6 DEF AnyWrite
<1>6. CASE Launches(s)
  <2>1. /\ s \in Seq(FormedWrite) /\ t \in Seq(FormedWrite) /\ Launch(s[m])
        /\ \A i \in 1 .. m : i < m => s[i] \in SoundWrite
    BY <1>2, <1>4, <1>6 DEF Launches, m
  <2>2. CASE m = 1
    <3>1. t = <<>>
      <4>1. Len(t) = 0
        BY <1>3, <2>2
      <4>. QED
        BY <2>1, <4>1
    <3>. QED
      BY <1>2, <1>6, <2>1, <2>2, <3>1 DEF t
  <2>3. CASE m # 1
    <3>1. s[1] \in SoundWrite
      <4>1. 1 \in 1 .. m /\ 1 < m
        BY <1>2, <2>3
      <4>. QED
        BY <2>1, <4>1
    <3>2. m - 1 \in 1 .. m - 1 /\ (m - 1) + 1 = m
      BY <1>2, <2>3
    <3>3. Launch(t[m - 1]) /\ t # <<>>
      <4>1. Len(t) # 0
        BY <1>3, <3>2
      <4>2. t[m - 1] = s[m]
        BY <1>3, <3>2
      <4>. QED
        BY <2>1, <4>1, <4>2
    <3>4. ASSUME NEW i \in 1 .. m - 1, i < m - 1
          PROVE  t[i] \in SoundWrite
      <4>1. i + 1 \in 1 .. m /\ i + 1 < m
        BY <1>2, <3>4
      <4>. QED
        BY <1>3, <2>1, <4>1
    <3>5. Launches(t)
      BY <1>3, <2>1, <3>3, <3>4 DEF Launches
    <3>. QED
      BY <1>2, <1>6, <3>1, <3>5 DEF Queued, t
  <2>. QED
    BY <2>2, <2>3
<1>. QED
  BY <1>5, <1>6 DEF Queued

\* What stands in the stream when a write has put its packet there.
LEMMA EncodeAhead ==
  ASSUME NEW w \in FormedWrite, ib' = Encode(w), regs' = regs
  PROVE  /\ Sound(ib')
         /\ IF w.op \in {"SET", "SURFACE_SYNC"}
            THEN Ahead' = Over(Wrote(w), regs) /\ Pending' /\ (Launching' <=> started')
            ELSE /\ Ahead' = regs /\ ~ Pending'
                 /\ Launching' <=> started' \/ w.op = "DISPATCH_DIRECT"
<1>0. PICK h, b, r : /\ Carries(h, b, w) /\ r \in {<<>>, Reloc}
                     /\ Encode(w) = (<<h>> \o b) \o r
  BY EncodePacket
<1>1. Carries(h, b, w) /\ r \in {<<>>, Reloc} /\ ib' = (<<h>> \o b) \o r
  BY <1>0
<1>2. SoundPacket(h, b)
  BY <1>1 DEF Carries
<1>3. Sound(ib')
  BY <1>1, <1>2 DEF Sound
<1>4. ib' # <<>> /\ Head(ib') = h /\ Body(ib') = b
  <2>1. h \in Token /\ IsHeader(h) /\ h.count = Len(b) - 1 /\ b \in Seq(Token)
    <3>1. WordToken \subseteq Token
      BY DEF Token
    <3>. QED
      BY <1>2, <3>1, SeqMonotonic DEF SoundPacket
  <2>2. r \in Seq(Token)
    BY <1>1, RelocPacket
  <2>. QED
    BY <1>1, <2>1, <2>2, Apart
<1>5. CASE w.op \in {"SET", "SURFACE_SYNC"}
  <2>1. WritesRegisters(h) /\ Written(h, b) = Wrote(w)
    BY <1>1, <1>5 DEF Carries
  <2>. QED
    BY <1>3, <1>4, <1>5, <2>1 DEF Ahead, Pending, Launching
<1>6. CASE w.op \notin {"SET", "SURFACE_SYNC"}
  <2>1. ~ WritesRegisters(h) /\ h.op = w.op
    BY <1>1, <1>6 DEF Carries
  <2>. QED
    BY <1>3, <1>4, <1>6, <2>1 DEF Ahead, Pending, Launching
<1>. QED
  BY <1>5, <1>6

LEMMA QueueKeeps ==
  ASSUME NEW s, Callable(s), IInv, calls <= MaxCalls, Queue(s)
  PROVE  IInv'
<1>1. Queued(s) /\ Len(s) <= Len(set_default_state)
  BY CallsWrite
<1>2. calls + 1 \in 0 .. MaxCalls + 1
  BY ArgumentAssumption DEF IInv
<1>3. RegsSound' /\ AskedSound'
  BY DEF IInv, Queue, RegsSound, AskedSound
<1>4. Sound(ib') /\ outside' = FALSE /\ started' \in BOOLEAN
  BY DEF IInv, Queue
<1>. QED
  BY <1>1, <1>2, <1>3, <1>4 DEF IInv, Queue

\* A call finds every register as it was named, but for the width of a group:
\* which a dispatch sets before it starts.
LEMMA QueueValues ==
  ASSUME NEW s, Callable(s), VInv, Queue(s)
  PROVE  VInv'
<1>1. Launches(s) => Coming(Late, s)
  BY CallsWrite
<1>2. /\ todo = <<>> /\ ib = <<>> /\ ib' = <<>> /\ regs' = regs /\ asked' = asked
      /\ todo' = s /\ started' = FALSE
  BY DEF Queue
<1>3. ~ Pending' /\ ~ Launching' /\ Ahead' = Ahead
  BY <1>2 DEF Pending, Launching, Ahead
<1>4. ~ Coming(Input, <<>>) /\ ~ Coming(Late, <<>>)
  BY DEF Coming
<1>5. \A k : Owed(k) => Owed(k)'
  <2>1. ~ Coming(Input, todo) /\ ~ Coming(Late, todo)
    BY <1>2, <1>4
  <2>2. Launches(todo') => Coming(Late, todo')
    BY <1>1, <1>2
  <2>. QED
    BY <1>3, <2>1, <2>2 DEF Owed
<1>. QED
  BY <1>2, <1>3, <1>5 DEF VInv

\* What a write asks for is a value of a register.
LEMMA AsksType ==
  ASSUME NEW w \in FormedWrite, NEW k \in DOMAIN Asks(w)
  PROVE  Asks(w)[k].at \in Nat /\ Asks(w)[k].word \in Val
<1> DEFINE n == Len(w.words)
<1>1. w.at \in Nat /\ w.words \in Seq(Val) /\ n \in 1 .. 32
  BY DEF FormedWrite, RawWrite
<1>2. \A i \in 1 .. n : w.at + 4 * (i - 1) \in Nat /\ w.words[i] \in Val
  BY <1>1, ElementOfSeq
<1>3. w.at # 0
  BY DEF Asks
<1>4. PICK i \in 1 .. n : AsksFor(w, k, i)
  BY <1>3, AsksIs
<1>5. Asks(w)[k].at = w.at + 4 * (i - 1) /\ Asks(w)[k].word = w.words[i]
  BY <1>4 DEF AsksFor, Named
<1>. HIDE DEF n
<1>. QED
  BY <1>2, <1>4, <1>5

\* Every write left is one that can be encoded, and so are those behind it.
LEMMA FirstFormed ==
  ASSUME NEW s, Queued(s), s # <<>>
  PROVE  Head(s) \in FormedWrite /\ Queued(Tail(s))
<1>2. Queued(<<>>)
  BY DEF Queued, Settles
<1>3. CASE Head(s) \in SoundWrite /\ Queued(Tail(s))
  BY <1>3, SoundFormed
<1>4. CASE Head(s) = Wiper /\ Settles(Tail(s))
  BY <1>4, WiperFormed DEF Queued
<1>5. CASE Launch(Head(s)) /\ Tail(s) = <<>>
  BY <1>2, <1>5 DEF Launch
<1>. QED
  BY <1>3, <1>4, <1>5, FirstOf

LEMMA WriteKeeps ==
  ASSUME IInv, write
  PROVE  IInv'
<1> DEFINE w == Head(todo)
           new == Asks(w)
<1>1. w \in FormedWrite /\ Queued(Tail(todo))
  BY FirstFormed DEF IInv, write
<1>2. Sound(ib')
  BY <1>1, EncodeAhead DEF write
<1>3. Queued(todo') /\ Len(todo') <= Len(set_default_state)'
  <2> DEFINE m == Len(set_default_state)
  <2>1. m \in Nat
    BY DefaultWrites DEF Ample
  <2>2. todo \in Seq(AnyWrite) \/ todo \in Seq(FormedWrite)
    BY DEF IInv, Queued, Settles, Launches
  <2>3. Len(todo) <= m /\ todo # <<>>
    BY DEF IInv, write
  <2>. HIDE DEF m
  <2>4. Len(Tail(todo)) <= m
    BY <2>1, <2>2, <2>3
  <2>. QED
    BY <1>1, <2>4 DEF write, m
<1>4. AskedSound'
  <2>1. \A k \in DOMAIN new : new[k].at \in Nat /\ new[k].word \in Val
    BY <1>1, AsksType
  <2>2. asked' = Over(new, asked)
    BY DEF write
  <2>3. \A k \in DOMAIN asked : asked[k].at \in Nat /\ asked[k].word \in Val
    BY DEF IInv, AskedSound
  <2>. HIDE DEF new
  <2>. QED
    BY <2>1, <2>2, <2>3 DEF Over, AskedSound
<1>5. RegsSound'
  BY DEF IInv, write, RegsSound
<1>6. outside' = FALSE /\ started' \in BOOLEAN /\ calls' \in 0 .. MaxCalls + 1
  BY DEF IInv, write
<1>. QED
  BY <1>2, <1>3, <1>4, <1>5, <1>6 DEF IInv

\* The burst that reaches over two registers asks for its first only.
LEMMA WiperAsks ==
  /\ <<"reg", \h286e4>> \in DOMAIN Asks(Wiper)
  /\ \A k \in DOMAIN Asks(Wiper) :
       NameOwns(k, Asks(Wiper)[k]) /\ HoldsIn(Wrote(Wiper), Asks(Wiper)[k])
<1> DEFINE at == \h286e4
           key == <<"reg", at>>
           words == Zeros(3)
           w == Wiper
           n == Len(words)
<1>1. w \in FormedWrite /\ w.at # 0 /\ w.at = at /\ w.key = key /\ w.words = words
  BY WiperFormed
<1>2. n = 3 /\ \A i \in 1 .. 3 : words[i] = Zero
  BY ZerosType
<1>3. Owner(at) = key /\ at \in Nat
  BY OrdinaryReg, SMT DEF Ordinary
<1>4. key[1] = "reg"
  BY SMT
<1>. HIDE DEF at, key, words, w, n
<1>5. key \in DOMAIN Asks(w)
  BY <1>1, AsksIs
<1>6. ASSUME NEW k \in DOMAIN Asks(w)
      PROVE  NameOwns(k, Asks(w)[k]) /\ HoldsIn(Wrote(w), Asks(w)[k])
  <2>1. PICK i \in 1 .. n : AsksFor(w, k, i)
    BY <1>1, <1>6, AsksIs DEF n
  <2>2. i = 1
    BY <1>1, <1>2, <1>4, <2>1 DEF AsksFor
  <2>3. k = key /\ Asks(w)[k].at = at /\ Asks(w)[k].word = words[1]
    BY <1>1, <1>3, <2>1, <2>2 DEF AsksFor, Named
  <2>4. 1 \in 1 .. n /\ 1 \in 1 .. 3 /\ at + 4 * (1 - 1) = at
    BY <1>2, <1>3
  <2>5. at \in DOMAIN Wrote(w) /\ Wrote(w)[at] = Value(words[1])
    BY <1>1, <2>4, WroteIs DEF n
  <2>. QED
    BY <1>2, <1>3, <2>3, <2>4, <2>5 DEF NameOwns, HoldsIn
<1>. QED
  BY <1>5, <1>6 DEF key, at, w

LEMMA WiperSpares ==
  ASSUME NEW k, k # <<"reg", \h286e4>>, NEW a, NameOwns(k, a), NEW f, HoldsIn(f, a)
  PROVE  HoldsIn(Over(Wrote(Wiper), f), a) \/ k \in {Input, Late}
<1> DEFINE at == \h286e4
           n == Len(Wiper.words)
           r == a.at
<1>1. Wiper \in FormedWrite /\ Wiper.at = at /\ n = 3
  BY WiperFormed, ZerosType
<1>2. CASE r \notin DOMAIN Wrote(Wiper)
  BY <1>2 DEF HoldsIn, Over
<1>3. CASE r \in DOMAIN Wrote(Wiper)
  <2> DEFINE three == {\h286e4, \h286e8, \h286ec}
  <2>1. \A i \in 1 .. 3 : at + 4 * (i - 1) \in three
    BY SMT
  <2>2. r \in three
    <3>. HIDE DEF at, n, r, three
    <3>1. PICK i \in 1 .. Len(Wiper.words) : r = Wiper.at + 4 * (i - 1)
      BY <1>1, <1>3, WroteIs
    <3>2. i \in 1 .. 3 /\ r = at + 4 * (i - 1)
      BY <1>1, <3>1 DEF n
    <3>. QED
      BY <2>1, <3>2
  <2>3. Ordinary(r)
    BY <2>2, SMT DEF Ordinary
  <2>4. k = <<"reg", r>>
    BY <2>3, OrdinaryReg DEF NameOwns
  <2>. QED
    BY <2>2, <2>4, SMT DEF Input, Late
<1>. QED
  BY <1>2, <1>3

\* A write puts what it asks for ahead of the card, and takes nothing away
\* that is not set again.
LEMMA WriteValues ==
  ASSUME IInv, VInv, write
  PROVE  VInv'
<1> DEFINE w == Head(todo)
           t == Tail(todo)
           new == Asks(w)
           Kept(k) == NameOwns(k, asked'[k]) /\ (HoldsIn(Ahead', asked'[k]) \/ Owed(k)')
<1>1. /\ todo # <<>> /\ ib = <<>> /\ todo' = t /\ ib' = Encode(w) /\ regs' = regs
      /\ asked' = Over(new, asked) /\ started' = started
  BY DEF write
<1>2. started = FALSE /\ ~ started' /\ Ahead = regs
  BY <1>1 DEF VInv, IInv, Launching, Ahead, Pending
<1>3. \A k \in DOMAIN asked : NameOwns(k, asked[k]) /\ (HoldsIn(regs, asked[k]) \/ Owed(k))
  BY <1>2 DEF VInv
<1>4. \A key : Coming(key, todo) /\ ~ IsFor(w, key) => Coming(key, t)
  BY <1>1, StillComing DEF IInv, Queued, Settles, Launches
<1>5. w \in FormedWrite
  BY <1>1, FirstFormed DEF IInv
<1>6. \A k \in DOMAIN asked' :
        \/ k \in DOMAIN new /\ asked'[k] = new[k]
        \/ k \notin DOMAIN new /\ k \in DOMAIN asked /\ asked'[k] = asked[k]
  BY <1>1 DEF Over
<1>7. ASSUME \A k \in DOMAIN asked' : Kept(k), Launching' => t = <<>>
      PROVE  VInv'
  BY <1>1, <1>2, <1>7 DEF VInv
<1>. HIDE DEF w, t, new
<1>8. CASE /\ w \in SoundWrite /\ Queued(t) /\ w.at # 0
           /\ Launches(t) => Launches(todo)
  <2>1. w.op \in {"SET", "SURFACE_SYNC"}
    BY <1>8 DEF SoundWrite, FormedWrite, RawWrite
  <2>2. Ahead' = Over(Wrote(w), regs) /\ ~ Launching'
    BY <1>1, <1>2, <1>5, <2>1, EncodeAhead
  <2>3. ASSUME NEW k \in DOMAIN asked'
        PROVE  Kept(k)
    <3>1. CASE k \in DOMAIN new /\ asked'[k] = new[k]
      <4>1. NameOwns(k, new[k]) /\ HoldsIn(Wrote(w), new[k])
        BY <1>8, <3>1, WriteAsks DEF new
      <4>2. HoldsIn(Over(Wrote(w), regs), new[k])
        BY <4>1 DEF HoldsIn, Over
      <4>. QED
        BY <2>2, <3>1, <4>1, <4>2
    <3>2. CASE k \notin DOMAIN new /\ k \in DOMAIN asked /\ asked'[k] = asked[k]
      <4>1. NameOwns(k, asked[k])
        BY <1>3, <3>2
      <4>2. CASE HoldsIn(regs, asked[k])
        <5>1. HoldsIn(Over(Wrote(w), regs), asked[k])
          BY <1>8, <3>2, <4>1, <4>2, WriteSpares DEF new
        <5>. QED
          BY <2>2, <3>2, <4>1, <5>1
      <4>3. CASE Owed(k)
        <5>1. ~ IsFor(w, k)
          BY <1>5, <1>8, <3>2, AsksIs DEF IsFor, new
        <5>2. Owed(k)'
          BY <1>1, <1>4, <1>8, <2>2, <4>3, <5>1 DEF Owed
        <5>. QED
          BY <3>2, <4>1, <5>2
      <4>. QED
        BY <1>3, <3>2, <4>2, <4>3
    <3>. QED
      BY <1>6, <3>1, <3>2
  <2>. QED
    BY <1>7, <2>2, <2>3
<1>9. ASSUME w.at = 0, w.op \notin {"SET", "SURFACE_SYNC"},
             Launches(t) => Launches(todo),
             w.op = "DISPATCH_DIRECT" => Launches(todo) /\ t = <<>>
      PROVE  VInv'
  <2>1. Ahead' = regs /\ (Launching' <=> w.op = "DISPATCH_DIRECT")
    BY <1>1, <1>2, <1>5, <1>9, EncodeAhead
  <2>2. DOMAIN new = {}
    BY <1>9 DEF Asks, new
  <2>3. ASSUME NEW k \in DOMAIN asked'
        PROVE  Kept(k)
    <3>1. k \in DOMAIN asked /\ asked'[k] = asked[k]
      BY <1>6, <2>2
    <3>2. Owed(k) => Owed(k)'
      <4>1. ~ IsFor(w, k)
        BY <1>9 DEF IsFor
      <4>. QED
        BY <1>1, <1>4, <1>9, <2>1, <4>1 DEF Owed
    <3>. QED
      BY <1>3, <2>1, <3>1, <3>2
  <2>. QED
    BY <1>7, <1>9, <2>1, <2>3
<1>10. CASE w = Wiper /\ Settles(t) /\ Coming(Input, t)
  <2>1. Ahead' = Over(Wrote(w), regs) /\ ~ Launching'
    BY <1>1, <1>2, <1>5, <1>10, EncodeAhead, WiperFormed
  <2>2. Owed(Input)' /\ Owed(Late)'
    BY <1>1, <1>10, <2>1, SettlesNotLaunches DEF Owed
  <2>3. ASSUME NEW k \in DOMAIN asked'
        PROVE  Kept(k)
    <3>1. CASE k \in DOMAIN new /\ asked'[k] = new[k]
      <4>1. NameOwns(k, new[k]) /\ HoldsIn(Wrote(w), new[k])
        BY <1>10, <3>1, WiperAsks DEF new
      <4>2. HoldsIn(Over(Wrote(w), regs), new[k])
        BY <4>1 DEF HoldsIn, Over
      <4>. QED
        BY <2>1, <3>1, <4>1, <4>2
    <3>2. CASE k \notin DOMAIN new /\ k \in DOMAIN asked /\ asked'[k] = asked[k]
      <4>1. NameOwns(k, asked[k]) /\ k # <<"reg", \h286e4>>
        BY <1>3, <1>10, <3>2, WiperAsks, SMT DEF new
      <4>2. CASE HoldsIn(regs, asked[k])
        <5>1. HoldsIn(Over(Wrote(w), regs), asked[k]) \/ k \in {Input, Late}
          BY <1>10, <4>1, <4>2, WiperSpares
        <5>. QED
          BY <2>1, <2>2, <3>2, <4>1, <5>1
      <4>3. CASE Owed(k)
        <5>1. k \in {Input, Late}
          BY <4>3 DEF Owed
        <5>. QED
          BY <2>2, <3>2, <4>1, <5>1
      <4>. QED
        BY <1>3, <3>2, <4>2, <4>3
    <3>. QED
      BY <1>6, <3>1, <3>2
  <2>. QED
    BY <1>7, <2>1, <2>3
<1>11. CASE w \in SoundWrite /\ w.at = 0 /\ (Launches(t) => Launches(todo))
  <2>1. w.op = "CONTEXT_CONTROL"
    BY <1>11 DEF SoundWrite
  <2>. QED
    BY <1>9, <1>11, <2>1
<1>12. CASE Launch(w) /\ t = <<>> /\ Launches(todo)
  BY <1>9, <1>12 DEF Launch
<1>. QED
  <2>1. \/ /\ w \in SoundWrite /\ Queued(t)
           /\ Launches(t) => Launches(todo)
        \/ w = Wiper /\ Settles(t) /\ Coming(Input, t)
        \/ Launch(w) /\ t = <<>> /\ Launches(todo)
    BY <1>1, FirstOf DEF IInv, w, t
  <2>. QED
    BY <1>8, <1>10, <1>11, <1>12, <2>1

\* The packet in the stream, and its relocation.
Standing(h, b, r) ==
  /\ SoundPacket(h, b) /\ r \in {<<>>, Reloc}
  /\ IsHeader(Head(ib)) /\ Extent(ib) <= Len(ib)
  /\ Head(ib) = h /\ Body(ib) = b /\ Behind(ib) = r

LEMMA PacketStands ==
  ASSUME Sound(ib), ib # <<>>
  PROVE  \E h, b, r : Standing(h, b, r)
<1>1. PICK h, b, r : SoundPacket(h, b) /\ r \in {<<>>, Reloc} /\ ib = (<<h>> \o b) \o r
  BY DEF Sound
<1>2. h \in Token /\ IsHeader(h) /\ h.count = Len(b) - 1 /\ b \in Seq(Token)
  <2>1. WordToken \subseteq Token
    BY DEF Token
  <2>. QED
    BY <1>1, <2>1, SeqMonotonic DEF SoundPacket
<1>3. r \in Seq(Token)
  BY <1>1, RelocPacket
<1>4. Standing(h, b, r)
  BY <1>1, <1>2, <1>3, Apart DEF Standing
<1>. QED
  BY <1>4

LEMMA PacketKeeps ==
  ASSUME IInv, cp_packet
  PROVE  IInv'
<1>1. PICK h, b, r : Standing(h, b, r)
  BY PacketStands DEF IInv, cp_packet
<1>2. SoundPacket(h, b) /\ Head(ib) = h /\ Body(ib) = b /\ Behind(ib) = r
  BY <1>1 DEF Standing
<1>3. Sound(ib')
  <2>1. Sound(<<>>)
    BY DEF Sound
  <2>. QED
    BY <1>1, <2>1, RelocPacket DEF Standing, cp_packet
<1>4. outside' = FALSE /\ RegsSound'
  <2>1. CASE ~ WritesRegisters(h)
    BY <1>2, <2>1 DEF IInv, cp_packet, RegsSound
  <2>2. CASE WritesRegisters(h)
    <3> DEFINE f == Written(h, b)
    <3>1. regs' = Over(f, regs) /\ (outside' = (outside \/ ~ WithinSpace(DOMAIN f)))
      BY <1>2, <2>2 DEF cp_packet
    <3>2. PICK s \in Space : \A x \in DOMAIN f :
            s.lo <= x /\ x < s.hi /\ x \in Nat /\ x % 4 = 0 /\ f[x] \in Word32
      BY <1>2, <2>2 DEF SoundPacket, OneSpace
    <3>. HIDE DEF f
    <3>3. WithinSpace(DOMAIN f)
      BY <3>2 DEF WithinSpace
    <3>4. \A x \in DOMAIN f : Address(x)
      <4>1. s.hi \in Nat /\ s.hi <= 262144
        BY Spaces
      <4>2. LastAddress \in Nat /\ LastAddress + 1 = 262144
        BY SMT DEF LastAddress
      <4>. QED
        BY <3>2, <4>1, <4>2 DEF Address
    <3>. QED
      BY <3>1, <3>2, <3>3, <3>4 DEF IInv, Over, RegsSound
  <2>. QED
    BY <2>1, <2>2
<1>5. started' \in BOOLEAN
  BY DEF cp_packet
<1>. QED
  <2>1. AskedSound'
    BY DEF IInv, cp_packet, AskedSound
  <2>2. Queued(todo') /\ Len(todo') <= Len(set_default_state)' /\ calls' \in 0 .. MaxCalls + 1
    BY DEF IInv, cp_packet
  <2>. QED
    BY <1>3, <1>4, <1>5, <2>1, <2>2 DEF IInv

\* The card reads what was ahead of it.
LEMMA PacketValues ==
  ASSUME IInv, VInv, cp_packet
  PROVE  VInv'
<1>1. PICK h, b, r : Standing(h, b, r)
  BY PacketStands DEF IInv, cp_packet
<1>2. /\ ib # <<>> /\ Head(ib) = h /\ Body(ib) = b /\ ib' = r /\ r \in {<<>>, Reloc}
      /\ todo' = todo /\ asked' = asked
      /\ started' = (~ WritesRegisters(h) /\ h.op = "DISPATCH_DIRECT")
      /\ regs' = IF WritesRegisters(h) THEN Over(Written(h, b), regs) ELSE regs
  BY <1>1 DEF Standing, cp_packet
<1>3. ~ Pending' /\ (Launching' => started')
  BY <1>2, RelocPacket DEF Pending, Launching
<1>4. started' => Launching
  BY <1>2 DEF Launching
<1>5. Ahead' = Ahead
  <2>1. Ahead' = regs'
    BY <1>3 DEF Ahead
  <2>. QED
    BY <1>2, <2>1 DEF Ahead, Pending
<1>6. \A k : Owed(k) => Owed(k)'
  BY <1>2, <1>3, <1>4 DEF Owed
<1>. QED
  BY <1>2, <1>3, <1>4, <1>5, <1>6 DEF VInv

-----------------------------------------------------------------------------
(* The fields of what is asked for.                                        *)

\* Of the names, those of no array carry the address.
LEMMA RatReg ==
  ASSUME NEW slot \in Nat, NEW id, NEW r, NEW q, RatName(slot, id, r) = <<"reg", q>>
  PROVE  q = r
<1>1. CASE slot < 12
  <2>1. slot \in 0 .. 11
    BY <1>1
  <2>2. \/ slot = 0 \/ slot = 1 \/ slot = 2 \/ slot = 3 \/ slot = 4 \/ slot = 5
        \/ slot = 6 \/ slot = 7 \/ slot = 8 \/ slot = 9 \/ slot = 10 \/ slot = 11
    BY <2>1
  <2>3. \E name : name # "reg" /\ RatName(slot, id, r) = <<name, id>>
    BY <2>2, SlotNames, SMT
  <2>. QED
    BY <2>3
<1>2. CASE ~ (slot < 12)
  BY <1>2 DEF RatName
<1>. QED
  BY <1>1, <1>2

LEMMA OwnerReg ==
  ASSUME NEW r \in Nat, NEW q, Owner(r) = <<"reg", q>>
  PROVE  q = r
<1> DEFINE d == r - 167008
<1>1. d \in Int
  OBVIOUS
<1>2. CASE 167008 <= r /\ r < 167600 /\ Owner(r) = RatOwner(r)
  <2>1. d \in Nat
    BY <1>2
  <2> DEFINE s1 == (d % 60) \div 4
             s2 == ((d - 480) % 28) \div 4
             i1 == d \div 60
             i2 == 8 + (d - 480) \div 28
  <2>2. s1 \in Nat /\ (480 <= d => s2 \in Nat)
    BY <2>1
  <2>3. RatOwner(r) = IF d < 480 THEN RatName(s1, i1, r) ELSE RatName(s2, i2, r)
    BY SMT DEF RatOwner
  <2>. HIDE DEF s1, s2, i1, i2, d
  <2>. QED
    BY <1>1, <1>2, <2>2, <2>3, RatReg, SMT
<1>3. CASE Owner(r) = <<"reg", r>>
  BY <1>3
<1>4. CASE \E i : \/ Owner(r) = <<"COHER", i>> \/ Owner(r) = <<"IMMED", i>>
                  \/ Owner(r) = <<"CACHE_BASE", i>> \/ Owner(r) = <<"CACHE_SIZE", i>>
                  \/ Owner(r) = <<"FETCH", i>> \/ Owner(r) = <<"LOOP", i>>
  BY <1>4
<1>. QED
  BY <1>2, <1>3, <1>4, SMT DEF Owner

LEMMA TypeWords ==
  ASSUME NEW r \in Nat, r \in FetchResources
  PROVE  /\ TypeWord(r) \in Nat /\ TypeWord(r) \in FetchResources
         /\ TypeWord(TypeWord(r)) = TypeWord(r)
<1>1. 196608 <= r /\ r <= 229375
  BY FetchAddress, SMT
<1> DEFINE b == r \div 32
           t == 32 * b + 28
<1>2. b \in Nat /\ 6144 <= b /\ b <= 7167
  BY <1>1, SMT
<1>. HIDE DEF b
<1>3. t \in Nat /\ 196608 <= t /\ t <= 229375 /\ t \div 32 = b
  BY <1>2, SMT
<1>4. t \in FetchResources
  <2>. HIDE DEF t
  <2>. QED
    BY <1>3, FetchAddress, SMT
<1>5. TypeWord(r) = t
  BY SMT DEF TypeWord, b
<1>6. TypeWord(t) = t
  <2>1. 32 * (t \div 32) + 28 = t
    BY <1>3, SMT
  <2>. HIDE DEF t
  <2>. QED
    BY <2>1 DEF TypeWord
<1>. QED
  BY <1>3, <1>4, <1>5, <1>6

LEMMA AsksFit ==
  ASSUME NEW w \in FormedWrite, WriteFits(w), NEW k \in DOMAIN Asks(w)
  PROVE  AskFits(Asks(w), k)
<1> DEFINE n == Len(w.words)
<1>1. w.at # 0 /\ n \in Nat
  BY DEF Asks, FormedWrite, RawWrite
<1>2. PICK i \in 1 .. n : AsksFor(w, k, i)
  BY <1>1, AsksIs
<1> DEFINE r == w.at + 4 * (i - 1)
<1>3. Asks(w)[k].at = r /\ Asks(w)[k].word = w.words[i]
  BY <1>2 DEF AsksFor, Named
<1>4. WordFits(w.words[i], r) /\ (r \in FetchResources => InBuffer(w, r))
  BY <1>1 DEF WriteFits, FitsThere
<1>5. ASSUME InBuffer(w, r)
      PROVE  TypeAsked(Asks(w), r)
  <2> DEFINE q == TypeWord(r)
             t == <<"reg", q>>
  <2>1. w.key[1] # "reg"
    BY <1>5 DEF InBuffer
  <2>2. PICK j \in 2 .. n : w.at + 4 * (j - 1) = q /\ w.words[j] = Field(30, 3)
    BY <1>5 DEF InBuffer
  <2>3. t \in DOMAIN Asks(w)
    BY <1>1, <2>1, <2>2, AsksIs
  <2>4. PICK m \in 1 .. n : AsksFor(w, t, m)
    BY <1>1, <2>3, AsksIs
  <2>5. m # 1
    BY <2>1, <2>4 DEF AsksFor
  <2>6. t = <<"reg", w.at + 4 * (m - 1)>>
    BY <2>4, <2>5 DEF AsksFor
  <2>7. w.at + 4 * (m - 1) = q /\ m = j
    <3>1. w.at \in Nat
      BY DEF FormedWrite, RawWrite
    <3>2. w.at + 4 * (m - 1) = q
      BY <2>6
    <3>. QED
      BY <2>2, <3>1, <3>2
  <2>8. Asks(w)[t] = Named(w, j)
    BY <2>4, <2>7 DEF AsksFor
  <2>9. Asks(w)[t].at = q /\ Asks(w)[t].word = Field(30, 3)
    BY <2>2, <2>8 DEF Named
  <2>. QED
    BY <2>3, <2>9 DEF TypeAsked
<1>. QED
  BY <1>3, <1>4, <1>5 DEF AskFits

\* A write that takes the type of a buffer over sets it to the same.
LEMMA TypeStays ==
  ASSUME NEW w \in FormedWrite, WriteFits(w), NEW r \in Nat, r \in FetchResources,
         NEW t, t = <<"reg", TypeWord(r)>>, t \in DOMAIN Asks(w), Owner(Asks(w)[t].at) = t
  PROVE  TypeAsked(Asks(w), r)
<1> DEFINE q == TypeWord(r)
           p == Asks(w)[t].at
<1>1. p \in Nat
  BY AsksType
<1>2. p = q
  BY <1>1, OwnerReg
<1>3. q \in FetchResources /\ TypeWord(q) = q
  BY TypeWords
<1>4. AskFits(Asks(w), t)
  BY AsksFit
<1>5. TypeAsked(Asks(w), q)
  BY <1>2, <1>3, <1>4 DEF AskFits
<1>. QED
  BY <1>3, <1>5 DEF TypeAsked

LEMMA WriteFields ==
  ASSUME IInv, VInv', FitsInv, write
  PROVE  FitsInv'
<1> DEFINE w == Head(todo)
           new == Asks(w)
<1>1. w \in FormedWrite
  BY FirstFormed DEF IInv, write
<1>2. WriteFits(w) /\ AllFit(Tail(todo))
  BY AllFitFirst DEF FitsInv, write
<1>3. asked' = Over(new, asked) /\ todo' = Tail(todo)
  BY DEF write
<1>4. \A k \in DOMAIN new : AskFits(new, k)
  BY <1>1, <1>2, AsksFit
<1>5. \A k \in DOMAIN asked' : Owner(asked'[k].at) = k
  BY DEF VInv, NameOwns
<1>6. ASSUME NEW r \in Nat, r \in FetchResources, TypeAsked(new, r) \/ TypeAsked(asked, r)
      PROVE  TypeAsked(asked', r)
  <2> DEFINE t == <<"reg", TypeWord(r)>>
  <2>1. CASE t \in DOMAIN new
    <3>1. asked'[t] = new[t] /\ t \in DOMAIN asked'
      BY <1>3, <2>1 DEF Over
    <3>2. Owner(new[t].at) = t
      BY <1>5, <3>1
    <3>3. TypeAsked(new, r)
      BY <1>1, <1>2, <1>6, <2>1, <3>2, TypeStays
    <3>. QED
      BY <3>1, <3>3 DEF TypeAsked
  <2>2. CASE t \notin DOMAIN new
    <3>1. TypeAsked(asked, r)
      BY <1>6, <2>2 DEF TypeAsked
    <3>2. asked'[t] = asked[t] /\ t \in DOMAIN asked'
      BY <1>3, <2>2, <3>1 DEF Over, TypeAsked
    <3>. QED
      BY <3>1, <3>2 DEF TypeAsked
  <2>. QED
    BY <2>1, <2>2
<1>7. ASSUME NEW k \in DOMAIN asked'
      PROVE  AskFits(asked', k)
  <2>1. CASE k \in DOMAIN new
    <3>1. asked'[k] = new[k]
      BY <1>3, <2>1 DEF Over
    <3>2. new[k].at \in Nat
      BY <1>1, <2>1, AsksType
    <3>. QED
      BY <1>4, <1>6, <2>1, <3>1, <3>2 DEF AskFits
  <2>2. CASE k \notin DOMAIN new
    <3>1. k \in DOMAIN asked /\ asked'[k] = asked[k]
      BY <1>3, <2>2 DEF Over
    <3>2. asked[k].at \in Nat /\ AskFits(asked, k)
      BY <3>1 DEF IInv, AskedSound, FitsInv
    <3>. QED
      BY <1>6, <3>1, <3>2 DEF AskFits
  <2>. QED
    BY <2>1, <2>2
<1>. QED
  BY <1>2, <1>3, <1>7 DEF FitsInv

-----------------------------------------------------------------------------
(* Every step keeps the invariant.                                         *)

\* Whatever its arguments, a call queues one of these runs of writes.
Calls == \E s : Callable(s) /\ (GroupsFit => AllFit(s)) /\ calls <= MaxCalls /\ Queue(s)

LEMMA NextCases ==
  ASSUME Next, calls \in Int
  PROVE  Calls \/ write \/ cp_packet
<1>2. ASSUME NEW s, Callable(s), GroupsFit => AllFit(s), Call(s) \/ Dispatch(s)
      PROVE  Calls
  <2>1. calls <= MaxCalls /\ Queue(s)
    BY <1>2, ArgumentAssumption DEF Call, Dispatch
  <2>. QED
    BY <1>2, <2>1 DEF Calls
<1>1. ASSUME NEW s, Run(s, 32), AllFit(s), Call(s)
      PROVE  Calls
  BY <1>1, <1>2 DEF Callable
<1>3. CASE Call(set_default_state) \/ Call(no_tmp_ring)
  <2>1. Run(no_tmp_ring, 32)
    <3>1. 0 \in Load /\ 0 \in Nat
      BY DEF Load
    <3>. QED
      BY <3>1, RunSetters
  <2>2. AllFit(set_default_state) /\ AllFit(no_tmp_ring)
    <3>1. 0 \in Nat
      OBVIOUS
    <3>. QED
      BY <3>1, FitDefaults, FitRings
  <2>. QED
    BY <1>2, <1>3, <2>1, <2>2 DEF Callable
<1>4. ASSUME NEW load \in Load,
             \/ Call(set_lds(load)) \/ Call(set_gds(load)) \/ Call(select_se(load))
             \/ Call(prepare_compute_shader(load))
      PROVE  Calls
  <2>1. 0 \in Nat
    OBVIOUS
  <2>2. Run(set_lds(load), 32) /\ Run(set_gds(load), 32) /\ Run(select_se(load), 32)
    BY <2>1, RunSetters
  <2>3. Run(prepare_compute_shader(load), 32)
    BY RunPrepare
  <2>. QED
    BY <1>1, <1>4, <2>2, <2>3, FitLds, FitGds, FitSe, FitPrepare
<1>5. ASSUME NEW s \in Start, Call(set_export(s)) \/ Call(set_tmp_ring(s))
      PROVE  Calls
  <2>1. 0 \in Load /\ s \in Nat
    BY ArgumentAssumption DEF Load
  <2>2. Run(set_export(s), 32) /\ Run(set_tmp_ring(s), 32)
    BY <2>1, RunSetters
  <2>. QED
    BY <1>1, <1>5, <2>1, <2>2, FitRings
<1>6. ASSUME NEW n \in LoopCount, NEW load \in Load, Call(set_loop_consts(n, load))
      PROVE  Calls
  <2>1. n \in 0 .. 32
    BY ArgumentAssumption
  <2>2. UpTo(load, 4095) \in Int /\ UpTo(load, 255) \in Int
    BY SMT DEF Load, UpTo
  <2> DEFINE u == UpTo(load, 4095)
             v == UpTo(load, 255)
  <2>3. set_loop_consts(n, load) = LoopConsts(n, u, u, v)
    BY SMT DEF set_loop_consts
  <2>4. u \in Int /\ v \in Int
    BY <2>2, SMT
  <2>. HIDE DEF u, v
  <2>5. Run(LoopConsts(n, u, u, v), 32)
    BY <2>1, <2>4, RunLoopConsts
  <2>6. Run(set_loop_consts(n, load), 32)
    BY <2>3, <2>5
  <2>7. n \in Nat /\ n <= 32
    BY <2>1
  <2>8. AllFit(set_loop_consts(n, load))
    BY <2>7, FitLoops
  <2>. QED
    BY <1>1, <1>6, <2>6, <2>8
<1>7. ASSUME NEW id \in RatId, NEW s \in Start, Call(set_rat(id, s))
      PROVE  Calls
  <2>1. id \in 0 .. 11 /\ s \in Nat
    BY ArgumentAssumption
  <2>. QED
    BY <1>1, <1>7, <2>1, RunRat, FitRat
<1>8. ASSUME NEW id \in RatId, Call(set_rat_defaults(id))
      PROVE  Calls
  <2>1. id \in 0 .. 11
    BY ArgumentAssumption
  <2>. QED
    BY <1>1, <1>8, <2>1, RunRatDefaults, FitRatDefaults
<1>9. ASSUME NEW i \in CacheId, NEW s \in Start, NEW load \in Load,
             Call(setup_const_cache(i, s, load))
      PROVE  Calls
  <2>1. i \in 0 .. 15 /\ s \in Nat
    BY ArgumentAssumption
  <2>. QED
    BY <1>1, <1>9, <2>1, RunCache, FitCache
<1>10. ASSUME NEW id \in FetchId, NEW s \in Start, NEW hi \in {0, 511}, NEW load \in Load,
              Call(set_vtx_resource(id, s, hi, load))
       PROVE  Calls
  <2>1. id \in Nat /\ 816 <= id /\ id <= 991 /\ s \in Nat
    <3>1. id \in 816 .. 991 /\ s \in Nat
      BY ArgumentAssumption
    <3>. QED
      BY <3>1
  <2>. QED
    <3>1. Run(set_vtx_resource(id, s, hi, load), 32)
      BY <2>1, RunFetch, SMT
    <3>2. AllFit(set_vtx_resource(id, s, hi, load))
      BY <2>1, FitFetch, SMT
    <3>. QED
      BY <1>1, <1>10, <3>1, <3>2
<1>11. ASSUME NEW local \in LocalSize, Dispatch(direct_dispatch(local))
       PROVE  Calls
  <2>1. local \in Seq(Nat) /\ Product(local) \in Nat
    <3>1. local \in Seq(Nat)
      BY ArgumentAssumption
    <3>. QED
      BY <3>1, ProductReaches
  <2>2. Callable(direct_dispatch(local))
    BY <2>1, RunDispatch DEF Callable
  <2>. QED
    BY <1>2, <1>11, <2>2, FitDispatch
<1>. QED
  BY <1>3, <1>4, <1>5, <1>6, <1>7, <1>8, <1>9, <1>10, <1>11 DEF Next

LEMMA StepKeeps ==
  ASSUME IInv, VInv, FInv, [Next]_vars
  PROVE  IInv' /\ VInv' /\ FInv'
<1>1. CASE UNCHANGED vars
  <2>1. /\ todo' = todo /\ ib' = ib /\ regs' = regs /\ asked' = asked /\ started' = started
        /\ outside' = outside /\ calls' = calls
    BY <1>1 DEF vars
  <2>2. IInv'
    BY <2>1 DEF IInv, RegsSound, AskedSound
  <2>3. Ahead' = Ahead /\ (Launching' <=> Launching) /\ (Pending' <=> Pending)
    BY <2>1 DEF Ahead, Launching, Pending
  <2>4. \A k : Owed(k) => Owed(k)'
    BY <2>1, <2>3 DEF Owed
  <2>5. VInv'
    BY <2>1, <2>3, <2>4 DEF VInv
  <2>6. FInv'
    BY <2>1 DEF FInv, FitsInv, AskFits, TypeAsked
  <2>. QED
    BY <2>2, <2>5, <2>6
<1>2. CASE Calls
  <2>1. FInv'
    BY <1>2 DEF Calls, Queue, FInv, FitsInv, AskFits, TypeAsked
  <2>. QED
    BY <1>2, <2>1, QueueKeeps, QueueValues DEF Calls
<1>3. CASE write
  BY <1>3, WriteKeeps, WriteValues, WriteFields DEF FInv
<1>4. CASE cp_packet
  <2>1. FInv'
    BY <1>4 DEF cp_packet, FInv, FitsInv, AskFits, TypeAsked
  <2>. QED
    BY <1>4, <2>1, PacketKeeps, PacketValues
<1>5. calls \in Int
  BY ArgumentAssumption DEF IInv
<1>. QED
  BY <1>1, <1>2, <1>3, <1>4, <1>5, NextCases

LEMMA InitInv ==
  ASSUME Init
  PROVE  IInv /\ VInv /\ FInv
<1>1. Queued(todo) /\ Len(todo) = 0
  BY DEF Init, Queued, Settles
<1>2. Len(todo) <= Len(set_default_state)
  <2> DEFINE m == Len(set_default_state)
  <2>1. m \in Nat
    BY DefaultWrites DEF Ample
  <2>. HIDE DEF m
  <2>2. Len(todo) <= m
    BY <1>1, <2>1
  <2>. QED
    BY <2>2 DEF m
<1>3. Sound(ib) /\ RegsSound /\ AskedSound
  BY DEF Init, Sound, RegsSound, AskedSound
<1>4. calls \in 0 .. MaxCalls + 1
  <2>1. MaxCalls \in Nat
    BY ArgumentAssumption
  <2>. QED
    BY <2>1 DEF Init
<1>5. outside = FALSE /\ started \in BOOLEAN
  BY DEF Init
<1>6. VInv
  BY DEF Init, VInv, Launching, Pending
<1>7. FInv
  BY FitNone DEF Init, FInv, FitsInv
<1>. QED
  BY <1>1, <1>2, <1>3, <1>4, <1>5, <1>6, <1>7 DEF IInv

LEMMA Invariant ==
  Spec => [](IInv /\ VInv /\ FInv)
<1>1. Init => IInv /\ VInv /\ FInv
  BY InitInv
<1>2. IInv /\ VInv /\ FInv /\ [Next]_vars => (IInv /\ VInv /\ FInv)'
  BY StepKeeps
<1>. QED
  BY <1>1, <1>2, PTL DEF Spec

-----------------------------------------------------------------------------
(* The theorems.                                                           *)

(***************************************************************************)
(* Whatever calls a program makes, the command processor finds a header    *)
(* where it expects one and the whole packet behind it: the counts of      *)
(* packet0 and packet3, the dwords of set_regs and the relocations between *)
(* packets agree.                                                          *)
(***************************************************************************)
THEOREM InSyncCorrect == Spec => []InSync
<1>1. ASSUME IInv
      PROVE  InSync
  <2>1. ib # <<>> => \E h, b, r : Standing(h, b, r)
    BY <1>1, PacketStands DEF IInv
  <2>. QED
    BY <2>1 DEF InSync, Standing
<1>. QED
  BY <1>1, Invariant, PTL

(***************************************************************************)
(* No array that the setters index, and no burst of the default state,     *)
(* runs out of its register space, for every index from 0 up to what is    *)
(* asserted and any threads of a group.                                    *)
(***************************************************************************)
THEOREM StaysInSpaceCorrect == Spec => []StaysInSpace
<1>1. IInv => StaysInSpace
  BY DEF IInv, StaysInSpace
<1>. QED
  BY <1>1, Invariant, PTL

LEMMA ValuesHold ==
  ASSUME VInv
  PROVE  AsAsked
<1>. SUFFICES ASSUME started, NEW k \in DOMAIN asked
              PROVE  Holds(asked[k].at, asked[k].word)
  BY DEF AsAsked
<1>1. todo = <<>> /\ Launching /\ Ahead = regs
  BY DEF VInv, Launching, Ahead
<1>2. ~ Coming(Input, todo) /\ ~ Coming(Late, todo)
  BY <1>1 DEF Coming
<1>3. HoldsIn(regs, asked[k])
  BY <1>1, <1>2 DEF VInv, Owed
<1>. QED
  BY <1>3 DEF HoldsIn, Holds

\* The type of a buffer that is asked for says that it is one.
LEMMA BufferType == TypeField \subseteq Value(Field(30, 3))
<1>1. Ones(3) = {0, 1}
  <2>1. 2^0 = 1 /\ 2^1 = 2
    OBVIOUS
  <2>2. (3 \div 2^0) % 2 = 1 /\ (3 \div 2^1) % 2 = 1
    BY <2>1
  <2>3. {0, 1} \subseteq Ones(3)
    BY <2>2 DEF Ones
  <2>4. Ones(3) \subseteq 0 .. 1
    <3>1. 2 \in 0 .. 30 /\ 3 \in Nat /\ 3 < Power(2)
      BY PowersAre
    <3>. QED
      BY <3>1, OnesBelow
  <2>. QED
    BY <2>3, <2>4
<1>2. Placed(<<30, 3>>) = {30, 31}
  BY <1>1 DEF Placed
<1>3. Field(30, 3) = {<<30, 3>>}
  BY DEF Field
<1>. QED
  BY <1>2, <1>3 DEF Value, TypeField, Bit

LEMMA FieldsFit ==
  ASSUME IInv, FitsInv, AsAsked
  PROVE  WithinFields
<1>1. SUFFICES ASSUME started, NEW k \in DOMAIN asked, NEW f \in asked[k].word
               PROVE  Fits(f, asked[k].at)
  BY DEF WithinFields
<1> DEFINE r == asked[k].at
<1>2. r \in Nat /\ AskFits(asked, k)
  BY DEF IInv, AskedSound, FitsInv
<1>3. \E d \in FieldsAt(r, TRUE) : Placed(f) \subseteq d
  BY <1>1, <1>2 DEF AskFits, WordFits, FieldFits
<1>4. FieldsAt(r, TRUE) = FieldsAt(r, IsBuffer(r))
  <2>1. CASE r \in FetchResources
    <3> DEFINE t == <<"reg", TypeWord(r)>>
    <3>1. t \in DOMAIN asked /\ asked[t].at = TypeWord(r) /\ asked[t].word = Field(30, 3)
      BY <1>2, <2>1 DEF AskFits, TypeAsked
    <3>2. Holds(TypeWord(r), Field(30, 3))
      BY <1>1, <3>1 DEF AsAsked
    <3>3. TypeField \subseteq regs[TypeWord(r)]
      BY <3>2, BufferType DEF Holds
    <3>4. IsBuffer(r) = TRUE
      BY <3>3 DEF IsBuffer, TypeWord
    <3>. QED
      BY <3>4
  <2>2. CASE r \notin FetchResources
    BY <2>2 DEF FieldsAt
  <2>. QED
    BY <2>1, <2>2
<1>. QED
  BY <1>3, <1>4 DEF Fits

(***************************************************************************)
(* When the card starts a dispatch, each register has the value it was     *)
(* named with last, whatever was set after it, for every index from 0 up   *)
(* to what is asserted and any number of calls in any order: no element of *)
(* an array, no burst of the default state with the zeros at its end, and  *)
(* no surface sync takes it away for good.  The one burst that reaches     *)
(* over two registers with values is made up for: the default state sets   *)
(* the one again behind it, and every dispatch sets the other.             *)
(***************************************************************************)
THEOREM AsAskedCorrect == Spec => []AsAsked
<1>1. VInv => AsAsked
  BY ValuesHold
<1>. QED
  BY <1>1, Invariant, PTL

(***************************************************************************)
(* Each number that a setter or the default state puts into a register     *)
(* with shifts lies inside one field that the headers declare for it, for  *)
(* every index from 0 up to what is asserted and any order of the calls,   *)
(* as long as no group has more than 4095 threads, which nothing asserts:  *)
(* none runs into the next field, and a register no header declares gets   *)
(* zeros only.  The words of a resource are read as those of a buffer when *)
(* the dispatch starts, since its type is asked for with them.             *)
(***************************************************************************)
THEOREM WithinFieldsCorrect ==
  ASSUME GroupsFit
  PROVE  Spec => []WithinFields
<1>1. IInv /\ VInv /\ FInv => WithinFields
  BY ValuesHold, FieldsFit DEF FInv
<1>. QED
  BY <1>1, Invariant, PTL

\* Counts that fit their field, words of 32 bits and registers at addresses
\* the card has, in every state.
THEOREM RegisterTypeCorrect == Spec => []TypeOK
<1>1. ASSUME IInv
      PROVE  TypeOK
  <2>1. \A i \in DOMAIN ib : IF IsHeader(ib[i]) THEN ib[i].count \in 0 .. CountMod - 1
                           ELSE ib[i].v \subseteq Bit
    <3>1. ib \in Seq(Token)
      BY <1>1, SoundType DEF IInv
    <3>2. \A i \in 1 .. Len(ib) : ib[i] \in Token
      BY <3>1, ElementOfSeq
    <3>3. \A t \in Token : IF IsHeader(t) THEN t.count \in 0 .. CountMod - 1
                           ELSE t.v \subseteq Bit
      BY SMT DEF Token, WordToken, Word32, IsHeader
    <3>4. DOMAIN ib = 1 .. Len(ib)
      BY <3>1
    <3>. QED
      BY <3>2, <3>3, <3>4
  <2>2. \A r \in DOMAIN regs : r \in 0 .. LastAddress /\ r % 4 = 0 /\ regs[r] \subseteq Bit
    <3>1. RegsSound
      BY <1>1 DEF IInv
    <3>. QED
      BY <3>1 DEF RegsSound, Address, Word32
  <2>3. \A k \in DOMAIN asked : asked[k].at \in Nat /\ asked[k].word \subseteq Bit \X Int
    BY <1>1 DEF IInv, AskedSound, Val
  <2>4. outside \in BOOLEAN /\ started \in BOOLEAN /\ calls \in 0 .. MaxCalls + 1
    BY <1>1 DEF IInv
  <2>5. Len(todo) <= Len(set_default_state)
    BY <1>1 DEF IInv
  <2>. DEFINE Headers == \A i \in DOMAIN ib :
                           IF IsHeader(ib[i]) THEN ib[i].count \in 0 .. CountMod - 1
                           ELSE ib[i].v \subseteq Bit
             Registers == \A r \in DOMAIN regs :
                             r \in 0 .. LastAddress /\ r % 4 = 0 /\ regs[r] \subseteq Bit
             Arguments == \A k \in DOMAIN asked :
                             asked[k].at \in Nat /\ asked[k].word \subseteq Bit \X Int
             Counters == outside \in BOOLEAN /\ started \in BOOLEAN /\ calls \in 0 .. MaxCalls + 1
             Few == Len(todo) <= Len(set_default_state)
  <2>6. TypeOK <=> Headers /\ Registers /\ Arguments /\ Counters /\ Few
    BY Zenon DEF TypeOK
  <2>. QED
    BY <2>1, <2>2, <2>3, <2>4, <2>5, <2>6
<1>. QED
  BY <1>1, Invariant, PTL
=============================================================================
