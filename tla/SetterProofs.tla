----------------------------- MODULE SetterProofs ----------------------------
(***************************************************************************)
(* Proofs about the writes of Setters and DefaultState: each becomes one   *)
(* packet, which the command processor reads as it was meant; each stays   *)
(* in one register space; and each leaves the registers that other names   *)
(* stand for as they are.                                                  *)
(***************************************************************************)
EXTENDS Setters, WellFoundedInduction, SequenceTheorems, FiniteSetTheorems, TLAPS

-----------------------------------------------------------------------------
(* Numbers and their bits.                                                 *)

\* The provers know powers of numbers only.
LEMMA Doubled ==
  ASSUME NEW b \in 0 .. 30
  PROVE  2^b \in Nat \ {0} /\ 2^(b + 1) = 2 * 2^b
<1>0. CASE b = 0
  BY <1>0
<1>1. CASE b = 1
  BY <1>1
<1>2. CASE b = 2
  BY <1>2
<1>3. CASE b = 3
  BY <1>3
<1>4. CASE b = 4
  BY <1>4
<1>5. CASE b = 5
  BY <1>5
<1>6. CASE b = 6
  BY <1>6
<1>7. CASE b = 7
  BY <1>7
<1>8. CASE b = 8
  BY <1>8
<1>9. CASE b = 9
  BY <1>9
<1>10. CASE b = 10
  BY <1>10
<1>11. CASE b = 11
  BY <1>11
<1>12. CASE b = 12
  BY <1>12
<1>13. CASE b = 13
  BY <1>13
<1>14. CASE b = 14
  BY <1>14
<1>15. CASE b = 15
  BY <1>15
<1>16. CASE b = 16
  BY <1>16
<1>17. CASE b = 17
  BY <1>17
<1>18. CASE b = 18
  BY <1>18
<1>19. CASE b = 19
  BY <1>19
<1>20. CASE b = 20
  BY <1>20
<1>21. CASE b = 21
  BY <1>21
<1>22. CASE b = 22
  BY <1>22
<1>23. CASE b = 23
  BY <1>23
<1>24. CASE b = 24
  BY <1>24
<1>25. CASE b = 25
  BY <1>25
<1>26. CASE b = 26
  BY <1>26
<1>27. CASE b = 27
  BY <1>27
<1>28. CASE b = 28
  BY <1>28
<1>29. CASE b = 29
  BY <1>29
<1>30. CASE b = 30
  BY <1>30
<1>. QED
  BY <1>0, <1>1, <1>2, <1>3, <1>4, <1>5, <1>6, <1>7, <1>8, <1>9, <1>10, <1>11, <1>12, <1>13,
     <1>14, <1>15, <1>16, <1>17, <1>18, <1>19, <1>20, <1>21, <1>22, <1>23, <1>24, <1>25,
     <1>26, <1>27, <1>28, <1>29, <1>30

\* Some number of a set is the least.
LEMMA Least ==
  ASSUME NEW T \in SUBSET Nat, T # {}
  PROVE  \E n \in T : \A m \in T : ~ (m < n)
<1>1. PICK n \in T : \A m \in T : ~ (<<m, n>> \in OpToRel(<, Nat))
  BY NatLessThanWellFounded, WFMin
<1>. QED
  BY <1>1 DEF OpToRel

LEMMA Smaller ==
  ASSUME NEW S, IsFiniteSet(S), NEW s \in SUBSET S, NEW x \in s
  PROVE  /\ s \ {x} \in SUBSET S /\ Cardinality(s) \in Nat /\ Cardinality(s \ {x}) \in Nat
         /\ Cardinality(s \ {x}) = Cardinality(s) - 1
<1>1. IsFiniteSet(s)
  BY FS_Subset
<1>. QED
  BY <1>1, FS_RemoveElement, FS_CardinalityType

\* What a bit adds to the number above it.
LEMMA Halved ==
  ASSUME NEW n \in Nat, NEW w \in Nat \ {0}
  PROVE  n \div w = 2 * (n \div (2 * w)) + ((n \div w) % 2)
<1> DEFINE q == n \div w
           r == n % w
           p == q \div 2
           s == q % 2
<1>1. q \in Nat /\ r \in 0 .. w - 1 /\ n = w * q + r
  OBVIOUS
<1>2. p \in Nat /\ s \in 0 .. 1 /\ q = 2 * p + s
  BY <1>1
<1>. HIDE DEF p, s, q, r
<1>3. n = (2 * w) * p + (w * s + r)
  BY <1>1, <1>2
<1>4. w * s + r \in 0 .. 2 * w - 1
  <2>1. CASE s = 0
    BY <1>1, <2>1
  <2>2. CASE s = 1
    BY <1>1, <2>2
  <2>. QED
    BY <1>2, <2>1, <2>2
<1>5. n \div (2 * w) = p
  <2> DEFINE u == 2 * w
             x == w * s + r
  <2>1. u \in Nat \ {0} /\ x \in 0 .. u - 1 /\ n = u * p + x
    BY <1>3, <1>4
  <2>. HIDE DEF u, x
  <2>2. n \div u = p
    BY <1>2, <2>1
  <2>. QED
    BY <2>2 DEF u
<1>. QED
  BY <1>2, <1>5 DEF q, s

\* f is what the upper bits of a number make, for 0 to m of them.
UpperBits(f, bits, m) ==
  f = [n \in 0 .. m |->
         IF n = 0 THEN 0 ELSE 2 * f[n - 1] + (IF 31 - n \in bits THEN 1 ELSE 0)]

LEMMA UpperBitsOf ==
  ASSUME NEW k \in Nat, k < 2^31
  PROVE  UpperBits([n \in 0 .. 31 |-> k \div 2^(31 - n)], Ones(k), 31)
<1> DEFINE g == [n \in 0 .. 31 |-> k \div 2^(31 - n)]
<1>1. g[0] = 0
  <2>1. k \div 2^31 = 0
    OBVIOUS
  <2>2. 31 - 0 = 31 /\ 0 \in 0 .. 31
    OBVIOUS
  <2>. QED
    BY <2>1, <2>2
<1>2. ASSUME NEW n \in 1 .. 31
      PROVE  g[n] = 2 * g[n - 1] + (IF 31 - n \in Ones(k) THEN 1 ELSE 0)
  <2> DEFINE b == 31 - n
             w == 2^b
             d == k \div w
  <2>1. b \in 0 .. 30 /\ 31 - (n - 1) = b + 1 /\ n \in 0 .. 31 /\ n - 1 \in 0 .. 31
    OBVIOUS
  <2>2. w \in Nat \ {0} /\ 2^(b + 1) = 2 * w
    BY <2>1, Doubled
  <2>3. g[n] = d /\ g[n - 1] = k \div (2 * w)
    BY <2>1, <2>2
  <2>4. b \in Ones(k) <=> d % 2 = 1
    BY <2>1 DEF Ones
  <2>5. d \in Nat /\ d = 2 * (k \div (2 * w)) + (d % 2)
    <3>1. k \in Nat
      OBVIOUS
    <3>. HIDE DEF w
    <3>2. d \in Nat
      BY <2>2, <3>1
    <3>. QED
      BY <2>2, <3>1, <3>2, Halved
  <2>. HIDE DEF d, w
  <2>6. d % 2 = 0 \/ d % 2 = 1
    BY <2>5
  <2>7. d = 2 * (k \div (2 * w)) + (IF b \in Ones(k) THEN 1 ELSE 0)
    BY <2>4, <2>5, <2>6
  <2>. QED
    BY <2>3, <2>7
<1>3. \A n \in 0 .. 31 :
        g[n] = IF n = 0 THEN 0 ELSE 2 * g[n - 1] + (IF 31 - n \in Ones(k) THEN 1 ELSE 0)
  <2>. SUFFICES ASSUME NEW n \in 0 .. 31
                PROVE  g[n] = IF n = 0 THEN 0
                              ELSE 2 * g[n - 1] + (IF 31 - n \in Ones(k) THEN 1 ELSE 0)
    OBVIOUS
  <2>1. n = 0 \/ n \in 1 .. 31
    OBVIOUS
  <2>. HIDE DEF g
  <2>. QED
    BY <1>1, <1>2, <2>1
<1>4. g = [n \in 0 .. 31 |-> g[n]]
  OBVIOUS
<1>. HIDE DEF g
<1>5. UpperBits(g, Ones(k), 31)
  BY <1>3, <1>4 DEF UpperBits
<1>. QED
  BY <1>5 DEF g

LEMMA UpperBitsSame ==
  ASSUME NEW bits, NEW f, NEW g, UpperBits(f, bits, 31), UpperBits(g, bits, 31)
  PROVE  f[31] = g[31]
<1> DEFINE Bad == {n \in 0 .. 31 : f[n] # g[n]}
<1>1. /\ \A n \in 0 .. 31 : f[n] = IF n = 0 THEN 0
                   ELSE 2 * f[n - 1] + (IF 31 - n \in bits THEN 1 ELSE 0)
      /\ \A n \in 0 .. 31 : g[n] = IF n = 0 THEN 0
                   ELSE 2 * g[n - 1] + (IF 31 - n \in bits THEN 1 ELSE 0)
  BY DEF UpperBits
<1>. SUFFICES ASSUME Bad # {} PROVE FALSE
  OBVIOUS
<1>2. PICK n \in Bad : \A i \in Bad : ~ (i < n)
  <2>1. Bad \in SUBSET Nat
    OBVIOUS
  <2>. HIDE DEF Bad
  <2>. QED
    BY <2>1, Least
<1>3. n \in 0 .. 31 /\ n # 0
  BY <1>1
<1>4. n - 1 \in 0 .. 31 /\ n - 1 < n
  BY <1>3
<1>5. f[n - 1] = g[n - 1]
  BY <1>2, <1>4
<1>. QED
  BY <1>1, <1>2, <1>3, <1>5

\* A number survives its way through the bits of a dword.
LEMMA NumberOfOnes ==
  ASSUME NEW k \in Nat, k < 2^31
  PROVE  Number(Ones(k)) = k
<1> DEFINE f == CHOOSE f : UpperBits(f, Ones(k), 31)
           g == [n \in 0 .. 31 |-> k \div 2^(31 - n)]
<1>1. UpperBits(g, Ones(k), 31)
  BY UpperBitsOf
<1>2. UpperBits(f, Ones(k), 31)
  <2>. HIDE DEF g
  <2>. QED
    BY <1>1
<1>3. Number(Ones(k)) = f[31]
  BY DEF Number, UpperBits
<1>4. g[31] = k
  <2>1. 31 - 31 = 0 /\ 2^0 = 1 /\ 31 \in 0 .. 31
    OBVIOUS
  <2>. QED
    BY <2>1
<1>. HIDE DEF f, g
<1>. QED
  BY <1>1, <1>2, <1>3, <1>4, UpperBitsSame

-----------------------------------------------------------------------------
(* Packets.                                                                *)

Word32 == SUBSET Bit
Op == {s.op : s \in Space}
        \cup {"SURFACE_SYNC", "CONTEXT_CONTROL", "DISPATCH_DIRECT", "NOP"}
WordToken == [is : {"word"}, v : Word32]
Token == [is : {"packet3"}, op : Op, count : 0 .. CountMod - 1] \cup WordToken

\* One space, and one kind of packet, for each register that has any.
LEMMA Spaces ==
  /\ \A s \in Space : /\ s.op # "SURFACE_SYNC" /\ s.op # "NOP"
                      /\ s.op # "CONTEXT_CONTROL" /\ s.op # "DISPATCH_DIRECT"
                      /\ s.lo \in Nat /\ s.hi \in Nat /\ s.lo % 4 = 0
                      /\ s.hi <= 262144 /\ s.hi - s.lo <= 32768
  /\ \A s, t \in Space : s.op = t.op => s = t
  /\ \A s, t \in Space, r \in Nat :
       s.lo <= r /\ r < s.hi /\ t.lo <= r /\ r < t.hi => s = t
<1>1. \A s \in Space : /\ s.op # "SURFACE_SYNC" /\ s.op # "NOP"
                      /\ s.op # "CONTEXT_CONTROL" /\ s.op # "DISPATCH_DIRECT"
  BY DEF Space
<1>2. \A s \in Space : /\ s.lo \in Nat /\ s.hi \in Nat /\ s.lo % 4 = 0
                      /\ s.hi <= 262144 /\ s.hi - s.lo <= 32768
  BY DEF Space
<1>3. \A s, t \in Space : s.op = t.op => s = t
  BY DEF Space
<1>4. \A s, t \in Space, r \in Nat :
        s.lo <= r /\ r < s.hi /\ t.lo <= r /\ r < t.hi => s = t
  BY DEF Space
<1>. QED
  BY <1>1, <1>2, <1>3, <1>4

LEMMA WordType ==
  ASSUME NEW v \in Word32
  PROVE  Word(v) \in WordToken /\ Word(v).v = v
  BY DEF Word, WordToken

LEMMA WordsType ==
  ASSUME NEW vals \in Seq(Word32)
  PROVE  /\ Words(vals) \in Seq(WordToken) /\ Len(Words(vals)) = Len(vals)
         /\ \A i \in 1 .. Len(vals) : Words(vals)[i] = Word(vals[i])
<1>1. \A i \in 1 .. Len(vals) : Word(vals[i]) \in WordToken
  BY ElementOfSeq, WordType
<1>2. /\ Words(vals) = [i \in 1 .. Len(vals) |-> Word(vals[i])]
      /\ Len(vals) \in Nat
  BY DEF Words
<1>. QED
  BY <1>1, <1>2

\* What the proofs need of the width of the count field.
LEMMA CountModNat == CountMod \in Nat /\ 33 <= CountMod
  BY DEF CountMod

LEMMA HeaderType ==
  ASSUME NEW op \in Op, NEW n \in 1 .. CountMod
  PROVE  /\ Header3(op, n) \in Token /\ IsHeader(Header3(op, n))
         /\ Header3(op, n).op = op /\ Header3(op, n).count = n - 1
         /\ Header3(op, n).is = "packet3"
<1>1. (n - 1) % CountMod = n - 1 /\ n - 1 \in 0 .. CountMod - 1
  BY CountModNat
<1>. QED
  BY <1>1 DEF Header3, Token, IsHeader

\* A packet and what comes behind it, as the command processor takes them apart.
LEMMA Apart ==
  ASSUME NEW h \in Token, IsHeader(h), NEW b \in Seq(Token), NEW r \in Seq(Token),
         h.count = Len(b) - 1
  PROVE  LET e == (<<h>> \o b) \o r
         IN  /\ e \in Seq(Token) /\ e # <<>> /\ Head(e) = h
             /\ Extent(e) = Len(b) + 1 /\ Extent(e) <= Len(e)
             /\ Body(e) = b /\ Behind(e) = r
<1> DEFINE p == <<h>> \o b
           e == p \o r
           n == Len(b)
           m == Len(r)
<1>1. n \in Nat /\ m \in Nat
  OBVIOUS
<1>2. /\ p \in Seq(Token) /\ Len(p) = n + 1 /\ p[1] = h
      /\ \A i \in 1 .. n : p[i + 1] = b[i]
  OBVIOUS
<1>. HIDE DEF p
<1>3. /\ e \in Seq(Token) /\ Len(e) = n + 1 + m
      /\ \A i \in 1 .. n + 1 : e[i] = p[i]
      /\ \A i \in 1 .. m : e[n + 1 + i] = r[i]
  <2>1. /\ e \in Seq(Token) /\ Len(e) = Len(p) + Len(r)
        /\ \A i \in 1 .. Len(p) + Len(r) : e[i] = IF i <= Len(p) THEN p[i] ELSE r[i - Len(p)]
    BY <1>2, ConcatProperties
  <2>. HIDE DEF e, n, m
  <2>2. /\ e \in Seq(Token) /\ Len(e) = n + 1 + m
        /\ \A i \in 1 .. n + 1 + m : e[i] = IF i <= n + 1 THEN p[i] ELSE r[i - (n + 1)]
    BY <1>2, <2>1 DEF m
  <2>3. ASSUME NEW i \in 1 .. m
        PROVE  e[n + 1 + i] = r[i]
    <3> DEFINE j == n + 1 + i
    <3>1. j \in 1 .. n + 1 + m /\ ~ (j <= n + 1) /\ j - (n + 1) = i
      BY <1>1
    <3>. HIDE DEF j
    <3>2. e[j] = r[j - (n + 1)]
      BY <2>2, <3>1
    <3>. QED
      BY <3>1, <3>2 DEF j
  <2>4. ASSUME NEW i \in 1 .. n + 1
        PROVE  e[i] = p[i]
    <3>1. i \in 1 .. n + 1 + m /\ i <= n + 1
      BY <1>1
    <3>. QED
      BY <2>2, <3>1
  <2>. QED
    BY <2>2, <2>3, <2>4
<1>. HIDE DEF e
<1>4. e # <<>> /\ Head(e) = h
  BY <1>1, <1>2, <1>3
<1>5. Extent(e) = n + 1 /\ Extent(e) <= Len(e)
  BY <1>1, <1>3, <1>4 DEF Extent
<1>6. Body(e) = b
  <2>1. /\ SubSeq(e, 2, n + 1) \in Seq(Token) /\ Len(SubSeq(e, 2, n + 1)) = n
        /\ \A i \in 1 .. n : SubSeq(e, 2, n + 1)[i] = e[i + 1]
    BY <1>1, <1>3
  <2>2. \A i \in 1 .. n : e[i + 1] = b[i]
    BY <1>1, <1>2, <1>3
  <2>. QED
    BY <1>5, <2>1, <2>2, SeqEqual DEF Body
<1>7. Behind(e) = r
  <2>1. /\ SubSeq(e, n + 2, Len(e)) \in Seq(Token) /\ Len(SubSeq(e, n + 2, Len(e))) = m
        /\ \A i \in 1 .. m : SubSeq(e, n + 2, Len(e))[i] = e[n + 1 + i]
    BY <1>1, <1>3
  <2>. QED
    BY <1>1, <1>3, <1>5, <2>1, SeqEqual DEF Behind
<1>. QED
  BY <1>3, <1>4, <1>5, <1>6, <1>7 DEF e, p

\* What a packet may write: registers of one space.
OneSpace(f) ==
  \E s \in Space : \A x \in DOMAIN f :
    s.lo <= x /\ x < s.hi /\ x \in Nat /\ x % 4 = 0 /\ f[x] \in Word32

SoundPacket(h, b) ==
  /\ h \in Token /\ IsHeader(h)
  /\ b \in Seq(WordToken) /\ h.count = Len(b) - 1
  /\ WritesRegisters(h) => OneSpace(Written(h, b))

\* Consecutive registers from one of a space on.
LEMMA WrittenInSpace ==
  ASSUME NEW h, NEW b, NEW s \in Space, NEW first \in Nat, NEW vals \in Seq(WordToken),
         FirstRegister(h, b) = first, Values(h, b) = vals, first % 4 = 0,
         s.lo <= first, first + 4 * Len(vals) <= s.hi
  PROVE  OneSpace(Written(h, b))
<1> DEFINE f == Written(h, b)
<1>1. f = [r \in {first + 4 * (i - 1) : i \in DOMAIN vals} |->
             vals[(r - first) \div 4 + 1].v]
  BY DEF Written
<1>2. ASSUME NEW x \in DOMAIN f
      PROVE  s.lo <= x /\ x < s.hi /\ x \in Nat /\ x % 4 = 0 /\ f[x] \in Word32
  <2>0. x \in {first + 4 * (i - 1) : i \in DOMAIN vals} /\ DOMAIN vals = 1 .. Len(vals)
    BY <1>1
  <2>1. PICK i \in 1 .. Len(vals) : x = first + 4 * (i - 1)
    BY <2>0
  <2>2. (x - first) \div 4 + 1 = i
    BY <2>1
  <2>3. vals[i] \in WordToken
    BY <2>1, ElementOfSeq
  <2>4. f[x] = vals[i].v
    BY <1>1, <2>2
  <2>5. f[x] \in Word32
    BY <2>3, <2>4 DEF WordToken
  <2>6. s.lo \in Nat /\ s.hi \in Nat /\ Len(vals) \in Nat
    BY Spaces
  <2>. QED
    BY <2>1, <2>5, <2>6
<1>. QED
  BY <1>2 DEF OneSpace

\* Values in consecutive registers.
Filled(at, vals) ==
  [r \in {at + 4 * (i - 1) : i \in DOMAIN vals} |-> vals[(r - at) \div 4 + 1]]

LEMMA WrittenFills ==
  ASSUME NEW h, NEW b, NEW at \in Nat, NEW vals \in Seq(Word32),
         FirstRegister(h, b) = at, Values(h, b) = Words(vals)
  PROVE  Written(h, b) = Filled(at, vals)
<1> DEFINE ws == Words(vals)
           S == {at + 4 * (i - 1) : i \in DOMAIN vals}
<1>1. /\ DOMAIN ws = DOMAIN vals /\ DOMAIN vals = 1 .. Len(vals)
      /\ \A i \in DOMAIN vals : ws[i].v = vals[i]
  BY DEF Words, Word
<1>. HIDE DEF ws
<1>2. Written(h, b) = [r \in S |-> ws[(r - at) \div 4 + 1].v]
  BY <1>1 DEF Written, ws
<1>3. ASSUME NEW r \in S
      PROVE  ws[(r - at) \div 4 + 1].v = vals[(r - at) \div 4 + 1]
  <2>1. PICK i \in 1 .. Len(vals) : r = at + 4 * (i - 1)
    BY <1>1
  <2>2. (r - at) \div 4 + 1 = i
    BY <2>1
  <2>. QED
    BY <1>1, <2>1, <2>2
<1>. QED
  BY <1>2, <1>3 DEF Filled

\* What the setters write, as far as packets are concerned.
Inside(s, at, n) == s.lo <= at /\ at + 4 * n <= s.hi
InSpace(at, n) == \E s \in Space : Inside(s, at, n)

Val == SUBSET (Bit \X Int)

\* The names setters give registers.
Name ==
  {"reg", "COHER", "BASE", "IMMED", "INFO", "ATTRIB", "DIM", "CMASK", "FMASK", "PITCH",
   "SLICE", "VIEW", "CMASK_SLICE", "FMASK_SLICE", "CLEAR_WORD", "CACHE_SIZE",
   "CACHE_BASE", "FETCH", "LOOP"}

RawWrite ==
  [op : {"SET", "SURFACE_SYNC", "CONTEXT_CONTROL", "DISPATCH_DIRECT"},
   key : Name \X Int, at : Nat, words : Seq(Val), reloc : BOOLEAN]

FormedWrite ==
  {w \in RawWrite :
     /\ Len(w.words) \in 1 .. 32 /\ w.at % 4 = 0
     /\ w.op = "SET" => InSpace(w.at, Len(w.words))
     /\ w.op = "SURFACE_SYNC" => Len(w.words) = 3 /\ w.at = CP_COHER_CNTL}

LEMMA Names ==
  /\ "reg" \in Name /\ "COHER" \in Name /\ "BASE" \in Name /\ "IMMED" \in Name
  /\ "INFO" \in Name /\ "ATTRIB" \in Name /\ "DIM" \in Name /\ "CMASK" \in Name
  /\ "FMASK" \in Name /\ "PITCH" \in Name /\ "SLICE" \in Name /\ "VIEW" \in Name
  /\ "CMASK_SLICE" \in Name /\ "FMASK_SLICE" \in Name /\ "CLEAR_WORD" \in Name
  /\ "CACHE_SIZE" \in Name /\ "CACHE_BASE" \in Name /\ "FETCH" \in Name
  /\ "LOOP" \in Name
  BY DEF Name

\* The count of a burst with its offset fits the header.
LEMMA CountFits == \A n \in 1 .. 32 : n + 1 \in 1 .. CountMod /\ n + 1 - 1 = n
  BY CountModNat

\* The offset into a space that packet0 writes, and what the card makes of it.
Offset(s, at) == (at - s.lo) \div 4

Reached(s, at, n, k) ==
  Inside(s, at, n) /\ k = Offset(s, at) /\ k <= 8192 /\ s.lo + 4 * k = at

LEMMA OffsetFits ==
  ASSUME NEW at \in Nat, NEW n \in 1 .. 32, at % 4 = 0, InSpace(at, n)
  PROVE  \E s \in Space, k \in Nat : Reached(s, at, n, k)
<1>1. PICK s \in Space : Inside(s, at, n)
  BY DEF InSpace
<1> DEFINE lo == s.lo
           hi == s.hi
<1>2. /\ lo \in Nat /\ hi \in Nat /\ lo % 4 = 0 /\ hi - lo <= 32768
      /\ lo <= at /\ at + 4 * n <= hi
  BY <1>1, Spaces DEF Inside
<1>. HIDE DEF lo, hi
<1>3. (at - lo) \div 4 \in Nat /\ (at - lo) \div 4 <= 8192 /\ lo + 4 * ((at - lo) \div 4) = at
  BY <1>2, SMT
<1> DEFINE k == (at - lo) \div 4
<1>4. k = Offset(s, at)
  BY DEF Offset, lo
<1>. HIDE DEF k
<1>5. k \in Nat /\ k <= 8192 /\ s.lo + 4 * k = at
  BY <1>2, <1>3 DEF lo, k
<1>. QED
  BY <1>1, <1>4, <1>5 DEF Reached

LEMMA FirstRegisterIs ==
  ASSUME NEW s \in Space, NEW k \in Nat, k <= 8192, NEW h, NEW b,
         h.is = "packet3", h.op = s.op, b[1].v = Ones(k)
  PROVE  FirstRegister(h, b) = s.lo + 4 * k
<1> DEFINE c == CHOOSE t \in Space : t.op = h.op
<1>1. c = s /\ s.lo \in Nat
  BY Spaces
<1>2. h.op # "SURFACE_SYNC"
  BY Spaces
<1>3. Number(b[1].v) = k
  <2>1. k < 2^31
    OBVIOUS
  <2>2. Number(Ones(k)) = k
    BY <2>1, NumberOfOnes
  <2>. QED
    BY <2>2
<1>4. FirstRegister(h, b) = c.lo + 4 * Number(b[1].v)
  BY <1>2 DEF FirstRegister
<1>. HIDE DEF c
<1>5. c.lo = s.lo
  BY <1>1
<1>. QED
  BY <1>1, <1>3, <1>4, <1>5

LEMMA FrontMoved ==
  ASSUME NEW S, NEW h \in S, NEW o \in S, NEW ws \in Seq(S)
  PROVE  <<h, o>> \o ws = <<h>> \o (<<o>> \o ws)
<1> DEFINE x == <<h, o>> \o ws
           y == <<o>> \o ws
           z == <<h>> \o y
           n == Len(ws)
<1>1. /\ x \in Seq(S) /\ Len(x) = n + 2 /\ n \in Nat
      /\ x[1] = h /\ x[2] = o /\ \A i \in 1 .. n : x[i + 2] = ws[i]
  OBVIOUS
<1>2. /\ y \in Seq(S) /\ Len(y) = n + 1
      /\ y[1] = o /\ \A i \in 1 .. n : y[i + 1] = ws[i]
  OBVIOUS
<1>. HIDE DEF y
<1>3. /\ z \in Seq(S) /\ Len(z) = n + 2
      /\ z[1] = h /\ \A i \in 1 .. n + 1 : z[i + 1] = y[i]
  BY <1>1, <1>2
<1>. HIDE DEF x, z, n
<1>4. ASSUME NEW i \in 1 .. n + 2
      PROVE  x[i] = z[i]
  <2>1. CASE i = 1
    BY <1>1, <1>3, <2>1
  <2>2. CASE i = 2
    <3>1. z[1 + 1] = y[1]
      BY <1>1, <1>3
    <3>. QED
      BY <1>1, <1>2, <2>2, <3>1
  <2>3. CASE i > 2
    <3> DEFINE j == i - 2
    <3>1. j \in 1 .. n /\ j + 1 \in 1 .. n + 1 /\ i = j + 2 /\ i = (j + 1) + 1
      BY <1>1, <2>3
    <3>. HIDE DEF j
    <3>2. x[i] = ws[j]
      BY <1>1, <3>1
    <3>3. z[i] = y[j + 1] /\ y[j + 1] = ws[j]
      BY <1>2, <1>3, <3>1
    <3>. QED
      BY <3>2, <3>3
  <2>. QED
    BY <1>1, <2>1, <2>2, <2>3
<1>5. x = z
  BY <1>1, <1>3, <1>4, SeqEqual
<1>. QED
  BY <1>5 DEF x, y, z

\* packet0 and set_regs: the offset they give is the one the card adds up.
Vector(vals, n) == vals \in Seq(Word32) /\ Len(vals) = n

LEMMA SetRegsPacket ==
  ASSUME NEW at \in Nat, NEW n \in 1 .. 32, NEW vals, Vector(vals, n),
         at % 4 = 0, InSpace(at, n)
  PROVE  \E h, b : /\ SoundPacket(h, b) /\ set_regs(at, vals) = <<h>> \o b
                    /\ WritesRegisters(h) /\ Written(h, b) = Filled(at, vals)
<1>0. PICK s \in Space, k \in Nat : Reached(s, at, n, k)
  BY OffsetFits
<1>1. Inside(s, at, n) /\ k = Offset(s, at) /\ k <= 8192 /\ s.lo + 4 * k = at
  BY <1>0 DEF Reached
<1>2. /\ s.lo \in Nat /\ s.hi \in Nat /\ s.lo % 4 = 0 /\ s.hi - s.lo <= 32768
      /\ s.op # "SURFACE_SYNC" /\ s.op \in Op
  BY Spaces DEF Op
<1>3. SpacesOf(at) = {s}
  <2>1. s.lo <= at /\ at < s.hi
    BY <1>1, <1>2 DEF Inside
  <2>. QED
    BY <1>1, <2>1, Spaces DEF SpacesOf
<1>4. SpacesOf(at) # {} /\ (CHOOSE t \in SpacesOf(at) : TRUE) = s
  BY <1>3
<1> DEFINE h == Header3(s.op, n + 1)
           o == Word(Ones(k))
           ws == Words(vals)
           b == <<o>> \o ws
<1>6. packet0(at, n) = <<h, o>>
  <2>1. (at - s.lo) \div 4 = k
    BY <1>1 DEF Offset
  <2>2. packet0(at, n) = <<Header3(s.op, n + 1), Word(Ones((at - s.lo) \div 4))>>
    BY Zenon, <1>4 DEF packet0
  <2>. QED
    BY <2>1, <2>2
<1>7. o \in WordToken /\ o.v = Ones(k)
  <2>1. Ones(k) \in Word32
    BY DEF Ones, Word32, Bit
  <2>. QED
    BY <2>1, WordType
<1>8. h \in Token /\ IsHeader(h) /\ h.op = s.op /\ h.count = n /\ h.is = "packet3"
  <2>1. n + 1 \in 1 .. CountMod /\ n + 1 - 1 = n
    BY CountFits
  <2>. QED
    BY <1>2, <2>1, HeaderType
<1>9. ws \in Seq(WordToken) /\ Len(ws) = n
  BY WordsType DEF Vector
<1>. HIDE DEF h, o, ws
<1>10. b \in Seq(WordToken) /\ Len(b) = n + 1 /\ b[1] = o /\ Tail(b) = ws
  <2>1. /\ b \in Seq(WordToken) /\ Len(b) = n + 1 /\ b[1] = o
        /\ \A i \in 1 .. n : b[i + 1] = ws[i]
    BY <1>7, <1>9
  <2>. HIDE DEF b
  <2>2. b # <<>> /\ Len(b) - 1 = n
    BY <2>1
  <2>3. /\ Tail(b) \in Seq(WordToken) /\ Len(Tail(b)) = Len(b) - 1
        /\ \A i \in 1 .. Len(Tail(b)) : Tail(b)[i] = b[i + 1]
    BY <2>1, <2>2, HeadTailProperties
  <2>. QED
    BY <1>9, <2>1, <2>2, <2>3, SeqEqual
<1>11. set_regs(at, vals) = <<h>> \o b
  <2>1. set_regs(at, vals) = <<h, o>> \o ws
    BY <1>6 DEF set_regs, ws, Vector
  <2>2. o \in Token /\ ws \in Seq(Token)
    <3>1. WordToken \subseteq Token
      BY DEF Token
    <3>. QED
      BY <1>7, <1>9, <3>1, SeqMonotonic
  <2>3. <<h, o>> \o ws = <<h>> \o (<<o>> \o ws)
    BY <1>8, <2>2, FrontMoved
  <2>. QED
    BY <2>1, <2>3
<1>. HIDE DEF b
<1>12. FirstRegister(h, b) = at
  <2>1. FirstRegister(h, b) = s.lo + 4 * k
    <3>1. b[1].v = Ones(k)
      BY <1>7, <1>10
    <3>. QED
      BY <1>1, <1>8, <3>1, FirstRegisterIs
  <2>. QED
    BY <1>1, <2>1
<1>13. Values(h, b) = ws
  BY <1>2, <1>8, <1>10 DEF Values
<1>14. OneSpace(Written(h, b))
  <2>1. s.lo <= at /\ at + 4 * Len(ws) <= s.hi
    BY <1>1, <1>9 DEF Inside
  <2>. QED
    BY <1>9, <1>12, <1>13, <2>1, WrittenInSpace
<1>15. SoundPacket(h, b)
  <2> DEFINE count == h.count
             length == Len(b)
  <2>2. count = n /\ length = n + 1
    BY <1>8, <1>10
  <2>. HIDE DEF count, length
  <2>4. count = length - 1
    BY <2>2
  <2>3. h.count = Len(b) - 1
    BY Zenon, <2>4 DEF count, length
  <2>. QED
    BY Zenon, <1>8, <1>10, <1>14, <2>3 DEF SoundPacket
<1>16. Written(h, b) = Filled(at, vals)
  BY <1>12, <1>13, WrittenFills DEF Vector, ws
<1>17. WritesRegisters(h)
  BY <1>8 DEF WritesRegisters
<1>. QED
  BY <1>11, <1>15, <1>16, <1>17

\* What stands in the stream after one write: a packet, and perhaps a relocation.
Sound(e) ==
  \/ e = <<>>
  \/ \E h, b, r : SoundPacket(h, b) /\ r \in {<<>>, Reloc} /\ e = (<<h>> \o b) \o r

LEMMA FirstThree ==
  ASSUME NEW vals \in Seq(Word32), Len(vals) = 4
  PROVE  /\ SubSeq(vals, 1, 3) \in Seq(Word32)
         /\ SubSeq(Words(vals), 1, 3) = Words(SubSeq(vals, 1, 3))
<1> DEFINE b == Words(vals)
           us == SubSeq(vals, 1, 3)
           vs == SubSeq(b, 1, 3)
           xs == Words(us)
<1>1. DOMAIN vals = 1 .. 4
  OBVIOUS
<1>2. us = [i \in 1 .. 3 |-> vals[i]]
  BY <1>1
<1>3. b = [i \in 1 .. 4 |-> Word(vals[i])]
  BY <1>1 DEF Words
<1>4. b \in Seq(WordToken) /\ Len(b) = 4
  BY WordsType
<1>5. us \in Seq(Word32)
  <2>1. \A i \in 1 .. 3 : vals[i] \in Word32
    BY <1>1
  <2>. HIDE DEF us
  <2>. QED
    BY <1>2, <2>1
<1>. HIDE DEF us, b
<1>6. vs = [i \in 1 .. 3 |-> b[i]]
  BY <1>4
<1>7. xs = [i \in 1 .. 3 |-> Word(us[i])]
  BY <1>2 DEF Words
<1>. HIDE DEF vs, xs
<1>8. \A i \in 1 .. 3 : vs[i] = xs[i]
  BY <1>2, <1>3, <1>6, <1>7
<1>9. vs = xs
  BY <1>6, <1>7, <1>8
<1>. QED
  BY <1>5, <1>9 DEF us, b, vs, xs

LEMMA FrontThree ==
  ASSUME NEW vals \in Seq(Word32), Len(vals) = 3, NEW o \in Word32
  PROVE  SubSeq(Append(vals, o), 1, 3) = vals
<1> DEFINE a == Append(vals, o)
           us == SubSeq(a, 1, 3)
<1>7. a \in Seq(Word32) /\ Len(a) = Len(vals) + 1
  BY AppendProperties
<1>1. a \in Seq(Word32) /\ Len(a) = 4
  <2>. HIDE DEF a
  <2>. QED
    BY <1>7
<1>6. \A i \in 1 .. Len(vals) : a[i] = vals[i]
  OBVIOUS
<1>5. \A i \in 1 .. 3 : a[i] = vals[i]
  <2>. HIDE DEF a
  <2>. QED
    BY <1>6
<1>. HIDE DEF a
<1>2. us = [i \in 1 .. 3 |-> a[i]]
  BY <1>1
<1>. HIDE DEF us
<1>3. vals = [i \in 1 .. 3 |-> vals[i]]
  OBVIOUS
<1>4. us = vals
  BY <1>2, <1>3, <1>5
<1>. QED
  BY <1>4 DEF us, a

\* A packet that writes no register, and a surface sync, which writes three.
Packed(h, b, op, vals) ==
  /\ SoundPacket(h, b) /\ packet3(op, vals) = <<h>> \o b
  /\ h.op = op
  /\ IF op = "SURFACE_SYNC"
     THEN WritesRegisters(h) /\ Written(h, b) = Filled(CP_COHER_CNTL, SubSeq(vals, 1, 3))
     ELSE ~ WritesRegisters(h)

LEMMA Packet3 ==
  ASSUME NEW op \in Op, NEW vals \in Seq(Word32), NEW n \in 1 .. 33, Len(vals) = n,
         op \notin {s.op : s \in Space}, op = "SURFACE_SYNC" => n = 4
  PROVE  \E h, b : Packed(h, b, op, vals)
<1> DEFINE h == Header3(op, n)
           b == Words(vals)
<1>1. h \in Token /\ IsHeader(h) /\ h.op = op /\ h.count = n - 1 /\ h.is = "packet3"
  <2>1. n \in 1 .. CountMod
    BY DEF CountMod
  <2>. QED
    BY <2>1, HeaderType
<1>2. b \in Seq(WordToken) /\ Len(b) = n
  BY WordsType
<1>3. packet3(op, vals) = <<h>> \o b
  BY DEF packet3
<1>. HIDE DEF h
<1>5. WritesRegisters(h) <=> op = "SURFACE_SYNC"
  BY <1>1 DEF WritesRegisters
<1>6. ASSUME op = "SURFACE_SYNC"
      PROVE  Written(h, b) = Filled(CP_COHER_CNTL, SubSeq(vals, 1, 3))
  <2> DEFINE us == SubSeq(vals, 1, 3)
  <2>1. us \in Seq(Word32) /\ SubSeq(b, 1, 3) = Words(us)
    <3>1. Len(vals) = 4
      BY <1>6
    <3>. QED
      BY <3>1, FirstThree
  <2>. HIDE DEF us, b
  <2>2. Values(h, b) = Words(us)
    BY <1>1, <1>6, <2>1 DEF Values
  <2>3. FirstRegister(h, b) = CP_COHER_CNTL /\ CP_COHER_CNTL \in Nat
    BY <1>1, <1>6, SMT DEF FirstRegister, CP_COHER_CNTL
  <2>. QED
    BY <2>1, <2>2, <2>3, WrittenFills DEF us
<1>. HIDE DEF b
<1>4. WritesRegisters(h) => OneSpace(Written(h, b))
  <2>. SUFFICES ASSUME WritesRegisters(h)
                PROVE  OneSpace(Written(h, b))
    OBVIOUS
  <2>1. op = "SURFACE_SYNC" /\ n = 4
    BY <1>1 DEF WritesRegisters
  <2> DEFINE vs == SubSeq(b, 1, 3)
  <2>2. vs \in Seq(WordToken) /\ Len(vs) = 3
    BY <1>2, <2>1
  <2> DEFINE first == 34288
  <2>3. FirstRegister(h, b) = first /\ Values(h, b) = vs
    BY <1>1, <2>1 DEF FirstRegister, Values
  <2>. HIDE DEF vs
  <2>4. \E s \in Space : s.lo <= 34288 /\ 34300 <= s.hi
    <3>1. [op |-> "SET_CONFIG_REG", lo |-> \h8000, hi |-> \hac00] \in Space
      BY DEF Space
    <3>. QED
      BY <3>1
  <2>5. PICK s \in Space : s.lo <= 34288 /\ 34300 <= s.hi
    BY <2>4
  <2>6. /\ s.lo <= first /\ first + 4 * Len(vs) <= s.hi
        /\ first % 4 = 0 /\ first \in Nat
    BY <2>2, <2>5
  <2>. HIDE DEF first
  <2>. QED
    BY <2>2, <2>3, <2>6, WrittenInSpace
<1>7. SoundPacket(h, b)
  BY <1>1, <1>2, <1>4 DEF SoundPacket
<1>. QED
  BY <1>1, <1>3, <1>5, <1>6, <1>7 DEF Packed

LEMMA RelocPacket ==
  /\ Sound(Reloc)
  /\ \A r \in {<<>>, Reloc} : r \in Seq(Token)
  /\ ~ WritesRegisters(Head(Reloc)) /\ Head(Reloc).op = "NOP"
<1>1. "NOP" \in Op /\ "NOP" \notin {s.op : s \in Space}
  BY Spaces DEF Op
<1>2. <<{}>> \in Seq(Word32) /\ Len(<<{}>>) = 1 /\ 1 \in 1 .. 33
  BY DEF Word32
<1>9. PICK h, b : Packed(h, b, "NOP", <<{}>>)
  BY <1>1, <1>2, Packet3
<1>3. /\ SoundPacket(h, b) /\ Reloc = <<h>> \o b
      /\ h.op = "NOP" /\ ~ WritesRegisters(h)
  BY <1>9 DEF Packed, Reloc
<1>4. h \in Token /\ b \in Seq(Token)
  <2>1. WordToken \subseteq Token
    BY DEF Token
  <2>. QED
    BY <1>3, <2>1, SeqMonotonic DEF SoundPacket
<1>5. <<h>> \o b \in Seq(Token) /\ <<h>> \o b = (<<h>> \o b) \o <<>>
  BY <1>4
<1>6. \A r \in {<<>>, Reloc} : r \in Seq(Token)
  <2>1. <<>> \in Seq(Token) /\ Reloc \in Seq(Token)
    BY <1>3, <1>5
  <2>. QED
    BY <2>1
<1>7. Sound(Reloc)
  BY <1>3, <1>5 DEF Sound
<1>8. Head(Reloc) = h
  <2>1. <<h>> \o b # <<>> /\ Head(<<h>> \o b) = h
    BY <1>4
  <2>. QED
    BY <1>3, <2>1
<1>. QED
  BY <1>3, <1>6, <1>7, <1>8

LEMMA SoundType ==
  ASSUME NEW e, Sound(e)
  PROVE  e \in Seq(Token)
<1>1. WordToken \subseteq Token
  BY DEF Token
<1>2. CASE e = <<>>
  BY <1>2
<1>3. ASSUME NEW h, NEW b, NEW r, SoundPacket(h, b), r \in {<<>>, Reloc}, e = (<<h>> \o b) \o r
      PROVE  e \in Seq(Token)
  <2>1. h \in Token /\ b \in Seq(Token)
    BY <1>1, <1>3, SeqMonotonic DEF SoundPacket
  <2>2. r \in Seq(Token)
    BY <1>3, RelocPacket
  <2>3. <<h>> \o b \in Seq(Token)
    BY <2>1
  <2>. QED
    BY <1>3, <2>2, <2>3
<1>. QED
  BY <1>2, <1>3 DEF Sound

\* The registers a write is for, and the packet that carries it.
Vals(w) == [i \in DOMAIN w.words |-> Value(w.words[i])]

Wrote(w) == Filled(w.at, Vals(w))

Carries(h, b, w) ==
  /\ SoundPacket(h, b)
  /\ IF w.op \in {"SET", "SURFACE_SYNC"}
     THEN WritesRegisters(h) /\ Written(h, b) = Wrote(w)
     ELSE ~ WritesRegisters(h) /\ h.op = w.op

\* Every write of the setters becomes one packet, with its relocation behind it.
LEMMA EncodePacket ==
  ASSUME NEW w \in FormedWrite
  PROVE  \E h, b, r : /\ Carries(h, b, w) /\ r \in {<<>>, Reloc}
                      /\ Encode(w) = (<<h>> \o b) \o r
<1> DEFINE n == Len(w.words)
           vals == Vals(w)
           r == IF w.reloc THEN Reloc ELSE <<>>
<1>1. /\ w.op \in {"SET", "SURFACE_SYNC", "CONTEXT_CONTROL", "DISPATCH_DIRECT"}
      /\ w.words \in Seq(Val) /\ w.at \in Nat
      /\ n \in 1 .. 32 /\ w.at % 4 = 0
      /\ w.op = "SET" => InSpace(w.at, n)
      /\ w.op = "SURFACE_SYNC" => n = 3 /\ w.at = CP_COHER_CNTL
  BY DEF FormedWrite, RawWrite
<1>2. vals \in Seq(Word32) /\ Len(vals) = n
  <2>1. \A v : Value(v) \in Word32
    BY DEF Value, Word32
  <2>2. n \in Nat /\ DOMAIN w.words = 1 .. n
    BY <1>1
  <2>. HIDE DEF n
  <2>3. vals = [i \in 1 .. n |-> Value(w.words[i])]
    BY <2>2 DEF Vals
  <2>. QED
    BY <2>1, <2>2, <2>3
<1>3. Encode(w) = (CASE w.op = "SET" -> set_regs(w.at, vals)
                     [] w.op = "SURFACE_SYNC" -> packet3(w.op, Append(vals, Ones(10)))
                     [] OTHER -> packet3(w.op, vals)) \o r
  BY DEF Encode, Vals
<1>5. Wrote(w) = Filled(w.at, vals)
  BY DEF Wrote
<1>. HIDE DEF n, vals
<1>4. \E h, b : Carries(h, b, w) /\ Encode(w) = (<<h>> \o b) \o r
  <2>1. CASE w.op = "SET"
    <3>1. \E h, b : /\ SoundPacket(h, b) /\ set_regs(w.at, vals) = <<h>> \o b
                    /\ WritesRegisters(h) /\ Written(h, b) = Filled(w.at, vals)
      BY <1>1, <1>2, <2>1, SetRegsPacket DEF Vector
    <3>. QED
      <4>1. Encode(w) = set_regs(w.at, vals) \o r
        BY <1>3, <2>1
      <4>2. PICK h, b : /\ SoundPacket(h, b) /\ set_regs(w.at, vals) = <<h>> \o b
                        /\ WritesRegisters(h) /\ Written(h, b) = Filled(w.at, vals)
        BY <3>1
      <4>3. Carries(h, b, w)
        BY <1>5, <2>1, <4>2 DEF Carries
      <4>. QED
        BY <4>1, <4>2, <4>3
  <2>2. CASE w.op = "SURFACE_SYNC"
    <3> DEFINE vs == Append(vals, Ones(10))
    <3>1. Ones(10) \in Word32
      BY DEF Ones, Word32, Bit
    <3> DEFINE m == 4
    <3>2. vs \in Seq(Word32) /\ Len(vs) = m /\ m \in 1 .. 33 /\ m = 4
      <4>1. n = 3
        BY <1>1, <2>2
      <4>2. vs \in Seq(Word32) /\ Len(vs) = Len(vals) + 1
        BY <1>2, <3>1, AppendProperties
      <4>. QED
        BY <1>2, <4>1, <4>2
    <3>5. SubSeq(vs, 1, 3) = vals
      <4>1. Len(vals) = 3
        BY <1>1, <1>2, <2>2
      <4>. QED
        BY <1>2, <3>1, <4>1, FrontThree
    <3>. HIDE DEF vs, m
    <3>3. w.op \in Op /\ w.op \notin {s.op : s \in Space}
      BY <2>2, Spaces DEF Op
    <3>6. \E h, b : Packed(h, b, w.op, vs)
      BY <3>2, <3>3, Packet3
    <3>4. \E h, b : /\ SoundPacket(h, b) /\ packet3(w.op, vs) = <<h>> \o b
                    /\ WritesRegisters(h) /\ Written(h, b) = Filled(CP_COHER_CNTL, vals)
      BY <2>2, <3>5, <3>6 DEF Packed
    <3>. QED
      <4>1. Encode(w) = packet3(w.op, vs) \o r
        BY <1>3, <2>2 DEF vs
      <4>2. PICK h, b : /\ SoundPacket(h, b) /\ packet3(w.op, vs) = <<h>> \o b
                        /\ WritesRegisters(h) /\ Written(h, b) = Filled(CP_COHER_CNTL, vals)
        BY <3>4
      <4>3. Written(h, b) = Wrote(w)
        BY <1>1, <1>5, <2>2, <4>2
      <4>4. Carries(h, b, w)
        BY <2>2, <4>2, <4>3 DEF Carries
      <4>. QED
        BY <4>1, <4>2, <4>4
  <2>3. CASE w.op \in {"CONTEXT_CONTROL", "DISPATCH_DIRECT"}
    <3>1. w.op \in Op /\ w.op \notin {s.op : s \in Space} /\ w.op # "SURFACE_SYNC"
      BY <2>3, Spaces DEF Op
    <3>2. n \in 1 .. 33
      BY <1>1
    <3>4. \E h, b : Packed(h, b, w.op, vals)
      BY <1>2, <3>1, <3>2, Packet3
    <3>3. \E h, b : /\ SoundPacket(h, b) /\ packet3(w.op, vals) = <<h>> \o b
                    /\ ~ WritesRegisters(h) /\ h.op = w.op
      BY <3>1, <3>4 DEF Packed
    <3>. QED
      <4>1. Encode(w) = packet3(w.op, vals) \o r
        BY <1>3, <2>3
      <4>2. PICK h, b : /\ SoundPacket(h, b) /\ packet3(w.op, vals) = <<h>> \o b
                        /\ ~ WritesRegisters(h) /\ h.op = w.op
        BY <3>3
      <4>3. Carries(h, b, w)
        BY <2>3, <4>2 DEF Carries
      <4>. QED
        BY <4>1, <4>2, <4>3
  <2>. QED
    BY <1>1, <2>1, <2>2, <2>3
<1>. QED
  BY <1>4


-----------------------------------------------------------------------------
(* The names of the registers.  What a setter calls an element of an array *)
(* is told by its address alone, and so is whether it is only ever given   *)
(* zeros: then no burst can take a value from another register.            *)

RatSlot ==
  <<"BASE", "PITCH", "SLICE", "VIEW", "INFO", "ATTRIB", "DIM", "CMASK", "CMASK_SLICE",
    "FMASK", "FMASK_SLICE", "CLEAR_WORD">>

RatName(slot, id, r) == IF slot < 12 THEN <<RatSlot[slot + 1], id>> ELSE <<"reg", r>>

\* In blocks of 15 registers for the RATs up to 7, and of 7 for the others.
RatOwner(r) ==
  LET d == r - \h28c60
  IN  IF d < 480 THEN RatName((d % 60) \div 4, d \div 60, r)
      ELSE RatName(((d - 480) % 28) \div 4, 8 + (d - 480) \div 28, r)

Owner(r) ==
  IF r = CP_COHER_CNTL THEN <<"COHER", 0>>
  ELSE IF \h28b9c <= r /\ r < \h28bcc
  THEN IF (r - \h28b9c) % 8 = 0 THEN <<"IMMED", (r - \h28b9c) \div 8>> ELSE <<"reg", r>>
  ELSE IF \h28c60 <= r /\ r < \h28eb0 THEN RatOwner(r)
  ELSE IF \h28f40 <= r /\ r < \h28f80 THEN <<"CACHE_BASE", (r - \h28f40) \div 4>>
  ELSE IF \h28fc0 <= r /\ r < \h29000 THEN <<"CACHE_SIZE", (r - \h28fc0) \div 4>>
  ELSE IF \h30000 <= r /\ r < \h38000
  THEN IF r % 32 = 0 THEN <<"FETCH", (r - \h30000) \div 32>> ELSE <<"reg", r>>
  ELSE IF \h3a480 <= r /\ r < \h3a500 THEN <<"LOOP", (r - \h3a480) \div 4>>
  ELSE <<"reg", r>>

\* The registers that bursts of zeros reach over and nothing else writes.
Blank(r) ==
  \/ r = \h28010
  \/ (\h28384 <= r /\ r <= \h283fc) \/ (\h28414 <= r /\ r <= \h28420)
  \/ r = \h28648 \/ r = \h286d0
  \/ (\h28784 <= r /\ r <= \h2879c)
  \/ r = \h28848 \/ r = \h288d8
  \/ (\h28920 <= r /\ r <= \h28928)
  \/ r = \h28a34 \/ r = \h28a3c \/ r = \h28a4c \/ r = \h28aa4 \/ r = \h28ac4
  \/ (\h28b7c <= r /\ r <= \h28b8c) \/ r = \h28b98
  \/ r = \h28c04
  \/ (\h28c20 <= r /\ r <= \h28c38)
  \/ r = \h3cff4

\* A write whose first register is the one it names, and which overwrites
\* behind it either what it asks for as well, or nothing that has a value.
KeepsTail(key, at, words) ==
  \A i \in 2 .. Len(words) :
    LET r == at + 4 * (i - 1)
    IN  IF key[1] = "reg" /\ words[i] = Zero THEN Blank(r)
        ELSE Owner(r) = <<"reg", r>> /\ (words[i] # Zero => ~ Blank(r))

Keeps(key, at, words) ==
  /\ Owner(at) = key
  /\ words[1] # Zero => ~ Blank(at)
  /\ KeepsTail(key, at, words)

SoundWrite ==
  {w \in FormedWrite :
     /\ w.op # "DISPATCH_DIRECT"
     /\ w.op = "CONTEXT_CONTROL" <=> w.at = 0
     /\ w.at # 0 => Keeps(w.key, w.at, w.words)}

\* A register that is no element of an array, and one with a value of its own.
Ordinary(r) ==
  /\ r \in Nat /\ r % 4 = 0
  /\ \/ 32768 <= r /\ r < 34288
     \/ 34288 < r /\ r < 44032
     \/ 163840 <= r /\ r < 166812
     \/ 166912 <= r /\ r < 167008
     \/ 249840 <= r /\ r < 249848

Spot(r) == Ordinary(r) /\ ~ Blank(r)

LEMMA OrdinaryReg ==
  ASSUME NEW r, Ordinary(r)
  PROVE  r \in Nat /\ r # 0 /\ Owner(r) = <<"reg", r>>
  BY SMT DEF Ordinary, Owner, CP_COHER_CNTL

LEMMA LongBlock ==
  ASSUME NEW id \in 0 .. 7, NEW slot \in 0 .. 14, NEW r \in Nat,
         r = 167008 + 60 * id + 4 * slot
  PROVE  Owner(r) = RatName(slot, id, r) /\ r # 0 /\ ~ Blank(r)
<1> DEFINE d == r - 167008
<1>1. d = 60 * id + 4 * slot /\ d < 480 /\ d \in Nat
  BY SMT
<1>2. d \div 60 = id /\ d % 60 = 4 * slot
  BY <1>1, SMT
<1>3. (4 * slot) \div 4 = slot
  BY SMT
<1>4. RatOwner(r) = RatName(slot, id, r)
  BY <1>1, <1>2, <1>3, SMT DEF RatOwner
<1>5. 167008 <= r /\ r < 167600
  BY SMT
<1>6. Owner(r) = RatOwner(r)
  BY <1>5, SMT DEF Owner, CP_COHER_CNTL
<1>7. r # 0 /\ ~ Blank(r)
  BY <1>5, SMT DEF Blank
<1>. QED
  BY <1>4, <1>6, <1>7

LEMMA ShortBlock ==
  ASSUME NEW id \in 8 .. 11, NEW slot \in 0 .. 6, NEW r \in Nat,
         r = 167488 + 28 * (id - 8) + 4 * slot
  PROVE  Owner(r) = RatName(slot, id, r) /\ r # 0 /\ ~ Blank(r)
<1> DEFINE d == r - 167008
           e == d - 480
<1>1. d \in Nat /\ ~ (d < 480) /\ e = 28 * (id - 8) + 4 * slot /\ e \in Nat
  BY SMT
<1>2. e \div 28 = id - 8 /\ e % 28 = 4 * slot /\ 8 + (id - 8) = id
  BY <1>1, SMT
<1>3. (4 * slot) \div 4 = slot
  BY SMT
<1>4. RatOwner(r) = RatName(slot, id, r)
  BY <1>1, <1>2, <1>3, SMT DEF RatOwner
<1>5. 167008 <= r /\ r < 167600
  BY SMT
<1>6. Owner(r) = RatOwner(r)
  BY <1>5, SMT DEF Owner, CP_COHER_CNTL
<1>7. r # 0 /\ ~ Blank(r)
  BY <1>5, SMT DEF Blank
<1>. QED
  BY <1>4, <1>6, <1>7

LEMMA SlotNames ==
  ASSUME NEW id, NEW r
  PROVE  /\ RatName(0, id, r) = <<"BASE", id>> /\ RatName(1, id, r) = <<"PITCH", id>>
         /\ RatName(2, id, r) = <<"SLICE", id>> /\ RatName(3, id, r) = <<"VIEW", id>>
         /\ RatName(4, id, r) = <<"INFO", id>> /\ RatName(5, id, r) = <<"ATTRIB", id>>
         /\ RatName(6, id, r) = <<"DIM", id>> /\ RatName(7, id, r) = <<"CMASK", id>>
         /\ RatName(8, id, r) = <<"CMASK_SLICE", id>> /\ RatName(9, id, r) = <<"FMASK", id>>
         /\ RatName(10, id, r) = <<"FMASK_SLICE", id>>
         /\ RatName(11, id, r) = <<"CLEAR_WORD", id>>
         /\ RatName(12, id, r) = <<"reg", r>> /\ RatName(13, id, r) = <<"reg", r>>
         /\ RatName(14, id, r) = <<"reg", r>>
  BY SMT DEF RatName, RatSlot

\* An element of an array, and a register behind one.
Own(name, id, r) == r # 0 /\ Owner(r) = <<name, id>> /\ ~ Blank(r)
Unnamed(r) == Owner(r) = <<"reg", r>> /\ ~ Blank(r)

LEMMA SlotOwner ==
  ASSUME NEW id \in 0 .. 11, NEW slot \in 0 .. 14, id < 8 \/ slot < 7, NEW r,
         r = \h28c60 + RatOffset(id) + 4 * slot
  PROVE  Owner(r) = RatName(slot, id, r) /\ r # 0 /\ ~ Blank(r)
<1>1. CASE id < 8
  <2>1. id \in 0 .. 7 /\ RatOffset(id) = 60 * id
    BY <1>1, SMT DEF RatOffset
  <2>2. r \in Nat /\ r = 167008 + 60 * id + 4 * slot
    BY <2>1, SMT
  <2>. QED
    BY <2>1, <2>2, LongBlock, SMT
<1>2. CASE ~ (id < 8)
  <2>1. id \in 8 .. 11 /\ slot \in 0 .. 6 /\ RatOffset(id) = 480 + 28 * (id - 8)
    BY <1>2, SMT DEF RatOffset
  <2>2. r \in Nat /\ r = 167488 + 28 * (id - 8) + 4 * slot
    BY <2>1, SMT
  <2>. QED
    BY <2>1, <2>2, ShortBlock, SMT
<1>. QED
  BY <1>1, <1>2

RatOwned(id) ==
  /\ Own("BASE", id, Base(id)) /\ Own("PITCH", id, Pitch(id)) /\ Own("SLICE", id, Slice(id))
  /\ Own("VIEW", id, View(id)) /\ Own("INFO", id, Info(id)) /\ Own("ATTRIB", id, Attrib(id))
  /\ Own("DIM", id, Dim(id))

TargetOwned(id) ==
  /\ Own("CMASK", id, Cmask(id)) /\ Own("CMASK_SLICE", id, CmaskSlice(id))
  /\ Own("FMASK", id, Fmask(id)) /\ Own("FMASK_SLICE", id, FmaskSlice(id))
  /\ Own("CLEAR_WORD", id, ClearWord(id))
  /\ \A i \in 2 .. 4 : Unnamed(ClearWord(id) + 4 * (i - 1))

LEMMA RatOwners ==
  ASSUME NEW id \in 0 .. 11
  PROVE  RatOwned(id) /\ (id < 8 => TargetOwned(id))
<1> DEFINE at(slot) == \h28c60 + RatOffset(id) + 4 * slot
<1>1. RatOffset(id) \in Nat
  BY SMT DEF RatOffset
<1>2. \A slot \in 0 .. 14 : id < 8 \/ slot < 7 =>
        Owner(at(slot)) = RatName(slot, id, at(slot)) /\ at(slot) # 0 /\ ~ Blank(at(slot))
  BY SlotOwner, SMT
<1>3. /\ Base(id) = at(0) /\ Pitch(id) = at(1) /\ Slice(id) = at(2) /\ View(id) = at(3)
      /\ Info(id) = at(4) /\ Attrib(id) = at(5) /\ Dim(id) = at(6)
  BY <1>1, SMT DEF Base, Pitch, Slice, View, Info, Attrib, Dim
<1>4. /\ Cmask(id) = at(7) /\ CmaskSlice(id) = at(8) /\ Fmask(id) = at(9)
      /\ FmaskSlice(id) = at(10) /\ ClearWord(id) = at(11)
      /\ ClearWord(id) + 4 * (2 - 1) = at(12) /\ ClearWord(id) + 4 * (3 - 1) = at(13)
      /\ ClearWord(id) + 4 * (4 - 1) = at(14)
  BY <1>1, SMT DEF Cmask, CmaskSlice, Fmask, FmaskSlice, ClearWord
<1>. HIDE DEF at
<1>5. RatOwned(id)
  BY <1>2, <1>3, SlotNames, SMT DEF RatOwned, Own
<1>6. ASSUME id < 8
      PROVE  TargetOwned(id)
  <2>1. \A i \in 2 .. 4 : Unnamed(ClearWord(id) + 4 * (i - 1))
    <3>1. Unnamed(at(12)) /\ Unnamed(at(13)) /\ Unnamed(at(14))
      BY <1>2, <1>6, SlotNames, SMT DEF Unnamed
    <3>2. \A i \in 2 .. 4 : i = 2 \/ i = 3 \/ i = 4
      OBVIOUS
    <3>. QED
      BY <1>4, <3>1, <3>2
  <2>2. /\ Own("CMASK", id, Cmask(id)) /\ Own("CMASK_SLICE", id, CmaskSlice(id))
        /\ Own("FMASK", id, Fmask(id)) /\ Own("FMASK_SLICE", id, FmaskSlice(id))
        /\ Own("CLEAR_WORD", id, ClearWord(id))
    BY <1>2, <1>4, <1>6, SlotNames, SMT DEF Own
  <2>. QED
    BY <2>1, <2>2 DEF TargetOwned
<1>. QED
  BY <1>5, <1>6

LEMMA ImmedOwner ==
  ASSUME NEW id \in 0 .. 5
  PROVE  Own("IMMED", id, Immed(id))
<1> DEFINE r == Immed(id)
<1>1. r = 166812 + 8 * id
  BY SMT DEF Immed, CB_IMMED0_BASE
<1>. HIDE DEF r
<1>2. (r - 166812) % 8 = 0 /\ (r - 166812) \div 8 = id /\ 166812 <= r /\ r < 166860
  BY <1>1, SMT
<1>3. Owner(r) = <<"IMMED", id>>
  BY <1>1, <1>2, SMT DEF Owner, CP_COHER_CNTL
<1>4. r # 0 /\ ~ Blank(r)
  BY <1>1, SMT DEF Blank
<1>. QED
  BY <1>3, <1>4 DEF Own, r

LEMMA CacheOwners ==
  ASSUME NEW i \in 0 .. 15
  PROVE  Own("CACHE_SIZE", i, CacheSize(i)) /\ Own("CACHE_BASE", i, CacheBase(i))
<1> DEFINE r == CacheSize(i)
           q == CacheBase(i)
<1>1. r = 167872 + 4 * i /\ q = 167744 + 4 * i
  BY SMT DEF CacheSize, CacheBase
<1>. HIDE DEF r, q
<1>2. /\ (r - 167872) \div 4 = i /\ 167872 <= r /\ r < 167936
      /\ (q - 167744) \div 4 = i /\ 167744 <= q /\ q < 167808
  BY <1>1, SMT
<1>3. Owner(r) = <<"CACHE_SIZE", i>>
  BY <1>1, <1>2, SMT DEF Owner, CP_COHER_CNTL
<1>4. Owner(q) = <<"CACHE_BASE", i>>
  BY <1>1, <1>2, SMT DEF Owner, CP_COHER_CNTL
<1>5. r # 0 /\ ~ Blank(r) /\ q # 0 /\ ~ Blank(q)
  BY <1>1, SMT DEF Blank
<1>. QED
  BY <1>3, <1>4, <1>5 DEF Own, r, q

LEMMA LoopOwner ==
  ASSUME NEW i \in 0 .. 31
  PROVE  Own("LOOP", i, LoopConst(i))
<1> DEFINE r == LoopConst(i)
<1>1. r = 238720 + 4 * i
  BY SMT DEF LoopConst
<1>. HIDE DEF r
<1>2. (r - 238720) \div 4 = i /\ 238720 <= r /\ r < 238848
  BY <1>1, SMT
<1>3. Owner(r) = <<"LOOP", i>>
  BY <1>1, <1>2, SMT DEF Owner, CP_COHER_CNTL
<1>4. r # 0 /\ ~ Blank(r)
  BY <1>1, SMT DEF Blank
<1>. QED
  BY <1>3, <1>4 DEF Own, r

LEMMA FetchOwner ==
  ASSUME NEW id \in Nat, 816 <= id, id <= 991
  PROVE  /\ Own("FETCH", id, Fetch(id))
         /\ \A i \in 2 .. 8 : Unnamed(Fetch(id) + 4 * (i - 1))
<1> DEFINE r == Fetch(id)
<1>1. r = 196608 + 32 * id /\ r \in Nat
  BY SMT DEF Fetch
<1>. HIDE DEF r
<1>2. r % 32 = 0 /\ (r - 196608) \div 32 = id /\ 196608 <= r /\ r < 229376
  BY <1>1, SMT
<1>3. Owner(r) = <<"FETCH", id>>
  BY <1>1, <1>2, SMT DEF Owner, CP_COHER_CNTL
<1>4. r # 0 /\ ~ Blank(r)
  BY <1>1, SMT DEF Blank
<1>5. ASSUME NEW i \in 2 .. 8
      PROVE  Unnamed(r + 4 * (i - 1))
  <2> DEFINE q == r + 4 * (i - 1)
  <2>1. q = 196608 + 32 * id + 4 * (i - 1)
    BY <1>1, SMT
  <2>. HIDE DEF q
  <2>2. q % 32 # 0 /\ 196608 <= q /\ q < 229376 /\ q \in Nat
    BY <2>1, SMT
  <2>3. Owner(q) = <<"reg", q>>
    BY <2>2, SMT DEF Owner, CP_COHER_CNTL
  <2>4. ~ Blank(q)
    BY <2>2, SMT DEF Blank
  <2>. QED
    BY <2>3, <2>4 DEF Unnamed, q
<1>. QED
  BY <1>3, <1>4, <1>5 DEF Own, r

LEMMA CoherOwner ==
  /\ Own("COHER", 0, CP_COHER_CNTL)
  /\ \A i \in 2 .. 3 : Unnamed(CP_COHER_CNTL + 4 * (i - 1))
<1>1. CP_COHER_CNTL # 0 /\ Owner(CP_COHER_CNTL) = <<"COHER", 0>> /\ ~ Blank(CP_COHER_CNTL)
  BY SMT DEF Owner, CP_COHER_CNTL, Blank
<1>2. ASSUME NEW i \in 2 .. 3
      PROVE  Unnamed(CP_COHER_CNTL + 4 * (i - 1))
  <2> DEFINE q == CP_COHER_CNTL + 4 * (i - 1)
  <2>1. q \in Nat /\ 34288 < q /\ q <= 34296
    BY SMT DEF CP_COHER_CNTL
  <2>. HIDE DEF q
  <2>2. Owner(q) = <<"reg", q>> /\ ~ Blank(q)
    BY <2>1, SMT DEF Owner, CP_COHER_CNTL, Blank
  <2>. QED
    BY <2>2 DEF Unnamed, q
<1>. QED
  BY <1>1, <1>2 DEF Own

-----------------------------------------------------------------------------
(* What the setters are put together from.                                 *)

LEMMA ValType ==
  /\ Zero \in Val /\ AllOnes \in Val /\ One_f \in Val
  /\ \A shift \in Bit, n \in Int : Field(shift, n) \in Val
  /\ \A n \in Int : Plainly(n) \in Val
  /\ \A b \in Bit : Flag(b) \in Val
  /\ \A bits \in SUBSET Bit : Literal(bits) \in Val
  /\ \A u, v \in Val : u \cup v \in Val
  /\ \A m, n \in Int : Pair(m, n) \in Val
<1>1. Zero \in Val
  BY DEF Zero, Val
<1>2. \A shift \in Bit, n \in Int : Field(shift, n) \in Val
  BY <1>1 DEF Field, Val
<1>3. 0 \in Bit /\ 16 \in Bit /\ 23 \in Bit
  BY DEF Bit
<1>4. \A n \in Int : Plainly(n) \in Val
  BY <1>2, <1>3 DEF Plainly
<1>5. \A b \in Bit : Flag(b) \in Val
  BY <1>2 DEF Flag
<1>6. \A bits \in SUBSET Bit : Literal(bits) \in Val
  BY <1>5 DEF Literal, Val
<1>7. \A u, v \in Val : u \cup v \in Val
  BY DEF Val
<1>8. AllOnes \in Val /\ One_f \in Val
  BY <1>2, <1>3, <1>4 DEF AllOnes, One_f
<1>9. \A m, n \in Int : Pair(m, n) \in Val
  BY <1>2, <1>3, <1>4, <1>7 DEF Pair
<1>. QED
  BY <1>1, <1>2, <1>4, <1>5, <1>6, <1>7, <1>8, <1>9

\* Two of these facts alone.
LEMMA LiteralType == \A bits \in SUBSET Bit : Literal(bits) \in Val
  BY ValType

LEMMA UnionType == \A u, v \in Val : u \cup v \in Val
  BY ValType

\* Where n registers in a row may be written.
Place(at, n) == at % 4 = 0 /\ InSpace(at, n)

LEMMA Places ==
  ASSUME NEW at \in Nat, NEW n \in Nat, at % 4 = 0,
         \/ 32768 <= at /\ at + 4 * n <= 44032
         \/ 163840 <= at /\ at + 4 * n <= 167936
         \/ 196608 <= at /\ at + 4 * n <= 229376
         \/ 238080 <= at /\ at + 4 * n <= 238848
         \/ 249840 <= at /\ at + 4 * n <= 261900
  PROVE  Place(at, n)
<1>1. /\ [op |-> "SET_CONFIG_REG",  lo |-> \h8000,  hi |-> \hac00] \in Space
      /\ [op |-> "SET_CONTEXT_REG", lo |-> \h28000, hi |-> \h29000] \in Space
      /\ [op |-> "SET_RESOURCE",    lo |-> \h30000, hi |-> \h38000] \in Space
      /\ [op |-> "SET_LOOP_CONST",  lo |-> \h3a200, hi |-> \h3a500] \in Space
      /\ [op |-> "SET_CTL_CONST",   lo |-> \h3cff0, hi |-> \h3ff0c] \in Space
  BY DEF Space
<1>2. CASE 32768 <= at /\ at + 4 * n <= 44032
  BY <1>1, <1>2 DEF Place, InSpace, Inside
<1>3. CASE 163840 <= at /\ at + 4 * n <= 167936
  BY <1>1, <1>3 DEF Place, InSpace, Inside
<1>4. CASE 196608 <= at /\ at + 4 * n <= 229376
  BY <1>1, <1>4 DEF Place, InSpace, Inside
<1>5. CASE 238080 <= at /\ at + 4 * n <= 238848
  BY <1>1, <1>5 DEF Place, InSpace, Inside
<1>6. CASE 249840 <= at /\ at + 4 * n <= 261900
  BY <1>1, <1>6 DEF Place, InSpace, Inside
<1>. QED
  BY <1>2, <1>3, <1>4, <1>5, <1>6

LEMMA BurstFormed ==
  ASSUME NEW at \in Nat, NEW n \in 1 .. 32, NEW words \in Seq(Val), Len(words) = n,
         Place(at, n)
  PROVE  Burst(at, words) \in FormedWrite
<1> DEFINE w == Burst(at, words)
<1>1. /\ w = [op |-> "SET", key |-> <<"reg", at>>, at |-> at, words |-> words,
              reloc |-> FALSE]
      /\ <<"reg", at>> \in Name \X Int
  BY Names DEF Burst
<1>2. w \in RawWrite /\ w.words = words /\ w.at = at /\ w.op = "SET"
  BY <1>1 DEF RawWrite
<1>. HIDE DEF w
<1>. QED
  BY <1>2 DEF FormedWrite, Place, w

\* An array's element that keeps to itself.
IsElement(w, key, at, words) ==
  w \in FormedWrite /\ w.op = "SET" /\ w.at = at /\ w.words = words /\ w.key = key

LEMMA ElementFormed ==
  ASSUME NEW at \in Nat, NEW n \in 1 .. 32, NEW words \in Seq(Val), Len(words) = n,
         Place(at, n), NEW name \in Name, NEW i \in Int
  PROVE  IsElement(Element(name, i, at, words), <<name, i>>, at, words)
<1> DEFINE v == Burst(at, words)
           w == Element(name, i, at, words)
<1>1. v \in FormedWrite
  BY BurstFormed
<1>2. w = [v EXCEPT !.key = <<name, i>>] /\ <<name, i>> \in Name \X Int
  BY DEF Element
<1>4. v.words = words /\ v.at = at /\ v.op = "SET"
  BY DEF Burst
<1>. HIDE DEF v
<1>3. /\ w \in RawWrite /\ w.words = v.words /\ w.at = v.at /\ w.op = v.op
      /\ w.key = <<name, i>>
  BY <1>1, <1>2 DEF RawWrite, FormedWrite
<1>. HIDE DEF w
<1>5. w \in FormedWrite
  BY <1>1, <1>3 DEF FormedWrite
<1>. QED
  BY <1>3, <1>4, <1>5 DEF w, IsElement

LEMMA BurstSound ==
  ASSUME NEW at \in Nat, NEW n \in 1 .. 32, NEW words \in Seq(Val), Len(words) = n,
         Place(at, n), at # 0, Keeps(<<"reg", at>>, at, words)
  PROVE  Burst(at, words) \in SoundWrite
<1> DEFINE w == Burst(at, words)
<1>1. w \in FormedWrite
  BY BurstFormed
<1> DEFINE key == <<"reg", at>>
<1>2. w.words = words /\ w.at = at /\ w.op = "SET" /\ w.key = key
  BY DEF Burst
<1>3. Keeps(key, at, words)
  OBVIOUS
<1>. HIDE DEF w, key
<1>4. w \in SoundWrite
  BY <1>1, <1>2, <1>3 DEF SoundWrite
<1>. QED
  BY <1>4 DEF w

LEMMA ElementSound ==
  ASSUME NEW name \in Name, NEW i \in Int, NEW at, NEW words,
         at \in Nat, at # 0, words \in Seq(Val), Len(words) \in 1 .. 32,
         Place(at, Len(words)), Keeps(<<name, i>>, at, words)
  PROVE  Element(name, i, at, words) \in SoundWrite
<1> DEFINE w == Element(name, i, at, words)
           key == <<name, i>>
<1>1. IsElement(w, key, at, words)
  BY ElementFormed
<1>2. Keeps(key, at, words)
  OBVIOUS
<1>. HIDE DEF w, key
<1>3. w \in SoundWrite
  BY <1>1, <1>2 DEF SoundWrite, IsElement
<1>. QED
  BY <1>3 DEF w

LEMMA RelocatedSound ==
  ASSUME NEW v \in SoundWrite
  PROVE  Relocated(v) \in SoundWrite
<1> DEFINE w == Relocated(v)
<1>1. /\ w \in RawWrite /\ w.words = v.words /\ w.at = v.at /\ w.op = v.op
      /\ w.key = v.key
  BY DEF RawWrite, FormedWrite, SoundWrite, Relocated
<1>. HIDE DEF w
<1>2. w \in FormedWrite
  BY <1>1 DEF FormedWrite, SoundWrite
<1>. QED
  BY <1>1, <1>2 DEF SoundWrite, w

\* One word, and words behind the first.
LEMMA OneKeeps ==
  ASSUME NEW key, NEW at, NEW v, Owner(at) = key, v # Zero => ~ Blank(at)
  PROVE  Keeps(key, at, <<v>>)
<1>1. Len(<<v>>) = 1 /\ <<v>>[1] = v
  OBVIOUS
<1>2. KeepsTail(key, at, <<v>>)
  BY <1>1 DEF KeepsTail
<1>. QED
  BY <1>1, <1>2 DEF Keeps

Room(at, n) == \A j \in 2 .. n : Unnamed(at + 4 * (j - 1))

LEMMA ElementKeeps ==
  ASSUME NEW name, name # "reg", NEW i, NEW at, NEW words, Own(name, i, at),
         Room(at, Len(words))
  PROVE  Keeps(<<name, i>>, at, words)
<1>1. <<name, i>>[1] # "reg"
  OBVIOUS
<1>2. KeepsTail(<<name, i>>, at, words)
  BY <1>1 DEF KeepsTail, Room, Unnamed
<1>. QED
  BY <1>2 DEF Keeps, Own

LEMMA ZerosType ==
  ASSUME NEW n \in 1 .. 32
  PROVE  /\ Zeros(n) \in Seq(Val) /\ Len(Zeros(n)) = n
         /\ \A i \in 1 .. n : Zeros(n)[i] = Zero
  BY ValType DEF Zeros

LEMMA ZerosKeep ==
  ASSUME NEW at, Ordinary(at), NEW n \in 1 .. 32, \A i \in 2 .. n : Blank(at + 4 * (i - 1))
  PROVE  Keeps(<<"reg", at>>, at, Zeros(n))
<1> DEFINE words == Zeros(n)
           key == <<"reg", at>>
<1>1. Len(words) = n /\ \A i \in 1 .. n : words[i] = Zero
  BY ZerosType
<1>2. key[1] = "reg"
  OBVIOUS
<1>3. Owner(at) = key
  BY OrdinaryReg
<1>. HIDE DEF words, key
<1>4. KeepsTail(key, at, words)
  BY <1>1, <1>2 DEF KeepsTail
<1>5. Keeps(key, at, words)
  BY <1>1, <1>3, <1>4 DEF Keeps
<1>. QED
  BY <1>5 DEF words, key

LEMMA WriteSound ==
  ASSUME NEW at, Ordinary(at), NEW v \in Val, Place(at, 1), v # Zero => ~ Blank(at)
  PROVE  Write(at, v) \in SoundWrite
<1>1. <<v>> \in Seq(Val) /\ Len(<<v>>) = 1 /\ 1 \in 1 .. 32
  OBVIOUS
<1>2. at \in Nat /\ at # 0 /\ Owner(at) = <<"reg", at>>
  BY OrdinaryReg
<1>3. Keeps(<<"reg", at>>, at, <<v>>)
  BY <1>2, OneKeeps
<1>. QED
  BY <1>1, <1>2, <1>3, BurstSound DEF Write

LEMMA OrdinaryPlace ==
  ASSUME NEW at, Ordinary(at)
  PROVE  Place(at, 1)
<1>1. at \in Nat /\ at % 4 = 0
  BY DEF Ordinary
<1>2. \/ 32768 <= at /\ at + 4 * 1 <= 44032
      \/ 163840 <= at /\ at + 4 * 1 <= 167936
      \/ 249840 <= at /\ at + 4 * 1 <= 261900
  BY SMT DEF Ordinary
<1>. QED
  BY <1>1, <1>2, Places, SMT

\* One register that is set to a value, or to zero.
LEMMA SpotWrite ==
  ASSUME NEW at, Spot(at), NEW v \in Val
  PROVE  Write(at, v) \in SoundWrite
  BY WriteSound, OrdinaryPlace DEF Spot

LEMMA ZeroWrite ==
  ASSUME NEW at, Ordinary(at)
  PROVE  Write(at, Zero) \in SoundWrite
  BY WriteSound, OrdinaryPlace, ValType

\* One register of the two large spaces.
LEMMA RegZero ==
  ASSUME NEW at \in Nat, at % 4 = 0,
         \/ 34288 < at /\ at < 44032
         \/ 163840 <= at /\ at < 166812
  PROVE  Write(at, Zero) \in SoundWrite
<1>1. Ordinary(at)
  BY SMT DEF Ordinary
<1>. QED
  BY <1>1, ZeroWrite

LEMMA PacketFormed ==
  ASSUME NEW op \in {"CONTEXT_CONTROL", "DISPATCH_DIRECT"}, NEW n \in 1 .. 32,
         NEW words \in Seq(Val), Len(words) = n
  PROVE  LET w == Packet(op, words)
         IN  w \in FormedWrite /\ w.at = 0 /\ w.op = op /\ w.reloc = FALSE
<1> DEFINE w == Packet(op, words)
<1> DEFINE v == Burst(0, words)
<1>1. v \in RawWrite /\ v.words = words /\ v.at = 0 /\ v.reloc = FALSE
  <2>1. <<"reg", 0>> \in Name \X Int
    BY Names
  <2>. QED
    BY <2>1 DEF Burst, RawWrite
<1>2. w = [v EXCEPT !.op = op]
  BY DEF Packet
<1>. HIDE DEF v
<1>3. w \in RawWrite /\ w.words = words /\ w.at = 0 /\ w.op = op /\ w.reloc = FALSE
  BY <1>1, <1>2 DEF RawWrite
<1>4. op # "SET" /\ op # "SURFACE_SYNC" /\ 0 % 4 = 0
  OBVIOUS
<1>. HIDE DEF w
<1>. QED
  BY <1>3, <1>4 DEF FormedWrite, w

LEMMA SyncSound ==
  ASSUME NEW flags \in SUBSET Bit, NEW size \in Int
  PROVE  set_surface_sync(flags, size) \in SoundWrite
<1> DEFINE words == <<Literal(flags), Plainly(Blocks(size)), Zero>>
           v == Element("COHER", 0, CP_COHER_CNTL, words)
           u == [v EXCEPT !.op = "SURFACE_SYNC"]
<1>1. words \in Seq(Val) /\ Len(words) = 3
  <2>1. Blocks(size) \in Int
    BY DEF Blocks
  <2>. QED
    BY <2>1, ValType
<1>6. Keeps(<<"COHER", 0>>, CP_COHER_CNTL, words)
  <2>1. Room(CP_COHER_CNTL, Len(words))
    BY <1>1, CoherOwner DEF Room
  <2>. HIDE DEF words
  <2>. QED
    BY <2>1, CoherOwner, ElementKeeps
<1>2. IsElement(v, <<"COHER", 0>>, CP_COHER_CNTL, words)
  <2>1. CP_COHER_CNTL \in Nat /\ Place(CP_COHER_CNTL, 3)
    BY Places, SMT DEF CP_COHER_CNTL
  <2>. HIDE DEF words
  <2>. QED
    BY <1>1, <2>1, ElementFormed, Names
<1>. HIDE DEF v, words
<1>3. /\ u \in RawWrite /\ u.words = v.words /\ u.at = v.at /\ u.op = "SURFACE_SYNC"
      /\ u.key = v.key
  BY <1>2 DEF RawWrite, FormedWrite, IsElement
<1>4. set_surface_sync(flags, size) = Relocated(u)
  BY DEF set_surface_sync, v, words
<1>. HIDE DEF u
<1>7. CP_COHER_CNTL # 0
  BY SMT DEF CP_COHER_CNTL
<1>5. u \in SoundWrite
  <2>1. u \in FormedWrite
    BY <1>1, <1>2, <1>3 DEF FormedWrite, IsElement
  <2>. QED
    BY <1>2, <1>3, <1>6, <1>7, <2>1 DEF SoundWrite, IsElement
<1>. QED
  BY <1>4, <1>5, RelocatedSound

\* Values that are not zero.
LEMMA NonZero ==
  /\ \A s, n : n # 0 => Field(s, n) # Zero
  /\ \A u, v : u # Zero => u \cup v # Zero
  /\ \A m, n : m # 0 => Pair(m, n) # Zero
<1>1. \A s, n : n # 0 => Field(s, n) # Zero
  BY DEF Field, Zero
<1>2. \A u, v : u # Zero => u \cup v # Zero
  BY DEF Zero
<1>3. \A m, n : m # 0 => Pair(m, n) # Zero
  BY <1>1, <1>2 DEF Pair, Plainly
<1>. QED
  BY <1>1, <1>2, <1>3

\* Bursts of values.
LEMMA SpotsKeep ==
  ASSUME NEW at, Spot(at), NEW n \in 1 .. 32, NEW words, Len(words) = n,
         \A i \in 2 .. n : Spot(at + 4 * (i - 1)) /\ words[i] # Zero
  PROVE  Keeps(<<"reg", at>>, at, words)
<1>1. Owner(at) = <<"reg", at>>
  BY OrdinaryReg DEF Spot
<1>2. \A i \in 2 .. n : LET r == at + 4 * (i - 1)
                        IN  Owner(r) = <<"reg", r>> /\ ~ Blank(r) /\ words[i] # Zero
  BY OrdinaryReg DEF Spot
<1>3. KeepsTail(<<"reg", at>>, at, words)
  BY <1>2 DEF KeepsTail
<1>. QED
  BY <1>1, <1>3 DEF Keeps, Spot


Spots(at, n) == at \in Nat /\ Place(at, n) /\ \A i \in 1 .. n : Spot(at + 4 * (i - 1))

Valued(words) ==
  words \in Seq(Val) /\ Len(words) \in 1 .. 32 /\ \A i \in 2 .. Len(words) : words[i] # Zero

LEMMA SpotsBurst ==
  ASSUME NEW at, NEW words, Spots(at, Len(words)), Valued(words)
  PROVE  Burst(at, words) \in SoundWrite
<1> DEFINE n == Len(words)
<1>1. n \in 1 .. 32 /\ words \in Seq(Val)
  BY DEF Valued
<1>5. at \in Nat /\ Place(at, n) /\ \A i \in 1 .. n : Spot(at + 4 * (i - 1))
  BY DEF Spots
<1>2. \A i \in 2 .. n : words[i] # Zero
  BY DEF Valued
<1>6. Len(words) = n
  OBVIOUS
<1>. HIDE DEF n
<1>4. Spot(at)
  <2>1. 1 \in 1 .. n /\ at + 4 * (1 - 1) = at
    BY <1>1, <1>5
  <2>. QED
    BY <1>5, <2>1
<1>8. \A i \in 2 .. n : Spot(at + 4 * (i - 1)) /\ words[i] # Zero
  BY <1>1, <1>2, <1>5
<1>3. Keeps(<<"reg", at>>, at, words)
  BY <1>1, <1>4, <1>6, <1>8, SpotsKeep
<1>7. at # 0 /\ at \in Nat
  BY <1>4, OrdinaryReg DEF Spot
<1>. QED
  BY <1>1, <1>3, <1>5, <1>6, <1>7, BurstSound

\* Bursts of two values.
PairFits(at, u, v) ==
  /\ Ordinary(at) /\ at >= 163840 /\ Ordinary(at + 4)
  /\ u # Zero => ~ Blank(at)
  /\ IF v = Zero THEN Blank(at + 4) ELSE ~ Blank(at + 4)

LEMMA ContextPair ==
  ASSUME NEW at, NEW u \in Val, NEW v \in Val, PairFits(at, u, v)
  PROVE  Burst(at, <<u, v>>) \in SoundWrite
<1> DEFINE words == <<u, v>>
           key == <<"reg", at>>
           r == at + 4
<1>0. /\ Ordinary(at) /\ at >= 163840 /\ Ordinary(r)
      /\ u # Zero => ~ Blank(at)
      /\ IF v = Zero THEN Blank(r) ELSE ~ Blank(r)
  BY DEF PairFits
<1>1. words \in Seq(Val) /\ Len(words) = 2 /\ words[1] = u /\ words[2] = v
  OBVIOUS
<1>2. Place(at, 2) /\ at \in Nat /\ at # 0
  <2>1. at \in Nat /\ at % 4 = 0 /\ at # 0
    BY <1>0, SMT DEF Ordinary
  <2>2. \/ 163840 <= at /\ at + 4 * 2 <= 167936
        \/ 249840 <= at /\ at + 4 * 2 <= 261900
    BY <1>0, SMT DEF Ordinary
  <2>. QED
    BY <2>1, <2>2, Places, SMT
<1>3. Owner(at) = key /\ Owner(r) = <<"reg", r>> /\ key[1] = "reg"
  BY <1>0, OrdinaryReg
<1>. HIDE DEF words, key
<1>4. KeepsTail(key, at, words)
  <2>1. at + 4 * (2 - 1) = r
    BY <1>2
  <2>. HIDE DEF r
  <2>2. \A i \in 2 .. Len(words) : i = 2
    BY <1>1
  <2>3. IF v = Zero THEN Blank(r) ELSE Owner(r) = <<"reg", r>> /\ ~ Blank(r)
    BY <1>0, <1>3 DEF r
  <2>. QED
    BY <1>1, <1>3, <2>1, <2>2, <2>3 DEF KeepsTail
<1>5. Keeps(key, at, words)
  BY <1>0, <1>1, <1>3, <1>4 DEF Keeps
<1>6. Keeps(<<"reg", at>>, at, words)
  BY <1>5 DEF key
<1>7. Burst(at, words) \in SoundWrite
  <2> DEFINE n == 2
  <2>1. n \in 1 .. 32 /\ Len(words) = n /\ Place(at, n)
    BY <1>1, <1>2
  <2>. HIDE DEF n
  <2>. QED
    BY <1>1, <1>2, <1>6, <2>1, BurstSound
<1>. QED
  BY <1>7 DEF words

-----------------------------------------------------------------------------
(* The setters.                                                            *)

Writes(s) == s \in Seq(SoundWrite)

\* Writes, and how many of them there are at most.
Run(s, n) == s \in Seq(SoundWrite) /\ Len(s) <= n

LEMMA RunSetters ==
  ASSUME NEW load \in Load, NEW start \in Nat
  PROVE  /\ Run(set_lds(load), 32) /\ Run(set_gds(load), 32) /\ Run(select_se(load), 32)
         /\ Run(set_export(start), 32) /\ Run(set_tmp_ring(start), 32) /\ Run(no_tmp_ring, 32)
<1>1. /\ UpTo(load, \hffff) \in Int /\ UpTo(load, \h3fff) \in Int
      /\ UpTo(load, \h3ffff) \in Int
  BY DEF Load, UpTo
<1>2. 14 \in Bit /\ 16 \in Bit /\ 30 \in Bit /\ 31 \in Bit
  BY DEF Bit
<1>3. Size(start) \in Int
  BY DEF Size
<1>4. Run(set_lds(load), 32)
  <2>1. /\ Field(16, UpTo(load, \hffff)) \in Val
        /\ Plainly(UpTo(load, \h3fff)) \in Val /\ Field(14, UpTo(load, \h3ffff)) \in Val
    BY <1>1, <1>2, ValType
  <2>2. Plainly(UpTo(load, \h3fff)) \cup Field(14, UpTo(load, \h3ffff)) \in Val
    BY <2>1, ValType
  <2>3. Spot(\h8e2c) /\ Spot(\h288e8)
    BY SMT DEF Spot, Ordinary, Blank
  <2>. QED
    BY <2>1, <2>2, <2>3, SpotWrite, SMT DEF set_lds, Run
<1>5. Run(set_gds(load), 32)
  <2>1. Spot(\h28728) /\ Spot(\h28720) /\ Spot(\h28724)
    BY SMT DEF Spot, Ordinary, Blank
  <2>2. /\ Plainly(1) \in Val
        /\ (IF load = 0 THEN Zero ELSE AllOnes) \in Val
    BY ValType
  <2>. QED
    BY <2>1, <2>2, SpotWrite, SMT DEF set_gds, Run
<1>6. Run(select_se(load), 32)
  <2>1. /\ Field(16, UpTo(load, \h3fff)) \in Val /\ Flag(30) \in Val
        /\ (IF load = 1 THEN Flag(31) ELSE Zero) \in Val
    BY <1>1, <1>2, ValType
  <2>2. Field(16, UpTo(load, \h3fff)) \cup Flag(30)
          \cup (IF load = 1 THEN Flag(31) ELSE Zero) \in Val
    BY <2>1 DEF Val
  <2>3. Spot(\h802c)
    BY SMT DEF Spot, Ordinary, Blank
  <2>. QED
    BY <2>2, <2>3, SpotWrite, SMT DEF select_se, Run
<1>7. Run(set_export(start), 32) /\ Run(set_tmp_ring(start), 32) /\ Run(no_tmp_ring, 32)
  <2>1. Spot(\h9010) /\ Spot(\h9014) /\ Spot(\h8e10) /\ Spot(\h8e14)
    BY SMT DEF Spot, Ordinary, Blank
  <2>2. /\ Plainly(256 * start) \in Val /\ Plainly(4 * Size(start)) \in Val
        /\ Zero \in Val
    BY <1>3, ValType
  <2>3. /\ Write(\h9010, Plainly(256 * start)) \in SoundWrite
        /\ Write(\h9014, Plainly(4 * Size(start))) \in SoundWrite
        /\ Write(\h8e10, Plainly(256 * start)) \in SoundWrite
        /\ Write(\h8e14, Plainly(4 * Size(start))) \in SoundWrite
        /\ Write(\h8e14, Zero) \in SoundWrite
    BY <2>1, <2>2, SpotWrite, SMT
  <2>. QED
    BY <2>3, RelocatedSound, SMT DEF set_export, set_tmp_ring, no_tmp_ring, Run
<1>. QED
  BY <1>4, <1>5, <1>6, <1>7

LEMMA RunPrepare ==
  ASSUME NEW load \in Load
  PROVE  Run(prepare_compute_shader(load), 32)
<1>1. UpTo(load, 255) \in Int /\ UpTo(load, 15) \in Int
  BY DEF Load, UpTo
<1>2. /\ {27} \in SUBSET Bit /\ {0, 1} \in SUBSET Bit
      /\ 8 \in Bit /\ 16 \in Bit /\ 18 \in Bit /\ 28 \in Bit
  BY DEF Bit
<1>3. set_surface_sync({27}, 256) \in SoundWrite
  BY <1>2, SyncSound
<1>4. Relocated(Write(\h288d0, Zero)) \in SoundWrite
  BY RegZero, RelocatedSound, SMT
<1>5. Burst(\h288d4, <<Plainly(UpTo(load, 255)) \cup Field(8, UpTo(load, 255)), Zero>>)
        \in SoundWrite
  <2>0. Plainly(UpTo(load, 255)) \in Val /\ Field(8, UpTo(load, 255)) \in Val
    BY <1>1, <1>2, ValType
  <2>1. Plainly(UpTo(load, 255)) \cup Field(8, UpTo(load, 255)) \in Val /\ Zero \in Val
    BY <2>0, ValType
  <2>2. \A u : PairFits(\h288d4, u, Zero)
    BY SMT DEF PairFits, Ordinary, Blank
  <2>. QED
    BY <2>1, <2>2, ContextPair, SMT
<1>6. Zero \in Val /\ AllOnes \in Val /\ Literal({0, 1}) \in Val /\ Field(18, 1) \in Val
  BY <1>2, ValType
<1>7. Literal({0, 1}) \cup Field(18, 1) \in Val
  BY <1>6, ValType
<1>8. /\ Field(28, UpTo(load, 15)) \in Val /\ Field(16, 16) \in Val
      /\ Field(16, 64) \in Val /\ Field(8, 64) \in Val
  <2>1. \A shift \in Bit, n \in Int : Field(shift, n) \in Val
    BY ValType
  <2>2. Field(28, UpTo(load, 15)) \in Val /\ Field(16, 16) \in Val
    BY <1>1, <1>2, <2>1
  <2>3. Field(16, 64) \in Val /\ Field(8, 64) \in Val
    BY <1>2, <2>1
  <2>. QED
    BY <2>2, <2>3
<1>9. /\ Spot(\h8c00) /\ Spot(\h8c04) /\ Spot(\h8c0c) /\ Spot(\h8e20) /\ Spot(\h8e24)
      /\ Spot(\h8e28) /\ Spot(\h8c28) /\ Spot(\h8c1c)
  BY SMT DEF Spot, Ordinary, Blank
<1>10. /\ Write(\h8c00, Literal({0, 1}) \cup Field(18, 1)) \in SoundWrite
       /\ Write(\h8c04, Field(28, UpTo(load, 15))) \in SoundWrite
       /\ Write(\h8c0c, Field(16, 16)) \in SoundWrite
       /\ Write(\h8e20, AllOnes) \in SoundWrite /\ Write(\h8e24, AllOnes) \in SoundWrite
       /\ Write(\h8e28, AllOnes) \in SoundWrite
       /\ Write(\h8c28, Field(16, 64)) \in SoundWrite
       /\ Write(\h8c1c, Field(8, 64)) \in SoundWrite
  BY <1>6, <1>7, <1>8, <1>9, SpotWrite, SMT
<1>11. /\ Write(\h8c08, Zero) \in SoundWrite /\ Write(\h286c8, Zero) \in SoundWrite
       /\ Write(\h8c10, Zero) \in SoundWrite /\ Write(\h8c14, Zero) \in SoundWrite
       /\ Write(\h8c20, Zero) \in SoundWrite /\ Write(\h8c24, Zero) \in SoundWrite
       /\ Write(\h8c18, Zero) \in SoundWrite
  BY RegZero, SMT
<1>. QED
  BY <1>3, <1>4, <1>5, <1>10, <1>11, SMT DEF prepare_compute_shader, Run


\* The elements of the RAT arrays lie in the context registers, in both strides.
At(at, n) == at \in Nat /\ Place(at, n)

RatPlace(id) ==
  /\ At(Base(id), 1) /\ At(Info(id), 1) /\ At(Attrib(id), 1) /\ At(Dim(id), 1)
  /\ At(Pitch(id), 1) /\ At(Slice(id), 1) /\ At(View(id), 1)
  /\ At(Cmask(id), 1) /\ At(Fmask(id), 1)
  /\ At(CmaskSlice(id), 1) /\ At(FmaskSlice(id), 1)
  /\ At(ClearWord(id), 4) /\ At(Immed(id), 1)

LEMMA RatPlaces ==
  ASSUME NEW id \in 0 .. 11
  PROVE  RatPlace(id)
<1> DEFINE d == RatOffset(id)
<1>1. d \in Nat /\ d <= 564 /\ d % 4 = 0
  BY SMT DEF RatOffset
<1>. HIDE DEF d
<1>2. ASSUME NEW at \in Nat, NEW n \in {1, 4}, at % 4 = 0,
             163840 <= at, at + 4 * n <= 167936
      PROVE  At(at, n)
  BY <1>2, Places, SMT DEF At
<1>3. At(Base(id), 1) /\ At(Info(id), 1) /\ At(Attrib(id), 1) /\ At(Dim(id), 1)
  BY <1>1, <1>2, SMT DEF Base, Info, Attrib, Dim, d
<1>4. At(Pitch(id), 1) /\ At(Slice(id), 1) /\ At(View(id), 1)
  BY <1>1, <1>2, SMT DEF Pitch, Slice, View, d
<1>5. At(Cmask(id), 1) /\ At(Fmask(id), 1) /\ At(CmaskSlice(id), 1)
  BY <1>1, <1>2, SMT DEF Cmask, Fmask, CmaskSlice, d
<1>6. At(FmaskSlice(id), 1) /\ At(ClearWord(id), 4)
  BY <1>1, <1>2, SMT DEF FmaskSlice, ClearWord, d
<1>7. At(Immed(id), 1)
  BY <1>2, SMT DEF Immed, CB_IMMED0_BASE
<1>. QED
  BY <1>3, <1>4, <1>5, <1>6, <1>7 DEF RatPlace

\* An element of an array that takes one dword.
LEMMA OneElement ==
  ASSUME NEW at, At(at, 1), NEW v \in Val, NEW name \in Name, NEW i \in Int,
         Own(name, i, at)
  PROVE  Element(name, i, at, <<v>>) \in SoundWrite
<1>1. <<v>> \in Seq(Val) /\ Len(<<v>>) = 1 /\ 1 \in 1 .. 32
  OBVIOUS
<1>2. Keeps(<<name, i>>, at, <<v>>) /\ at # 0
  BY OneKeeps DEF Own
<1> DEFINE words == <<v>>
<1>. HIDE DEF words
<1>. QED
  BY <1>1, <1>2, ElementSound DEF At, words

LEMMA Joined ==
  ASSUME NEW m \in Nat, NEW n \in Nat, NEW k \in Nat, m + n = k,
         NEW s, Run(s, m), NEW t, Run(t, n)
  PROVE  Run(s \o t, k)
  BY DEF Run

LEMMA RunRat ==
  ASSUME NEW id \in 0 .. 11, NEW start \in Nat
  PROVE  Run(set_rat(id, start), 32)
<1>0. 2 \in Bit /\ 4 \in Bit /\ 8 \in Bit /\ 12 \in Bit /\ 26 \in Bit
  BY DEF Bit
<1>1. /\ Plainly(start) \in Val /\ RatInfoWord \in Val /\ Flag(4) \in Val
      /\ Plainly(Size(start)) \in Val /\ Zero \in Val
  <2>1. Size(start) \in Int
    BY DEF Size
  <2>2. /\ Flag(26) \in Val /\ Field(2, 13) \in Val /\ Field(8, 1) \in Val
        /\ Field(12, 4) \in Val
    BY <1>0, ValType
  <2>3. RatInfoWord \in Val
    BY <2>2, ValType DEF RatInfoWord
  <2>. QED
    BY <1>0, <2>1, <2>3, ValType
<1> DEFINE one == <<Relocated(Element("BASE", id, Base(id), <<Plainly(start)>>))>>
           two == IF id < 6
                  THEN <<Relocated(Element("IMMED", id, Immed(id), <<Plainly(start)>>))>>
                  ELSE <<>>
           three == <<Relocated(Element("INFO", id, Info(id), <<RatInfoWord>>)),
                      Relocated(Element("ATTRIB", id, Attrib(id), <<Flag(4)>>)),
                      Element("DIM", id, Dim(id), <<Plainly(Size(start))>>)>>
           four == IF id < 8
                   THEN <<Relocated(Element("CMASK", id, Cmask(id), <<Zero>>)),
                          Relocated(Element("FMASK", id, Fmask(id), <<Zero>>))>>
                   ELSE <<>>
<1>7. RatPlace(id) /\ RatOwned(id) /\ (id < 8 => TargetOwned(id))
  BY RatPlaces, RatOwners
<1>2. one \in Seq(SoundWrite) /\ Len(one) = 1
  BY <1>1, <1>7, OneElement, Names, RelocatedSound DEF RatPlace, RatOwned
<1>3. two \in Seq(SoundWrite) /\ Len(two) <= 1
  <2>1. id < 6 => Own("IMMED", id, Immed(id))
    BY ImmedOwner
  <2>. QED
    BY <1>1, <1>7, <2>1, OneElement, Names, RelocatedSound DEF RatPlace
<1>4. three \in Seq(SoundWrite) /\ Len(three) = 3
  BY <1>1, <1>7, OneElement, Names, RelocatedSound DEF RatPlace, RatOwned
<1>5. four \in Seq(SoundWrite) /\ Len(four) <= 2
  BY <1>1, <1>7, OneElement, Names, RelocatedSound DEF RatPlace, TargetOwned
<1>6. set_rat(id, start) = ((one \o two) \o three) \o four
  BY DEF set_rat
<1>. HIDE DEF one, two, three, four
<1>. QED
  <2>1. Run(one, 1) /\ Run(two, 1) /\ Run(three, 3) /\ Run(four, 2)
    BY <1>2, <1>3, <1>4, <1>5 DEF Run
  <2>2. Run(one \o two, 2)
    BY <2>1, Joined
  <2>3. Run((one \o two) \o three, 5)
    BY <2>1, <2>2, Joined
  <2>4. Run(((one \o two) \o three) \o four, 7)
    BY <2>1, <2>3, Joined
  <2>. QED
    BY <1>6, <2>4 DEF Run

LEMMA ClearWordSound ==
  ASSUME NEW id \in 0 .. 7
  PROVE  Element("CLEAR_WORD", id, ClearWord(id), Zeros(4)) \in SoundWrite
<1> DEFINE words == Zeros(4)
           n == 4
           at == ClearWord(id)
<1>1. At(at, n)
  BY RatPlaces DEF RatPlace
<1>2. Own("CLEAR_WORD", id, at) /\ Room(at, n)
  BY RatOwners DEF TargetOwned, Room
<1>3. words \in Seq(Val) /\ Len(words) = n /\ n \in 1 .. 32 /\ id \in Int
  BY ZerosType
<1>. HIDE DEF words, at, n
<1>4. Keeps(<<"CLEAR_WORD", id>>, at, words)
  BY <1>2, <1>3, ElementKeeps, Names
<1>6. at \in Nat /\ at # 0 /\ Len(words) \in 1 .. 32 /\ Place(at, Len(words))
  BY <1>1, <1>2, <1>3 DEF At, Own
<1>5. Element("CLEAR_WORD", id, at, words) \in SoundWrite
  BY <1>3, <1>4, <1>6, ElementSound, Names
<1>. QED
  BY <1>5 DEF words, at

LEMMA RunRatDefaults ==
  ASSUME NEW id \in 0 .. 11
  PROVE  Run(set_rat_defaults(id), 32)
<1> DEFINE one == <<Element("PITCH", id, Pitch(id), <<Zero>>),
                    Element("SLICE", id, Slice(id), <<Zero>>),
                    Element("VIEW", id, View(id), <<Zero>>),
                    Element("DIM", id, Dim(id), <<Zero>>)>>
           two == IF id < 8
                  THEN <<Element("CMASK_SLICE", id, CmaskSlice(id), <<Zero>>),
                         Element("FMASK_SLICE", id, FmaskSlice(id), <<Zero>>),
                         Element("CLEAR_WORD", id, ClearWord(id), Zeros(4))>>
                  ELSE <<>>
<1>0. RatPlace(id) /\ RatOwned(id) /\ (id < 8 => TargetOwned(id))
  BY RatPlaces, RatOwners
<1>1. one \in Seq(SoundWrite) /\ Len(one) = 4
  BY <1>0, OneElement, Names, ValType DEF RatPlace, RatOwned
<1>2. two \in Seq(SoundWrite) /\ Len(two) <= 3
  <2>1. CASE id < 8
    <3>1. Element("CLEAR_WORD", id, ClearWord(id), Zeros(4)) \in SoundWrite
      BY <2>1, ClearWordSound
    <3>2. /\ Element("CMASK_SLICE", id, CmaskSlice(id), <<Zero>>) \in SoundWrite
          /\ Element("FMASK_SLICE", id, FmaskSlice(id), <<Zero>>) \in SoundWrite
      BY <1>0, <2>1, OneElement, Names, ValType DEF RatPlace, TargetOwned
    <3>. QED
      BY <2>1, <3>1, <3>2
  <2>2. CASE ~ (id < 8)
    BY <2>2
  <2>. QED
    BY <2>1, <2>2
<1>3. set_rat_defaults(id) = one \o two
  BY DEF set_rat_defaults
<1>. HIDE DEF one, two
<1>4. Run(one, 4) /\ Run(two, 3)
  BY <1>1, <1>2 DEF Run
<1>5. Run(one \o two, 7)
  BY <1>4, Joined
<1>. QED
  BY <1>3, <1>5 DEF Run

LEMMA RunLoopConsts ==
  ASSUME NEW n \in 0 .. 32, NEW count \in Int, NEW init \in Int, NEW inc \in Int
  PROVE  Run(LoopConsts(n, count, init, inc), 32)
<1> DEFINE v == Plainly(count) \cup Field(12, init) \cup Field(24, inc)
<1>0. 12 \in Bit /\ 24 \in Bit
  BY DEF Bit
<1>1. v \in Val
  BY <1>0, ValType
<1>2. LoopConsts(n, count, init, inc)
        = [i \in 1 .. n |-> Element("LOOP", i - 1, LoopConst(i - 1), <<v>>)]
  BY DEF LoopConsts
<1>. HIDE DEF v
<1>3. ASSUME NEW i \in 1 .. n
      PROVE  Element("LOOP", i - 1, LoopConst(i - 1), <<v>>) \in SoundWrite
  <2> DEFINE at == LoopConst(i - 1)
  <2>1. at \in Nat /\ at % 4 = 0 /\ 238080 <= at /\ at + 4 * 1 <= 238848
    BY SMT DEF LoopConst
  <2>. HIDE DEF at
  <2>2. At(at, 1)
    BY <2>1, Places, SMT DEF At
  <2>3. Own("LOOP", i - 1, at) /\ i - 1 \in Int
    <3>1. i - 1 \in 0 .. 31
      OBVIOUS
    <3>. QED
      BY <3>1, LoopOwner DEF at
  <2>. QED
    BY <1>1, <2>2, <2>3, OneElement, Names DEF at
<1>. QED
  BY <1>2, <1>3 DEF Run


LEMMA RunCache ==
  ASSUME NEW i \in 0 .. 15, NEW start \in Nat, NEW load \in Load
  PROVE  Run(setup_const_cache(i, start, load), 32)
<1>1. UpTo(load, 510) \in Int /\ {27} \in SUBSET Bit
  BY DEF Load, UpTo, Bit
<1>2. Plainly(UpTo(load, 510)) \in Val /\ Plainly(start) \in Val
  BY <1>1, ValType
<1>3. At(CacheSize(i), 1)
  <2> DEFINE at == CacheSize(i)
  <2>1. at \in Nat /\ at % 4 = 0 /\ 163840 <= at /\ at + 4 * 1 <= 167936
    BY SMT DEF CacheSize
  <2>. HIDE DEF at
  <2>2. At(at, 1)
    BY <2>1, Places, SMT DEF At
  <2>. QED
    BY <2>2 DEF at
<1>4. At(CacheBase(i), 1)
  <2> DEFINE at == CacheBase(i)
  <2>1. at \in Nat /\ at % 4 = 0 /\ 163840 <= at /\ at + 4 * 1 <= 167936
    BY SMT DEF CacheBase
  <2>. HIDE DEF at
  <2>2. At(at, 1)
    BY <2>1, Places, SMT DEF At
  <2>. QED
    BY <2>2 DEF at
<1>5. /\ set_surface_sync({27}, UpTo(load, 510)) \in SoundWrite
      /\ Element("CACHE_SIZE", i, CacheSize(i), <<Plainly(UpTo(load, 510))>>) \in SoundWrite
      /\ Relocated(Element("CACHE_BASE", i, CacheBase(i), <<Plainly(start)>>)) \in SoundWrite
  BY <1>1, <1>2, <1>3, <1>4, SyncSound, OneElement, Names, RelocatedSound, CacheOwners
<1>. QED
  BY <1>5 DEF setup_const_cache, Run

LEMMA RunFetch ==
  ASSUME NEW id \in Nat, 816 <= id, id <= 991, NEW start \in Nat, NEW hi \in {0, 511},
         NEW load \in Load
  PROVE  Run(set_vtx_resource(id, start, hi, load), 32)
<1> DEFINE n0 == Plainly(256 * start)
           n1 == Plainly(4 * Size(start) - 1)
           n2 == BaseHi(hi) \cup Field(8, 4 * UpTo(load, 511)) \cup Field(20, UpTo(load, 63))
                   \cup Field(26, UpTo(load, 3)) \cup Field(30, UpTo(load, 3))
                   \cup IF load = 1 THEN Literal({19, 28, 29}) ELSE Zero
           n3 == (UNION {Field(b, UpTo(load, 7)) : b \in {3, 6, 9, 12}})
                   \cup IF load = 1 THEN Flag(2) ELSE Zero
           n7 == Field(30, 3)
           words == <<n0, n1, n2, n3, Zero, Zero, Zero, n7>>
<1>1. /\ UpTo(load, 511) \in Int /\ UpTo(load, 63) \in Int
      /\ UpTo(load, 3) \in Int /\ UpTo(load, 7) \in Int
  BY DEF Load, UpTo
<1>2. /\ 2 \in Bit /\ 3 \in Bit /\ 6 \in Bit /\ 8 \in Bit /\ 9 \in Bit /\ 12 \in Bit
      /\ 20 \in Bit /\ 26 \in Bit /\ 30 \in Bit
      /\ {19, 28, 29} \in SUBSET Bit /\ {23, 24} \in SUBSET Bit
  BY DEF Bit
<1>3. 256 * start \in Int /\ 4 * Size(start) - 1 \in Int /\ 4 * Size(start) \in Int
  BY DEF Size
<1>4. n0 \in Val /\ n1 \in Val /\ n7 \in Val /\ Zero \in Val
  <2>1. \A n \in Int : Plainly(n) \in Val
    BY ValType
  <2>2. n0 \in Val
    BY <1>3, <2>1
  <2>3. n1 \in Val
    BY <1>3, <2>1
  <2>. QED
    BY <1>2, <2>2, <2>3, ValType
<1>5. n2 \in Val
  <2>1. BaseHi(hi) \in Val
    <3>1. hi % 256 \in Int
      OBVIOUS
    <3>. QED
      BY <3>1, ValType DEF BaseHi
  <2>2. 4 * UpTo(load, 511) \in Int
    BY <1>1
  <2>3. \A shift \in Bit, n \in Int : Field(shift, n) \in Val
    BY ValType
  <2>4. Field(8, 4 * UpTo(load, 511)) \in Val /\ Field(20, UpTo(load, 63)) \in Val
    BY <1>1, <1>2, <2>2, <2>3
  <2>5. Field(26, UpTo(load, 3)) \in Val /\ Field(30, UpTo(load, 3)) \in Val
    BY <1>1, <1>2, <2>3
  <2>6. Literal({19, 28, 29}) \in Val
    BY <1>2, LiteralType
  <2>7. (IF load = 1 THEN Literal({19, 28, 29}) ELSE Zero) \in Val
    BY <1>4, <2>6
  <2>. DEFINE p0 == BaseHi(hi)
             p1 == Field(8, 4 * UpTo(load, 511))
             p2 == Field(20, UpTo(load, 63))
             p3 == Field(26, UpTo(load, 3))
             p4 == Field(30, UpTo(load, 3))
             p5 == IF load = 1 THEN Literal({19, 28, 29}) ELSE Zero
  <2>9. /\ p0 \in Val /\ p1 \in Val /\ p2 \in Val
        /\ p3 \in Val /\ p4 \in Val /\ p5 \in Val
    BY <2>1, <2>4, <2>5, <2>7
  <2>10. n2 = ((((p0 \cup p1) \cup p2) \cup p3) \cup p4) \cup p5
    OBVIOUS
  <2>. HIDE DEF n0, n1, n2, n3, n7, words, p0, p1, p2, p3, p4, p5
  <2>11. (p0 \cup p1) \cup p2 \in Val
    <3>1. p0 \cup p1 \in Val
      BY UnionType, <2>9
    <3>. QED
      BY <3>1, UnionType, <2>9
  <2>12. (((p0 \cup p1) \cup p2) \cup p3) \cup p4 \in Val
    <3>1. ((p0 \cup p1) \cup p2) \cup p3 \in Val
      BY UnionType, <2>9, <2>11
    <3>. QED
      BY <3>1, UnionType, <2>9
  <2>13. ((((p0 \cup p1) \cup p2) \cup p3) \cup p4) \cup p5 \in Val
    BY UnionType, <2>9, <2>12
  <2>. QED
    BY <2>10, <2>13
<1>6. n3 \in Val
  <2>1. \A b \in {3, 6, 9, 12} : Field(b, UpTo(load, 7)) \in Val
    <3>1. \A shift \in Bit, n \in Int : Field(shift, n) \in Val
      BY ValType
    <3>. QED
      BY <1>1, <1>2, <3>1
  <2>2. Flag(2) \in Val
    BY <1>2, ValType
  <2>. QED
    BY <1>4, <2>1, <2>2 DEF Val
<1>. HIDE DEF n0, n1, n2, n3, n7
<1>7. words \in Seq(Val) /\ Len(words) = 8
  BY <1>4, <1>5, <1>6
<1>8. At(Fetch(id), 8)
  <2> DEFINE at == Fetch(id)
  <2>1. at \in Nat /\ at % 4 = 0 /\ 196608 <= at /\ at + 4 * 8 <= 229376
    BY SMT DEF Fetch
  <2>. HIDE DEF at
  <2>2. At(at, 8)
    BY <2>1, Places, SMT DEF At
  <2>. QED
    BY <2>2 DEF at
<1>9. set_vtx_resource(id, start, hi, load)
        = <<set_surface_sync({23, 24}, 4 * Size(start)),
            Relocated(Element("FETCH", id, Fetch(id), words))>>
  BY DEF set_vtx_resource, n0, n1, n2, n3, n7
<1>. HIDE DEF words
<1>10. Element("FETCH", id, Fetch(id), words) \in SoundWrite
  <2> DEFINE at == Fetch(id)
             n == 8
  <2>1. Own("FETCH", id, at) /\ Room(at, n)
    BY FetchOwner DEF Room
  <2>2. At(at, n) /\ Len(words) = n /\ n \in 1 .. 32 /\ id \in Int
    BY <1>7, <1>8
  <2>. HIDE DEF at, n
  <2>3. Keeps(<<"FETCH", id>>, at, words)
    BY <1>7, <2>1, <2>2, ElementKeeps, Names
  <2>4. Element("FETCH", id, at, words) \in SoundWrite
    BY <1>7, <2>1, <2>2, <2>3, ElementSound, Names DEF At, Own
  <2>. QED
    BY <2>4 DEF at
<1>11. Relocated(Element("FETCH", id, Fetch(id), words)) \in SoundWrite
  BY <1>10, RelocatedSound
<1>12. set_surface_sync({23, 24}, 4 * Size(start)) \in SoundWrite
  BY <1>2, <1>3, SyncSound
<1>. QED
  BY <1>9, <1>11, <1>12 DEF Run

\* A dispatch with the writes of registers before it, one of them for the
\* width of a group, which the default state leaves to the dispatch.
Late == <<"reg", \h286ec>>

Launch(w) == w \in FormedWrite /\ w.op = "DISPATCH_DIRECT" /\ w.at = 0

Launches(s) ==
  /\ s \in Seq(FormedWrite) /\ s # <<>>
  /\ \A i \in DOMAIN s : i < Len(s) => s[i] \in SoundWrite
  /\ Launch(s[Len(s)])

IsFor(w, key) == w.key = key /\ w.at # 0

Coming(key, s) == \E i \in DOMAIN s : IsFor(s[i], key)

LEMMA SoundFormed == SoundWrite \subseteq FormedWrite
  BY DEF SoundWrite

LEMMA RunDispatch ==
  ASSUME NEW local \in Seq(Nat), Product(local) \in Nat
  PROVE  /\ Launches(direct_dispatch(local)) /\ Coming(Late, direct_dispatch(local))
         /\ Len(direct_dispatch(local)) <= 32
<1> DEFINE size(d) == Plainly(IF d <= Len(local) THEN local[d] ELSE 1)
           all == Plainly(Product(local))
           groups == [i \in 1 .. 4 |-> Plainly(1)]
<1>1. \A d \in 1 .. 3 : size(d) \in Val
  <2>. SUFFICES ASSUME NEW d \in 1 .. 3
                PROVE  size(d) \in Val
    OBVIOUS
  <2>1. (IF d <= Len(local) THEN local[d] ELSE 1) \in Int
    BY ElementOfSeq
  <2>. QED
    BY <2>1, ValType
<1>2. all \in Val /\ Plainly(1) \in Val
  BY ValType
<1> DEFINE p == Packet("DISPATCH_DIRECT", groups)
<1>3. Launch(p)
  <2> DEFINE n == 4
             op == "DISPATCH_DIRECT"
  <2>1. groups \in Seq(Val) /\ Len(groups) = n /\ n \in 1 .. 32
    BY <1>2
  <2>2. op \in {"CONTEXT_CONTROL", "DISPATCH_DIRECT"}
    OBVIOUS
  <2>. HIDE DEF groups, n, op
  <2>3. LET w == Packet(op, groups)
        IN  w \in FormedWrite /\ w.at = 0 /\ w.op = op /\ w.reloc = FALSE
    BY <2>1, <2>2, PacketFormed
  <2>. QED
    BY <2>3 DEF Launch, op
<1>4. direct_dispatch(local) =
        <<Write(\h8958, Plainly(1)),
          Write(\h899c, Zero), Write(\h89a0, Zero), Write(\h89a4, Zero),
          Write(\h286ec, size(1)), Write(\h286f0, size(2)), Write(\h286f4, size(3)),
          Write(\h8970, all), Write(\h89ac, all), p>>
  BY DEF direct_dispatch
<1>5. size(1) \in Val /\ size(2) \in Val /\ size(3) \in Val
  BY <1>1
<1>. HIDE DEF size, all, groups, p
<1>6. /\ Spot(\h8958) /\ Spot(\h286ec) /\ Spot(\h286f0) /\ Spot(\h286f4)
      /\ Spot(\h8970) /\ Spot(\h89ac)
  BY SMT DEF Spot, Ordinary, Blank
<1> DEFINE w1 == Write(\h8958, Plainly(1))
           w2 == Write(\h899c, Zero)
           w3 == Write(\h89a0, Zero)
           w4 == Write(\h89a4, Zero)
           w5 == Write(\h286ec, size(1))
           w6 == Write(\h286f0, size(2))
           w7 == Write(\h286f4, size(3))
           w8 == Write(\h8970, all)
           w9 == Write(\h89ac, all)
           s == <<w1, w2, w3, w4, w5, w6, w7, w8, w9, p>>
<1>7. /\ w1 \in SoundWrite /\ w5 \in SoundWrite /\ w6 \in SoundWrite /\ w7 \in SoundWrite
      /\ w8 \in SoundWrite /\ w9 \in SoundWrite
  BY <1>2, <1>5, <1>6, SpotWrite, SMT
<1>8. w2 \in SoundWrite /\ w3 \in SoundWrite /\ w4 \in SoundWrite
  BY RegZero, SMT
<1>9. IsFor(w5, Late)
  BY SMT DEF Write, Burst, Late, IsFor
<1>10. direct_dispatch(local) = s
  BY <1>4, SMT
<1>. HIDE DEF w1, w2, w3, w4, w5, w6, w7, w8, w9
<1>11. /\ s \in Seq(FormedWrite) /\ Len(s) = 10 /\ s[10] = p /\ s[5] = w5
  BY <1>3, <1>7, <1>8, SoundFormed DEF Launch
<1>12. \A i \in DOMAIN s : i < 10 => s[i] \in SoundWrite
  <2>1. /\ s[1] = w1 /\ s[2] = w2 /\ s[3] = w3 /\ s[4] = w4 /\ s[5] = w5 /\ s[6] = w6
        /\ s[7] = w7 /\ s[8] = w8 /\ s[9] = w9
    OBVIOUS
  <2>. HIDE DEF s
  <2>2. DOMAIN s = 1 .. 10
    BY <1>11
  <2>3. \A i \in 1 .. 10 : i < 10 => i \in {1, 2, 3, 4, 5, 6, 7, 8, 9}
    OBVIOUS
  <2>. QED
    BY <1>7, <1>8, <2>1, <2>2, <2>3
<1>. HIDE DEF s
<1>13. s # <<>> /\ 5 \in DOMAIN s
  <2>1. DOMAIN s = 1 .. 10 /\ Len(s) # 0
    BY <1>11
  <2>2. 5 \in 1 .. 10 /\ Len(<<>>) = 0
    OBVIOUS
  <2>. QED
    BY <2>1, <2>2
<1>14. Launches(s)
  BY <1>3, <1>11, <1>12, <1>13 DEF Launches
<1>15. Coming(Late, s)
  BY <1>9, <1>11, <1>13, Zenon DEF Coming
<1>16. Len(s) <= 32
  BY <1>11
<1>. QED
  BY <1>10, <1>14, <1>15, <1>16


-----------------------------------------------------------------------------
(* The default state.                                                      *)

\* More writes than any setter makes.
Many(s) == Writes(s) /\ Len(s) >= 32

AtLeast(s, n) == Writes(s) /\ Len(s) >= n

LEMMA Longer ==
  ASSUME NEW m \in Nat, NEW n \in Nat, NEW k \in Nat, m + n = k,
         NEW s, AtLeast(s, m), NEW t, AtLeast(t, n)
  PROVE  AtLeast(s \o t, k)
  BY DEF AtLeast, Writes

LEMMA Both ==
  ASSUME NEW s, NEW t, Writes(s), Writes(t)
  PROVE  Writes(s \o t) /\ (Many(s) \/ Many(t) => Many(s \o t))
  BY DEF Writes, Many

\* Bursts of zeros, behind the first over registers without a value.
Blanks(at, n) ==
  Ordinary(at) /\ Place(at, n) /\ \A i \in 2 .. n : Blank(at + 4 * (i - 1))

LEMMA ZerosSound ==
  ASSUME NEW at, NEW n \in 1 .. 32, Blanks(at, n)
  PROVE  Burst(at, Zeros(n)) \in SoundWrite
<1> DEFINE words == Zeros(n)
<1>1. Keeps(<<"reg", at>>, at, words)
  BY ZerosKeep DEF Blanks
<1>2. words \in Seq(Val) /\ Len(words) = n
  BY ZerosType
<1>3. at \in Nat /\ at # 0 /\ Place(at, n)
  BY OrdinaryReg DEF Blanks
<1>. HIDE DEF words
<1>4. Burst(at, words) \in SoundWrite
  BY <1>1, <1>2, <1>3, BurstSound
<1>. QED
  BY <1>4 DEF words

\* Rows of registers set to zero.
LEMMA OffWrites ==
  ASSUME NEW at \in Nat, NEW n \in 1 .. 32, at % 4 = 0,
         163840 <= at, at + 4 * n <= 166812
  PROVE  Writes(Off(at, n))
<1>1. ASSUME NEW i \in 1 .. n
      PROVE  Write(at + 4 * (i - 1), Zero) \in SoundWrite
  <2> DEFINE r == at + 4 * (i - 1)
  <2>1. r \in Nat /\ r % 4 = 0 /\ 163840 <= r /\ r < 166812
    BY SMT
  <2>. HIDE DEF r
  <2>2. Write(r, Zero) \in SoundWrite
    BY <2>1, RegZero
  <2>. QED
    BY <2>2 DEF r
<1>2. Off(at, n) = [i \in 1 .. n |-> Write(at + 4 * (i - 1), Zero)]
  BY DEF Off
<1>. QED
  BY <1>1, <1>2 DEF Writes

FlattensTo(f, ss, m) ==
  f = [i \in 1 .. m |-> IF i = 1 THEN ss[i] ELSE f[i - 1] \o ss[i]]

LEMMA FlattensExist ==
  ASSUME NEW W, NEW ss \in Seq(Seq(W)), NEW m \in 0 .. Len(ss)
  PROVE  \E f : FlattensTo(f, ss, m)
<1> DEFINE Bad == {n \in 0 .. Len(ss) : ~ \E f : FlattensTo(f, ss, n)}
<1>. SUFFICES ASSUME Bad # {} PROVE FALSE
  OBVIOUS
<1>1. PICK n \in Bad : \A k \in Bad : ~ (k < n)
  <2>1. Bad \in SUBSET Nat
    OBVIOUS
  <2>. HIDE DEF Bad
  <2>. QED
    BY <2>1, Least
<1>2. n \in 0 .. Len(ss) /\ ~ \E f : FlattensTo(f, ss, n)
  BY <1>1
<1>3. n # 0
  <2> DEFINE f == [i \in 1 .. 0 |-> 0]
  <2>1. FlattensTo(f, ss, 0)
    BY DEF FlattensTo
  <2>. QED
    BY <1>2, <2>1
<1>4. n - 1 \in 0 .. Len(ss) /\ n - 1 < n
  BY <1>2, <1>3
<1>5. PICK f : FlattensTo(f, ss, n - 1)
  BY <1>1, <1>4
<1> DEFINE g == [i \in 1 .. n |-> IF i = 1 THEN ss[i] ELSE f[i - 1] \o ss[i]]
<1>6. ASSUME NEW i \in 1 .. n
      PROVE  g[i] = IF i = 1 THEN ss[i] ELSE g[i - 1] \o ss[i]
  <2>1. CASE i = 1
    BY <2>1
  <2>2. CASE i # 1
    <3>1. i - 1 \in 1 .. n - 1 /\ i - 1 \in 1 .. n
      BY <1>2, <2>2
    <3>2. f[i - 1] = IF i - 1 = 1 THEN ss[i - 1] ELSE f[i - 1 - 1] \o ss[i - 1]
      BY <1>5, <3>1 DEF FlattensTo
    <3>3. f[i - 1] = g[i - 1]
      BY <3>1, <3>2
    <3>. QED
      BY <2>2, <3>3
  <2>. QED
    BY <2>1, <2>2
<1>7. g = [i \in 1 .. n |-> g[i]]
  OBVIOUS
<1>. HIDE DEF g
<1>8. FlattensTo(g, ss, n)
  BY <1>6, <1>7 DEF FlattensTo
<1>. QED
  BY <1>2, <1>8

LEMMA Flattened ==
  ASSUME NEW W, NEW ss \in Seq(Seq(W)), ss # <<>>
  PROVE  FlattenSeq(ss) \in Seq(W)
<1> DEFINE m == Len(ss)
           f == CHOOSE f : FlattensTo(f, ss, m)
           Bad == {n \in 1 .. m : f[n] \notin Seq(W)}
<1>0. m \in Nat \ {0}
  OBVIOUS
<1>1. FlattensTo(f, ss, m)
  <2>1. m \in 0 .. Len(ss)
    OBVIOUS
  <2>. QED
    BY <2>1, FlattensExist
<1>2. FlattenSeq(ss) = f[m]
  BY <1>0 DEF FlattenSeq, FlattensTo
<1>. HIDE DEF f
<1>3. \A i \in 1 .. m : f[i] = IF i = 1 THEN ss[i] ELSE f[i - 1] \o ss[i]
  BY <1>1 DEF FlattensTo
<1>4. ASSUME Bad # {} PROVE FALSE
  <2>1. PICK n \in Bad : \A k \in Bad : ~ (k < n)
    <3>1. Bad \in SUBSET Nat
      BY <1>0
    <3>. HIDE DEF Bad
    <3>. QED
      BY <1>4, <3>1, Least
  <2>2. n \in 1 .. m /\ ss[n] \in Seq(W)
    BY <2>1
  <2>3. n # 1
    BY <1>3, <2>1, <2>2
  <2>4. n - 1 \in 1 .. m /\ n - 1 < n
    BY <1>0, <2>2, <2>3
  <2>5. f[n - 1] \in Seq(W)
    BY <2>1, <2>4
  <2>6. f[n - 1] \o ss[n] \in Seq(W)
    BY <2>2, <2>5
  <2>7. f[n] = f[n - 1] \o ss[n]
    BY <1>3, <2>2, <2>3
  <2>. QED
    BY <2>1, <2>6, <2>7
<1>. QED
  BY <1>0, <1>2, <1>4

LEMMA SmallDefaults ==
  /\ Writes(start_3d) /\ Writes(set_sx_defaults) /\ Writes(<<Write(\h9014, Zero)>>)
  /\ Writes(set_dummy_scissors)
<1>1. 31 \in Bit
  BY DEF Bit
<1>2. Zero \in Val /\ Flag(31) \in Val /\ Pair(16, 16) \in Val
  BY <1>1, ValType
<1>3. Writes(start_3d)
  <2> DEFINE words == <<Flag(31), Flag(31)>>
  <2>1. words \in Seq(Val) /\ Len(words) = 2
    BY <1>2
  <2>2. start_3d = <<Packet("CONTEXT_CONTROL", words)>>
    BY DEF start_3d
  <2> DEFINE n == 2
             op == "CONTEXT_CONTROL"
             w == Packet(op, words)
  <2>3. Len(words) = n /\ n \in 1 .. 32 /\ op \in {"CONTEXT_CONTROL", "DISPATCH_DIRECT"}
    BY <2>1
  <2>. HIDE DEF words, n, op
  <2>4. w \in FormedWrite /\ w.at = 0 /\ w.op = op
    BY <2>1, <2>3, PacketFormed
  <2>5. w \in SoundWrite
    BY <2>4 DEF SoundWrite, op
  <2>. QED
    BY <2>2, <2>5 DEF Writes, op
<1>4. Writes(set_sx_defaults) /\ Writes(<<Write(\h9014, Zero)>>)
  <2>1. Blanks(\h28410, 5)
    BY SMT DEF Blanks, Ordinary, Blank, Place, InSpace, Inside, Space
  <2>2. Burst(\h28410, Zeros(5)) \in SoundWrite
    BY <2>1, ZerosSound, SMT
  <2>3. Write(\h28350, Zero) \in SoundWrite /\ Write(\h9014, Zero) \in SoundWrite
    BY RegZero, SMT
  <2>. QED
    BY <2>2, <2>3, SMT DEF set_sx_defaults, Writes
<1>5. Writes(set_dummy_scissors)
  <2>1. Flag(31) # Zero /\ Pair(16, 16) # Zero
    BY NonZero, SMT DEF Flag
  <2>2. /\ PairFits(\h28240, Flag(31), Pair(16, 16)) /\ PairFits(\h28030, Zero, Pair(16, 16))
        /\ PairFits(\h28204, Flag(31), Pair(16, 16))
    BY <2>1, SMT DEF PairFits, Ordinary, Blank
  <2>3. /\ Burst(\h28240, <<Flag(31), Pair(16, 16)>>) \in SoundWrite
        /\ Burst(\h28030, <<Zero, Pair(16, 16)>>) \in SoundWrite
        /\ Burst(\h28204, <<Flag(31), Pair(16, 16)>>) \in SoundWrite
    BY <1>2, <2>2, ContextPair, SMT
  <2>. QED
    BY <2>3, SMT DEF set_dummy_scissors, Writes
<1>. QED
  BY <1>3, <1>4, <1>5

LEMMA DbDefaults ==
  Writes(set_db_defaults)
<1> DEFINE one == <<Write(\h28800, Zero), Write(\h2880c, Zero), Write(\h28000, Flag(12))>>
           two == <<Burst(\h2800c, Zeros(2)), Write(\h28ac8, Zero), Burst(\h28ac0, Zeros(2))>>
           three == <<Write(\h28b70, Zero)>>
<1>1. Zero \in Val /\ Flag(12) \in Val
  <2>1. 12 \in Bit
    BY DEF Bit
  <2>. QED
    BY <2>1, ValType
<1>2. Writes(one) /\ Writes(two) /\ Writes(three)
  <2>1. /\ Write(\h28800, Zero) \in SoundWrite /\ Write(\h2880c, Zero) \in SoundWrite
        /\ Write(\h28ac8, Zero) \in SoundWrite /\ Write(\h28b70, Zero) \in SoundWrite
    BY RegZero, SMT
  <2>2. Write(\h28000, Flag(12)) \in SoundWrite
    <3>1. Spot(\h28000)
      BY SMT DEF Spot, Ordinary, Blank
    <3>. QED
      BY <1>1, <3>1, SpotWrite, SMT
  <2>3. Blanks(\h2800c, 2) /\ Blanks(\h28ac0, 2)
    BY SMT DEF Blanks, Ordinary, Blank, Place, InSpace, Inside, Space
  <2>4. Burst(\h2800c, Zeros(2)) \in SoundWrite /\ Burst(\h28ac0, Zeros(2)) \in SoundWrite
    BY <2>3, ZerosSound, SMT
  <2>. QED
    BY <2>1, <2>2, <2>4, SMT DEF Writes
<1>3. Writes(Off(\h28004, 2)) /\ Writes(Off(\h28028, 2))
  BY OffWrites, SMT
<1>4. set_db_defaults = (((one \o Off(\h28004, 2)) \o two) \o Off(\h28028, 2)) \o three
  BY DEF set_db_defaults
<1>. HIDE DEF one, two, three
<1>. QED
  BY <1>2, <1>3, <1>4, Both

\* What the command processor is told of the threads fits a dword's bits.
LEMMA SqValues ==
  LET sq == set_default_sq
      t == sq.threads
  IN  /\ sq.ps_threads \in Int /\ t \in Int /\ sq.stack \in Int
      /\ t # 0 /\ sq.stack # 0
      /\ SqConfigDefault \in Val
<1>1. /\ set_default_sq.ps_threads \in Int /\ set_default_sq.threads \in Int
      /\ set_default_sq.stack \in Int
      /\ set_default_sq.threads # 0 /\ set_default_sq.stack # 0
  BY DEF set_default_sq
<1>2. 0 \in Bit /\ 1 \in Bit /\ 26 \in Bit /\ 28 \in Bit /\ 30 \in Bit
  BY DEF Bit
<1>3. /\ Zero \in Val /\ Flag(0) \in Val /\ Flag(1) \in Val
      /\ Field(26, 1) \in Val /\ Field(28, 2) \in Val /\ Field(30, 3) \in Val
  BY <1>2, ValType
<1>4. SqConfigDefault \in Val
  BY <1>3, Zenon DEF SqConfigDefault, Val
<1>. QED
  BY <1>1, <1>4

LEMMA SqSetup ==
  Writes(sq_setup)
<1> DEFINE sq == set_default_sq
           t == sq.threads
           shared == <<SqConfigDefault, Pair(93, 46) \cup Field(28, 4),
                       Pair(31, 31), Pair(23, 23)>>
           first == Plainly(sq.ps_threads) \cup Field(8, t) \cup Field(16, t) \cup Field(24, t)
           second == Plainly(t) \cup Field(8, t)
           stacks == [i \in 1 .. 3 |-> Pair(sq.stack, sq.stack)]
           limits == <<first, second>> \o stacks
           exports == UNION {Field(5 * i, \h1e) : i \in 0 .. 5}
<1>1. /\ sq.ps_threads \in Int /\ t \in Int /\ sq.stack \in Int /\ SqConfigDefault \in Val
      /\ t # 0 /\ sq.stack # 0
  BY SqValues
<1>2. 8 \in Bit /\ 16 \in Bit /\ 24 \in Bit /\ 28 \in Bit
  BY DEF Bit
<1>3. /\ Zero \in Val /\ Flag(8) \in Val /\ Field(28, 4) \in Val
      /\ Pair(93, 46) \in Val /\ Pair(31, 31) \in Val /\ Pair(23, 23) \in Val
  BY <1>2, ValType
<1>4. shared \in Seq(Val) /\ Len(shared) = 4 /\ \A i \in 2 .. 4 : shared[i] # Zero
  <2>1. Pair(93, 46) \cup Field(28, 4) \in Val
    BY <1>3, ValType
  <2>2. Pair(93, 46) # Zero /\ Pair(31, 31) # Zero /\ Pair(23, 23) # Zero
    BY NonZero
  <2>3. Pair(93, 46) \cup Field(28, 4) # Zero
    BY <2>2, NonZero
  <2>4. \A i \in 2 .. 4 : i = 2 \/ i = 3 \/ i = 4
    OBVIOUS
  <2>5. /\ shared[2] = Pair(93, 46) \cup Field(28, 4) /\ shared[3] = Pair(31, 31)
        /\ shared[4] = Pair(23, 23) /\ Len(shared) = 4
    OBVIOUS
  <2>6. shared \in Seq(Val)
    BY <1>1, <1>3, <2>1
  <2>. HIDE DEF shared
  <2>. QED
    BY <2>2, <2>3, <2>4, <2>5, <2>6
<1>5. limits \in Seq(Val) /\ Len(limits) = 5 /\ \A i \in 2 .. 5 : limits[i] # Zero
  <2>1. /\ Plainly(sq.ps_threads) \in Val /\ Plainly(t) \in Val
        /\ Field(8, t) \in Val /\ Field(16, t) \in Val /\ Field(24, t) \in Val
        /\ Pair(sq.stack, sq.stack) \in Val
    BY <1>1, <1>2, ValType
  <2>. HIDE DEF sq, t
  <2>2. first \in Val /\ second \in Val
    BY <2>1, Zenon DEF Val
  <2>7. second # Zero /\ Pair(sq.stack, sq.stack) # Zero
    <3>1. Plainly(t) # Zero
      BY <1>1, NonZero DEF Plainly
    <3>. QED
      BY <1>1, <3>1, NonZero
  <2>. HIDE DEF first, second
  <2> DEFINE front == <<first, second>>
  <2>3. front \in Seq(Val) /\ Len(front) = 2 /\ stacks \in Seq(Val) /\ Len(stacks) = 3
    BY <2>1, <2>2
  <2>4. limits = front \o stacks
    OBVIOUS
  <2>8. front[2] = second /\ \A i \in 1 .. 3 : stacks[i] = Pair(sq.stack, sq.stack)
    OBVIOUS
  <2>. HIDE DEF front, stacks, limits
  <2>5. front \o stacks \in Seq(Val) /\ Len(front \o stacks) = Len(front) + Len(stacks)
    BY <2>3, ConcatProperties
  <2>6. Len(front \o stacks) = 5
    BY <2>3, <2>5
  <2>9. /\ \A i \in 1 .. 5 : (front \o stacks)[i] = IF i <= 2 THEN front[i] ELSE stacks[i - 2]
        /\ (front \o stacks)[2] = front[2]
    <3> DEFINE m == Len(front)
               n == Len(stacks)
               both == front \o stacks
    <3>1. \A i \in 1 .. m + n : both[i] = IF i <= m THEN front[i] ELSE stacks[i - m]
      BY <2>3, ConcatProperties
    <3>2. m = 2 /\ n = 3
      BY <2>3
    <3>. HIDE DEF m, n, both
    <3>3. \A i \in 1 .. 5 : both[i] = IF i <= 2 THEN front[i] ELSE stacks[i - 2]
      BY <3>1, <3>2
    <3>4. both[2] = front[2]
      BY <3>3
    <3>. QED
      BY <3>3, <3>4 DEF both
  <2>10. ASSUME NEW i \in 2 .. 5
         PROVE  (front \o stacks)[i] # Zero
    <3>1. CASE i = 2
      <4>1. (front \o stacks)[2] # Zero
        BY <2>7, <2>8, <2>9
      <4>. QED
        BY <3>1, <4>1
    <3>2. CASE i # 2
      <4>1. i - 2 \in 1 .. 3 /\ ~ (i <= 2) /\ i \in 1 .. 5
        BY <3>2
      <4>2. (front \o stacks)[i] = stacks[i - 2]
        BY <2>9, <4>1
      <4>. QED
        BY <2>7, <2>8, <4>1, <4>2
    <3>. QED
      BY <3>1, <3>2
  <2>. QED
    BY <2>4, <2>5, <2>6, <2>10
<1>6. exports \in Val
  <2>1. \A i \in 0 .. 5 : 5 * i \in Bit
    BY DEF Bit
  <2>2. \A i \in 0 .. 5 : Field(5 * i, \h1e) \in Val
    <3>1. \A shift \in Bit, n \in Int : Field(shift, n) \in Val
      BY ValType
    <3>. QED
      BY <2>1, <3>1
  <2>. QED
    BY <2>2 DEF Val
<1> DEFINE one == <<Write(\h8d8c, Flag(8)), Burst(\h8c00, shared), Burst(\h8c18, limits)>>
           two == <<Burst(\h2891c, Zeros(4)), Burst(\h3cff0, Zeros(2)),
                    Burst(\h28380, Zeros(32)), Burst(\h28844, Zeros(2)),
                    Burst(\h28780, Zeros(8)), Write(\h288a8, Zero), Write(\h288ec, Zero),
                    Write(\h28838, exports)>>
<1>7. sq_setup = (one \o Off(\h28900, 6)) \o two
  BY DEF sq_setup
<1>. HIDE DEF shared, limits, exports
<1>8. Writes(one)
  <2>1. Spots(\h8c00, 4) /\ Spots(\h8c18, 5)
    BY SMT DEF Spots, Spot, Ordinary, Blank, Place, InSpace, Inside, Space
  <2>5. /\ Spots(\h8c00, Len(shared)) /\ Valued(shared)
        /\ Spots(\h8c18, Len(limits)) /\ Valued(limits)
    BY <1>4, <1>5, <2>1, SMT DEF Valued
  <2>2. Burst(\h8c00, shared) \in SoundWrite /\ Burst(\h8c18, limits) \in SoundWrite
    BY <2>5, SpotsBurst, SMT
  <2>3. Spot(\h8d8c)
    BY SMT DEF Spot, Ordinary, Blank
  <2>4. Write(\h8d8c, Flag(8)) \in SoundWrite
    BY <1>3, <2>3, SpotWrite, SMT
  <2>. QED
    BY <2>2, <2>4, SMT DEF Writes
<1>9. Writes(two)
  <2>1. /\ Blanks(\h3cff0, 2) /\ Blanks(\h2891c, 4) /\ Blanks(\h28380, 32)
        /\ Blanks(\h28844, 2) /\ Blanks(\h28780, 8)
    BY SMT DEF Blanks, Ordinary, Blank, Place, InSpace, Inside, Space
  <2>5. Burst(\h3cff0, Zeros(2)) \in SoundWrite
    BY <2>1, ZerosSound, SMT
  <2>2. Write(\h288a8, Zero) \in SoundWrite /\ Write(\h288ec, Zero) \in SoundWrite
    BY RegZero, SMT
  <2>3. Write(\h28838, exports) \in SoundWrite
    <3>1. Spot(\h28838)
      BY SMT DEF Spot, Ordinary, Blank
    <3>. QED
      BY <1>6, <3>1, SpotWrite, SMT
  <2>4. /\ Burst(\h2891c, Zeros(4)) \in SoundWrite /\ Burst(\h28380, Zeros(32)) \in SoundWrite
        /\ Burst(\h28844, Zeros(2)) \in SoundWrite /\ Burst(\h28780, Zeros(8)) \in SoundWrite
    BY <2>1, ZerosSound, SMT
  <2>. QED
    BY <2>2, <2>3, <2>4, <2>5, SMT DEF Writes
<1>10. Writes(Off(\h28900, 6))
  BY OffWrites, SMT
<1>. HIDE DEF one, two
<1>. QED
  BY <1>7, <1>8, <1>9, <1>10, Both

LEMMA VgtDefaults ==
  Writes(set_vgt_defaults)
<1> DEFINE one == <<Write(\h28400, AllOnes)>>
           two == <<Burst(\h28aa0, Zeros(2))>>
           three == <<Burst(\h28a30, Zeros(2)), Burst(\h28a38, Zeros(2)), Write(\h28a84, Zero),
                      Write(\h28a94, Zero), Write(\h28a40, Flag(14) \cup Flag(17)),
                      Write(\h28b54, Plainly(2)), Burst(\h28b94, Zeros(2))>>
<1>1. Zero \in Val /\ AllOnes \in Val /\ Plainly(2) \in Val /\ Flag(14) \cup Flag(17) \in Val
  <2>1. 14 \in Bit /\ 17 \in Bit
    BY DEF Bit
  <2>2. Flag(14) \in Val /\ Flag(17) \in Val
    BY <2>1, ValType
  <2>. QED
    BY <2>2, ValType
<1>6. Spot(\h28400) /\ Spot(\h28a40) /\ Spot(\h28b54)
  BY SMT DEF Spot, Ordinary, Blank
<1>7. Blanks(\h28aa0, 2) /\ Blanks(\h28a30, 2) /\ Blanks(\h28a38, 2) /\ Blanks(\h28b94, 2)
  BY SMT DEF Blanks, Ordinary, Blank, Place, InSpace, Inside, Space
<1>2. Writes(one) /\ Writes(two)
  <2>1. Write(\h28400, AllOnes) \in SoundWrite
    BY <1>1, <1>6, SpotWrite, SMT
  <2>2. Burst(\h28aa0, Zeros(2)) \in SoundWrite
    BY <1>7, ZerosSound, SMT
  <2>. QED
    BY <2>1, <2>2, SMT DEF Writes
<1>3. Writes(three)
  <2>1. /\ Write(\h28a84, Zero) \in SoundWrite /\ Write(\h28a94, Zero) \in SoundWrite
    BY RegZero, SMT
  <2>3. /\ Write(\h28a40, Flag(14) \cup Flag(17)) \in SoundWrite
        /\ Write(\h28b54, Plainly(2)) \in SoundWrite
    BY <1>1, <1>6, SpotWrite, SMT
  <2>2. /\ Burst(\h28a30, Zeros(2)) \in SoundWrite /\ Burst(\h28a38, Zeros(2)) \in SoundWrite
        /\ Burst(\h28b94, Zeros(2)) \in SoundWrite
    BY <1>7, ZerosSound, SMT
  <2>. QED
    BY <2>1, <2>2, <2>3, SMT DEF Writes
<1>4. /\ Writes(Off(\h28a10, 12)) /\ Writes(Off(\h28b94, 2)) /\ Writes(Off(\h28ab4, 2))
      /\ Writes(Off(\h28404, 3)) /\ Writes(Off(\h28a10, 8))
  BY OffWrites, SMT
<1>5. set_vgt_defaults =
        ((((((((Off(\h28a10, 12) \o Off(\h28b94, 2)) \o Off(\h28ab4, 2)) \o one)
          \o Off(\h28404, 3)) \o two) \o Off(\h28ab4, 2)) \o Off(\h28a10, 8)) \o three)
  BY DEF set_vgt_defaults
<1>. HIDE DEF one, two, three
<1>. QED
  BY <1>2, <1>3, <1>4, <1>5, Both

\* The one burst of the default state that reaches over a register with a
\* value, and what has to follow it.
Wiper == Burst(\h286e4, Zeros(3))
Input == <<"reg", \h286e8>>

AnyWrite == SoundWrite \cup {Wiper}

Settles(s) ==
  /\ s \in Seq(AnyWrite)
  /\ \A i \in DOMAIN s : s[i] = Wiper => \E j \in DOMAIN s : i < j /\ IsFor(s[j], Input)

LEMMA WiperReachesOver ==
  Wiper \notin SoundWrite
<1> DEFINE words == Zeros(3)
           key == <<"reg", \h286e4>>
<1>1. Wiper.at = \h286e4 /\ Wiper.key = key /\ Wiper.words = words
  BY SMT DEF Wiper, Burst
<1>2. Len(words) = 3 /\ words[2] = Zero
  BY ZerosType
<1>3. key[1] = "reg"
  BY SMT
<1>4. \h286e4 # 0 /\ ~ Blank(\h286e4 + 4 * (2 - 1))
  BY SMT DEF Blank
<1>. HIDE DEF words, key
<1>5. KeepsTail(key, \h286e4, words) => Blank(\h286e4 + 4 * (2 - 1))
  BY <1>2, <1>3, SMT DEF KeepsTail
<1>6. Wiper \in SoundWrite => KeepsTail(key, \h286e4, words)
  BY <1>1, <1>4, SMT DEF SoundWrite, Keeps
<1>. QED
  BY <1>4, <1>5, <1>6

LEMMA WritesSettle ==
  ASSUME NEW s, Writes(s)
  PROVE  Settles(s)
<1>1. s \in Seq(AnyWrite)
  BY SeqMonotonic DEF Writes, AnyWrite
<1>2. \A i \in DOMAIN s : s[i] \in SoundWrite
  BY ElementOfSeq DEF Writes
<1>. QED
  BY <1>1, <1>2, WiperReachesOver DEF Settles

LEMMA BothSettle ==
  ASSUME NEW s, NEW t, Settles(s), Settles(t)
  PROVE  Settles(s \o t) /\ Len(s \o t) >= Len(s)
<1> DEFINE m == Len(s)
           n == Len(t)
           u == s \o t
<1>1. s \in Seq(AnyWrite) /\ t \in Seq(AnyWrite)
  BY DEF Settles
<1>2. m \in Nat /\ n \in Nat /\ DOMAIN s = 1 .. m /\ DOMAIN t = 1 .. n
  BY <1>1
<1>3. /\ u \in Seq(AnyWrite) /\ Len(u) = m + n
      /\ \A i \in 1 .. m + n : u[i] = IF i <= m THEN s[i] ELSE t[i - m]
  BY <1>1, ConcatProperties
<1>4. /\ \A i \in 1 .. m : s[i] = Wiper => \E j \in 1 .. m : i < j /\ IsFor(s[j], Input)
      /\ \A i \in 1 .. n : t[i] = Wiper => \E j \in 1 .. n : i < j /\ IsFor(t[j], Input)
  BY <1>2 DEF Settles
<1>. HIDE DEF m, n, u
<1>5. ASSUME NEW i \in 1 .. m + n, u[i] = Wiper
      PROVE  \E j \in 1 .. m + n : i < j /\ IsFor(u[j], Input)
  <2>1. CASE i <= m
    <3>1. i \in 1 .. m /\ s[i] = Wiper
      BY <1>2, <1>3, <1>5, <2>1
    <3>2. PICK j \in 1 .. m : i < j /\ IsFor(s[j], Input)
      BY <1>4, <3>1
    <3>3. j \in 1 .. m + n /\ u[j] = s[j]
      BY <1>2, <1>3, <3>2
    <3>. QED
      BY <3>2, <3>3
  <2>2. CASE ~ (i <= m)
    <3>1. i - m \in 1 .. n /\ t[i - m] = Wiper
      BY <1>2, <1>3, <1>5, <2>2
    <3>2. PICK j \in 1 .. n : i - m < j /\ IsFor(t[j], Input)
      BY <1>4, <3>1
    <3>3. j + m \in 1 .. m + n /\ ~ (j + m <= m) /\ (j + m) - m = j /\ i < j + m
      BY <1>2, <3>2
    <3>4. u[j + m] = t[j]
      BY <1>3, <3>3
    <3>. QED
      BY <3>2, <3>3, <3>4
  <2>. QED
    BY <2>1, <2>2
<1>6. Settles(u)
  <2>1. DOMAIN u = 1 .. m + n
    BY <1>3
  <2>. QED
    BY <1>3, <1>5, <2>1 DEF Settles
<1>7. Len(u) >= m
  BY <1>2, <1>3
<1>. QED
  BY <1>6, <1>7 DEF u, m

\* A run of writes that ends with the register that was wiped.
LEMMA SettledAtLast ==
  ASSUME NEW s \in Seq(AnyWrite), NEW w \in SoundWrite, IsFor(w, Input)
  PROVE  Settles(s \o <<w>>)
<1> DEFINE m == Len(s)
           u == s \o <<w>>
<1>1. /\ u \in Seq(AnyWrite) /\ Len(u) = m + 1 /\ u[m + 1] = w /\ m \in Nat
  BY DEF AnyWrite
<1>. HIDE DEF m, u
<1>2. DOMAIN u = 1 .. m + 1 /\ m + 1 \in 1 .. m + 1
  BY <1>1
<1>3. ASSUME NEW i \in 1 .. m + 1, u[i] = Wiper
      PROVE  i < m + 1 /\ IsFor(u[m + 1], Input)
  <2>1. i # m + 1
    BY <1>1, <1>3, WiperReachesOver
  <2>. QED
    BY <1>1, <2>1
<1>. QED
  BY <1>1, <1>2, <1>3 DEF Settles, u

LEMMA SpiDefaults ==
  Settles(set_spi_defaults)
<1>1. {0, 1, 2} \in SUBSET Bit /\ 0 .. 2 \in SUBSET Bit /\ 20 \in Bit /\ 29 \in Bit
  BY DEF Bit
<1>2. /\ Zero \in Val /\ Literal(0 .. 2) \in Val /\ Plainly(4) \in Val
      /\ Field(20, 1) \in Val /\ Flag(29) \in Val
  BY <1>1, ValType
<1>3. Writes(SpiBefore)
  <2>1. /\ Write(\h9100, Zero) \in SoundWrite /\ Write(\h286d8, Zero) \in SoundWrite
        /\ Write(\h286dc, Zero) \in SoundWrite
    BY RegZero, SMT
  <2>3. Spot(\h913c) /\ Spot(\h286e0) /\ Blanks(\h28644, 2)
    BY SMT DEF Spot, Blanks, Ordinary, Blank, Place, InSpace, Inside, Space
  <2>4. /\ Write(\h913c, Plainly(4)) \in SoundWrite
        /\ Write(\h286e0, Field(20, 1)) \in SoundWrite
    BY <1>2, <2>3, SpotWrite, SMT
  <2>2. Burst(\h28644, Zeros(2)) \in SoundWrite
    BY <2>3, ZerosSound, SMT
  <2>. QED
    BY <2>1, <2>2, <2>4, SMT DEF SpiBefore, Writes
<1>4. SpiAfter \in Seq(AnyWrite)
  <2>1. Burst(\h286cc, <<Flag(29), Zero>>) \in SoundWrite
    <3>1. \A u : PairFits(\h286cc, u, Zero)
      BY SMT DEF PairFits, Ordinary, Blank
    <3>. QED
      BY <1>2, <3>1, ContextPair, SMT
  <2>3. /\ Write(\h286c4, Zero) \in SoundWrite /\ Write(\h2861c, Zero) \in SoundWrite
        /\ Write(\h286d4, Zero) \in SoundWrite
    BY RegZero, SMT
  <2>. QED
    BY <2>1, <2>3, SMT DEF SpiAfter, AnyWrite, Wiper
<1>5. ComputeInput \in SoundWrite /\ IsFor(ComputeInput, Input)
  <2>1. Spot(\h286e8)
    BY SMT DEF Spot, Ordinary, Blank
  <2>2. ComputeInput \in SoundWrite
    BY <1>2, <2>1, SpotWrite, SMT DEF ComputeInput
  <2>. QED
    BY <2>2, SMT DEF ComputeInput, Write, Burst, Input, IsFor
<1>6. set_spi_defaults = (SpiBefore \o SpiAfter) \o <<ComputeInput>>
  BY DEF set_spi_defaults
<1>7. SpiBefore \o SpiAfter \in Seq(AnyWrite)
  <2>1. SpiBefore \in Seq(AnyWrite)
    BY <1>3, SeqMonotonic DEF Writes, AnyWrite
  <2>. QED
    BY <1>4, <2>1, ConcatProperties
<1>. QED
  BY <1>5, <1>6, <1>7, SettledAtLast

LEMMA PaDefaults ==
  Many(set_pa_defaults)
<1> DEFINE one ==
             <<Write(\h8a14, Field(1, 3) \cup Flag(0)), Write(\h28810, Zero),
               Write(\h282d0, Zero), Write(\h282d4, One_f), Write(\h28200, Zero),
               Write(\h2820c, Plainly(\hffff)),
               Write(\h28230, Literal({b \in Bit : b % 2 = 1})), Write(\h28234, Zero)>>
           clips == [i \in 1 .. 4 |-> Burst(\h28210 + 8 * (i - 1), <<Zero, Pair(8192, 8192)>>)]
           scissors ==
             [i \in 1 .. 16 |-> Burst(\h28250 + 8 * (i - 1), <<Flag(31), Pair(8192, 8192)>>)]
           lines == Field(1, 2) \cup Flag(0)
           two == <<Burst(\h28a48, Zeros(2)), Burst(\h28c00, <<Zero, Zero, lines>>)>>
           guards == [i \in 1 .. 4 |-> Write(\h28c0c + 4 * (i - 1), One_f)]
           three == <<Burst(\h28c1c, Zeros(8)), Write(\h28c3c, AllOnes),
                      Write(\h28810, Flag(16)), Write(\h28818, Flag(8)),
                      Write(\h2881c, Zero)>>
           four == <<Burst(\h28b78, Zeros(6)), Write(\h28a0c, Zero), Burst(\h28a48, Zeros(2))>>
           mode == Literal(0 .. 2) \cup Field(5, 2) \cup Field(8, 2)
           five == <<Write(\h28a08, Zero), Write(\h28814, mode),
                     Write(\h28a00, Zero), Write(\h28a04, Zero)>>
<1>1. /\ 0 \in Bit /\ 1 \in Bit /\ 5 \in Bit /\ 8 \in Bit /\ 16 \in Bit /\ 31 \in Bit
      /\ 0 .. 2 \in SUBSET Bit /\ {b \in Bit : b % 2 = 1} \in SUBSET Bit
  BY DEF Bit
<1>2. /\ Zero \in Val /\ One_f \in Val /\ AllOnes \in Val
      /\ Flag(0) \in Val /\ Flag(8) \in Val /\ Flag(16) \in Val /\ Flag(31) \in Val
      /\ Literal({b \in Bit : b % 2 = 1}) \in Val /\ Literal(0 .. 2) \in Val
  BY <1>1, ValType
<1>3. Plainly(\hffff) \in Val /\ Pair(8192, 8192) \in Val
  <2>1. (\A n \in Int : Plainly(n) \in Val) /\ \A m, n \in Int : Pair(m, n) \in Val
    BY ValType
  <2>. QED
    BY <2>1, SMT
<1>4. Field(1, 3) \cup Flag(0) \in Val /\ lines \in Val /\ mode \in Val
  <2>1. \A shift \in Bit, n \in Int : Field(shift, n) \in Val
    BY ValType
  <2>2. /\ Field(1, 3) \in Val /\ Field(1, 2) \in Val /\ Field(5, 2) \in Val
        /\ Field(8, 2) \in Val
    BY <1>1, <2>1
  <2>. QED
    BY <1>2, <2>2, ValType
<1>16. /\ Spot(\h8a14) /\ Spot(\h282d4) /\ Spot(\h2820c) /\ Spot(\h28230) /\ Spot(\h28c3c)
       /\ Spot(\h28810) /\ Spot(\h28818) /\ Spot(\h28814)
  BY SMT DEF Spot, Ordinary, Blank
<1>17. Blanks(\h28a48, 2) /\ Blanks(\h28c1c, 8) /\ Blanks(\h28b78, 6)
  BY SMT DEF Blanks, Ordinary, Blank, Place, InSpace, Inside, Space
<1>18. Flag(31) # Zero /\ Pair(8192, 8192) # Zero /\ lines # Zero
  <2>1. Flag(31) # Zero /\ Field(1, 2) # Zero /\ Pair(8192, 8192) # Zero
    BY NonZero, SMT DEF Flag
  <2>. QED
    BY <2>1, NonZero
<1>5. Writes(one)
  <2>1. /\ Write(\h8a14, Field(1, 3) \cup Flag(0)) \in SoundWrite
        /\ Write(\h282d4, One_f) \in SoundWrite
    BY <1>2, <1>4, <1>16, SpotWrite, SMT
  <2>3. /\ Write(\h28810, Zero) \in SoundWrite /\ Write(\h282d0, Zero) \in SoundWrite
        /\ Write(\h28200, Zero) \in SoundWrite /\ Write(\h28234, Zero) \in SoundWrite
    BY RegZero, SMT
  <2>2. /\ Write(\h2820c, Plainly(\hffff)) \in SoundWrite
        /\ Write(\h28230, Literal({b \in Bit : b % 2 = 1})) \in SoundWrite
    BY <1>2, <1>3, <1>16, SpotWrite, SMT
  <2>. QED
    BY <2>1, <2>2, <2>3, SMT DEF Writes
<1>6. Writes(clips)
  <2>1. ASSUME NEW i \in 1 .. 4
        PROVE  clips[i] \in SoundWrite
    <3> DEFINE at == \h28210 + 8 * (i - 1)
               v == Pair(8192, 8192)
    <3>1. Ordinary(at) /\ at >= 163840 /\ Ordinary(at + 4) /\ ~ Blank(at + 4)
      BY SMT DEF Ordinary, Blank
    <3>2. clips[i] = Burst(at, <<Zero, v>>)
      BY SMT
    <3>3. v \in Val /\ v # Zero
      BY <1>3, <1>18, SMT
    <3>. HIDE DEF at, v, clips
    <3>4. PairFits(at, Zero, v)
      BY <3>1, <3>3 DEF PairFits
    <3>. QED
      BY <1>2, <3>2, <3>3, <3>4, ContextPair, SMT
  <2>2. clips = [i \in 1 .. 4 |-> clips[i]]
    BY SMT
  <2>. HIDE DEF clips
  <2>. QED
    BY <2>1, <2>2, SMT DEF Writes
<1>7. Writes(scissors) /\ Len(scissors) = 16
  <2>1. ASSUME NEW i \in 1 .. 16
        PROVE  scissors[i] \in SoundWrite
    <3> DEFINE at == \h28250 + 8 * (i - 1)
               v == Pair(8192, 8192)
    <3>1. /\ Ordinary(at) /\ at >= 163840 /\ ~ Blank(at)
          /\ Ordinary(at + 4) /\ ~ Blank(at + 4)
      BY SMT DEF Ordinary, Blank
    <3>2. scissors[i] = Burst(at, <<Flag(31), v>>)
      BY SMT
    <3>3. v \in Val /\ v # Zero
      BY <1>3, <1>18, SMT
    <3>. HIDE DEF at, v, scissors
    <3>4. PairFits(at, Flag(31), v)
      BY <3>1, <3>3 DEF PairFits
    <3>. QED
      BY <1>2, <3>2, <3>3, <3>4, ContextPair, SMT
  <2>2. scissors = [i \in 1 .. 16 |-> scissors[i]]
    BY SMT
  <2>. HIDE DEF scissors
  <2>. QED
    BY <2>1, <2>2, SMT DEF Writes
<1>8. Writes(two)
  <2>1. Burst(\h28c00, <<Zero, Zero, lines>>) \in SoundWrite
    <3> DEFINE words == <<Zero, Zero, lines>>
    <3>. HIDE DEF lines
    <3>1. /\ words \in Seq(Val) /\ Len(words) = 3
          /\ words[1] = Zero /\ words[2] = Zero /\ words[3] = lines
      BY <1>2, <1>4
    <3> DEFINE at == \h28c00
               n == 3
               key == <<"reg", at>>
    <3>2. /\ at \in Nat /\ at # 0 /\ Ordinary(at) /\ Blank(at + 4 * (2 - 1))
          /\ Spot(at + 4 * (3 - 1)) /\ Place(at, n) /\ n \in 1 .. 32 /\ n = 3
      BY SMT DEF Spot, Ordinary, Blank, Place, InSpace, Inside, Space
    <3>. HIDE DEF words, at, n
    <3>3. Owner(at) = key /\ key[1] = "reg"
      BY <3>2, OrdinaryReg
    <3>4. KeepsTail(key, at, words)
      <4>1. \A i \in 2 .. Len(words) : i = 2 \/ i = 3
        BY <3>1
      <4>2. /\ Owner(at + 4 * (3 - 1)) = <<"reg", at + 4 * (3 - 1)>>
            /\ ~ Blank(at + 4 * (3 - 1))
        BY <3>2, OrdinaryReg DEF Spot
      <4>. HIDE DEF key
      <4>. QED
        BY <1>18, <3>1, <3>2, <3>3, <4>1, <4>2 DEF KeepsTail
    <3>5. Keeps(<<"reg", at>>, at, words)
      BY <3>1, <3>3, <3>4 DEF Keeps
    <3>6. Burst(at, words) \in SoundWrite
      BY <3>1, <3>2, <3>5, BurstSound
    <3>. QED
      BY <3>6, SMT DEF words, at
  <2>2. Burst(\h28a48, Zeros(2)) \in SoundWrite
    BY <1>17, ZerosSound, SMT
  <2>. QED
    BY <2>1, <2>2, SMT DEF Writes
<1>9. Writes(guards)
  <2>1. ASSUME NEW i \in 1 .. 4
        PROVE  guards[i] \in SoundWrite
    <3> DEFINE at == \h28c0c + 4 * (i - 1)
    <3>1. Spot(at)
      BY SMT DEF Spot, Ordinary, Blank
    <3>2. guards[i] = Write(at, One_f)
      BY SMT
    <3>. HIDE DEF at, guards
    <3>. QED
      BY <1>2, <3>1, <3>2, SpotWrite, SMT
  <2>2. guards = [i \in 1 .. 4 |-> guards[i]]
    BY SMT
  <2>. HIDE DEF guards
  <2>. QED
    BY <2>1, <2>2, SMT DEF Writes
<1>10. Writes(three)
  <2>1. /\ Write(\h28c3c, AllOnes) \in SoundWrite /\ Write(\h28810, Flag(16)) \in SoundWrite
        /\ Write(\h28818, Flag(8)) \in SoundWrite
    BY <1>2, <1>16, SpotWrite, SMT
  <2>2. Burst(\h28c1c, Zeros(8)) \in SoundWrite
    BY <1>17, ZerosSound, SMT
  <2>3. Write(\h2881c, Zero) \in SoundWrite
    BY RegZero, SMT
  <2>. QED
    BY <2>1, <2>2, <2>3, SMT DEF Writes
<1>11. Writes(four)
  <2>1. Write(\h28a0c, Zero) \in SoundWrite
    BY RegZero, SMT
  <2>2. Burst(\h28b78, Zeros(6)) \in SoundWrite /\ Burst(\h28a48, Zeros(2)) \in SoundWrite
    BY <1>17, ZerosSound, SMT
  <2>. QED
    BY <2>1, <2>2, SMT DEF Writes
<1>12. Writes(five)
  <2>. HIDE DEF mode
  <2>1. /\ Write(\h28a08, Zero) \in SoundWrite /\ Write(\h28a00, Zero) \in SoundWrite
        /\ Write(\h28a04, Zero) \in SoundWrite
    BY RegZero, SMT
  <2>2. Write(\h28814, mode) \in SoundWrite
    BY <1>4, <1>16, SpotWrite, SMT
  <2>. QED
    BY <2>1, <2>2, SMT DEF Writes
<1>13. Writes(Off(\h28820, 4)) /\ Writes(set_dummy_scissors)
  <2>1. Writes(Off(\h28820, 4))
    BY OffWrites, SMT
  <2>. QED
    BY <2>1, SmallDefaults
<1>14. set_pa_defaults =
         ((((((((one \o clips) \o scissors) \o two) \o guards) \o three)
             \o Off(\h28820, 4)) \o four) \o set_dummy_scissors) \o five
  BY DEF set_pa_defaults
<1>15. Many((((one \o clips) \o scissors) \o two) \o guards)
  <2>1. Len(one) = 8 /\ Len(clips) = 4 /\ Len(two) = 2 /\ Len(guards) = 4
    BY SMT
  <2>. HIDE DEF one, clips, scissors, two, guards
  <2>2. AtLeast(one, 8) /\ AtLeast(clips, 4) /\ AtLeast(scissors, 16)
    BY <1>5, <1>6, <1>7, <2>1 DEF AtLeast, Writes
  <2>3. AtLeast(two, 2) /\ AtLeast(guards, 4)
    BY <1>8, <1>9, <2>1 DEF AtLeast, Writes
  <2>4. AtLeast(one \o clips, 12)
    BY <2>2, Longer
  <2>5. AtLeast((one \o clips) \o scissors, 28)
    BY <2>2, <2>4, Longer
  <2>6. AtLeast(((one \o clips) \o scissors) \o two, 30)
    BY <2>3, <2>5, Longer
  <2>7. AtLeast((((one \o clips) \o scissors) \o two) \o guards, 34)
    BY <2>3, <2>6, Longer
  <2>8. Len((((one \o clips) \o scissors) \o two) \o guards) >= 32
    <3> DEFINE all == (((one \o clips) \o scissors) \o two) \o guards
    <3>. HIDE DEF all
    <3>1. AtLeast(all, 34)
      BY <2>7 DEF all
    <3>2. Len(all) >= 32
      BY <3>1 DEF AtLeast, Writes
    <3>. QED
      BY <3>2 DEF all
  <2>. QED
    BY <2>7, <2>8 DEF Many, AtLeast
<1>. HIDE DEF one, clips, scissors, two, guards, three, four, five
<1>. QED
  BY <1>8, <1>9, <1>10, <1>11, <1>12, <1>13, <1>14, <1>15, Both DEF Many

\* The elements of an array in both strides, and the ones behind them.
LEMMA RenderTarget ==
  Writes(set_dummy_render_target)
<1> DEFINE one == Plainly(15) \cup Field(8, 15)
           two == Literal({18, 19, 22, 23}) \cup Field(4, 1)
<1>1. RatPlace(0) /\ RatOwned(0) /\ TargetOwned(0)
  BY RatPlaces, RatOwners
<1>2. 4 \in Bit /\ 8 \in Bit /\ {18, 19, 22, 23} \in SUBSET Bit
  BY DEF Bit
<1>3. /\ Zero \in Val /\ Plainly(1) \in Val /\ Plainly(3) \in Val /\ Plainly(15) \in Val
      /\ Pair(15, 15) \in Val
  BY ValType
<1>4. one \in Val /\ two \in Val
  <2>1. \A shift \in Bit, n \in Int : Field(shift, n) \in Val
    BY ValType
  <2>2. Field(8, 15) \in Val /\ Field(4, 1) \in Val /\ Literal({18, 19, 22, 23}) \in Val
    BY <1>2, <2>1, ValType
  <2>. QED
    BY <1>3, <2>2, ValType
<1>5. /\ Element("PITCH", 0, Pitch(0), <<Plainly(1)>>) \in SoundWrite
      /\ Element("SLICE", 0, Slice(0), <<Plainly(3)>>) \in SoundWrite
      /\ Element("VIEW", 0, View(0), <<Zero>>) \in SoundWrite
      /\ Element("DIM", 0, Dim(0), <<Pair(15, 15)>>) \in SoundWrite
      /\ Element("CMASK_SLICE", 0, CmaskSlice(0), <<Zero>>) \in SoundWrite
      /\ Element("FMASK_SLICE", 0, FmaskSlice(0), <<Zero>>) \in SoundWrite
  BY <1>1, <1>3, OneElement, Names DEF RatPlace, RatOwned, TargetOwned
<1>6. Element("CLEAR_WORD", 0, ClearWord(0), Zeros(4)) \in SoundWrite
  BY ClearWordSound
<1>. HIDE DEF one, two
<1>7. /\ Write(\h28238, one) \in SoundWrite /\ Write(\h2823c, one) \in SoundWrite
      /\ Write(\h28808, two) \in SoundWrite
  <2>1. Spot(\h28238) /\ Spot(\h2823c) /\ Spot(\h28808)
    BY SMT DEF Spot, Ordinary, Blank
  <2>. QED
    BY <1>4, <2>1, SpotWrite, SMT
<1>8. Write(\h28780, Zero) \in SoundWrite
  BY RegZero, SMT
<1>. QED
  BY <1>5, <1>6, <1>7, <1>8, SMT DEF set_dummy_render_target, Writes, one, two

Ample(s) == Settles(s) /\ Len(s) \in Nat /\ Len(s) >= 32

LEMMA AmpleGrows ==
  ASSUME NEW s, NEW t, Ample(s), Settles(t)
  PROVE  Ample(s \o t)
<1> DEFINE u == s \o t
           m == Len(s)
           n == Len(u)
<1>1. Settles(u) /\ n >= m
  BY BothSettle DEF Ample
<1>2. m \in Nat /\ m >= 32 /\ n \in Nat
  BY <1>1 DEF Ample, Settles
<1>. HIDE DEF m, n
<1>3. n >= 32
  BY <1>1, <1>2
<1>. HIDE DEF u
<1>. QED
  BY <1>1, <1>2, <1>3 DEF Ample, n, u

LEMMA DefaultWrites ==
  Ample(set_default_state)
<1> DEFINE rats == [i \in 1 .. 12 |-> set_rat_defaults(i - 1)]
<1>1. Writes(FlattenSeq(rats))
  <2>1. ASSUME NEW i \in 1 .. 12
        PROVE  set_rat_defaults(i - 1) \in Seq(SoundWrite)
    <3>1. i - 1 \in 0 .. 11
      OBVIOUS
    <3>. QED
      BY <3>1, RunRatDefaults DEF Run
  <2>2. rats \in Seq(Seq(SoundWrite)) /\ rats # <<>>
    BY <2>1
  <2>. HIDE DEF rats
  <2>. QED
    BY <2>2, Flattened DEF Writes
<1>2. Writes(LoopConsts(1, 1, 0, 1))
  BY RunLoopConsts DEF Run, Writes
<1>3. set_default_state =
        (((((((((start_3d \o set_sx_defaults) \o <<Write(\h9014, Zero)>>) \o set_db_defaults)
          \o sq_setup) \o set_vgt_defaults) \o set_pa_defaults) \o set_spi_defaults)
          \o set_dummy_render_target) \o FlattenSeq(rats)) \o LoopConsts(1, 1, 0, 1)
  BY DEF set_default_state
<1>. HIDE DEF rats
<1>4. Writes(((start_3d \o set_sx_defaults) \o <<Write(\h9014, Zero)>>) \o set_db_defaults)
  BY SmallDefaults, DbDefaults, Both
<1> DEFINE front == (((((start_3d \o set_sx_defaults) \o <<Write(\h9014, Zero)>>)
                         \o set_db_defaults) \o sq_setup) \o set_vgt_defaults) \o set_pa_defaults
<1>5. Ample(front)
  <2>1. Many(front)
    BY <1>4, SqSetup, VgtDefaults, PaDefaults, Both DEF Many
  <2>. HIDE DEF front
  <2>2. Len(front) \in Nat
    BY <2>1 DEF Many, Writes
  <2>. QED
    BY <2>1, <2>2, WritesSettle DEF Many, Ample
<1>6. set_default_state =
        (((front \o set_spi_defaults) \o set_dummy_render_target) \o FlattenSeq(rats))
          \o LoopConsts(1, 1, 0, 1)
  BY <1>3
<1>. HIDE DEF front
<1>7. /\ Settles(set_dummy_render_target) /\ Settles(FlattenSeq(rats))
      /\ Settles(LoopConsts(1, 1, 0, 1))
  BY <1>1, <1>2, RenderTarget, WritesSettle
<1>. QED
  BY <1>5, <1>6, <1>7, SpiDefaults, AmpleGrows

-----------------------------------------------------------------------------
(* What a write does to the registers, and to what was asked of them.      *)

HoldsIn(f, a) == a.at \in DOMAIN f /\ f[a.at] = Value(a.word)

\* A name stands for one register, and a value for one no burst reaches over.
NameOwns(k, a) == Owner(a.at) = k /\ (a.word # Zero => ~ Blank(a.at))

LEMMA WroteIs ==
  ASSUME NEW w \in FormedWrite
  PROVE  /\ \A r \in DOMAIN Wrote(w) :
              \E i \in 1 .. Len(w.words) : r = w.at + 4 * (i - 1)
         /\ \A i \in 1 .. Len(w.words) :
              LET r == w.at + 4 * (i - 1)
              IN  r \in DOMAIN Wrote(w) /\ Wrote(w)[r] = Value(w.words[i])
<1> DEFINE n == Len(w.words)
           vals == Vals(w)
           at == w.at
           S == {at + 4 * (i - 1) : i \in DOMAIN vals}
<1>1. w.words \in Seq(Val) /\ at \in Nat /\ n \in 1 .. 32
  BY DEF FormedWrite, RawWrite
<1>2. DOMAIN vals = 1 .. n /\ \A i \in 1 .. n : vals[i] = Value(w.words[i])
  BY <1>1 DEF Vals
<1>3. Wrote(w) = [r \in S |-> vals[(r - at) \div 4 + 1]]
  BY DEF Wrote, Filled
<1>. HIDE DEF vals
<1>4. ASSUME NEW i \in 1 .. n
      PROVE  /\ at + 4 * (i - 1) \in S
             /\ vals[((at + 4 * (i - 1)) - at) \div 4 + 1] = Value(w.words[i])
  <2>1. ((at + 4 * (i - 1)) - at) \div 4 + 1 = i
    BY <1>1
  <2>. QED
    BY <1>2, <2>1
<1>5. \A r \in S : \E i \in 1 .. n : r = at + 4 * (i - 1)
  BY <1>2
<1>. HIDE DEF S, n
<1>6. \A i \in 1 .. n : /\ at + 4 * (i - 1) \in DOMAIN Wrote(w)
                        /\ Wrote(w)[at + 4 * (i - 1)] = Value(w.words[i])
  BY <1>3, <1>4
<1>. QED
  BY <1>3, <1>5, <1>6 DEF n

\* What the i-th word of a write asks for, and under which name.
Named(w, i) == [at |-> w.at + 4 * (i - 1), word |-> w.words[i]]

AsksFor(w, k, i) ==
  /\ Asks(w)[k] = Named(w, i)
  /\ IF i = 1 THEN k = w.key
     ELSE k = <<"reg", w.at + 4 * (i - 1)>> /\ (w.key[1] = "reg" => w.words[i] # Zero)

LEMMA AsksIs ==
  ASSUME NEW w \in FormedWrite, w.at # 0
  PROVE  /\ w.key \in DOMAIN Asks(w)
         /\ \A i \in 2 .. Len(w.words) :
              (w.key[1] = "reg" => w.words[i] # Zero)
                => <<"reg", w.at + 4 * (i - 1)>> \in DOMAIN Asks(w)
         /\ \A k \in DOMAIN Asks(w) : \E i \in 1 .. Len(w.words) : AsksFor(w, k, i)
<1> DEFINE n == Len(w.words)
           tail == {i \in 2 .. Len(w.words) : w.key[1] = "reg" => w.words[i] # Zero}
           word(i) == [at |-> w.at + 4 * (i - 1), word |-> w.words[i]]
           D == {w.key} \cup {<<"reg", word(i).at>> : i \in tail}
<1>1. w.at \in Nat /\ n \in 1 .. 32
  BY DEF FormedWrite, RawWrite
<1>2. Asks(w) = [j \in D |-> IF j = w.key THEN word(1) ELSE word((j[2] - w.at) \div 4 + 1)]
  BY DEF Asks
<1>3. ASSUME NEW k \in D
      PROVE  \E i \in 1 .. n : AsksFor(w, k, i)
  <2>1. CASE k = w.key
    <3>3. 1 \in 1 .. n
      <4>. HIDE DEF n
      <4>. QED
        BY <1>1
    <3>. HIDE DEF D, word
    <3>4. Asks(w)[k] = word(1)
      BY <1>2, <2>1
    <3>1. Asks(w)[k] = [at |-> w.at + 4 * (1 - 1), word |-> w.words[1]] /\ 1 \in 1 .. n
      BY <3>3, <3>4 DEF word
    <3>2. AsksFor(w, k, 1)
      BY <2>1, <3>1 DEF AsksFor, Named
    <3>. QED
      BY <3>1, <3>2
  <2>2. CASE k # w.key
    <3>1. PICK i \in tail : k = <<"reg", word(i).at>>
      BY <2>2
    <3>2. k[2] = w.at + 4 * (i - 1) /\ i \in 2 .. n
      BY <3>1
    <3>3. (k[2] - w.at) \div 4 + 1 = i
      BY <1>1, <3>2
    <3>6. i \in 1 .. n /\ i # 1
      BY <1>1, <3>2
    <3>4. Asks(w)[k] = word(i)
      BY <1>2, <2>2, <3>3
    <3>5. AsksFor(w, k, i)
      BY <3>1, <3>4, <3>6 DEF AsksFor, Named
    <3>. QED
      BY <3>5, <3>6
  <2>. QED
    BY <2>1, <2>2
<1>4. DOMAIN Asks(w) = D
  BY <1>2
<1>5. \A i \in 2 .. n : (w.key[1] = "reg" => w.words[i] # Zero)
                          => <<"reg", w.at + 4 * (i - 1)>> \in D
  OBVIOUS
<1>6. w.key \in D
  OBVIOUS
<1>. HIDE DEF D
<1>. QED
  BY <1>3, <1>4, <1>5, <1>6

\* A write leaves what it asks for, under names that stand for nothing else.
LEMMA WriteAsks ==
  ASSUME NEW w \in SoundWrite, w.at # 0, NEW k \in DOMAIN Asks(w)
  PROVE  NameOwns(k, Asks(w)[k]) /\ HoldsIn(Wrote(w), Asks(w)[k])
<1>1. w \in FormedWrite /\ Keeps(w.key, w.at, w.words)
  BY DEF SoundWrite
<1>2. PICK i \in 1 .. Len(w.words) : AsksFor(w, k, i)
  BY <1>1, AsksIs
<1> DEFINE r == w.at + 4 * (i - 1)
           a == Asks(w)[k]
<1>3. a.at = r /\ a.word = w.words[i]
  BY <1>2 DEF AsksFor, Named
<1>4. HoldsIn(Wrote(w), a)
  BY <1>1, <1>3, WroteIs DEF HoldsIn
<1>5. CASE i = 1
  <2>1. r = w.at /\ k = w.key
    BY <1>1, <1>2, <1>5 DEF AsksFor, FormedWrite, RawWrite
  <2>. QED
    BY <1>1, <1>3, <1>4, <1>5, <2>1 DEF NameOwns, Keeps
<1>6. CASE i # 1
  <2>1. i \in 2 .. Len(w.words) /\ k = <<"reg", r>>
    BY <1>2, <1>6 DEF AsksFor
  <2>2. w.key[1] = "reg" => w.words[i] # Zero
    BY <1>2, <1>6 DEF AsksFor
  <2>3. Owner(r) = <<"reg", r>> /\ (w.words[i] # Zero => ~ Blank(r))
    BY <1>1, <2>1, <2>2 DEF Keeps, KeepsTail
  <2>. QED
    BY <1>3, <1>4, <2>1, <2>3 DEF NameOwns
<1>. QED
  BY <1>5, <1>6

\* Nor does it take a value from a register that it does not ask for.
LEMMA WriteSpares ==
  ASSUME NEW w \in SoundWrite, w.at # 0, NEW k, k \notin DOMAIN Asks(w),
         NEW a, NameOwns(k, a), NEW f, HoldsIn(f, a)
  PROVE  HoldsIn(Over(Wrote(w), f), a)
<1> DEFINE r == a.at
<1>1. w \in FormedWrite /\ Keeps(w.key, w.at, w.words)
  BY DEF SoundWrite
<1>2. CASE r \notin DOMAIN Wrote(w)
  BY <1>2 DEF HoldsIn, Over
<1>3. CASE r \in DOMAIN Wrote(w)
  <2>1. PICK i \in 1 .. Len(w.words) : r = w.at + 4 * (i - 1)
    BY <1>1, <1>3, WroteIs
  <2>2. Wrote(w)[r] = Value(w.words[i])
    BY <1>1, <2>1, WroteIs
  <2>3. i # 1
    <3>1. ASSUME i = 1
          PROVE  FALSE
      <4>1. r = w.at
        BY <1>1, <2>1, <3>1 DEF FormedWrite, RawWrite
      <4>2. k = w.key
        BY <1>1, <4>1 DEF Keeps, NameOwns
      <4>. QED
        BY <1>1, <4>2, AsksIs
    <3>. QED
      BY <3>1
  <2>4. i \in 2 .. Len(w.words)
    BY <2>3
  <2>5. CASE w.key[1] = "reg" /\ w.words[i] = Zero
    <3>1. Blank(r)
      BY <1>1, <2>1, <2>4, <2>5 DEF Keeps, KeepsTail
    <3>2. a.word = Zero
      BY <3>1 DEF NameOwns
    <3>. QED
      BY <1>3, <2>2, <2>5, <3>2 DEF HoldsIn, Over
  <2>6. CASE ~ (w.key[1] = "reg" /\ w.words[i] = Zero)
    <3>1. Owner(r) = <<"reg", r>>
      BY <1>1, <2>1, <2>4, <2>6 DEF Keeps, KeepsTail
    <3>2. <<"reg", r>> \in DOMAIN Asks(w)
      BY <1>1, <2>1, <2>4, <2>6, AsksIs
    <3>. QED
      BY <3>1, <3>2 DEF NameOwns
  <2>. QED
    BY <2>5, <2>6
<1>. QED
  BY <1>2, <1>3
=============================================================================
