-------------------------- MODULE ShaderImageProofs -------------------------
(***************************************************************************)
(* Proofs about ShaderImage: what the checksum finds, for images of any    *)
(* size, and what the memory of a shader that is ready holds.              *)
(***************************************************************************)
EXTENDS ShaderImage, WellFoundedInduction, SequenceTheorems, TLAPS

-----------------------------------------------------------------------------
(* Remainders.                                                             *)

LEMMA Multiple ==
  ASSUME NEW k \in Int, NEW w \in Nat \ {0}, k # 0
  PROVE  k * w >= w \/ k * w <= -w
  OBVIOUS

LEMMA RemainderType ==
  ASSUME NEW u \in Int, NEW w \in Nat \ {0}
  PROVE  u % w \in 0 .. w - 1
  OBVIOUS

LEMMA Quotient ==
  ASSUME NEW u \in Int, NEW w \in Nat \ {0}
  PROVE  (u \div w) \in Int /\ u = w * (u \div w) + (u % w)
  OBVIOUS

\* Two numbers less than a word apart do not wrap to the same one.
LEMMA WrappedApart ==
  ASSUME NEW u \in Int, NEW v \in Int, NEW w \in Nat \ {0},
         u % w = v % w, u - v < w, v - u < w
  PROVE  u = v
<1> DEFINE p == u \div w
           q == v \div w
<1>1. /\ p \in Int /\ u = w * p + (u % w)
      /\ q \in Int /\ v = w * q + (v % w)
  BY Quotient
<1>2. p - q \in Int /\ (p - q) * w = u - v
  BY <1>1
<1>. HIDE DEF p, q
<1> DEFINE k == p - q
<1>3. k \in Int /\ k * w = u - v
  BY <1>2
<1>. HIDE DEF k
<1>4. k # 0 => k * w >= w \/ k * w <= -w
  BY <1>3, Multiple
<1>. QED
  BY <1>3, <1>4

LEMMA WrappedShift ==
  ASSUME NEW c \in Int, NEW x \in Int, NEW y \in Int, NEW w \in Nat \ {0},
         x - y < w, y - x < w, (c + x) % w = (c + y) % w
  PROVE  x = y
<1> DEFINE u == c + x
           v == c + y
<1>1. u \in Int /\ v \in Int /\ u - v < w /\ v - u < w /\ (u = v => x = y)
  OBVIOUS
<1>2. u % w = v % w
  OBVIOUS
<1>. HIDE DEF u, v
<1>. QED
  BY <1>1, <1>2, WrappedApart

LEMMA SmallRemainder ==
  ASSUME NEW w \in Nat \ {0}, NEW u \in 0 .. w - 1
  PROVE  u % w = u
<1> DEFINE q == u \div w
           r == u % w
<1>1. q \in Int /\ u = w * q + r /\ r \in 0 .. w - 1
  BY Quotient, RemainderType
<1>2. q * w = u - r
  BY <1>1
<1>. HIDE DEF q, r
<1>3. q # 0 => q * w >= w \/ q * w <= -w
  BY <1>1, Multiple
<1>4. u = r
  BY <1>1, <1>2, <1>3
<1>. QED
  BY <1>4 DEF r

\* A length of whole dwords behind another one is whole dwords too.
LEMMA DwordsApart ==
  ASSUME NEW c \in Nat, NEW a \in Nat, NEW n \in Nat,
         (c + a) % 4 = 0, (c + n) % 4 = 0
  PROVE  (a - n) % 4 = 0
<1> DEFINE p == (c + a) \div 4
           q == (c + n) \div 4
           d == (a - n) \div 4
           r == (a - n) % 4
<1>1. /\ p \in Int /\ c + a = 4 * p
      /\ q \in Int /\ c + n = 4 * q
      /\ d \in Int /\ a - n = 4 * d + r
      /\ r \in 0 .. 3
  BY Quotient, RemainderType
<1>. HIDE DEF p, q, d, r
<1>2. r = 0
  BY <1>1
<1>. QED
  BY <1>2 DEF r

LEMMA Distributed ==
  ASSUME NEW q \in Int, NEW a \in Int, NEW b \in Int, NEW w \in Int
  PROVE  (q + a - b) * w = w * q + w * a - w * b
  OBVIOUS

\* What is added before or after wrapping makes no difference.
LEMMA WrappedSum ==
  ASSUME NEW x \in Int, NEW y \in Int, NEW w \in Nat \ {0}
  PROVE  ((x % w) + y) % w = (x + y) % w
<1> DEFINE q == x \div w
           u == (x % w) + y
           v == x + y
           a == u \div w
           b == v \div w
<1>1. q \in Int /\ x = w * q + (x % w) /\ (x % w) \in Int
  BY Quotient, RemainderType
<1>2. u \in Int /\ v \in Int /\ v - u = w * q
  BY <1>1
<1>3. /\ a \in Int /\ u = w * a + (u % w) /\ (u % w) \in 0 .. w - 1
      /\ b \in Int /\ v = w * b + (v % w) /\ (v % w) \in 0 .. w - 1
  BY <1>2, Quotient, RemainderType
<1>. HIDE DEF q, u, v, a, b
<1> DEFINE k == q + a - b
           m == u % w
           n == v % w
<1>4. k \in Int /\ k * w = n - m
  <2>1. k * w = w * q + w * a - w * b
    BY <1>1, <1>3, Distributed
  <2> DEFINE wq == w * q
             wa == w * a
             wb == w * b
  <2>2. /\ wq \in Int /\ wa \in Int /\ wb \in Int
        /\ v - u = wq /\ u = wa + m /\ v = wb + n /\ k * w = wq + wa - wb
        /\ u \in Int /\ v \in Int /\ m \in Int /\ n \in Int /\ k \in Int
    BY <1>1, <1>2, <1>3, <2>1
  <2>. HIDE DEF wq, wa, wb, k, m, n
  <2>. QED
    BY <2>2
<1>5. m \in Int /\ n \in Int /\ n - m < w /\ m - n < w
  BY <1>3
<1>. HIDE DEF k, m, n
<1>6. k = 0
  BY <1>4, <1>5, Multiple
<1>7. m = n
  BY <1>4, <1>5, <1>6
<1>. QED
  BY <1>7 DEF m, n, u, v

\* Some number of a set is the least.
LEMMA Least ==
  ASSUME NEW T \in SUBSET Nat, T # {}
  PROVE  \E n \in T : \A m \in T : ~ (m < n)
<1>1. PICK n \in T : \A m \in T : ~ (<<m, n>> \in OpToRel(<, Nat))
  BY NatLessThanWellFounded, WFMin
<1>. QED
  BY <1>1 DEF OpToRel

-----------------------------------------------------------------------------
(* The checksum.                                                           *)

\* f is what is added up of the first chars of s, for 0 to m of them.
SumsTo(f, s, m) ==
  f = [n \in 0 .. m |-> IF n = 0 THEN 0 ELSE (f[n - 1] + s[n]) % WordSize]

LEMMA SumsExist ==
  ASSUME NEW s \in Seq(Int), NEW m \in 0 .. Len(s)
  PROVE  \E f \in [0 .. m -> 0 .. WordSize - 1] : SumsTo(f, s, m)
<1> DEFINE Good(n) == \E f \in [0 .. n -> 0 .. WordSize - 1] : SumsTo(f, s, n)
           Bad == {n \in 0 .. Len(s) : ~ Good(n)}
<1>0. WordSize \in Nat \ {0} /\ Len(s) \in Nat
  BY ImageAssumption
<1>. SUFFICES ASSUME Bad # {} PROVE FALSE
  OBVIOUS
<1>1. PICK n \in Bad : \A k \in Bad : ~ (k < n)
  <2>1. Bad \in SUBSET Nat
    BY <1>0
  <2>. HIDE DEF Bad
  <2>. QED
    BY <2>1, Least
<1>2. n \in 0 .. Len(s) /\ ~ Good(n)
  BY <1>1
<1>3. n # 0
  <2> DEFINE f == [i \in 0 .. 0 |-> 0]
  <2>1. f \in [0 .. 0 -> 0 .. WordSize - 1] /\ SumsTo(f, s, 0)
    BY <1>0 DEF SumsTo
  <2>. QED
    BY <1>2, <2>1
<1>4. n - 1 \in 0 .. Len(s) /\ Good(n - 1)
  <2>1. n - 1 \in 0 .. Len(s) /\ n - 1 < n
    BY <1>0, <1>2, <1>3
  <2>2. n - 1 \notin Bad
    BY <1>1, <2>1
  <2>. QED
    BY <2>1, <2>2
<1>5. PICK f \in [0 .. n - 1 -> 0 .. WordSize - 1] : SumsTo(f, s, n - 1)
  BY <1>4
<1> DEFINE g == [i \in 0 .. n |-> IF i = n THEN (f[n - 1] + s[n]) % WordSize ELSE f[i]]
<1>6. g \in [0 .. n -> 0 .. WordSize - 1]
  <2>1. f[n - 1] + s[n] \in Int
    BY <1>0, <1>2, <1>3, <1>5
  <2>2. (f[n - 1] + s[n]) % WordSize \in 0 .. WordSize - 1
    BY <1>0, <2>1, RemainderType
  <2>3. \A i \in 0 .. n : i # n => i \in 0 .. n - 1
    BY <1>2
  <2>. QED
    BY <1>5, <2>2, <2>3
<1>7. SumsTo(g, s, n)
  <2>1. \A i \in 0 .. n - 1 : f[i] = IF i = 0 THEN 0 ELSE (f[i - 1] + s[i]) % WordSize
    BY <1>5 DEF SumsTo
  <2>2. ASSUME NEW i \in 0 .. n
        PROVE  g[i] = IF i = 0 THEN 0 ELSE (g[i - 1] + s[i]) % WordSize
    <3>1. CASE i = n
      <4>1. g[i - 1] = f[n - 1]
        BY <1>2, <1>3, <3>1
      <4>. QED
        BY <1>3, <3>1, <4>1
    <3>2. CASE i # n
      <4>1. i \in 0 .. n - 1 /\ (i # 0 => i - 1 \in 0 .. n /\ i - 1 # n)
        BY <1>2, <3>2
      <4>. QED
        BY <2>1, <3>2, <4>1
    <3>. QED
      BY <3>1, <3>2
  <2>. HIDE DEF g
  <2>. QED
    BY <1>6, <2>2 DEF SumsTo
<1>. QED
  BY <1>2, <1>6, <1>7

LEMMA SumsType ==
  ASSUME NEW s \in Seq(Int), NEW m \in 0 .. Len(s), NEW f, SumsTo(f, s, m)
  PROVE  \A n \in 0 .. m : f[n] \in 0 .. WordSize - 1
<1> DEFINE Bad == {n \in 0 .. m : f[n] \notin 0 .. WordSize - 1}
<1>0. WordSize \in Nat \ {0} /\ m \in Nat /\ m <= Len(s)
  BY ImageAssumption
<1>1. \A n \in 0 .. m : f[n] = IF n = 0 THEN 0 ELSE (f[n - 1] + s[n]) % WordSize
  BY DEF SumsTo
<1>. SUFFICES ASSUME Bad # {} PROVE FALSE
  OBVIOUS
<1>2. PICK n \in Bad : \A k \in Bad : ~ (k < n)
  <2>1. Bad \in SUBSET Nat
    BY <1>0
  <2>. HIDE DEF Bad
  <2>. QED
    BY <2>1, Least
<1>3. n \in 0 .. m /\ n # 0
  BY <1>0, <1>1
<1>4. n - 1 \in 0 .. m /\ n - 1 < n
  BY <1>0, <1>3
<1>5. f[n - 1] + s[n] \in Int
  BY <1>0, <1>2, <1>3, <1>4
<1>6. f[n] \in 0 .. WordSize - 1
  BY <1>0, <1>1, <1>3, <1>5, RemainderType
<1>. QED
  BY <1>2, <1>6

LEMMA AddedUpIs ==
  ASSUME NEW s \in Seq(Int)
  PROVE  \E f : /\ \A n \in 0 .. Len(s) : f[n] \in 0 .. WordSize - 1
                /\ f[0] = 0
                /\ \A n \in 1 .. Len(s) : f[n] = (f[n - 1] + s[n]) % WordSize
                /\ AddedUp(s) = f[Len(s)]
<1> DEFINE f == CHOOSE g : SumsTo(g, s, Len(s))
<1>0. Len(s) \in 0 .. Len(s) /\ 0 \in 0 .. Len(s)
  OBVIOUS
<1>1. SumsTo(f, s, Len(s))
  BY <1>0, SumsExist
<1>2. AddedUp(s) = f[Len(s)]
  BY DEF AddedUp, SumsTo
<1>. HIDE DEF f
<1>3. \A n \in 0 .. Len(s) : f[n] = IF n = 0 THEN 0 ELSE (f[n - 1] + s[n]) % WordSize
  BY <1>1 DEF SumsTo
<1>4. \A n \in 0 .. Len(s) : f[n] \in 0 .. WordSize - 1
  BY <1>0, <1>1, SumsType
<1>. QED
  BY <1>0, <1>2, <1>3, <1>4

\* The sum of a sequence is that of its beginning and of its end, wrapped.
LEMMA SumSplits ==
  ASSUME NEW s \in Seq(Int), NEW n \in 0 .. Len(s)
  PROVE  /\ AddedUp(SubSeq(s, 1, n)) \in 0 .. WordSize - 1
         /\ AddedUp(SubSeq(s, n + 1, Len(s))) \in 0 .. WordSize - 1
         /\ AddedUp(s) = (AddedUp(SubSeq(s, 1, n)) + AddedUp(SubSeq(s, n + 1, Len(s)))) % WordSize
<1> DEFINE p == SubSeq(s, 1, n)
           t == SubSeq(s, n + 1, Len(s))
           m == Len(s) - n
<1>0. WordSize \in Nat \ {0} /\ Len(s) \in Nat /\ n \in Nat /\ n <= Len(s) /\ m \in Nat
      /\ \A i \in 1 .. Len(s) : s[i] \in Int
  BY ImageAssumption, ElementOfSeq
<1>1. p \in Seq(Int) /\ Len(p) = n /\ \A i \in 1 .. n : p[i] = s[i]
  BY <1>0, SubSeqProperties
<1>2. t \in Seq(Int) /\ Len(t) = m /\ \A i \in 1 .. m : t[i] = s[n + i]
  <2>1. \A i \in n + 1 .. Len(s) : s[i] \in Int
    BY <1>0
  <2>2. /\ t \in Seq(Int)
        /\ Len(t) = IF n + 1 <= Len(s) THEN Len(s) - (n + 1) + 1 ELSE 0
        /\ \A i \in 1 .. Len(s) - (n + 1) + 1 : t[i] = s[n + 1 + i - 1]
    BY <1>0, <2>1, SubSeqProperties
  <2>. QED
    BY <1>0, <2>2
<1>. HIDE DEF p, t
<1>3. PICK f : /\ \A i \in 0 .. Len(s) : f[i] \in 0 .. WordSize - 1
               /\ f[0] = 0
               /\ \A i \in 1 .. Len(s) : f[i] = (f[i - 1] + s[i]) % WordSize
               /\ AddedUp(s) = f[Len(s)]
  BY AddedUpIs
<1>4. PICK g : /\ \A i \in 0 .. Len(p) : g[i] \in 0 .. WordSize - 1
               /\ g[0] = 0
               /\ \A i \in 1 .. Len(p) : g[i] = (g[i - 1] + p[i]) % WordSize
               /\ AddedUp(p) = g[Len(p)]
  BY <1>1, AddedUpIs
<1>5. PICK h : /\ \A i \in 0 .. Len(t) : h[i] \in 0 .. WordSize - 1
               /\ h[0] = 0
               /\ \A i \in 1 .. Len(t) : h[i] = (h[i - 1] + t[i]) % WordSize
               /\ AddedUp(t) = h[Len(t)]
  BY <1>2, AddedUpIs
<1>6. \A i \in 0 .. n : f[i] = g[i]
  <2> DEFINE Bad == {i \in 0 .. n : f[i] # g[i]}
  <2>. SUFFICES ASSUME Bad # {} PROVE FALSE
    OBVIOUS
  <2>1. PICK i \in Bad : \A j \in Bad : ~ (j < i)
    <3>1. Bad \in SUBSET Nat
      BY <1>0
    <3>. HIDE DEF Bad
    <3>. QED
      BY <3>1, Least
  <2>2. i \in 0 .. n /\ i # 0
    BY <1>3, <1>4
  <2>3. i \in 1 .. n /\ i \in 1 .. Len(s) /\ i - 1 \in 0 .. n /\ i - 1 < i
    BY <1>0, <2>2
  <2>4. f[i - 1] = g[i - 1]
    BY <2>1, <2>3
  <2>5. f[i] = g[i]
    BY <1>1, <1>3, <1>4, <2>3, <2>4
  <2>. QED
    BY <2>1, <2>5
<1>7. \A i \in 0 .. m : f[n + i] = (f[n] + h[i]) % WordSize
  <2> DEFINE Bad == {i \in 0 .. m : f[n + i] # (f[n] + h[i]) % WordSize}
  <2>. SUFFICES ASSUME Bad # {} PROVE FALSE
    OBVIOUS
  <2>1. PICK i \in Bad : \A j \in Bad : ~ (j < i)
    <3>1. Bad \in SUBSET Nat
      BY <1>0
    <3>. HIDE DEF Bad
    <3>. QED
      BY <3>1, Least
  <2>2. f[n] \in 0 .. WordSize - 1
    BY <1>0, <1>3
  <2>3. i # 0
    <3> DEFINE e == f[n]
    <3>1. e \in 0 .. WordSize - 1 /\ e \in Int /\ e + 0 = e
      BY <1>0, <2>2
    <3>. HIDE DEF e
    <3>2. e % WordSize = e
      BY <1>0, <3>1, SmallRemainder
    <3>3. n + 0 = n /\ f[n + 0] = e /\ (e + h[0]) % WordSize = e
      BY <1>0, <1>5, <3>1, <3>2 DEF e
    <3>. QED
      BY <2>1, <3>3 DEF e
  <2>4. /\ i \in 1 .. m /\ i - 1 \in 0 .. m /\ i - 1 < i
        /\ n + i \in 1 .. Len(s) /\ n + i - 1 = n + (i - 1)
    BY <1>0, <2>3
  <2> DEFINE c == s[n + i]
             d == h[i - 1]
             e == f[n]
  <2>5. c \in Int /\ d \in Int /\ e \in Int
    <3>1. d \in 0 .. WordSize - 1
      BY <1>2, <1>5, <2>4
    <3>. QED
      BY <1>0, <2>2, <2>4, <3>1
  <2>6. f[n + (i - 1)] = (e + d) % WordSize
    BY <2>1, <2>4
  <2>7. f[n + i] = (((e + d) % WordSize) + c) % WordSize
    <3>1. f[n + i] = (f[n + i - 1] + s[n + i]) % WordSize
      BY <1>3, <2>4
    <3>. QED
      BY <2>4, <2>6, <3>1
  <2>8. h[i] = (d + c) % WordSize
    BY <1>2, <1>5, <2>4
  <2>. HIDE DEF c, d, e
  <2> DEFINE x == e + d
             y == d + c
  <2>9. x \in Int /\ y \in Int /\ f[n + i] = ((x % WordSize) + c) % WordSize
         /\ h[i] = y % WordSize
    BY <2>5, <2>7, <2>8
  <2>. HIDE DEF x, y
  <2>10. f[n + i] = (x + c) % WordSize
    BY <1>0, <2>5, <2>9, WrappedSum
  <2>11. (h[i] + e) % WordSize = (y + e) % WordSize
    <3>1. ((y % WordSize) + e) % WordSize = (y + e) % WordSize
      BY <1>0, <2>5, <2>9, WrappedSum
    <3>. QED
      BY <2>9, <3>1
  <2>12. x + c = y + e /\ h[i] + e = e + h[i]
    <3>1. h[i] \in Int
      BY <1>0, <2>9, RemainderType
    <3>. QED
      BY <2>5, <3>1 DEF x, y
  <2>13. f[n + i] = (e + h[i]) % WordSize
    BY <2>10, <2>11, <2>12
  <2>. QED
    BY <2>1, <2>13 DEF e
<1>8. n \in 0 .. n /\ m \in 0 .. m /\ n + m = Len(s)
  BY <1>0
<1>9. AddedUp(p) = f[n] /\ AddedUp(t) = h[m] /\ AddedUp(s) = f[n + m]
  BY <1>1, <1>2, <1>3, <1>4, <1>5, <1>6, <1>8
<1>10. AddedUp(p) \in 0 .. WordSize - 1 /\ AddedUp(t) \in 0 .. WordSize - 1
  BY <1>1, <1>2, <1>4, <1>5, <1>8
<1>11. AddedUp(s) = (AddedUp(p) + AddedUp(t)) % WordSize
  BY <1>7, <1>8, <1>9
<1>. QED
  BY <1>10, <1>11 DEF p, t

\* One char changed changes the checksum, wherever it is and however many
\* follow it: from there on the two sums differ by less than a word.
LEMMA ChangeFound ==
  ASSUME NEW s \in Seq(Byte), NEW k \in DOMAIN s, NEW b \in Byte, b # s[k]
  PROVE  AddedUp([s EXCEPT ![k] = b]) # AddedUp(s)
<1> DEFINE t == [s EXCEPT ![k] = b]
<1>0. /\ WordSize \in Nat \ {0} /\ Byte \subseteq Int
      /\ \A x, y \in Byte : x - y < WordSize
  BY ImageAssumption
<1>1. /\ s \in Seq(Int) /\ t \in Seq(Int) /\ Len(t) = Len(s) /\ Len(s) \in Nat
      /\ k \in 1 .. Len(s) /\ t[k] = b /\ \A n \in 1 .. Len(s) : n # k => t[n] = s[n]
      /\ \A n \in 1 .. Len(s) : s[n] \in Byte /\ s[n] \in Int
  <2>1. s \in Seq(Int) /\ Len(s) \in Nat /\ k \in 1 .. Len(s)
    <3>1. s \in Seq(Int)
      BY <1>0, SeqMonotonic
    <3>. QED
      BY <3>1
  <2>2. \A n \in 1 .. Len(s) : s[n] \in Byte /\ s[n] \in Int
    BY <1>0, ElementOfSeq
  <2>3. /\ t \in Seq(Int) /\ Len(t) = Len(s)
        /\ t[k] = b /\ \A n \in 1 .. Len(s) : n # k => t[n] = s[n]
    BY <1>0, <2>1
  <2>. QED
    BY <2>1, <2>2, <2>3
<1>. HIDE DEF t
<1>01. k \in Int /\ 1 <= k /\ k <= Len(s) /\ Len(s) \in Int
  BY <1>1
<1>2. PICK f : /\ \A n \in 0 .. Len(s) : f[n] \in 0 .. WordSize - 1
               /\ f[0] = 0
               /\ \A n \in 1 .. Len(s) : f[n] = (f[n - 1] + s[n]) % WordSize
               /\ AddedUp(s) = f[Len(s)]
  BY <1>1, AddedUpIs
<1>3. PICK g : /\ \A n \in 0 .. Len(t) : g[n] \in 0 .. WordSize - 1
               /\ g[0] = 0
               /\ \A n \in 1 .. Len(t) : g[n] = (g[n - 1] + t[n]) % WordSize
               /\ AddedUp(t) = g[Len(t)]
  BY <1>1, AddedUpIs
<1>4. \A n \in 0 .. Len(s) : f[n] \in Int /\ g[n] \in Int /\ f[n] - g[n] < WordSize
                               /\ g[n] - f[n] < WordSize
  <2>1. \A n \in 0 .. Len(s) : f[n] \in 0 .. WordSize - 1
    BY <1>2
  <2>2. \A n \in 0 .. Len(s) : g[n] \in 0 .. WordSize - 1
    <3>1. \A n \in 0 .. Len(t) : g[n] \in 0 .. WordSize - 1
      BY <1>3
    <3>. QED
      BY <1>1, <3>1
  <2>3. \A x, y \in 0 .. WordSize - 1 : /\ x \in Int /\ y \in Int
                                         /\ x - y < WordSize /\ y - x < WordSize
    BY <1>0
  <2>. QED
    BY <2>1, <2>2, <2>3
<1>5. \A n \in 0 .. k - 1 : f[n] = g[n]
  <2> DEFINE Bad == {n \in 0 .. k - 1 : f[n] # g[n]}
  <2>. SUFFICES ASSUME Bad # {} PROVE FALSE
    OBVIOUS
  <2>1. PICK n \in Bad : \A i \in Bad : ~ (i < n)
    <3>1. Bad \in SUBSET Nat
      BY <1>1
    <3>. HIDE DEF Bad
    <3>. QED
      BY <3>1, Least
  <2>2. n \in 0 .. k - 1 /\ n # 0
    BY <1>2, <1>3
  <2>3. n - 1 \in 0 .. k - 1 /\ n \in 1 .. Len(s) /\ n # k /\ n - 1 < n
    BY <1>01, <2>2
  <2>4. f[n - 1] = g[n - 1]
    BY <2>1, <2>3
  <2>5. f[n] = g[n]
    BY <1>1, <1>2, <1>3, <2>3, <2>4
  <2>. QED
    BY <2>1, <2>5
<1>6. f[k] # g[k]
  <2>. SUFFICES ASSUME f[k] = g[k] PROVE FALSE
    OBVIOUS
  <2>1. k - 1 \in 0 .. Len(s) /\ k - 1 \in 0 .. k - 1
    BY <1>1
  <2>2. f[k - 1] \in Int /\ f[k - 1] = g[k - 1] /\ s[k] \in Byte /\ b \in Byte
    BY <1>1, <1>4, <1>5, <2>1
  <2>3. (f[k - 1] + s[k]) % WordSize = (f[k - 1] + b) % WordSize
    BY <1>1, <1>2, <1>3, <2>2
  <2>4. s[k] = b
    <3> DEFINE c == f[k - 1]
               x == s[k]
    <3>1. /\ c \in Int /\ x \in Int /\ b \in Int /\ x - b < WordSize /\ b - x < WordSize
          /\ (c + x) % WordSize = (c + b) % WordSize
      BY <1>0, <2>2, <2>3
    <3>. HIDE DEF c, x
    <3>2. x = b
      BY <1>0, <3>1, WrappedShift
    <3>. QED
      BY <3>2 DEF x
  <2>. QED
    BY <2>4
<1>7. \A n \in k .. Len(s) : f[n] # g[n]
  <2> DEFINE Bad == {n \in k .. Len(s) : f[n] = g[n]}
  <2>. SUFFICES ASSUME Bad # {} PROVE FALSE
    OBVIOUS
  <2>1. PICK n \in Bad : \A i \in Bad : ~ (i < n)
    <3>1. Bad \in SUBSET Nat
      BY <1>1
    <3>. HIDE DEF Bad
    <3>. QED
      BY <3>1, Least
  <2>2. n \in k .. Len(s) /\ n # k /\ f[n] = g[n]
    BY <1>6
  <2>02. n \in k .. Len(s) /\ n # k
    BY <2>2
  <2>3. n - 1 \in k .. Len(s) /\ n \in 1 .. Len(s) /\ n - 1 \in 0 .. Len(s) /\ n - 1 < n
    BY <1>01, <2>02
  <2>4. f[n - 1] # g[n - 1]
    BY <2>1, <2>3
  <2> DEFINE x == f[n - 1]
             y == g[n - 1]
             c == s[n]
  <2>5. /\ x \in Int /\ y \in Int /\ x - y < WordSize /\ y - x < WordSize /\ c \in Int
        /\ (x + c) % WordSize = (y + c) % WordSize
    BY <1>1, <1>2, <1>3, <1>4, <2>2, <2>3
  <2>. HIDE DEF x, y, c
  <2>6. (c + x) % WordSize = (c + y) % WordSize
    <3>1. c + x = x + c /\ c + y = y + c
      BY <2>5
    <3>. QED
      BY <2>5, <3>1
  <2>7. x = y
    BY <1>0, <2>5, <2>6, WrappedShift
  <2>. QED
    BY <2>4, <2>7 DEF x, y
<1>8. Len(s) \in k .. Len(s)
  BY <1>1
<1>9. AddedUp(t) # AddedUp(s)
  BY <1>1, <1>2, <1>3, <1>7, <1>8
<1>. QED
  BY <1>9 DEF t

-----------------------------------------------------------------------------
(* Images.                                                                 *)

Char == Byte \cup {Garbage}

LEMMA ImageType ==
  ASSUME NEW i \in Image
  PROVE  /\ i.rest \in Seq(Byte) /\ Len(i.rest) \in Nat /\ Size(i) > HeaderSize
         /\ i.magic = TRUE /\ Accepted(i)
         /\ i = [magic |-> TRUE, chksum |-> i.chksum, rest |-> i.rest]
<1>1. PICK n \in CodeSize : i.rest \in [1 .. HeaderSize - Checked + n -> Byte]
  BY DEF Image, Bytes
<1>2. HeaderSize - Checked + n \in Nat /\ n \in Nat /\ n > 0 /\ HeaderSize \in Nat /\ Checked \in Nat
  BY ImageAssumption
<1>3. i.rest \in Seq(Byte) /\ Len(i.rest) = HeaderSize - Checked + n
  BY <1>1, <1>2
<1>4. Len(i.rest) \in Nat /\ Size(i) > HeaderSize
  BY <1>2, <1>3 DEF Size
<1>5. /\ i.magic = TRUE /\ Accepted(i)
      /\ i = [magic |-> TRUE, chksum |-> i.chksum, rest |-> i.rest]
  <2>1. i \in [magic : {TRUE}, chksum : 0 .. WordSize - 1,
              rest : UNION {Bytes(HeaderSize - Checked + m) : m \in CodeSize}] /\ Accepted(i)
    BY DEF Image
  <2>. QED
    BY <2>1
<1>. QED
  BY <1>3, <1>4, <1>5

LEMMA FileType ==
  ASSUME NEW i \in File
  PROVE  i.rest \in Seq(Byte) /\ Len(i.rest) \in Nat
<1>1. PICK n \in CodeSize : i.rest \in [1 .. n -> Byte]
  BY DEF File, Bytes
<1>. QED
  BY <1>1, ImageAssumption

\* An image is one of its own cuts.
LEMMA WholeIsUnseen ==
  ASSUME NEW i \in Image
  PROVE  i \in UnseenCuts(i)
<1> DEFINE n == Len(i.rest)
<1>0. /\ Checked \in Nat /\ HeaderSize \in Nat /\ Checked <= HeaderSize
      /\ WordSize \in Nat \ {0}
  BY ImageAssumption
<1>1. /\ i.rest \in Seq(Byte) /\ n \in Nat /\ Size(i) > HeaderSize
      /\ i = [magic |-> TRUE, chksum |-> i.chksum, rest |-> i.rest]
  BY ImageType
<1>2. n \in HeaderSize - Checked .. n /\ (n - n) % 4 = 0
  BY <1>0, <1>1 DEF Size
<1>3. SubSeq(i.rest, 1, n) = i.rest /\ SubSeq(i.rest, n + 1, n) = <<>>
  BY <1>1, SubSeqFull, SubSeqEmpty
<1>4. AddedUp(<<>>) = 0
  <2>1. <<>> \in Seq(Int) /\ Len(<<>>) = 0
    OBVIOUS
  <2>. QED
    BY <2>1, AddedUpIs
<1>5. i = [i EXCEPT !.rest = SubSeq(@, 1, n)]
  BY <1>1, <1>3
<1>6. AddedUp(SubSeq(i.rest, n + 1, n)) = 0
  BY <1>3, <1>4
<1>. QED
  BY <1>2, <1>5, <1>6 DEF UnseenCuts

\* Whatever of an image changed on its way, the assertions find it, unless
\* it is a cut that neither its length nor the sum tells.
LEMMA DamageFound ==
  ASSUME NEW i \in Image, NEW j \in Damaged(i), Accepted(j)
  PROVE  j \in UnseenCuts(i)
<1>0. /\ i.rest \in Seq(Byte) /\ Len(i.rest) \in Nat /\ i.magic = TRUE /\ Accepted(i)
      /\ i = [magic |-> TRUE, chksum |-> i.chksum, rest |-> i.rest]
      /\ Len(i.rest) > 0 /\ Checked \in Nat
  <2>1. Checked \in Nat /\ HeaderSize \in Nat /\ Checked <= HeaderSize
    BY ImageAssumption
  <2>2. /\ i.rest \in Seq(Byte) /\ Len(i.rest) \in Nat /\ i.magic = TRUE /\ Accepted(i)
        /\ i = [magic |-> TRUE, chksum |-> i.chksum, rest |-> i.rest]
        /\ Size(i) > HeaderSize
    BY ImageType
  <2>. QED
    BY <2>1, <2>2 DEF Size
<1>. SUFFICES j = i \/ j \in UnseenCuts(i)
  BY WholeIsUnseen
<1>1. CASE j = i
  BY <1>1
<1>2. CASE j = [i EXCEPT !.magic = FALSE]
  <2>1. ~ j.magic
    BY <1>0, <1>2
  <2>. QED
    BY <2>1 DEF Accepted
<1>3. CASE \E c \in 0 .. WordSize - 1 : j = [i EXCEPT !.chksum = c]
  <2>1. PICK c \in 0 .. WordSize - 1 : j = [i EXCEPT !.chksum = c]
    BY <1>3
  <2>2. j.rest = i.rest /\ j.chksum = c
    BY <1>0, <2>1
  <2>3. c = i.chksum
    BY <1>0, <2>2 DEF Accepted
  <2>. QED
    BY <1>0, <2>1, <2>3
<1>4. CASE \E n \in DOMAIN i.rest, b \in Byte : j = [i EXCEPT !.rest[n] = b]
  <2>1. PICK n \in DOMAIN i.rest, b \in Byte : j = [i EXCEPT !.rest[n] = b]
    BY <1>4
  <2>2. j.rest = [i.rest EXCEPT ![n] = b] /\ j.chksum = i.chksum
    BY <1>0, <2>1
  <2>3. AddedUp(j.rest) = AddedUp(i.rest)
    BY <1>0, <2>2 DEF Accepted, Sum
  <2>4. b = i.rest[n]
    BY <1>0, <2>2, <2>3, ChangeFound
  <2>5. j.rest = i.rest
    BY <1>0, <2>2, <2>4
  <2>. QED
    BY <1>0, <2>1, <2>5
<1>5. CASE \E n \in HeaderSize - Checked .. Len(i.rest) :
             j = [i EXCEPT !.rest = SubSeq(@, 1, n)]
  <2>1. PICK n \in HeaderSize - Checked .. Len(i.rest) :
               j = [i EXCEPT !.rest = SubSeq(@, 1, n)]
    BY <1>5
  <2> DEFINE head == SubSeq(i.rest, 1, n)
             tail == SubSeq(i.rest, n + 1, Len(i.rest))
  <2>2. j.rest = head /\ j.chksum = i.chksum
    BY <1>0, <2>1
  <2>3. /\ n \in 0 .. Len(i.rest) /\ i.rest \in Seq(Int) /\ WordSize \in Nat \ {0}
        /\ n \in Nat
    BY <1>0, <2>1, ImageAssumption, SeqMonotonic
  <2>4. /\ AddedUp(head) \in 0 .. WordSize - 1
        /\ AddedUp(tail) \in 0 .. WordSize - 1
        /\ AddedUp(i.rest) = (AddedUp(head) + AddedUp(tail)) % WordSize
    BY <2>3, SumSplits
  <2>5. AddedUp(head) = AddedUp(i.rest)
    BY <1>0, <2>2 DEF Accepted, Sum
  <2>6. AddedUp(tail) = 0
    <3> DEFINE x == AddedUp(head)
               y == AddedUp(tail)
    <3>1. x \in 0 .. WordSize - 1 /\ y \in 0 .. WordSize - 1 /\ (x + y) % WordSize = x
      BY <2>4, <2>5
    <3>. HIDE DEF x, y
    <3>2. x % WordSize = x
      BY <2>3, <3>1, SmallRemainder
    <3> DEFINE z == 0
    <3>3. /\ x \in Int /\ y \in Int /\ z \in Int /\ y - z < WordSize /\ z - y < WordSize
          /\ (x + y) % WordSize = (x + z) % WordSize
      BY <2>3, <3>1, <3>2
    <3>. HIDE DEF z
    <3>4. y = z
      BY <2>3, <3>3, WrappedShift
    <3>. QED
      BY <3>4 DEF y, z
  <2>7. (Len(i.rest) - n) % 4 = 0
    <3>1. Len(j.rest) = n
      BY <1>0, <2>2, <2>3, SubSeqProperties
    <3>2. (Checked + Len(i.rest)) % 4 = 0 /\ (Checked + n) % 4 = 0
      BY <1>0, <3>1 DEF Accepted, Size
    <3> DEFINE a == Len(i.rest)
    <3>3. a \in Nat /\ (Checked + a) % 4 = 0
      BY <1>0, <3>2
    <3>. HIDE DEF a
    <3>4. (a - n) % 4 = 0
      BY <1>0, <2>3, <3>2, <3>3, DwordsApart
    <3>. QED
      BY <3>4 DEF a
  <2>. QED
    BY <2>1, <2>6, <2>7 DEF UnseenCuts
<1>. QED
  BY <1>1, <1>2, <1>3, <1>4, <1>5 DEF Damaged

-----------------------------------------------------------------------------
(* The code.                                                               *)

LEMMA PaddedIs ==
  ASSUME NEW n \in Nat
  PROVE  Padded(n) \in Nat /\ Padded(n) >= n
<1>1. Align \in Nat \ {0}
  BY ImageAssumption
<1>2. n % Align \in 0 .. Align - 1
  BY <1>1, RemainderType
<1>. QED
  BY <1>1, <1>2 DEF Padded

\* Room for the code, and behind the copy the code itself.
Held ==
  /\ raw => made \in File /\ buf.rest \in Seq(Char) /\ Len(buf.rest) = Len(made.rest)
  /\ ~ raw => /\ made \in Image /\ buf \in Damaged(made)
              /\ pc \notin {"given", "aborted"} => buf \in UnseenCuts(made)
  /\ pc \notin {"given", "aborted", "gone"} => Len(Code(buf)) <= alloc_size
  /\ pc \in {"opened", "mapped", "copied", "ready"} =>
       refs = 1 /\ mem \in [1 .. alloc_size -> Char]
  /\ pc \in {"copied", "ready"} =>
       \A n \in DOMAIN Code(buf) : mem[n] = Code(buf)[n]

LoadInv == TypeOK /\ Held

LEMMA CodeOfImage ==
  ASSUME NEW i, i.rest \in Seq(Byte), Len(i.rest) >= HeaderSize - Checked, ~ raw
  PROVE  /\ Code(i) \in Seq(Byte)
         /\ Len(Code(i)) = CodeBytes(i) /\ CodeBytes(i) \in Nat
<1> DEFINE k == HeaderSize - Checked + 1
<1>0. Checked \in Nat /\ HeaderSize \in Nat /\ Checked <= HeaderSize
  BY ImageAssumption
<1>1. /\ i.rest \in Seq(Byte) /\ Len(i.rest) \in Nat /\ Size(i) >= HeaderSize
      /\ k \in Int /\ k >= 1 /\ k <= Len(i.rest) + 1
  BY <1>0 DEF Size
<1>2. \A n \in k .. Len(i.rest) : i.rest[n] \in Byte
  BY <1>1, ElementOfSeq
<1>3. Code(i) = SubSeq(i.rest, k, Len(i.rest))
  BY DEF Code
<1>. HIDE DEF k
<1>4. /\ Code(i) \in Seq(Byte)
      /\ Len(Code(i)) = IF k <= Len(i.rest) THEN Len(i.rest) - k + 1 ELSE 0
  BY <1>1, <1>2, <1>3, SubSeqProperties
<1>. QED
  BY <1>0, <1>1, <1>4 DEF k, Size, CodeBytes

\* A cut image still has its header.
LEMMA CutType ==
  ASSUME NEW i \in Image, NEW j \in UnseenCuts(i)
  PROVE  j.rest \in Seq(Byte) /\ Len(j.rest) >= HeaderSize - Checked
<1>1. PICK n \in HeaderSize - Checked .. Len(i.rest) : j = [i EXCEPT !.rest = SubSeq(@, 1, n)]
  BY DEF UnseenCuts
<1>2. /\ i.rest \in Seq(Byte) /\ Len(i.rest) \in Nat
      /\ i = [magic |-> TRUE, chksum |-> i.chksum, rest |-> i.rest]
  BY ImageType
<1>3. HeaderSize - Checked \in Nat
  BY ImageAssumption
<1>4. j.rest = SubSeq(i.rest, 1, n) /\ n \in 0 .. Len(i.rest)
  BY <1>1, <1>2, <1>3
<1>5. j.rest \in Seq(Byte) /\ Len(j.rest) = n
  BY <1>2, <1>4, SubSeqProperties
<1>. QED
  BY <1>1, <1>5

LEMMA CodeType ==
  ASSUME Held, pc \notin {"given", "aborted"}
  PROVE  Code(buf) \in Seq(Char)
<1>1. CASE raw
  BY <1>1 DEF Held, Code
<1>2. CASE ~ raw
  BY <1>2, CutType, CodeOfImage, SeqMonotonic DEF Held, Char
<1>. QED
  BY <1>1, <1>2

LEMMA InitLoad == Init => LoadInv
<1>. SUFFICES ASSUME Init PROVE LoadInv
  OBVIOUS
<1>1. TypeOK
  <2>1. DOMAIN mem = {} /\ alloc_size = 0 /\ refs = 0 /\ pc = "given"
    BY DEF Init
  <2>2. raw \in BOOLEAN
    BY Zenon DEF Init
  <2>. QED
    BY <2>1, <2>2 DEF TypeOK
<1>2. raw => made \in File /\ buf.rest \in Seq(Char) /\ Len(buf.rest) = Len(made.rest)
  BY FileType, SeqMonotonic DEF Init, Char
<1>3. Held
  BY <1>2 DEF Init, Held
<1>. QED
  BY <1>1, <1>3 DEF LoadInv

LEMMA LoadStep ==
  ASSUME LoadInv, [Next]_vars
  PROVE  LoadInv'
<1>0. TypeOK /\ Held
  BY DEF LoadInv
<1>1. CASE check_image
  <2>1. ~ raw /\ UNCHANGED <<made, buf, raw, mem, refs>> /\ made \in Image /\ buf \in Damaged(made)
    BY <1>0, <1>1 DEF check_image, Held
  <2>2. CASE Accepted(buf) /\ Step("given", "sized") /\ alloc_size' = Padded(CodeBytes(buf))
    <3>1. buf \in UnseenCuts(made)
      BY <2>1, <2>2, DamageFound
    <3>2. Len(Code(buf)) = CodeBytes(buf) /\ CodeBytes(buf) \in Nat
      BY <2>1, <3>1, CutType, CodeOfImage
    <3>3. alloc_size' \in Nat /\ Len(Code(buf)) <= alloc_size'
      BY <2>2, <3>2, PaddedIs
    <3>4. Code(buf)' = Code(buf)
      BY <2>1 DEF Code
    <3>. QED
      BY <1>0, <2>1, <2>2, <3>1, <3>3, <3>4 DEF LoadInv, TypeOK, Held, Step
  <2>3. CASE Step("given", "aborted") /\ UNCHANGED alloc_size
    BY <1>0, <2>1, <2>3 DEF LoadInv, TypeOK, Held, Step
  <2>. QED
    BY <1>1, <2>2, <2>3 DEF check_image
<1>2. CASE read_file
  <2>1. PICK n \in 0 .. Len(made.rest) :
          buf' = [made EXCEPT !.rest = [i \in DOMAIN @ |-> IF i <= n THEN @[i] ELSE Garbage]]
    BY <1>2 DEF read_file
  <2>2. made \in File /\ made.rest \in Seq(Byte) /\ Len(made.rest) \in Nat
    BY <1>0, <1>2, FileType DEF read_file, Held
  <2>3. buf'.rest = [i \in 1 .. Len(made.rest) |-> IF i <= n THEN made.rest[i] ELSE Garbage]
    BY <2>1, <2>2 DEF File
  <2>4. buf'.rest \in Seq(Char) /\ Len(buf'.rest) = Len(made.rest)
    <3>1. \A i \in 1 .. Len(made.rest) : made.rest[i] \in Char /\ Garbage \in Char
      BY <2>2, ElementOfSeq DEF Char
    <3>2. buf'.rest \in [1 .. Len(made.rest) -> Char]
      BY <2>3, <3>1
    <3>. QED
      BY <2>2, <3>2
  <2>5. raw /\ UNCHANGED <<made, raw, mem, refs>> /\ alloc_size' = Len(made.rest) /\ pc' = "sized"
    BY <1>2 DEF read_file, Step
  <2>6. Code(buf)' = buf'.rest
    BY <2>5 DEF Code
  <2>. QED
    BY <1>0, <2>2, <2>4, <2>5, <2>6 DEF LoadInv, TypeOK, Held
<1>3. CASE bo_open
  <2>1. UNCHANGED <<made, buf, raw, alloc_size>> /\ Code(buf)' = Code(buf) /\ pc = "sized"
    BY <1>3 DEF bo_open, Code, Step
  <2>2. CASE pc' = "opened" /\ refs' = 1 /\ mem' = [n \in 1 .. alloc_size |-> Garbage]
    <3>1. mem' \in [1 .. alloc_size' -> Char]
      BY <2>1, <2>2 DEF Char
    <3>. QED
      BY <1>0, <2>1, <2>2, <3>1 DEF LoadInv, TypeOK, Held, Char
  <2>3. CASE pc' = "aborted" /\ UNCHANGED <<refs, mem>>
    BY <1>0, <2>1, <2>3 DEF LoadInv, TypeOK, Held
  <2>. QED
    BY <1>3, <2>2, <2>3 DEF bo_open, Step
<1>4. CASE bo_map \/ bo_unmap
  <2>1. /\ UNCHANGED <<made, buf, raw, alloc_size, mem, refs>> /\ Code(buf)' = Code(buf)
        /\ \/ pc = "opened" /\ pc' \in {"mapped", "aborted"}
           \/ pc = "copied" /\ pc' = "ready"
    BY <1>4 DEF bo_map, bo_unmap, Step, Code
  <2>. QED
    BY <1>0, <2>1 DEF LoadInv, TypeOK, Held
<1>5. CASE copy
  <2> DEFINE code == Code(buf)
  <2>1. /\ UNCHANGED <<made, buf, raw, alloc_size, refs>> /\ Code(buf)' = code
        /\ pc = "mapped" /\ pc' = "copied"
        /\ mem' = [n \in DOMAIN mem |-> IF n \in DOMAIN code THEN code[n] ELSE mem[n]]
    BY <1>5 DEF copy, Step, Code
  <2>2. code \in Seq(Char) /\ mem \in [1 .. alloc_size -> Char] /\ Len(code) <= alloc_size
        /\ alloc_size \in Nat
    BY <1>0, <2>1, CodeType DEF Held, TypeOK
  <2>. HIDE DEF code
  <2>3. /\ mem' \in [1 .. alloc_size -> Char]
        /\ \A n \in DOMAIN code : mem'[n] = code[n]
    <3>1. \A n \in DOMAIN code : n \in DOMAIN mem /\ code[n] \in Char
      BY <2>2, ElementOfSeq
    <3>. QED
      BY <2>1, <2>2, <3>1
  <2>4. TypeOK'
    BY <1>0, <2>1, <2>3 DEF TypeOK, Char
  <2>5. Held'
    BY <1>0, <2>1, <2>2, <2>3 DEF Held
  <2>. QED
    BY <2>4, <2>5 DEF LoadInv
<1>6. CASE destroy
  <2>1. /\ UNCHANGED <<made, buf, raw, alloc_size>> /\ Code(buf)' = Code(buf)
        /\ pc = "ready" /\ pc' = "gone" /\ mem' = <<>> /\ refs' = 0
    BY <1>0, <1>6 DEF destroy, Step, Code, Held
  <2>. QED
    BY <1>0, <2>1 DEF LoadInv, TypeOK, Held
<1>7. CASE UNCHANGED vars
  BY <1>0, <1>7 DEF LoadInv, TypeOK, Held, vars, Code
<1>. QED
  BY <1>1, <1>2, <1>3, <1>4, <1>5, <1>6, <1>7 DEF Next

LEMMA HeldIntact == ASSUME LoadInv PROVE LoadedIntact
<1>. SUFFICES ASSUME pc = "ready" PROVE IsPrefix(Code(buf), mem)
  BY DEF LoadInv, Held, LoadedIntact
<1> DEFINE c == Code(buf)
<1>2. /\ c \in Seq(Char) /\ Len(c) <= alloc_size /\ mem \in [1 .. alloc_size -> Char]
      /\ alloc_size \in Nat /\ \A n \in DOMAIN c : mem[n] = c[n]
  BY CodeType DEF LoadInv, Held, TypeOK
<1>. HIDE DEF c
<1>3. mem \in Seq(Char) /\ Len(mem) = alloc_size /\ Len(c) \in Nat /\ DOMAIN c = 1 .. Len(c)
  BY <1>2
<1>4. SubSeq(c, 1, Len(c)) = SubSeq(mem, 1, Len(c))
  <2>1. \A n \in 1 .. Len(c) : mem[n] = c[n] /\ c[n] \in Char
    BY <1>2, <1>3, ElementOfSeq
  <2>. QED
    BY <1>2, <1>3, <2>1
<1>5. IsPrefix(c, mem)
  BY <1>2, <1>3, <1>4 DEF IsPrefix
<1>. QED
  BY <1>5 DEF c

\* The constructors keep their variables in range: no size of a code, padded
\* or not, wraps below zero, and the object is released once.
THEOREM ImageTypeCorrect == Spec => []TypeOK
<1>1. LoadInv => TypeOK
  BY DEF LoadInv
<1>. QED
  BY <1>1, InitLoad, LoadStep, PTL DEF Spec

\* A shader that is ready holds all of the code its constructor was given, for
\* code of any size, any padding and any size of the header; and what it was
\* given of an image is the image as it was made, whichever one char of it
\* changed and wherever it was cut on its way, signs and overflow or not: all
\* but the cuts by whole dwords whose chars add up to nothing are found.
THEOREM LoadedIntactCorrect == Spec => []LoadedIntact
<1>1. LoadInv => LoadedIntact
  BY HeldIntact
<1>. QED
  BY <1>1, InitLoad, LoadStep, PTL DEF Spec
=============================================================================
