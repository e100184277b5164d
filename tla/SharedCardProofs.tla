-------------------------- MODULE SharedCardProofs --------------------------
(***************************************************************************)
(* Proofs about SharedCard, for any number of programs and any number of   *)
(* jobs: a job finds every register as its program meant it.               *)
(***************************************************************************)
EXTENDS SharedCard, SetterProofs

-----------------------------------------------------------------------------
(* Effects put over one another.                                           *)

\* What the effects of S leave over what was there: in each register what one
\* of them writes, and the rest as it was.
Merged(all, base, effect, S) ==
  /\ DOMAIN all = DOMAIN base \cup UNION {DOMAIN effect[c] : c \in S}
  /\ \A r \in DOMAIN all :
       \/ \E c \in S : r \in DOMAIN effect[c] /\ all[r] = effect[c][r]
       \/ r \in DOMAIN base /\ all[r] = base[r] /\ \A c \in S : r \notin DOMAIN effect[c]

\* One step of a fold over the subsets of S, which pick takes apart.
Folded(g, base, effect, pick, s) ==
  IF s = {} THEN base ELSE Over(effect[pick[s]], g[s \ {pick[s]}])

IsFold(g, base, effect, pick, S) ==
  g = [s \in SUBSET S |-> Folded(g, base, effect, pick, s)]

Picks(pick, S) == \A s \in SUBSET S : s # {} => pick[s] \in s

\* A fold as far as the subsets of at most n elements.
FoldsUpTo(g, base, effect, pick, S, n) ==
  /\ g = [s \in SUBSET S |-> g[s]]
  /\ \A s \in SUBSET S : Cardinality(s) <= n => g[s] = Folded(g, base, effect, pick, s)

LEMMA FoldsUpToExist ==
  ASSUME NEW base, NEW effect, NEW pick, NEW S, IsFiniteSet(S), Picks(pick, S),
         NEW m \in Nat
  PROVE  \E g : FoldsUpTo(g, base, effect, pick, S, m)
<1> DEFINE Bad == {n \in Nat : ~ \E g : FoldsUpTo(g, base, effect, pick, S, n)}
<1>. SUFFICES ASSUME Bad # {} PROVE FALSE
  OBVIOUS
<1>1. PICK n \in Bad : \A k \in Bad : ~ (k < n)
  <2>1. Bad \in SUBSET Nat
    OBVIOUS
  <2>. HIDE DEF Bad
  <2>. QED
    BY <2>1, Least
<1>2. n \in Nat /\ ~ \E g : FoldsUpTo(g, base, effect, pick, S, n)
  BY <1>1
<1>3. CASE n = 0
  <2> DEFINE g == [s \in SUBSET S |-> base]
  <2>1. ASSUME NEW s \in SUBSET S, Cardinality(s) <= 0
        PROVE  s = {}
    <3>1. IsFiniteSet(s) /\ Cardinality(s) \in Nat
      BY FS_Subset, FS_CardinalityType
    <3>. QED
      BY <2>1, <3>1, FS_EmptySet
  <2>2. FoldsUpTo(g, base, effect, pick, S, 0)
    BY <2>1 DEF FoldsUpTo, Folded
  <2>. QED
    BY <1>2, <1>3, <2>2
<1>4. CASE n # 0
  <2>1. n - 1 \in Nat /\ n - 1 < n
    BY <1>2, <1>4
  <2>2. PICK f : FoldsUpTo(f, base, effect, pick, S, n - 1)
    BY <1>1, <2>1
  <2> DEFINE g == [s \in SUBSET S |-> Folded(f, base, effect, pick, s)]
  <2>3. ASSUME NEW s \in SUBSET S, Cardinality(s) <= n
        PROVE  g[s] = Folded(g, base, effect, pick, s)
    <3>1. CASE s = {}
      BY <3>1 DEF Folded
    <3>2. CASE s # {}
      <4> DEFINE t == s \ {pick[s]}
      <4>1. pick[s] \in s
        BY <3>2 DEF Picks
      <4>2. t \in SUBSET S /\ Cardinality(t) <= n - 1
        BY <1>2, <2>3, <4>1, Smaller
      <4>. HIDE DEF t
      <4>3. f[t] = Folded(f, base, effect, pick, t)
        BY <2>2, <4>2 DEF FoldsUpTo
      <4>4. f[t] = g[t]
        BY <4>2, <4>3
      <4>. QED
        BY <3>2, <4>4 DEF Folded, t
    <3>. QED
      BY <3>1, <3>2
  <2>4. g = [s \in SUBSET S |-> g[s]]
    OBVIOUS
  <2>. HIDE DEF g
  <2>5. FoldsUpTo(g, base, effect, pick, S, n)
    BY <2>3, <2>4 DEF FoldsUpTo
  <2>. QED
    BY <1>2, <2>5
<1>. QED
  BY <1>3, <1>4

LEMMA FoldsExist ==
  ASSUME NEW base, NEW effect, NEW pick, NEW S, IsFiniteSet(S), Picks(pick, S)
  PROVE  \E g : IsFold(g, base, effect, pick, S)
<1>1. Cardinality(S) \in Nat
  BY FS_CardinalityType
<1>2. PICK g : FoldsUpTo(g, base, effect, pick, S, Cardinality(S))
  BY <1>1, FoldsUpToExist
<1>3. \A s \in SUBSET S : g[s] = Folded(g, base, effect, pick, s)
  BY <1>2, FS_Subset DEF FoldsUpTo
<1>4. IsFold(g, base, effect, pick, S)
  BY <1>2, <1>3 DEF FoldsUpTo, IsFold
<1>. QED
  BY <1>4

LEMMA FoldsMerge ==
  ASSUME NEW g, NEW base, NEW effect, NEW pick, NEW S, IsFiniteSet(S), Picks(pick, S),
         IsFold(g, base, effect, pick, S)
  PROVE  Merged(g[S], base, effect, S)
<1> DEFINE Bad == {s \in SUBSET S : ~ Merged(g[s], base, effect, s)}
           Sizes == {Cardinality(s) : s \in Bad}
<1>1. ASSUME Bad # {} PROVE FALSE
  <2>1. PICK n \in Sizes : \A k \in Sizes : ~ (k < n)
    <3>1. Sizes \in SUBSET Nat /\ Sizes # {}
      BY <1>1, FS_Subset, FS_CardinalityType
    <3>. HIDE DEF Sizes
    <3>. QED
      BY <3>1, Least
  <2>2. PICK s \in Bad : n = Cardinality(s)
    BY <2>1
  <2>3. s \in SUBSET S /\ ~ Merged(g[s], base, effect, s)
    BY <2>2
  <2>4. g[s] = Folded(g, base, effect, pick, s)
    BY <2>3 DEF IsFold
  <2>5. s # {}
    BY <2>3, <2>4 DEF Folded, Merged
  <2> DEFINE x == pick[s]
             t == s \ {x}
             rest == g[t]
  <2>6. x \in s
    BY <2>3, <2>5 DEF Picks
  <2>7. t \in SUBSET S /\ Cardinality(t) < n
    BY <2>2, <2>3, <2>6, Smaller
  <2>8. Merged(rest, base, effect, t)
    <3>1. Cardinality(t) \notin Sizes
      BY <2>1, <2>7
    <3>. QED
      BY <2>7, <3>1
  <2>9. g[s] = Over(effect[x], rest)
    BY <2>4, <2>5 DEF Folded
  <2>. HIDE DEF x, rest
  <2>10. Merged(g[s], base, effect, s)
    <3>1. DOMAIN g[s] = DOMAIN base \cup UNION {DOMAIN effect[c] : c \in s}
      BY <2>6, <2>8, <2>9 DEF Merged, Over
    <3>2. ASSUME NEW r \in DOMAIN g[s]
          PROVE  \/ \E c \in s : r \in DOMAIN effect[c] /\ g[s][r] = effect[c][r]
                 \/ r \in DOMAIN base /\ g[s][r] = base[r] /\ \A c \in s : r \notin DOMAIN effect[c]
      <4>1. CASE r \in DOMAIN effect[x]
        BY <2>6, <2>9, <3>2, <4>1 DEF Over
      <4>2. CASE r \notin DOMAIN effect[x]
        <5>1. r \in DOMAIN rest /\ g[s][r] = rest[r]
          BY <2>9, <3>2, <4>2 DEF Over
        <5>. QED
          BY <2>6, <2>8, <4>2, <5>1 DEF Merged
      <4>. QED
        BY <4>1, <4>2
    <3>. QED
      BY <3>1, <3>2 DEF Merged
  <2>. QED
    BY <2>3, <2>10
<1>. QED
  BY <1>1

LEMMA FoldOver ==
  ASSUME NEW base, NEW effect, NEW S, IsFiniteSet(S)
  PROVE  Merged(FoldFunctionOnSet(Over, base, effect, S), base, effect, S)
<1> DEFINE pick == [s \in SUBSET S |-> CHOOSE x \in s : TRUE]
           Iter(g) == g = [s \in SUBSET S |->
             IF s = {} THEN base
             ELSE Over(effect[CHOOSE x \in s : TRUE], g[s \ {CHOOSE x \in s : TRUE}])]
           it == CHOOSE g : Iter(g)
<1>1. FoldFunctionOnSet(Over, base, effect, S) = it[S]
  BY DEF FoldFunctionOnSet, MapThenFoldSet
<1>2. Picks(pick, S)
  BY DEF Picks
<1>3. \A g : Iter(g) <=> IsFold(g, base, effect, pick, S)
  BY DEF IsFold, Folded
<1>. HIDE DEF Iter, pick
<1>4. Iter(it)
  BY <1>2, <1>3, FoldsExist
<1>5. IsFold(it, base, effect, pick, S)
  BY <1>3, <1>4
<1>. HIDE DEF it
<1>. QED
  BY <1>1, <1>2, <1>5, FoldsMerge

LEMMA MaxIn ==
  ASSUME NEW n \in Nat, NEW s \in SUBSET (1 .. n), s # {}
  PROVE  Max(s) \in s
<1> DEFINE Down == {n - i : i \in s}
<1>1. PICK k \in Down : \A m \in Down : ~ (m < k)
  <2>1. Down \in SUBSET Nat /\ Down # {}
    OBVIOUS
  <2>. HIDE DEF Down
  <2>. QED
    BY <2>1, Least
<1>2. PICK i \in s : k = n - i
  BY <1>1
<1>3. \A j \in s : i >= j
  <2>1. ASSUME NEW j \in s PROVE i >= j
    <3>1. n - j \in Down /\ ~ (n - j < n - i)
      BY <1>1, <1>2
    <3>. QED
      BY <3>1
  <2>. QED
    BY <2>1
<1>. QED
  BY <1>3 DEF Max

LEMMA EffectMerges ==
  ASSUME NEW X, NEW writes \in Seq(X)
  PROVE  Merged(Effect(writes), <<>>, [i \in DOMAIN writes |-> OneEffect(writes[i])],
                DOMAIN writes)
<1> DEFINE S == DOMAIN writes
           effect == [i \in S |-> OneEffect(writes[i])]
           pick == [s \in SUBSET S |-> Max(s)]
           Iter(g) == g = [s \in SUBSET S |->
             IF s = {} THEN <<>> ELSE Over(OneEffect(writes[Max(s)]), g[s \ {Max(s)}])]
           it == CHOOSE g : Iter(g)
<1>1. Effect(writes) = it[S]
  BY DEF Effect, FoldLeft, MapThenFoldSet
<1>2. Len(writes) \in Nat /\ S = 1 .. Len(writes)
  OBVIOUS
<1>3. \A s \in SUBSET S : s # {} => Max(s) \in s
  BY <1>2, MaxIn
<1>4. Picks(pick, S)
  BY <1>3 DEF Picks
<1>5. \A s \in SUBSET S : s # {} => effect[pick[s]] = OneEffect(writes[Max(s)]) /\ pick[s] = Max(s)
  BY <1>3
<1>6. IsFiniteSet(S)
  BY <1>2, FS_Interval
<1>. HIDE DEF effect, pick, S
<1>7. \A g : Iter(g) <=> IsFold(g, <<>>, effect, pick, S)
  BY <1>5 DEF IsFold, Folded
<1>. HIDE DEF Iter
<1>8. Iter(it)
  BY <1>4, <1>6, <1>7, FoldsExist
<1>9. IsFold(it, <<>>, effect, pick, S)
  BY <1>7, <1>8
<1>. HIDE DEF it
<1>10. Merged(it[S], <<>>, effect, S)
  BY <1>4, <1>6, <1>9, FoldsMerge
<1>. QED
  BY <1>1, <1>10 DEF effect, S

-----------------------------------------------------------------------------
(* Which registers a run of writes reaches.                                *)

Span(at, words) == {at + 4 * (i - 1) : i \in DOMAIN words}

Reach(w) == DOMAIN OneEffect(w)

StaysIn(w, S) == Reach(w) \subseteq S

Within(s, S) == \E X : s \in Seq(X) /\ \A w \in X : StaysIn(w, S)

LEMMA Reaches ==
  ASSUME NEW at, NEW words
  PROVE  /\ Reach(Burst(at, words)) = Span(at, words)
         /\ Reach(Relocated(Burst(at, words))) = Span(at, words)
         /\ \A name, i : /\ Reach(Element(name, i, at, words)) = Span(at, words)
                         /\ Reach(Relocated(Element(name, i, at, words))) = Span(at, words)
  BY DEF Reach, OneEffect, Span, Burst, Relocated, Element

LEMMA OneReaches ==
  ASSUME NEW at \in Int, NEW v
  PROVE  /\ Reach(Write(at, v)) = {at} /\ Reach(Relocated(Write(at, v))) = {at}
         /\ \A name, i : /\ Reach(Element(name, i, at, <<v>>)) = {at}
                         /\ Reach(Relocated(Element(name, i, at, <<v>>))) = {at}
<1>1. Span(at, <<v>>) = {at}
  BY DEF Span
<1>. QED
  BY <1>1, Reaches DEF Write

LEMMA NoReach ==
  /\ \A flags, size : Reach(set_surface_sync(flags, size)) = {}
  /\ \A op, words : op # "SET" => Reach(Packet(op, words)) = {}
<1>1. \A w : w.op # "SET" => Reach(w) = {}
  BY DEF Reach, OneEffect
<1>2. \A flags, size : set_surface_sync(flags, size).op = "SURFACE_SYNC"
  BY DEF set_surface_sync, Relocated, Element, Burst
<1>3. \A op, words : Packet(op, words).op = op
  BY DEF Packet, Burst
<1>. QED
  BY <1>1, <1>2, <1>3

LEMMA WithinBy ==
  ASSUME NEW X, NEW s \in Seq(X), NEW S, \A w \in X : StaysIn(w, S)
  PROVE  Within(s, S)
  BY DEF Within

LEMMA TuplesWithin ==
  ASSUME NEW S
  PROVE  /\ \A u : StaysIn(u, S) => Within(<<u>>, S)
         /\ \A u, v : StaysIn(u, S) /\ StaysIn(v, S) => Within(<<u, v>>, S)
         /\ \A u, v, w : StaysIn(u, S) /\ StaysIn(v, S) /\ StaysIn(w, S)
                         => Within(<<u, v, w>>, S)
<1>1. ASSUME NEW u, StaysIn(u, S)
      PROVE  Within(<<u>>, S)
  <2> DEFINE X == {u}
             s == <<u>>
  <2>1. s \in Seq(X) /\ \A x \in X : StaysIn(x, S)
    BY <1>1
  <2>. HIDE DEF X, s
  <2>2. Within(s, S)
    BY <2>1, WithinBy
  <2>. QED
    BY <2>2 DEF s
<1>2. ASSUME NEW u, NEW v, StaysIn(u, S), StaysIn(v, S)
      PROVE  Within(<<u, v>>, S)
  <2> DEFINE X == {u, v}
             s == <<u, v>>
  <2>1. s \in Seq(X) /\ \A x \in X : StaysIn(x, S)
    BY <1>2
  <2>. HIDE DEF X, s
  <2>2. Within(s, S)
    BY <2>1, WithinBy
  <2>. QED
    BY <2>2 DEF s
<1>3. ASSUME NEW u, NEW v, NEW w, StaysIn(u, S), StaysIn(v, S), StaysIn(w, S)
      PROVE  Within(<<u, v, w>>, S)
  <2> DEFINE X == {u, v, w}
             s == <<u, v, w>>
  <2>1. s \in Seq(X) /\ \A x \in X : StaysIn(x, S)
    BY <1>3
  <2>. HIDE DEF X, s
  <2>2. Within(s, S)
    BY <2>1, WithinBy
  <2>. QED
    BY <2>2 DEF s
<1>. QED
  BY <1>1, <1>2, <1>3

LEMMA WriteIn ==
  ASSUME NEW at \in Int, NEW S, at \in S, NEW v
  PROVE  /\ StaysIn(Write(at, v), S) /\ StaysIn(Relocated(Write(at, v)), S)
         /\ \A name, i : /\ StaysIn(Element(name, i, at, <<v>>), S)
                         /\ StaysIn(Relocated(Element(name, i, at, <<v>>)), S)
<1>1. {at} \subseteq S
  OBVIOUS
<1>2. ASSUME NEW w, Reach(w) = {at}
      PROVE  StaysIn(w, S)
  BY <1>1, <1>2 DEF StaysIn
<1>3. /\ StaysIn(Write(at, v), S) /\ StaysIn(Relocated(Write(at, v)), S)
  BY <1>2, OneReaches
<1>4. ASSUME NEW name, NEW i
      PROVE  /\ StaysIn(Element(name, i, at, <<v>>), S)
             /\ StaysIn(Relocated(Element(name, i, at, <<v>>)), S)
  <2>1. /\ Reach(Element(name, i, at, <<v>>)) = {at}
        /\ Reach(Relocated(Element(name, i, at, <<v>>))) = {at}
    BY OneReaches
  <2>. QED
    BY <1>2, <2>1
<1>. QED
  BY <1>3, <1>4

LEMMA PlainIn ==
  ASSUME NEW S, NEW at \in Int, at \in S, NEW v
  PROVE  StaysIn(Write(at, v), S)
  BY WriteIn

LEMMA BackedIn ==
  ASSUME NEW S, NEW at \in Int, at \in S, NEW v
  PROVE  StaysIn(Relocated(Write(at, v)), S)
  BY WriteIn

LEMMA NothingIn ==
  ASSUME NEW S
  PROVE  /\ \A flags, size : StaysIn(set_surface_sync(flags, size), S)
         /\ \A op, words : op # "SET" => StaysIn(Packet(op, words), S)
  BY NoReach DEF StaysIn

LEMMA JoinWithin ==
  ASSUME NEW S, NEW s, NEW t, Within(s, S), Within(t, S)
  PROVE  Within(s \o t, S)
<1>1. PICK X : s \in Seq(X) /\ \A w \in X : StaysIn(w, S)
  BY DEF Within
<1>2. PICK Y : t \in Seq(Y) /\ \A w \in Y : StaysIn(w, S)
  BY DEF Within
<1>3. s \in Seq(X \cup Y) /\ t \in Seq(X \cup Y)
  BY <1>1, <1>2, SeqMonotonic
<1>4. s \o t \in Seq(X \cup Y)
  BY <1>3
<1>5. \A w \in X \cup Y : StaysIn(w, S)
  BY <1>1, <1>2
<1>. QED
  BY <1>4, <1>5 DEF Within

LEMMA EmptyWithin ==
  ASSUME NEW S
  PROVE  Within(<<>>, S)
<1> DEFINE X == {}
<1>1. <<>> \in Seq(X)
  BY EmptySeq
<1>2. \A w \in X : StaysIn(w, S)
  OBVIOUS
<1>. HIDE DEF X
<1>. QED
  BY <1>1, <1>2 DEF Within

LEMMA WithinMore ==
  ASSUME NEW S, NEW T, S \subseteq T, NEW s, Within(s, S)
  PROVE  Within(s, T)
<1>1. PICK X : s \in Seq(X) /\ \A w \in X : StaysIn(w, S)
  BY DEF Within
<1>2. \A w \in X : StaysIn(w, T)
  BY <1>1 DEF StaysIn
<1>. QED
  BY <1>1, <1>2 DEF Within

\* What a run leaves in a register comes from one of its writes.
LEMMA EffectFrom ==
  ASSUME NEW X, NEW s \in Seq(X)
  PROVE  /\ DOMAIN Effect(s) = UNION {Reach(s[i]) : i \in DOMAIN s}
         /\ \A r \in DOMAIN Effect(s) :
              \E i \in DOMAIN s : r \in Reach(s[i]) /\ Effect(s)[r] = OneEffect(s[i])[r]
<1> DEFINE effect == [i \in DOMAIN s |-> OneEffect(s[i])]
<1>1. Merged(Effect(s), <<>>, effect, DOMAIN s)
  BY EffectMerges
<1>2. DOMAIN <<>> = {}
  OBVIOUS
<1>3. \A i \in DOMAIN s : effect[i] = OneEffect(s[i]) /\ DOMAIN effect[i] = Reach(s[i])
  BY DEF Reach
<1>. HIDE DEF effect
<1>4. DOMAIN Effect(s) = UNION {DOMAIN effect[i] : i \in DOMAIN s}
  BY <1>1, <1>2 DEF Merged
<1>5. DOMAIN Effect(s) = UNION {Reach(s[i]) : i \in DOMAIN s}
  BY <1>3, <1>4
<1>6. \A r \in DOMAIN Effect(s) :
        \E i \in DOMAIN s : r \in DOMAIN effect[i] /\ Effect(s)[r] = effect[i][r]
  BY <1>1, <1>2 DEF Merged
<1>. QED
  BY <1>3, <1>5, <1>6

\* Registers hold bits.
Bits(f) == \A r \in DOMAIN f : f[r] \subseteq Bit

LEMMA EffectBits ==
  ASSUME NEW X, NEW s \in Seq(X)
  PROVE  Bits(Effect(s))
<1>1. ASSUME NEW w, NEW r \in Reach(w)
      PROVE  OneEffect(w)[r] \subseteq Bit
  <2>1. w.op = "SET"
    BY <1>1 DEF Reach, OneEffect
  <2>2. \A word : Value(word) \subseteq Bit
    BY DEF Value
  <2>. QED
    BY <1>1, <2>1, <2>2 DEF Reach, OneEffect
<1>. QED
  BY <1>1, EffectFrom DEF Bits

LEMMA EffectWithin ==
  ASSUME NEW S, NEW s, Within(s, S)
  PROVE  DOMAIN Effect(s) \subseteq S /\ Bits(Effect(s))
<1>1. PICK X : s \in Seq(X) /\ \A w \in X : StaysIn(w, S)
  BY DEF Within
<1>2. \A i \in DOMAIN s : StaysIn(s[i], S)
  BY <1>1, ElementOfSeq
<1>. QED
  BY <1>1, <1>2, EffectFrom, EffectBits DEF StaysIn

-----------------------------------------------------------------------------
(* What each register is for.                                              *)

\* The setters that may write a register, "none" if it is theirs no more than
\* anything's; the registers of a RAT that only the default state writes are
\* among those of the RATs.
Purpose(r) ==
  IF r = \h802c THEN "engine"
  ELSE IF r \in {\h8e10, \h8e14} THEN "ring"
  ELSE IF r \in {\h8e2c, \h288e8} THEN "lds"
  ELSE IF r \in {\h9010, \h9014} THEN "export"
  ELSE IF r \in {\h28720, \h28724, \h28728} THEN "gds"
  ELSE IF \/ \h28b9c <= r /\ r < \h28bcc
          \/ \h28c60 <= r /\ r < \h28eb0 THEN "rat"
  ELSE IF r \in {\h28f40, \h28fc0} THEN "const"
  ELSE IF \h30000 <= r /\ r < \h38000 THEN "fetch"
  ELSE IF \h3a480 <= r /\ r < \h3a500 THEN "loop"
  ELSE "none"

RatArea(id) ==
  {Base(id), Info(id), Attrib(id), Dim(id)}
    \cup (IF id < 6 THEN {Immed(id)} ELSE {})
    \cup (IF id < 8 THEN {Cmask(id), Fmask(id)} ELSE {})

\* The registers of a setter.
Area(c) ==
  CASE c[1] = "lds" -> {\h8e2c, \h288e8}
    [] c[1] = "gds" -> {\h28728, \h28720, \h28724}
    [] c[1] = "ring" -> {\h8e10, \h8e14}
    [] c[1] = "export" -> {\h9010, \h9014}
    [] c[1] = "engine" -> {\h802c}
    [] c[1] = "const" -> {CacheSize(0), CacheBase(0)}
    [] c[1] = "fetch" -> {Fetch(816) + 4 * (i - 1) : i \in 1 .. 8}
    [] c[1] = "rat" -> RatArea(c[2])
    [] c[1] = "loop" -> {LoopConst(i - 1) : i \in 1 .. c[2]}

\* The setters, whether the programs may call them or not.
Plain7 == {"lds", "gds", "ring", "export", "engine", "const", "fetch"}
AnySetter == (Plain7 \X {0}) \cup ({"rat"} \X (0 .. 11)) \cup ({"loop"} \X (1 .. 32))

LEMMA SetterParts ==
  ASSUME NEW c \in AnySetter
  PROVE  /\ c = <<c[1], c[2]>>
         /\ \/ c[1] \in Plain7 /\ c[2] = 0
            \/ c[1] = "rat" /\ c[2] \in 0 .. 11
            \/ c[1] = "loop" /\ c[2] \in 1 .. 32
<1>1. CASE c \in Plain7 \X {0}
  BY <1>1
<1>2. CASE c \in {"rat"} \X (0 .. 11)
  BY <1>2
<1>3. CASE c \in {"loop"} \X (1 .. 32)
  BY <1>3
<1>. QED
  BY <1>1, <1>2, <1>3 DEF AnySetter

LEMMA SettersAre == Setter \subseteq AnySetter
<1>1. Single \X {0} \subseteq Plain7 \X {0}
  BY ProgAssumption DEF Plain7
<1>2. {"rat"} \X RatId \subseteq {"rat"} \X (0 .. 11)
  BY ProgAssumption
<1>3. {"loop"} \X LoopCount \subseteq {"loop"} \X (1 .. 32)
  BY ProgAssumption
<1>. QED
  BY <1>1, <1>2, <1>3 DEF Setter, AnySetter

LEMMA UnusedAre ==
  /\ DOMAIN UnusedEffect = {<<"lds", 0>>, <<"gds", 0>>, <<"ring", 0>>}
  /\ DOMAIN UnusedEffect \subseteq AnySetter
<1>1. DOMAIN UnusedEffect = {"lds", "gds", "ring"} \X {0}
  BY DEF UnusedEffect
<1>2. {"lds", "gds", "ring"} \X {0} \subseteq Plain7 \X {0}
  BY DEF Plain7
<1>. QED
  BY <1>1, <1>2 DEF AnySetter

LEMMA RatAreaIs ==
  ASSUME NEW id \in 0 .. 11, NEW r \in RatArea(id)
  PROVE  /\ r \in Nat /\ Purpose(r) = "rat" /\ Owner(r)[2] = id
         /\ Owner(r)[1] \in {"BASE", "INFO", "ATTRIB", "DIM", "IMMED", "CMASK", "FMASK"}
<1>1. /\ r \in Nat
      /\ \/ \h28b9c <= r /\ r < \h28bcc
         \/ \h28c60 <= r /\ r < \h28eb0
  BY SMT DEF RatArea, Base, Info, Attrib, Dim, Immed, Cmask, Fmask, RatOffset, CB_IMMED0_BASE
<1>2. Purpose(r) = "rat"
  BY <1>1, SMT DEF Purpose
<1>3. RatOwned(id) /\ (id < 8 => TargetOwned(id))
  BY RatOwners
<1>4. id < 6 => Own("IMMED", id, Immed(id))
  BY ImmedOwner
<1>5. \E name \in {"BASE", "INFO", "ATTRIB", "DIM", "IMMED", "CMASK", "FMASK"} :
        Owner(r) = <<name, id>>
  BY <1>3, <1>4 DEF RatArea, RatOwned, TargetOwned, Own
<1>. QED
  BY <1>1, <1>2, <1>5

LEMMA AreaIs ==
  ASSUME NEW c \in AnySetter, NEW r \in Area(c)
  PROVE  r \in Nat /\ Purpose(r) = c[1]
<1>1. CASE c[1] = "lds"
  BY <1>1, SMT DEF Area, Purpose
<1>2. CASE c[1] = "gds"
  BY <1>2, SMT DEF Area, Purpose
<1>3. CASE c[1] = "ring"
  BY <1>3, SMT DEF Area, Purpose
<1>4. CASE c[1] = "export"
  BY <1>4, SMT DEF Area, Purpose
<1>5. CASE c[1] = "engine"
  BY <1>5, SMT DEF Area, Purpose
<1>6. CASE c[1] = "const"
  BY <1>6, SMT DEF Area, Purpose, CacheSize, CacheBase
<1>7. CASE c[1] = "fetch"
  BY <1>7, SMT DEF Area, Purpose, Fetch
<1>8. CASE c[1] = "rat"
  <2>1. r \in RatArea(c[2]) /\ c[2] \in 0 .. 11
    BY <1>8, SetterParts DEF Area
  <2>. QED
    BY <1>8, <2>1, RatAreaIs
<1>9. CASE c[1] = "loop"
  <2>1. PICK i \in 1 .. c[2] : r = LoopConst(i - 1)
    BY <1>9 DEF Area
  <2>2. c[2] \in 1 .. 32
    BY <1>9, SetterParts
  <2>. QED
    BY <1>9, <2>1, <2>2, SMT DEF LoopConst, Purpose
<1>. QED
  BY <1>1, <1>2, <1>3, <1>4, <1>5, <1>6, <1>7, <1>8, <1>9, SetterParts DEF Plain7

\* Only setters of loop constants write the same registers.
LEMMA AreasApart ==
  ASSUME NEW c \in AnySetter, NEW d \in AnySetter, NEW r \in Area(c), r \in Area(d)
  PROVE  \/ c = d
         \/ (c[1] = "loop" /\ d[1] = "loop")
<1>1. c[1] = d[1]
  BY AreaIs
<1>2. c = <<c[1], c[2]>> /\ d = <<d[1], d[2]>>
  BY SetterParts
<1>3. /\ (c[1] \in Plain7 /\ c[2] = 0) \/ c[1] \in {"rat", "loop"}
      /\ (d[1] \in Plain7 /\ d[2] = 0) \/ d[1] \in {"rat", "loop"}
  BY SetterParts
<1>4. "rat" \notin Plain7 /\ "loop" \notin Plain7
  BY DEF Plain7
<1>5. c[1] = "rat" => c[2] = d[2]
  <2>1. c[1] = "rat" => c[2] \in 0 .. 11 /\ d[2] \in 0 .. 11
    <3>1. c[1] = "rat" => c[2] \in 0 .. 11
      BY <1>4, SetterParts
    <3>2. d[1] = "rat" => d[2] \in 0 .. 11
      BY <1>4, SetterParts
    <3>. QED
      BY <1>1, <3>1, <3>2
  <2>2. c[1] = "rat" => r \in RatArea(c[2]) /\ r \in RatArea(d[2])
    BY <1>1 DEF Area
  <2>. QED
    BY <2>1, <2>2, RatAreaIs
<1>6. c[1] # "loop" => c[2] = d[2]
  BY <1>1, <1>3, <1>4, <1>5
<1>7. c[2] = d[2] => c = d
  BY Zenon, <1>1, <1>2
<1>. QED
  BY <1>1, <1>6, <1>7

-----------------------------------------------------------------------------
(* The setters keep to their registers.                                    *)

LEMMA PlainAreas ==
  /\ Area(<<"lds", 0>>) = {\h8e2c, \h288e8} /\ Area(<<"gds", 0>>) = {\h28728, \h28720, \h28724}
  /\ Area(<<"ring", 0>>) = {\h8e10, \h8e14} /\ Area(<<"export", 0>>) = {\h9010, \h9014}
  /\ Area(<<"engine", 0>>) = {\h802c} /\ Area(<<"const", 0>>) = {CacheSize(0), CacheBase(0)}
  /\ Area(<<"fetch", 0>>) = {Fetch(816) + 4 * (i - 1) : i \in 1 .. 8}
  BY SMT DEF Area

LEMMA SmallWithin ==
  ASSUME NEW load, NEW start
  PROVE  /\ Within(set_lds(load), Area(<<"lds", 0>>))
         /\ Within(set_gds(load), Area(<<"gds", 0>>))
         /\ Within(set_tmp_ring(start), Area(<<"ring", 0>>))
         /\ Within(no_tmp_ring, Area(<<"ring", 0>>))
         /\ Within(set_export(start), Area(<<"export", 0>>))
         /\ Within(select_se(load), Area(<<"engine", 0>>))
<1>1. Within(set_lds(load), Area(<<"lds", 0>>))
  <2> DEFINE S == Area(<<"lds", 0>>)
             a == Field(16, UpTo(load, \hffff))
             b == Plainly(UpTo(load, \h3fff)) \cup Field(14, UpTo(load, \h3ffff))
             u == Write(\h8e2c, a)
             v == Write(\h288e8, b)
  <2>1. set_lds(load) = <<u, v>>
    BY DEF set_lds
  <2>2. \h8e2c \in S /\ \h288e8 \in S
    BY PlainAreas, SMT
  <2>. HIDE DEF S, a, b
  <2>3. StaysIn(u, S) /\ StaysIn(v, S)
    <3>1. StaysIn(u, S)
      BY <2>2, PlainIn, SMT
    <3>2. StaysIn(v, S)
      BY <2>2, PlainIn, SMT
    <3>. QED
      BY <3>1, <3>2
  <2>. HIDE DEF u, v
  <2>4. Within(<<u, v>>, S)
    BY <2>3, TuplesWithin
  <2>. QED
    BY <2>1, <2>4 DEF S
<1>2. Within(set_gds(load), Area(<<"gds", 0>>))
  <2> DEFINE S == Area(<<"gds", 0>>)
             a == Plainly(1)
             b == IF load = 0 THEN Zero ELSE AllOnes
             c == IF load = 0 THEN Zero ELSE AllOnes
             u == Write(\h28728, a)
             v == Write(\h28720, b)
             w == Write(\h28724, c)
  <2>1. set_gds(load) = <<u, v, w>>
    BY DEF set_gds
  <2>2. \h28728 \in S /\ \h28720 \in S /\ \h28724 \in S
    BY PlainAreas, SMT
  <2>. HIDE DEF S, a, b, c
  <2>3. StaysIn(u, S) /\ StaysIn(v, S) /\ StaysIn(w, S)
    <3>1. StaysIn(u, S)
      BY <2>2, PlainIn, SMT
    <3>2. StaysIn(v, S)
      BY <2>2, PlainIn, SMT
    <3>3. StaysIn(w, S)
      BY <2>2, PlainIn, SMT
    <3>. QED
      BY <3>1, <3>2, <3>3
  <2>. HIDE DEF u, v, w
  <2>4. Within(<<u, v, w>>, S)
    BY <2>3, TuplesWithin
  <2>. QED
    BY <2>1, <2>4 DEF S
<1>3. Within(set_tmp_ring(start), Area(<<"ring", 0>>))
  <2> DEFINE S == Area(<<"ring", 0>>)
             a == Plainly(256 * start)
             b == Plainly(4 * Size(start))
             u == Relocated(Write(\h8e10, a))
             v == Write(\h8e14, b)
  <2>1. set_tmp_ring(start) = <<u, v>>
    BY DEF set_tmp_ring
  <2>2. \h8e10 \in S /\ \h8e14 \in S
    BY PlainAreas, SMT
  <2>. HIDE DEF S, a, b
  <2>3. StaysIn(u, S) /\ StaysIn(v, S)
    <3>1. StaysIn(u, S)
      BY <2>2, BackedIn, SMT
    <3>2. StaysIn(v, S)
      BY <2>2, PlainIn, SMT
    <3>. QED
      BY <3>1, <3>2
  <2>. HIDE DEF u, v
  <2>4. Within(<<u, v>>, S)
    BY <2>3, TuplesWithin
  <2>. QED
    BY <2>1, <2>4 DEF S
<1>4. Within(no_tmp_ring, Area(<<"ring", 0>>))
  <2> DEFINE S == Area(<<"ring", 0>>)
             a == Zero
             u == Write(\h8e14, a)
  <2>1. no_tmp_ring = <<u>>
    BY DEF no_tmp_ring
  <2>2. \h8e14 \in S
    BY PlainAreas, SMT
  <2>. HIDE DEF S, a
  <2>3. StaysIn(u, S)
    BY <2>2, PlainIn, SMT
  <2>. HIDE DEF u
  <2>4. Within(<<u>>, S)
    BY <2>3, TuplesWithin
  <2>. QED
    BY <2>1, <2>4 DEF S
<1>5. Within(set_export(start), Area(<<"export", 0>>))
  <2> DEFINE S == Area(<<"export", 0>>)
             a == Plainly(256 * start)
             b == Plainly(4 * Size(start))
             u == Relocated(Write(\h9010, a))
             v == Write(\h9014, b)
  <2>1. set_export(start) = <<u, v>>
    BY DEF set_export
  <2>2. \h9010 \in S /\ \h9014 \in S
    BY PlainAreas, SMT
  <2>. HIDE DEF S, a, b
  <2>3. StaysIn(u, S) /\ StaysIn(v, S)
    <3>1. StaysIn(u, S)
      BY <2>2, BackedIn, SMT
    <3>2. StaysIn(v, S)
      BY <2>2, PlainIn, SMT
    <3>. QED
      BY <3>1, <3>2
  <2>. HIDE DEF u, v
  <2>4. Within(<<u, v>>, S)
    BY <2>3, TuplesWithin
  <2>. QED
    BY <2>1, <2>4 DEF S
<1>6. Within(select_se(load), Area(<<"engine", 0>>))
  <2> DEFINE S == Area(<<"engine", 0>>)
             a == Field(16, UpTo(load, \h3fff)) \cup Flag(30)
                    \cup IF load = 1 THEN Flag(31) ELSE Zero
             u == Write(\h802c, a)
  <2>1. select_se(load) = <<u>>
    BY DEF select_se
  <2>2. \h802c \in S
    BY PlainAreas, SMT
  <2>. HIDE DEF S, a
  <2>3. StaysIn(u, S)
    BY <2>2, PlainIn, SMT
  <2>. HIDE DEF u
  <2>4. Within(<<u>>, S)
    BY <2>3, TuplesWithin
  <2>. QED
    BY <2>1, <2>4 DEF S
<1>. QED
  BY <1>1, <1>2, <1>3, <1>4, <1>5, <1>6

LEMMA ConstWithin ==
  ASSUME NEW start, NEW load
  PROVE  Within(setup_const_cache(0, start, load), Area(<<"const", 0>>))
<1> DEFINE S == Area(<<"const", 0>>)
           sync == set_surface_sync({27}, UpTo(load, 510))
           a == Element("CACHE_SIZE", 0, CacheSize(0), <<Plainly(UpTo(load, 510))>>)
           b == Relocated(Element("CACHE_BASE", 0, CacheBase(0), <<Plainly(start)>>))
<1>1. /\ CacheSize(0) \in Int /\ CacheBase(0) \in Int
      /\ CacheSize(0) \in S /\ CacheBase(0) \in S
  <2>1. CacheSize(0) \in Int /\ CacheBase(0) \in Int
    BY SMT DEF CacheSize, CacheBase
  <2>. QED
    BY <2>1, PlainAreas
<1>. HIDE DEF S
<1>2. StaysIn(sync, S) /\ StaysIn(a, S) /\ StaysIn(b, S)
  BY <1>1, WriteIn, NothingIn
<1>3. setup_const_cache(0, start, load) = <<sync, a, b>>
  BY DEF setup_const_cache
<1>. HIDE DEF sync, a, b
<1>4. Within(<<sync, a, b>>, S)
  BY <1>2, TuplesWithin
<1>. QED
  BY <1>3, <1>4 DEF S

LEMMA FetchWithin ==
  ASSUME NEW start, NEW load
  PROVE  Within(set_vtx_resource(816, start, 0, load), Area(<<"fetch", 0>>))
<1> DEFINE S == Area(<<"fetch", 0>>)
           sync == set_surface_sync({23, 24}, 4 * Size(start))
           words ==
             <<Plainly(256 * start), Plainly(4 * Size(start) - 1),
               BaseHi(0) \cup Field(8, 4 * UpTo(load, 511)) \cup Field(20, UpTo(load, 63))
                 \cup Field(26, UpTo(load, 3)) \cup Field(30, UpTo(load, 3))
                 \cup IF load = 1 THEN Literal({19, 28, 29}) ELSE Zero,
               (UNION {Field(b, UpTo(load, 7)) : b \in {3, 6, 9, 12}})
                 \cup IF load = 1 THEN Flag(2) ELSE Zero,
               Zero, Zero, Zero, Field(30, 3)>>
           a == Relocated(Element("FETCH", 816, Fetch(816), words))
<1>1. DOMAIN words = 1 .. 8
  OBVIOUS
<1>2. set_vtx_resource(816, start, 0, load) = <<sync, a>>
  BY DEF set_vtx_resource
<1>. HIDE DEF words
<1>3. Reach(a) = {Fetch(816) + 4 * (i - 1) : i \in 1 .. 8}
  <2>1. Reach(a) = Span(Fetch(816), words)
    BY Reaches
  <2>2. Span(Fetch(816), words) = {Fetch(816) + 4 * (i - 1) : i \in 1 .. 8}
    BY <1>1 DEF Span
  <2>. QED
    BY <2>1, <2>2
<1>4. S = {Fetch(816) + 4 * (i - 1) : i \in 1 .. 8}
  BY PlainAreas
<1>. HIDE DEF a, S
<1>5. StaysIn(sync, S)
  BY NothingIn
<1>. HIDE DEF sync
<1>6. StaysIn(a, S)
  BY <1>3, <1>4 DEF StaysIn
<1>7. Within(<<sync, a>>, S)
  BY <1>5, <1>6, TuplesWithin
<1>. QED
  BY <1>2, <1>7 DEF S

LEMMA RatWithin ==
  ASSUME NEW id \in 0 .. 11, NEW start
  PROVE  Within(set_rat(id, start), RatArea(id))
<1> DEFINE S == RatArea(id)
           a == Plainly(start)
           d == Plainly(Size(start))
           info == RatInfoWord
           attrib == Flag(4)
           zero == Zero
           base == <<Relocated(Element("BASE", id, Base(id), <<a>>))>>
           immed == IF id < 6 THEN <<Relocated(Element("IMMED", id, Immed(id), <<a>>))>> ELSE <<>>
           rest == <<Relocated(Element("INFO", id, Info(id), <<info>>)),
                     Relocated(Element("ATTRIB", id, Attrib(id), <<attrib>>)),
                     Element("DIM", id, Dim(id), <<d>>)>>
           masks == IF id < 8 THEN <<Relocated(Element("CMASK", id, Cmask(id), <<zero>>)),
                                     Relocated(Element("FMASK", id, Fmask(id), <<zero>>))>>
                    ELSE <<>>
<1>1. set_rat(id, start) = base \o immed \o rest \o masks
  BY DEF set_rat
<1>2. /\ Base(id) \in S /\ Info(id) \in S /\ Attrib(id) \in S /\ Dim(id) \in S
      /\ id < 6 => Immed(id) \in S
      /\ id < 8 => Cmask(id) \in S /\ Fmask(id) \in S
  BY DEF RatArea
<1>3. \A r \in S : r \in Int
  BY RatAreaIs
<1>. HIDE DEF S, a, d, info, attrib, zero
<1>4. Within(base, S)
  <2> DEFINE u == Relocated(Element("BASE", id, Base(id), <<a>>))
  <2>1. StaysIn(u, S)
    BY <1>2, <1>3, WriteIn
  <2>. HIDE DEF u
  <2>2. Within(<<u>>, S)
    BY <2>1, TuplesWithin
  <2>. QED
    BY <2>2 DEF u
<1>5. Within(immed, S)
  <2>1. CASE id < 6
    <3> DEFINE u == Relocated(Element("IMMED", id, Immed(id), <<a>>))
    <3>1. StaysIn(u, S)
      BY <1>2, <1>3, <2>1, WriteIn
    <3>2. immed = <<u>>
      BY <2>1
    <3>. HIDE DEF u, immed
    <3>3. Within(<<u>>, S)
      BY <3>1, TuplesWithin
    <3>. QED
      BY <3>2, <3>3
  <2>2. CASE ~ id < 6
    <3>1. immed = <<>>
      BY <2>2
    <3>. HIDE DEF immed
    <3>. QED
      BY <3>1, EmptyWithin
  <2>. QED
    BY <2>1, <2>2
<1>6. Within(rest, S)
  <2> DEFINE u == Relocated(Element("INFO", id, Info(id), <<info>>))
             v == Relocated(Element("ATTRIB", id, Attrib(id), <<attrib>>))
             w == Element("DIM", id, Dim(id), <<d>>)
  <2>1. StaysIn(u, S)
    BY <1>2, <1>3, WriteIn
  <2>2. StaysIn(v, S)
    BY <1>2, <1>3, WriteIn
  <2>3. StaysIn(w, S)
    BY <1>2, <1>3, WriteIn
  <2>. HIDE DEF u, v, w
  <2>4. Within(<<u, v, w>>, S)
    BY <2>1, <2>2, <2>3, TuplesWithin
  <2>. QED
    BY <2>4 DEF u, v, w
<1>7. Within(masks, S)
  <2>1. CASE id < 8
    <3> DEFINE u == Relocated(Element("CMASK", id, Cmask(id), <<zero>>))
               v == Relocated(Element("FMASK", id, Fmask(id), <<zero>>))
    <3>1. StaysIn(u, S)
      BY <1>2, <1>3, <2>1, WriteIn
    <3>2. StaysIn(v, S)
      BY <1>2, <1>3, <2>1, WriteIn
    <3>3. masks = <<u, v>>
      BY <2>1
    <3>. HIDE DEF u, v, masks
    <3>4. Within(<<u, v>>, S)
      BY <3>1, <3>2, TuplesWithin
    <3>. QED
      BY <3>3, <3>4
  <2>2. CASE ~ id < 8
    <3>1. masks = <<>>
      BY <2>2
    <3>. HIDE DEF masks
    <3>. QED
      BY <3>1, EmptyWithin
  <2>. QED
    BY <2>1, <2>2
<1>. HIDE DEF base, immed, rest, masks
<1>8. Within(base \o immed, S)
  BY <1>4, <1>5, JoinWithin
<1>9. Within(base \o immed \o rest, S)
  BY <1>6, <1>8, JoinWithin
<1>10. Within(base \o immed \o rest \o masks, S)
  BY <1>7, <1>9, JoinWithin
<1>. QED
  BY <1>1, <1>10 DEF S

LEMMA LoopWithin ==
  ASSUME NEW n \in 1 .. 32, NEW count, NEW init, NEW inc
  PROVE  Within(LoopConsts(n, count, init, inc), Area(<<"loop", n>>))
<1> DEFINE S == Area(<<"loop", n>>)
           word == Plainly(count) \cup Field(12, init) \cup Field(24, inc)
           one(i) == Element("LOOP", i - 1, LoopConst(i - 1), <<word>>)
           X == {one(i) : i \in 1 .. n}
           s == [i \in 1 .. n |-> one(i)]
<1>1. LoopConsts(n, count, init, inc) = s
  BY DEF LoopConsts
<1>2. S = {LoopConst(i - 1) : i \in 1 .. n}
  BY SMT DEF Area
<1>3. \A i \in 1 .. n : LoopConst(i - 1) \in Int
  BY SMT DEF LoopConst
<1>. HIDE DEF word, S
<1>4. ASSUME NEW i \in 1 .. n
      PROVE  StaysIn(one(i), S)
  <2>1. LoopConst(i - 1) \in S /\ LoopConst(i - 1) \in Int
    BY <1>2, <1>3
  <2>. QED
    BY <2>1, WriteIn
<1>. HIDE DEF one
<1>5. \A x \in X : StaysIn(x, S)
  BY <1>4
<1>6. s \in Seq(X)
  OBVIOUS
<1>. HIDE DEF s, X
<1>7. Within(s, S)
  BY <1>5, <1>6, WithinBy
<1>. QED
  BY <1>1, <1>7 DEF S

LEMMA SetterWithin ==
  ASSUME NEW p, NEW c \in AnySetter
  PROVE  Within(SetterWrites(p, c), Area(c))
<1>1. CASE c[1] \in Plain7 /\ c[2] = 0
  <2>1. c = <<c[1], 0>>
    BY <1>1, SetterParts
  <2>2. CASE c[1] = "lds"
    <3>1. SetterWrites(p, c) = set_lds(1) /\ c = <<"lds", 0>>
      BY <2>1, <2>2 DEF SetterWrites
    <3>. QED
      BY <3>1, SmallWithin
  <2>3. CASE c[1] = "gds"
    <3>1. SetterWrites(p, c) = set_gds(1) /\ c = <<"gds", 0>>
      BY <2>1, <2>3 DEF SetterWrites
    <3>. QED
      BY <3>1, SmallWithin
  <2>4. CASE c[1] = "ring"
    <3>1. SetterWrites(p, c) = set_tmp_ring(StartOf[p]) /\ c = <<"ring", 0>>
      BY <2>1, <2>4 DEF SetterWrites
    <3>. QED
      BY <3>1, SmallWithin
  <2>5. CASE c[1] = "export"
    <3>1. SetterWrites(p, c) = set_export(StartOf[p]) /\ c = <<"export", 0>>
      BY <2>1, <2>5 DEF SetterWrites
    <3>. QED
      BY <3>1, SmallWithin
  <2>6. CASE c[1] = "engine"
    <3>1. SetterWrites(p, c) = select_se(1) /\ c = <<"engine", 0>>
      BY <2>1, <2>6 DEF SetterWrites
    <3>. QED
      BY <3>1, SmallWithin
  <2>7. CASE c[1] = "const"
    <3>1. SetterWrites(p, c) = setup_const_cache(0, StartOf[p], 1) /\ c = <<"const", 0>>
      BY <1>1, <2>1, <2>7 DEF SetterWrites
    <3>. QED
      BY <3>1, ConstWithin
  <2>8. CASE c[1] = "fetch"
    <3>1. SetterWrites(p, c) = set_vtx_resource(816, StartOf[p], 0, 1) /\ c = <<"fetch", 0>>
      BY <1>1, <2>1, <2>8 DEF SetterWrites
    <3>. QED
      BY <3>1, FetchWithin
  <2>. QED
    BY <1>1, <2>2, <2>3, <2>4, <2>5, <2>6, <2>7, <2>8 DEF Plain7
<1>2. CASE c[1] = "rat" /\ c[2] \in 0 .. 11
  <2>1. SetterWrites(p, c) = set_rat(c[2], StartOf[p]) /\ Area(c) = RatArea(c[2])
    BY <1>2 DEF SetterWrites, Area
  <2>. QED
    BY <1>2, <2>1, RatWithin
<1>3. CASE c[1] = "loop" /\ c[2] \in 1 .. 32
  <2> DEFINE count == UpTo(1, 4095)
             inc == UpTo(1, 255)
  <2>1. SetterWrites(p, c) = LoopConsts(c[2], count, count, inc)
    BY <1>3 DEF SetterWrites, set_loop_consts
  <2>2. c = <<"loop", c[2]>>
    BY <1>3, SetterParts
  <2>. HIDE DEF count, inc
  <2>3. Within(LoopConsts(c[2], count, count, inc), Area(<<"loop", c[2]>>))
    BY <1>3, LoopWithin
  <2>. QED
    BY <2>1, <2>2, <2>3
<1>. QED
  BY <1>1, <1>2, <1>3, SetterParts

LEMMA SetterEffects ==
  ASSUME NEW p \in Prog, NEW c \in Setter
  PROVE  /\ SetterEffect[p][c] = Effect(SetterWrites(p, c))
         /\ DOMAIN SetterEffect[p][c] \subseteq Area(c) /\ Bits(SetterEffect[p][c])
         /\ c \in AnySetter
<1>1. SetterEffect[p][c] = Effect(SetterWrites(p, c))
  BY DEF SetterEffect
<1>2. c \in AnySetter
  BY SettersAre
<1>. QED
  BY <1>1, <1>2, SetterWithin, EffectWithin

\* What a setter of loop constants puts into each of them.
LoopValue ==
  Value(Plainly(UpTo(1, 4095)) \cup Field(12, UpTo(1, 4095)) \cup Field(24, UpTo(1, 255)))

LEMMA OneValue ==
  ASSUME NEW at \in Int, NEW v
  PROVE  /\ OneEffect(Write(at, v))[at] = Value(v)
         /\ \A name, i : OneEffect(Element(name, i, at, <<v>>))[at] = Value(v)
<1> DEFINE words == <<v>>
           one(w) == [r \in Span(at, words) |-> Value(words[(r - at) \div 4 + 1])]
<1>1. at \in Span(at, words) /\ words[(at - at) \div 4 + 1] = v
  BY DEF Span
<1>2. /\ OneEffect(Write(at, v)) = [r \in Span(at, words) |-> Value(words[(r - at) \div 4 + 1])]
      /\ \A name, i : OneEffect(Element(name, i, at, <<v>>))
           = [r \in Span(at, words) |-> Value(words[(r - at) \div 4 + 1])]
  BY DEF OneEffect, Span, Write, Element, Burst
<1>. HIDE DEF words
<1>. QED
  BY <1>1, <1>2

LEMMA LoopValues ==
  ASSUME NEW p \in Prog, NEW c \in Setter, c[1] = "loop", NEW r \in DOMAIN SetterEffect[p][c]
  PROVE  SetterEffect[p][c][r] = LoopValue
<1> DEFINE word == Plainly(UpTo(1, 4095)) \cup Field(12, UpTo(1, 4095)) \cup Field(24, UpTo(1, 255))
           n == c[2]
           one(i) == Element("LOOP", i - 1, LoopConst(i - 1), <<word>>)
           X == {one(i) : i \in 1 .. n}
           s == [i \in 1 .. n |-> one(i)]
<1>1. n \in 1 .. 32
  BY SettersAre, SetterParts DEF Plain7
<1>2. SetterEffect[p][c] = Effect(s)
  <2>1. SetterWrites(p, c) = s
    BY DEF SetterWrites, set_loop_consts, LoopConsts
  <2>. HIDE DEF s
  <2>. QED
    BY <2>1, SetterEffects
<1>3. ASSUME NEW i \in 1 .. n, NEW x \in Reach(one(i))
      PROVE  OneEffect(one(i))[x] = LoopValue
  <2>1. LoopConst(i - 1) \in Int
    BY <1>1, SMT DEF LoopConst
  <2>. HIDE DEF word
  <2>2. x = LoopConst(i - 1)
    BY <1>3, <2>1, OneReaches
  <2>3. OneEffect(one(i))[x] = Value(word)
    BY <2>1, <2>2, OneValue
  <2>. QED
    BY <2>3 DEF word, LoopValue
<1>. HIDE DEF one
<1>. HIDE DEF n
<1>4. s \in Seq(X) /\ DOMAIN s = 1 .. n /\ \A i \in 1 .. n : s[i] = one(i)
  BY <1>1
<1>. HIDE DEF s, X
<1>5. PICK i \in DOMAIN s : r \in Reach(s[i]) /\ Effect(s)[r] = OneEffect(s[i])[r]
  BY <1>2, <1>4, EffectFrom
<1>. QED
  BY <1>2, <1>3, <1>4, <1>5

\* A register that one write of a run reaches has what it wrote.
LEMMA LeftBy ==
  ASSUME NEW X, NEW s \in Seq(X), NEW i \in DOMAIN s, NEW at \in Int, NEW v,
         s[i] = Write(at, v), \A j \in DOMAIN s : j # i => at \notin Reach(s[j])
  PROVE  at \in DOMAIN Effect(s) /\ Effect(s)[at] = Value(v)
<1>1. at \in Reach(s[i]) /\ OneEffect(s[i])[at] = Value(v)
  BY OneReaches, OneValue
<1>2. at \in DOMAIN Effect(s)
  BY <1>1, EffectFrom
<1>3. PICK j \in DOMAIN s : at \in Reach(s[j]) /\ Effect(s)[at] = OneEffect(s[j])[at]
  BY <1>2, EffectFrom
<1>. QED
  BY <1>1, <1>2, <1>3

LEMMA NoneValue == Value(Zero) = {}
  BY DEF Value, Zero

LEMMA LdsUnused ==
  LET e == Effect(set_lds(0))
  IN  /\ \h8e2c \in DOMAIN e /\ e[\h8e2c] = {}
      /\ \h288e8 \in DOMAIN e /\ e[\h288e8] = {}
<1> DEFINE x == \h8e2c
           y == \h288e8
           u == Write(x, Zero)
           v == Write(y, Zero)
           s == <<u, v>>
           X == {u, v}
<1>1. set_lds(0) = s
  BY SMT DEF set_lds, UpTo, Field, Plainly, Zero
<1>2. x \in Int /\ y \in Int /\ x # y
  BY SMT
<1>. HIDE DEF x, y
<1>3. Reach(u) = {x} /\ Reach(v) = {y}
  BY <1>2, OneReaches
<1>4. s \in Seq(X) /\ DOMAIN s = {1, 2} /\ s[1] = u /\ s[2] = v
  BY SMT
<1>. HIDE DEF s, X
<1>5. /\ x \in DOMAIN Effect(s) /\ Effect(s)[x] = {}
      /\ y \in DOMAIN Effect(s) /\ Effect(s)[y] = {}
  <2>1. x \in DOMAIN Effect(s) /\ Effect(s)[x] = Value(Zero)
    BY <1>2, <1>3, <1>4, LeftBy
  <2>2. y \in DOMAIN Effect(s) /\ Effect(s)[y] = Value(Zero)
    BY <1>2, <1>3, <1>4, LeftBy
  <2>. QED
    BY <2>1, <2>2, NoneValue
<1>. QED
  BY <1>1, <1>5 DEF x, y

LEMMA GdsUnused ==
  LET e == Effect(set_gds(0))
  IN  /\ \h28720 \in DOMAIN e /\ e[\h28720] = {}
      /\ \h28724 \in DOMAIN e /\ e[\h28724] = {}
<1> DEFINE z == \h28728
           x == \h28720
           y == \h28724
           one == Plainly(1)
           u == Write(x, Zero)
           v == Write(y, Zero)
           w == Write(z, one)
           s == <<w, u, v>>
           X == {u, v, w}
<1>1. set_gds(0) = s
  BY SMT DEF set_gds
<1>2. x \in Int /\ y \in Int /\ z \in Int /\ x # y /\ x # z /\ y # z
  BY SMT
<1>. HIDE DEF x, y, z, one
<1>3. Reach(u) = {x} /\ Reach(v) = {y} /\ Reach(w) = {z}
  BY <1>2, OneReaches
<1>4. s \in Seq(X) /\ DOMAIN s = {1, 2, 3} /\ s[1] = w /\ s[2] = u /\ s[3] = v
  BY SMT
<1>. HIDE DEF s, X
<1>5. /\ x \in DOMAIN Effect(s) /\ Effect(s)[x] = {}
      /\ y \in DOMAIN Effect(s) /\ Effect(s)[y] = {}
  <2>1. x \in DOMAIN Effect(s) /\ Effect(s)[x] = Value(Zero)
    BY <1>2, <1>3, <1>4, LeftBy
  <2>2. y \in DOMAIN Effect(s) /\ Effect(s)[y] = Value(Zero)
    BY <1>2, <1>3, <1>4, LeftBy
  <2>. QED
    BY <2>1, <2>2, NoneValue
<1>. QED
  BY <1>1, <1>5 DEF x, y

LEMMA RingUnused ==
  LET e == Effect(no_tmp_ring)
  IN  \h8e14 \in DOMAIN e /\ e[\h8e14] = {}
<1> DEFINE x == \h8e14
           u == Write(x, Zero)
           s == <<u>>
           X == {u}
<1>1. no_tmp_ring = s
  BY DEF no_tmp_ring
<1>2. x \in Int
  BY SMT
<1>. HIDE DEF x
<1>4. s \in Seq(X) /\ DOMAIN s = {1} /\ s[1] = u
  BY SMT
<1>. HIDE DEF s, X
<1>5. x \in DOMAIN Effect(s) /\ Effect(s)[x] = Value(Zero)
  BY <1>2, <1>4, LeftBy
<1>. QED
  BY <1>1, <1>5, NoneValue DEF x

LEMMA UnusedEffects ==
  ASSUME NEW c \in DOMAIN UnusedEffect
  PROVE  /\ DOMAIN UnusedEffect[c] \subseteq Area(c) /\ Bits(UnusedEffect[c])
         /\ c \in AnySetter /\ c[1] \in {"lds", "gds", "ring"}
         /\ \A r \in Telling(c[1]) : r \in DOMAIN UnusedEffect[c] /\ UnusedEffect[c][r] = {}
<1>1. /\ c \in AnySetter
      /\ c \in {<<"lds", 0>>, <<"gds", 0>>, <<"ring", 0>>}
      /\ c \in {"lds", "gds", "ring"} \X {0}
  BY UnusedAre DEF UnusedEffect
<1>2. UnusedEffect[c] = Effect(UnusedWrites(c[1]))
  BY <1>1 DEF UnusedEffect
<1>3. CASE c = <<"lds", 0>>
  <2>1. UnusedWrites(c[1]) = set_lds(0) /\ Telling(c[1]) = {\h8e2c, \h288e8}
    BY <1>3 DEF UnusedWrites, Telling
  <2>2. DOMAIN UnusedEffect[c] \subseteq Area(c) /\ Bits(UnusedEffect[c])
    BY <1>2, <1>3, <2>1, SmallWithin, EffectWithin
  <2>. QED
    BY <1>1, <1>2, <1>3, <2>1, <2>2, LdsUnused
<1>4. CASE c = <<"gds", 0>>
  <2>1. UnusedWrites(c[1]) = set_gds(0) /\ Telling(c[1]) = {\h28720, \h28724}
    BY <1>4 DEF UnusedWrites, Telling
  <2>2. DOMAIN UnusedEffect[c] \subseteq Area(c) /\ Bits(UnusedEffect[c])
    BY <1>2, <1>4, <2>1, SmallWithin, EffectWithin
  <2>. QED
    BY <1>1, <1>2, <1>4, <2>1, <2>2, GdsUnused
<1>5. CASE c = <<"ring", 0>>
  <2>1. UnusedWrites(c[1]) = no_tmp_ring /\ Telling(c[1]) = {\h8e14}
    BY <1>5 DEF UnusedWrites, Telling
  <2>2. DOMAIN UnusedEffect[c] \subseteq Area(c) /\ Bits(UnusedEffect[c])
    BY <1>2, <1>5, <2>1, SmallWithin, EffectWithin
  <2>. QED
    BY <1>1, <1>2, <1>5, <2>1, <2>2, RingUnused
<1>. QED
  BY <1>1, <1>3, <1>4, <1>5

-----------------------------------------------------------------------------
(* Registers that are no setter's: the shader's and the dispatch's.        *)

Untouched == {r \in Nat : Purpose(r) = "none"}

Clear(at, n) == at \in Nat /\ \A i \in 1 .. n : at + 4 * (i - 1) \in Untouched

LEMMA ClearBurst ==
  ASSUME NEW S, NEW at, NEW n, Clear(at, n), Untouched \subseteq S,
         NEW words, DOMAIN words = 1 .. n
  PROVE  StaysIn(Burst(at, words), S)
<1>1. Reach(Burst(at, words)) = {at + 4 * (i - 1) : i \in 1 .. n}
  <2>1. Reach(Burst(at, words)) = Span(at, words)
    BY Reaches
  <2>. QED
    BY <2>1 DEF Span
<1>. QED
  BY <1>1 DEF StaysIn, Clear

LEMMA PairReach ==
  ASSUME NEW at, NEW u, NEW v, NEW x, NEW y
  PROVE  Reach(Burst(at, <<u, v>>)) = Reach(Burst(at, <<x, y>>))
<1> DEFINE words == <<u, v>>
           others == <<x, y>>
<1>1. DOMAIN words = DOMAIN others
  OBVIOUS
<1>. HIDE DEF words, others
<1>2. Span(at, words) = Span(at, others)
  BY <1>1 DEF Span
<1>. QED
  BY <1>2, Reaches DEF words, others

LEMMA WriteReach ==
  ASSUME NEW at \in Int, NEW u, NEW v
  PROVE  Reach(Write(at, u)) = Reach(Write(at, v))
  BY OneReaches

LEMMA ClearWrite ==
  ASSUME NEW S, NEW at, Clear(at, 1), Untouched \subseteq S, NEW v
  PROVE  StaysIn(Write(at, v), S)
<1>1. DOMAIN <<v>> = 1 .. 1
  OBVIOUS
<1>. QED
  BY <1>1, ClearBurst DEF Write

LEMMA ClearZeros ==
  ASSUME NEW S, NEW at, NEW n, Clear(at, n), Untouched \subseteq S
  PROVE  StaysIn(Burst(at, Zeros(n)), S)
<1>1. DOMAIN Zeros(n) = 1 .. n
  BY DEF Zeros
<1>. QED
  BY <1>1, ClearBurst

LEMMA ClearWords ==
  ASSUME NEW S, NEW at, Untouched \subseteq S
  PROVE  /\ Clear(at, 2) => \A u, v : StaysIn(Burst(at, <<u, v>>), S)
         /\ Clear(at, 3) => \A u, v, w : StaysIn(Burst(at, <<u, v, w>>), S)
         /\ Clear(at, 4) => \A u, v, w, x : StaysIn(Burst(at, <<u, v, w, x>>), S)
<1>1. ASSUME Clear(at, 2), NEW u, NEW v
      PROVE  StaysIn(Burst(at, <<u, v>>), S)
  <2> DEFINE words == <<u, v>>
  <2>1. DOMAIN words = 1 .. 2
    OBVIOUS
  <2>. HIDE DEF words
  <2>2. StaysIn(Burst(at, words), S)
    BY <1>1, <2>1, ClearBurst
  <2>. QED
    BY <2>2 DEF words
<1>2. ASSUME Clear(at, 3), NEW u, NEW v, NEW w
      PROVE  StaysIn(Burst(at, <<u, v, w>>), S)
  <2> DEFINE words == <<u, v, w>>
  <2>1. DOMAIN words = 1 .. 3
    OBVIOUS
  <2>. HIDE DEF words
  <2>2. StaysIn(Burst(at, words), S)
    BY <1>2, <2>1, ClearBurst
  <2>. QED
    BY <2>2 DEF words
<1>3. ASSUME Clear(at, 4), NEW u, NEW v, NEW w, NEW x
      PROVE  StaysIn(Burst(at, <<u, v, w, x>>), S)
  <2> DEFINE words == <<u, v, w, x>>
  <2>1. DOMAIN words = 1 .. 4
    OBVIOUS
  <2>. HIDE DEF words
  <2>2. StaysIn(Burst(at, words), S)
    BY <1>3, <2>1, ClearBurst
  <2>. QED
    BY <2>2 DEF words
<1>. QED
  BY <1>1, <1>2, <1>3

LEMMA ShaderSpots ==
  /\ Clear(\h288d0, 1) /\ Clear(\h288d4, 2) /\ Clear(\h8c00, 1) /\ Clear(\h8c04, 1)
  /\ Clear(\h8c08, 1) /\ Clear(\h8c0c, 1) /\ Clear(\h8e20, 1) /\ Clear(\h8e24, 1)
  /\ Clear(\h8e28, 1) /\ Clear(\h286c8, 1) /\ Clear(\h8c10, 1) /\ Clear(\h8c14, 1)
  /\ Clear(\h8c20, 1) /\ Clear(\h8c24, 1) /\ Clear(\h8c28, 1) /\ Clear(\h8c18, 1)
  /\ Clear(\h8c1c, 1)
  BY SMT DEF Clear, Untouched, Purpose

\* Runs that reach the same registers, write by write.
AlikeRuns(s, t) ==
  /\ \E X : s \in Seq(X) /\ t \in Seq(X)
  /\ DOMAIN s = DOMAIN t
  /\ \A i \in DOMAIN s : Reach(s[i]) = Reach(t[i])

LEMMA AlikeDomains ==
  ASSUME NEW s, NEW t, AlikeRuns(s, t)
  PROVE  DOMAIN Effect(s) = DOMAIN Effect(t)
<1>1. PICK X : s \in Seq(X) /\ t \in Seq(X)
  BY DEF AlikeRuns
<1>2. /\ DOMAIN Effect(s) = UNION {Reach(s[i]) : i \in DOMAIN s}
      /\ DOMAIN Effect(t) = UNION {Reach(t[i]) : i \in DOMAIN t}
  BY <1>1, EffectFrom
<1>. QED
  BY <1>2 DEF AlikeRuns

LEMMA ShaderWithin ==
  ASSUME NEW load
  PROVE  /\ Within(prepare_compute_shader(load), Untouched)
         /\ AlikeRuns(prepare_compute_shader(load), prepare_compute_shader(0))
<1> DEFINE zero == Zero
           ones == AllOnes
           a(l) == Plainly(UpTo(l, 255)) \cup Field(8, UpTo(l, 255))
           b == Literal({0, 1}) \cup Field(18, 1)
           c(l) == Field(28, UpTo(l, 15))
           d == Field(16, 16)
           e == Field(16, 64)
           f == Field(8, 64)
           u1 == set_surface_sync({27}, 256)
           u2 == Relocated(Write(\h288d0, zero))
           u3(l) == Burst(\h288d4, <<a(l), zero>>)
           u4 == Write(\h8c00, b)
           u5(l) == Write(\h8c04, c(l))
           u6 == Write(\h8c08, zero)
           u7 == Write(\h8c0c, d)
           u8 == Write(\h8e20, ones)
           u9 == Write(\h8e24, ones)
           u10 == Write(\h8e28, ones)
           u11 == Write(\h286c8, zero)
           u12 == Write(\h8c10, zero)
           u13 == Write(\h8c14, zero)
           u14 == Write(\h8c20, zero)
           u15 == Write(\h8c24, zero)
           u16 == Write(\h8c28, e)
           u17 == Write(\h8c18, zero)
           u18 == Write(\h8c1c, f)
           s(l) == <<u1, u2, u3(l), u4, u5(l), u6, u7, u8, u9, u10, u11, u12, u13, u14, u15,
                     u16, u17, u18>>
           X == {u1, u2, u3(load), u3(0), u4, u5(load), u5(0), u6, u7, u8, u9, u10, u11, u12,
                 u13, u14, u15, u16, u17, u18}
<1>1. \A l : prepare_compute_shader(l) = s(l)
  BY DEF prepare_compute_shader
<1>. HIDE DEF zero, ones, a, b, c, d, e, f
<1>2. Reach(u3(load)) = Reach(u3(0)) /\ Reach(u5(load)) = Reach(u5(0))
  <2>1. Reach(u3(load)) = Reach(u3(0))
    <3> DEFINE at == \h288d4
               v == a(load)
               w == a(0)
    <3>. HIDE DEF at, v, w
    <3>1. Reach(Burst(at, <<v, zero>>)) = Reach(Burst(at, <<w, zero>>))
      BY PairReach
    <3>. QED
      BY <3>1, SMT DEF at, v, w
  <2>2. Reach(u5(load)) = Reach(u5(0))
    BY WriteReach, SMT
  <2>. QED
    BY <2>1, <2>2
<1>3. StaysIn(u1, Untouched)
  BY NothingIn
<1>4. StaysIn(u2, Untouched)
  <2>1. \h288d0 \in Untouched
    BY ShaderSpots, SMT DEF Clear
  <2>. QED
    BY <2>1, BackedIn, SMT
<1>5. \A l : StaysIn(u3(l), Untouched)
  <2> DEFINE at == \h288d4
  <2>1. Clear(at, 2)
    BY ShaderSpots, SMT
  <2>. HIDE DEF at
  <2>2. \A u, v : StaysIn(Burst(at, <<u, v>>), Untouched)
    BY <2>1, ClearWords
  <2>. QED
    BY <2>2 DEF at
<1>6. StaysIn(u4, Untouched) /\ (\A l : StaysIn(u5(l), Untouched)) /\ StaysIn(u6, Untouched)
  BY ShaderSpots, ClearWrite, SMT
<1>7. StaysIn(u7, Untouched) /\ StaysIn(u8, Untouched) /\ StaysIn(u9, Untouched)
  BY ShaderSpots, ClearWrite, SMT
<1>8. StaysIn(u10, Untouched) /\ StaysIn(u11, Untouched) /\ StaysIn(u12, Untouched)
  BY ShaderSpots, ClearWrite, SMT
<1>9. StaysIn(u13, Untouched) /\ StaysIn(u14, Untouched) /\ StaysIn(u15, Untouched)
  BY ShaderSpots, ClearWrite, SMT
<1>10. StaysIn(u16, Untouched) /\ StaysIn(u17, Untouched) /\ StaysIn(u18, Untouched)
  BY ShaderSpots, ClearWrite, SMT
<1>. HIDE DEF u1, u2, u3, u4, u5, u6, u7, u8, u9, u10, u11, u12, u13, u14, u15, u16, u17, u18
<1>11. \A w \in X : StaysIn(w, Untouched)
  BY <1>3, <1>4, <1>5, <1>6, <1>7, <1>8, <1>9, <1>10
<1>12. s(load) \in Seq(X) /\ s(0) \in Seq(X)
  OBVIOUS
<1>13. DOMAIN s(load) = DOMAIN s(0) /\ \A i \in DOMAIN s(load) : Reach(s(load)[i]) = Reach(s(0)[i])
  BY <1>2, SMT
<1>. HIDE DEF s, X
<1>14. Within(s(load), Untouched)
  BY <1>11, <1>12, WithinBy
<1>15. AlikeRuns(s(load), s(0))
  BY <1>12, <1>13 DEF AlikeRuns
<1>. QED
  BY <1>1, <1>14, <1>15

LEMMA DispatchSpots ==
  /\ Clear(\h8958, 1) /\ Clear(\h899c, 1) /\ Clear(\h89a0, 1) /\ Clear(\h89a4, 1)
  /\ Clear(\h286ec, 1) /\ Clear(\h286f0, 1) /\ Clear(\h286f4, 1) /\ Clear(\h8970, 1)
  /\ Clear(\h89ac, 1)
  BY SMT DEF Clear, Untouched, Purpose

LEMMA DispatchWithin ==
  ASSUME NEW local, NEW other
  PROVE  /\ Within(direct_dispatch(local), Untouched)
         /\ AlikeRuns(direct_dispatch(local), direct_dispatch(other))
<1> DEFINE zero == Zero
           one == Plainly(1)
           size(l, d) == Plainly(IF d <= Len(l) THEN l[d] ELSE 1)
           all(l) == Plainly(Product(l))
           u1 == Write(\h8958, one)
           u2 == Write(\h899c, zero)
           u3 == Write(\h89a0, zero)
           u4 == Write(\h89a4, zero)
           u5(l) == Write(\h286ec, size(l, 1))
           u6(l) == Write(\h286f0, size(l, 2))
           u7(l) == Write(\h286f4, size(l, 3))
           u8(l) == Write(\h8970, all(l))
           u9(l) == Write(\h89ac, all(l))
           u10 == Packet("DISPATCH_DIRECT", [i \in 1 .. 4 |-> Plainly(1)])
           s(l) == <<u1, u2, u3, u4, u5(l), u6(l), u7(l), u8(l), u9(l), u10>>
           X == {u1, u2, u3, u4, u10} \cup {u5(local), u6(local), u7(local), u8(local), u9(local)}
                  \cup {u5(other), u6(other), u7(other), u8(other), u9(other)}
<1>1. \A l : direct_dispatch(l) = s(l)
  BY DEF direct_dispatch
<1>2. StaysIn(u10, Untouched)
  BY NothingIn
<1>. HIDE DEF zero, one, size, all, u10
<1>3. StaysIn(u1, Untouched) /\ StaysIn(u2, Untouched) /\ StaysIn(u3, Untouched)
  BY DispatchSpots, ClearWrite, SMT
<1>4. StaysIn(u4, Untouched)
  BY DispatchSpots, ClearWrite, SMT
<1>5. ASSUME NEW l
      PROVE  /\ StaysIn(u5(l), Untouched) /\ StaysIn(u6(l), Untouched)
             /\ StaysIn(u7(l), Untouched)
  BY DispatchSpots, ClearWrite, SMT
<1>6. ASSUME NEW l
      PROVE  StaysIn(u8(l), Untouched) /\ StaysIn(u9(l), Untouched)
  BY DispatchSpots, ClearWrite, SMT
<1>7. /\ Reach(u5(local)) = Reach(u5(other)) /\ Reach(u6(local)) = Reach(u6(other))
      /\ Reach(u7(local)) = Reach(u7(other)) /\ Reach(u8(local)) = Reach(u8(other))
      /\ Reach(u9(local)) = Reach(u9(other))
  BY WriteReach, SMT
<1>. HIDE DEF u1, u2, u3, u4, u5, u6, u7, u8, u9
<1>8. \A w \in X : StaysIn(w, Untouched)
  BY <1>2, <1>3, <1>4, <1>5, <1>6
<1>9. s(local) \in Seq(X) /\ s(other) \in Seq(X)
  OBVIOUS
<1>10. /\ DOMAIN s(local) = DOMAIN s(other)
       /\ \A i \in DOMAIN s(local) : Reach(s(local)[i]) = Reach(s(other)[i])
  BY <1>7, SMT
<1>. HIDE DEF s, X
<1>11. Within(s(local), Untouched)
  BY <1>8, <1>9, WithinBy
<1>12. AlikeRuns(s(local), s(other))
  BY <1>9, <1>10 DEF AlikeRuns
<1>. QED
  BY <1>1, <1>11, <1>12

\* What the shader and the dispatch write is the same for every program.
LEMMA FixedEffects ==
  ASSUME NEW p \in Prog
  PROVE  /\ DOMAIN ShaderEffect[p] \subseteq Untouched /\ Bits(ShaderEffect[p])
         /\ DOMAIN DispatchEffect[p] \subseteq Untouched /\ Bits(DispatchEffect[p])
         /\ \A q \in Prog : /\ DOMAIN ShaderEffect[p] = DOMAIN ShaderEffect[q]
                            /\ DOMAIN DispatchEffect[p] = DOMAIN DispatchEffect[q]
<1>1. \A q \in Prog : /\ ShaderEffect[q] = Effect(prepare_compute_shader(ShaderOf[q]))
                      /\ DispatchEffect[q] = Effect(direct_dispatch(LocalOf[q]))
  BY DEF ShaderEffect, DispatchEffect
<1>2. /\ DOMAIN ShaderEffect[p] \subseteq Untouched /\ Bits(ShaderEffect[p])
      /\ DOMAIN DispatchEffect[p] \subseteq Untouched /\ Bits(DispatchEffect[p])
  <2>1. /\ Within(prepare_compute_shader(ShaderOf[p]), Untouched)
        /\ Within(direct_dispatch(LocalOf[p]), Untouched)
    BY ShaderWithin, DispatchWithin
  <2>. QED
    BY <1>1, <2>1, EffectWithin
<1>3. \A q \in Prog : DOMAIN ShaderEffect[q] = DOMAIN Effect(prepare_compute_shader(0))
  BY <1>1, ShaderWithin, AlikeDomains
<1>4. \A q \in Prog : DOMAIN DispatchEffect[p] = DOMAIN DispatchEffect[q]
  BY <1>1, DispatchWithin, AlikeDomains
<1>. QED
  BY <1>2, <1>3, <1>4

-----------------------------------------------------------------------------
(* The default state.                                                      *)

LEMMA ClearPair ==
  ASSUME NEW S, NEW at, Clear(at, 2), Untouched \subseteq S, NEW u, NEW v
  PROVE  StaysIn(Burst(at, <<u, v>>), S)
  BY ClearWords

LEMMA ClearThree ==
  ASSUME NEW S, NEW at, Clear(at, 3), Untouched \subseteq S, NEW u, NEW v, NEW w
  PROVE  StaysIn(Burst(at, <<u, v, w>>), S)
  BY ClearWords

LEMMA ClearFour ==
  ASSUME NEW S, NEW at, Clear(at, 4), Untouched \subseteq S, NEW u, NEW v, NEW w, NEW x
  PROVE  StaysIn(Burst(at, <<u, v, w, x>>), S)
  BY ClearWords

\* Rows of writes.
LEMMA RowsWithin ==
  ASSUME NEW n \in Nat, NEW S, NEW s, s = [i \in 1 .. n |-> s[i]],
         \A i \in 1 .. n : StaysIn(s[i], S)
  PROVE  Within(s, S)
<1> DEFINE X == {s[i] : i \in 1 .. n}
<1>1. s \in Seq(X)
  OBVIOUS
<1>2. \A w \in X : StaysIn(w, S)
  OBVIOUS
<1>. HIDE DEF X
<1>. QED
  BY <1>1, <1>2, WithinBy

LEMMA WriteRows ==
  ASSUME NEW S, NEW at, NEW n \in Nat, Clear(at, n), Untouched \subseteq S, NEW v
  PROVE  Within([i \in 1 .. n |-> Write(at + 4 * (i - 1), v)], S)
<1> DEFINE s == [i \in 1 .. n |-> Write(at + 4 * (i - 1), v)]
<1>1. ASSUME NEW i \in 1 .. n
      PROVE  StaysIn(s[i], S)
  <2>1. at + 4 * (i - 1) \in S /\ at + 4 * (i - 1) \in Int
    BY DEF Clear
  <2>2. s[i] = Write(at + 4 * (i - 1), v)
    OBVIOUS
  <2>. QED
    BY <2>1, <2>2, PlainIn
<1>2. s = [i \in 1 .. n |-> s[i]]
  OBVIOUS
<1>. HIDE DEF s
<1>3. Within(s, S)
  BY <1>1, <1>2, RowsWithin
<1>. QED
  BY <1>3 DEF s

LEMMA ClearOff ==
  ASSUME NEW S, NEW at, NEW n \in Nat, Clear(at, n), Untouched \subseteq S
  PROVE  Within(Off(at, n), S)
  BY WriteRows DEF Off

LEMMA PairRows ==
  ASSUME NEW S, NEW at, NEW n \in Nat, \A i \in 1 .. n : Clear(at + 8 * (i - 1), 2),
         Untouched \subseteq S, NEW u, NEW v
  PROVE  Within([i \in 1 .. n |-> Burst(at + 8 * (i - 1), <<u, v>>)], S)
<1> DEFINE s == [i \in 1 .. n |-> Burst(at + 8 * (i - 1), <<u, v>>)]
<1>1. ASSUME NEW i \in 1 .. n
      PROVE  StaysIn(s[i], S)
  <2>1. Clear(at + 8 * (i - 1), 2) /\ s[i] = Burst(at + 8 * (i - 1), <<u, v>>)
    OBVIOUS
  <2>. QED
    BY <2>1, ClearPair
<1>2. s = [i \in 1 .. n |-> s[i]]
  OBVIOUS
<1>. HIDE DEF s
<1>3. Within(s, S)
  BY <1>1, <1>2, RowsWithin
<1>. QED
  BY <1>3 DEF s

LEMMA SxWithin ==
  ASSUME NEW S, Untouched \subseteq S
  PROVE  Within(set_sx_defaults, S)
<1> DEFINE u1 == Write(\h28350, Zero)
           u2 == Burst(\h28410, Zeros(5))
<1>1. Clear(\h28350, 1) /\ Clear(\h28410, 5)
  BY SMT DEF Clear, Untouched, Purpose
<1>2. StaysIn(u1, S) /\ StaysIn(u2, S)
  BY <1>1, ClearWrite, ClearZeros, SMT
<1>. HIDE DEF u1, u2
<1>3. Within(<<u1, u2>>, S)
  BY <1>2, TuplesWithin
<1>. QED
  BY <1>3 DEF u1, u2, set_sx_defaults

LEMMA DbWithin ==
  ASSUME NEW S, Untouched \subseteq S
  PROVE  Within(set_db_defaults, S)
<1> DEFINE s1 == <<Write(\h28800, Zero), Write(\h2880c, Zero), Write(\h28000, Flag(12))>>
           s2 == Off(\h28004, 2)
           s3 == <<Burst(\h2800c, Zeros(2)), Write(\h28ac8, Zero), Burst(\h28ac0, Zeros(2))>>
           s4 == Off(\h28028, 2)
           s5 == <<Write(\h28b70, Zero)>>
<1>1. set_db_defaults = s1 \o s2 \o s3 \o s4 \o s5
  BY DEF set_db_defaults
<1>2. Within(s1, S)
  <2> DEFINE u1 == Write(\h28800, Zero)
             u2 == Write(\h2880c, Zero)
             u3 == Write(\h28000, Flag(12))
  <2>1. /\ Clear(\h28800, 1) /\ Clear(\h2880c, 1) /\ Clear(\h28000, 1)
    BY SMT DEF Clear, Untouched, Purpose
  <2>2. /\ StaysIn(u1, S) /\ StaysIn(u2, S) /\ StaysIn(u3, S)
    BY <2>1, ClearWrite, SMT
  <2>. HIDE DEF u1, u2, u3
  <2>3. Within(<<u1, u2, u3>>, S)
    BY <2>2, TuplesWithin
  <2>. QED
    BY <2>3 DEF u1, u2, u3
<1>3. Within(s2, S)
  <2>1. Clear(\h28004, 2)
    BY SMT DEF Clear, Untouched, Purpose
  <2>. QED
    BY <2>1, ClearOff, SMT
<1>4. Within(s3, S)
  <2> DEFINE u1 == Burst(\h2800c, Zeros(2))
             u2 == Write(\h28ac8, Zero)
             u3 == Burst(\h28ac0, Zeros(2))
  <2>1. /\ Clear(\h2800c, 2) /\ Clear(\h28ac8, 1) /\ Clear(\h28ac0, 2)
    BY SMT DEF Clear, Untouched, Purpose
  <2>2. /\ StaysIn(u1, S) /\ StaysIn(u2, S) /\ StaysIn(u3, S)
    BY <2>1, ClearZeros, ClearWrite, SMT
  <2>. HIDE DEF u1, u2, u3
  <2>3. Within(<<u1, u2, u3>>, S)
    BY <2>2, TuplesWithin
  <2>. QED
    BY <2>3 DEF u1, u2, u3
<1>5. Within(s4, S)
  <2>1. Clear(\h28028, 2)
    BY SMT DEF Clear, Untouched, Purpose
  <2>. QED
    BY <2>1, ClearOff, SMT
<1>6. Within(s5, S)
  <2> DEFINE u1 == Write(\h28b70, Zero)
  <2>1. Clear(\h28b70, 1)
    BY SMT DEF Clear, Untouched, Purpose
  <2>2. StaysIn(u1, S)
    BY <2>1, ClearWrite, SMT
  <2>. HIDE DEF u1
  <2>3. Within(<<u1>>, S)
    BY <2>2, TuplesWithin
  <2>. QED
    BY <2>3 DEF u1
<1>. HIDE DEF s1, s2, s3, s4, s5
<1>7. Within(s1 \o s2, S)
  BY <1>2, <1>3, JoinWithin
<1>8. Within(s1 \o s2 \o s3, S)
  BY <1>7, <1>4, JoinWithin
<1>9. Within(s1 \o s2 \o s3 \o s4, S)
  BY <1>8, <1>5, JoinWithin
<1>10. Within(s1 \o s2 \o s3 \o s4 \o s5, S)
  BY <1>9, <1>6, JoinWithin
<1>. QED
  BY <1>1, <1>10

LEMMA VgtWithin ==
  ASSUME NEW S, Untouched \subseteq S
  PROVE  Within(set_vgt_defaults, S)
<1> DEFINE s1 == Off(\h28a10, 12)
           s2 == Off(\h28b94, 2)
           s3 == Off(\h28ab4, 2)
           s4 == <<Write(\h28400, AllOnes)>>
           s5 == Off(\h28404, 3)
           s6 == <<Burst(\h28aa0, Zeros(2))>>
           s7 == Off(\h28ab4, 2)
           s8 == Off(\h28a10, 8)
           s9 == <<Burst(\h28a30, Zeros(2)), Burst(\h28a38, Zeros(2)), Write(\h28a84, Zero),
                   Write(\h28a94, Zero), Write(\h28a40, Flag(14) \cup Flag(17)),
                   Write(\h28b54, Plainly(2)), Burst(\h28b94, Zeros(2))>>
<1>1. set_vgt_defaults = s1 \o s2 \o s3 \o s4 \o s5 \o s6 \o s7 \o s8 \o s9
  BY DEF set_vgt_defaults
<1>2. Within(s1, S)
  <2>1. Clear(\h28a10, 12)
    BY SMT DEF Clear, Untouched, Purpose
  <2>. QED
    BY <2>1, ClearOff, SMT
<1>3. Within(s2, S)
  <2>1. Clear(\h28b94, 2)
    BY SMT DEF Clear, Untouched, Purpose
  <2>. QED
    BY <2>1, ClearOff, SMT
<1>4. Within(s3, S)
  <2>1. Clear(\h28ab4, 2)
    BY SMT DEF Clear, Untouched, Purpose
  <2>. QED
    BY <2>1, ClearOff, SMT
<1>5. Within(s4, S)
  <2> DEFINE u1 == Write(\h28400, AllOnes)
  <2>1. Clear(\h28400, 1)
    BY SMT DEF Clear, Untouched, Purpose
  <2>2. StaysIn(u1, S)
    BY <2>1, ClearWrite, SMT
  <2>. HIDE DEF u1
  <2>3. Within(<<u1>>, S)
    BY <2>2, TuplesWithin
  <2>. QED
    BY <2>3 DEF u1
<1>6. Within(s5, S)
  <2>1. Clear(\h28404, 3)
    BY SMT DEF Clear, Untouched, Purpose
  <2>. QED
    BY <2>1, ClearOff, SMT
<1>7. Within(s6, S)
  <2> DEFINE u1 == Burst(\h28aa0, Zeros(2))
  <2>1. Clear(\h28aa0, 2)
    BY SMT DEF Clear, Untouched, Purpose
  <2>2. StaysIn(u1, S)
    BY <2>1, ClearZeros, SMT
  <2>. HIDE DEF u1
  <2>3. Within(<<u1>>, S)
    BY <2>2, TuplesWithin
  <2>. QED
    BY <2>3 DEF u1
<1>8. Within(s7, S)
  <2>1. Clear(\h28ab4, 2)
    BY SMT DEF Clear, Untouched, Purpose
  <2>. QED
    BY <2>1, ClearOff, SMT
<1>9. Within(s8, S)
  <2>1. Clear(\h28a10, 8)
    BY SMT DEF Clear, Untouched, Purpose
  <2>. QED
    BY <2>1, ClearOff, SMT
<1>10. Within(s9, S)
  <2> DEFINE u1 == Burst(\h28a30, Zeros(2))
             u2 == Burst(\h28a38, Zeros(2))
             u3 == Write(\h28a84, Zero)
             u4 == Write(\h28a94, Zero)
             u5 == Write(\h28a40, Flag(14) \cup Flag(17))
             u6 == Write(\h28b54, Plainly(2))
             u7 == Burst(\h28b94, Zeros(2))
             X == {u1, u2, u3, u4, u5, u6, u7}
  <2>1. /\ Clear(\h28a30, 2) /\ Clear(\h28a38, 2) /\ Clear(\h28a84, 1) /\ Clear(\h28a94, 1)
        /\ Clear(\h28a40, 1) /\ Clear(\h28b54, 1) /\ Clear(\h28b94, 2)
    BY SMT DEF Clear, Untouched, Purpose
  <2>2. /\ StaysIn(u1, S) /\ StaysIn(u2, S) /\ StaysIn(u3, S) /\ StaysIn(u4, S)
    BY <2>1, ClearZeros, ClearWrite, SMT
  <2>3. /\ StaysIn(u5, S) /\ StaysIn(u6, S) /\ StaysIn(u7, S)
    BY <2>1, ClearWrite, ClearZeros, SMT
  <2>. HIDE DEF u1, u2, u3, u4, u5, u6, u7
  <2>4. \A w \in X : StaysIn(w, S)
    BY <2>2, <2>3
  <2>5. <<u1, u2, u3, u4, u5, u6, u7>> \in Seq(X)
    OBVIOUS
  <2>. HIDE DEF X
  <2>6. Within(<<u1, u2, u3, u4, u5, u6, u7>>, S)
    BY <2>4, <2>5, WithinBy
  <2>. QED
    BY <2>6 DEF u1, u2, u3, u4, u5, u6, u7
<1>. HIDE DEF s1, s2, s3, s4, s5, s6, s7, s8, s9
<1>11. Within(s1 \o s2, S)
  BY <1>2, <1>3, JoinWithin
<1>12. Within(s1 \o s2 \o s3, S)
  BY <1>11, <1>4, JoinWithin
<1>13. Within(s1 \o s2 \o s3 \o s4, S)
  BY <1>12, <1>5, JoinWithin
<1>14. Within(s1 \o s2 \o s3 \o s4 \o s5, S)
  BY <1>13, <1>6, JoinWithin
<1>15. Within(s1 \o s2 \o s3 \o s4 \o s5 \o s6, S)
  BY <1>14, <1>7, JoinWithin
<1>16. Within(s1 \o s2 \o s3 \o s4 \o s5 \o s6 \o s7, S)
  BY <1>15, <1>8, JoinWithin
<1>17. Within(s1 \o s2 \o s3 \o s4 \o s5 \o s6 \o s7 \o s8, S)
  BY <1>16, <1>9, JoinWithin
<1>18. Within(s1 \o s2 \o s3 \o s4 \o s5 \o s6 \o s7 \o s8 \o s9, S)
  BY <1>17, <1>10, JoinWithin
<1>. QED
  BY <1>1, <1>18

LEMMA ScissorsWithin ==
  ASSUME NEW S, Untouched \subseteq S
  PROVE  Within(set_dummy_scissors, S)
<1> DEFINE u1 == Burst(\h28240, <<Flag(31), Pair(16, 16)>>)
           u2 == Burst(\h28030, <<Zero, Pair(16, 16)>>)
           u3 == Burst(\h28204, <<Flag(31), Pair(16, 16)>>)
<1>1. /\ Clear(\h28240, 2) /\ Clear(\h28030, 2) /\ Clear(\h28204, 2)
  BY SMT DEF Clear, Untouched, Purpose
<1>2. /\ StaysIn(u1, S) /\ StaysIn(u2, S) /\ StaysIn(u3, S)
  BY <1>1, ClearPair, SMT
<1>. HIDE DEF u1, u2, u3
<1>3. Within(<<u1, u2, u3>>, S)
  BY <1>2, TuplesWithin
<1>. QED
  BY <1>3 DEF u1, u2, u3, set_dummy_scissors

LEMMA PaWithin ==
  ASSUME NEW S, Untouched \subseteq S
  PROVE  Within(set_pa_defaults, S)
<1> DEFINE s1 == <<Write(\h8a14, Field(1, 3) \cup Flag(0)), Write(\h28810, Zero),
                   Write(\h282d0, Zero), Write(\h282d4, One_f), Write(\h28200, Zero),
                   Write(\h2820c, Plainly(\hffff)),
                   Write(\h28230, Literal({b \in Bit : b % 2 = 1})), Write(\h28234, Zero)>>
           s2 == [i \in 1 .. 4 |-> Burst(\h28210 + 8 * (i - 1), <<Zero, Pair(8192, 8192)>>)]
           s3 == [i \in 1 .. 16 |-> Burst(\h28250 + 8 * (i - 1), <<Flag(31), Pair(8192, 8192)>>)]
           s4 == <<Burst(\h28a48, Zeros(2)),
                   Burst(\h28c00, <<Zero, Zero, Field(1, 2) \cup Flag(0)>>)>>
           s5 == [i \in 1 .. 4 |-> Write(\h28c0c + 4 * (i - 1), One_f)]
           s6 == <<Burst(\h28c1c, Zeros(8)), Write(\h28c3c, AllOnes), Write(\h28810, Flag(16)),
                   Write(\h28818, Flag(8)), Write(\h2881c, Zero)>>
           s7 == Off(\h28820, 4)
           s8 == <<Burst(\h28b78, Zeros(6)), Write(\h28a0c, Zero), Burst(\h28a48, Zeros(2))>>
           s9 == set_dummy_scissors
           s10 == <<Write(\h28a08, Zero),
                   Write(\h28814, Literal(0 .. 2) \cup Field(5, 2) \cup Field(8, 2)),
                   Write(\h28a00, Zero), Write(\h28a04, Zero)>>
<1>1. set_pa_defaults = s1 \o s2 \o s3 \o s4 \o s5 \o s6 \o s7 \o s8 \o s9 \o s10
  BY DEF set_pa_defaults
<1>2. Within(s1, S)
  <2> DEFINE u1 == Write(\h8a14, Field(1, 3) \cup Flag(0))
             u2 == Write(\h28810, Zero)
             u3 == Write(\h282d0, Zero)
             u4 == Write(\h282d4, One_f)
             u5 == Write(\h28200, Zero)
             u6 == Write(\h2820c, Plainly(\hffff))
             u7 == Write(\h28230, Literal({b \in Bit : b % 2 = 1}))
             u8 == Write(\h28234, Zero)
             X == {u1, u2, u3, u4, u5, u6, u7, u8}
  <2>1. /\ Clear(\h8a14, 1) /\ Clear(\h28810, 1) /\ Clear(\h282d0, 1) /\ Clear(\h282d4, 1)
        /\ Clear(\h28200, 1) /\ Clear(\h2820c, 1) /\ Clear(\h28230, 1) /\ Clear(\h28234, 1)
    BY SMT DEF Clear, Untouched, Purpose
  <2>2. /\ StaysIn(u1, S) /\ StaysIn(u2, S) /\ StaysIn(u3, S) /\ StaysIn(u4, S)
    BY <2>1, ClearWrite, SMT
  <2>3. /\ StaysIn(u5, S) /\ StaysIn(u6, S) /\ StaysIn(u7, S) /\ StaysIn(u8, S)
    BY <2>1, ClearWrite, SMT
  <2>. HIDE DEF u1, u2, u3, u4, u5, u6, u7, u8
  <2>4. \A w \in X : StaysIn(w, S)
    BY <2>2, <2>3
  <2>5. <<u1, u2, u3, u4, u5, u6, u7, u8>> \in Seq(X)
    OBVIOUS
  <2>. HIDE DEF X
  <2>6. Within(<<u1, u2, u3, u4, u5, u6, u7, u8>>, S)
    BY <2>4, <2>5, WithinBy
  <2>. QED
    BY <2>6 DEF u1, u2, u3, u4, u5, u6, u7, u8
<1>3. Within(s2, S)
  <2> DEFINE at == \h28210
             n == 4
             u == Zero
             v == Pair(8192, 8192)
  <2>1. n \in Nat /\ \A i \in 1 .. n : Clear(at + 8 * (i - 1), 2)
    BY SMT DEF Clear, Untouched, Purpose
  <2>. HIDE DEF at, n, u, v
  <2>2. Within([i \in 1 .. n |-> Burst(at + 8 * (i - 1), <<u, v>>)], S)
    BY <2>1, PairRows
  <2>. QED
    BY <2>2 DEF at, n, u, v
<1>4. Within(s3, S)
  <2> DEFINE at == \h28250
             n == 16
             u == Flag(31)
             v == Pair(8192, 8192)
  <2>1. n \in Nat /\ \A i \in 1 .. n : Clear(at + 8 * (i - 1), 2)
    BY SMT DEF Clear, Untouched, Purpose
  <2>. HIDE DEF at, n, u, v
  <2>2. Within([i \in 1 .. n |-> Burst(at + 8 * (i - 1), <<u, v>>)], S)
    BY <2>1, PairRows
  <2>. QED
    BY <2>2 DEF at, n, u, v
<1>5. Within(s4, S)
  <2> DEFINE u1 == Burst(\h28a48, Zeros(2))
             u2 == Burst(\h28c00, <<Zero, Zero, Field(1, 2) \cup Flag(0)>>)
  <2>1. Clear(\h28a48, 2) /\ Clear(\h28c00, 3)
    BY SMT DEF Clear, Untouched, Purpose
  <2>2. StaysIn(u1, S) /\ StaysIn(u2, S)
    BY <2>1, ClearZeros, ClearThree, SMT
  <2>. HIDE DEF u1, u2
  <2>3. Within(<<u1, u2>>, S)
    BY <2>2, TuplesWithin
  <2>. QED
    BY <2>3 DEF u1, u2
<1>6. Within(s5, S)
  <2> DEFINE at == \h28c0c
             n == 4
             v == One_f
  <2>1. n \in Nat /\ Clear(at, n)
    BY SMT DEF Clear, Untouched, Purpose
  <2>. HIDE DEF at, n, v
  <2>2. Within([i \in 1 .. n |-> Write(at + 4 * (i - 1), v)], S)
    BY <2>1, WriteRows
  <2>. QED
    BY <2>2 DEF at, n, v
<1>7. Within(s6, S)
  <2> DEFINE u1 == Burst(\h28c1c, Zeros(8))
             u2 == Write(\h28c3c, AllOnes)
             u3 == Write(\h28810, Flag(16))
             u4 == Write(\h28818, Flag(8))
             u5 == Write(\h2881c, Zero)
             X == {u1, u2, u3, u4, u5}
  <2>1. /\ Clear(\h28c1c, 8) /\ Clear(\h28c3c, 1) /\ Clear(\h28810, 1) /\ Clear(\h28818, 1)
        /\ Clear(\h2881c, 1)
    BY SMT DEF Clear, Untouched, Purpose
  <2>2. /\ StaysIn(u1, S) /\ StaysIn(u2, S) /\ StaysIn(u3, S) /\ StaysIn(u4, S)
    BY <2>1, ClearZeros, ClearWrite, SMT
  <2>3. StaysIn(u5, S)
    BY <2>1, ClearWrite, SMT
  <2>. HIDE DEF u1, u2, u3, u4, u5
  <2>4. \A w \in X : StaysIn(w, S)
    BY <2>2, <2>3
  <2>5. <<u1, u2, u3, u4, u5>> \in Seq(X)
    OBVIOUS
  <2>. HIDE DEF X
  <2>6. Within(<<u1, u2, u3, u4, u5>>, S)
    BY <2>4, <2>5, WithinBy
  <2>. QED
    BY <2>6 DEF u1, u2, u3, u4, u5
<1>8. Within(s7, S)
  <2>1. Clear(\h28820, 4)
    BY SMT DEF Clear, Untouched, Purpose
  <2>. QED
    BY <2>1, ClearOff, SMT
<1>9. Within(s8, S)
  <2> DEFINE u1 == Burst(\h28b78, Zeros(6))
             u2 == Write(\h28a0c, Zero)
             u3 == Burst(\h28a48, Zeros(2))
  <2>1. /\ Clear(\h28b78, 6) /\ Clear(\h28a0c, 1) /\ Clear(\h28a48, 2)
    BY SMT DEF Clear, Untouched, Purpose
  <2>2. /\ StaysIn(u1, S) /\ StaysIn(u2, S) /\ StaysIn(u3, S)
    BY <2>1, ClearZeros, ClearWrite, SMT
  <2>. HIDE DEF u1, u2, u3
  <2>3. Within(<<u1, u2, u3>>, S)
    BY <2>2, TuplesWithin
  <2>. QED
    BY <2>3 DEF u1, u2, u3
<1>10. Within(s9, S)
  BY ScissorsWithin
<1>11. Within(s10, S)
  <2> DEFINE u1 == Write(\h28a08, Zero)
             u2 == Write(\h28814, Literal(0 .. 2) \cup Field(5, 2) \cup Field(8, 2))
             u3 == Write(\h28a00, Zero)
             u4 == Write(\h28a04, Zero)
             X == {u1, u2, u3, u4}
  <2>1. /\ Clear(\h28a08, 1) /\ Clear(\h28814, 1) /\ Clear(\h28a00, 1) /\ Clear(\h28a04, 1)
    BY SMT DEF Clear, Untouched, Purpose
  <2>2. /\ StaysIn(u1, S) /\ StaysIn(u2, S) /\ StaysIn(u3, S) /\ StaysIn(u4, S)
    BY <2>1, ClearWrite, SMT
  <2>. HIDE DEF u1, u2, u3, u4
  <2>3. \A w \in X : StaysIn(w, S)
    BY <2>2
  <2>4. <<u1, u2, u3, u4>> \in Seq(X)
    OBVIOUS
  <2>. HIDE DEF X
  <2>5. Within(<<u1, u2, u3, u4>>, S)
    BY <2>3, <2>4, WithinBy
  <2>. QED
    BY <2>5 DEF u1, u2, u3, u4
<1>. HIDE DEF s1, s2, s3, s4, s5, s6, s7, s8, s9, s10
<1>12. Within(s1 \o s2, S)
  BY <1>2, <1>3, JoinWithin
<1>13. Within(s1 \o s2 \o s3, S)
  BY <1>12, <1>4, JoinWithin
<1>14. Within(s1 \o s2 \o s3 \o s4, S)
  BY <1>13, <1>5, JoinWithin
<1>15. Within(s1 \o s2 \o s3 \o s4 \o s5, S)
  BY <1>14, <1>6, JoinWithin
<1>16. Within(s1 \o s2 \o s3 \o s4 \o s5 \o s6, S)
  BY <1>15, <1>7, JoinWithin
<1>17. Within(s1 \o s2 \o s3 \o s4 \o s5 \o s6 \o s7, S)
  BY <1>16, <1>8, JoinWithin
<1>18. Within(s1 \o s2 \o s3 \o s4 \o s5 \o s6 \o s7 \o s8, S)
  BY <1>17, <1>9, JoinWithin
<1>19. Within(s1 \o s2 \o s3 \o s4 \o s5 \o s6 \o s7 \o s8 \o s9, S)
  BY <1>18, <1>10, JoinWithin
<1>20. Within(s1 \o s2 \o s3 \o s4 \o s5 \o s6 \o s7 \o s8 \o s9 \o s10, S)
  BY <1>19, <1>11, JoinWithin
<1>. QED
  BY <1>1, <1>20

LEMMA SpiBeforeWithin ==
  ASSUME NEW S, Untouched \subseteq S
  PROVE  Within(SpiBefore, S)
<1> DEFINE u1 == Write(\h9100, Zero)
           u2 == Write(\h913c, Plainly(4))
           u3 == Burst(\h28644, Zeros(2))
           u4 == Write(\h286d8, Zero)
           u5 == Write(\h286dc, Zero)
           u6 == Write(\h286e0, Field(20, 1))
           X == {u1, u2, u3, u4, u5, u6}
<1>1. /\ Clear(\h9100, 1) /\ Clear(\h913c, 1) /\ Clear(\h28644, 2) /\ Clear(\h286d8, 1)
      /\ Clear(\h286dc, 1) /\ Clear(\h286e0, 1)
  BY SMT DEF Clear, Untouched, Purpose
<1>2. /\ StaysIn(u1, S) /\ StaysIn(u2, S) /\ StaysIn(u3, S) /\ StaysIn(u4, S)
  BY <1>1, ClearWrite, ClearZeros, SMT
<1>3. StaysIn(u5, S) /\ StaysIn(u6, S)
  BY <1>1, ClearWrite, SMT
<1>. HIDE DEF u1, u2, u3, u4, u5, u6
<1>4. \A w \in X : StaysIn(w, S)
  BY <1>2, <1>3
<1>5. <<u1, u2, u3, u4, u5, u6>> \in Seq(X)
  OBVIOUS
<1>. HIDE DEF X
<1>6. Within(<<u1, u2, u3, u4, u5, u6>>, S)
  BY <1>4, <1>5, WithinBy
<1>. QED
  BY <1>6 DEF u1, u2, u3, u4, u5, u6, SpiBefore

LEMMA SpiAfterWithin ==
  ASSUME NEW S, Untouched \subseteq S
  PROVE  Within(SpiAfter, S)
<1> DEFINE u1 == Burst(\h286e4, Zeros(3))
           u2 == Write(\h286c4, Zero)
           u3 == Write(\h2861c, Zero)
           u4 == Write(\h286d4, Zero)
           u5 == Burst(\h286cc, <<Flag(29), Zero>>)
           X == {u1, u2, u3, u4, u5}
<1>1. /\ Clear(\h286e4, 3) /\ Clear(\h286c4, 1) /\ Clear(\h2861c, 1) /\ Clear(\h286d4, 1)
      /\ Clear(\h286cc, 2)
  BY SMT DEF Clear, Untouched, Purpose
<1>2. /\ StaysIn(u1, S) /\ StaysIn(u2, S) /\ StaysIn(u3, S) /\ StaysIn(u4, S)
  BY <1>1, ClearZeros, ClearWrite, SMT
<1>3. StaysIn(u5, S)
  BY <1>1, ClearPair, SMT
<1>. HIDE DEF u1, u2, u3, u4, u5
<1>4. \A w \in X : StaysIn(w, S)
  BY <1>2, <1>3
<1>5. <<u1, u2, u3, u4, u5>> \in Seq(X)
  OBVIOUS
<1>. HIDE DEF X
<1>6. Within(<<u1, u2, u3, u4, u5>>, S)
  BY <1>4, <1>5, WithinBy
<1>. QED
  BY <1>6 DEF u1, u2, u3, u4, u5, SpiAfter

LEMMA SpiWithin ==
  ASSUME NEW S, Untouched \subseteq S
  PROVE  Within(set_spi_defaults, S)
<1> DEFINE s1 == SpiBefore
           s2 == SpiAfter
           s3 == <<ComputeInput>>
<1>1. set_spi_defaults = s1 \o s2 \o s3
  BY DEF set_spi_defaults
<1>2. Within(s1, S)
  BY SpiBeforeWithin
<1>3. Within(s2, S)
  BY SpiAfterWithin
<1>4. Within(s3, S)
  <2> DEFINE u1 == Write(\h286e8, Literal(0 .. 2))
  <2>1. Clear(\h286e8, 1)
    BY SMT DEF Clear, Untouched, Purpose
  <2>2. StaysIn(u1, S)
    BY <2>1, ClearWrite, SMT
  <2>. HIDE DEF u1
  <2>3. Within(<<u1>>, S)
    BY <2>2, TuplesWithin
  <2>. QED
    BY <2>3 DEF u1, ComputeInput
<1>. HIDE DEF s1, s2, s3
<1>5. Within(s1 \o s2, S)
  BY <1>2, <1>3, JoinWithin
<1>6. Within(s1 \o s2 \o s3, S)
  BY <1>5, <1>4, JoinWithin
<1>. QED
  BY <1>1, <1>6

LEMMA SqWithin ==
  ASSUME NEW S, Untouched \subseteq S
  PROVE  Within(sq_setup, S)
<1> DEFINE sq == set_default_sq
           t == sq.threads
           a == Flag(8)
           b1 == SqConfigDefault
           b2 == Pair(93, 46) \cup Field(28, 4)
           b3 == Pair(31, 31)
           b4 == Pair(23, 23)
           c1 == Plainly(sq.ps_threads) \cup Field(8, t) \cup Field(16, t) \cup Field(24, t)
           c2 == Plainly(t) \cup Field(8, t)
           c3 == Pair(sq.stack, sq.stack)
           words == <<c1, c2>> \o [i \in 1 .. 3 |-> c3]
           s1 == <<Write(\h8d8c, a), Burst(\h8c00, <<b1, b2, b3, b4>>), Burst(\h8c18, words)>>
           s2 == Off(\h28900, 6)
           s3 == <<Burst(\h2891c, Zeros(4)), Burst(\h3cff0, Zeros(2)), Burst(\h28380, Zeros(32)),
                   Burst(\h28844, Zeros(2)), Burst(\h28780, Zeros(8)), Write(\h288a8, Zero),
                   Write(\h288ec, Zero), Write(\h28838, UNION {Field(5 * i, \h1e) : i \in 0 .. 5})>>
<1>1. sq_setup = s1 \o s2 \o s3
  BY DEF sq_setup
<1>2. Within(s1, S)
  <2>1. Clear(\h8d8c, 1) /\ Clear(\h8c00, 4) /\ Clear(\h8c18, 5)
    BY SMT DEF Clear, Untouched, Purpose
  <2>. HIDE DEF a, b1, b2, b3, b4, c1, c2, c3
  <2>2. DOMAIN words = 1 .. 5
    OBVIOUS
  <2>. HIDE DEF words
  <2> DEFINE n == 5
             at == \h8c18
             u == Write(\h8d8c, a)
             v == Burst(\h8c00, <<b1, b2, b3, b4>>)
             w == Burst(at, words)
  <2>3. StaysIn(u, S) /\ StaysIn(v, S)
    BY <2>1, ClearWrite, ClearFour, SMT
  <2>4. StaysIn(w, S)
    <3>1. Clear(at, n) /\ DOMAIN words = 1 .. n
      BY <2>1, <2>2, SMT
    <3>. HIDE DEF at, n
    <3>. QED
      BY <3>1, ClearBurst
  <2>. HIDE DEF u, v, w
  <2>5. Within(<<u, v, w>>, S)
    BY <2>3, <2>4, TuplesWithin
  <2>. QED
    BY <2>5, SMT DEF u, v, w
<1>3. Within(s2, S)
  <2>1. Clear(\h28900, 6)
    BY SMT DEF Clear, Untouched, Purpose
  <2>. QED
    BY <2>1, ClearOff, SMT
<1>4. Within(s3, S)
  <2> DEFINE u1 == Burst(\h2891c, Zeros(4))
             u2 == Burst(\h3cff0, Zeros(2))
             u3 == Burst(\h28380, Zeros(32))
             u4 == Burst(\h28844, Zeros(2))
             u5 == Burst(\h28780, Zeros(8))
             u6 == Write(\h288a8, Zero)
             u7 == Write(\h288ec, Zero)
             u8 == Write(\h28838, UNION {Field(5 * i, \h1e) : i \in 0 .. 5})
             X == {u1, u2, u3, u4, u5, u6, u7, u8}
  <2>1. /\ Clear(\h2891c, 4) /\ Clear(\h3cff0, 2) /\ Clear(\h28380, 32) /\ Clear(\h28844, 2)
        /\ Clear(\h28780, 8) /\ Clear(\h288a8, 1) /\ Clear(\h288ec, 1) /\ Clear(\h28838, 1)
    BY SMT DEF Clear, Untouched, Purpose
  <2>2. /\ StaysIn(u1, S) /\ StaysIn(u2, S) /\ StaysIn(u3, S) /\ StaysIn(u4, S)
    BY <2>1, ClearZeros, SMT
  <2>3. /\ StaysIn(u5, S) /\ StaysIn(u6, S) /\ StaysIn(u7, S) /\ StaysIn(u8, S)
    BY <2>1, ClearZeros, ClearWrite, SMT
  <2>. HIDE DEF u1, u2, u3, u4, u5, u6, u7, u8
  <2>4. \A w \in X : StaysIn(w, S)
    BY <2>2, <2>3
  <2>5. <<u1, u2, u3, u4, u5, u6, u7, u8>> \in Seq(X)
    OBVIOUS
  <2>. HIDE DEF X
  <2>6. Within(<<u1, u2, u3, u4, u5, u6, u7, u8>>, S)
    BY <2>4, <2>5, WithinBy
  <2>. QED
    BY <2>6 DEF u1, u2, u3, u4, u5, u6, u7, u8
<1>. HIDE DEF s1, s2, s3
<1>5. Within(s1 \o s2, S)
  BY <1>2, <1>3, JoinWithin
<1>6. Within(s1 \o s2 \o s3, S)
  BY <1>4, <1>5, JoinWithin
<1>. QED
  BY <1>1, <1>6

\* What the default state leaves alone of a RAT's registers.
Taken == {"BASE", "INFO", "ATTRIB", "DIM", "IMMED", "CMASK", "FMASK"}

Idle == {r \in Nat : Purpose(r) = "rat" /\ Owner(r)[1] \notin Taken}

LEMMA IdleRegisters ==
  ASSUME NEW id \in 0 .. 11
  PROVE  /\ Pitch(id) \in Idle /\ Slice(id) \in Idle /\ View(id) \in Idle /\ Dim(id) \in Nat
         /\ id < 8 => /\ CmaskSlice(id) \in Idle /\ FmaskSlice(id) \in Idle
                      /\ \A i \in 1 .. 4 : ClearWord(id) + 4 * (i - 1) \in Idle
<1>1. RatOffset(id) \in Nat /\ RatOffset(id) <= 564 /\ (id < 8 => RatOffset(id) <= 420)
  BY SMT DEF RatOffset
<1>2. \A r \in Nat : \h28c60 <= r /\ r < \h28eb0 => Purpose(r) = "rat"
  BY SMT DEF Purpose
<1>3. RatOwned(id) /\ (id < 8 => TargetOwned(id))
  BY RatOwners
<1>4. ASSUME NEW r \in Nat, \h28c60 <= r, r < \h28eb0, NEW name, NEW i,
             Owner(r) = <<name, i>>, name \notin Taken
      PROVE  r \in Idle
  BY <1>2, <1>4, SMT DEF Idle
<1>5. /\ "PITCH" \notin Taken /\ "SLICE" \notin Taken /\ "VIEW" \notin Taken
      /\ "CMASK_SLICE" \notin Taken /\ "FMASK_SLICE" \notin Taken
      /\ "CLEAR_WORD" \notin Taken /\ "reg" \notin Taken
  BY DEF Taken
<1>6. Pitch(id) \in Idle /\ Slice(id) \in Idle /\ View(id) \in Idle
  <2>1. /\ Pitch(id) \in Nat /\ \h28c60 <= Pitch(id) /\ Pitch(id) < \h28eb0
        /\ Slice(id) \in Nat /\ \h28c60 <= Slice(id) /\ Slice(id) < \h28eb0
        /\ View(id) \in Nat /\ \h28c60 <= View(id) /\ View(id) < \h28eb0
    BY <1>1, SMT DEF Pitch, Slice, View
  <2>. QED
    BY <1>3, <1>4, <1>5, <2>1 DEF RatOwned, Own
<1>7. Dim(id) \in Nat
  BY <1>1, SMT DEF Dim
<1>8. ASSUME id < 8
      PROVE  CmaskSlice(id) \in Idle /\ FmaskSlice(id) \in Idle
  <2>1. /\ CmaskSlice(id) \in Nat /\ \h28c60 <= CmaskSlice(id) /\ CmaskSlice(id) < \h28eb0
        /\ FmaskSlice(id) \in Nat /\ \h28c60 <= FmaskSlice(id) /\ FmaskSlice(id) < \h28eb0
    BY <1>1, <1>8, SMT DEF CmaskSlice, FmaskSlice
  <2>. QED
    BY <1>3, <1>4, <1>5, <1>8, <2>1 DEF TargetOwned, Own
<1>9. ASSUME id < 8, NEW i \in 1 .. 4
      PROVE  ClearWord(id) + 4 * (i - 1) \in Idle
  <2> DEFINE r == ClearWord(id) + 4 * (i - 1)
  <2>1. r \in Nat /\ \h28c60 <= r /\ r < \h28eb0
    BY <1>1, <1>9, SMT DEF ClearWord
  <2>2. CASE i = 1
    <3>1. r = ClearWord(id)
      BY <1>1, <2>2, SMT DEF ClearWord
    <3>2. Owner(r) = <<"CLEAR_WORD", id>>
      BY <1>3, <1>9, <3>1 DEF TargetOwned, Own
    <3>. HIDE DEF r
    <3>. QED
      BY <1>4, <1>5, <2>1, <3>2 DEF r
  <2>3. CASE i # 1
    <3>1. i \in 2 .. 4
      BY <2>3
    <3>2. Owner(r) = <<"reg", r>>
      BY <1>3, <1>9, <3>1 DEF TargetOwned, Unnamed
    <3>. HIDE DEF r
    <3>3. r \in Idle
      BY <1>4, <1>5, <2>1, <3>2
    <3>. QED
      BY <3>3 DEF r
  <2>. QED
    BY <2>2, <2>3
<1>. QED
  BY <1>6, <1>7, <1>8, <1>9

DefaultArea ==
  Untouched \cup Idle \cup {\h9014, LoopConst(0)} \cup {Dim(id) : id \in 0 .. 11}

LEMMA ElementIn ==
  ASSUME NEW S, NEW at \in Int, at \in S, NEW name, NEW i, NEW v
  PROVE  StaysIn(Element(name, i, at, <<v>>), S)
  BY WriteIn

LEMMA ClearWordIn ==
  ASSUME NEW S, Idle \subseteq S, NEW id \in 0 .. 7
  PROVE  StaysIn(Element("CLEAR_WORD", id, ClearWord(id), Zeros(4)), S)
<1> DEFINE at == ClearWord(id)
           words == Zeros(4)
<1>1. DOMAIN words = 1 .. 4
  BY DEF Zeros
<1>2. \A i \in 1 .. 4 : at + 4 * (i - 1) \in S
  BY IdleRegisters
<1>. HIDE DEF at, words
<1>3. Reach(Element("CLEAR_WORD", id, at, words)) = Span(at, words)
  BY Reaches
<1>4. Span(at, words) \subseteq S
  BY <1>1, <1>2 DEF Span
<1>. QED
  BY <1>3, <1>4 DEF StaysIn, at, words

LEMMA RatDefaultsWithin ==
  ASSUME NEW id \in 0 .. 11, NEW S, Idle \subseteq S, Dim(id) \in S
  PROVE  Within(set_rat_defaults(id), S)
<1> DEFINE zero == Zero
           u1 == Element("PITCH", id, Pitch(id), <<zero>>)
           u2 == Element("SLICE", id, Slice(id), <<zero>>)
           u3 == Element("VIEW", id, View(id), <<zero>>)
           u4 == Element("DIM", id, Dim(id), <<zero>>)
           v1 == Element("CMASK_SLICE", id, CmaskSlice(id), <<zero>>)
           v2 == Element("FMASK_SLICE", id, FmaskSlice(id), <<zero>>)
           v3 == Element("CLEAR_WORD", id, ClearWord(id), Zeros(4))
           one == <<u1, u2, u3, u4>>
           two == IF id < 8 THEN <<v1, v2, v3>> ELSE <<>>
           X == {u1, u2, u3, u4}
<1>1. set_rat_defaults(id) = one \o two
  BY DEF set_rat_defaults
<1>2. /\ Pitch(id) \in S /\ Slice(id) \in S /\ View(id) \in S
      /\ Pitch(id) \in Int /\ Slice(id) \in Int /\ View(id) \in Int /\ Dim(id) \in Int
      /\ id < 8 => /\ CmaskSlice(id) \in S /\ FmaskSlice(id) \in S
                   /\ CmaskSlice(id) \in Int /\ FmaskSlice(id) \in Int
  BY IdleRegisters DEF Idle
<1>. HIDE DEF zero
<1>3. StaysIn(u1, S) /\ StaysIn(u2, S) /\ StaysIn(u3, S) /\ StaysIn(u4, S)
  BY <1>2, ElementIn
<1>4. id < 8 => StaysIn(v1, S) /\ StaysIn(v2, S)
  BY <1>2, ElementIn
<1>5. id < 8 => StaysIn(v3, S)
  BY ClearWordIn
<1>. HIDE DEF u1, u2, u3, u4, v1, v2, v3
<1>6. \A w \in X : StaysIn(w, S)
  BY <1>3
<1>7. one \in Seq(X)
  OBVIOUS
<1>8. Within(two, S)
  <2>1. CASE id < 8
    <3>1. two = <<v1, v2, v3>>
      BY <2>1
    <3>. HIDE DEF two
    <3>. QED
      BY <1>4, <1>5, <2>1, <3>1, TuplesWithin
  <2>2. CASE ~ id < 8
    <3>1. two = <<>>
      BY <2>2
    <3>. HIDE DEF two
    <3>. QED
      BY <3>1, EmptyWithin
  <2>. QED
    BY <2>1, <2>2
<1>. HIDE DEF one, two, X
<1>9. Within(one, S)
  BY <1>6, <1>7, WithinBy
<1>10. Within(one \o two, S)
  BY <1>8, <1>9, JoinWithin
<1>. QED
  BY <1>1, <1>10

LEMMA FlattenWithin ==
  ASSUME NEW n \in Nat \ {0}, NEW ss, ss = [i \in 1 .. n |-> ss[i]], NEW S,
         \A i \in 1 .. n : Within(ss[i], S)
  PROVE  Within(FlattenSeq(ss), S)
<1> DEFINE Fits(X, i) == ss[i] \in Seq(X) /\ \A w \in X : StaysIn(w, S)
           from(i) == CHOOSE X : Fits(X, i)
           W == UNION {from(i) : i \in 1 .. n}
<1>1. \A i \in 1 .. n : \E X : Fits(X, i)
  BY DEF Within
<1>. HIDE DEF Fits
<1>2. \A i \in 1 .. n : Fits(from(i), i)
  BY <1>1
<1>. HIDE DEF from
<1>3. \A w \in W : StaysIn(w, S)
  BY <1>2 DEF Fits
<1>4. ASSUME NEW i \in 1 .. n
      PROVE  ss[i] \in Seq(W)
  <2>1. ss[i] \in Seq(from(i))
    BY <1>2 DEF Fits
  <2>2. from(i) \subseteq W
    OBVIOUS
  <2>. HIDE DEF W
  <2>. QED
    BY <2>1, <2>2, SeqMonotonic
<1>. HIDE DEF W
<1>5. ss \in Seq(Seq(W)) /\ ss # <<>>
  <2>1. ss \in Seq(Seq(W)) /\ Len(ss) = n
    BY <1>4
  <2>. QED
    BY <2>1
<1>6. FlattenSeq(ss) \in Seq(W)
  BY <1>5, Flattened
<1>. QED
  BY <1>3, <1>6, WithinBy

LEMMA TargetWithin ==
  ASSUME NEW S, Untouched \subseteq S, Idle \subseteq S, Dim(0) \in S
  PROVE  Within(set_dummy_render_target, S)
<1> DEFINE zero == Zero
           a == Plainly(1)
           b == Plainly(3)
           c == Pair(15, 15)
           d == Plainly(15) \cup Field(8, 15)
           e == Literal({18, 19, 22, 23}) \cup Field(4, 1)
           u1 == Element("PITCH", 0, Pitch(0), <<a>>)
           u2 == Element("SLICE", 0, Slice(0), <<b>>)
           u3 == Element("VIEW", 0, View(0), <<zero>>)
           u4 == Element("DIM", 0, Dim(0), <<c>>)
           u5 == Element("CMASK_SLICE", 0, CmaskSlice(0), <<zero>>)
           u6 == Element("FMASK_SLICE", 0, FmaskSlice(0), <<zero>>)
           u7 == Element("CLEAR_WORD", 0, ClearWord(0), Zeros(4))
           u8 == Write(\h28238, d)
           u9 == Write(\h2823c, d)
           u10 == Write(\h28808, e)
           u11 == Write(\h28780, zero)
           X == {u1, u2, u3, u4, u5, u6, u7, u8, u9, u10, u11}
           s == <<u1, u2, u3, u4, u5, u6, u7, u8, u9, u10, u11>>
<1>1. set_dummy_render_target = s
  BY DEF set_dummy_render_target
<1>. HIDE DEF zero, a, b, c, d, e
<1>2. /\ Pitch(0) \in S /\ Slice(0) \in S /\ View(0) \in S
      /\ Pitch(0) \in Int /\ Slice(0) \in Int /\ View(0) \in Int /\ Dim(0) \in Int
      /\ CmaskSlice(0) \in S /\ FmaskSlice(0) \in S
      /\ CmaskSlice(0) \in Int /\ FmaskSlice(0) \in Int
  BY IdleRegisters DEF Idle
<1>3. Clear(\h28238, 1) /\ Clear(\h2823c, 1) /\ Clear(\h28808, 1) /\ Clear(\h28780, 1)
  BY SMT DEF Clear, Untouched, Purpose
<1>4. StaysIn(u1, S) /\ StaysIn(u2, S) /\ StaysIn(u3, S) /\ StaysIn(u4, S)
  BY <1>2, ElementIn
<1>5. StaysIn(u5, S) /\ StaysIn(u6, S)
  BY <1>2, ElementIn
<1>6. StaysIn(u7, S)
  BY ClearWordIn
<1>7. StaysIn(u8, S) /\ StaysIn(u9, S) /\ StaysIn(u10, S) /\ StaysIn(u11, S)
  BY <1>3, ClearWrite, SMT
<1>. HIDE DEF u1, u2, u3, u4, u5, u6, u7, u8, u9, u10, u11
<1>8. \A w \in X : StaysIn(w, S)
  BY <1>4, <1>5, <1>6, <1>7
<1>9. s \in Seq(X)
  OBVIOUS
<1>. HIDE DEF s, X
<1>10. Within(s, S)
  BY <1>8, <1>9, WithinBy
<1>. QED
  BY <1>1, <1>10

LEMMA DefaultWithin == Within(set_default_state, DefaultArea)
<1> DEFINE S == DefaultArea
           one(i) == set_rat_defaults(i - 1)
           rats == [i \in 1 .. 12 |-> one(i)]
           s1 == start_3d
           s2 == set_sx_defaults
           s3 == <<Write(\h9014, Zero)>>
           s4 == set_db_defaults
           s5 == sq_setup
           s6 == set_vgt_defaults
           s7 == set_pa_defaults
           s8 == set_spi_defaults
           s9 == set_dummy_render_target
           s10 == FlattenSeq(rats)
           s11 == LoopConsts(1, 1, 0, 1)
<1>1. set_default_state = s1 \o s2 \o s3 \o s4 \o s5 \o s6 \o s7 \o s8 \o s9 \o s10 \o s11
  BY DEF set_default_state
<1>2. /\ Untouched \subseteq S /\ Idle \subseteq S /\ \h9014 \in S /\ LoopConst(0) \in S
      /\ \A id \in 0 .. 11 : Dim(id) \in S
  BY SMT DEF DefaultArea
<1>. HIDE DEF S
<1>3. Within(s1, S)
  <2> DEFINE u == Packet("CONTEXT_CONTROL", <<Flag(31), Flag(31)>>)
  <2>1. s1 = <<u>>
    BY DEF start_3d
  <2>2. StaysIn(u, S)
    BY NothingIn
  <2>. HIDE DEF u, s1
  <2>. QED
    BY <2>1, <2>2, TuplesWithin
<1>4. Within(s3, S)
  <2> DEFINE u == Write(\h9014, Zero)
  <2>1. StaysIn(u, S)
    BY <1>2, PlainIn, SMT
  <2>. HIDE DEF u
  <2>2. Within(<<u>>, S)
    BY <2>1, TuplesWithin
  <2>. QED
    BY <2>2 DEF u
<1>5. /\ Within(s2, S) /\ Within(s4, S) /\ Within(s5, S) /\ Within(s6, S)
      /\ Within(s7, S) /\ Within(s8, S)
  BY <1>2, SxWithin, DbWithin, SqWithin, VgtWithin, PaWithin, SpiWithin
<1>6. Within(s9, S)
  BY <1>2, TargetWithin
<1>7. Within(s10, S)
  <2>1. \A i \in 1 .. 12 : Within(one(i), S)
    BY <1>2, RatDefaultsWithin
  <2>. HIDE DEF one
  <2>2. /\ rats = [i \in 1 .. 12 |-> rats[i]] /\ 12 \in Nat \ {0}
        /\ \A i \in 1 .. 12 : Within(rats[i], S)
    BY <2>1
  <2>. HIDE DEF rats
  <2>. QED
    BY <2>2, FlattenWithin
<1>8. Within(s11, S)
  <2>1. Within(LoopConsts(1, 1, 0, 1), Area(<<"loop", 1>>))
    BY LoopWithin
  <2>2. Area(<<"loop", 1>>) \subseteq S
    <3>1. Area(<<"loop", 1>>) = {LoopConst(i - 1) : i \in 1 .. 1}
      BY SMT DEF Area
    <3>. QED
      BY <1>2, <3>1
  <2>. QED
    BY <2>1, <2>2, WithinMore
<1>. HIDE DEF s1, s2, s3, s4, s5, s6, s7, s8, s9, s10, s11
<1>9. Within(s1 \o s2 \o s3, S)
  BY <1>3, <1>4, <1>5, JoinWithin
<1>10. Within(s1 \o s2 \o s3 \o s4 \o s5, S)
  BY <1>5, <1>9, JoinWithin
<1>11. Within(s1 \o s2 \o s3 \o s4 \o s5 \o s6 \o s7, S)
  BY <1>5, <1>10, JoinWithin
<1>12. Within(s1 \o s2 \o s3 \o s4 \o s5 \o s6 \o s7 \o s8 \o s9, S)
  BY <1>5, <1>6, <1>11, JoinWithin
<1>13. Within(s1 \o s2 \o s3 \o s4 \o s5 \o s6 \o s7 \o s8 \o s9 \o s10 \o s11, S)
  BY <1>7, <1>8, <1>12, JoinWithin
<1>. QED
  BY <1>1, <1>13 DEF S

-----------------------------------------------------------------------------
(* What keeps out of whose way.                                            *)

LEMMA AreaNotUntouched ==
  ASSUME NEW c \in AnySetter, NEW r \in Area(c)
  PROVE  r \notin Untouched
<1>1. Purpose(r) = c[1]
  BY AreaIs
<1>2. c[1] # "none"
  BY SetterParts DEF Plain7
<1>. QED
  BY <1>1, <1>2 DEF Untouched

LEMMA DefaultAreaIs ==
  ASSUME NEW r \in DefaultArea
  PROVE  /\ Purpose(r) \in {"none", "rat", "export", "loop"}
         /\ Purpose(r) = "none" => r \in Untouched
         /\ Purpose(r) = "rat" => r \in Idle \/ \E id \in 0 .. 11 : r = Dim(id)
         /\ Purpose(r) = "export" => r = \h9014
         /\ Purpose(r) = "loop" => r = LoopConst(0)
<1>1. CASE r \in Untouched
  BY <1>1 DEF Untouched
<1>2. CASE r \in Idle
  BY <1>2 DEF Idle
<1>3. CASE r = \h9014
  <2>1. Purpose(r) = "export"
    BY <1>3, SMT DEF Purpose
  <2>. QED
    BY <1>3, <2>1
<1>4. CASE r = LoopConst(0)
  <2>1. Purpose(r) = "loop"
    BY <1>4, SMT DEF Purpose, LoopConst
  <2>. QED
    BY <1>4, <2>1
<1>5. ASSUME NEW id \in 0 .. 11, r = Dim(id)
      PROVE  Purpose(r) = "rat"
  <2>1. r \in RatArea(id)
    BY <1>5 DEF RatArea
  <2>. QED
    BY <2>1, RatAreaIs
<1>6. CASE \E id \in 0 .. 11 : r = Dim(id)
  <2>1. Purpose(r) = "rat"
    BY <1>5, <1>6
  <2>. QED
    BY <1>6, <2>1
<1>. QED
  BY <1>1, <1>2, <1>3, <1>4, <1>6, SMT DEF DefaultArea

LEMMA DefaultEffects ==
  /\ DOMAIN DefaultEffect \subseteq DefaultArea /\ DOMAIN DefaultEffect \subseteq Shared
  /\ Bits(DefaultEffect)
<1> DEFINE all == Effect(set_default_state)
<1>1. DOMAIN all \subseteq DefaultArea /\ Bits(all)
  BY DefaultWithin, EffectWithin
<1>2. DefaultEffect = [x \in DOMAIN all \cap Shared |-> all[x]]
  BY DEF DefaultEffect, Restrict
<1>. HIDE DEF all
<1>. QED
  BY <1>1, <1>2 DEF Bits

LEMMA SharedIs ==
  ASSUME NEW r \in Shared
  PROVE  \/ \E p \in Prog : r \in DOMAIN ShaderEffect[p] \cup DOMAIN DispatchEffect[p]
         \/ \E c \in DOMAIN UnusedEffect : r \in DOMAIN UnusedEffect[c]
         \/ \E p \in Prog, c \in Setter : r \in DOMAIN SetterEffect[p][c]
<1> DEFINE fixed == UNION {DOMAIN ShaderEffect[p] \cup DOMAIN DispatchEffect[p] : p \in Prog}
           unused == UNION {DOMAIN UnusedEffect[c] : c \in DOMAIN UnusedEffect}
           setters == UNION {DOMAIN SetterEffect[p][c] : p \in Prog, c \in Setter}
<1>1. Shared = fixed \cup unused \cup setters
  BY DEF Shared
<1>2. CASE r \in fixed
  BY <1>2
<1>3. CASE r \in unused
  BY <1>3
<1>4. CASE r \in setters
  BY <1>4
<1>. HIDE DEF fixed, unused, setters
<1>. QED
  BY <1>1, <1>2, <1>3, <1>4

\* Of the default state the unused setters change nothing, and another
\* program's setters only what is changeable.
LEMMA DefaultKept ==
  ASSUME NEW r \in DOMAIN DefaultEffect
  PROVE  /\ \A c \in DOMAIN UnusedEffect : r \notin DOMAIN UnusedEffect[c]
         /\ \A p \in Prog : \/ r \in DOMAIN ShaderEffect[p] \cup DOMAIN DispatchEffect[p]
                            \/ r \in Changeable
<1>1. r \in DefaultArea /\ r \in Shared
  BY DefaultEffects
<1>2. ASSUME NEW c \in DOMAIN UnusedEffect
      PROVE  r \notin DOMAIN UnusedEffect[c]
  <2>1. SUFFICES ASSUME r \in Area(c) PROVE FALSE
    BY UnusedEffects
  <2>2. Purpose(r) = c[1] /\ c[1] \in {"lds", "gds", "ring"}
    BY <2>1, UnusedEffects, AreaIs
  <2>. QED
    BY <1>1, <2>2, DefaultAreaIs
<1>3. ASSUME NEW q \in Prog, NEW c \in Setter, r \in DOMAIN SetterEffect[q][c]
      PROVE  r \in Changeable
  <2>1. c \in AnySetter /\ r \in Area(c)
    BY <1>3, SetterEffects
  <2>2. Purpose(r) = c[1]
    BY <2>1, AreaIs
  <2>3. r \notin Untouched
    BY <2>1, AreaNotUntouched
  <2>4. CASE Purpose(r) = "rat"
    <3>1. c[1] = "rat" /\ c[2] \in 0 .. 11
      BY <2>1, <2>2, <2>4, SetterParts DEF Plain7
    <3>2. r \in RatArea(c[2])
      BY <2>1, <3>1 DEF Area
    <3>3. Owner(r)[2] = c[2] /\ r \notin Idle
      BY <3>1, <3>2, RatAreaIs DEF Idle, Taken
    <3>4. PICK id \in 0 .. 11 : r = Dim(id)
      BY <1>1, <2>4, <3>3, DefaultAreaIs
    <3>5. Owner(r)[2] = id
      <4>1. r \in RatArea(id)
        BY <3>4 DEF RatArea
      <4>. QED
        BY <4>1, RatAreaIs
    <3>6. c[2] \in RatId
      <4>1. "rat" \notin Single
        BY ProgAssumption
      <4>2. ~ c \in Single \X {0} /\ ~ c \in {"loop"} \X LoopCount
        BY <3>1, <4>1
      <4>3. c \in {"rat"} \X RatId
        BY <4>2 DEF Setter
      <4>. QED
        BY <4>3
    <3>. QED
      BY <3>3, <3>4, <3>5, <3>6 DEF Changeable
  <2>5. CASE Purpose(r) # "rat"
    <3>1. r = \h9014 \/ r = LoopConst(0)
      BY <1>1, <2>3, <2>5, DefaultAreaIs
    <3>. QED
      BY <3>1 DEF Changeable
  <2>. QED
    BY <2>4, <2>5
<1>4. ASSUME NEW p \in Prog, r \notin Changeable
      PROVE  r \in DOMAIN ShaderEffect[p] \cup DOMAIN DispatchEffect[p]
  <2>1. PICK q \in Prog : r \in DOMAIN ShaderEffect[q] \cup DOMAIN DispatchEffect[q]
    BY <1>1, <1>2, <1>3, <1>4, SharedIs
  <2>. QED
    BY <2>1, FixedEffects
<1>. QED
  BY <1>2, <1>4

-----------------------------------------------------------------------------
(* What is in a queue, or in the card.                                     *)

Holds(f, e) == \A r \in DOMAIN e : r \in DOMAIN f /\ f[r] = e[r]

Missing(p) == DOMAIN UnusedEffect \ called[p]

LEMMA OverHolds ==
  ASSUME NEW f, NEW g
  PROVE  /\ Holds(Over(f, g), f)
         /\ \A e : Holds(f, e) => Holds(Over(f, g), e)
         /\ Bits(f) /\ Bits(g) => Bits(Over(f, g))
  BY DEF Holds, Over, Bits

\* An effect put over what holds another one, where they do not meet or agree.
LEMMA StillHolds ==
  ASSUME NEW f, NEW g, NEW e, Holds(g, e),
         \A r \in DOMAIN e : r \in DOMAIN f => f[r] = e[r]
  PROVE  Holds(Over(f, g), e)
  BY DEF Holds, Over

LEMMA UnusedFinite == IsFiniteSet(DOMAIN UnusedEffect)
<1> DEFINE a == <<"lds", 0>>
           b == <<"gds", 0>>
           c == <<"ring", 0>>
<1>1. DOMAIN UnusedEffect = {a} \cup {b} \cup {c}
  BY UnusedAre
<1>. HIDE DEF a, b, c
<1>2. IsFiniteSet({a}) /\ IsFiniteSet({b}) /\ IsFiniteSet({c})
  BY FS_Singleton
<1>3. IsFiniteSet({a} \cup {b})
  BY <1>2, FS_Union
<1>. QED
  BY <1>1, <1>2, <1>3, FS_Union

LEMMA SettledHolds ==
  ASSUME NEW p \in Prog
  PROVE  /\ Holds(Settled(p), ShaderEffect[p]) /\ Bits(Settled(p))
         /\ \A c \in Missing(p) : Holds(Settled(p), UnusedEffect[c])
         /\ DOMAIN Settled(p) = DOMAIN ShaderEffect[p]
                                  \cup UNION {DOMAIN UnusedEffect[c] : c \in Missing(p)}
<1>1. IsFiniteSet(Missing(p))
  BY UnusedFinite, FS_Subset DEF Missing
<1>2. Settled(p) = FoldFunctionOnSet(Over, ShaderEffect[p], UnusedEffect, Missing(p))
  BY DEF Settled, Missing
<1>3. Merged(Settled(p), ShaderEffect[p], UnusedEffect, Missing(p))
  BY <1>1, <1>2, FoldOver
<1>4. ASSUME NEW c \in Missing(p), NEW r \in DOMAIN UnusedEffect[c]
      PROVE  r \notin DOMAIN ShaderEffect[p] /\ \A d \in Missing(p) : r \in DOMAIN UnusedEffect[d] => d = c
  <2>1. c \in AnySetter /\ r \in Area(c) /\ c[1] # "loop"
    BY UnusedEffects DEF Missing
  <2>2. r \notin DOMAIN ShaderEffect[p]
    BY <2>1, AreaNotUntouched, FixedEffects
  <2>3. ASSUME NEW d \in Missing(p), r \in DOMAIN UnusedEffect[d]
        PROVE  d = c
    <3>1. d \in AnySetter /\ r \in Area(d)
      BY <2>3, UnusedEffects DEF Missing
    <3>. QED
      BY <2>1, <3>1, AreasApart
  <2>. QED
    BY <2>2, <2>3
<1>5. Holds(Settled(p), ShaderEffect[p])
  BY <1>3, <1>4 DEF Merged, Holds
<1>6. ASSUME NEW c \in Missing(p)
      PROVE  Holds(Settled(p), UnusedEffect[c])
  BY <1>3, <1>4 DEF Merged, Holds
<1>7. Bits(Settled(p))
  <2>1. Bits(ShaderEffect[p]) /\ \A c \in Missing(p) : Bits(UnusedEffect[c])
    BY FixedEffects, UnusedEffects DEF Missing
  <2>. QED
    BY <1>3, <2>1 DEF Merged, Bits
<1>. QED
  BY <1>3, <1>5, <1>6, <1>7 DEF Merged

-----------------------------------------------------------------------------
(* The invariant.                                                          *)

\* The parts of it speak of a program p, of the setters cs that its job has
\* called, of whether the default state is among what the job queued (anew),
\* and of the registers f that its queue, or the card, holds.

OwnWrites(p, cs) == UNION {DOMAIN SetterEffect[p][c] : c \in cs}

\* The default state, but for what the job itself wrote after it.
Defaulted(p, cs, anew, f) ==
  anew => \A r \in DOMAIN DefaultEffect :
    /\ r \in DOMAIN f
    /\ \/ f[r] = DefaultEffect[r]
       \/ r \in OwnWrites(p, cs) \cup DOMAIN ShaderEffect[p] \cup DOMAIN DispatchEffect[p]

AsSet(p, cs, f) == \A c \in cs : Holds(f, SetterEffect[p][c])
AsUnused(cs, f) == \A c \in DOMAIN UnusedEffect \ cs : Holds(f, UnusedEffect[c])

Started(p, cs, anew, f) == Defaulted(p, cs, anew, f) /\ AsSet(p, cs, f)
Loaded(p, cs, anew, f) ==
  Started(p, cs, anew, f) /\ AsUnused(cs, f) /\ Holds(f, ShaderEffect[p])
Complete(p, cs, anew, f) ==
  /\ Started(p, cs, anew, f) /\ AsUnused(cs, f)
  /\ Holds(f, Over(DispatchEffect[p], ShaderEffect[p]))

\* A program that is at a place, in its n-th job.
Consistent(p, at, n, cs, anew, f) ==
  /\ at \in {"new", "setting", "loaded", "dispatched", "flushed"}
  /\ n \in 0 .. MaxJobs /\ anew \in BOOLEAN /\ Bits(f)
  /\ cs \subseteq Setter /\ IsFiniteSet(cs) /\ Cardinality(cs) <= MaxSets
  /\ at = "new" => cs = {}
  /\ at \in {"new", "flushed"} => f = <<>>
  /\ at = "setting" => Started(p, cs, anew, f)
  /\ at = "loaded" => Loaded(p, cs, anew, f)
  /\ at = "dispatched" => Complete(p, cs, anew, f)

Shapes ==
  /\ pc = [p \in Prog |-> pc[p]] /\ jobs = [p \in Prog |-> jobs[p]]
  /\ called = [p \in Prog |-> called[p]] /\ fresh = [p \in Prog |-> fresh[p]]
  /\ batch = [p \in Prog |-> batch[p]] /\ defaulted \in [Prog -> BOOLEAN]

ProgramsInv ==
  \A p \in Prog : Consistent(p, pc[p], jobs[p], called[p], fresh[p], batch[p])

\* What the last batch left on the card, until its program begins another job.
RegistersInv ==
  /\ Bits(regs) /\ last \in Prog \cup {Nobody}
  /\ last # Nobody =>
       pc[last] = "flushed" /\ Complete(last, called[last], fresh[last], regs)

CardInv == Shapes /\ ProgramsInv /\ RegistersInv

-----------------------------------------------------------------------------
(* What the steps add to a batch.                                          *)

LEMMA StartDescribed ==
  ASSUME NEW p \in Prog
  PROVE  /\ \A anew : Started(p, {}, anew, Over(DefaultEffect, <<>>))
         /\ Started(p, {}, FALSE, Over(<<>>, <<>>))
  BY DEF Started, Defaulted, AsSet, Over

LEMMA SetDescribed ==
  ASSUME NEW p \in Prog, NEW cs \in SUBSET Setter, NEW anew, NEW f,
         Started(p, cs, anew, f), NEW c \in Setter
  PROVE  Started(p, cs \cup {c}, anew, Over(SetterEffect[p][c], f))
<1> DEFINE e == SetterEffect[p][c]
           g == Over(e, f)
<1>1. ASSUME NEW d \in cs, NEW r \in DOMAIN SetterEffect[p][d], r \in DOMAIN e
      PROVE  e[r] = SetterEffect[p][d][r]
  <2>1. c \in AnySetter /\ d \in AnySetter /\ r \in Area(c) /\ r \in Area(d) /\ d \in Setter
    BY <1>1, SetterEffects
  <2>2. c = d \/ (c[1] = "loop" /\ d[1] = "loop")
    BY <2>1, AreasApart
  <2>. QED
    BY <1>1, <2>1, <2>2, LoopValues
<1>2. ASSUME NEW d \in cs
      PROVE  Holds(g, SetterEffect[p][d])
  <2>1. Holds(f, SetterEffect[p][d])
    BY DEF Started, AsSet
  <2>2. \A r \in DOMAIN SetterEffect[p][d] : r \in DOMAIN e => e[r] = SetterEffect[p][d][r]
    BY <1>1
  <2>. HIDE DEF e
  <2>. QED
    BY <2>1, <2>2, StillHolds
<1>3. Holds(g, SetterEffect[p][c])
  BY OverHolds
<1>. HIDE DEF e
<1>4. \A d \in cs \cup {c} : Holds(g, SetterEffect[p][d])
  BY <1>2, <1>3
<1>5. OwnWrites(p, cs \cup {c}) = OwnWrites(p, cs) \cup DOMAIN e
  BY DEF OwnWrites, e
<1>6. Defaulted(p, cs \cup {c}, anew, g)
  <2>1. SUFFICES ASSUME anew, NEW r \in DOMAIN DefaultEffect
                 PROVE  /\ r \in DOMAIN g
                        /\ \/ g[r] = DefaultEffect[r]
                           \/ r \in OwnWrites(p, cs \cup {c}) \cup DOMAIN ShaderEffect[p] \cup DOMAIN DispatchEffect[p]
    BY DEF Defaulted
  <2>2. /\ r \in DOMAIN f
        /\ \/ f[r] = DefaultEffect[r]
           \/ r \in OwnWrites(p, cs) \cup DOMAIN ShaderEffect[p] \cup DOMAIN DispatchEffect[p]
    BY <2>1 DEF Started, Defaulted
  <2>3. r \in DOMAIN g /\ (g[r] = f[r] \/ r \in DOMAIN e)
    BY <2>2 DEF Over
  <2>. QED
    BY <1>5, <2>2, <2>3
<1>. QED
  BY <1>4, <1>6 DEF Started, AsSet, e

LEMMA LoadDescribed ==
  ASSUME NEW p \in Prog, called[p] \subseteq Setter, NEW anew, NEW f,
         Started(p, called[p], anew, f)
  PROVE  Loaded(p, called[p], anew, Over(Settled(p), f))
<1> DEFINE e == Settled(p)
           g == Over(e, f)
<1>0. /\ Holds(e, ShaderEffect[p]) /\ \A c \in Missing(p) : Holds(e, UnusedEffect[c])
      /\ DOMAIN e = DOMAIN ShaderEffect[p] \cup UNION {DOMAIN UnusedEffect[c] : c \in Missing(p)}
  BY SettledHolds
<1>. HIDE DEF e
<1>1. /\ Holds(e, ShaderEffect[p]) /\ \A c \in Missing(p) : Holds(e, UnusedEffect[c])
      /\ \A r \in DOMAIN e : \/ r \in DOMAIN ShaderEffect[p]
                             \/ \E c \in Missing(p) : r \in DOMAIN UnusedEffect[c]
  BY <1>0
<1>2. Holds(g, ShaderEffect[p]) /\ AsUnused(called[p], g)
  BY <1>1, OverHolds DEF AsUnused, Missing
<1>3. ASSUME NEW c \in called[p]
      PROVE  Holds(g, SetterEffect[p][c])
  <2>1. ASSUME NEW r \in DOMAIN SetterEffect[p][c], r \in DOMAIN e
        PROVE  FALSE
    <3>1. c \in AnySetter /\ r \in Area(c)
      BY <2>1, SetterEffects
    <3>2. r \notin DOMAIN ShaderEffect[p]
      BY <3>1, AreaNotUntouched, FixedEffects
    <3>3. PICK d \in Missing(p) : r \in DOMAIN UnusedEffect[d]
      BY <1>1, <2>1, <3>2
    <3>4. d \in AnySetter /\ r \in Area(d) /\ d[1] # "loop"
      BY <3>3, UnusedEffects DEF Missing
    <3>5. c = d
      BY <3>1, <3>4, AreasApart
    <3>. QED
      BY <3>5 DEF Missing
  <2>2. Holds(f, SetterEffect[p][c])
    BY DEF Started, AsSet
  <2>. QED
    BY <2>1, <2>2, StillHolds
<1>4. Defaulted(p, called[p], anew, g)
  <2>1. SUFFICES ASSUME anew, NEW r \in DOMAIN DefaultEffect
                 PROVE  /\ r \in DOMAIN g
                        /\ \/ g[r] = DefaultEffect[r]
                           \/ r \in OwnWrites(p, called[p]) \cup DOMAIN ShaderEffect[p] \cup DOMAIN DispatchEffect[p]
    BY DEF Defaulted
  <2>2. /\ r \in DOMAIN f
        /\ \/ f[r] = DefaultEffect[r]
           \/ r \in OwnWrites(p, called[p]) \cup DOMAIN ShaderEffect[p] \cup DOMAIN DispatchEffect[p]
    BY <2>1 DEF Started, Defaulted
  <2>3. r \in DOMAIN e => r \in DOMAIN ShaderEffect[p]
    BY <1>1, DefaultKept DEF Missing
  <2>4. r \in DOMAIN g /\ (g[r] = f[r] \/ r \in DOMAIN e)
    BY <2>2 DEF Over
  <2>. QED
    BY <2>2, <2>3, <2>4
<1>5. Loaded(p, called[p], anew, g)
  BY <1>2, <1>3, <1>4 DEF Loaded, Started, AsSet
<1>. QED
  BY <1>5 DEF e

LEMMA DispatchDescribed ==
  ASSUME NEW p \in Prog, NEW cs \in SUBSET Setter, NEW anew, NEW f, Loaded(p, cs, anew, f)
  PROVE  Complete(p, cs, anew, Over(DispatchEffect[p], f))
<1> DEFINE e == DispatchEffect[p]
           g == Over(e, f)
<1>1. DOMAIN e \subseteq Untouched
  BY FixedEffects
<1>. HIDE DEF e
<1>2. Holds(g, Over(e, ShaderEffect[p]))
  BY DEF Loaded, Holds, Over
<1>3. ASSUME NEW c \in cs
      PROVE  Holds(g, SetterEffect[p][c])
  <2>1. \A r \in DOMAIN SetterEffect[p][c] : r \notin DOMAIN e
    BY <1>1, SetterEffects, AreaNotUntouched
  <2>2. Holds(f, SetterEffect[p][c])
    BY DEF Loaded, Started, AsSet
  <2>. QED
    BY <2>1, <2>2, StillHolds
<1>4. ASSUME NEW c \in DOMAIN UnusedEffect \ cs
      PROVE  Holds(g, UnusedEffect[c])
  <2>1. \A r \in DOMAIN UnusedEffect[c] : r \notin DOMAIN e
    BY <1>1, UnusedEffects, AreaNotUntouched
  <2>2. Holds(f, UnusedEffect[c])
    BY DEF Loaded, AsUnused
  <2>. QED
    BY <2>1, <2>2, StillHolds
<1>5. Defaulted(p, cs, anew, g)
  <2>1. SUFFICES ASSUME anew, NEW r \in DOMAIN DefaultEffect
                 PROVE  /\ r \in DOMAIN g
                        /\ \/ g[r] = DefaultEffect[r]
                           \/ r \in OwnWrites(p, cs) \cup DOMAIN ShaderEffect[p] \cup DOMAIN e
    BY DEF Defaulted, e
  <2>2. /\ r \in DOMAIN f
        /\ \/ f[r] = DefaultEffect[r]
           \/ r \in OwnWrites(p, cs) \cup DOMAIN ShaderEffect[p] \cup DOMAIN e
    BY <2>1 DEF Loaded, Started, Defaulted, e
  <2>3. r \in DOMAIN g /\ (g[r] = f[r] \/ r \in DOMAIN e)
    BY <2>2 DEF Over
  <2>. QED
    BY <2>2, <2>3
<1>6. Complete(p, cs, anew, g)
  BY <1>2, <1>3, <1>4, <1>5 DEF Complete, Started, AsSet, AsUnused, e
<1>. QED
  BY <1>6 DEF e

\* What a batch is complete with, the card is that runs it.
LEMMA CardComplete ==
  ASSUME NEW p, NEW cs, NEW anew, NEW f, NEW g, Complete(p, cs, anew, f)
  PROVE  Complete(p, cs, anew, Over(f, g))
<1>1. \A e : Holds(f, e) => Holds(Over(f, g), e)
  BY OverHolds
<1>2. AsSet(p, cs, Over(f, g)) /\ AsUnused(cs, Over(f, g))
      /\ Holds(Over(f, g), Over(DispatchEffect[p], ShaderEffect[p]))
  BY <1>1 DEF Complete, Started, AsSet, AsUnused
<1>3. Defaulted(p, cs, anew, Over(f, g))
  BY DEF Complete, Started, Defaulted, Over
<1>. QED
  BY <1>2, <1>3 DEF Complete, Started

-----------------------------------------------------------------------------
(* The invariant is one.                                                   *)

LEMMA InitCardInv == Init => CardInv
<1> SUFFICES ASSUME Init PROVE CardInv
  OBVIOUS
<1>1. Shapes
  BY DEF Init, Shapes
<1>2. ASSUME NEW p \in Prog
      PROVE  Consistent(p, "new", 0, {}, FALSE, <<>>)
  <2>1. IsFiniteSet({}) /\ Cardinality({}) = 0
    BY FS_EmptySet
  <2>2. 0 \in 0 .. MaxJobs /\ 0 <= MaxSets
    BY ProgAssumption
  <2>3. Bits(<<>>)
    BY DEF Bits
  <2>. QED
    BY <2>1, <2>2, <2>3 DEF Consistent
<1>3. ProgramsInv
  BY <1>2 DEF Init, ProgramsInv
<1>4. RegistersInv
  BY DEF Init, RegistersInv, Bits
<1>. QED
  BY <1>1, <1>3, <1>4 DEF CardInv

\* A step of p leaves the others as they are.
LEMMA ProgramMoves ==
  ASSUME CardInv, NEW p \in Prog, NEW at, NEW n, NEW cs, NEW anew, NEW f,
         pc' = [pc EXCEPT ![p] = at], jobs' = [jobs EXCEPT ![p] = n],
         called' = [called EXCEPT ![p] = cs], fresh' = [fresh EXCEPT ![p] = anew],
         batch' = [batch EXCEPT ![p] = f], defaulted' \in [Prog -> BOOLEAN],
         Consistent(p, at, n, cs, anew, f)
  PROVE  Shapes' /\ ProgramsInv'
<1>1. Shapes'
  BY DEF CardInv, Shapes
<1>2. ASSUME NEW q \in Prog
      PROVE  Consistent(q, pc'[q], jobs'[q], called'[q], fresh'[q], batch'[q])
  <2>1. CASE q = p
    <3>1. /\ pc'[q] = at /\ jobs'[q] = n /\ called'[q] = cs
          /\ fresh'[q] = anew /\ batch'[q] = f
      BY <2>1 DEF CardInv, Shapes
    <3>. QED
      BY <2>1, <3>1
  <2>2. CASE q # p
    <3>1. /\ pc'[q] = pc[q] /\ jobs'[q] = jobs[q] /\ called'[q] = called[q]
          /\ fresh'[q] = fresh[q] /\ batch'[q] = batch[q]
      BY <2>2 DEF CardInv, Shapes
    <3>. QED
      BY <3>1 DEF CardInv, ProgramsInv
  <2>. QED
    BY <2>1, <2>2
<1>. QED
  BY <1>1, <1>2 DEF ProgramsInv

\* The registers are as the last program left them, while it does nothing.
LEMMA RegistersStay ==
  ASSUME CardInv, NEW p \in Prog, NEW at, NEW cs, NEW anew,
         pc' = [pc EXCEPT ![p] = at],
         called' = [called EXCEPT ![p] = cs], fresh' = [fresh EXCEPT ![p] = anew],
         regs' = regs, last' \in {last, Nobody}, last' # p
  PROVE  RegistersInv'
<1>1. Bits(regs')
  BY DEF CardInv, RegistersInv
<1>2. last' \in Prog \cup {Nobody}
  BY DEF CardInv, RegistersInv
<1>3. ASSUME last' # Nobody
      PROVE  pc'[last'] = "flushed" /\ Complete(last', called'[last'], fresh'[last'], regs')
  <2>1. last' = last /\ last \in Prog /\ last # p
    BY <1>3 DEF CardInv, RegistersInv
  <2>2. pc'[last] = pc[last] /\ called'[last] = called[last] /\ fresh'[last] = fresh[last]
    BY <2>1 DEF CardInv, Shapes
  <2>3. pc[last] = "flushed" /\ Complete(last, called[last], fresh[last], regs)
    BY <1>3, <2>1 DEF CardInv, RegistersInv
  <2>. QED
    BY <2>1, <2>2, <2>3
<1>. QED
  BY <1>1, <1>2, <1>3 DEF RegistersInv

\* What a step does not change.
LEMMA Unchanged ==
  ASSUME CardInv, NEW p \in Prog
  PROVE  /\ jobs = [jobs EXCEPT ![p] = jobs[p]] /\ called = [called EXCEPT ![p] = called[p]]
         /\ fresh = [fresh EXCEPT ![p] = fresh[p]] /\ batch = [batch EXCEPT ![p] = batch[p]]
  BY DEF CardInv, Shapes

\* What a step queues: the registers are then those of another program's
\* batch, or of nobody's.
LEMMA QueueStep ==
  ASSUME CardInv, NEW p \in Prog, NEW at, NEW n, NEW cs, NEW anew, NEW effect,
         pc' = [pc EXCEPT ![p] = at], jobs' = [jobs EXCEPT ![p] = n],
         called' = [called EXCEPT ![p] = cs], fresh' = [fresh EXCEPT ![p] = anew],
         Queue(p, effect), UNCHANGED cardVars,
         Consistent(p, at, n, cs, anew, Over(effect, batch[p]))
  PROVE  CardInv'
<1>1. batch' = [batch EXCEPT ![p] = Over(effect, batch[p])]
  BY DEF Queue
<1>2. last' \in {last, Nobody} /\ last' # p
  BY ProgAssumption DEF Queue
<1>3. regs' = regs /\ defaulted' \in [Prog -> BOOLEAN]
  BY DEF cardVars, CardInv, Shapes
<1>4. Shapes' /\ ProgramsInv'
  BY <1>1, <1>3, ProgramMoves
<1>5. RegistersInv'
  BY <1>2, <1>3, RegistersStay
<1>. QED
  BY <1>4, <1>5 DEF CardInv

LEMMA EmptyBits == Bits(<<>>)
  BY DEF Bits

LEMMA ConstructStep ==
  ASSUME CardInv, NEW p \in Prog, construct(p)
  PROVE  CardInv'
<1>1. Consistent(p, "new", jobs[p], called[p], fresh[p], batch[p])
  BY DEF CardInv, ProgramsInv, construct, Step
<1>2. called[p] = {} /\ batch[p] = <<>>
  BY <1>1 DEF Consistent
<1>3. Started(p, {}, TRUE, Over(DefaultEffect, <<>>))
  BY StartDescribed
<1>4. Bits(Over(DefaultEffect, <<>>))
  BY EmptyBits, DefaultEffects, OverHolds
<1>5. 1 \in 0 .. MaxJobs
  BY ProgAssumption DEF construct
<1>6. Consistent(p, "setting", 1, called[p], TRUE, Over(DefaultEffect, batch[p]))
  BY <1>1, <1>2, <1>3, <1>4, <1>5 DEF Consistent
<1>7. /\ pc' = [pc EXCEPT ![p] = "setting"] /\ jobs' = [jobs EXCEPT ![p] = 1]
      /\ called' = [called EXCEPT ![p] = called[p]] /\ fresh' = [fresh EXCEPT ![p] = TRUE]
      /\ Queue(p, DefaultEffect) /\ UNCHANGED cardVars
  BY Unchanged DEF construct, Step
<1>. QED
  BY <1>6, <1>7, QueueStep

LEMMA NextJobStep ==
  ASSUME CardInv, NEW p \in Prog, NEW again \in BOOLEAN, next_job(p, again)
  PROVE  CardInv'
<1> DEFINE effect == IF again THEN DefaultEffect ELSE <<>>
<1>1. Consistent(p, "flushed", jobs[p], called[p], fresh[p], batch[p])
  BY DEF CardInv, ProgramsInv, next_job, Step
<1>2. batch[p] = <<>>
  BY <1>1 DEF Consistent
<1>3. Started(p, {}, again, Over(effect, <<>>))
  BY StartDescribed
<1>4. Bits(Over(effect, <<>>))
  BY EmptyBits, DefaultEffects, OverHolds
<1>5. jobs[p] + 1 \in 0 .. MaxJobs
  BY <1>1, ProgAssumption DEF Consistent, next_job
<1>6. IsFiniteSet({}) /\ Cardinality({}) <= MaxSets
  BY FS_EmptySet, ProgAssumption
<1>7. Queue(p, effect)
  BY DEF next_job
<1>. HIDE DEF effect
<1>8. Consistent(p, "setting", jobs[p] + 1, {}, again, Over(effect, batch[p]))
  BY <1>2, <1>3, <1>4, <1>5, <1>6 DEF Consistent
<1>9. /\ pc' = [pc EXCEPT ![p] = "setting"] /\ jobs' = [jobs EXCEPT ![p] = jobs[p] + 1]
      /\ called' = [called EXCEPT ![p] = {}] /\ fresh' = [fresh EXCEPT ![p] = again]
      /\ UNCHANGED cardVars
  BY DEF next_job, Step
<1>. QED
  BY <1>7, <1>8, <1>9, QueueStep

LEMMA SetStep ==
  ASSUME CardInv, NEW p \in Prog, NEW c \in Setter, set(p, c)
  PROVE  CardInv'
<1> DEFINE cs == called[p] \cup {c}
           f == Over(SetterEffect[p][c], batch[p])
<1>1. Consistent(p, "setting", jobs[p], called[p], fresh[p], batch[p])
  BY DEF CardInv, ProgramsInv, set, Step
<1>2. called[p] \in SUBSET Setter /\ Started(p, called[p], fresh[p], batch[p])
  BY <1>1 DEF Consistent
<1>3. Started(p, cs, fresh[p], f)
  BY <1>2, SetDescribed
<1>4. Bits(f)
  BY <1>1, SetterEffects, OverHolds DEF Consistent
<1>5. cs \subseteq Setter /\ IsFiniteSet(cs) /\ Cardinality(cs) <= MaxSets
  <2>1. IsFiniteSet(called[p]) /\ c \notin called[p] /\ Cardinality(called[p]) < MaxSets
    BY <1>1 DEF Consistent, set
  <2>2. IsFiniteSet(cs) /\ Cardinality(cs) = Cardinality(called[p]) + 1
    BY <2>1, FS_AddElement
  <2>3. Cardinality(called[p]) \in Nat
    BY <2>1, FS_CardinalityType
  <2>. QED
    BY <1>2, <2>1, <2>2, <2>3, ProgAssumption
<1>6. /\ pc' = [pc EXCEPT ![p] = "setting"] /\ jobs' = [jobs EXCEPT ![p] = jobs[p]]
      /\ called' = [called EXCEPT ![p] = cs] /\ fresh' = [fresh EXCEPT ![p] = fresh[p]]
      /\ Queue(p, SetterEffect[p][c]) /\ UNCHANGED cardVars
  BY Unchanged DEF set, Step
<1>. HIDE DEF cs
<1>7. Consistent(p, "setting", jobs[p], cs, fresh[p], f)
  <2>. HIDE DEF f
  <2>. QED
    BY <1>1, <1>3, <1>4, <1>5 DEF Consistent
<1>. QED
  BY <1>6, <1>7, QueueStep

LEMMA LoadShaderStep ==
  ASSUME CardInv, NEW p \in Prog, load_shader(p)
  PROVE  CardInv'
<1>1. Consistent(p, "setting", jobs[p], called[p], fresh[p], batch[p])
  BY DEF CardInv, ProgramsInv, load_shader, Step
<1>2. called[p] \subseteq Setter /\ Started(p, called[p], fresh[p], batch[p])
  BY <1>1 DEF Consistent
<1>3. Loaded(p, called[p], fresh[p], Over(Settled(p), batch[p]))
  BY <1>2, LoadDescribed
<1>4. Bits(Over(Settled(p), batch[p]))
  BY <1>1, SettledHolds, OverHolds DEF Consistent
<1>5. Consistent(p, "loaded", jobs[p], called[p], fresh[p], Over(Settled(p), batch[p]))
  BY <1>1, <1>3, <1>4 DEF Consistent
<1>6. /\ pc' = [pc EXCEPT ![p] = "loaded"] /\ jobs' = [jobs EXCEPT ![p] = jobs[p]]
      /\ called' = [called EXCEPT ![p] = called[p]] /\ fresh' = [fresh EXCEPT ![p] = fresh[p]]
      /\ Queue(p, Settled(p)) /\ UNCHANGED cardVars
  BY Unchanged DEF load_shader, Step
<1>. QED
  BY <1>5, <1>6, QueueStep

LEMMA DispatchStep ==
  ASSUME CardInv, NEW p \in Prog, dispatch(p)
  PROVE  CardInv'
<1>1. Consistent(p, "loaded", jobs[p], called[p], fresh[p], batch[p])
  BY DEF CardInv, ProgramsInv, dispatch, Step
<1>2. called[p] \in SUBSET Setter /\ Loaded(p, called[p], fresh[p], batch[p])
  BY <1>1 DEF Consistent
<1>3. Complete(p, called[p], fresh[p], Over(DispatchEffect[p], batch[p]))
  BY <1>2, DispatchDescribed
<1>4. Bits(Over(DispatchEffect[p], batch[p]))
  BY <1>1, FixedEffects, OverHolds DEF Consistent
<1>5. Consistent(p, "dispatched", jobs[p], called[p], fresh[p], Over(DispatchEffect[p], batch[p]))
  BY <1>1, <1>3, <1>4 DEF Consistent
<1>6. /\ pc' = [pc EXCEPT ![p] = "dispatched"] /\ jobs' = [jobs EXCEPT ![p] = jobs[p]]
      /\ called' = [called EXCEPT ![p] = called[p]] /\ fresh' = [fresh EXCEPT ![p] = fresh[p]]
      /\ Queue(p, DispatchEffect[p]) /\ UNCHANGED cardVars
  BY Unchanged DEF dispatch, Step
<1>. QED
  BY <1>5, <1>6, QueueStep

LEMMA FlushStep ==
  ASSUME CardInv, NEW p \in Prog, flush_cs(p)
  PROVE  CardInv'
<1>1. Consistent(p, "dispatched", jobs[p], called[p], fresh[p], batch[p])
  BY DEF CardInv, ProgramsInv, flush_cs, Step
<1>2. Complete(p, called[p], fresh[p], batch[p]) /\ Bits(batch[p])
  BY <1>1 DEF Consistent
<1>3. Consistent(p, "flushed", jobs[p], called[p], fresh[p], <<>>)
  BY <1>1, EmptyBits DEF Consistent
<1>4. /\ pc' = [pc EXCEPT ![p] = "flushed"] /\ jobs' = [jobs EXCEPT ![p] = jobs[p]]
      /\ called' = [called EXCEPT ![p] = called[p]] /\ fresh' = [fresh EXCEPT ![p] = fresh[p]]
      /\ batch' = [batch EXCEPT ![p] = <<>>]
  BY Unchanged DEF flush_cs, Step
<1>5. defaulted' \in [Prog -> BOOLEAN]
  <2>1. defaulted \in [Prog -> BOOLEAN] /\ fresh[p] \in BOOLEAN
    BY <1>1 DEF CardInv, Shapes, Consistent
  <2>. QED
    BY <2>1 DEF flush_cs
<1>6. Shapes' /\ ProgramsInv'
  BY <1>3, <1>4, <1>5, ProgramMoves
<1>7. CASE regs' = Over(batch[p], regs) /\ last' = p
  <2>1. Bits(regs')
    BY <1>2, <1>7, OverHolds DEF CardInv, RegistersInv
  <2>2. Complete(p, called[p], fresh[p], regs')
    BY <1>2, <1>7, CardComplete
  <2>3. pc'[p] = "flushed" /\ called'[p] = called[p] /\ fresh'[p] = fresh[p]
    BY <1>4 DEF CardInv, Shapes
  <2>. QED
    BY <1>6, <1>7, <2>1, <2>2, <2>3 DEF CardInv, RegistersInv
<1>8. CASE UNCHANGED <<regs, last>>
  <2>1. last # p
    BY ProgAssumption DEF CardInv, RegistersInv, flush_cs, Step
  <2>2. RegistersInv'
    BY <1>4, <1>8, <2>1, RegistersStay
  <2>. QED
    BY <1>6, <2>2 DEF CardInv
<1>. QED
  BY <1>7, <1>8 DEF flush_cs

LEMMA StepCardInv == CardInv /\ [Next]_vars => CardInv'
<1> SUFFICES ASSUME CardInv, [Next]_vars PROVE CardInv'
  OBVIOUS
<1>1. ASSUME NEW p \in Prog, construct(p) PROVE CardInv'
  BY <1>1, ConstructStep
<1>2. ASSUME NEW p \in Prog, NEW again \in BOOLEAN, next_job(p, again) PROVE CardInv'
  BY <1>2, NextJobStep
<1>3. ASSUME NEW p \in Prog, NEW c \in Setter, set(p, c) PROVE CardInv'
  BY <1>3, SetStep
<1>4. ASSUME NEW p \in Prog, load_shader(p) PROVE CardInv'
  BY <1>4, LoadShaderStep
<1>5. ASSUME NEW p \in Prog, dispatch(p) PROVE CardInv'
  BY <1>5, DispatchStep
<1>6. ASSUME NEW p \in Prog, flush_cs(p) PROVE CardInv'
  BY <1>6, FlushStep
<1>7. ASSUME UNCHANGED vars PROVE CardInv'
  BY <1>7 DEF vars, CardInv, Shapes, ProgramsInv, RegistersInv
<1>. QED
  BY <1>1, <1>2, <1>3, <1>4, <1>5, <1>6, <1>7 DEF Next

-----------------------------------------------------------------------------
(* What follows from it.                                                   *)

LEMMA CardInvTypeOK == CardInv => TypeOK
<1> SUFFICES ASSUME CardInv PROVE TypeOK
  OBVIOUS
<1>1. ASSUME NEW p \in Prog
      PROVE  /\ pc[p] \in {"new", "setting", "loaded", "dispatched", "flushed"}
             /\ jobs[p] \in 0 .. MaxJobs /\ fresh[p] \in BOOLEAN
             /\ called[p] \subseteq Setter /\ Cardinality(called[p]) <= MaxSets
             /\ pc[p] \in {"new", "flushed"} => batch[p] = <<>>
  BY DEF CardInv, ProgramsInv, Consistent
<1>2. pc \in [Prog -> {"new", "setting", "loaded", "dispatched", "flushed"}]
  BY <1>1 DEF CardInv, Shapes
<1>3. jobs \in [Prog -> 0 .. MaxJobs]
  BY <1>1 DEF CardInv, Shapes
<1>4. fresh \in [Prog -> BOOLEAN]
  BY <1>1 DEF CardInv, Shapes
<1>5. defaulted \in [Prog -> BOOLEAN]
  BY DEF CardInv, Shapes
<1>6. last \in Prog \cup {Nobody} /\ \A r \in DOMAIN regs : regs[r] \subseteq Bit
  BY DEF CardInv, RegistersInv, Bits
<1>. QED
  BY <1>1, <1>2, <1>3, <1>4, <1>5, <1>6 DEF TypeOK

LEMMA CompleteOwn ==
  ASSUME NEW p \in Prog, called[p] \subseteq Setter, IsFiniteSet(called[p]),
         Complete(p, called[p], fresh[p], regs), NEW r \in DOMAIN Meant(p)
  PROVE  \/ r \in DOMAIN regs /\ regs[r] = Meant(p)[r]
         \/ ~ fresh[p] /\ r \in Changeable \ SetBy(p)
<1> DEFINE base == Over(DispatchEffect[p], ShaderEffect[p])
           own == FoldFunctionOnSet(Over, base, SetterEffect[p], called[p])
           none == UNION {Telling(c[1]) : c \in DOMAIN UnusedEffect \ called[p]}
           zero == [x \in none |-> {}]
           rest == Over(zero, DefaultEffect)
<1>1. Meant(p) = Over(own, rest)
  BY DEF Meant
<1>2. Merged(own, base, SetterEffect[p], called[p])
  BY FoldOver
<1>3. DOMAIN base = DOMAIN DispatchEffect[p] \cup DOMAIN ShaderEffect[p]
  BY DEF Over
<1>. HIDE DEF base, own
<1>4. CASE r \in DOMAIN own
  <2>1. Meant(p)[r] = own[r]
    BY <1>1, <1>4 DEF Over
  <2>2. \/ \E c \in called[p] : r \in DOMAIN SetterEffect[p][c] /\ own[r] = SetterEffect[p][c][r]
        \/ r \in DOMAIN base /\ own[r] = base[r]
    BY <1>2, <1>4 DEF Merged
  <2>3. /\ \A c \in called[p] : Holds(regs, SetterEffect[p][c])
        /\ Holds(regs, base)
    BY DEF Complete, Started, AsSet, base
  <2>. QED
    BY <2>1, <2>2, <2>3 DEF Holds
<1>5. CASE r \notin DOMAIN own /\ r \in none
  <2>1. Meant(p)[r] = {}
    <3>1. r \in DOMAIN Meant(p) /\ Meant(p)[r] = rest[r]
      BY <1>1, <1>5 DEF Over
    <3>2. rest[r] = zero[r]
      BY <1>5 DEF Over
    <3>. QED
      BY <1>5, <3>1, <3>2
  <2>2. PICK c \in DOMAIN UnusedEffect \ called[p] : r \in Telling(c[1])
    BY <1>5
  <2>3. r \in DOMAIN UnusedEffect[c] /\ UnusedEffect[c][r] = {}
    BY <2>2, UnusedEffects
  <2>4. Holds(regs, UnusedEffect[c])
    BY DEF Complete, AsUnused
  <2>. QED
    BY <2>1, <2>3, <2>4 DEF Holds
<1>6. CASE r \notin DOMAIN own /\ r \notin none
  <2>1. r \in DOMAIN DefaultEffect /\ Meant(p)[r] = DefaultEffect[r]
    <3>1. r \in DOMAIN rest /\ Meant(p)[r] = rest[r]
      BY <1>1, <1>6 DEF Over
    <3>. QED
      BY <1>6, <3>1 DEF Over
  <2>2. r \notin DOMAIN base /\ \A c \in called[p] : r \notin DOMAIN SetterEffect[p][c]
    BY <1>2, <1>6 DEF Merged
  <2>3. /\ r \notin DOMAIN ShaderEffect[p] \cup DOMAIN DispatchEffect[p]
        /\ r \notin OwnWrites(p, called[p]) /\ r \notin SetBy(p)
    BY <1>3, <2>2 DEF OwnWrites, SetBy
  <2>4. Defaulted(p, called[p], fresh[p], regs)
    BY DEF Complete, Started
  <2>5. fresh[p] => r \in DOMAIN regs /\ regs[r] = DefaultEffect[r]
    BY <2>1, <2>3, <2>4 DEF Defaulted
  <2>6. r \in Changeable
    BY <2>1, <2>3, DefaultKept
  <2>. QED
    BY <2>1, <2>3, <2>5, <2>6
<1>. QED
  BY <1>4, <1>5, <1>6

LEMMA CardInvOwnRegisters == CardInv => OwnRegisters
<1> SUFFICES ASSUME CardInv, last # Nobody, NEW r \in DOMAIN Meant(last)
             PROVE  \/ r \in DOMAIN regs /\ regs[r] = Meant(last)[r]
                    \/ ~ fresh[last] /\ r \in Changeable \ SetBy(last)
  BY DEF OwnRegisters
<1>1. last \in Prog /\ Complete(last, called[last], fresh[last], regs)
  BY DEF CardInv, RegistersInv
<1>2. called[last] \subseteq Setter /\ IsFiniteSet(called[last])
  BY <1>1 DEF CardInv, ProgramsInv, Consistent
<1>. QED
  BY <1>1, <1>2, CompleteOwn

LEMMA CardInvAlways == Spec => []CardInv
<1>1. Init => CardInv
  BY InitCardInv
<1>2. CardInv /\ [Next]_vars => CardInv'
  BY StepCardInv
<1>. QED
  BY <1>1, <1>2, PTL DEF Spec

\* The programs and the card keep their types: no job calls more setters than
\* it may, a queue is empty before a program's first job and after a flush, as
\* command_stream::flush_cs erases it whether the kernel took the batch or not,
\* and a register holds bits of a word.
THEOREM SharedCardTypeCorrect == Spec => []TypeOK
<1>1. CardInv => TypeOK
  BY CardInvTypeOK
<1>. QED
  BY <1>1, CardInvAlways, PTL

\* For any number of programs, objects, shaders, groups and jobs, a job finds
\* every register as its program meant it, whatever other programs or its own
\* earlier jobs left on the card; without set_default_state only the size of a
\* RAT, of the export buffer and the first loop constant can be another job's
\* (src/r800_state.cpp, src/tests).
THEOREM OwnRegistersCorrect == Spec => []OwnRegisters
<1>1. CardInv => OwnRegisters
  BY CardInvOwnRegisters
<1>. QED
  BY <1>1, CardInvAlways, PTL
=============================================================================
