-------------------------- MODULE CmdStreamProofs ---------------------------
(***************************************************************************)
(* Theorems about CmdStream, for every set of objects, dwords and accesses *)
(* and every bound.                                                        *)
(***************************************************************************)
EXTENDS CmdStream, FiniteSetTheorems, SequenceTheorems, TLAPS

-----------------------------------------------------------------------------
(* Counting relocations.                                                   *)

\* The count is a number.
LEMMA NumRelocsType ==
  ASSUME NEW s \in Seq(Token)
  PROVE  /\ NumRelocs(s) \in Nat
         /\ IsFiniteSet({i \in DOMAIN s : IsReloc(s[i])})
<1>1. IsFiniteSet(1 .. Len(s))
  BY FS_Interval
<1>2. {i \in DOMAIN s : IsReloc(s[i])} \subseteq 1 .. Len(s)
  OBVIOUS
<1>3. IsFiniteSet({i \in DOMAIN s : IsReloc(s[i])})
  BY <1>1, <1>2, FS_Subset
<1>. QED
  BY <1>3, FS_CardinalityType DEF NumRelocs

\* The empty queue holds none.
LEMMA NumRelocsEmpty == NumRelocs(<<>>) = 0
<1>1. {i \in DOMAIN <<>> : IsReloc(<<>>[i])} = {}
  OBVIOUS
<1>. QED
  BY <1>1, FS_EmptySet DEF NumRelocs

\* A token adds one when it is a relocation, and nothing otherwise: what
\* write_dword and reloc do to the queue.
LEMMA NumRelocsAppend ==
  ASSUME NEW s \in Seq(Token), NEW t \in Token
  PROVE  NumRelocs(Append(s, t)) = IF IsReloc(t) THEN NumRelocs(s) + 1
                                                 ELSE NumRelocs(s)
<1> DEFINE S == {i \in DOMAIN s : IsReloc(s[i])}
           T == {i \in DOMAIN Append(s, t) : IsReloc(Append(s, t)[i])}
           n == Len(s) + 1
<1>1. /\ DOMAIN s = 1 .. Len(s)
      /\ DOMAIN Append(s, t) = 1 .. n
      /\ Append(s, t)[n] = t
      /\ \A i \in 1 .. Len(s) : Append(s, t)[i] = s[i]
      /\ Len(s) \in Nat
  OBVIOUS
<1>2. IsFiniteSet(S)
  BY NumRelocsType
<1>3. n \notin S
  BY <1>1
<1>4. CASE IsReloc(t)
  <2>1. T = S \cup {n}
    BY <1>1, <1>4
  <2>2. Cardinality(T) = Cardinality(S) + 1
    BY <1>2, <1>3, <2>1, FS_AddElement
  <2>. QED
    BY <1>4, <2>2 DEF NumRelocs
<1>5. CASE ~ IsReloc(t)
  <2>1. T = S
    BY <1>1, <1>5
  <2>. QED
    BY <1>5, <2>1 DEF NumRelocs
<1>. QED
  BY <1>4, <1>5

\* A prefix of the queue grows by the token cs_emit copies next.
LEMMA PrefixGrows ==
  ASSUME NEW s \in Seq(Token), NEW n \in Nat, n < Len(s)
  PROVE  /\ SubSeq(s, 1, n) \in Seq(Token)
         /\ SubSeq(s, 1, n + 1) = Append(SubSeq(s, 1, n), s[n + 1])
         /\ s[n + 1] \in Token
<1>1. /\ SubSeq(s, 1, n) \in Seq(Token)
      /\ Len(SubSeq(s, 1, n)) = n
      /\ \A i \in 1 .. n : SubSeq(s, 1, n)[i] = s[i]
  BY SubSeqProperties
<1>2. /\ SubSeq(s, 1, n + 1) \in Seq(Token)
      /\ Len(SubSeq(s, 1, n + 1)) = n + 1
      /\ \A i \in 1 .. n + 1 : SubSeq(s, 1, n + 1)[i] = s[i]
  BY SubSeqProperties
<1>3. s[n + 1] \in Token
  BY ElementOfSeq
<1>4. /\ Append(SubSeq(s, 1, n), s[n + 1]) \in Seq(Token)
      /\ Len(Append(SubSeq(s, 1, n), s[n + 1])) = n + 1
      /\ \A i \in 1 .. n + 1 : Append(SubSeq(s, 1, n), s[n + 1])[i] = s[i]
  BY <1>1, <1>3, AppendProperties
<1>5. SubSeq(s, 1, n + 1) = Append(SubSeq(s, 1, n), s[n + 1])
  BY <1>2, <1>4, SeqEqual
<1>. QED
  BY <1>1, <1>3, <1>5

\* A prefix holds no more relocations than the queue.
LEMMA PrefixRelocs ==
  ASSUME NEW s \in Seq(Token), NEW n \in 0 .. Len(s)
  PROVE  /\ NumRelocs(SubSeq(s, 1, n)) <= NumRelocs(s)
         /\ SubSeq(s, 1, Len(s)) = s
<1> DEFINE p == SubSeq(s, 1, n)
<1>1. /\ p \in Seq(Token)
      /\ Len(p) = n
      /\ \A i \in 1 .. n : p[i] = s[i]
  BY SubSeqProperties
<1>2. {i \in DOMAIN p : IsReloc(p[i])} \subseteq {i \in DOMAIN s : IsReloc(s[i])}
  BY <1>1
<1>3. NumRelocs(p) <= NumRelocs(s)
  BY <1>2, NumRelocsType, FS_Subset DEF NumRelocs
<1>4. /\ SubSeq(s, 1, Len(s)) \in Seq(Token)
      /\ Len(SubSeq(s, 1, Len(s))) = Len(s)
      /\ \A i \in 1 .. Len(s) : SubSeq(s, 1, Len(s))[i] = s[i]
  BY SubSeqProperties
<1>5. SubSeq(s, 1, Len(s)) = s
  BY <1>4, SeqEqual
<1>. QED
  BY <1>3, <1>5

-----------------------------------------------------------------------------
(* The inductive invariant.                                                *)

\* A position inside the queue is kept only while a flush runs.
IdleAtStart == pc = "idle" => pos = 0

\* What the section of a flush was declared with, and how far it is filled.
SectionFilled ==
  pc = "emit" /\ ~ broken =>
    /\ cs.ndw = Len(queue) + NumRelocs(queue)
    /\ cs.cdw = pos + NumRelocs(SubSeq(queue, 1, pos))
    /\ Len(cs.buf) = pos

\* libdrm's buffer ends in the tokens the flush has copied.
BufferTail ==
  /\ pos <= Len(cs.buf)
  /\ \A i \in 1 .. pos : cs.buf[Len(cs.buf) - pos + i] = queue[i]

IInv ==
  /\ TypeOK
  /\ RelocNumExact
  /\ NothingLeftOver
  /\ IdleAtStart
  /\ SectionFilled
  /\ BufferTail

\* The typing of each way libdrm's buffer changes.
LEMMA EmptyCSType == EmptyCS \in CS /\ Nowhere \in DomainMap
  BY DEF EmptyCS, CS, Nowhere, DomainMap

LEMMA BeginType ==
  ASSUME NEW c \in CS, NEW n \in Nat
  PROVE  Begin(c, n) \in CS /\ Begin(c, n).buf = c.buf
  BY DEF Begin, CS

LEMMA WriteDwordType ==
  ASSUME NEW c \in CS, NEW t \in Token
  PROVE  /\ WriteDword(c, t) \in CS
         /\ WriteDword(c, t).buf = Append(c.buf, t)
         /\ WriteDword(c, t).ndw = c.ndw
         /\ WriteDword(c, t).cdw = c.cdw + 1
<1>1. c.buf \in Seq(Token)
  BY DEF CS
<1>2. Append(c.buf, t) \in Seq(Token)
  BY <1>1, AppendProperties
<1>3. c.domain \in DomainMap /\ c.ndw \in Nat /\ c.cdw + 1 \in Nat
  BY DEF CS
<1>. QED
  BY <1>2, <1>3 DEF WriteDword, CS

LEMMA WriteRelocType ==
  ASSUME NEW c \in CS, NEW t \in Token, IsReloc(t), ~ RelocRefused(c, t)
  PROVE  /\ WriteReloc(c, t) \in CS
         /\ WriteReloc(c, t).buf = Append(c.buf, t)
         /\ WriteReloc(c, t).ndw = c.ndw
         /\ WriteReloc(c, t).cdw = c.cdw + 2
<1>1. t \in Reloc
  BY DEF Token, Dw, IsReloc
<1>2. t.bo \in BO /\ t.acc.dom \in Domain
  BY <1>1, AccessAssumption DEF Reloc, RelocRefused
<1>3. [c.domain EXCEPT ![t.bo] = t.acc.dom] \in DomainMap
  BY <1>2 DEF CS, DomainMap
<1>4. c.buf \in Seq(Token)
  BY DEF CS
<1>5. Append(c.buf, t) \in Seq(Token)
  BY <1>4, AppendProperties
<1>6. c.ndw \in Nat /\ c.cdw + 2 \in Nat
  BY DEF CS
<1>. QED
  BY <1>3, <1>5, <1>6 DEF WriteReloc, CS

LEMMA SubmittedType ==
  ASSUME NEW ss \in Seq(Seq(Token)), NEW b \in Seq(Token), NEW r \in Submitted(ss, b)
  PROVE  r \in Seq(Seq(Token))
<1>1. Append(ss, b) \in Seq(Seq(Token))
  BY AppendProperties
<1>2. r = ss \/ r = Append(ss, b)
  BY DEF Submitted
<1>. QED
  BY <1>1, <1>2

LEMMA ListedType ==
  ASSUME space \in SUBSET Entry, pers_bos \in Seq(Entry)
  PROVE  Listed \in SUBSET Entry
  BY ElementOfSeq DEF Listed

LEMMA ReleasedType ==
  ASSUME acct \in DomainMap
  PROVE  Released(acct, cs) \in DomainMap
  BY DEF Released, DomainMap

\* A submission leaves libdrm empty, whatever it held before.
LEMMA EmitAndEraseType ==
  ASSUME TypeOK, EmitAndErase
  PROVE  /\ cs' = EmptyCS
         /\ cs' \in CS
         /\ sent' \in Seq(Seq(Token))
         /\ broken' = FALSE
  BY SubmittedType, EmptyCSType DEF TypeOK, EmitAndErase, CS

THEOREM InitIInv == Init => IInv
<1>. SUFFICES ASSUME Init PROVE IInv
  OBVIOUS
<1>1. TypeOK
  <2>1. <<>> \in Seq(Token) /\ <<>> \in Seq(Entry) /\ <<>> \in Seq(Seq(Token))
    BY EmptySeq
  <2>2. pos \in 0 .. Len(queue)
    BY DEF Init
  <2>. QED
    BY <2>1, <2>2, EmptyCSType DEF Init, TypeOK
<1>2. RelocNumExact
  BY NumRelocsEmpty DEF Init, RelocNumExact
<1>. QED
  BY <1>1, <1>2 DEF Init, IInv, NothingLeftOver, IdleAtStart, SectionFilled,
                    BufferTail, EmptyCS

\* What remains to be shown of a step that ends between operations.
LEMMA IdleStep ==
  ASSUME TypeOK', pc' = "idle", pos' = 0, RelocNumExact', NothingLeftOver'
  PROVE  IInv'
  BY DEF IInv, IdleAtStart, SectionFilled, BufferTail, TypeOK, CS

\* A step that leaves the queue, the flush and libdrm's buffer as they are,
\* or ends in the death of the stream.
LEMMA QuietStep ==
  ASSUME IInv, TypeOK', UNCHANGED <<queue, reloc_num, pos, cs, broken>>,
         pc' = pc \/ pc' = "dead"
  PROVE  IInv'
<1>1. RelocNumExact'
  BY DEF IInv, RelocNumExact
<1>2. NothingLeftOver' /\ IdleAtStart' /\ SectionFilled' /\ BufferTail'
  BY DEF IInv, NothingLeftOver, IdleAtStart, SectionFilled, BufferTail
<1>. QED
  BY <1>1, <1>2 DEF IInv

LEMMA WriteStep ==
  ASSUME IInv, NEW t \in Token, pc = "idle", queue' = Append(queue, t),
         reloc_num' = IF IsReloc(t) THEN reloc_num + 1 ELSE reloc_num,
         UNCHANGED <<pers_bos, flushVars, callback, libdrmVars>>
  PROVE  IInv'
<1>1. queue' \in Seq(Token) /\ Len(queue') = Len(queue) + 1
  BY AppendProperties DEF IInv, TypeOK
<1>2. TypeOK'
  BY <1>1 DEF IInv, TypeOK, flushVars, libdrmVars
<1>3. RelocNumExact'
  BY NumRelocsAppend DEF IInv, TypeOK, RelocNumExact
<1>4. NothingLeftOver' /\ pc' = "idle" /\ pos' = 0
  BY DEF IInv, NothingLeftOver, IdleAtStart, flushVars, libdrmVars
<1>. QED
  BY <1>2, <1>3, <1>4, IdleStep

LEMMA BuildStep ==
  ASSUME IInv,
         \/ \E d \in Dword : write_dword(d)
         \/ \E b \in BO, a \in Access \cup {BadAccess} : reloc(b, a)
         \/ \E e \in Entry : add_persistent_bo(e)
         \/ cs_erase
         \/ move
         \/ destroy
  PROVE  IInv'
<1>1. ASSUME NEW d \in Dword, write_dword(d) PROVE IInv'
  <2> DEFINE t == [kind |-> "dw", dw |-> d]
  <2>1. t \in Token /\ ~ IsReloc(t)
    BY DEF Token, Dw, IsReloc
  <2>. QED
    BY <1>1, <2>1, WriteStep DEF write_dword
<1>2. ASSUME NEW b \in BO, NEW a \in Access \cup {BadAccess}, reloc(b, a) PROVE IInv'
  <2> DEFINE t == [kind |-> "reloc", bo |-> b, acc |-> a]
  <2>1. t \in Token /\ IsReloc(t)
    BY DEF Token, Reloc, IsReloc
  <2>. QED
    BY <1>2, <2>1, WriteStep DEF reloc
<1>3. ASSUME NEW e \in Entry, add_persistent_bo(e) PROVE IInv'
  <2>1. pers_bos' \in Seq(Entry)
    BY <1>3, AppendProperties DEF add_persistent_bo, IInv, TypeOK
  <2>2. TypeOK'
    BY <1>3, <2>1 DEF add_persistent_bo, IInv, TypeOK, flushVars, libdrmVars
  <2>. QED
    BY <1>3, <2>2, QuietStep DEF add_persistent_bo, flushVars, libdrmVars
<1>4. ASSUME cs_erase PROVE IInv'
  <2>1. queue' = <<>> /\ reloc_num' = 0 /\ pc' = "idle" /\ pos' = 0
    BY <1>4 DEF cs_erase, Erase, flushVars, IInv, IdleAtStart
  <2>2. TypeOK'
    <3>1. <<>> \in Seq(Token) /\ <<>> \in Seq(Entry) /\ Len(<<>>) = 0
      BY EmptySeq
    <3>. QED
      BY <1>4, <2>1, <3>1 DEF cs_erase, Erase, IInv, TypeOK, flushVars, libdrmVars
  <2>3. RelocNumExact'
    BY <2>1, NumRelocsEmpty DEF RelocNumExact
  <2>4. NothingLeftOver'
    BY <1>4 DEF cs_erase, IInv, NothingLeftOver, libdrmVars
  <2>. QED
    BY <2>1, <2>2, <2>3, <2>4, IdleStep
<1>5. ASSUME move \/ destroy PROVE IInv'
  <2>1. TypeOK'
    BY <1>5 DEF move, destroy, IInv, TypeOK, streamVars, flushVars, libdrmVars
  <2>. QED
    BY <1>5, <2>1, QuietStep DEF move, destroy, streamVars, flushVars, libdrmVars
<1>. QED
  BY <1>1, <1>2, <1>3, <1>4, <1>5

LEMMA AccountedType ==
  ASSUME NEW s, NEW a, NEW r \in Accounted(s, a)
  PROVE  r \in DomainMap
  BY DEF Accounted

LEMMA SpaceCheckStep == ASSUME IInv, space_check PROVE IInv'
<1>1. Listed \in SUBSET Entry /\ <<>> \in Seq(Entry)
  BY ListedType, EmptySeq DEF IInv, TypeOK
<1>2. CASE space_check_fits
  <2>1. acct' \in DomainMap
    BY <1>2, AccountedType DEF space_check_fits
  <2>2. TypeOK'
    BY <1>1, <1>2, <2>1 DEF space_check_fits, flushVars, IInv, TypeOK
  <2>. QED
    BY <1>2, <2>2, QuietStep DEF space_check_fits, flushVars
<1>3. CASE space_check_flushes \/ space_check_throws_after_flush
  <2>1. /\ EmitAndErase
        /\ UNCHANGED <<queue, reloc_num, pc, pos, callback>>
        /\ pc = "idle"
        /\ space' = Listed
        /\ pers_bos' = pers_bos \/ pers_bos' = <<>>
    BY <1>3 DEF space_check_flushes, space_check_throws_after_flush,
                FlushCallback, flushVars
  <2>2. acct' \in DomainMap
    BY <1>3, AccountedType, ReleasedType
       DEF space_check_flushes, space_check_throws_after_flush, IInv, TypeOK
  <2>3. cs' = EmptyCS /\ cs' \in CS /\ sent' \in Seq(Seq(Token)) /\ broken' = FALSE
    BY <2>1, EmitAndEraseType DEF IInv
  <2>4. TypeOK'
    BY <1>1, <2>1, <2>2, <2>3 DEF IInv, TypeOK
  <2>5. RelocNumExact' /\ NothingLeftOver' /\ pc' = "idle" /\ pos' = 0
    BY <2>1, <2>3 DEF IInv, RelocNumExact, NothingLeftOver, IdleAtStart
  <2>. QED
    BY <2>4, <2>5, IdleStep
<1>4. CASE space_check_throws_at_once
  <2>1. TypeOK'
    BY <1>1, <1>4 DEF space_check_throws_at_once, streamVars, flushVars, IInv, TypeOK
  <2>. QED
    BY <1>4, <2>1, QuietStep DEF space_check_throws_at_once, streamVars, flushVars
<1>5. CASE space_check_aborts \/ space_check_crashes
  <2>1. TypeOK'
    BY <1>1, <1>5 DEF space_check_aborts, space_check_crashes, streamVars,
                      libdrmVars, IInv, TypeOK
  <2>. QED
    BY <1>5, <2>1, QuietStep DEF space_check_aborts, space_check_crashes,
                                 streamVars, libdrmVars
<1>. QED
  BY <1>2, <1>3, <1>4, <1>5 DEF space_check

LEMMA FlushBegins == ASSUME IInv, flush_cs_begin PROVE IInv'
<1> DEFINE n == Len(queue) + reloc_num
<1>0. /\ pc = "idle" /\ pc' = "emit" /\ pos' = 0 /\ cs' = Begin(cs, n)
      /\ UNCHANGED <<queue, reloc_num, pers_bos, callback, space, acct, sent, broken>>
  BY DEF flush_cs_begin, streamVars, SectionDwords
<1>1. cs' \in CS /\ cs'.buf = cs.buf
  <2>1. cs \in CS /\ n \in Nat
    BY DEF IInv, TypeOK
  <2>. QED
    BY <1>0, <2>1, BeginType
<1>2. TypeOK'
  BY <1>0, <1>1 DEF IInv, TypeOK
<1>3. RelocNumExact' /\ NothingLeftOver' /\ IdleAtStart'
  BY <1>0 DEF IInv, RelocNumExact, NothingLeftOver, IdleAtStart
<1>4. SectionFilled'
  <2>. SUFFICES ASSUME ~ broken
                PROVE  /\ cs'.ndw = Len(queue) + NumRelocs(queue)
                       /\ cs'.cdw = 0 + NumRelocs(SubSeq(queue, 1, 0))
                       /\ Len(cs'.buf) = 0
    BY <1>0 DEF SectionFilled
  <2>1. cs = EmptyCS
    BY <1>0 DEF IInv, NothingLeftOver
  <2>2. cs'.ndw = Len(queue) + reloc_num /\ cs'.cdw = 0 /\ cs'.buf = <<>>
    BY <1>0, <2>1 DEF Begin, EmptyCS
  <2>3. SubSeq(queue, 1, 0) = <<>>
    BY SubSeqEmpty
  <2>4. NumRelocs(SubSeq(queue, 1, 0)) = 0 /\ reloc_num = NumRelocs(queue)
    BY <2>3, NumRelocsEmpty DEF IInv, RelocNumExact
  <2>. QED
    BY <2>2, <2>4
<1>5. BufferTail'
  BY <1>0, <1>1 DEF BufferTail, CS
<1>. QED
  BY <1>2, <1>3, <1>4, <1>5 DEF IInv

\* One token copied: the section grows by its one or two dwords, and the end
\* of libdrm's buffer by the token itself.
LEMMA TokenCopied ==
  ASSUME IInv, pc = "emit", pos < Len(queue), cs' \in CS,
         cs'.buf = Append(cs.buf, queue[pos + 1]),
         cs'.ndw = cs.ndw,
         cs'.cdw = cs.cdw + (IF IsReloc(queue[pos + 1]) THEN 2 ELSE 1),
         pos' = pos + 1,
         UNCHANGED <<queue, reloc_num, pers_bos, pc, callback, space, acct,
                     sent, broken>>
  PROVE  IInv'
<1>1. /\ queue \in Seq(Token) /\ pos \in Nat /\ Len(queue) \in Nat
      /\ cs \in CS /\ cs.buf \in Seq(Token) /\ cs.cdw \in Nat
  BY DEF IInv, TypeOK, CS
<1>2. /\ SubSeq(queue, 1, pos) \in Seq(Token)
      /\ SubSeq(queue, 1, pos + 1) = Append(SubSeq(queue, 1, pos), queue[pos + 1])
      /\ queue[pos + 1] \in Token
  BY <1>1, PrefixGrows
<1>3. TypeOK'
  BY <1>1 DEF IInv, TypeOK
<1>4. RelocNumExact' /\ NothingLeftOver' /\ IdleAtStart'
  BY DEF IInv, RelocNumExact, NothingLeftOver, IdleAtStart
<1>5. SectionFilled'
  <2>1. NumRelocs(SubSeq(queue, 1, pos)) \in Nat
    BY <1>2, NumRelocsType
  <2>2. NumRelocs(SubSeq(queue, 1, pos + 1))
          = IF IsReloc(queue[pos + 1]) THEN NumRelocs(SubSeq(queue, 1, pos)) + 1
                                       ELSE NumRelocs(SubSeq(queue, 1, pos))
    BY <1>2, NumRelocsAppend
  <2>3. Len(cs'.buf) = Len(cs.buf) + 1
    BY <1>1, <1>2, AppendProperties
  <2>. SUFFICES ASSUME ~ broken
                PROVE  /\ cs'.ndw = Len(queue) + NumRelocs(queue)
                       /\ cs'.cdw = pos + 1 + NumRelocs(SubSeq(queue, 1, pos + 1))
                       /\ Len(cs'.buf) = pos + 1
    BY DEF SectionFilled
  <2>4. /\ cs.ndw = Len(queue) + NumRelocs(queue)
        /\ cs.cdw = pos + NumRelocs(SubSeq(queue, 1, pos))
        /\ Len(cs.buf) = pos
    BY DEF IInv, SectionFilled
  <2>5. CASE IsReloc(queue[pos + 1])
    BY <1>1, <2>1, <2>2, <2>3, <2>4, <2>5
  <2>6. CASE ~ IsReloc(queue[pos + 1])
    BY <1>1, <2>1, <2>2, <2>3, <2>4, <2>6
  <2>. QED
    BY <2>5, <2>6
<1>6. BufferTail'
  <2> DEFINE L == Len(cs.buf)
  <2>1. /\ Len(cs'.buf) = L + 1
        /\ \A i \in 1 .. L : cs'.buf[i] = cs.buf[i]
        /\ cs'.buf[L + 1] = queue[pos + 1]
        /\ L \in Nat
    BY <1>1, <1>2, AppendProperties
  <2>2. pos <= L /\ \A i \in 1 .. pos : cs.buf[L - pos + i] = queue[i]
    BY DEF IInv, BufferTail
  <2>3. UNCHANGED queue /\ pos' = pos + 1 /\ pos \in Nat
    BY <1>1
  <2> HIDE DEF L
  <2>4. ASSUME NEW i \in 1 .. pos + 1
        PROVE  cs'.buf[L + 1 - (pos + 1) + i] = queue[i]
    <3>1. CASE i = pos + 1
      <4>1. L + 1 - (pos + 1) + i = L + 1
        BY <2>1, <2>3, <3>1
      <4>. QED
        BY <2>1, <3>1, <4>1
    <3>2. CASE i \in 1 .. pos
      <4>1. /\ L + 1 - (pos + 1) + i = L - pos + i
            /\ L - pos + i \in 1 .. L
        BY <2>1, <2>2, <2>3, <3>2
      <4>. QED
        BY <2>1, <2>2, <3>2, <4>1
    <3>3. i = pos + 1 \/ i \in 1 .. pos
      BY <2>3
    <3>. QED
      BY <3>1, <3>2, <3>3
  <2>5. pos + 1 <= L + 1
    BY <2>1, <2>2, <2>3
  <2>. QED
    <3>1. pos' <= Len(cs'.buf)
      BY <2>1, <2>3, <2>5
    <3>2. \A i \in 1 .. pos' : cs'.buf[Len(cs'.buf) - pos' + i] = queue'[i]
      <4>1. Len(cs'.buf) - pos' = L + 1 - (pos + 1)
        BY <2>1, <2>3
      <4>2. \A i \in 1 .. pos + 1 : cs'.buf[L + 1 - (pos + 1) + i] = queue[i]
        BY <2>4
      <4>3. pos' = pos + 1 /\ queue' = queue
        BY <2>3
      <4>. QED
        BY ONLY <4>1, <4>2, <4>3, Zenon
    <3>. QED
      BY <3>1, <3>2 DEF BufferTail
<1>. QED
  BY <1>3, <1>4, <1>5, <1>6 DEF IInv

LEMMA FlushStep == ASSUME IInv, flush_cs PROVE IInv'
<1>1. CASE flush_cs_dword
  <2>1. queue[pos + 1] \in Token /\ cs \in CS
    BY <1>1, PrefixGrows DEF flush_cs_dword, IInv, TypeOK
  <2>2. /\ cs' \in CS
        /\ cs'.buf = Append(cs.buf, queue[pos + 1])
        /\ cs'.ndw = cs.ndw
        /\ cs'.cdw = cs.cdw + 1
    BY <1>1, <2>1, WriteDwordType DEF flush_cs_dword, Current
  <2>. QED
    BY <1>1, <2>2, TokenCopied DEF flush_cs_dword, Current, streamVars
<1>2. CASE flush_cs_reloc
  <2>1. queue[pos + 1] \in Token /\ cs \in CS
    BY <1>2, PrefixGrows DEF flush_cs_reloc, IInv, TypeOK
  <2>2. /\ cs' \in CS
        /\ cs'.buf = Append(cs.buf, queue[pos + 1])
        /\ cs'.ndw = cs.ndw
        /\ cs'.cdw = cs.cdw + 2
    BY <1>2, <2>1, WriteRelocType DEF flush_cs_reloc, Current
  <2>. QED
    BY <1>2, <2>2, TokenCopied DEF flush_cs_reloc, Current, streamVars
<1>3. CASE flush_cs_throws
  <2>1. pc' = "idle" /\ pos' = 0 /\ broken' = TRUE /\ UNCHANGED <<queue, reloc_num>>
    BY <1>3 DEF flush_cs_throws, LeaveLoop, streamVars
  <2>2. TypeOK'
    BY <1>3, <2>1 DEF flush_cs_throws, LeaveLoop, streamVars, IInv, TypeOK
  <2>3. RelocNumExact' /\ NothingLeftOver'
    BY <2>1 DEF IInv, RelocNumExact, NothingLeftOver
  <2>. QED
    BY <2>1, <2>2, <2>3, IdleStep
<1>4. CASE flush_cs_aborts
  <2>1. TypeOK'
    BY <1>4 DEF flush_cs_aborts, streamVars, libdrmVars, IInv, TypeOK
  <2>. QED
    BY <1>4, <2>1, QuietStep DEF flush_cs_aborts, streamVars, libdrmVars
<1>5. CASE flush_cs_end
  <2>1. /\ pc' = "idle" /\ pos' = 0 /\ queue' = <<>> /\ reloc_num' = 0
        /\ pers_bos' = <<>> /\ acct' = Released(acct, cs)
        /\ UNCHANGED <<callback, space>>
    BY <1>5 DEF flush_cs_end, LeaveLoop, Erase
  <2>2. cs' = EmptyCS /\ cs' \in CS /\ sent' \in Seq(Seq(Token)) /\ broken' = FALSE
    BY <1>5, EmitAndEraseType DEF flush_cs_end, IInv
  <2>3. /\ <<>> \in Seq(Token) /\ <<>> \in Seq(Entry) /\ Len(<<>>) = 0
        /\ acct' \in DomainMap
    BY <2>1, EmptySeq, ReleasedType DEF IInv, TypeOK
  <2>4. TypeOK'
    <3>1. pos' \in 0 .. Len(queue')
      BY <2>1, <2>3
    <3>2. queue' \in Seq(Token) /\ reloc_num' \in Nat /\ pers_bos' \in Seq(Entry)
      BY <2>1, <2>3
    <3>. QED
      BY <2>1, <2>2, <2>3, <3>1, <3>2 DEF IInv, TypeOK
  <2>5. RelocNumExact' /\ NothingLeftOver'
    BY <2>1, <2>2, NumRelocsEmpty DEF RelocNumExact, NothingLeftOver
  <2>. QED
    BY <2>1, <2>4, <2>5, IdleStep
<1>. QED
  BY <1>1, <1>2, <1>3, <1>4, <1>5, FlushBegins DEF flush_cs

\* A step that changes nothing.
LEMMA StutterStep == ASSUME IInv, UNCHANGED vars PROVE IInv'
<1>1. TypeOK'
  BY DEF IInv, TypeOK, vars
<1>. QED
  BY <1>1, QuietStep DEF vars

-----------------------------------------------------------------------------
(* The theorems.                                                           *)

\* The strengthened invariant holds of every behaviour of the stream.
THEOREM Invariance == Spec => []IInv
<1>1. IInv /\ [Next]_vars => IInv'
  BY BuildStep, SpaceCheckStep, FlushStep, StutterStep DEF Next
<1>. QED
  BY <1>1, InitIInv, PTL DEF Spec

\* Every variable keeps its type.
THEOREM TypeCorrect == Spec => []TypeOK
<1>1. IInv => TypeOK
  BY DEF IInv
<1>. QED
  BY <1>1, Invariance, PTL

\* The counter of relocations is exact whenever the stream can look at it.
THEOREM RelocNumCorrect == Spec => []RelocNumExact
<1>1. IInv => RelocNumExact
  BY DEF IInv
<1>. QED
  BY <1>1, Invariance, PTL

\* A flush fills exactly the section it declared.
THEOREM SectionCorrect == Spec => []SectionExact
<1>1. IInv => SectionExact
  <2>. SUFFICES ASSUME IInv, pc = "emit", ~ broken
                PROVE  cs.cdw <= cs.ndw /\ (pos = Len(queue) => cs.cdw = cs.ndw)
    BY DEF SectionExact
  <2>1. /\ cs.ndw = Len(queue) + NumRelocs(queue)
        /\ cs.cdw = pos + NumRelocs(SubSeq(queue, 1, pos))
    BY DEF IInv, SectionFilled
  <2>2. queue \in Seq(Token) /\ pos \in 0 .. Len(queue) /\ Len(queue) \in Nat
    BY DEF IInv, TypeOK
  <2>3. /\ NumRelocs(SubSeq(queue, 1, pos)) <= NumRelocs(queue)
        /\ SubSeq(queue, 1, Len(queue)) = queue
    BY <2>2, PrefixRelocs
  <2>4. NumRelocs(queue) \in Nat
    BY <2>2, NumRelocsType
  <2>5. NumRelocs(SubSeq(queue, 1, pos)) \in Nat
    <3>1. SubSeq(queue, 1, pos) \in Seq(Token)
      BY <2>2, SubSeqProperties
    <3>. QED
      BY <3>1, NumRelocsType
  <2>6. cs.cdw <= cs.ndw
    BY <2>1, <2>2, <2>3, <2>4, <2>5
  <2>7. pos = Len(queue) => cs.cdw = cs.ndw
    BY <2>1, <2>3
  <2>. QED
    BY <2>6, <2>7
<1>. QED
  BY <1>1, Invariance, PTL

\* Nothing of one dispatch stays in libdrm's buffer for the next.
THEOREM NothingLeftOverCorrect == Spec => []NothingLeftOver
<1>1. IInv => NothingLeftOver
  BY DEF IInv
<1>. QED
  BY <1>1, Invariance, PTL

-----------------------------------------------------------------------------
(* The stream implements CommandQueue.                                     *)

\* libdrm's buffer is what was left behind, then what the flush has copied.
LEMMA BufferSplits ==
  ASSUME IInv
  PROVE  /\ residue \in Seq(Token)
         /\ cs.buf \in Seq(Token)
         /\ cs.buf = residue \o SubSeq(queue, 1, pos)
         /\ pos = 0 => residue = cs.buf
<1> DEFINE L == Len(cs.buf)
           p == SubSeq(queue, 1, pos)
<1>1. /\ queue \in Seq(Token) /\ pos \in 0 .. Len(queue) /\ pos \in Nat
      /\ cs.buf \in Seq(Token) /\ L \in Nat /\ pos <= L
      /\ \A i \in 1 .. pos : cs.buf[L - pos + i] = queue[i]
  BY DEF IInv, TypeOK, CS, BufferTail
<1>2. /\ residue \in Seq(Token)
      /\ Len(residue) = L - pos
      /\ \A i \in 1 .. L - pos : residue[i] = cs.buf[i]
  BY <1>1, SubSeqProperties DEF residue
<1>3. /\ p \in Seq(Token)
      /\ Len(p) = pos
      /\ \A i \in 1 .. pos : p[i] = queue[i]
  BY <1>1, SubSeqProperties
<1>. HIDE DEF L, p
<1>4. /\ residue \o p \in Seq(Token)
      /\ Len(residue \o p) = L
      /\ \A i \in 1 .. L : (residue \o p)[i] = IF i <= L - pos THEN residue[i]
                                                ELSE p[i - (L - pos)]
  <2>1. /\ residue \o p \in Seq(Token)
        /\ Len(residue \o p) = Len(residue) + Len(p)
        /\ \A i \in 1 .. Len(residue) + Len(p) :
             (residue \o p)[i] = IF i <= Len(residue) THEN residue[i]
                                                      ELSE p[i - Len(residue)]
    BY <1>2, <1>3, ConcatProperties
  <2>. QED
    BY <1>1, <1>2, <1>3, <2>1
<1>5. ASSUME NEW i \in 1 .. L PROVE cs.buf[i] = (residue \o p)[i]
  <2>1. CASE i <= L - pos
    BY <1>1, <1>2, <1>4, <2>1
  <2>2. CASE ~ (i <= L - pos)
    <3>1. i - (L - pos) \in 1 .. pos /\ L - pos + (i - (L - pos)) = i
      BY <1>1, <2>2
    <3>2. (residue \o p)[i] = p[i - (L - pos)]
      BY <1>4, <2>2
    <3>3. cs.buf[i] = queue[i - (L - pos)]
      BY <1>1, <3>1
    <3>. QED
      BY <1>3, <3>1, <3>2, <3>3
  <2>. QED
    BY <2>1, <2>2
<1>6. cs.buf = residue \o p
  BY <1>1, <1>4, <1>5, SeqEqual DEF L
<1>7. pos = 0 => residue = cs.buf
  BY <1>1, <1>2, SeqEqual DEF L
<1>. QED
  BY <1>1, <1>2, <1>6, <1>7 DEF p

\* Copying one token leaves what was left behind as it is.
LEMMA ResidueKept ==
  ASSUME IInv, pos < Len(queue), pos' = pos + 1,
         cs'.buf = Append(cs.buf, queue[pos + 1])
  PROVE  residue' = residue
<1>1. /\ queue \in Seq(Token) /\ pos \in Nat
      /\ cs.buf \in Seq(Token) /\ Len(cs.buf) \in Nat /\ pos <= Len(cs.buf)
  BY DEF IInv, TypeOK, CS, BufferTail
<1>2. queue[pos + 1] \in Token
  BY <1>1, PrefixGrows
<1> DEFINE r == SubSeq(cs'.buf, 1, Len(cs'.buf) - pos')
           n == Len(cs.buf) - pos
<1>3. /\ cs'.buf \in Seq(Token)
      /\ Len(cs'.buf) = Len(cs.buf) + 1
      /\ \A i \in 1 .. Len(cs.buf) : cs'.buf[i] = cs.buf[i]
  BY <1>1, <1>2, AppendProperties
<1>4. Len(cs'.buf) - pos' = n /\ n \in Nat /\ n <= Len(cs.buf)
  BY <1>1, <1>3
<1>5. /\ residue \in Seq(Token)
      /\ Len(residue) = n
      /\ \A i \in 1 .. n : residue[i] = cs.buf[i]
  BY <1>1, <1>4, SubSeqProperties DEF residue
<1>6. \A i \in 1 .. n : cs'.buf[i] \in Token /\ cs'.buf[i] = cs.buf[i]
  BY <1>1, <1>3, <1>4, ElementOfSeq
<1>7. /\ SubSeq(cs'.buf, 1, n) \in Seq(Token)
      /\ Len(SubSeq(cs'.buf, 1, n)) = n
      /\ \A i \in 1 .. n : SubSeq(cs'.buf, 1, n)[i] = cs'.buf[i]
  BY <1>4, <1>6, SubSeqProperties
<1>8. SubSeq(cs'.buf, 1, n) = residue
  BY <1>5, <1>6, <1>7, SeqEqual
<1>. QED
  BY <1>4, <1>8 DEF residue

\* What a submission does, in the terms of CommandQueue.
LEMMA SubmitMaps ==
  ASSUME NEW b, EmitAndErase, cs.buf = b
  PROVE  sent' = sent \/ (b # <<>> /\ sent' = Append(sent, b))
  BY DEF EmitAndErase, Submitted

LEMMA EmptyResidue ==
  ASSUME cs' = EmptyCS, pos' = 0
  PROVE  residue' = <<>>
<1>1. cs'.buf = <<>> /\ Len(cs'.buf) - pos' = 0
  BY DEF EmptyCS
<1>. QED
  BY <1>1, SubSeqEmpty DEF residue

\* Every step of the stream is a step of CommandQueue or invisible to it.
LEMMA StepMaps ==
  ASSUME IInv, [Next]_vars
  PROVE  [Promise!Next]_(Promise!vars)
<1>. USE DEF Promise!vars
<1>1. ASSUME NEW d \in Dword, write_dword(d) PROVE Promise!Next
  <2> DEFINE t == [kind |-> "dw", dw |-> d]
  <2>1. t \in Token
    BY DEF Token, Dw
  <2>2. Promise!Write(t)
    BY <1>1 DEF Promise!Write, write_dword, flushVars, libdrmVars, residue
  <2>. QED
    BY <2>1, <2>2 DEF Promise!Next
<1>2. ASSUME NEW b \in BO, NEW a \in Access \cup {BadAccess}, reloc(b, a)
      PROVE  Promise!Next
  <2> DEFINE t == [kind |-> "reloc", bo |-> b, acc |-> a]
  <2>1. t \in Token
    BY DEF Token, Reloc
  <2>2. Promise!Write(t)
    BY <1>2 DEF Promise!Write, reloc, flushVars, libdrmVars, residue
  <2>. QED
    BY <2>1, <2>2 DEF Promise!Next
<1>3. CASE cs_erase
  BY <1>3 DEF Promise!Next, Promise!Discard, cs_erase, Erase, flushVars,
              libdrmVars, residue
<1>4. CASE (\E e \in Entry : add_persistent_bo(e)) \/ move \/ destroy
  BY <1>4 DEF add_persistent_bo, move, destroy, streamVars, flushVars,
              libdrmVars, residue
<1>5. CASE space_check_flushes \/ space_check_throws_after_flush
  <2>1. EmitAndErase /\ UNCHANGED <<queue, pos>> /\ pc = "idle"
    BY <1>5 DEF space_check_flushes, space_check_throws_after_flush,
                FlushCallback, flushVars
  <2>2. pos = 0 /\ pos' = 0 /\ cs' = EmptyCS
    BY <2>1 DEF IInv, IdleAtStart, EmitAndErase
  <2>3. cs.buf = residue
    BY <2>2, BufferSplits
  <2>4. Promise!Submit(residue)
    BY <2>1, <2>3, SubmitMaps DEF Promise!Submit
  <2>5. residue' = <<>>
    BY <2>2, EmptyResidue
  <2>. QED
    BY <2>1, <2>4, <2>5 DEF Promise!Next, Promise!Spill
<1>6. CASE \/ space_check_fits \/ space_check_throws_at_once
           \/ space_check_aborts \/ space_check_crashes \/ flush_cs_aborts
  BY <1>6 DEF space_check_fits, space_check_throws_at_once, space_check_aborts,
              space_check_crashes, flush_cs_aborts, streamVars, flushVars,
              libdrmVars, residue
<1>7. CASE flush_cs_begin
  <2>1. pos' = pos /\ UNCHANGED <<queue, sent>>
    BY <1>7 DEF flush_cs_begin, IInv, IdleAtStart, streamVars
  <2>2. cs'.buf = cs.buf
    <3>1. cs \in CS /\ SectionDwords \in Nat
      BY DEF IInv, TypeOK, SectionDwords
    <3>. QED
      BY <1>7, <3>1, BeginType DEF flush_cs_begin
  <2>. QED
    BY <2>1, <2>2 DEF residue
<1>8. CASE flush_cs_dword \/ flush_cs_reloc
  <2>1. /\ pos < Len(queue) /\ pos' = pos + 1 /\ UNCHANGED <<queue, sent>>
        /\ cs' = WriteDword(cs, queue[pos + 1]) \/ cs' = WriteReloc(cs, queue[pos + 1])
    BY <1>8 DEF flush_cs_dword, flush_cs_reloc, Current, streamVars
  <2>2. cs'.buf = Append(cs.buf, queue[pos + 1])
    <3>1. cs \in CS
      BY DEF IInv, TypeOK
    <3>. QED
      BY <2>1, <3>1 DEF WriteDword, WriteReloc, CS
  <2>. QED
    BY <2>1, <2>2, ResidueKept
<1>9. CASE flush_cs_throws
  <2>1. pos < Len(queue) /\ pos' = 0 /\ UNCHANGED <<queue, cs, sent>>
    BY <1>9 DEF flush_cs_throws, LeaveLoop, streamVars
  <2>2. cs.buf \in Seq(Token) /\ cs.buf = residue \o SubSeq(queue, 1, pos)
    BY BufferSplits
  <2>3. residue' = cs.buf
    <3>1. Len(cs.buf) - pos' = Len(cs.buf)
      BY <2>1, <2>2
    <3>. QED
      BY <2>1, <2>2, <3>1, SubSeqFull DEF residue
  <2>4. pos \in 0 .. Len(queue) - 1
    BY <2>1 DEF IInv, TypeOK
  <2>5. Promise!Break(pos)
    BY <2>1, <2>2, <2>3 DEF Promise!Break
  <2>. QED
    BY <2>4, <2>5 DEF Promise!Next
<1>10. CASE flush_cs_end
  <2>1. /\ EmitAndErase /\ pos = Len(queue) /\ queue' = <<>> /\ pos' = 0
        /\ cs' = EmptyCS
    BY <1>10 DEF flush_cs_end, LoopDone, LeaveLoop, Erase, EmitAndErase
  <2>2. SubSeq(queue, 1, pos) = queue
    BY <2>1, SubSeqFull DEF IInv, TypeOK
  <2>3. cs.buf = residue \o queue
    BY <2>2, BufferSplits
  <2>4. Promise!Submit(residue \o queue)
    BY <2>1, <2>3, SubmitMaps DEF Promise!Submit
  <2>5. residue' = <<>>
    BY <2>1, EmptyResidue
  <2>. QED
    BY <2>1, <2>4, <2>5 DEF Promise!Next, Promise!Flush
<1>11. CASE UNCHANGED vars
  BY <1>11 DEF vars, residue
<1>. QED
  BY <1>1, <1>2, <1>3, <1>4, <1>5, <1>6, <1>7, <1>8, <1>9, <1>10, <1>11
     DEF Next, space_check, flush_cs

\* Batches reach the kernel whole and in the order they were written, and a
\* failed flush leaves exactly a prefix of its batch behind.
THEOREM Refinement == Spec => KeepsPromise
<1>1. Init => Promise!Init
  <2>. SUFFICES ASSUME Init PROVE Promise!Init
    OBVIOUS
  <2>1. cs.buf = <<>> /\ Len(cs.buf) - pos = 0
    BY DEF Init, EmptyCS
  <2>2. residue = <<>>
    BY <2>1, SubSeqEmpty DEF residue
  <2>. QED
    BY <2>2 DEF Init, Promise!Init
<1>2. IInv /\ [Next]_vars => [Promise!Next]_(Promise!vars)
  BY StepMaps
<1>. QED
  BY <1>1, <1>2, Invariance, PTL DEF Spec, KeepsPromise, Promise!Spec

-----------------------------------------------------------------------------
(* The flush callback.                                                     *)

\* The kernel is sent exactly the queue, and by a flush alone: the callback
\* inside space_check has nothing to send.
THEOREM OnlyFlushSubmitsCorrect == Spec => OnlyFlushSubmits
<1>1. ASSUME IInv, [Next]_vars, sent' # sent, ~ broken
      PROVE  pc = "emit" /\ sent' = Append(sent, queue)
  <2>1. CASE EmitAndErase /\ pc = "idle"
    <3>1. cs.buf = <<>>
      BY <1>1, <2>1 DEF IInv, NothingLeftOver, EmptyCS
    <3>. QED
      BY <1>1, <2>1, <3>1, SubmitMaps
  <2>2. CASE flush_cs_end
    <3>1. EmitAndErase /\ pc = "emit" /\ pos = Len(queue)
      BY <2>2 DEF flush_cs_end, LoopDone
    <3>2. /\ queue \in Seq(Token) /\ cs.buf \in Seq(Token)
          /\ Len(cs.buf) = pos
          /\ \A i \in 1 .. pos : cs.buf[Len(cs.buf) - pos + i] = queue[i]
      BY <1>1, <3>1 DEF IInv, TypeOK, CS, BufferTail, SectionFilled
    <3>3. ASSUME NEW i \in 1 .. Len(cs.buf) PROVE cs.buf[i] = queue[i]
      <4>1. Len(cs.buf) - pos + i = i /\ i \in 1 .. pos
        BY <3>2
      <4>. QED
        BY <3>2, <4>1
    <3>4. cs.buf = queue
      BY <3>1, <3>2, <3>3, SeqEqual
    <3>. QED
      BY <1>1, <3>1, <3>4, SubmitMaps
  <2>3. (EmitAndErase /\ pc = "idle") \/ flush_cs_end \/ sent' = sent
    BY <1>1 DEF Next, vars, write_dword, reloc, add_persistent_bo, cs_erase,
       move, destroy, space_check, space_check_fits, space_check_flushes,
       space_check_throws_at_once, space_check_throws_after_flush,
       space_check_aborts, space_check_crashes, FlushCallback, flush_cs,
       flush_cs_begin, flush_cs_dword, flush_cs_reloc, flush_cs_throws,
       flush_cs_aborts, libdrmVars
  <2>. QED
    BY <1>1, <2>1, <2>2, <2>3
<1>2. IInv /\ [Next]_vars
        => [sent' # sent /\ ~ broken
              => pc = "emit" /\ sent' = Append(sent, queue)]_vars
  BY <1>1
<1>. QED
  BY <1>2, Invariance, PTL DEF Spec, OnlyFlushSubmits

\* What is queued is lost by cs_erase, or when a flush ends with every token
\* of it in libdrm's buffer; checks and relocation errors keep it.
THEOREM QueueKeptCorrect == Spec => QueueKept
<1> DEFINE Kept == Len(queue) <= Len(queue') /\ SubSeq(queue', 1, Len(queue)) = queue
<1>1. ASSUME IInv, [Next]_vars
      PROVE  Kept \/ cs_erase \/ (pc = "emit" /\ AllCopied)
  <2>0. queue \in Seq(Token) /\ Len(queue) \in Nat /\ cs.buf \in Seq(Token)
    BY <1>1 DEF IInv, TypeOK, CS
  <2>1. CASE queue' = queue
    BY <2>0, <2>1, SubSeqFull
  <2>2. CASE \E t \in Token : queue' = Append(queue, t)
    <3>1. PICK t \in Token : queue' = Append(queue, t)
      BY <2>2
    <3>2. /\ queue' \in Seq(Token) /\ Len(queue') = Len(queue) + 1
          /\ \A i \in 1 .. Len(queue) : queue'[i] = queue[i]
      BY <2>0, <3>1, AppendProperties
    <3>3. /\ SubSeq(queue', 1, Len(queue)) \in Seq(Token)
          /\ Len(SubSeq(queue', 1, Len(queue))) = Len(queue)
          /\ \A i \in 1 .. Len(queue) : SubSeq(queue', 1, Len(queue))[i] = queue'[i]
      BY <2>0, <3>2, SubSeqProperties
    <3>4. SubSeq(queue', 1, Len(queue)) = queue
      BY <2>0, <3>2, <3>3, SeqEqual
    <3>. QED
      BY <2>0, <3>2, <3>4
  <2>3. CASE flush_cs_end
    <3>1. pc = "emit" /\ pos = Len(queue)
      BY <2>3 DEF flush_cs_end, LoopDone
    <3> DEFINE n == Len(queue)
               b == cs.buf
               s == SubSeq(b, Len(b) - n + 1, Len(b))
    <3>2. /\ n \in Nat /\ Len(b) \in Nat /\ n <= Len(b)
          /\ \A i \in 1 .. n : b[Len(b) - n + i] = queue[i]
      BY <1>1, <2>0, <3>1 DEF IInv, BufferTail
    <3>3. /\ s \in Seq(Token) /\ Len(s) = n
          /\ \A i \in 1 .. n : s[i] = b[Len(b) - n + i]
      <4>1. \A i \in Len(b) - n + 1 .. Len(b) : b[i] \in Token
        BY <2>0, <3>2, ElementOfSeq
      <4>2. /\ s \in Seq(Token)
            /\ Len(s) = IF Len(b) - n + 1 <= Len(b) THEN Len(b) - (Len(b) - n + 1) + 1 ELSE 0
            /\ \A i \in 1 .. Len(b) - (Len(b) - n + 1) + 1 : s[i] = b[Len(b) - n + 1 + i - 1]
        BY <3>2, <4>1, SubSeqProperties
      <4>. QED
        BY <3>2, <4>2
    <3>. HIDE DEF s
    <3>4. Len(s) = Len(queue) /\ \A i \in 1 .. Len(s) : s[i] = queue[i]
      BY <3>2, <3>3
    <3>5. s = queue
      BY <2>0, <3>3, <3>4, SeqEqual
    <3>. QED
      BY <3>1, <3>2, <3>5 DEF AllCopied, s
  <2>4. \/ queue' = queue
        \/ \E t \in Token : queue' = Append(queue, t)
        \/ cs_erase
        \/ flush_cs_end
    <3>1. ASSUME NEW d \in Dword, write_dword(d)
          PROVE  \E t \in Token : queue' = Append(queue, t)
      BY <3>1 DEF write_dword, Token, Dw
    <3>2. ASSUME NEW b \in BO, NEW a \in Access \cup {BadAccess}, reloc(b, a)
          PROVE  \E t \in Token : queue' = Append(queue, t)
      BY <3>2 DEF reloc, Token, Reloc
    <3>. QED
      BY <1>1, <3>1, <3>2 DEF Next, vars, add_persistent_bo, move, destroy,
         space_check, space_check_fits, space_check_flushes,
         space_check_throws_at_once, space_check_throws_after_flush,
         space_check_aborts, space_check_crashes, FlushCallback, flush_cs,
         flush_cs_begin, flush_cs_dword, flush_cs_reloc, flush_cs_throws,
         flush_cs_aborts, streamVars
  <2>. QED
    BY <2>1, <2>2, <2>3, <2>4
<1>2. IInv /\ [Next]_vars => [Kept \/ cs_erase \/ (pc = "emit" /\ AllCopied)]_vars
  BY <1>1
<1>. QED
  BY <1>2, Invariance, PTL DEF Spec, QueueKept

-----------------------------------------------------------------------------
(* Every object a batch relocates is on libdrm's list: the pointers that   *)
(* space_check passed on and those that cs_emit relocates are two queues   *)
(* the caller fills, and libdrm's accounting is what ties them together.   *)

Known(b, list) == \E e \in list : e.bo = b

\* Only what was listed is accounted for.
AccountedKnown == \A b \in BO : acct[b] # NoDomain => Known(b, space)

\* libdrm's buffer relocates only what was listed.
BufferKnown ==
  \A i \in DOMAIN cs.buf : IsReloc(cs.buf[i]) => Known(cs.buf[i].bo, space)

KnownInv == AccountedKnown /\ BufferKnown /\ BatchObjectsListed

-----------------------------------------------------------------------------

\* A listed object stays listed.
LEMMA KnownGrows ==
  ASSUME space \subseteq space', NEW b, Known(b, space)
  PROVE  Known(b, space')
  BY DEF Known

\* A check accounts for nothing but the list and what was accounted for.
LEMMA AccountedOfListed ==
  ASSUME NEW s, NEW a, NEW r \in Accounted(s, a), NEW b \in BO, r[b] # NoDomain
  PROVE  a[b] # NoDomain \/ \E e \in s : e.bo = b
<1> DEFINE doms == {e.acc.dom : e \in {x \in s : x.bo = b}}
<1>1. IF doms = {} THEN r[b] = a[b] ELSE r[b] \in doms
  BY DEF Accounted
<1>2. CASE doms = {}
  BY <1>1, <1>2
<1>3. CASE doms # {}
  BY <1>3
<1>. QED
  BY <1>2, <1>3

LEMMA ReleasedOfAccounted ==
  ASSUME NEW b \in BO, Released(acct, cs)[b] # NoDomain
  PROVE  acct[b] # NoDomain
  BY DEF Released

\* The accounting follows the list in every way a step changes the two.
LEMMA AccountingStep ==
  ASSUME AccountedKnown, space \subseteq space',
         \/ acct' = acct
         \/ acct' = Released(acct, cs)
         \/ acct' \in Accounted(space', acct)
         \/ acct' \in Accounted(space', Released(acct, cs))
  PROVE  AccountedKnown'
<1>. SUFFICES ASSUME NEW b \in BO, acct'[b] # NoDomain
              PROVE  Known(b, space')
  BY DEF AccountedKnown
<1>1. acct[b] # NoDomain \/ Released(acct, cs)[b] # NoDomain
        \/ \E e \in space' : e.bo = b
  BY AccountedOfListed
<1>2. CASE \E e \in space' : e.bo = b
  BY <1>2 DEF Known
<1>3. CASE acct[b] # NoDomain \/ Released(acct, cs)[b] # NoDomain
  <2>1. Known(b, space)
    BY <1>3, ReleasedOfAccounted DEF AccountedKnown
  <2>. QED
    BY <2>1, KnownGrows
<1>. QED
  BY <1>1, <1>2, <1>3

\* The buffer stays as it is, or a token of a listed object joins it.
LEMMA BufferStep ==
  ASSUME BufferKnown, space \subseteq space', TypeOK,
         \/ cs' = cs
         \/ cs' = EmptyCS
         \/ cs'.buf = cs.buf
         \/ \E t \in Token : /\ cs'.buf = Append(cs.buf, t)
                             /\ IsReloc(t) => Known(t.bo, space)
  PROVE  BufferKnown'
<1>1. ASSUME cs'.buf = cs.buf PROVE BufferKnown'
  BY <1>1, KnownGrows DEF BufferKnown
<1>2. ASSUME cs' = EmptyCS PROVE BufferKnown'
  BY <1>2 DEF BufferKnown, EmptyCS
<1>3. ASSUME NEW t \in Token, cs'.buf = Append(cs.buf, t), IsReloc(t) => Known(t.bo, space)
      PROVE  BufferKnown'
  <2>1. cs.buf \in Seq(Token)
    BY DEF TypeOK, CS
  <2>2. /\ Len(cs'.buf) = Len(cs.buf) + 1
        /\ DOMAIN cs'.buf = 1 .. Len(cs.buf) + 1
        /\ \A i \in 1 .. Len(cs.buf) : cs'.buf[i] = cs.buf[i]
        /\ cs'.buf[Len(cs.buf) + 1] = t
    BY <1>3, <2>1
  <2>3. ASSUME NEW i \in DOMAIN cs'.buf, IsReloc(cs'.buf[i])
        PROVE  Known(cs'.buf[i].bo, space')
    <3>1. CASE i \in 1 .. Len(cs.buf)
      <4>1. Known(cs.buf[i].bo, space) /\ cs'.buf[i] = cs.buf[i]
        BY <2>1, <2>2, <2>3, <3>1 DEF BufferKnown
      <4>. QED
        BY <4>1, KnownGrows
    <3>2. CASE i = Len(cs.buf) + 1
      <4>1. Known(t.bo, space) /\ cs'.buf[i] = t
        BY <1>3, <2>2, <2>3, <3>2
      <4>. QED
        BY <4>1, KnownGrows
    <3>. QED
      BY <2>1, <2>2, <3>1, <3>2
  <2>. QED
    BY <2>3 DEF BufferKnown
<1>. QED
  BY <1>1, <1>2, <1>3

\* What the kernel took stays listed, and a batch was libdrm's buffer before.
LEMMA SentStep ==
  ASSUME BatchObjectsListed, BufferKnown, space \subseteq space', TypeOK,
         sent' = sent \/ sent' \in Submitted(sent, cs.buf)
  PROVE  BatchObjectsListed'
<1>0. sent \in Seq(Seq(Token)) /\ cs.buf \in Seq(Token)
  BY DEF TypeOK, CS
<1>1. ASSUME NEW n \in DOMAIN sent, NEW i \in DOMAIN sent[n], IsReloc(sent[n][i])
      PROVE  Known(sent[n][i].bo, space')
  <2>1. Known(sent[n][i].bo, space)
    BY <1>1 DEF BatchObjectsListed, Known
  <2>. QED
    BY <2>1, KnownGrows
<1>2. CASE sent' = sent
  BY <1>1, <1>2 DEF BatchObjectsListed, Known
<1>3. CASE sent' = Append(sent, cs.buf)
  <2>1. /\ DOMAIN sent' = 1 .. Len(sent) + 1
        /\ \A n \in 1 .. Len(sent) : sent'[n] = sent[n]
        /\ sent'[Len(sent) + 1] = cs.buf
    BY <1>0, <1>3
  <2>2. ASSUME NEW i \in DOMAIN cs.buf, IsReloc(cs.buf[i])
        PROVE  Known(cs.buf[i].bo, space')
    <3>1. Known(cs.buf[i].bo, space)
      BY <2>2 DEF BufferKnown
    <3>. QED
      BY <3>1, KnownGrows
  <2>3. ASSUME NEW n \in DOMAIN sent', NEW i \in DOMAIN sent'[n], IsReloc(sent'[n][i])
        PROVE  Known(sent'[n][i].bo, space')
    <3>1. CASE n \in 1 .. Len(sent)
      BY <1>0, <1>1, <2>1, <2>3, <3>1
    <3>2. CASE n = Len(sent) + 1
      BY <2>1, <2>2, <2>3, <3>2
    <3>. QED
      BY <1>0, <2>1, <3>1, <3>2
  <2>. QED
    BY <2>3 DEF BatchObjectsListed, Known
<1>. QED
  BY <1>2, <1>3 DEF Submitted

-----------------------------------------------------------------------------

THEOREM InitKnown == Init => KnownInv
  BY DEF Init, KnownInv, AccountedKnown, BufferKnown, BatchObjectsListed,
         EmptyCS, Nowhere

LEMMA KnownStep ==
  ASSUME IInv, KnownInv, [Next]_vars
  PROVE  KnownInv'
<1>0. TypeOK /\ AccountedKnown /\ BufferKnown /\ BatchObjectsListed
  BY DEF IInv, KnownInv
<1>1. CASE \/ \E d \in Dword : write_dword(d)
           \/ \E b \in BO, a \in Access \cup {BadAccess} : reloc(b, a)
           \/ \E e \in Entry : add_persistent_bo(e)
           \/ cs_erase \/ move \/ destroy
           \/ space_check_aborts \/ flush_cs_throws \/ flush_cs_aborts
           \/ UNCHANGED vars
  <2>1. UNCHANGED <<cs, space, acct, sent>>
    BY <1>1 DEF write_dword, reloc, add_persistent_bo, cs_erase, move, destroy,
       space_check_aborts, flush_cs_throws, flush_cs_aborts, libdrmVars, vars
  <2>. QED
    BY <1>0, <2>1, AccountingStep, BufferStep, SentStep DEF KnownInv
<1>2. CASE space_check_fits \/ space_check_throws_at_once \/ space_check_crashes
  <2>1. /\ UNCHANGED <<cs, sent>>
        /\ space \subseteq space'
        /\ acct' = acct \/ acct' \in Accounted(space', acct)
    BY <1>2 DEF space_check_fits, space_check_throws_at_once, space_check_crashes,
       Listed
  <2>. QED
    BY <1>0, <2>1, AccountingStep, BufferStep, SentStep DEF KnownInv
<1>3. CASE space_check_flushes \/ space_check_throws_after_flush \/ flush_cs_end
  <2>1. /\ cs' = EmptyCS
        /\ sent' \in Submitted(sent, cs.buf)
        /\ space \subseteq space'
        /\ \/ acct' = Released(acct, cs)
           \/ acct' \in Accounted(space', Released(acct, cs))
    BY <1>3 DEF space_check_flushes, space_check_throws_after_flush, flush_cs_end,
       FlushCallback, EmitAndErase, Listed
  <2>. QED
    BY <1>0, <2>1, AccountingStep, BufferStep, SentStep DEF KnownInv
<1>4. CASE flush_cs_begin
  <2>1. UNCHANGED <<space, acct, sent>> /\ cs' = Begin(cs, SectionDwords)
    BY <1>4 DEF flush_cs_begin
  <2>2. cs'.buf = cs.buf
    <3>1. cs \in CS /\ SectionDwords \in Nat
      BY <1>0 DEF TypeOK, SectionDwords
    <3>. QED
      BY <2>1, <3>1, BeginType
  <2>. QED
    BY <1>0, <2>1, <2>2, AccountingStep, BufferStep, SentStep DEF KnownInv
<1>5. CASE flush_cs_dword \/ flush_cs_reloc
  <2>1. /\ UNCHANGED <<space, acct, sent>>
        /\ pos < Len(queue)
        /\ cs' = WriteDword(cs, Current) \/ cs' = WriteReloc(cs, Current)
        /\ IsReloc(Current) => acct[Current.bo] # NoDomain
    BY <1>5 DEF flush_cs_dword, flush_cs_reloc
  <2>2. Current \in Token
    BY <1>0, <2>1, PrefixGrows DEF TypeOK, Current
  <2>3. cs'.buf = Append(cs.buf, Current)
    BY <1>0, <2>1 DEF TypeOK, WriteDword, WriteReloc, CS
  <2>4. IsReloc(Current) => Known(Current.bo, space)
    BY <1>0, <2>1, <2>2 DEF AccountedKnown, Token, Dw, Reloc, IsReloc
  <2>. QED
    BY <1>0, <2>1, <2>2, <2>3, <2>4, AccountingStep, BufferStep, SentStep DEF KnownInv
<1>. QED
  BY <1>1, <1>2, <1>3, <1>4, <1>5 DEF Next, space_check, flush_cs

\* Every object a batch relocates is listed by libdrm, whatever the caller
\* registered, in whatever order, and whichever checks and flushes failed.
THEOREM BatchObjectsListedCorrect == Spec => []BatchObjectsListed
<1>1. IInv /\ KnownInv /\ [Next]_vars => KnownInv'
  BY KnownStep
<1>2. KnownInv => BatchObjectsListed
  BY DEF KnownInv
<1>. QED
  BY <1>1, <1>2, InitKnown, Invariance, PTL DEF Spec
=============================================================================
