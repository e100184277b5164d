-------------------------- MODULE ComputeJobProofs --------------------------
(***************************************************************************)
(* Theorems about ComputeJob, for every set of objects, shaders and homes, *)
(* and every bound.                                                        *)
(***************************************************************************)
EXTENDS ComputeJob, CmdStreamProofs

-----------------------------------------------------------------------------
(* The operators.                                                          *)

\* A member that no other one exceeds is the maximum.
LEMMA MaxIs ==
  ASSUME NEW S \in SUBSET Nat, NEW n \in S, \A m \in S : m <= n
  PROVE  Max(S) = n
<1>1. \A x \in S : (\A y \in S : x >= y) <=> x = n
  OBVIOUS
<1>. QED
  BY <1>1 DEF Max

\* Positions of a sequence have a maximum: the least bound of theirs is one
\* of them.
LEMMA MaxExists ==
  ASSUME NEW n \in Nat, NEW S \in SUBSET (1 .. n), S # {}
  PROVE  /\ Max(S) \in S
         /\ \A m \in S : m <= Max(S)
<1> DEFINE T == {u \in Nat : \A m \in S : m <= u}
<1>1. T \subseteq Nat /\ n \in T
  OBVIOUS
<1>2. PICK u \in T : \A v \in T : ~ (<<v, u>> \in OpToRel(<, Nat))
  BY <1>1, NatLessThanWellFounded, WFMin
<1>3. \A v \in T : ~ (v < u)
  BY <1>2 DEF OpToRel
<1>4. u \in Nat /\ \A m \in S : m <= u
  BY <1>2
<1>5. u \in S
  <2>. SUFFICES ASSUME u \notin S PROVE FALSE
    OBVIOUS
  <2>0. PICK k \in S : TRUE
    OBVIOUS
  <2>1. u > 0 /\ u - 1 \in Nat
    BY <1>4, <2>0
  <2>2. \A m \in S : m <= u - 1
    BY <1>4, <2>1
  <2>. QED
    BY <1>3, <2>1, <2>2
<1>6. Max(S) = u
  BY <1>4, <1>5, MaxIs
<1>. QED
  BY <1>4, <1>5, <1>6

\* Two runs of tokens have the relocations of both.
LEMMA NumRelocsConcat ==
  ASSUME NEW s \in Seq(Token), NEW t \in Seq(Token)
  PROVE  NumRelocs(s \o t) = NumRelocs(s) + NumRelocs(t)
<1> DEFINE n == Len(s)
           S == {i \in DOMAIN s : IsReloc(s[i])}
           T == {i \in DOMAIN t : IsReloc(t[i])}
           U == {i \in DOMAIN (s \o t) : IsReloc((s \o t)[i])}
           shifted == {n + i : i \in T}
           f == [i \in T |-> n + i]
<1>1. /\ n \in Nat /\ Len(t) \in Nat
      /\ DOMAIN s = 1 .. n /\ DOMAIN t = 1 .. Len(t)
      /\ DOMAIN (s \o t) = 1 .. n + Len(t)
      /\ \A i \in 1 .. n : (s \o t)[i] = s[i]
      /\ \A i \in 1 .. Len(t) : (s \o t)[n + i] = t[i]
  OBVIOUS
<1>2. IsFiniteSet(S) /\ IsFiniteSet(T)
  BY NumRelocsType
<1>3. U = S \cup shifted
  <2>1. ASSUME NEW i \in U PROVE i \in S \cup shifted
    <3>1. CASE i <= n
      BY <1>1, <3>1
    <3>2. CASE ~ (i <= n)
      <4>1. i - n \in 1 .. Len(t) /\ n + (i - n) = i
        BY <1>1, <3>2
      <4>2. i - n \in T
        BY <1>1, <4>1
      <4>. QED
        BY <4>1, <4>2
    <3>. QED
      BY <3>1, <3>2
  <2>2. ASSUME NEW i \in S PROVE i \in U
    BY <1>1
  <2>3. ASSUME NEW i \in T PROVE n + i \in U
    BY <1>1
  <2>. QED
    BY <2>1, <2>2, <2>3
<1>4. IsFiniteSet(shifted) /\ Cardinality(shifted) = Cardinality(T)
  <2>1. f \in Bijection(T, shifted)
    BY <1>1 DEF Bijection, Injection, Surjection, IsInjective
  <2>2. ExistsBijection(T, shifted)
    BY <2>1 DEF ExistsBijection
  <2>. QED
    BY <1>2, <2>2, FS_Bijection
<1>5. S \cap shifted = {}
  BY <1>1
<1>. HIDE DEF S, T, U, shifted
<1>6. Cardinality(U) = Cardinality(S) + Cardinality(shifted) - Cardinality({})
  BY <1>2, <1>3, <1>4, <1>5, FS_Union
<1>7. Cardinality({}) = 0 /\ Cardinality(S) \in Nat /\ Cardinality(T) \in Nat
  BY <1>2, FS_EmptySet, FS_CardinalityType
<1>8. /\ NumRelocs(s) = Cardinality(S)
      /\ NumRelocs(t) = Cardinality(T)
      /\ NumRelocs(s \o t) = Cardinality(U)
  BY DEF NumRelocs, S, T, U
<1>. QED
  BY <1>4, <1>6, <1>7, <1>8

-----------------------------------------------------------------------------
(* The stream's invariant holds of what r800_state makes of it.            *)

AnyDomain == [dom : Domain, write : BOOLEAN]

LEMMA TokenType ==
  /\ \A r \in Register : Write(r) \in Token /\ ~ IsReloc(Write(r))
  /\ \A b \in BO, a \in AnyDomain :
       /\ Relocate(b, a) \in Token /\ IsReloc(Relocate(b, a))
       /\ Register_bo(b, a) \in Entry
  BY RegisterAssumption, AnyAccessAssumption
     DEF Write, Relocate, Register_bo, Token, Dw, Reloc, Entry, IsReloc, AnyDomain

LEMMA IssueStep ==
  ASSUME IInv, NEW ts \in Seq(Token), NEW es \in Seq(Entry), Issue(ts, es)
  PROVE  IInv'
<1>1. /\ queue \in Seq(Token) /\ pers_bos \in Seq(Entry)
      /\ reloc_num = NumRelocs(queue)
  BY DEF IInv, TypeOK, RelocNumExact
<1>2. /\ queue' \in Seq(Token) /\ pers_bos' \in Seq(Entry)
      /\ reloc_num' = NumRelocs(queue') /\ reloc_num' \in Nat
  <2>1. queue' = queue \o ts /\ pers_bos' = pers_bos \o es
        /\ reloc_num' = reloc_num + NumRelocs(ts)
    BY DEF Issue
  <2>2. queue \o ts \in Seq(Token) /\ pers_bos \o es \in Seq(Entry)
    BY <1>1
  <2>3. NumRelocs(queue \o ts) = NumRelocs(queue) + NumRelocs(ts)
    BY <1>1, NumRelocsConcat
  <2>. QED
    BY <1>1, <2>1, <2>2, <2>3, NumRelocsType
<1>3. pc' = "idle" /\ pos' = 0 /\ UNCHANGED <<callback, cs, space, acct, sent, broken>>
  BY DEF Issue, flushVars, libdrmVars, IInv, IdleAtStart
<1>4. TypeOK'
  BY <1>2, <1>3 DEF IInv, TypeOK
<1>5. RelocNumExact' /\ NothingLeftOver'
  BY <1>2, <1>3 DEF Issue, IInv, NothingLeftOver, RelocNumExact
<1>. QED
  BY <1>3, <1>4, <1>5, IdleStep

LEMMA InitGpuStep == ASSUME IInv, init_gpu PROVE IInv'
<1>1. /\ queue' = <<Write("default")>> /\ reloc_num' = 0 /\ pers_bos' = <<>>
      /\ pc' = "idle" /\ pos' = 0 /\ UNCHANGED <<callback, cs, space, acct, sent, broken>>
  BY DEF init_gpu, flushVars, libdrmVars, IInv, IdleAtStart
<1>2. Write("default") \in Token /\ ~ IsReloc(Write("default"))
  BY TokenType DEF Register
<1>3. queue' \in Seq(Token) /\ pers_bos' \in Seq(Entry) /\ 0 \in 0 .. Len(queue')
  BY <1>1, <1>2
<1>4. TypeOK'
  BY <1>1, <1>3 DEF IInv, TypeOK
<1>5. RelocNumExact'
  <2>1. queue' = Append(<<>>, Write("default"))
    BY <1>1
  <2>2. NumRelocs(queue') = NumRelocs(<<>>)
    BY <1>2, <2>1, EmptySeq, NumRelocsAppend
  <2>. QED
    BY <1>1, <2>2, NumRelocsEmpty DEF RelocNumExact
<1>6. NothingLeftOver'
  BY <1>1 DEF init_gpu, IInv, NothingLeftOver
<1>. QED
  BY <1>1, <1>4, <1>5, <1>6, IdleStep

-----------------------------------------------------------------------------
(* What the operations queue.                                              *)

\* A run of tokens that relocates no object but b, names none of the other
\* registers, and last of all gives r its object.
Commands(ts, r, b, a) ==
  /\ ts \in Seq(Token) /\ Len(ts) > 0
  /\ \A i \in DOMAIN ts : ts[i] # Write("dispatch")
  /\ \A i \in DOMAIN ts : IsReloc(ts[i]) => ts[i] = Relocate(b, a)
  /\ \A q \in Bound : Naming(ts, q) = IF q = r THEN {Len(ts)} ELSE {}
  /\ r \in Bound => ts[Len(ts)] = Relocate(b, a)
  /\ ~ IsReloc(ts[1])

LEMMA CommandsAlone ==
  ASSUME NEW r \in Register \ (Bound \cup {"dispatch"}), NEW b \in BO, NEW a \in AnyDomain
  PROVE  Commands(<<Write(r)>>, r, b, a)
<1>1. Write(r) \in Token /\ ~ IsReloc(Write(r))
  BY TokenType
<1>. QED
  BY <1>1 DEF Commands, Naming, Write

LEMMA CommandsPair ==
  ASSUME NEW r \in Register \ {"dispatch"}, NEW b \in BO, NEW a \in AnyDomain
  PROVE  Commands(<<Write(r), Relocate(b, a)>>, r, b, a)
<1> DEFINE x == Relocate(b, a)
           ts == <<Write(r), x>>
<1>1. /\ Write(r) \in Token /\ ~ IsReloc(Write(r)) /\ x \in Token /\ IsReloc(x)
      /\ Write(r) # Write("dispatch") /\ ~ IsReloc(Write("dispatch"))
      /\ \A q \in Bound : Write(r) = Write(q) <=> q = r
  BY TokenType DEF Write, Register
<1>. HIDE DEF x
<1>2. ts \in Seq(Token) /\ Len(ts) = 2 /\ ts[1] = Write(r) /\ ts[2] = x /\ DOMAIN ts = {1, 2}
  BY <1>1
<1>. HIDE DEF ts
<1>3. \A q \in Bound : Naming(ts, q) = IF q = r THEN {2} ELSE {}
  BY <1>1, <1>2 DEF Naming
<1>4. Commands(ts, r, b, a)
  BY <1>1, <1>2, <1>3 DEF Commands, x
<1>. QED
  BY <1>4 DEF ts, x

LEMMA CommandsSynced ==
  ASSUME NEW r \in Register \ {"dispatch", "sync"}, NEW b \in BO, NEW a \in AnyDomain
  PROVE  Commands(<<Write("sync"), Relocate(b, a), Write(r), Relocate(b, a)>>, r, b, a)
<1> DEFINE x == Relocate(b, a)
           ts == <<Write("sync"), x, Write(r), x>>
<1>1. /\ Write(r) \in Token /\ ~ IsReloc(Write(r)) /\ x \in Token /\ IsReloc(x)
      /\ Write("sync") \in Token /\ ~ IsReloc(Write("sync"))
      /\ Write(r) # Write("dispatch") /\ ~ IsReloc(Write("dispatch"))
      /\ Write("sync") # Write("dispatch")
      /\ \A q \in Bound : Write(r) = Write(q) <=> q = r
      /\ \A q \in Bound : Write("sync") # Write(q) /\ x # Write(q)
  BY TokenType DEF Write, Register, Bound, Relocate
<1>. HIDE DEF x
<1>2. /\ ts \in Seq(Token) /\ Len(ts) = 4 /\ DOMAIN ts = 1 .. 4
      /\ ts[1] = Write("sync") /\ ts[2] = x /\ ts[3] = Write(r) /\ ts[4] = x
  BY <1>1
<1>. HIDE DEF ts
<1>3. \A q \in Bound : Naming(ts, q) = IF q = r THEN {4} ELSE {}
  BY <1>1, <1>2 DEF Naming
<1>4. Commands(ts, r, b, a)
  BY <1>1, <1>2, <1>3 DEF Commands, x
<1>. QED
  BY <1>4 DEF ts, x

\* What a setter queues and registers: an object it relocates is registered.
Call(b, r, a, ts, es) ==
  /\ Commands(ts, r, b, a) /\ r # "shader"
  /\ es \in Seq(Entry)
  /\ es = <<>> \/ (es = <<Register_bo(b, a)>> /\ a.dom \in Home[b])
  /\ \A i \in DOMAIN ts : IsReloc(ts[i]) => es # <<>>

LEMMA SetterCalls ==
  ASSUME NEW b \in Buffer, set_job(b)
  PROVE  \E r \in Register, a \in AnyDomain : \E ts, es :
           Call(b, r, a, ts, es) /\ Setter(r, b, Issue(ts, es))
<1> DEFINE Goal == \E r \in Register, a \in AnyDomain : \E ts, es :
                     Call(b, r, a, ts, es) /\ Setter(r, b, Issue(ts, es))
           synced(r, a) == <<Write("sync"), Relocate(b, a), Write(r), Relocate(b, a)>>
<1>0. /\ b \in BO
      /\ \A d \in Domain : Reading(d) \in AnyDomain /\ Writing(d) \in AnyDomain
      /\ \A d \in Domain : Reading(d).dom = d /\ Writing(d).dom = d
      /\ "vram" \in Domain /\ Home[b] \subseteq Domain
  BY HomeAssumption DEF Buffer, Reading, Writing, AnyDomain, Domain
<1>1. \A a \in AnyDomain : /\ <<Register_bo(b, a)>> \in Seq(Entry)
                           /\ <<Register_bo(b, a)>> # <<>>
  BY <1>0, TokenType
<1>2. ASSUME NEW d \in Home[b], Setter("fetch", b, set_vtx_resource(b, d))
      PROVE  Goal
  <2> DEFINE a == Reading(d)
             es == <<Register_bo(b, a)>>
  <2>1. Call(b, "fetch", a, synced("fetch", a), es)
    BY <1>0, <1>1, CommandsSynced DEF Call, Register
  <2>2. Setter("fetch", b, Issue(synced("fetch", a), es))
    BY <1>2 DEF Setter, set_vtx_resource
  <2>. QED
    BY <1>0, <2>1, <2>2 DEF Register
<1>3. ASSUME NEW d \in Home[b], Setter("rat", b, set_rat(b, d))
      PROVE  Goal
  <2> DEFINE a == Writing(d)
             ts == <<Write("rat"), Relocate(b, a)>>
             es == <<Register_bo(b, a)>>
  <2>1. Call(b, "rat", a, ts, es)
    BY <1>0, <1>1, CommandsPair DEF Call, Register
  <2>2. Setter("rat", b, Issue(ts, es))
    BY <1>3 DEF Setter, set_rat
  <2>. QED
    BY <1>0, <2>1, <2>2 DEF Register
<1>4. ASSUME "vram" \in Home[b], Setter("const", b, setup_const_cache(b))
      PROVE  Goal
  <2> DEFINE a == Reading("vram")
             es == <<Register_bo(b, a)>>
  <2>1. Call(b, "const", a, synced("const", a), es)
    BY <1>0, <1>1, <1>4, CommandsSynced DEF Call, Register
  <2>2. Setter("const", b, Issue(synced("const", a), es))
    BY <1>4 DEF Setter, setup_const_cache
  <2>. QED
    BY <1>0, <2>1, <2>2 DEF Register
<1>5. ASSUME "vram" \in Home[b], Setter("ring", b, set_tmp_ring(b))
      PROVE  Goal
  <2> DEFINE a == Reading("vram")
             ts == <<Write("ring"), Relocate(b, a)>>
             es == <<Register_bo(b, a)>>
  <2>1. Call(b, "ring", a, ts, es)
    BY <1>0, <1>1, <1>5, CommandsPair DEF Call, Register
  <2>2. Setter("ring", b, Issue(ts, es))
    BY <1>5 DEF Setter, set_tmp_ring
  <2>. QED
    BY <1>0, <2>1, <2>2 DEF Register
<1>6. ASSUME "vram" \in Home[b], NEW sized \in BOOLEAN,
             Setter("export", b, set_export(b, sized))
      PROVE  Goal
  <2> DEFINE a == Writing("vram")
             ts == IF sized THEN <<Write("export"), Relocate(b, a)>> ELSE <<Write("export")>>
             es == <<Register_bo(b, a)>>
  <2>2. Commands(ts, "export", b, a)
    BY <1>0, CommandsPair, CommandsAlone DEF Register, Bound
  <2>3. Call(b, "export", a, ts, es)
    BY <1>0, <1>1, <1>6, <2>2 DEF Call
  <2>4. Setter("export", b, Issue(ts, es))
    BY <1>6 DEF Setter, set_export
  <2>. QED
    BY <1>0, <2>3, <2>4 DEF Register
<1>7. ASSUME Setter("plain", b, set_registers)
      PROVE  Goal
  <2> DEFINE a == Reading("vram")
             ts == <<Write("plain")>>
  <2>1. Commands(ts, "plain", b, a) /\ ~ IsReloc(Write("plain"))
    BY <1>0, CommandsAlone, TokenType DEF Register, Bound
  <2>2. Call(b, "plain", a, ts, <<>>)
    BY <2>1, EmptySeq DEF Call
  <2>3. Setter("plain", b, Issue(ts, <<>>))
    BY <1>7 DEF Setter, set_registers
  <2>. QED
    BY <1>0, <2>2, <2>3 DEF Register
<1>. QED
  BY <1>2, <1>3, <1>4, <1>5, <1>6, <1>7 DEF set_job

-----------------------------------------------------------------------------
(* The steps of a program are steps of its stream.                         *)

\* Behind load_shader the program has asked for a shader.
ShaderAsked ==
  at \in {"check", "prepare", "dispatch", "flush", "flushed", "read"} =>
    asked["shader"] \in Shader

JobIInv == JobTypeOK /\ IInv /\ ShaderAsked

LEMMA StreamStep == ASSUME JobIInv, [JobNext]_jobVars PROVE IInv'
<1>0. IInv /\ TypeOK
  BY DEF JobIInv, IInv
<1>1. CASE construct
  BY <1>0, <1>1, InitGpuStep DEF construct
<1>2. CASE enter_main
  <2>1. <<Write("default")>> \in Seq(Token) /\ <<>> \in Seq(Entry)
    BY TokenType DEF Register
  <2>. QED
    BY <1>0, <1>2, <2>1, IssueStep DEF enter_main, set_default_state
<1>3. CASE \E b \in Buffer : set_job(b)
  <2>0. PICK b \in Buffer, r \in Register, a \in AnyDomain : \E ts, es :
               Call(b, r, a, ts, es) /\ Setter(r, b, Issue(ts, es))
    BY <1>3, SetterCalls
  <2>1. PICK ts, es :
               Call(b, r, a, ts, es) /\ Setter(r, b, Issue(ts, es))
    BY <2>0
  <2>2. ts \in Seq(Token) /\ es \in Seq(Entry) /\ Issue(ts, es)
    BY <2>1 DEF Call, Commands, Setter
  <2>. QED
    BY <1>0, <2>2, IssueStep
<1>4. CASE \E sh \in Shader : load_shader(sh)
  <2>1. PICK sh \in Shader : load_shader_register(sh)
    BY <1>4 DEF load_shader
  <2>2. Register_bo(sh, Reading("vram")) \in Entry
    BY ShaderAssumption, TokenType DEF Reading, AnyDomain, Domain
  <2>. QED
    BY <1>0, <2>1, <2>2, BuildStep DEF load_shader_register
<1>5. CASE load_shader_check
  <2>1. space_check
    BY <1>5 DEF load_shader_check, space_check
  <2>. QED
    BY <1>0, <2>1, SpaceCheckStep
<1>6. CASE load_shader_prepare
  <2> DEFINE b == asked["shader"]
             a == Reading("vram")
             ts == <<Write("sync"), Relocate(b, a), Write("shader"), Relocate(b, a)>>
  <2>1. b \in BO /\ a \in AnyDomain
    BY <1>6, ShaderAssumption DEF load_shader_prepare, JobIInv, ShaderAsked, Reading,
       AnyDomain, Domain
  <2>2. ts \in Seq(Token) /\ <<>> \in Seq(Entry)
    BY <2>1, CommandsSynced, EmptySeq DEF Commands, Register
  <2>3. Issue(ts, <<>>)
    BY <1>6 DEF load_shader_prepare, prepare_compute_shader
  <2>. QED
    BY <1>0, <2>2, <2>3, IssueStep
<1>7. CASE dispatch
  <2>1. <<Write("dispatch")>> \in Seq(Token) /\ <<>> \in Seq(Entry)
    BY TokenType DEF Register
  <2>. QED
    BY <1>0, <1>7, <2>1, IssueStep DEF dispatch, direct_dispatch
<1>8. CASE flush
  <2>1. flush_cs
    BY <1>8 DEF flush, flush_cs
  <2>. QED
    BY <1>0, <2>1, FlushStep
<1>9. CASE bo_wait \/ next_job \/ run_batch \/ UNCHANGED jobVars
  <2>1. UNCHANGED vars
    BY <1>9 DEF bo_wait, next_job, run_batch, jobVars
  <2>. QED
    BY <1>0, <2>1, StutterStep
<1>10. CASE return_from_main
  BY <1>0, <1>10, BuildStep DEF return_from_main
<1>. QED
  BY <1>1, <1>2, <1>3, <1>4, <1>5, <1>6, <1>7, <1>8, <1>9, <1>10
     DEF JobNext, Program

\* The kernel takes libdrm's buffer, and only in a check or a flush.
LEMMA SentGrows ==
  ASSUME [JobNext]_jobVars
  PROVE  \/ sent' = sent
         \/ /\ sent' = Append(sent, cs.buf)
            /\ load_shader_check \/ (flush /\ flush_cs_end)
<1>1. CASE load_shader_check
  BY <1>1 DEF load_shader_check, space_check_fits, space_check_flushes,
     space_check_throws_at_once, space_check_throws_after_flush,
     space_check_aborts, FlushCallback, EmitAndErase, Submitted, libdrmVars
<1>2. CASE flush
  BY <1>2 DEF flush, flush_cs_begin, flush_cs_dword, flush_cs_reloc, flush_cs_throws,
     flush_cs_aborts, flush_cs_end, EmitAndErase, Submitted, libdrmVars
<1>3. CASE \E b \in Buffer : set_job(b)
  BY <1>3, SetterCalls DEF Setter, Issue, libdrmVars
<1>. QED
  BY <1>1, <1>2, <1>3 DEF JobNext, Program, construct, enter_main, load_shader,
     load_shader_prepare, dispatch, bo_wait, next_job, return_from_main, run_batch,
     init_gpu, set_default_state, load_shader_register, add_persistent_bo,
     prepare_compute_shader, direct_dispatch, destroy, Issue, libdrmVars, vars, jobVars

-----------------------------------------------------------------------------
(* Types.                                                                  *)

Registers == [Bound -> BO \cup {Unset}]

\* The last of the first n tokens that names a register is a relocation.
LEMMA LastNamed ==
  ASSUME NEW s \in Seq(Token), NEW r, NEW n \in Nat, Naming(s, r) \cap 1 .. n # {}
  PROVE  LET i == Max(Naming(s, r) \cap 1 .. n)
         IN  /\ i \in Naming(s, r) /\ i <= n
             /\ \A j \in Naming(s, r) : j <= n => j <= i
             /\ s[i].bo \in BO
<1> DEFINE S == Naming(s, r) \cap 1 .. n
           i == Max(S)
<1>1. S \subseteq 1 .. n
  OBVIOUS
<1>2. i \in S /\ \A j \in S : j <= i
  BY <1>1, MaxExists
<1>3. i \in 2 .. Len(s) /\ IsReloc(s[i])
  BY <1>2 DEF Naming
<1>4. s[i] \in Token
  BY <1>3, ElementOfSeq
<1>5. s[i].bo \in BO
  BY <1>3, <1>4 DEF Token, Dw, Reloc, IsReloc
<1>6. \A j \in Naming(s, r) : j <= n => j \in S
  BY DEF Naming
<1>7. i \in Naming(s, r) /\ i <= n
  BY <1>1, <1>2
<1>. HIDE DEF i
<1>. QED
  BY <1>2, <1>5, <1>6, <1>7 DEF i

LEMMA RegsAfterType ==
  ASSUME NEW s \in Seq(Token), NEW n \in Nat, NEW rs \in Registers
  PROVE  RegsAfter(s, n, rs) \in Registers
<1>1. ASSUME NEW r \in Bound
      PROVE  LET named == Naming(s, r) \cap 1 .. n
             IN  (IF named = {} THEN rs[r] ELSE s[Max(named)].bo) \in BO \cup {Unset}
  BY LastNamed DEF Registers
<1>. QED
  BY <1>1 DEF RegsAfter, Registers

LEMMA DispatchedType ==
  ASSUME NEW s \in Seq(Token), NEW rs \in Registers, NEW m \in [BO -> Result]
  PROVE  Dispatched(s, rs, m) \in [BO -> Result]
<1>1. ASSUME NEW b \in BO, DispatchesTo(s, rs, b) # {}
      PROVE  LET by == RegsAfter(s, Max(DispatchesTo(s, rs, b)), rs)
             IN  [shader |-> by["shader"], fetch |-> by["fetch"], const |-> by["const"]]
                   \in Result
  <2> DEFINE n == Max(DispatchesTo(s, rs, b))
             by == RegsAfter(s, n, rs)
  <2>1. DispatchesTo(s, rs, b) \subseteq 1 .. Len(s) /\ Len(s) \in Nat
    BY DEF DispatchesTo
  <2>2. n \in Nat
    <3>1. n \in DispatchesTo(s, rs, b)
      BY <1>1, <2>1, MaxExists
    <3>. QED
      BY <2>1, <3>1
  <2>3. by \in Registers
    BY <2>2, RegsAfterType
  <2>. HIDE DEF by
  <2>4. [shader |-> by["shader"], fetch |-> by["fetch"], const |-> by["const"]] \in Result
    BY <2>3 DEF Registers, Bound, Result
  <2>. QED
    BY <2>4 DEF by
<1>. QED
  BY <1>1 DEF Dispatched

THEOREM InitJob == JobInit => JobIInv
<1>. SUFFICES ASSUME JobInit PROVE JobIInv
  OBVIOUS
<1>1. IInv
  BY InitIInv DEF JobInit
<1>2. /\ sent = <<>> /\ done = 0 /\ jobs = 0 /\ sets = 0
      /\ MaxJobs \in Nat /\ MaxSets \in Nat
  BY JobAssumption DEF JobInit, Init
<1>3. done \in 0 .. Len(sent) /\ jobs \in 0 .. MaxJobs /\ sets \in 0 .. MaxSets
  BY <1>2
<1>4. JobTypeOK
  BY <1>1, <1>3 DEF JobInit, IInv, JobTypeOK, Result, Blank
<1>. QED
  BY <1>1, <1>4 DEF JobIInv, ShaderAsked, JobInit

LEMMA JobStep == ASSUME JobIInv, [JobNext]_jobVars PROVE JobIInv'
<1>0. JobTypeOK /\ IInv /\ ShaderAsked
  BY DEF JobIInv
<1>1. IInv'
  BY StreamStep
<1>2. Shader \subseteq BO /\ Buffer \subseteq BO /\ MaxJobs \in Nat /\ MaxSets \in Nat
  BY ShaderAssumption, JobAssumption DEF Buffer
<1>3. at' \in {"new", "main", "setting", "check", "prepare", "dispatch", "flush",
               "flushed", "read"} \cup Ended
  <2>1. UNCHANGED at \/ at' \in {"main", "setting", "check", "prepare", "no_memory",
          "aborted", "dispatch", "flush", "flushed", "uncaught", "read", "returned"}
    <3>1. CASE \E b \in Buffer : set_job(b)
      BY <3>1, SetterCalls DEF Setter
    <3>. QED
      BY <3>1 DEF JobNext, Program, construct, enter_main, load_shader, load_shader_check,
       load_shader_prepare, dispatch, flush, bo_wait, next_job, return_from_main,
       run_batch, progVars, jobVars, Goto
  <2>. QED
    BY <1>0, <2>1 DEF JobTypeOK, Ended
<1>4. /\ jobs' \in 0 .. MaxJobs /\ sets' \in 0 .. MaxSets
      /\ asked' \in Registers
      /\ lost' \in BOOLEAN
      /\ ShaderAsked'
  <2>0. /\ jobs \in 0 .. MaxJobs /\ sets \in 0 .. MaxSets
        /\ asked \in Registers /\ lost \in BOOLEAN
    BY <1>0 DEF JobTypeOK, Registers
  <2>1. CASE \E b \in Buffer : set_job(b)
    <3>0. PICK b \in Buffer, r \in Register, a \in AnyDomain : \E ts, es :
                 Call(b, r, a, ts, es) /\ Setter(r, b, Issue(ts, es))
      BY <2>1, SetterCalls
    <3>1. PICK ts, es :
                 Call(b, r, a, ts, es) /\ Setter(r, b, Issue(ts, es))
      BY <3>0
    <3>2. /\ UNCHANGED <<at, jobs, lost>> /\ sets' = sets + 1 /\ sets < MaxSets
          /\ asked' = IF r \in Bound THEN [asked EXCEPT ![r] = b] ELSE asked
          /\ r # "shader"
      BY <3>1 DEF Setter, Call
    <3>3. asked' \in Registers /\ asked'["shader"] = asked["shader"]
      BY <1>2, <2>0, <3>2 DEF Registers, Bound
    <3>. QED
      BY <1>0, <1>2, <2>0, <3>2, <3>3 DEF ShaderAsked
  <2>2. CASE \E sh \in Shader : load_shader(sh)
    BY <1>2, <2>0, <2>2 DEF load_shader, Registers, Bound, ShaderAsked, Goto
  <2>3. CASE enter_main \/ next_job
    BY <1>2, <2>0, <2>3 DEF enter_main, next_job, Registers, Bound, ShaderAsked, Goto
  <2>4. CASE \/ construct \/ load_shader_check \/ load_shader_prepare \/ dispatch
             \/ bo_wait \/ return_from_main \/ run_batch \/ UNCHANGED jobVars
    BY <1>0, <2>0, <2>4 DEF construct, load_shader_check, load_shader_prepare, dispatch,
       bo_wait, return_from_main, run_batch, jobVars, progVars, ShaderAsked, Goto
  <2>5. CASE flush
    BY <1>0, <2>0, <2>5 DEF flush, ShaderAsked, Goto
  <2>. QED
    BY <2>1, <2>2, <2>3, <2>4, <2>5 DEF JobNext, Program
<1>5. done' \in 0 .. Len(sent') /\ regs' \in Registers /\ mem' \in [BO -> Result]
  <2>0. /\ done \in 0 .. Len(sent) /\ sent \in Seq(Seq(Token))
        /\ regs \in Registers /\ mem \in [BO -> Result] /\ cs.buf \in Seq(Token)
    BY <1>0 DEF JobTypeOK, TypeOK, Registers, CS
  <2>1. CASE run_batch
    <3>1. done + 1 \in DOMAIN sent /\ UNCHANGED sent /\ done' = done + 1
      BY <2>0, <2>1 DEF run_batch, vars
    <3>2. sent[done + 1] \in Seq(Token) /\ Len(sent[done + 1]) \in Nat
      BY <2>0, <3>1
    <3>. QED
      BY <2>0, <2>1, <3>1, <3>2, RegsAfterType, DispatchedType DEF run_batch
  <2>2. CASE ~ run_batch
    <3>1. UNCHANGED cardVars
      <4>1. CASE \E b \in Buffer : set_job(b)
        BY <4>1, SetterCalls DEF Setter
      <4>. QED
        BY <2>2, <4>1 DEF JobNext, Program, construct, enter_main, load_shader, load_shader_check,
           load_shader_prepare, dispatch, flush, bo_wait, next_job, return_from_main,
           jobVars
    <3>2. Len(sent') \in Nat /\ Len(sent) <= Len(sent')
      BY <2>0, SentGrows
    <3>. QED
      BY <2>0, <3>1, <3>2 DEF cardVars
  <2>. QED
    BY <2>1, <2>2
<1>. QED
  BY <1>1, <1>3, <1>4, <1>5 DEF JobIInv, JobTypeOK, IInv, Registers

\* A program, its stream and the card keep their types.
THEOREM JobTypeCorrect == JobSpec => []JobTypeOK
<1>1. JobIInv => JobTypeOK
  BY DEF JobIInv
<1>. QED
  BY <1>1, InitJob, JobStep, PTL DEF JobSpec
-----------------------------------------------------------------------------
(* A careful program.                                                      *)

Careful ==
  /\ ~ Late
  /\ \A b \in Buffer : \A c, d \in Home[b] : c = d

\* Where an object belongs: prepare_compute_shader has its shader in VRAM.
Belongs(b, d) ==
  /\ d \in Domain
  /\ IF b \in Shader THEN d = "vram" ELSE d \in Home[b]

\* Every mention of an object, wherever it is by now, has its one domain.
OneDomain ==
  /\ \A i \in DOMAIN queue : IsReloc(queue[i]) => Belongs(queue[i].bo, queue[i].acc.dom)
  /\ \A i \in DOMAIN pers_bos : Belongs(pers_bos[i].bo, pers_bos[i].acc.dom)
  /\ \A e \in space : Belongs(e.bo, e.acc.dom)
  /\ \A b \in BO : acct[b] # NoDomain => Belongs(b, acct[b])
  /\ \A b \in BO : cs.domain[b] # NoDomain => Belongs(b, cs.domain[b])

\* Up to the check of load_shader all that is queued is registered or listed.
Registered ==
  /\ at \in {"new", "main", "setting", "check"} =>
       \A i \in DOMAIN queue : IsReloc(queue[i]) =>
         \E e \in Listed : e.bo = queue[i].bo
  /\ at = "check" => \E e \in Listed : e.bo = asked["shader"]

\* Behind it all that is queued is accounted for.
AccountedFor ==
  /\ at \in {"prepare", "dispatch", "flush"} =>
       \A i \in DOMAIN queue : IsReloc(queue[i]) => acct[queue[i].bo] # NoDomain
  /\ at = "prepare" => acct[asked["shader"]] # NoDomain

\* Nothing has gone wrong before, and a job begins with an empty queue.
Orderly ==
  /\ ~ broken
  /\ pc = "emit" => at = "flush"
  /\ at \in {"flushed", "read"} => queue = <<>>
  /\ at # "uncaught"
  /\ at = "aborted" => Cardinality(Listed) >= MaxSpaceBos

CarefulInv == OneDomain /\ Registered /\ AccountedFor /\ Orderly

LEMMA BelongsOnce ==
  ASSUME Careful, NEW b \in BO, NEW c, NEW d, Belongs(b, c), Belongs(b, d)
  PROVE  c = d
  BY DEF Careful, Belongs, Buffer

\* Queueing and registering objects where they belong keeps OneDomain.
LEMMA IssueBelongs ==
  ASSUME TypeOK, OneDomain, NEW ts \in Seq(Token), NEW es \in Seq(Entry), Issue(ts, es),
         \A i \in DOMAIN ts : IsReloc(ts[i]) => Belongs(ts[i].bo, ts[i].acc.dom),
         \A i \in DOMAIN es : Belongs(es[i].bo, es[i].acc.dom)
  PROVE  /\ OneDomain'
         /\ \A i \in DOMAIN queue' : \/ \E j \in DOMAIN queue : queue'[i] = queue[j]
                                     \/ \E j \in DOMAIN ts : queue'[i] = ts[j]
         /\ Listed' = Listed \cup {es[i] : i \in DOMAIN es}
         /\ UNCHANGED <<pc, acct, broken>>
<1>0. /\ queue' = queue \o ts /\ pers_bos' = pers_bos \o es
      /\ UNCHANGED <<pc, space, acct, cs, broken>>
      /\ queue \in Seq(Token) /\ pers_bos \in Seq(Entry)
  BY DEF Issue, flushVars, libdrmVars, TypeOK
<1>1. \A i \in DOMAIN queue' : \/ \E j \in DOMAIN queue : queue'[i] = queue[j]
                               \/ \E j \in DOMAIN ts : queue'[i] = ts[j]
  <2>1. \A i \in DOMAIN queue' : IF i <= Len(queue) THEN i \in DOMAIN queue /\ queue'[i] = queue[i]
          ELSE i - Len(queue) \in DOMAIN ts /\ queue'[i] = ts[i - Len(queue)]
    BY <1>0
  <2>. QED
    BY <2>1
<1>2. \A i \in DOMAIN pers_bos' : \/ \E j \in DOMAIN pers_bos : pers_bos'[i] = pers_bos[j]
                                  \/ \E j \in DOMAIN es : pers_bos'[i] = es[j]
  <2>1. \A i \in DOMAIN pers_bos' : IF i <= Len(pers_bos) THEN i \in DOMAIN pers_bos /\ pers_bos'[i] = pers_bos[i]
          ELSE i - Len(pers_bos) \in DOMAIN es /\ pers_bos'[i] = es[i - Len(pers_bos)]
    BY <1>0
  <2>. QED
    BY <2>1
<1>3. OneDomain'
  BY <1>0, <1>1, <1>2 DEF OneDomain
<1>4. Listed' = Listed \cup {es[i] : i \in DOMAIN es}
  <2>1. /\ \A i \in DOMAIN pers_bos : i \in DOMAIN pers_bos' /\ pers_bos'[i] = pers_bos[i]
        /\ \A i \in DOMAIN es : /\ Len(pers_bos) + i \in DOMAIN pers_bos'
                               /\ pers_bos'[Len(pers_bos) + i] = es[i]
    BY <1>0
  <2>2. ASSUME NEW i \in DOMAIN pers_bos' PROVE pers_bos'[i] \in Listed \cup {es[j] : j \in DOMAIN es}
    BY <1>2, <2>2 DEF Listed
  <2>3. ASSUME NEW i \in DOMAIN pers_bos PROVE pers_bos[i] \in {pers_bos'[j] : j \in DOMAIN pers_bos'}
    BY <2>1, <2>3
  <2>4. ASSUME NEW i \in DOMAIN es PROVE es[i] \in {pers_bos'[j] : j \in DOMAIN pers_bos'}
    BY <2>1, <2>4
  <2>5. Listed' = space \cup {pers_bos'[i] : i \in DOMAIN pers_bos'}
    BY <1>0 DEF Listed
  <2>. QED
    BY <2>2, <2>3, <2>4, <2>5 DEF Listed
<1>. QED
  BY <1>0, <1>1, <1>3, <1>4

\* A check that succeeds accounts for all that is listed, where it belongs.
LEMMA AccountedBelongs ==
  ASSUME NEW s \in SUBSET Entry, NEW a \in DomainMap, NEW new \in Accounted(s, a),
         \A e \in s : Belongs(e.bo, e.acc.dom),
         \A b \in BO : a[b] # NoDomain => Belongs(b, a[b]),
         NEW b \in BO
  PROVE  /\ new[b] # NoDomain => Belongs(b, new[b])
         /\ (\E e \in s : e.bo = b) => new[b] # NoDomain
<1> DEFINE doms == {e.acc.dom : e \in {x \in s : x.bo = b}}
<1>1. IF doms = {} THEN new[b] = a[b] ELSE new[b] \in doms
  BY DEF Accounted
<1>2. \A d \in doms : Belongs(b, d)
  OBVIOUS
<1>3. \A d \in doms : d # NoDomain
  BY <1>2 DEF Belongs, Domain, NoDomain
<1>4. (\E e \in s : e.bo = b) => doms # {}
  OBVIOUS
<1>. HIDE DEF doms
<1>. QED
  BY <1>1, <1>2, <1>3, <1>4

LEMMA ReleasedNothing ==
  ASSUME acct \in DomainMap, cs = EmptyCS
  PROVE  Released(acct, cs) = acct
  BY DEF Released, EmptyCS, Nowhere, DomainMap

\* A step that queues and registers for an object where it belongs, and goes
\* on to a place where what it relocates is registered or accounted for.
LEMMA IssueCareful ==
  ASSUME JobIInv, CarefulInv, NEW ts \in Seq(Token), NEW es \in Seq(Entry), Issue(ts, es),
         NEW b,
         \A i \in DOMAIN ts : IsReloc(ts[i]) => ts[i].bo = b /\ Belongs(b, ts[i].acc.dom),
         \A i \in DOMAIN es : Belongs(es[i].bo, es[i].acc.dom),
         \/ /\ at \in {"new", "main", "setting"} /\ at' = "setting"
            /\ \A i \in DOMAIN ts : IsReloc(ts[i]) => \E e \in {es[j] : j \in DOMAIN es} : e.bo = b
         \/ /\ at \in {"prepare", "dispatch", "flush"} /\ at' \in {"dispatch", "flush"}
            /\ \A i \in DOMAIN ts : IsReloc(ts[i]) => acct[b] # NoDomain
  PROVE  CarefulInv'
<1>0. TypeOK /\ OneDomain /\ Registered /\ AccountedFor /\ Orderly /\ pc = "idle"
  BY DEF JobIInv, IInv, CarefulInv, Issue
<1>1. /\ OneDomain'
      /\ \A i \in DOMAIN queue' : \/ \E j \in DOMAIN queue : queue'[i] = queue[j]
                                  \/ \E j \in DOMAIN ts : queue'[i] = ts[j]
      /\ Listed' = Listed \cup {es[i] : i \in DOMAIN es}
      /\ UNCHANGED <<pc, acct, broken>>
  BY <1>0, IssueBelongs
<1>2. Registered'
  BY <1>0, <1>1 DEF Registered
<1>3. AccountedFor'
  BY <1>0, <1>1 DEF AccountedFor
<1>4. Orderly'
  BY <1>0, <1>1 DEF Orderly
<1>. QED
  BY <1>1, <1>2, <1>3, <1>4 DEF CarefulInv

\* Between operations libdrm's buffer is empty, so that a flush from within
\* the check releases nothing.
LEMMA CheckCareful ==
  ASSUME JobIInv, CarefulInv, load_shader_check
  PROVE  CarefulInv'
<1>0. /\ TypeOK /\ OneDomain /\ Registered /\ AccountedFor /\ Orderly
      /\ at = "check" /\ UNCHANGED <<asked, queue>>
      /\ asked["shader"] \in BO /\ Listed \in SUBSET Entry
  BY ListedType, ShaderAssumption DEF JobIInv, IInv, CarefulInv, load_shader_check,
     ShaderAsked, TypeOK, space_check_fits, space_check_flushes,
     space_check_throws_at_once, space_check_throws_after_flush, space_check_aborts,
     FlushCallback, streamVars
<1>1. pc = "idle" => cs = EmptyCS /\ Released(acct, cs) = acct
  BY <1>0, ReleasedNothing DEF Orderly, JobIInv, IInv, NothingLeftOver, TypeOK
<1>2. \A e \in Listed : Belongs(e.bo, e.acc.dom)
  BY <1>0 DEF OneDomain, Listed
<1>3. CASE (space_check_fits \/ space_check_flushes) /\ Goto("prepare")
  <2>1. /\ pc = "idle" /\ pc' = "idle" /\ acct' \in Accounted(Listed, acct) /\ space' = Listed
        /\ pers_bos' = <<>> /\ cs' = EmptyCS /\ ~ broken' /\ at' = "prepare"
    BY <1>0, <1>1, <1>3 DEF space_check_fits, space_check_flushes, FlushCallback,
       EmitAndErase, flushVars, Goto, Orderly
  <2>2. \A b \in BO : /\ acct'[b] # NoDomain => Belongs(b, acct'[b])
                      /\ (\E e \in Listed : e.bo = b) => acct'[b] # NoDomain
    BY <1>0, <1>2, <2>1, AccountedBelongs DEF OneDomain, TypeOK
  <2>3. \A i \in DOMAIN queue : IsReloc(queue[i]) => queue[i].bo \in BO
    <3>1. \A i \in DOMAIN queue : queue[i] \in Token
      BY <1>0, ElementOfSeq DEF TypeOK
    <3>. QED
      BY <3>1 DEF Token, Dw, Reloc, IsReloc
  <2>4. OneDomain'
    <3>1. DOMAIN pers_bos' = {} /\ \A b \in BO : cs'.domain[b] = NoDomain
      BY <2>1 DEF EmptyCS, Nowhere
    <3>2. \A i \in DOMAIN queue' :
            IsReloc(queue'[i]) => Belongs(queue'[i].bo, queue'[i].acc.dom)
      BY <1>0 DEF OneDomain
    <3>3. \A e \in space' : Belongs(e.bo, e.acc.dom)
      BY <1>2, <2>1
    <3>4. \A i \in DOMAIN pers_bos' : Belongs(pers_bos'[i].bo, pers_bos'[i].acc.dom)
      BY <3>1
    <3>5. \A b \in BO : acct'[b] # NoDomain => Belongs(b, acct'[b])
      BY <2>2
    <3>6. \A b \in BO : cs'.domain[b] # NoDomain => Belongs(b, cs'.domain[b])
      BY <3>1
    <3>. QED
      BY <3>2, <3>3, <3>4, <3>5, <3>6 DEF OneDomain
  <2>5. AccountedFor'
    BY <1>0, <2>1, <2>2, <2>3 DEF Registered, AccountedFor
  <2>. QED
    BY <1>0, <2>1, <2>4, <2>5 DEF CarefulInv, Registered, Orderly
<1>4. CASE \/ (space_check_throws_at_once \/ space_check_throws_after_flush)
              /\ Goto("no_memory")
           \/ space_check_aborts /\ Goto("aborted")
  <2>1. /\ acct' = acct /\ space' \in {space, Listed} /\ UNCHANGED pers_bos
        /\ cs' \in {cs, EmptyCS} /\ ~ broken' /\ pc' \in {"idle", "dead"}
        /\ \/ at' = "no_memory"
           \/ at' = "aborted" /\ Cardinality(Listed) >= MaxSpaceBos /\ UNCHANGED space
    BY <1>0, <1>1, <1>4 DEF space_check_throws_at_once, space_check_throws_after_flush,
       space_check_aborts, FlushCallback, EmitAndErase, streamVars, flushVars,
       libdrmVars, Goto, Orderly
  <2>2. OneDomain'
    BY <1>0, <1>2, <2>1 DEF OneDomain, EmptyCS, Nowhere
  <2>3. Registered' /\ AccountedFor'
    BY <2>1 DEF Registered, AccountedFor
  <2>4. Orderly'
    BY <1>0, <2>1 DEF Orderly, Listed
  <2>. QED
    BY <2>2, <2>3, <2>4 DEF CarefulInv
<1>. QED
  BY <1>3, <1>4 DEF load_shader_check

\* No relocation of a careful program is refused: whatever the batch has of
\* its object, and whatever the object is accounted for in, is its one domain.
LEMMA FlushCareful ==
  ASSUME Careful, JobIInv, CarefulInv, flush
  PROVE  CarefulInv'
<1>0. TypeOK /\ OneDomain /\ Registered /\ AccountedFor /\ Orderly /\ at = "flush"
  BY DEF JobIInv, IInv, CarefulInv, flush
<1>1. ASSUME pc = "emit", pos < Len(queue), IsReloc(Current)
      PROVE  /\ acct[Current.bo] # NoDomain
             /\ ~ RelocRefused(cs, Current)
             /\ Belongs(Current.bo, Current.acc.dom)
             /\ Current.bo \in BO
  <2>1. pos + 1 \in DOMAIN queue /\ Current \in Token
    BY <1>0, <1>1, PrefixGrows DEF TypeOK, Current
  <2>2. Current.bo \in BO
    BY <1>1, <2>1 DEF Token, Dw, Reloc, IsReloc
  <2>3. /\ Belongs(Current.bo, Current.acc.dom) /\ acct[Current.bo] # NoDomain
    BY <1>0, <1>1, <2>1 DEF OneDomain, AccountedFor, Current
  <2>4. Current.acc # BadAccess
    BY <2>3 DEF Belongs, BadAccess, Domain, NoDomain
  <2>5. cs.domain[Current.bo] \in {NoDomain, Current.acc.dom}
    BY <1>0, <2>2, <2>3, BelongsOnce DEF OneDomain
  <2>. QED
    BY <2>2, <2>3, <2>4, <2>5 DEF RelocRefused
<1>2. CASE flush_cs_throws \/ flush_cs_aborts
  BY <1>1, <1>2 DEF flush_cs_throws, flush_cs_aborts
<1>3. CASE (flush_cs_begin \/ flush_cs_dword \/ flush_cs_reloc) /\ UNCHANGED at
  <2>1. /\ UNCHANGED <<at, queue, pers_bos, space, acct, broken>>
        /\ pc' = "emit" /\ Listed' = Listed
    BY <1>3 DEF flush_cs_begin, flush_cs_dword, flush_cs_reloc, streamVars, Listed
  <2>2. \A b \in BO : cs'.domain[b] # NoDomain => Belongs(b, cs'.domain[b])
    <3>1. CASE flush_cs_begin
      <4>1. cs'.domain = cs.domain
        BY <1>0, <3>1 DEF flush_cs_begin, Begin, TypeOK, CS
      <4>. QED
        BY <1>0, <4>1 DEF OneDomain
    <3>2. CASE flush_cs_dword
      <4>1. cs'.domain = cs.domain
        BY <1>0, <3>2 DEF flush_cs_dword, WriteDword, TypeOK, CS
      <4>. QED
        BY <1>0, <4>1 DEF OneDomain
    <3>3. CASE flush_cs_reloc
      <4>1. cs'.domain = [cs.domain EXCEPT ![Current.bo] = Current.acc.dom]
        BY <1>0, <3>3 DEF flush_cs_reloc, WriteReloc, TypeOK, CS
      <4>2. Belongs(Current.bo, Current.acc.dom) /\ cs.domain \in DomainMap
        BY <1>0, <1>1, <3>3 DEF flush_cs_reloc, TypeOK, CS
      <4>. QED
        BY <1>0, <4>1, <4>2 DEF OneDomain, DomainMap
    <3>. QED
      BY <1>3, <3>1, <3>2, <3>3
  <2>3. OneDomain'
    BY <1>0, <2>1, <2>2 DEF OneDomain
  <2>. QED
    BY <1>0, <2>1, <2>3 DEF CarefulInv, Registered, AccountedFor, Orderly
<1>4. CASE flush_cs_end /\ Goto("flushed")
  <2>1. /\ queue' = <<>> /\ pers_bos' = <<>> /\ pc' = "idle" /\ ~ broken'
        /\ at' = "flushed" /\ cs' = EmptyCS /\ acct' = Released(acct, cs)
        /\ UNCHANGED space
    BY <1>4 DEF flush_cs_end, EmitAndErase, LeaveLoop, Erase, Goto
  <2>2. /\ DOMAIN queue' = {} /\ DOMAIN pers_bos' = {}
        /\ \A b \in BO : cs'.domain[b] = NoDomain
        /\ \A b \in BO : acct'[b] \in {NoDomain, acct[b]}
    BY <2>1 DEF EmptyCS, Nowhere, Released
  <2>3. OneDomain'
    BY <1>0, <2>1, <2>2 DEF OneDomain
  <2>. QED
    BY <2>1, <2>3 DEF CarefulInv, Registered, AccountedFor, Orderly
<1>. QED
  BY <1>2, <1>3, <1>4 DEF flush

LEMMA CarefulStep ==
  ASSUME Careful, JobIInv, CarefulInv, [JobNext]_jobVars
  PROVE  CarefulInv'
<1>0. TypeOK /\ OneDomain /\ Registered /\ AccountedFor /\ Orderly
  BY DEF JobIInv, IInv, CarefulInv
<1>1. CASE construct
  <2>1. /\ queue' = <<Write("default")>> /\ pers_bos' = <<>> /\ at' = "main" /\ at = "new"
        /\ pc' = "idle" /\ UNCHANGED <<space, acct, cs, broken>>
    BY <1>1 DEF construct, init_gpu, Goto, flushVars, libdrmVars
  <2>2. /\ \A i \in DOMAIN queue' : ~ IsReloc(queue'[i])
        /\ DOMAIN pers_bos' = {}
    BY <2>1, TokenType DEF Register
  <2>3. OneDomain'
    BY <1>0, <2>1, <2>2 DEF OneDomain
  <2>. QED
    BY <1>0, <2>1, <2>2, <2>3 DEF CarefulInv, Registered, AccountedFor, Orderly
<1>2. CASE enter_main
  <2> DEFINE ts == <<Write("default")>>
             es == <<>>
  <2>1. /\ ts \in Seq(Token) /\ es \in Seq(Entry) /\ Issue(ts, es) /\ DOMAIN es = {}
        /\ \A i \in DOMAIN ts : ~ IsReloc(ts[i])
        /\ at = "main" /\ at' = "setting"
    BY <1>2, TokenType DEF Register, enter_main, set_default_state, Goto
  <2>. HIDE DEF ts, es
  <2>. QED
    BY <2>1, IssueCareful
<1>3. CASE \E b \in Buffer : set_job(b)
  <2>0. PICK b \in Buffer, r \in Register, a \in AnyDomain : \E ts, es :
               Call(b, r, a, ts, es) /\ Setter(r, b, Issue(ts, es))
    BY <1>3, SetterCalls
  <2>1. PICK ts, es :
               Call(b, r, a, ts, es) /\ Setter(r, b, Issue(ts, es))
    BY <2>0
  <2>2. /\ ts \in Seq(Token) /\ es \in Seq(Entry) /\ Issue(ts, es)
        /\ at = "setting" /\ at' = "setting"
    BY <2>1 DEF Call, Commands, Setter, Careful
  <2>3. es # <<>> => Belongs(b, a.dom)
    BY <2>1 DEF Call, Belongs, Buffer, AnyDomain
  <2>4. \A i \in DOMAIN es : es[i].bo = b /\ es[i].acc = a /\ es # <<>>
    BY <2>1 DEF Call, Register_bo
  <2>5. \A i \in DOMAIN ts : IsReloc(ts[i]) => ts[i].bo = b /\ ts[i].acc = a /\ es # <<>>
    BY <2>1 DEF Call, Commands, Relocate
  <2>6. es # <<>> => \E e \in {es[j] : j \in DOMAIN es} : e.bo = b
    BY <2>1 DEF Call, Register_bo
  <2>. QED
    BY <2>2, <2>3, <2>4, <2>5, <2>6, IssueCareful
<1>4. CASE \E sh \in Shader : load_shader(sh)
  <2>1. PICK sh \in Shader : load_shader(sh)
    BY <1>4
  <2> DEFINE e == Register_bo(sh, Reading("vram"))
  <2>2. /\ pers_bos' = Append(pers_bos, e) /\ UNCHANGED <<queue, pc, space, acct, cs, broken>>
        /\ asked'["shader"] = sh /\ at = "setting" /\ at' = "check"
        /\ e.bo = sh /\ e.acc.dom = "vram" /\ e \in Entry
    BY <1>0, <2>1, ShaderAssumption, TokenType
       DEF load_shader, load_shader_register, add_persistent_bo, flushVars, libdrmVars,
           Goto, Register_bo, Reading, AnyDomain, Domain, JobIInv, JobTypeOK, Bound
  <2>. HIDE DEF e
  <2>3. /\ \A i \in DOMAIN pers_bos : i \in DOMAIN pers_bos' /\ pers_bos'[i] = pers_bos[i]
        /\ Len(pers_bos) + 1 \in DOMAIN pers_bos' /\ pers_bos'[Len(pers_bos) + 1] = e
        /\ \A i \in DOMAIN pers_bos' : i \in DOMAIN pers_bos \/ pers_bos'[i] = e
    BY <1>0, <2>2 DEF TypeOK
  <2>4. e \in Listed' /\ Listed \subseteq Listed'
    BY <2>2, <2>3 DEF Listed
  <2>5. Belongs(e.bo, e.acc.dom)
    BY <2>1, <2>2 DEF Belongs, Domain
  <2>6. OneDomain'
    BY <1>0, <2>2, <2>3, <2>5 DEF OneDomain
  <2>7. Registered'
    BY <1>0, <2>2, <2>4 DEF Registered
  <2>8. AccountedFor' /\ Orderly'
    BY <1>0, <2>2 DEF AccountedFor, Orderly
  <2>. QED
    BY <2>6, <2>7, <2>8 DEF CarefulInv
<1>5. CASE load_shader_prepare
  <2> DEFINE b == asked["shader"]
             a == Reading("vram")
             ts == <<Write("sync"), Relocate(b, a), Write("shader"), Relocate(b, a)>>
             es == <<>>
  <2>1. b \in Shader /\ b \in BO /\ a \in AnyDomain /\ a.dom = "vram"
    BY <1>5, ShaderAssumption DEF load_shader_prepare, JobIInv, ShaderAsked, Reading,
       AnyDomain, Domain
  <2>2. Commands(ts, "shader", b, a)
    BY <2>1, CommandsSynced DEF Register
  <2>3. /\ Issue(ts, es) /\ DOMAIN es = {} /\ at = "prepare" /\ at' = "dispatch"
        /\ acct[b] # NoDomain /\ Belongs(b, a.dom) /\ es \in Seq(Entry)
    BY <1>0, <1>5, <2>1, EmptySeq DEF load_shader_prepare, prepare_compute_shader, Goto, AccountedFor,
       Belongs, Domain
  <2>. HIDE DEF ts, es
  <2>4. \A i \in DOMAIN ts : IsReloc(ts[i]) => ts[i].bo = b /\ Belongs(b, ts[i].acc.dom)
    BY <2>2, <2>3 DEF Commands, Relocate
  <2>5. ts \in Seq(Token)
    BY <2>2 DEF Commands
  <2>. QED
    BY <2>3, <2>4, <2>5, IssueCareful
<1>6. CASE dispatch
  <2> DEFINE ts == <<Write("dispatch")>>
             es == <<>>
  <2>1. /\ ts \in Seq(Token) /\ es \in Seq(Entry) /\ Issue(ts, es) /\ DOMAIN es = {}
        /\ \A i \in DOMAIN ts : ~ IsReloc(ts[i])
        /\ at = "dispatch" /\ at' = "flush"
    BY <1>6, TokenType DEF Register, dispatch, direct_dispatch, Goto
  <2>. HIDE DEF ts, es
  <2>. QED
    BY <2>1, IssueCareful
<1>7. CASE bo_wait \/ next_job \/ return_from_main \/ run_batch \/ UNCHANGED jobVars
  <2>1. /\ UNCHANGED <<queue, pers_bos, space, acct, cs, broken>>
        /\ pc' = pc \/ pc' = "dead"
        /\ \/ at' = at /\ UNCHANGED asked
           \/ at' \in {"read", "setting", "returned"} /\ at \in {"flushed", "read"}
    BY <1>7 DEF bo_wait, next_job, return_from_main, run_batch, destroy, vars, jobVars,
       progVars, streamVars, libdrmVars, Goto
  <2>2. OneDomain' /\ Listed' = Listed
    BY <1>0, <2>1 DEF OneDomain, Listed
  <2>3. Registered' /\ AccountedFor' /\ Orderly'
    BY <1>0, <2>1, <2>2 DEF Registered, AccountedFor, Orderly
  <2>. QED
    BY <2>2, <2>3 DEF CarefulInv
<1>. QED
  BY <1>1, <1>2, <1>3, <1>4, <1>5, <1>6, <1>7, CheckCareful, FlushCareful
     DEF JobNext, Program

LEMMA InitCareful == JobInit => CarefulInv
<1>. SUFFICES ASSUME JobInit PROVE CarefulInv
  OBVIOUS
<1>1. /\ DOMAIN queue = {} /\ DOMAIN pers_bos = {} /\ space = {} /\ at = "new"
      /\ pc = "idle" /\ ~ broken
      /\ \A b \in BO : acct[b] = NoDomain /\ cs.domain[b] = NoDomain
  BY DEF JobInit, Init, EmptyCS, Nowhere
<1>. QED
  BY <1>1 DEF CarefulInv, OneDomain, Registered, AccountedFor, Orderly

LEMMA CarefulFlushes ==
  ASSUME Careful, JobIInv, CarefulInv
  PROVE  FlushSucceeds
<1>1. ASSUME pc = "emit", pos < Len(queue), IsReloc(Current)
      PROVE  acct[Current.bo] = Current.acc.dom
  <2>1. pos + 1 \in DOMAIN queue /\ Current \in Token /\ at = "flush"
    BY <1>1, PrefixGrows DEF JobIInv, IInv, TypeOK, Current, CarefulInv, Orderly
  <2>2. Current.bo \in BO
    BY <1>1, <2>1 DEF Token, Dw, Reloc, IsReloc
  <2>3. Belongs(Current.bo, Current.acc.dom) /\ acct[Current.bo] # NoDomain
    BY <1>1, <2>1 DEF CarefulInv, OneDomain, AccountedFor, Current
  <2>. QED
    BY <2>2, <2>3, BelongsOnce DEF CarefulInv, OneDomain
<1>. QED
  BY <1>1 DEF FlushSucceeds, CarefulInv, Orderly

\* A program that names each object with one domain, and calls its setters
\* before load_shader, meets no relocation that libdrm refuses or asserts on,
\* whatever its jobs, the verdicts of the memory check and of the kernel, and
\* wherever the card is with the batches before.
THEOREM FlushSucceedsCorrect ==
  ASSUME Careful
  PROVE  JobSpec => []FlushSucceeds
<1>1. JobIInv /\ CarefulInv /\ [JobNext]_jobVars => CarefulInv'
  BY CarefulStep
<1>2. JobIInv /\ CarefulInv => FlushSucceeds
  BY CarefulFlushes
<1>. QED
  BY <1>1, <1>2, InitJob, InitCareful, JobStep, PTL DEF JobSpec

-----------------------------------------------------------------------------
(* A program reads back what its last job computed: the value each of the  *)
(* card's registers will have is followed from the setter, through the     *)
(* queue and the batches the kernel took, to the dispatch.                 *)

-----------------------------------------------------------------------------
(* The invariant.                                                          *)

\* The last relocation in a run of tokens that names r is of v.
Names(s, r, v) ==
  \E i \in Naming(s, r) : s[i].bo = v /\ \A j \in Naming(s, r) : j <= i

\* A register of a card that has the values rs and d of the batches ss behind
\* it holds v once it has run the others.
Settled(rs, ss, d, r, v) ==
  \/ rs[r] = v /\ \A n \in d + 1 .. Len(ss) : Naming(ss[n], r) = {}
  \/ \E n \in d + 1 .. Len(ss) :
       /\ Names(ss[n], r, v)
       /\ \A m \in d + 1 .. Len(ss) : m > n => Naming(ss[m], r) = {}

\* And once it has run what is queued, too.
Due(q, rs, ss, d, r, v) ==
  IF Naming(q, r) = {} THEN Settled(rs, ss, d, r, v) ELSE Names(q, r, v)

AsAsked(r) == Due(queue, regs, sent, done, r, asked[r])

\* What a program asked for is what the next dispatch will find: the shader
\* from prepare_compute_shader on, the RAT if this job has set it.
DueAsAsked ==
  ~ lost /\ at \notin Ended =>
    /\ AsAsked("fetch") /\ AsAsked("const")
    /\ at \notin {"check", "prepare"} => AsAsked("shader")
    /\ asked["rat"] # Unset => AsAsked("rat")

\* A run of tokens with one dispatch, at its end.
EndsInDispatch(s) ==
  /\ Len(s) > 0
  /\ \A i \in DOMAIN s : s[i] = Write("dispatch") <=> i = Len(s)

\* The queue of a job: its setters, the shader, one dispatch.
JobQueue ==
  /\ at = "new" => asked["rat"] = Unset
  /\ at \in {"new", "flushed", "read"} => queue = <<>>
  /\ at \notin Ended \cup {"flush"} =>
       \A i \in DOMAIN queue : queue[i] # Write("dispatch")
  /\ at = "flush" => EndsInDispatch(queue)
  /\ at \notin Ended \cup {"flushed", "read"} /\ asked["rat"] # Unset =>
       Naming(queue, "rat") # {}
  /\ broken => at = "uncaught"
  /\ pc = "emit" => at = "flush"

Wanted == [shader |-> asked["shader"], fetch |-> asked["fetch"], const |-> asked["const"]]

\* The last batch is the job's, and the wait for the result is for that batch.
LastBatch ==
  at \in {"flushed", "read"} /\ ~ lost /\ asked["rat"] # Unset =>
    /\ Len(sent) > 0
    /\ EndsInDispatch(sent[Len(sent)])
    /\ Naming(sent[Len(sent)], "rat") # {}
    /\ done = Len(sent) => mem[asked["rat"]] = Wanted
    /\ at = "read" => done = Len(sent)

ReadInv == DueAsAsked /\ JobQueue /\ LastBatch

-----------------------------------------------------------------------------
(* The registers after a batch.                                            *)

LEMMA NamesLast ==
  ASSUME NEW s \in Seq(Token), NEW r \in Bound, NEW v, Names(s, r, v), NEW rs
  PROVE  /\ Naming(s, r) # {}
         /\ RegsAfter(s, Len(s), rs)[r] = v
<1>1. PICK i \in Naming(s, r) : s[i].bo = v /\ \A j \in Naming(s, r) : j <= i
  BY DEF Names
<1>2. Naming(s, r) \cap 1 .. Len(s) = Naming(s, r) /\ Naming(s, r) \in SUBSET Nat
  BY DEF Naming
<1>3. Max(Naming(s, r)) = i
  BY <1>1, <1>2, MaxIs
<1>. QED
  BY <1>1, <1>2, <1>3 DEF RegsAfter

\* A concatenation names what its parts name, when the second does not begin
\* with a relocation.
LEMMA ConcatNaming ==
  ASSUME NEW s \in Seq(Token), NEW t \in Seq(Token), Len(t) > 0, ~ IsReloc(t[1]), NEW r
  PROVE  Naming(s \o t, r) = Naming(s, r) \cup {Len(s) + i : i \in Naming(t, r)}
<1> DEFINE u == s \o t
<1>1. /\ Len(s) \in Nat /\ Len(t) \in Nat /\ Len(u) = Len(s) + Len(t)
      /\ \A i \in 1 .. Len(s) : u[i] = s[i]
      /\ \A i \in 1 .. Len(t) : u[Len(s) + i] = t[i]
  OBVIOUS
<1>. HIDE DEF u
<1>2. ASSUME NEW i \in Naming(u, r) PROVE i \in Naming(s, r) \cup {Len(s) + j : j \in Naming(t, r)}
  <2>1. i \in 2 .. Len(u) /\ IsReloc(u[i]) /\ u[i - 1] = Write(r)
    BY <1>2 DEF Naming
  <2>2. CASE i <= Len(s)
    <3>1. i \in 1 .. Len(s) /\ i - 1 \in 1 .. Len(s)
      BY <1>1, <2>1, <2>2
    <3>. QED
      BY <1>1, <2>1, <2>2, <3>1 DEF Naming
  <2>3. CASE ~ (i <= Len(s))
    <3> DEFINE j == i - Len(s)
    <3>1. j \in 1 .. Len(t) /\ Len(s) + j = i
      BY <1>1, <2>1, <2>3
    <3>2. u[i] = t[j]
      BY <1>1, <3>1
    <3>3. j # 1
      BY <2>1, <3>2
    <3>4. j - 1 \in 1 .. Len(t) /\ Len(s) + (j - 1) = i - 1
      BY <1>1, <2>1, <3>1, <3>3
    <3>5. u[i - 1] = t[j - 1]
      BY <1>1, <3>4
    <3>6. j \in Naming(t, r)
      BY <2>1, <3>1, <3>2, <3>3, <3>5 DEF Naming
    <3>. QED
      BY <3>1, <3>6
  <2>. QED
    BY <2>2, <2>3
<1>3. ASSUME NEW i \in Naming(s, r) PROVE i \in Naming(u, r)
  <2>1. i \in 2 .. Len(s) /\ IsReloc(s[i]) /\ s[i - 1] = Write(r)
    BY <1>3 DEF Naming
  <2>2. i \in 1 .. Len(s) /\ i - 1 \in 1 .. Len(s) /\ i \in 2 .. Len(u)
    BY <1>1, <2>1
  <2>. QED
    BY <1>1, <2>1, <2>2 DEF Naming
<1>4. ASSUME NEW i \in Naming(t, r) PROVE Len(s) + i \in Naming(u, r)
  <2>1. i \in 2 .. Len(t) /\ IsReloc(t[i]) /\ t[i - 1] = Write(r)
    BY <1>4 DEF Naming
  <2>2. /\ i \in 1 .. Len(t) /\ i - 1 \in 1 .. Len(t)
        /\ Len(s) + i \in 2 .. Len(u) /\ Len(s) + (i - 1) = Len(s) + i - 1
    BY <1>1, <2>1
  <2>3. u[Len(s) + i] = t[i] /\ u[Len(s) + i - 1] = t[i - 1]
    BY <1>1, <2>2
  <2>. QED
    BY <2>1, <2>2, <2>3 DEF Naming
<1>5. Naming(u, r) = Naming(s, r) \cup {Len(s) + i : i \in Naming(t, r)}
  BY <1>2, <1>3, <1>4
<1>. QED
  BY <1>5 DEF u

LEMMA ConcatNames ==
  ASSUME NEW s \in Seq(Token), NEW t \in Seq(Token), Len(t) > 0, ~ IsReloc(t[1]), NEW r, NEW v
  PROVE  /\ Names(t, r, v) => Names(s \o t, r, v)
         /\ Naming(t, r) = {} /\ Names(s, r, v) => Names(s \o t, r, v)
<1> DEFINE u == s \o t
<1>1. /\ Len(s) \in Nat /\ Len(t) \in Nat
      /\ \A i \in 1 .. Len(s) : u[i] = s[i]
      /\ \A i \in 1 .. Len(t) : u[Len(s) + i] = t[i]
  OBVIOUS
<1>2. Naming(u, r) = Naming(s, r) \cup {Len(s) + i : i \in Naming(t, r)}
  BY ConcatNaming
<1>. HIDE DEF u
<1>3. Naming(s, r) \subseteq 1 .. Len(s) /\ Naming(t, r) \subseteq 1 .. Len(t)
  BY DEF Naming
<1>4. ASSUME Names(t, r, v) PROVE Names(u, r, v)
  <2>1. PICK i \in Naming(t, r) : t[i].bo = v /\ \A j \in Naming(t, r) : j <= i
    BY <1>4 DEF Names
  <2>2. Len(s) + i \in Naming(u, r) /\ u[Len(s) + i].bo = v
    BY <1>1, <1>2, <1>3, <2>1
  <2>3. ASSUME NEW j \in Naming(u, r) PROVE j <= Len(s) + i
    BY <1>1, <1>2, <1>3, <2>1, <2>3
  <2>. QED
    BY <2>2, <2>3 DEF Names
<1>5. ASSUME Naming(t, r) = {}, Names(s, r, v) PROVE Names(u, r, v)
  <2>1. PICK i \in Naming(s, r) : s[i].bo = v /\ \A j \in Naming(s, r) : j <= i
    BY <1>5 DEF Names
  <2>2. Naming(u, r) = Naming(s, r) /\ u[i] = s[i]
    BY <1>1, <1>2, <1>3, <1>5, <2>1
  <2>. QED
    BY <2>1, <2>2 DEF Names
<1>. QED
  BY <1>4, <1>5 DEF u

-----------------------------------------------------------------------------
(* The values due.                                                         *)

LEMMA NothingNamed == \A r : Naming(<<>>, r) = {}
  BY DEF Naming

\* The card runs a batch.
LEMMA SettledRun ==
  ASSUME NEW rs, NEW ss \in Seq(Seq(Token)), NEW d \in Nat, d < Len(ss), NEW r \in Bound,
         NEW v, Settled(rs, ss, d, r, v)
  PROVE  Settled(RegsAfter(ss[d + 1], Len(ss[d + 1]), rs), ss, d + 1, r, v)
<1> DEFINE s == ss[d + 1]
           new == RegsAfter(s, Len(s), rs)
<1>1. s \in Seq(Token) /\ d + 1 \in d + 1 .. Len(ss) /\ Len(ss) \in Nat
  BY ElementOfSeq
<1>2. /\ Naming(s, r) = {} => new[r] = rs[r]
      /\ Names(s, r, v) => new[r] = v
  <2>1. ASSUME Naming(s, r) = {} PROVE new[r] = rs[r]
    BY <2>1 DEF RegsAfter
  <2>2. ASSUME Names(s, r, v) PROVE new[r] = v
    BY <1>1, <2>2, NamesLast
  <2>. QED
    BY <2>1, <2>2
<1>3. d + 1 + 1 .. Len(ss) \subseteq d + 1 .. Len(ss)
  BY <1>1
<1>. HIDE DEF new
<1>4. ASSUME rs[r] = v, \A n \in d + 1 .. Len(ss) : Naming(ss[n], r) = {}
      PROVE  Settled(new, ss, d + 1, r, v)
  BY <1>1, <1>2, <1>3, <1>4 DEF Settled
<1>5. ASSUME NEW n \in d + 1 .. Len(ss), Names(ss[n], r, v),
             \A m \in d + 1 .. Len(ss) : m > n => Naming(ss[m], r) = {}
      PROVE  Settled(new, ss, d + 1, r, v)
  <2>1. CASE n = d + 1
    <3>1. new[r] = v
      BY <1>2, <1>5, <2>1
    <3>2. \A m \in d + 1 + 1 .. Len(ss) : m \in d + 1 .. Len(ss) /\ m > n
      BY <1>1, <2>1
    <3>. QED
      BY <1>5, <3>1, <3>2 DEF Settled
  <2>2. CASE n # d + 1
    <3>1. n \in d + 1 + 1 .. Len(ss)
      BY <2>2
    <3>. QED
      BY <1>3, <1>5, <3>1 DEF Settled
  <2>. QED
    BY <2>1, <2>2
<1>6. Settled(new, ss, d + 1, r, v)
  BY <1>4, <1>5 DEF Settled
<1>. QED
  BY <1>6 DEF new

\* The kernel takes the queue as a batch.
LEMMA DueSent ==
  ASSUME NEW q \in Seq(Token), NEW rs, NEW ss \in Seq(Seq(Token)), NEW d \in 0 .. Len(ss),
         NEW r, NEW v, Due(q, rs, ss, d, r, v)
  PROVE  Due(<<>>, rs, Append(ss, q), d, r, v)
<1> DEFINE n == Len(ss) + 1
           new == Append(ss, q)
<1>1. /\ Len(ss) \in Nat /\ Len(new) = n /\ new[n] = q
      /\ \A i \in 1 .. Len(ss) : new[i] = ss[i]
      /\ d + 1 .. n = (d + 1 .. Len(ss)) \cup {n}
      /\ d + 1 .. Len(ss) \subseteq 1 .. Len(ss)
      /\ \A i \in d + 1 .. Len(ss) : i < n
  OBVIOUS
<1>. HIDE DEF new, n
<1>2. CASE Naming(q, r) = {}
  <2>1. Settled(rs, ss, d, r, v)
    BY <1>2 DEF Due
  <2>2. Settled(rs, new, d, r, v)
    BY <1>1, <1>2, <2>1 DEF Settled
  <2>. QED
    BY <2>2, NothingNamed DEF Due, new
<1>3. CASE Naming(q, r) # {}
  <2>1. Names(q, r, v)
    BY <1>3 DEF Due
  <2>2. \A m \in d + 1 .. n : ~ (m > n)
    BY <1>1 DEF n
  <2>3. Settled(rs, new, d, r, v)
    BY <1>1, <2>1, <2>2 DEF Settled
  <2>. QED
    BY <2>3, NothingNamed DEF Due, new
<1>. QED
  BY <1>2, <1>3

\* Commands are queued that do not name the register, or give it v.
LEMMA DueIssued ==
  ASSUME NEW q \in Seq(Token), NEW ts \in Seq(Token), Len(ts) > 0, ~ IsReloc(ts[1]),
         NEW rs, NEW ss, NEW d, NEW r, NEW v,
         \/ Naming(ts, r) = {} /\ Due(q, rs, ss, d, r, v)
         \/ Naming(ts, r) # {} /\ Names(ts, r, v)
  PROVE  Due(q \o ts, rs, ss, d, r, v)
<1>1. /\ Naming(q \o ts, r) = Naming(q, r) \cup {Len(q) + i : i \in Naming(ts, r)}
      /\ Names(ts, r, v) => Names(q \o ts, r, v)
      /\ Naming(ts, r) = {} /\ Names(q, r, v) => Names(q \o ts, r, v)
  BY ConcatNaming, ConcatNames
<1>2. CASE Naming(ts, r) = {}
  <2>1. Naming(q \o ts, r) = Naming(q, r)
    BY <1>1, <1>2
  <2>. QED
    BY <1>1, <1>2, <2>1 DEF Due
<1>3. CASE Naming(ts, r) # {}
  <2>1. Naming(q \o ts, r) # {}
    BY <1>1, <1>3
  <2>. QED
    BY <1>1, <1>3, <2>1 DEF Due
<1>. QED
  BY <1>2, <1>3

-----------------------------------------------------------------------------
(* The steps of the program.                                               *)

LEMMA InitRead == JobInit => ReadInv
<1>. SUFFICES ASSUME JobInit PROVE ReadInv
  OBVIOUS
<1>1. /\ queue = <<>> /\ sent = <<>> /\ done = 0 /\ at = "new" /\ pc = "idle"
      /\ ~ broken /\ \A r \in Bound : regs[r] = asked[r] /\ asked[r] = Unset
  BY DEF JobInit, Init
<1>2. \A r \in Bound : AsAsked(r)
  <2>1. done + 1 .. Len(sent) = {}
    BY <1>1
  <2>. QED
    BY <1>1, <2>1, NothingNamed DEF AsAsked, Due, Settled
<1>3. DueAsAsked
  BY <1>2 DEF DueAsAsked, Bound
<1>4. JobQueue
  BY <1>1 DEF JobQueue, Bound, Ended
<1>. QED
  BY <1>1, <1>3, <1>4 DEF ReadInv, LastBatch

\* A setter, prepare_compute_shader or a dispatch queues its commands: the
\* register it gives an object, if any, is then due to be that object.
LEMMA IssueAsAsked ==
  ASSUME TypeOK, NEW ts \in Seq(Token), NEW es, Issue(ts, es), Len(ts) > 0, ~ IsReloc(ts[1]),
         UNCHANGED <<done, regs>>, NEW r,
         \/ Naming(ts, r) = {} /\ AsAsked(r) /\ asked'[r] = asked[r]
         \/ Naming(ts, r) # {} /\ Names(ts, r, asked'[r])
  PROVE  AsAsked(r)'
<1>1. queue \in Seq(Token) /\ queue' = queue \o ts /\ UNCHANGED sent
  BY DEF TypeOK, Issue, libdrmVars
<1>. DEFINE v == asked'[r]
<1>2. \/ Naming(ts, r) = {} /\ Due(queue, regs, sent, done, r, v)
      \/ Naming(ts, r) # {} /\ Names(ts, r, v)
  BY DEF AsAsked
<1>. HIDE DEF v
<1>3. Due(queue \o ts, regs, sent, done, r, v)
  BY <1>1, <1>2, DueIssued
<1>. QED
  BY <1>1, <1>3 DEF AsAsked, v

\* What is queued stays, and the new commands come behind it.
LEMMA IssueQueue ==
  ASSUME TypeOK, NEW ts \in Seq(Token), NEW es, Issue(ts, es), Len(ts) > 0, ~ IsReloc(ts[1])
  PROVE  /\ \A r : Naming(queue, r) # {} \/ Naming(ts, r) # {} => Naming(queue', r) # {}
         /\ \A i \in DOMAIN queue' : IF i <= Len(queue) THEN i \in DOMAIN queue /\ queue'[i] = queue[i]
                                   ELSE i - Len(queue) \in DOMAIN ts /\ queue'[i] = ts[i - Len(queue)]
         /\ Len(queue') = Len(queue) + Len(ts)
         /\ pc = "idle" /\ UNCHANGED <<pc, sent, broken>>
<1>1. queue \in Seq(Token) /\ queue' = queue \o ts
  BY DEF TypeOK, Issue
<1>2. \A r : Naming(queue', r) = Naming(queue, r) \cup {Len(queue) + i : i \in Naming(ts, r)}
  BY <1>1, ConcatNaming
<1>3. \A r : Naming(queue, r) # {} \/ Naming(ts, r) # {} => Naming(queue', r) # {}
  <2>1. ASSUME NEW r, NEW i \in Naming(queue, r) PROVE i \in Naming(queue', r)
    BY <1>2
  <2>2. ASSUME NEW r, NEW i \in Naming(ts, r) PROVE Len(queue) + i \in Naming(queue', r)
    BY <1>2
  <2>. QED
    BY <2>1, <2>2
<1>4. /\ \A i \in DOMAIN queue' : IF i <= Len(queue) THEN i \in DOMAIN queue /\ queue'[i] = queue[i]
                                 ELSE i - Len(queue) \in DOMAIN ts /\ queue'[i] = ts[i - Len(queue)]
      /\ Len(queue') = Len(queue) + Len(ts)
  BY <1>1
<1>5. pc = "idle" /\ UNCHANGED <<pc, sent, broken>>
  BY DEF Issue, flushVars, libdrmVars
<1>. QED
  BY <1>3, <1>4, <1>5

LEMMA CommandsName ==
  ASSUME NEW ts, NEW r \in Bound, NEW b, NEW a, Commands(ts, r, b, a)
  PROVE  Names(ts, r, b) /\ Naming(ts, r) # {}
<1>1. Naming(ts, r) = {Len(ts)} /\ ts[Len(ts)].bo = b /\ Len(ts) \in Nat
  BY DEF Commands, Relocate
<1>. QED
  BY <1>1 DEF Names

\* A step of the program that leaves the queue, the batches and the card as
\* they are changes no value that is due.
LEMMA QuietAsAsked ==
  ASSUME UNCHANGED <<queue, sent, done, regs>>, NEW r, AsAsked(r), asked'[r] = asked[r]
  PROVE  AsAsked(r)'
<1>. DEFINE v == asked'[r]
<1>1. Due(queue, regs, sent, done, r, v)
  BY DEF AsAsked
<1>. HIDE DEF v
<1>. QED
  BY <1>1 DEF AsAsked, v

LEMMA SetterRead ==
  ASSUME JobIInv, ReadInv, NEW b \in Buffer, set_job(b)
  PROVE  ReadInv'
<1>0. PICK r \in Register, a \in AnyDomain : \E ts, es :
             Call(b, r, a, ts, es) /\ Setter(r, b, Issue(ts, es))
  BY SetterCalls
<1>1. PICK ts, es :
             Call(b, r, a, ts, es) /\ Setter(r, b, Issue(ts, es))
  BY <1>0
<1>2. /\ TypeOK /\ Commands(ts, r, b, a) /\ Issue(ts, es) /\ r # "shader"
      /\ ts \in Seq(Token) /\ Len(ts) > 0 /\ ~ IsReloc(ts[1])
      /\ \A i \in DOMAIN ts : ts[i] # Write("dispatch")
      /\ UNCHANGED <<at, lost, done, regs, mem>> /\ at \in {"setting", "dispatch"}
      /\ asked' = IF r \in Bound THEN [asked EXCEPT ![r] = b] ELSE asked
      /\ asked \in Registers /\ DueAsAsked /\ JobQueue
  BY <1>1 DEF Call, Commands, Setter, cardVars, JobIInv, IInv, JobTypeOK, Registers, ReadInv
<1>3. ASSUME NEW q \in Bound, r = q \/ AsAsked(q)
      PROVE  AsAsked(q)' /\ (r # q => asked'[q] = asked[q])
  <2>1. CASE r = q
    <3>1. Names(ts, q, asked'[q]) /\ Naming(ts, q) # {}
      BY <1>2, <2>1, CommandsName DEF Registers
    <3>. QED
      BY <1>2, <2>1, <3>1, IssueAsAsked
  <2>2. CASE r # q
    <3>1. Naming(ts, q) = {} /\ asked'[q] = asked[q]
      BY <1>2, <2>2 DEF Commands, Registers
    <3>. QED
      BY <1>2, <1>3, <2>2, <3>1, IssueAsAsked
  <2>. QED
    BY <2>1, <2>2
<1>4. DueAsAsked'
  BY <1>2, <1>3 DEF DueAsAsked, Bound, Ended
<1>5. /\ \A q : Naming(queue, q) # {} \/ Naming(ts, q) # {} => Naming(queue', q) # {}
      /\ \A i \in DOMAIN queue' : IF i <= Len(queue) THEN i \in DOMAIN queue /\ queue'[i] = queue[i]
                                 ELSE i - Len(queue) \in DOMAIN ts /\ queue'[i] = ts[i - Len(queue)]
      /\ pc = "idle" /\ UNCHANGED <<pc, sent, broken>>
  BY <1>2, IssueQueue
<1>6. JobQueue'
  <2>1. \A i \in DOMAIN queue' : queue'[i] # Write("dispatch")
    BY <1>2, <1>5 DEF JobQueue, Ended
  <2>2. asked'["rat"] # Unset => Naming(queue', "rat") # {}
    <3>1. CASE r = "rat"
      BY <1>2, <1>5, <3>1, CommandsName DEF Bound
    <3>2. CASE r # "rat"
      BY <1>2, <1>3, <1>5, <3>2 DEF JobQueue, Bound, Ended, Registers
    <3>. QED
      BY <3>1, <3>2
  <2>. QED
    BY <1>2, <1>5, <2>1, <2>2 DEF JobQueue
<1>. QED
  BY <1>2, <1>4, <1>6 DEF ReadInv, LastBatch

LEMMA FlushRead ==
  ASSUME JobIInv, ReadInv, flush
  PROVE  ReadInv'
<1>0. /\ TypeOK /\ SectionFilled /\ BufferTail /\ DueAsAsked /\ JobQueue /\ at = "flush"
      /\ UNCHANGED <<asked, done, regs, mem>>
  BY DEF JobIInv, IInv, ReadInv, flush, cardVars
<1>1. CASE (flush_cs_begin \/ flush_cs_dword \/ flush_cs_reloc) /\ UNCHANGED <<at, lost>>
  <2>1. UNCHANGED <<queue, sent, broken>>
    BY <1>1 DEF flush_cs_begin, flush_cs_dword, flush_cs_reloc, streamVars
  <2>2. \A r \in Bound : AsAsked(r) => AsAsked(r)'
    BY <1>0, <2>1, QuietAsAsked
  <2>3. DueAsAsked'
    BY <1>0, <1>1, <2>2 DEF DueAsAsked, Bound
  <2>. QED
    BY <1>0, <1>1, <2>1, <2>3 DEF ReadInv, JobQueue, LastBatch
<1>2. CASE \/ flush_cs_throws /\ Goto("uncaught") /\ UNCHANGED lost
           \/ flush_cs_aborts /\ Goto("aborted") /\ UNCHANGED lost
  <2>1. at' \in Ended /\ (broken' => at' = "uncaught") /\ pc' # "emit" /\ at' \notin {"new", "flushed", "read", "flush"}
    BY <1>0, <1>2 DEF flush_cs_throws, flush_cs_aborts, Goto, Ended, LeaveLoop, libdrmVars, JobQueue
  <2>. QED
    BY <2>1 DEF ReadInv, DueAsAsked, JobQueue, LastBatch
<1>3. CASE /\ flush_cs_end
           /\ Goto("flushed")
           /\ lost' = (lost \/ sent' = sent)
  <2>1. /\ pc = "emit" /\ pos = Len(queue) /\ ~ broken
        /\ queue' = <<>> /\ at' = "flushed" /\ ~ broken' /\ pc' = "idle"
        /\ sent' = sent \/ sent' = Append(sent, cs.buf)
    BY <1>0, <1>3 DEF flush_cs_end, LoopDone, EmitAndErase, LeaveLoop, Erase, Goto,
       Submitted, JobQueue
  <2>2. cs.buf = queue
    <3>1. /\ queue \in Seq(Token) /\ cs.buf \in Seq(Token) /\ Len(cs.buf) = Len(queue)
          /\ \A i \in 1 .. Len(queue) : cs.buf[Len(cs.buf) - pos + i] = queue[i]
      BY <1>0, <2>1 DEF TypeOK, CS, SectionFilled, BufferTail
    <3>2. \A i \in 1 .. Len(queue) : cs.buf[i] = queue[i]
      BY <2>1, <3>1
    <3>. QED
      BY <3>1, <3>2, SeqEqual
  <2>3. JobQueue'
    <3>1. \A i \in DOMAIN queue' : queue'[i] # Write("dispatch")
      BY <2>1
    <3>. QED
      BY <2>1, <3>1 DEF JobQueue
  <2>4. CASE lost'
    BY <2>3, <2>4 DEF ReadInv, DueAsAsked, LastBatch
  <2>5. CASE ~ lost'
    <3>1. ~ lost /\ sent' = Append(sent, queue) /\ done \in 0 .. Len(sent)
      BY <1>0, <1>3, <2>1, <2>2, <2>5 DEF JobIInv, JobTypeOK
    <3>2. ASSUME NEW r \in Bound, AsAsked(r) PROVE AsAsked(r)'
      <4> DEFINE v == asked[r]
      <4>1. Due(queue, regs, sent, done, r, v)
        BY <3>2 DEF AsAsked
      <4>. HIDE DEF v
      <4>2. queue \in Seq(Token) /\ sent \in Seq(Seq(Token))
        BY <1>0 DEF TypeOK
      <4>3. Due(<<>>, regs, Append(sent, queue), done, r, v)
        BY <3>1, <4>1, <4>2, DueSent
      <4>. QED
        BY <1>0, <2>1, <3>1, <4>3 DEF AsAsked, v
    <3>3. DueAsAsked'
      BY <1>0, <2>1, <3>1, <3>2 DEF DueAsAsked, Bound, Ended
    <3>4. /\ Len(sent') = Len(sent) + 1 /\ sent'[Len(sent')] = queue /\ done < Len(sent')
          /\ Len(sent) \in Nat
      BY <1>0, <3>1 DEF TypeOK
    <3>5. LastBatch'
      BY <1>0, <2>1, <3>4 DEF LastBatch, JobQueue, Ended
    <3>. QED
      BY <2>3, <3>3, <3>5 DEF ReadInv
  <2>. QED
    BY <2>4, <2>5
<1>. QED
  BY <1>1, <1>2, <1>3 DEF flush

\* The wait ends when the card has run the last batch, which relocates the
\* result.
LEMMA WaitRead ==
  ASSUME JobIInv, ReadInv, bo_wait
  PROVE  ReadInv'
<1>0. /\ TypeOK /\ DueAsAsked /\ JobQueue /\ LastBatch /\ at = "flushed" /\ at' = "read"
      /\ UNCHANGED <<vars, asked, lost, done, regs, mem>> /\ BoWait
      /\ done \in 0 .. Len(sent) /\ Len(sent) \in Nat
  BY DEF JobIInv, IInv, ReadInv, bo_wait, cardVars, Goto, JobTypeOK, TypeOK
<1>1. UNCHANGED <<queue, sent, broken, pc>>
  BY <1>0 DEF vars
<1>2. \A r \in Bound : AsAsked(r) => AsAsked(r)'
  BY <1>0, <1>1, QuietAsAsked
<1>3. DueAsAsked'
  BY <1>0, <1>2 DEF DueAsAsked, Bound, Ended
<1>4. JobQueue'
  BY <1>0, <1>1 DEF JobQueue, Ended
<1>5. ASSUME ~ lost, asked["rat"] # Unset PROVE done = Len(sent)
  <2>. SUFFICES ASSUME done < Len(sent) PROVE FALSE
    BY <1>0
  <2>1. /\ Naming(sent[Len(sent)], "rat") # {}
        /\ Settled(regs, sent, done, "rat", asked["rat"])
    BY <1>0, <1>5, NothingNamed DEF LastBatch, DueAsAsked, AsAsked, Due, JobQueue, Ended
  <2>2. Len(sent) \in done + 1 .. Len(sent)
    BY <1>0
  <2>3. PICK n \in done + 1 .. Len(sent) :
               /\ Names(sent[n], "rat", asked["rat"])
               /\ \A m \in done + 1 .. Len(sent) : m > n => Naming(sent[m], "rat") = {}
    BY <2>1, <2>2 DEF Settled
  <2>4. PICK i \in Naming(sent[n], "rat") : sent[n][i].bo = asked["rat"]
    BY <2>3 DEF Names
  <2>5. i \in DOMAIN sent[n] /\ IsReloc(sent[n][i])
    <3>1. n \in DOMAIN sent /\ sent[n] \in Seq(Token)
      BY <1>0, ElementOfSeq DEF TypeOK
    <3>. QED
      BY <2>4, <3>1 DEF Naming
  <2>6. Busy(asked["rat"])
    BY <2>4, <2>5 DEF Busy
  <2>. QED
    BY <1>0, <1>5, <2>6 DEF BoWait
<1>6. LastBatch'
  BY <1>0, <1>1, <1>5 DEF LastBatch, Wanted
<1>. QED
  BY <1>3, <1>4, <1>6 DEF ReadInv

\* The one dispatch of a batch writes the object the RAT names, with what the
\* registers hold at the end of the batch.
LEMMA DispatchedLast ==
  ASSUME NEW s \in Seq(Token), EndsInDispatch(s), NEW rs, NEW m,
         NEW b \in BO, RegsAfter(s, Len(s), rs)["rat"] = b,
         RegsAfter(s, Len(s), rs)["shader"] # Unset
  PROVE  LET by == RegsAfter(s, Len(s), rs)
         IN  Dispatched(s, rs, m)[b]
               = [shader |-> by["shader"], fetch |-> by["fetch"], const |-> by["const"]]
<1>1. Len(s) \in DOMAIN s /\ \A i \in DOMAIN s : s[i] = Write("dispatch") <=> i = Len(s)
  BY DEF EndsInDispatch
<1>2. DispatchesTo(s, rs, b) = {Len(s)}
  BY <1>1 DEF DispatchesTo
<1>3. Max({Len(s)}) = Len(s)
  BY MaxIs
<1>. QED
  BY <1>2, <1>3 DEF Dispatched

LEMMA RunRead ==
  ASSUME JobIInv, ReadInv, run_batch
  PROVE  ReadInv'
<1>0. /\ DueAsAsked /\ JobQueue /\ LastBatch
      /\ UNCHANGED <<vars, at, asked, lost>>
      /\ done \in Nat /\ done < Len(sent) /\ sent \in Seq(Seq(Token)) /\ done' = done + 1
      /\ regs' = RegsAfter(sent[done + 1], Len(sent[done + 1]), regs)
      /\ mem' = Dispatched(sent[done + 1], regs, mem)
      /\ asked \in Registers /\ ShaderAsked
  BY DEF JobIInv, IInv, ReadInv, run_batch, progVars, JobTypeOK, TypeOK, Registers
<1>1. UNCHANGED <<queue, sent, broken, pc>>
  BY <1>0 DEF vars
<1>2. ASSUME NEW r \in Bound, AsAsked(r)
      PROVE  AsAsked(r)'
  <2> DEFINE v == asked[r]
             new == RegsAfter(sent[done + 1], Len(sent[done + 1]), regs)
  <2>1. Due(queue, regs, sent, done, r, v)
    BY <1>2 DEF AsAsked
  <2>. HIDE DEF v
  <2>2. Settled(regs, sent, done, r, v) => Settled(new, sent, done + 1, r, v)
    BY <1>0, SettledRun
  <2>. HIDE DEF new
  <2>3. Due(queue, new, sent, done + 1, r, v)
    BY <2>1, <2>2 DEF Due
  <2>. QED
    BY <1>0, <1>1, <2>3 DEF AsAsked, v, new
<1>3. DueAsAsked'
  BY <1>0, <1>2 DEF DueAsAsked, Bound, Ended
<1>4. JobQueue'
  BY <1>0, <1>1 DEF JobQueue, Ended
<1>5. ASSUME at \in {"flushed", "read"}, ~ lost, asked["rat"] # Unset, done + 1 = Len(sent)
      PROVE  mem'[asked["rat"]] = Wanted
  <2> DEFINE s == sent[done + 1]
             new == RegsAfter(s, Len(s), regs)
  <2>1. s \in Seq(Token) /\ EndsInDispatch(s)
    BY <1>0, <1>5 DEF LastBatch
  <2>2. AsAsked("fetch") /\ AsAsked("const") /\ AsAsked("shader") /\ AsAsked("rat")
    BY <1>0, <1>5 DEF DueAsAsked, Ended
  <2>3. \A r \in Bound : Settled(new, sent, done + 1, r, asked[r]) => new[r] = asked[r]
    BY <1>0, <1>5 DEF Settled
  <2>4. \A r \in Bound : new[r] = asked[r]
    <3>1. SUFFICES ASSUME NEW r \in Bound PROVE new[r] = asked[r]
      OBVIOUS
    <3> DEFINE v == asked[r]
    <3>2. Settled(regs, sent, done, r, v)
      BY <1>0, <1>5, <2>2, NothingNamed DEF AsAsked, Due, JobQueue, Bound
    <3>. HIDE DEF v
    <3>3. Settled(new, sent, done + 1, r, v)
      BY <1>0, <3>2, SettledRun
    <3>. QED
      BY <2>3, <3>3 DEF v
  <2>5. asked["rat"] \in BO /\ asked["shader"] # Unset
    BY <1>0, <1>5, ShaderAssumption, UnsetAssumption DEF Registers, Bound, ShaderAsked
  <2>6. new["rat"] = asked["rat"] /\ new["shader"] = asked["shader"]
        /\ new["fetch"] = asked["fetch"] /\ new["const"] = asked["const"]
    BY <2>4 DEF Bound
  <2>7. Dispatched(s, regs, mem)[asked["rat"]]
          = [shader |-> new["shader"], fetch |-> new["fetch"], const |-> new["const"]]
    BY <2>1, <2>5, <2>6, DispatchedLast
  <2>. QED
    BY <1>0, <2>6, <2>7 DEF Wanted
<1>6. LastBatch'
  <2>. SUFFICES ASSUME at \in {"flushed", "read"}, ~ lost, asked["rat"] # Unset
                PROVE  /\ Len(sent) > 0
                       /\ EndsInDispatch(sent[Len(sent)])
                       /\ Naming(sent[Len(sent)], "rat") # {}
                       /\ done + 1 = Len(sent) => mem'[asked["rat"]] = Wanted
                       /\ at = "read" => done + 1 = Len(sent)
    BY <1>0, <1>1 DEF LastBatch, Wanted
  <2>. QED
    BY <1>0, <1>5 DEF LastBatch
<1>. QED
  BY <1>3, <1>4, <1>6 DEF ReadInv

\* A flush from within the check finds libdrm's buffer empty: the queue of the
\* job under way stays as it is, and no batch goes to the kernel.
LEMMA CheckRead ==
  ASSUME JobIInv, ReadInv, load_shader_check
  PROVE  ReadInv'
<1>0. /\ DueAsAsked /\ JobQueue /\ at = "check" /\ ~ broken
      /\ UNCHANGED <<asked, lost, done, regs, mem>>
      /\ pc = "idle" /\ cs = EmptyCS
  BY DEF JobIInv, IInv, ReadInv, JobQueue, NothingLeftOver, load_shader_check, cardVars,
     space_check_fits, space_check_flushes, space_check_throws_at_once,
     space_check_throws_after_flush, space_check_aborts
<1>1. /\ UNCHANGED <<queue, sent>> /\ ~ broken' /\ pc' # "emit"
      /\ at' = "prepare" \/ at' \in {"no_memory", "aborted"}
  BY <1>0 DEF load_shader_check, space_check_fits, space_check_flushes,
     space_check_throws_at_once, space_check_throws_after_flush, space_check_aborts,
     FlushCallback, EmitAndErase, Submitted, EmptyCS, flushVars, streamVars, libdrmVars,
     Goto
<1>2. \A r \in Bound : AsAsked(r) => AsAsked(r)'
  BY <1>0, <1>1, QuietAsAsked
<1>3. DueAsAsked'
  BY <1>0, <1>1, <1>2 DEF DueAsAsked, Bound, Ended
<1>4. JobQueue' /\ LastBatch'
  BY <1>0, <1>1 DEF JobQueue, LastBatch, Ended
<1>. QED
  BY <1>3, <1>4 DEF ReadInv

LEMMA PrepareRead ==
  ASSUME JobIInv, ReadInv, load_shader_prepare
  PROVE  ReadInv'
<1> DEFINE b == asked["shader"]
           a == Reading("vram")
           ts == <<Write("sync"), Relocate(b, a), Write("shader"), Relocate(b, a)>>
<1>1. b \in BO /\ a \in AnyDomain
  BY ShaderAssumption DEF load_shader_prepare, JobIInv, ShaderAsked, Reading, AnyDomain,
     Domain
<1>2. Commands(ts, "shader", b, a) /\ Names(ts, "shader", b)
  BY <1>1, CommandsSynced, CommandsName DEF Register, Bound
<1>3. /\ Issue(ts, <<>>) /\ at = "prepare" /\ at' = "dispatch" /\ TypeOK
      /\ UNCHANGED <<asked, lost, done, regs, mem>> /\ DueAsAsked /\ JobQueue
  BY DEF load_shader_prepare, prepare_compute_shader, Goto, cardVars, JobIInv, IInv, ReadInv
<1>. HIDE DEF ts, b
<1>4. /\ ts \in Seq(Token) /\ Len(ts) > 0 /\ ~ IsReloc(ts[1])
      /\ \A i \in DOMAIN ts : ts[i] # Write("dispatch")
      /\ \A q \in Bound \ {"shader"} : Naming(ts, q) = {}
      /\ Naming(ts, "shader") # {}
  BY <1>2 DEF Commands, Bound
<1>5. AsAsked("shader")'
  BY <1>2, <1>3, <1>4, IssueAsAsked DEF b
<1>6. \A q \in Bound \ {"shader"} : AsAsked(q) => AsAsked(q)'
  BY <1>3, <1>4, IssueAsAsked
<1>7. DueAsAsked'
  BY <1>3, <1>5, <1>6 DEF DueAsAsked, Bound, Ended
<1>8. /\ \A q : Naming(queue, q) # {} => Naming(queue', q) # {}
      /\ \A i \in DOMAIN queue' : IF i <= Len(queue) THEN i \in DOMAIN queue /\ queue'[i] = queue[i]
                                 ELSE i - Len(queue) \in DOMAIN ts /\ queue'[i] = ts[i - Len(queue)]
      /\ pc = "idle" /\ UNCHANGED <<pc, sent, broken>>
  BY <1>3, <1>4, IssueQueue
<1>9. JobQueue'
  <2>1. \A i \in DOMAIN queue' : queue'[i] # Write("dispatch")
    BY <1>3, <1>4, <1>8 DEF JobQueue, Ended
  <2>. QED
    BY <1>3, <1>8, <2>1 DEF JobQueue, Ended
<1>. QED
  BY <1>3, <1>7, <1>9 DEF ReadInv, LastBatch

\* init_gpu forgets what was queued, set_default_state is queued behind it:
\* neither names an object.
LEMMA DefaultRead ==
  ASSUME JobIInv, ReadInv, construct \/ enter_main
  PROVE  ReadInv'
<1> DEFINE ts == <<Write("default")>>
           es == <<>>
<1>1. /\ ts \in Seq(Token) /\ Len(ts) > 0 /\ ~ IsReloc(ts[1])
      /\ \A i \in DOMAIN ts : ts[i] # Write("dispatch")
      /\ \A q \in Bound : Naming(ts, q) = {}
  BY TokenType DEF Register, Naming, Write
<1>2. /\ TypeOK /\ DueAsAsked /\ JobQueue /\ UNCHANGED <<asked, lost, done, regs, mem>>
      /\ at' \notin {"new", "flushed", "read", "flush"} \cup Ended
  BY DEF JobIInv, IInv, ReadInv, construct, enter_main, cardVars, Goto, Ended
<1>3. CASE construct
  <2>1. /\ at = "new" /\ at' = "main" /\ queue' = ts /\ queue = <<>> /\ pc' = pc /\ pc = "idle"
        /\ UNCHANGED <<sent, broken>> /\ asked["rat"] = Unset
    BY <1>2, <1>3 DEF construct, init_gpu, flushVars, libdrmVars, Goto, JobQueue
  <2>. HIDE DEF ts
  <2>2. \A q \in Bound : AsAsked(q) => AsAsked(q)'
    <3>1. SUFFICES ASSUME NEW q \in Bound, AsAsked(q) PROVE AsAsked(q)'
      OBVIOUS
    <3> DEFINE v == asked[q]
    <3>2. Settled(regs, sent, done, q, v)
      BY <2>1, <3>1, NothingNamed DEF AsAsked, Due
    <3>. HIDE DEF v
    <3>3. Due(ts, regs, sent, done, q, v)
      BY <1>1, <3>2 DEF Due
    <3>. QED
      BY <1>2, <2>1, <3>3 DEF AsAsked, v
  <2>3. DueAsAsked'
    BY <1>2, <2>1, <2>2 DEF DueAsAsked, Bound, Ended
  <2>4. JobQueue'
    BY <1>1, <1>2, <2>1 DEF JobQueue, Ended
  <2>. QED
    BY <1>2, <2>3, <2>4 DEF ReadInv, LastBatch
<1>4. CASE enter_main
  <2>1. Issue(ts, es) /\ at = "main" /\ at' = "setting"
    BY <1>4 DEF enter_main, set_default_state, Goto
  <2>. HIDE DEF ts, es
  <2>2. \A q \in Bound : AsAsked(q) => AsAsked(q)'
    BY <1>1, <1>2, <2>1, IssueAsAsked
  <2>3. DueAsAsked'
    BY <1>2, <2>1, <2>2 DEF DueAsAsked, Bound, Ended
  <2>4. /\ \A q : Naming(queue, q) # {} => Naming(queue', q) # {}
        /\ \A i \in DOMAIN queue' : IF i <= Len(queue) THEN i \in DOMAIN queue /\ queue'[i] = queue[i]
                                 ELSE i - Len(queue) \in DOMAIN ts /\ queue'[i] = ts[i - Len(queue)]
        /\ pc = "idle" /\ UNCHANGED <<pc, sent, broken>>
    BY <1>1, <1>2, <2>1, IssueQueue
  <2>5. JobQueue'
    <3>1. \A i \in DOMAIN queue' : queue'[i] # Write("dispatch")
      BY <1>1, <1>2, <2>1, <2>4 DEF JobQueue, Ended
    <3>. QED
      BY <1>2, <2>1, <2>4, <3>1 DEF JobQueue, Ended
  <2>. QED
    BY <1>2, <2>3, <2>5 DEF ReadInv, LastBatch
<1>. QED
  BY <1>3, <1>4

LEMMA DispatchRead ==
  ASSUME JobIInv, ReadInv, dispatch
  PROVE  ReadInv'
<1> DEFINE ts == <<Write("dispatch")>>
           es == <<>>
<1>1. /\ ts \in Seq(Token) /\ Len(ts) = 1 /\ Len(ts) > 0 /\ ~ IsReloc(ts[1])
      /\ DOMAIN ts = {1} /\ ts[1] = Write("dispatch")
      /\ \A q \in Bound : Naming(ts, q) = {}
  BY TokenType DEF Register, Naming, Write
<1>2. /\ TypeOK /\ DueAsAsked /\ JobQueue /\ UNCHANGED <<asked, lost, done, regs, mem>>
      /\ Issue(ts, es) /\ at = "dispatch" /\ at' = "flush"
  BY DEF JobIInv, IInv, ReadInv, dispatch, direct_dispatch, cardVars, Goto
<1>. HIDE DEF ts, es
<1>3. \A q \in Bound : AsAsked(q) => AsAsked(q)'
  BY <1>1, <1>2, IssueAsAsked
<1>4. DueAsAsked'
  BY <1>2, <1>3 DEF DueAsAsked, Bound, Ended
<1>5. /\ \A q : Naming(queue, q) # {} => Naming(queue', q) # {}
      /\ \A i \in DOMAIN queue' : IF i <= Len(queue) THEN i \in DOMAIN queue /\ queue'[i] = queue[i]
                                 ELSE i - Len(queue) \in DOMAIN ts /\ queue'[i] = ts[i - Len(queue)]
      /\ Len(queue') = Len(queue) + Len(ts)
      /\ pc = "idle" /\ UNCHANGED <<pc, sent, broken>>
  BY <1>1, <1>2, IssueQueue
<1>6. EndsInDispatch(queue')
  <2>1. \A i \in DOMAIN queue : queue[i] # Write("dispatch")
    BY <1>2 DEF JobQueue, Ended
  <2>2. Len(queue) \in Nat /\ queue' \in Seq(Token)
    BY <1>1, <1>2 DEF TypeOK, Issue
  <2>3. Len(queue') = Len(queue) + 1 /\ DOMAIN queue' = 1 .. Len(queue')
    BY <1>1, <1>5, <2>2
  <2>4. \A i \in DOMAIN queue' : queue'[i] = Write("dispatch") <=> i = Len(queue')
    BY <1>1, <1>5, <2>1, <2>2, <2>3
  <2>. QED
    BY <2>2, <2>3, <2>4 DEF EndsInDispatch
<1>7. JobQueue'
  BY <1>2, <1>5, <1>6 DEF JobQueue, Ended
<1>. QED
  BY <1>2, <1>4, <1>7 DEF ReadInv, LastBatch

LEMMA QuietRead ==
  ASSUME JobIInv, ReadInv,
         \/ \E sh \in Shader : load_shader(sh)
         \/ next_job \/ return_from_main \/ UNCHANGED jobVars
  PROVE  ReadInv'
<1>0. DueAsAsked /\ JobQueue /\ LastBatch /\ asked \in Registers
  BY DEF JobIInv, JobTypeOK, ReadInv, Registers
<1>1. /\ UNCHANGED <<queue, sent, broken, lost, done, regs, mem>>
      /\ pc' = "emit" => pc = "emit"
  BY DEF load_shader, load_shader_register, add_persistent_bo, next_job, return_from_main,
     destroy, jobVars, progVars, cardVars, vars, flushVars, streamVars, libdrmVars
<1>2. \A r \in Bound : AsAsked(r) /\ asked'[r] = asked[r] => AsAsked(r)'
  BY <1>1, QuietAsAsked
<1>3. CASE \E sh \in Shader : load_shader(sh)
  <2>1. /\ at = "setting" /\ at' = "check"
        /\ \A r \in Bound \ {"shader"} : asked'[r] = asked[r]
    BY <1>0, <1>3 DEF load_shader, Goto, Registers
  <2>2. DueAsAsked'
    BY <1>0, <1>1, <1>2, <2>1 DEF DueAsAsked, Bound, Ended
  <2>. QED
    BY <1>0, <1>1, <2>1, <2>2 DEF ReadInv, JobQueue, LastBatch, Bound, Ended
<1>4. CASE next_job
  <2>1. /\ at \in {"flushed", "read"} /\ at' = "setting"
        /\ \A r \in Bound \ {"rat"} : asked'[r] = asked[r]
        /\ asked'["rat"] = Unset
    BY <1>0, <1>4 DEF next_job, Goto, Registers, Bound
  <2>2. DueAsAsked'
    BY <1>0, <1>1, <1>2, <2>1 DEF DueAsAsked, Bound, Ended
  <2>. QED
    BY <1>0, <1>1, <2>1, <2>2 DEF ReadInv, JobQueue, LastBatch, Ended
<1>5. CASE return_from_main
  <2>1. at = "read" /\ at' = "returned"
    BY <1>5 DEF return_from_main, Goto
  <2>2. pc' = "dead"
    BY <1>5 DEF return_from_main, destroy
  <2>. QED
    BY <1>0, <1>1, <2>1, <2>2 DEF ReadInv, DueAsAsked, JobQueue, LastBatch, Ended
<1>6. CASE UNCHANGED jobVars
  <2>1. UNCHANGED <<at, asked>>
    BY <1>6 DEF jobVars, progVars
  <2>2. DueAsAsked'
    BY <1>0, <1>1, <1>2, <2>1 DEF DueAsAsked, Bound
  <2>. QED
    BY <1>0, <1>1, <2>1, <2>2 DEF ReadInv, JobQueue, LastBatch, Wanted
<1>. QED
  BY <1>3, <1>4, <1>5, <1>6

LEMMA ReadStep ==
  ASSUME JobIInv, ReadInv, [JobNext]_jobVars
  PROVE  ReadInv'
BY DefaultRead, SetterRead, CheckRead, PrepareRead, DispatchRead, FlushRead, WaitRead,
   RunRead, QuietRead DEF JobNext, Program

-----------------------------------------------------------------------------
(* The result.                                                             *)

LEMMA ReadCurrent == ASSUME ReadInv PROVE ReadbackCurrent
  BY DEF ReadInv, LastBatch, ReadbackCurrent, Wanted

\* What a program reads back is what its last job computed, with the shader
\* and the objects it asked for last: for every program, also one that names
\* an object with two domains or calls setters behind load_shader, whatever
\* the memory check decides, and however far the card lags behind.
THEOREM ReadbackCurrentCorrect == JobSpec => []ReadbackCurrent
<1>1. JobInit => JobIInv
  BY InitJob
<1>2. JobIInv /\ [JobNext]_jobVars => JobIInv'
  BY JobStep
<1>3. JobIInv /\ ReadInv /\ [JobNext]_jobVars => ReadInv'
  BY ReadStep
<1>4. ReadInv => ReadbackCurrent
  BY ReadCurrent
<1>. QED
  BY <1>1, <1>2, <1>3, <1>4, InitRead, PTL DEF JobSpec
=============================================================================
