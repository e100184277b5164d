----------------------------- MODULE SharedCard -----------------------------
(***************************************************************************)
(* Several programs on one card.  Each has an r800_state and a stream of   *)
(* its own (src/r800_state.cpp), but the registers their batches write are *)
(* the card's: they keep what the last batch put there, whoever sent it.   *)
(*                                                                         *)
(* A program makes its jobs as those under src/tests do: set_default_state *)
(* once, the setters the job needs, no GDS, scratch ring or LDS unless it  *)
(* asks for them, load_shader, direct_dispatch, flush_cs.                  *)
(***************************************************************************)
EXTENDS Setters

CONSTANTS
  Prog,          \* programs
  Nobody,        \* no program
  StartOf,       \* where the objects of each program lie, in 256 bytes
  ShaderOf,      \* what the shader of each program asks for, nothing or all
  LocalOf,       \* the group each program dispatches
  Single,        \* setters without an index that the programs may call
  RatId, LoopCount,        \* indices of the others
  MaxJobs,       \* bound: jobs of a program
  MaxSets        \* bound: setters a job calls

ASSUME ProgAssumption ==
  /\ Nobody \notin Prog
  /\ StartOf \in [Prog -> Nat] /\ ShaderOf \in [Prog -> Load]
  /\ \A p \in Prog : Len(LocalOf[p]) < 4
  /\ Single \subseteq {"lds", "gds", "ring", "export", "engine", "const", "fetch"}
  /\ RatId \subseteq 0 .. 11 /\ LoopCount \subseteq 1 .. 32
  /\ MaxJobs \in Nat /\ MaxSets \in Nat

VARIABLES
  pc,            \* where each program is
  jobs,          \* jobs each program has begun
  called,        \* the setters of its current job
  batch,         \* registers its queue writes, a partial function on addresses
  fresh,         \* whether set_default_state is among what it queued
  defaulted,     \* whether the kernel took a batch of it with the default state
  regs,          \* the card's registers
  last           \* the program whose batch the card ran last

vars == <<pc, jobs, called, batch, fresh, defaulted, regs, last>>

-----------------------------------------------------------------------------
(* What a run of writes leaves in the registers.                           *)

\* A surface sync is done when the next packet is read: what it writes is no
\* state that anything later finds.
OneEffect(w) ==
  IF w.op # "SET" THEN <<>>
  ELSE [r \in {w.at + 4 * (i - 1) : i \in DOMAIN w.words} |->
          Value(w.words[(r - w.at) \div 4 + 1])]

Effect(writes) == FoldLeft(LAMBDA f, w : Over(OneEffect(w), f), <<>>, writes)

\* The setters a job may leave out: a name, and an index if it has one.
Setter ==
  (Single \X {0}) \cup ({"rat"} \X RatId) \cup ({"loop"} \X LoopCount)

SetterWrites(p, c) ==
  CASE c[1] = "lds" -> set_lds(1)
    [] c[1] = "gds" -> set_gds(1)
    [] c[1] = "ring" -> set_tmp_ring(StartOf[p])
    [] c[1] = "export" -> set_export(StartOf[p])
    [] c[1] = "engine" -> select_se(1)
    [] c[1] = "const" -> setup_const_cache(c[2], StartOf[p], 1)
    [] c[1] = "fetch" -> set_vtx_resource(816 + c[2], StartOf[p], 0, 1)
    [] c[1] = "rat" -> set_rat(c[2], StartOf[p])
    [] c[1] = "loop" -> set_loop_consts(c[2], 1)

SetterEffect == [p \in Prog |-> [c \in Setter |-> Effect(SetterWrites(p, c))]]

\* How a program says that it does not use one of these.
UnusedWrites(name) ==
  CASE name = "lds" -> set_lds(0) [] name = "gds" -> set_gds(0) [] name = "ring" -> no_tmp_ring

UnusedEffect == [c \in {"lds", "gds", "ring"} \X {0} |-> Effect(UnusedWrites(c[1]))]

ShaderEffect == [p \in Prog |-> Effect(prepare_compute_shader(ShaderOf[p]))]
DispatchEffect == [p \in Prog |-> Effect(direct_dispatch(LocalOf[p]))]

\* Registers that only the default state writes have its value once any
\* program has set it: they are left out.
Shared ==
  (UNION {DOMAIN ShaderEffect[p] \cup DOMAIN DispatchEffect[p] : p \in Prog})
    \cup (UNION {DOMAIN UnusedEffect[c] : c \in DOMAIN UnusedEffect})
    \cup (UNION {DOMAIN SetterEffect[p][c] : p \in Prog, c \in Setter})

DefaultEffect ==
  LET all == Effect(set_default_state)
  IN  Restrict(all, DOMAIN all \cap Shared)

TypeOK ==
  /\ pc \in [Prog -> {"new", "setting", "loaded", "dispatched", "flushed"}]
  /\ jobs \in [Prog -> 0 .. MaxJobs]
  /\ \A p \in Prog : called[p] \subseteq Setter /\ Cardinality(called[p]) <= MaxSets
  /\ fresh \in [Prog -> BOOLEAN] /\ defaulted \in [Prog -> BOOLEAN]
  /\ \A p \in Prog : pc[p] \in {"new", "flushed"} => batch[p] = <<>>
  /\ \A r \in DOMAIN regs : regs[r] \subseteq Bit
  /\ last \in Prog \cup {Nobody}

Init ==
  /\ pc = [p \in Prog |-> "new"]
  /\ jobs = [p \in Prog |-> 0]
  /\ called = [p \in Prog |-> {}]
  /\ batch = [p \in Prog |-> <<>>]
  /\ fresh = [p \in Prog |-> FALSE]
  /\ defaulted = [p \in Prog |-> FALSE]
  /\ regs = <<>>
  /\ last = Nobody

-----------------------------------------------------------------------------
(* The programs.                                                           *)

Step(p, from, to) == pc[p] = from /\ pc' = [pc EXCEPT ![p] = to]

Queue(p, effect) ==
  /\ batch' = [batch EXCEPT ![p] = Over(effect, @)]
  /\ last' = IF last = p THEN Nobody ELSE last

cardVars == <<defaulted, regs>>

\* init_gpu queues the default state, and so do the programs.
construct(p) ==
  /\ Step(p, "new", "setting")
  /\ MaxJobs > 0
  /\ jobs' = [jobs EXCEPT ![p] = 1]
  /\ Queue(p, DefaultEffect)
  /\ fresh' = [fresh EXCEPT ![p] = TRUE]
  /\ UNCHANGED <<called, cardVars>>

\* Another job, with the default state set again or not.
next_job(p, again) ==
  /\ Step(p, "flushed", "setting")
  /\ jobs[p] < MaxJobs
  /\ jobs' = [jobs EXCEPT ![p] = @ + 1]
  /\ called' = [called EXCEPT ![p] = {}]
  /\ Queue(p, IF again THEN DefaultEffect ELSE <<>>)
  /\ fresh' = [fresh EXCEPT ![p] = again]
  /\ UNCHANGED cardVars

set(p, c) ==
  /\ Step(p, "setting", "setting")
  /\ c \notin called[p] /\ Cardinality(called[p]) < MaxSets
  /\ called' = [called EXCEPT ![p] = @ \cup {c}]
  /\ Queue(p, SetterEffect[p][c])
  /\ UNCHANGED <<jobs, fresh, cardVars>>

Settled(p) ==
  FoldFunctionOnSet(Over, ShaderEffect[p], UnusedEffect, DOMAIN UnusedEffect \ called[p])

load_shader(p) ==
  /\ Step(p, "setting", "loaded")
  /\ Queue(p, Settled(p))
  /\ UNCHANGED <<jobs, called, fresh, cardVars>>

dispatch(p) ==
  /\ Step(p, "loaded", "dispatched")
  /\ Queue(p, DispatchEffect[p])
  /\ UNCHANGED <<jobs, called, fresh, cardVars>>

\* Bug: the queue is flushed and not erased.
FlushWithoutErase(p) ==
  /\ Step(p, "dispatched", "flushed")
  /\ regs' = Over(batch[p], regs)
  /\ defaulted' = [defaulted EXCEPT ![p] = @ \/ fresh[p]]
  /\ last' = p
  /\ UNCHANGED <<jobs, called, batch, fresh>>

\* The card runs batches whole and in the order of the flushes, so a flush is
\* as good a time as any for it; or the kernel refuses the batch.
flush_cs(p) ==
  /\ Step(p, "dispatched", "flushed")
  /\ batch' = [batch EXCEPT ![p] = <<>>]
  /\ \/ /\ regs' = Over(batch[p], regs)
        /\ defaulted' = [defaulted EXCEPT ![p] = @ \/ fresh[p]]
        /\ last' = p
     \/ UNCHANGED <<regs, defaulted, last>>
  /\ UNCHANGED <<jobs, called, fresh>>

Next ==
  \E p \in Prog :
    \/ construct(p)
    \/ \E again \in BOOLEAN : next_job(p, again)
    \/ \E c \in Setter : set(p, c)
    \/ load_shader(p)
    \/ dispatch(p)
    \/ flush_cs(p)

Spec == Init /\ [][Next]_vars

-----------------------------------------------------------------------------
(* Safety.                                                                 *)

\* The registers that tell a job it has no LDS, no GDS and no scratch ring.
Telling(name) ==
  CASE name = "lds" -> {\h8e2c, \h288e8}
    [] name = "gds" -> {\h28720, \h28724}
    [] name = "ring" -> {\h8e14}

\* What the job of p is to find: the default state, unless it set a register
\* itself, and nothing of what it said it does not use.
Meant(p) ==
  LET own == FoldFunctionOnSet(Over, Over(DispatchEffect[p], ShaderEffect[p]),
                               SetterEffect[p], called[p])
      none == UNION {Telling(c[1]) : c \in DOMAIN UnusedEffect \ called[p]}
  IN  Over(own, Over([r \in none |-> {}], DefaultEffect))

\* The default values that setters change: the size of a RAT, the export
\* buffer's size and the first loop constant.
Changeable == {\h9014, LoopConst(0)} \cup {Dim(id) : id \in RatId}

SetBy(p) == UNION {DOMAIN SetterEffect[p][c] : c \in called[p]}

(***************************************************************************)
(* A job finds every register as its program meant it, whatever other      *)
(* programs, and earlier jobs of its own, left there: their shaders, their *)
(* groups, their LDS, GDS and rings.  A later job may even leave out       *)
(* set_default_state: only three kinds of default values are then not to   *)
(* be relied upon.                                                         *)
(***************************************************************************)
OwnRegisters ==
  last # Nobody /\ defaulted[last] =>
    LET meant == Meant(last)
    IN  \A r \in DOMAIN meant :
          \/ r \in DOMAIN regs /\ regs[r] = meant[r]
          \/ ~ fresh[last] /\ r \in Changeable \ SetBy(last)
=============================================================================
