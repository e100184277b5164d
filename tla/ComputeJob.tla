----------------------------- MODULE ComputeJob -----------------------------
(***************************************************************************)
(* A program that runs jobs on the card, as main.cpp and the programs      *)
(* under tests do: it sets the registers of a job, loads a shader,         *)
(* dispatches it, flushes, waits for the result and reads it.  The card    *)
(* runs the batches the kernel took in its own time.                       *)
(*                                                                         *)
(* The programs catch nothing: what the stream throws ends them.           *)
(***************************************************************************)
EXTENDS R800State, FiniteSetsExt

CONSTANTS
  Shader,        \* the objects of compute_shaders
  Home,          \* the memory domains the program names each object with
  Late,          \* whether it calls setters after load_shader, too
  MaxJobs,       \* bound: jobs of a program
  MaxSets        \* bound: setters called for a job

ASSUME ShaderAssumption == Shader \subseteq BO
ASSUME HomeAssumption ==
  /\ Home \in [BO -> SUBSET Domain]
  /\ Late \in BOOLEAN
ASSUME JobAssumption == MaxJobs \in Nat /\ MaxSets \in Nat

VARIABLES
  at,            \* where the program is
  jobs, sets,    \* jobs begun, setters called for the current one
  asked,         \* history: the objects the program asked for last
  lost,          \* history: the kernel refused a batch
  done,          \* batches the card has run
  regs, mem      \* the card's registers, and what wrote each object last

progVars == <<at, jobs, sets, asked, lost>>
cardVars == <<done, regs, mem>>
jobVars == <<vars, progVars, cardVars>>

\* No object.
Unset == "unset"

ASSUME UnsetAssumption == Unset \notin BO

Bound == {"fetch", "const", "rat", "shader"}
Result == [{"shader", "fetch", "const"} -> BO \cup {Unset}]
Blank == [r \in {"shader", "fetch", "const"} |-> Unset]

Buffer == BO \ Shader
Ended == {"returned", "uncaught", "no_memory", "aborted"}

JobTypeOK ==
  /\ TypeOK
  /\ at \in {"new", "main", "setting", "check", "prepare", "dispatch", "flush",
             "flushed", "read"} \cup Ended
  /\ jobs \in 0 .. MaxJobs /\ sets \in 0 .. MaxSets
  /\ asked \in [Bound -> BO \cup {Unset}]
  /\ lost \in BOOLEAN
  /\ done \in 0 .. Len(sent)
  /\ regs \in [Bound -> BO \cup {Unset}]
  /\ mem \in [BO -> Result]

JobInit ==
  /\ Init
  /\ at = "new"
  /\ jobs = 0 /\ sets = 0
  /\ asked = [r \in Bound |-> Unset]
  /\ lost = FALSE
  /\ done = 0
  /\ regs = [r \in Bound |-> Unset]
  /\ mem = [b \in BO |-> Blank]

-----------------------------------------------------------------------------
(* The card.                                                               *)

\* A relocation gives the register written before it its object.
Naming(s, r) == {i \in 2 .. Len(s) : IsReloc(s[i]) /\ s[i - 1] = Write(r)}

\* The registers after n tokens of a batch: of several objects the last one.
RegsAfter(s, n, rs) ==
  [r \in Bound |->
     LET named == Naming(s, r) \cap 1 .. n
     IN  IF named = {} THEN rs[r] ELSE s[Max(named)].bo]

\* A dispatch writes the object the RAT names by then.
DispatchesTo(s, rs, b) ==
  {i \in DOMAIN s :
     /\ s[i] = Write("dispatch")
     /\ RegsAfter(s, i, rs)["rat"] = b
     /\ RegsAfter(s, i, rs)["shader"] # Unset}

Dispatched(s, rs, m) ==
  [b \in BO |->
     LET to == DispatchesTo(s, rs, b)
         by == RegsAfter(s, Max(to), rs)
     IN  IF to = {} THEN m[b]
         ELSE [shader |-> by["shader"], fetch |-> by["fetch"], const |-> by["const"]]]

run_batch ==
  /\ done < Len(sent)
  /\ done' = done + 1
  /\ regs' = RegsAfter(sent[done + 1], Len(sent[done + 1]), regs)
  /\ mem' = Dispatched(sent[done + 1], regs, mem)
  /\ UNCHANGED <<vars, progVars>>

Busy(b) ==
  \E n \in done + 1 .. Len(sent) : \E i \in DOMAIN sent[n] :
    IsReloc(sent[n][i]) /\ sent[n][i].bo = b

-----------------------------------------------------------------------------
(* The program.                                                            *)

Goto(l) == at' = l

construct ==
  /\ at = "new"
  /\ init_gpu
  /\ Goto("main")
  /\ UNCHANGED <<jobs, sets, asked, lost, cardVars>>

enter_main ==
  /\ at = "main"
  /\ MaxJobs > 0
  /\ set_default_state
  /\ Goto("setting")
  /\ jobs' = 1
  /\ UNCHANGED <<sets, asked, lost, cardVars>>

Setter(r, b, call) ==
  /\ at = "setting" \/ (Late /\ at = "dispatch")
  /\ sets < MaxSets
  /\ call
  /\ sets' = sets + 1
  /\ asked' = IF r \in Bound THEN [asked EXCEPT ![r] = b] ELSE asked
  /\ UNCHANGED <<at, jobs, lost, cardVars>>

\* setup_const_cache, set_tmp_ring and set_export always name VRAM.
set_job(b) ==
  \/ \E d \in Home[b] :
       \/ Setter("fetch", b, set_vtx_resource(b, d))
       \/ Setter("rat", b, set_rat(b, d))
  \/ /\ "vram" \in Home[b]
     /\ \/ Setter("const", b, setup_const_cache(b))
        \/ Setter("ring", b, set_tmp_ring(b))
        \/ \E sized \in BOOLEAN : Setter("export", b, set_export(b, sized))
  \/ Setter("plain", b, set_registers)

load_shader(sh) ==
  /\ at = "setting"
  /\ load_shader_register(sh)
  /\ asked' = [asked EXCEPT !["shader"] = sh]
  /\ Goto("check")
  /\ UNCHANGED <<jobs, sets, lost, cardVars>>

load_shader_check ==
  /\ at = "check"
  /\ \/ (space_check_fits \/ space_check_flushes) /\ Goto("prepare")
     \/ (space_check_throws_at_once \/ space_check_throws_after_flush)
          /\ Goto("no_memory")
     \/ space_check_aborts /\ Goto("aborted")
  /\ UNCHANGED <<jobs, sets, asked, lost, cardVars>>

load_shader_prepare ==
  /\ at = "prepare"
  /\ prepare_compute_shader(asked["shader"])
  /\ Goto("dispatch")
  /\ UNCHANGED <<jobs, sets, asked, lost, cardVars>>

dispatch ==
  /\ at = "dispatch"
  /\ direct_dispatch
  /\ Goto("flush")
  /\ UNCHANGED <<jobs, sets, asked, lost, cardVars>>

\* Bug: the program goes on after a relocation error.
FlushSwallowing ==
  /\ at = "flush"
  /\ \/ /\ flush_cs_begin \/ flush_cs_dword \/ flush_cs_reloc
        /\ UNCHANGED <<at, lost>>
     \/ /\ flush_cs_end
        /\ Goto("flushed")
        /\ lost' = (lost \/ sent' = sent)
     \/ (flush_cs_throws /\ Goto("flushed") /\ UNCHANGED lost)
     \/ (flush_cs_aborts /\ Goto("aborted") /\ UNCHANGED lost)
  /\ UNCHANGED <<jobs, sets, asked, cardVars>>

flush ==
  /\ at = "flush"
  /\ \/ /\ flush_cs_begin \/ flush_cs_dword \/ flush_cs_reloc
        /\ UNCHANGED <<at, lost>>
     \/ /\ flush_cs_end
        /\ Goto("flushed")
        /\ lost' = (lost \/ sent' = sent)
     \/ (flush_cs_throws /\ Goto("uncaught") /\ UNCHANGED lost)
     \/ (flush_cs_aborts /\ Goto("aborted") /\ UNCHANGED lost)
  /\ UNCHANGED <<jobs, sets, asked, cardVars>>

\* Bug: it waits for every batch flushed, as if the kernel took them all.
BoWaitForAll == asked["rat"] = Unset \/ done = jobs

\* radeon_bo_wait, and main.cpp's loop on radeon_bo_is_busy.
BoWait == asked["rat"] = Unset \/ ~ Busy(asked["rat"])

bo_wait ==
  /\ at = "flushed"
  /\ BoWait
  /\ Goto("read")
  /\ UNCHANGED <<vars, jobs, sets, asked, lost, cardVars>>

\* Only an object that a job's own commands name can be waited for: a result
\* is asked for anew in each job.
next_job ==
  /\ at \in {"flushed", "read"}
  /\ jobs < MaxJobs
  /\ Goto("setting")
  /\ jobs' = jobs + 1
  /\ sets' = 0
  /\ asked' = [asked EXCEPT !["rat"] = Unset]
  /\ UNCHANGED <<vars, lost, cardVars>>

return_from_main ==
  /\ at = "read"
  /\ destroy
  /\ Goto("returned")
  /\ UNCHANGED <<jobs, sets, asked, lost, cardVars>>

Program ==
  \/ construct \/ enter_main
  \/ \E b \in Buffer : set_job(b)
  \/ \E sh \in Shader : load_shader(sh)
  \/ load_shader_check \/ load_shader_prepare
  \/ dispatch \/ flush
  \/ bo_wait \/ next_job \/ return_from_main

JobNext == Program \/ run_batch

\* The program is scheduled, and the card runs what the kernel took.
JobSpec ==
  JobInit /\ [][JobNext]_jobVars /\ WF_jobVars(Program) /\ WF_jobVars(run_batch)

-----------------------------------------------------------------------------
(* Safety.                                                                 *)

(***************************************************************************)
(* A program that names each object with one domain, and calls its setters *)
(* before load_shader, never meets a relocation that libdrm refuses or     *)
(* asserts on, in whatever job: each object a queued command relocates is  *)
(* registered by another call, and accounted for by the check inside       *)
(* load_shader, which forgets it with the flush before.  It aborts only    *)
(* when libdrm's list, which nobody ever resets, is full.                  *)
(***************************************************************************)
FlushSucceeds ==
  /\ at # "uncaught"
  /\ at = "aborted" => Cardinality(Listed) >= MaxSpaceBos
  /\ pc = "emit" /\ pos < Len(queue) /\ IsReloc(Current) =>
       acct[Current.bo] = Current.acc.dom

(***************************************************************************)
(* What a program reads back is what its last job computed, with the       *)
(* shader and the objects it asked for last, if that job set the RAT it    *)
(* waits for and the kernel refused no batch: registers, batches and the   *)
(* wait agree across jobs.  A program that breaks the rules of             *)
(* FlushSucceeds ends loudly; it never reads another result.               *)
(***************************************************************************)
ReadbackCurrent ==
  at = "read" /\ ~ lost /\ asked["rat"] # Unset =>
    mem[asked["rat"]] = [shader |-> asked["shader"], fetch |-> asked["fetch"],
                         const |-> asked["const"]]

-----------------------------------------------------------------------------
(* Liveness.                                                               *)

(***************************************************************************)
(* A program comes to an end: the wait for a result does not hang, even    *)
(* when the kernel refused the batch that was to compute it.               *)
(***************************************************************************)
Finishes == <>(at \in Ended)
=============================================================================
