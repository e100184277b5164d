------------------------------ MODULE R800State -----------------------------
(***************************************************************************)
(* The operations of r800_state that queue commands (src/r800_state.cpp),  *)
(* as steps of its command stream.  A register, or a group written         *)
(* together, is one dword token that names it; what matters here is which  *)
(* objects a command relocates, which ones it registers for the memory     *)
(* check, and in what order.                                               *)
(***************************************************************************)
EXTENDS CmdStream

\* "plain" stands for the registers that name no object.
Register ==
  {"default", "plain", "sync", "fetch", "const", "rat", "ring", "export",
   "shader", "dispatch"}

ASSUME RegisterAssumption == Register \subseteq Dword

\* A caller may name any domain, for reading or for writing.
ASSUME AnyAccessAssumption == [dom : Domain, write : BOOLEAN] \subseteq Access

Write(r) == [kind |-> "dw", dw |-> r]

Reading(d) == [dom |-> d, write |-> FALSE]
Writing(d) == [dom |-> d, write |-> TRUE]

Relocate(b, a) == [kind |-> "reloc", bo |-> b, acc |-> a]
Register_bo(b, a) == [bo |-> b, acc |-> a]

\* The effect of a run of write_dword, reloc and add_persistent_bo.
Issue(tokens, entries) ==
  /\ pc = "idle"
  /\ Len(queue) + Len(tokens) <= MaxQueue
  /\ Len(pers_bos) + Len(entries) <= MaxPers
  /\ queue' = queue \o tokens
  /\ reloc_num' = reloc_num + NumRelocs(tokens)
  /\ pers_bos' = pers_bos \o entries
  /\ UNCHANGED <<flushVars, callback, libdrmVars>>

-----------------------------------------------------------------------------
(* Setting up.                                                             *)

set_default_state == Issue(<<Write("default")>>, <<>>)

\* cs_erase and set_default_state: what was queued before is forgotten.
init_gpu ==
  /\ pc = "idle"
  /\ queue' = <<Write("default")>>
  /\ reloc_num' = 0
  /\ pers_bos' = <<>>
  /\ UNCHANGED <<flushVars, callback, libdrmVars>>

\* set_lds, set_gds, set_loop_consts and select_se name no object, nor does
\* set_tmp_ring without a size.
set_registers == Issue(<<Write("plain")>>, <<>>)

set_vtx_resource(b, d) ==
  LET r == Relocate(b, Reading(d))
  IN  Issue(<<Write("sync"), r, Write("fetch"), r>>,
            <<Register_bo(b, Reading(d))>>)

\* Bug: the constant buffer is relocated and not registered.
SetupConstCacheUnregistered(b) ==
  LET r == Relocate(b, Reading("vram"))
  IN  Issue(<<Write("sync"), r, Write("const"), r>>, <<>>)

setup_const_cache(b) ==
  LET r == Relocate(b, Reading("vram"))
  IN  Issue(<<Write("sync"), r, Write("const"), r>>,
            <<Register_bo(b, Reading("vram"))>>)

\* Every register of the RAT that holds an address has its relocation.
set_rat(b, d) ==
  Issue(<<Write("rat"), Relocate(b, Writing(d))>>,
        <<Register_bo(b, Writing(d))>>)

set_tmp_ring(b) ==
  Issue(<<Write("ring"), Relocate(b, Reading("vram"))>>,
        <<Register_bo(b, Reading("vram"))>>)

\* Without a size the object is registered all the same.
set_export(b, sized) ==
  Issue(IF sized THEN <<Write("export"), Relocate(b, Writing("vram"))>>
                 ELSE <<Write("export")>>,
        <<Register_bo(b, Writing("vram"))>>)

-----------------------------------------------------------------------------
(* Running.  load_shader registers the shader's object, has everything     *)
(* registered so far checked, and then writes the shader's registers.      *)

load_shader_register(sh) == add_persistent_bo(Register_bo(sh, Reading("vram")))

\* Bug: the shader's address is not written.
PrepareWithoutStart(sh) ==
  Issue(<<Write("sync"), Relocate(sh, Reading("vram"))>>, <<>>)

prepare_compute_shader(sh) ==
  LET r == Relocate(sh, Reading("vram"))
  IN  Issue(<<Write("sync"), r, Write("shader"), r>>, <<>>)

direct_dispatch == Issue(<<Write("dispatch")>>, <<>>)
=============================================================================
