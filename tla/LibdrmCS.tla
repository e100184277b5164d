------------------------------ MODULE LibdrmCS ------------------------------
(***************************************************************************)
(* libdrm_radeon as src/radeon_cs.cpp uses it: the command buffer with its *)
(* sections and relocations, and the list of buffer objects whose memory   *)
(* is accounted for.  It is external code: operators on a record           *)
(*                                                                         *)
(*   buf     tokens written since the last erase                           *)
(*   ndw     dwords the open section declared, 0 when no section is open   *)
(*   cdw     dwords written since the section was opened                   *)
(*   domain  the memory domain of each object relocated since then         *)
(*                                                                         *)
(* Sizes and limits are abstracted to the verdict of the memory check.     *)
(***************************************************************************)
EXTENDS Naturals, Sequences, FiniteSets

CONSTANTS
  BO,            \* buffer objects
  Dword,         \* dwords the caller writes
  Access,        \* what a call may ask of an object: reads or writes
  MaxSpaceBos    \* MAX_SPACE_BOS, the length of libdrm's persistent list

Domain == {"gtt", "vram"}
NoDomain == "none"

ASSUME AccessAssumption == Access \subseteq [dom : Domain, write : BOOLEAN]
ASSUME SpaceAssumption == MaxSpaceBos \in Nat

\* A pair of domains libdrm refuses: both given, or neither.
BadAccess == [dom |-> NoDomain, write |-> FALSE]

Entry == [bo : BO, acc : Access]

Dw == [kind : {"dw"}, dw : Dword]
Reloc == [kind : {"reloc"}, bo : BO, acc : Access \cup {BadAccess}]
Token == Dw \cup Reloc

IsReloc(t) == t.kind = "reloc"
NumRelocs(s) == Cardinality({i \in DOMAIN s : IsReloc(s[i])})

-----------------------------------------------------------------------------
(* The command buffer.                                                     *)

DomainMap == [BO -> Domain \cup {NoDomain}]
Nowhere == [b \in BO |-> NoDomain]

CS == [buf : Seq(Token), ndw : Nat, cdw : Nat, domain : DomainMap]

EmptyCS == [buf |-> <<>>, ndw |-> 0, cdw |-> 0, domain |-> Nowhere]

\* radeon_cs_begin: refused (-EPIPE) while a section is open.
Begin(cs, n) ==
  IF cs.ndw # 0 THEN cs ELSE [cs EXCEPT !.ndw = n, !.cdw = 0]

WriteDword(cs, t) == [cs EXCEPT !.buf = Append(@, t), !.cdw = @ + 1]

\* radeon_cs_write_reloc: -EINVAL for a bad pair of domains, or for a domain
\* other than the one an earlier relocation of the same object asked for.
RelocRefused(cs, t) ==
  \/ t.acc = BadAccess
  \/ cs.domain[t.bo] \notin {NoDomain, t.acc.dom}

\* Two dwords: a NOP packet and the index in the relocation table.
WriteReloc(cs, t) ==
  [cs EXCEPT !.buf = Append(@, t), !.cdw = @ + 2,
             !.domain = [@ EXCEPT ![t.bo] = t.acc.dom]]

\* The kernel checks the batch radeon_cs_emit hands it, and takes it or not.
Submitted(sent, buf) ==
  {sent} \cup (IF buf = <<>> THEN {} ELSE {Append(sent, buf)})

-----------------------------------------------------------------------------
(* Memory accounting: space is the persistent list, a set because libdrm   *)
(* keeps each entry once; acct[b] is the domain b is accounted for in.     *)

\* radeon_cs_emit releases the objects the batch relocated.
Released(acct, cs) ==
  [b \in BO |-> IF cs.domain[b] # NoDomain THEN NoDomain ELSE acct[b]]

\* An object accounted for in one domain and listed in another one has to
\* be released by a flush first.
Conflict(space, acct) ==
  \E e \in space : acct[e.bo] \notin {NoDomain, e.acc.dom}

\* What a successful check may leave: of an object listed in two domains the
\* list's order decides, which the set forgets.
Accounted(space, acct) ==
  {new \in DomainMap :
     \A b \in BO :
       LET doms == {e.acc.dom : e \in {x \in space : x.bo = b}}
       IN  IF doms = {} THEN new[b] = acct[b] ELSE new[b] \in doms}
=============================================================================
