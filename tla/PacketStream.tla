---------------------------- MODULE PacketStream ----------------------------
(***************************************************************************)
(* Packets as radeon_cmd_stream writes them (src/radeon_cs.cpp), and as    *)
(* the card's command processor reads them.  A header is a record of its   *)
(* fields; every other dword is a word, and its value the set of its bits  *)
(* that are one.                                                           *)
(***************************************************************************)
EXTENDS Integers, Sequences

Word(v) == [is |-> "word", v |-> v]
Words(vals) == [i \in DOMAIN vals |-> Word(vals[i])]

\* The bits of an integer, in two's complement, and the number they make,
\* taken from its highest bit down.
Ones(n) == {b \in 0 .. 30 : (n \div 2^b) % 2 = 1} \cup (IF n < 0 THEN {31} ELSE {})
Number(bits) ==
  LET upper[n \in 0 .. 31] ==
        IF n = 0 THEN 0 ELSE 2 * upper[n - 1] + (IF 31 - n \in bits THEN 1 ELSE 0)
  IN  upper[31]

-----------------------------------------------------------------------------
(* Writing.                                                                *)

CountMod == 16384     \* the count field of a header has 14 bits

\* The register spaces, each with the packet that writes it.
Space == {
  [op |-> "SET_CONFIG_REG",  lo |-> \h8000,  hi |-> \hac00],
  [op |-> "SET_CONTEXT_REG", lo |-> \h28000, hi |-> \h29000],
  [op |-> "SET_RESOURCE",    lo |-> \h30000, hi |-> \h38000],
  [op |-> "SET_SAMPLER",     lo |-> \h3c000, hi |-> \h3c600],
  [op |-> "SET_CTL_CONST",   lo |-> \h3cff0, hi |-> \h3ff0c],
  [op |-> "SET_LOOP_CONST",  lo |-> \h3a200, hi |-> \h3a500],
  [op |-> "SET_BOOL_CONST",  lo |-> \h3a500, hi |-> \h3a518] }

SpacesOf(reg) == {s \in Space : s.lo <= reg /\ reg < s.hi}

\* The header of a packet with n dwords after it.
Header3(op, n) == [is |-> "packet3", op |-> op, count |-> (n - 1) % CountMod]

packet3(op, vals) == <<Header3(op, Len(vals))>> \o Words(vals)

\* Bug: the dword with the offset is not counted.
Packet0WithoutOffset(reg, n) ==
  IF SpacesOf(reg) = {}
  THEN <<[is |-> "packet0", reg |-> reg \div 4, count |-> (n - 1) % CountMod]>>
  ELSE LET s == CHOOSE s \in SpacesOf(reg) : TRUE
       IN  <<Header3(s.op, n), Word(Ones((reg - s.lo) \div 4))>>

\* Bug: the offset is given in bytes.
Packet0InBytes(reg, n) ==
  IF SpacesOf(reg) = {}
  THEN <<[is |-> "packet0", reg |-> reg \div 4, count |-> (n - 1) % CountMod]>>
  ELSE LET s == CHOOSE s \in SpacesOf(reg) : TRUE
       IN  <<Header3(s.op, n + 1), Word(Ones(reg - s.lo))>>

\* The spaces do not overlap, so the order of the tests does not matter.
packet0(reg, n) ==
  IF SpacesOf(reg) = {}
  THEN <<[is |-> "packet0", reg |-> reg \div 4, count |-> (n - 1) % CountMod]>>
  ELSE LET s == CHOOSE s \in SpacesOf(reg) : TRUE
       IN  <<Header3(s.op, n + 1), Word(Ones((reg - s.lo) \div 4))>>

set_regs(reg, vals) == packet0(reg, Len(vals)) \o Words(vals)

\* What libdrm writes for a relocation.
Reloc == packet3("NOP", <<{}>>)

-----------------------------------------------------------------------------
(* Reading.                                                                *)

IsHeader(d) == d.is # "word"

\* The packet a stream starts with, and what is behind it.
Extent(ib) == Head(ib).count + 2
Body(ib) == SubSeq(ib, 2, Extent(ib))
Behind(ib) == SubSeq(ib, Extent(ib) + 1, Len(ib))

\* The registers a packet writes, a partial function on addresses.  A surface
\* sync writes CP_COHER_CNTL and the two behind it.
FirstRegister(h, body) ==
  IF h.is = "packet0" THEN 4 * h.reg
  ELSE IF h.op = "SURFACE_SYNC" THEN \h85f0
  ELSE (CHOOSE s \in Space : s.op = h.op).lo + 4 * Number(body[1].v)

Values(h, body) ==
  IF h.is = "packet0" THEN body
  ELSE IF h.op = "SURFACE_SYNC" THEN SubSeq(body, 1, 3) ELSE Tail(body)

WritesRegisters(h) ==
  h.is = "packet0" \/ h.op \in {"SURFACE_SYNC"} \cup {s.op : s \in Space}

Written(h, body) ==
  LET first == FirstRegister(h, body)
      vals == Values(h, body)
  IN  [r \in {first + 4 * (i - 1) : i \in DOMAIN vals} |->
         vals[(r - first) \div 4 + 1].v]
=============================================================================
