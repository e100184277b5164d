----------------------------- MODULE RegisterMap ----------------------------
(***************************************************************************)
(* Where the arrays of registers lie that r800_state indexes, and a write  *)
(* to registers as the setters make it (src/r800_state.cpp,                *)
(* src/evergreen_reg.h, src/evergreen_reg_auto.h).                         *)
(*                                                                         *)
(* A write names a register: an element of an array by the array and its   *)
(* index, any other one by its address.  Two names for one address, and a  *)
(* write that runs over into another register, are what can go wrong.      *)
(***************************************************************************)
EXTENDS PacketStream, RegisterLayout

\* RATs 8 to 11 have a short block each, behind the long ones of 0 to 7.
RatOffset(id) == IF id < 8 THEN id * \h3c ELSE 8 * \h3c + (id - 8) * \h1c

Base(id)       == \h28c60 + RatOffset(id)
Pitch(id)      == \h28c64 + RatOffset(id)
Slice(id)      == \h28c68 + RatOffset(id)
View(id)       == \h28c6c + RatOffset(id)
Info(id)       == \h28c70 + RatOffset(id)
Attrib(id)     == \h28c74 + RatOffset(id)
Dim(id)        == \h28c78 + RatOffset(id)
Cmask(id)      == \h28c7c + RatOffset(id)
CmaskSlice(id) == \h28c80 + RatOffset(id)
Fmask(id)      == \h28c84 + RatOffset(id)
FmaskSlice(id) == \h28c88 + RatOffset(id)
ClearWord(id)  == \h28c8c + RatOffset(id)

CB_IMMED0_BASE == \h28b9c
Immed(id) == CB_IMMED0_BASE + id * 8

CacheSize(i) == \h28fc0 + i * 4
CacheBase(i) == \h28f40 + i * 4

Fetch(id) == \h30000 + id * 32

\* Bug: the constants of the compute shaders start behind their last one.
LoopConstShifted(i) == \h3a200 + 192 * 4 + i * 4

LoopConst(i) == \h3a200 + 160 * 4 + i * 4

-----------------------------------------------------------------------------
(* Values, as the code puts them together with | and <<.  A value is a set *)
(* of numbers and the bits they are shifted to.                            *)

Zero == {}
Field(shift, n) == IF n = 0 THEN Zero ELSE {<<shift, n>>}
Flag(b) == Field(b, 1)

\* A number that is not shifted, and one written without naming its fields.
Plainly(n) == Field(0, n)
Literal(bits) == UNION {Flag(b) : b \in bits}

AllOnes == Plainly(-1)
One_f == Field(23, 127)      \* 1.0f

Placed(f) == {f[1] + b : b \in Ones(f[2])}

\* A register holds 32 bits: what is shifted out of them is lost.
Value(word) == (UNION {Placed(f) : f \in word}) \cap Bit

-----------------------------------------------------------------------------
(* Writes.                                                                 *)

Zeros(n) == [i \in 1 .. n |-> Zero]

Burst(r, words) == [op |-> "SET", key |-> <<"reg", r>>, at |-> r, words |-> words,
                    reloc |-> FALSE]
Write(r, word) == Burst(r, <<word>>)

\* The same register r, named as element i of an array.
Element(name, i, r, words) == [Burst(r, words) EXCEPT !.key = <<name, i>>]

\* A packet that writes no register.
Packet(op, words) == [Burst(0, words) EXCEPT !.op = op]

\* With the relocation of an object behind it.
Relocated(w) == [w EXCEPT !.reloc = TRUE]

CP_COHER_CNTL == \h85f0

Blocks(size) == (size + 255) \div 256

\* The card puts the first dwords of this packet into CP_COHER_CNTL, _SIZE
\* and _BASE; the last one is the poll interval.
set_surface_sync(flags, size) ==
  Relocated([Element("COHER", 0, CP_COHER_CNTL,
                     <<Literal(flags), Plainly(Blocks(size)), Zero>>)
             EXCEPT !.op = "SURFACE_SYNC"])

Encode(w) ==
  LET vals == [i \in DOMAIN w.words |-> Value(w.words[i])]
  IN  (CASE w.op = "SET" -> set_regs(w.at, vals)
         [] w.op = "SURFACE_SYNC" -> packet3(w.op, Append(vals, Ones(10)))
         [] OTHER -> packet3(w.op, vals))
      \o (IF w.reloc THEN Reloc ELSE <<>>)

\* What a write asks of the registers: its first value, under the name it
\* was given, and the values behind it; but zeros at the end of a burst over
\* registers with names of their own ask for nothing.
Asks(w) ==
  IF w.at = 0 THEN <<>>
  ELSE LET tail == {i \in 2 .. Len(w.words) : w.key[1] = "reg" => w.words[i] # Zero}
           word(i) == [at |-> w.at + 4 * (i - 1), word |-> w.words[i]]
       IN  [k \in {w.key} \cup {<<"reg", word(i).at>> : i \in tail} |->
              IF k = w.key THEN word(1) ELSE word((k[2] - w.at) \div 4 + 1)]

\* A partial function, and another one where it is not defined.
Over(f, g) ==
  [x \in DOMAIN f \cup DOMAIN g |-> IF x \in DOMAIN f THEN f[x] ELSE g[x]]
=============================================================================
