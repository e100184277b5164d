----------------------------- MODULE ShaderImage ----------------------------
(***************************************************************************)
(* How a compute_shader gets its program into memory the card can run      *)
(* (src/cs_image.cpp, src/cs_image.h): from an image, whose header and     *)
(* checksum are checked, or from a raw file.                               *)
(*                                                                         *)
(* Bytes are as signed as char is.  An image starts with a magic number    *)
(* and the checksum of all that follows; both are kept whole here, and     *)
(* rest is what lies behind them.                                          *)
(***************************************************************************)
EXTENDS Integers, SequencesExt

CONSTANTS
  Byte,          \* values of a char: -128 to 127
  WordSize,      \* the checksum is a 32-bit word: 2^32
  HeaderSize,    \* bytes of cs_image_header: 64
  Checked,       \* bytes in front of those the checksum covers: 8
  Align,         \* code is padded to a multiple of this many bytes: 16
  CodeSize,      \* bytes of code an image or a file may hold
  Garbage        \* a byte of memory nothing was written to

\* Images have a whole header: the constructor looks at it before anything.
ASSUME ImageAssumption ==
  /\ Byte \subseteq Int /\ Garbage \notin Byte
  /\ WordSize \in Nat \ {0} /\ \A a, b \in Byte : a - b < WordSize
  /\ Checked \in Nat /\ HeaderSize \in Nat /\ Checked <= HeaderSize
  /\ Align \in Nat \ {0} /\ CodeSize \subseteq Nat \ {0}

VARIABLES
  pc,            \* where the constructor, and later the shader, is
  made,          \* the image or file as it was made
  buf,           \* what the constructor has of it
  raw,           \* whether it is a raw file
  alloc_size,    \* bytes of the object asked for
  mem,           \* what the object holds
  refs           \* references to the object

vars == <<pc, made, buf, raw, alloc_size, mem, refs>>

\* Chars, sign and all, added up one by one in a uint32_t.
AddedUp(chars) ==
  LET sum[n \in 0 .. Len(chars)] ==
        IF n = 0 THEN 0 ELSE (sum[n - 1] + chars[n]) % WordSize
  IN  sum[Len(chars)]

\* Bug: the sum begins behind the header.
SumOfCode(rest) == AddedUp(SubSeq(rest, HeaderSize - Checked + 1, Len(rest)))

Sum(rest) == AddedUp(rest)

Size(i) == Checked + Len(i.rest)

\* The assertions on an image.
Accepted(i) == Size(i) % 4 = 0 /\ i.magic /\ i.chksum = Sum(i.rest)

Code(i) == IF raw THEN i.rest ELSE SubSeq(i.rest, HeaderSize - Checked + 1, Len(i.rest))

Bytes(n) == [1 .. n -> Byte]

File == [magic : {FALSE}, chksum : {0}, rest : UNION {Bytes(n) : n \in CodeSize}]

Image ==
  {i \in [magic : {TRUE}, chksum : 0 .. WordSize - 1,
          rest : UNION {Bytes(HeaderSize - Checked + n) : n \in CodeSize}] : Accepted(i)}

\* The image with at most one byte of it changed on its way, or cut short
\* anywhere behind its header.
Damaged(i) ==
  {i, [i EXCEPT !.magic = FALSE]}
    \cup {[i EXCEPT !.chksum = c] : c \in 0 .. WordSize - 1}
    \cup {[i EXCEPT !.rest[n] = b] : n \in DOMAIN i.rest, b \in Byte}
    \cup {[i EXCEPT !.rest = SubSeq(@, 1, n)] : n \in HeaderSize - Checked .. Len(i.rest)}

TypeOK ==
  /\ pc \in {"given", "sized", "opened", "mapped", "copied", "ready", "aborted", "gone"}
  /\ raw \in BOOLEAN
  /\ alloc_size \in Nat
  /\ \A n \in DOMAIN mem : mem[n] \in Byte \cup {Garbage}
  /\ refs \in {0, 1}

Init ==
  /\ pc = "given"
  /\ \/ raw = TRUE /\ made \in File /\ buf = made
     \/ raw = FALSE /\ made \in Image /\ buf \in Damaged(made)
  /\ alloc_size = 0 /\ mem = <<>> /\ refs = 0

-----------------------------------------------------------------------------
(* The constructors.                                                       *)

Step(from, to) == pc = from /\ pc' = to

\* Bug: it is rounded down.
PaddedDown(n) == n - (n % Align)

Padded(n) == IF n % Align = 0 THEN n ELSE n + (Align - (n % Align))

\* Bug: the checksum is taken to be outside of the header.
CodeBytesShort(i) == Size(i) - HeaderSize - Checked

CodeBytes(i) == Size(i) - HeaderSize

check_image ==
  /\ ~ raw
  /\ \/ /\ Accepted(buf)
        /\ Step("given", "sized")
        /\ alloc_size' = Padded(CodeBytes(buf))
     \/ /\ ~ Accepted(buf)
        /\ Step("given", "aborted")
        /\ UNCHANGED alloc_size
  /\ UNCHANGED <<made, buf, raw, mem, refs>>

\* Nobody looks at how many bytes fread read.
read_file ==
  /\ raw
  /\ Step("given", "sized")
  /\ \E n \in 0 .. Len(made.rest) :
       buf' = [made EXCEPT !.rest = [i \in DOMAIN @ |-> IF i <= n THEN @[i] ELSE Garbage]]
  /\ alloc_size' = Len(made.rest)
  /\ UNCHANGED <<made, raw, mem, refs>>

\* The object is asserted to be there, and to be mapped.
bo_open ==
  /\ \/ /\ Step("sized", "opened")
        /\ refs' = 1
        /\ mem' = [n \in 1 .. alloc_size |-> Garbage]
     \/ /\ Step("sized", "aborted")
        /\ UNCHANGED <<refs, mem>>
  /\ UNCHANGED <<made, buf, raw, alloc_size>>

bo_map ==
  /\ Step("opened", "mapped") \/ Step("opened", "aborted")
  /\ UNCHANGED <<made, buf, raw, alloc_size, mem, refs>>

copy ==
  /\ Step("mapped", "copied")
  /\ LET code == Code(buf)
     IN  mem' = [n \in DOMAIN mem |-> IF n \in DOMAIN code THEN code[n] ELSE mem[n]]
  /\ UNCHANGED <<made, buf, raw, alloc_size, refs>>

bo_unmap ==
  /\ Step("copied", "ready")
  /\ UNCHANGED <<made, buf, raw, alloc_size, mem, refs>>

destroy ==
  /\ Step("ready", "gone")
  /\ refs' = refs - 1
  /\ mem' = <<>>
  /\ UNCHANGED <<made, buf, raw, alloc_size>>

Next ==
  \/ check_image \/ read_file
  \/ bo_open \/ bo_map \/ copy \/ bo_unmap
  \/ destroy

Spec == Init /\ [][Next]_vars

-----------------------------------------------------------------------------
(* Safety.                                                                 *)

\* The cuts that neither the length nor the checksum tells: whole dwords whose
\* chars add up to nothing, such as zeros.  They do get loaded: the header has
\* the size of the code, but the constructor never compares it.  The image
\* itself is one of them, cut by none.
UnseenCuts(i) ==
  LET len == Len(i.rest)
  IN  {[i EXCEPT !.rest = SubSeq(@, 1, n)] :
         n \in {m \in HeaderSize - Checked .. len :
                 (len - m) % 4 = 0 /\ AddedUp(SubSeq(i.rest, m + 1, len)) = 0}}

(***************************************************************************)
(* The memory of a shader that is ready holds all the code its constructor *)
(* was given, inside the object and whatever its size.  Of an image that   *)
(* is the code it was made with: no image with a byte changed, in its      *)
(* header or in its code, gets that far, since no sign and no overflow     *)
(* hides one changed char from the sum.  Cuts are found as well but for    *)
(* those of UnseenCuts.  A raw file is taken as it was read.               *)
(***************************************************************************)
LoadedIntact ==
  pc = "ready" =>
    /\ IsPrefix(Code(buf), mem)
    /\ ~ raw => buf \in UnseenCuts(made)
=============================================================================
