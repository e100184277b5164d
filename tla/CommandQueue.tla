---------------------------- MODULE CommandQueue ----------------------------
(***************************************************************************)
(* What a radeon_cmd_stream promises its caller, without libdrm's section  *)
(* bookkeeping, relocation tables or memory accounting.                    *)
(*                                                                         *)
(* Commands are collected in "pending" and handed to the kernel as whole   *)
(* batches, in the order they were written.  A batch the kernel refuses is *)
(* dropped as a whole and silently.  The one blemish is "residue": the     *)
(* part of a batch that a flush left behind in libdrm when a relocation    *)
(* was refused; it goes out in front of the next batch, or on its own.     *)
(***************************************************************************)
EXTENDS Sequences, Naturals

CONSTANT Token       \* what the caller writes: dwords and relocations

VARIABLES
  pending,           \* written and not yet flushed
  residue,           \* left behind by a flush that failed half way
  delivered          \* the batches the kernel accepted, in order

vars == <<pending, residue, delivered>>

TypeOK ==
  /\ pending \in Seq(Token)
  /\ residue \in Seq(Token)
  /\ delivered \in Seq(Seq(Token))

Init ==
  /\ pending = <<>>
  /\ residue = <<>>
  /\ delivered = <<>>

\* The kernel takes a batch or refuses it; an empty one it always refuses.
Submit(batch) ==
  \/ delivered' = delivered
  \/ batch # <<>> /\ delivered' = Append(delivered, batch)

Write(t) ==
  /\ pending' = Append(pending, t)
  /\ UNCHANGED <<residue, delivered>>

Discard ==
  /\ pending' = <<>>
  /\ UNCHANGED <<residue, delivered>>

Flush ==
  /\ Submit(residue \o pending)
  /\ pending' = <<>>
  /\ residue' = <<>>

\* A relocation is refused after k tokens: the caller keeps everything it
\* wrote, and libdrm keeps the first k tokens as well.
Break(k) ==
  /\ residue' = residue \o SubSeq(pending, 1, k)
  /\ UNCHANGED <<pending, delivered>>

\* The memory check sends what an earlier failure left behind.
Spill ==
  /\ Submit(residue)
  /\ residue' = <<>>
  /\ UNCHANGED pending

Next ==
  \/ \E t \in Token : Write(t)
  \/ Discard
  \/ Flush
  \/ \E k \in 0 .. Len(pending) - 1 : Break(k)
  \/ Spill

Spec == Init /\ [][Next]_vars
=============================================================================
