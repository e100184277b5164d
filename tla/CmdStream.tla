------------------------------ MODULE CmdStream -----------------------------
(***************************************************************************)
(* radeon_cmd_stream (src/radeon_cs.cpp): commands are queued as tokens,   *)
(* the memory they need is checked, and a flush copies the queue into a    *)
(* libdrm section and submits it.  The caller is any caller of the public  *)
(* operations; it may catch what they throw and go on.                     *)
(*                                                                         *)
(* Every operation is one action, except the flush, whose loop over the    *)
(* queue can throw half way and is one action for each token.              *)
(***************************************************************************)
EXTENDS LibdrmCS

CONSTANTS
  MaxQueue,      \* bound: tokens queued
  MaxPers,       \* bound: objects waiting for the next memory check
  MaxBuf,        \* bound: tokens in libdrm's buffer, left-overs included
  MaxSent        \* bound: batches the kernel took

ASSUME BoundAssumption ==
  MaxQueue \in Nat /\ MaxPers \in Nat /\ MaxBuf \in Nat /\ MaxSent \in Nat

VARIABLES
  queue,         \* the tokens, in the order they were written
  reloc_num,     \* how many of them are relocations
  pers_bos,      \* objects to account for at the next memory check
  pc,            \* "idle", "emit" inside flush_cs, "dead" once aborted or destroyed
  pos,           \* inside flush_cs: tokens already copied
  callback,      \* whether the flush callback still points at this stream
  cs,            \* libdrm's command buffer
  space, acct,   \* libdrm's persistent list and accounting
  sent,          \* batches the kernel took, in order
  broken         \* history: a throw left a section open, not yet erased

streamVars == <<queue, reloc_num, pers_bos>>
flushVars == <<pc, pos>>
libdrmVars == <<cs, space, acct, sent, broken>>
vars == <<queue, reloc_num, pers_bos, pc, pos, callback,
          cs, space, acct, sent, broken>>

TypeOK ==
  /\ queue \in Seq(Token)
  /\ reloc_num \in Nat
  /\ pers_bos \in Seq(Entry)
  /\ pc \in {"idle", "emit", "dead"}
  /\ pos \in 0 .. Len(queue)
  /\ callback \in BOOLEAN
  /\ cs \in CS
  /\ space \in SUBSET Entry
  /\ acct \in DomainMap
  /\ sent \in Seq(Seq(Token))
  /\ broken \in BOOLEAN

Init ==
  /\ queue = <<>>
  /\ reloc_num = 0
  /\ pers_bos = <<>>
  /\ pc = "idle"
  /\ pos = 0
  /\ callback = TRUE
  /\ cs = EmptyCS
  /\ space = {}
  /\ acct = Nowhere
  /\ sent = <<>>
  /\ broken = FALSE

-----------------------------------------------------------------------------
(* Building the stream.                                                    *)

write_dword(d) ==
  /\ pc = "idle"
  /\ Len(queue) < MaxQueue
  /\ queue' = Append(queue, [kind |-> "dw", dw |-> d])
  /\ UNCHANGED <<reloc_num, pers_bos, flushVars, callback, libdrmVars>>

reloc(b, a) ==
  /\ pc = "idle"
  /\ Len(queue) < MaxQueue
  /\ queue' = Append(queue, [kind |-> "reloc", bo |-> b, acc |-> a])
  /\ reloc_num' = reloc_num + 1
  /\ UNCHANGED <<pers_bos, flushVars, callback, libdrmVars>>

add_persistent_bo(e) ==
  /\ pc = "idle"
  /\ Len(pers_bos) < MaxPers
  /\ pers_bos' = Append(pers_bos, e)
  /\ UNCHANGED <<queue, reloc_num, flushVars, callback, libdrmVars>>

\* Bug: the number of relocations outlives the queue.
EraseKeepsCount ==
  /\ queue' = <<>>
  /\ pers_bos' = <<>>
  /\ UNCHANGED reloc_num

\* cs_erase forgets what is queued; libdrm's own buffer is not touched.
Erase ==
  /\ queue' = <<>>
  /\ reloc_num' = 0
  /\ pers_bos' = <<>>

cs_erase ==
  /\ pc = "idle"
  /\ Erase
  /\ UNCHANGED <<flushVars, callback, libdrmVars>>

\* The move constructor copies the queue and takes over the libdrm handles,
\* but the flush callback keeps the address of the stream moved from.
move ==
  /\ pc = "idle"
  /\ callback' = FALSE
  /\ UNCHANGED <<streamVars, flushVars, libdrmVars>>

\* The destructor: what is still queued is never submitted.
destroy ==
  /\ pc = "idle"
  /\ pc' = "dead"
  /\ UNCHANGED <<streamVars, pos, callback, libdrmVars>>

-----------------------------------------------------------------------------
(* Submission of libdrm's buffer: radeon_cs_emit, then radeon_cs_erase.    *)

\* Bug: the buffer is submitted and not erased.
EmitWithoutErase ==
  /\ Len(sent) < MaxSent
  /\ sent' \in Submitted(sent, cs.buf)
  /\ UNCHANGED <<cs, broken>>

EmitAndErase ==
  /\ Len(sent) < MaxSent
  /\ sent' \in Submitted(sent, cs.buf)
  /\ cs' = EmptyCS
  /\ broken' = FALSE

\* Bug: the callback erases the stream's queue as well.
FlushCallbackErasing == EmitAndErase /\ queue' = <<>> /\ reloc_num' = 0

\* radeon_cs_flush_indirect: libdrm's buffer only, the queue stays.
FlushCallback == EmitAndErase /\ UNCHANGED <<queue, reloc_num>>

-----------------------------------------------------------------------------
(* space_check.                                                            *)

\* Bug: the list is reset before each check.
ListedAfterReset == {pers_bos[i] : i \in DOMAIN pers_bos}

Listed == space \cup {pers_bos[i] : i \in DOMAIN pers_bos}

space_check_fits ==
  /\ pc = "idle"
  /\ Cardinality(Listed) < MaxSpaceBos
  /\ ~ Conflict(Listed, acct)
  /\ space' = Listed
  /\ acct' \in Accounted(Listed, acct)
  /\ pers_bos' = <<>>
  /\ UNCHANGED <<queue, reloc_num, flushVars, callback, cs, sent, broken>>

\* libdrm asks for a flush and makes the check a second time.
space_check_flushes ==
  /\ pc = "idle"
  /\ Cardinality(Listed) < MaxSpaceBos
  /\ callback
  /\ FlushCallback
  /\ ~ Conflict(Listed, Released(acct, cs))
  /\ space' = Listed
  /\ acct' \in Accounted(Listed, Released(acct, cs))
  /\ pers_bos' = <<>>
  /\ UNCHANGED <<flushVars, callback>>

\* An operation too big for the card: "BO space check failure!".  The
\* objects stay in pers_bos, although libdrm has them listed by now.
space_check_throws_at_once ==
  /\ pc = "idle"
  /\ Cardinality(Listed) < MaxSpaceBos
  /\ ~ Conflict(Listed, acct)
  /\ space' = Listed
  /\ UNCHANGED <<streamVars, flushVars, callback, acct, cs, sent, broken>>

\* The same after the flush did not help.
space_check_throws_after_flush ==
  /\ pc = "idle"
  /\ Cardinality(Listed) < MaxSpaceBos
  /\ callback
  /\ FlushCallback
  /\ space' = Listed
  /\ acct' = Released(acct, cs)
  /\ UNCHANGED <<pers_bos, flushVars, callback>>

\* libdrm's assertion that its list is not full.
space_check_aborts ==
  /\ pc = "idle"
  /\ Cardinality(Listed) >= MaxSpaceBos
  /\ pc' = "dead"
  /\ UNCHANGED <<streamVars, pos, callback, libdrmVars>>

\* The flush callback of a moved stream follows a null pointer.
space_check_crashes ==
  /\ pc = "idle"
  /\ ~ callback
  /\ Cardinality(Listed) < MaxSpaceBos
  /\ pc' = "dead"
  /\ space' = Listed
  /\ UNCHANGED <<streamVars, pos, callback, acct, cs, sent, broken>>

space_check ==
  \/ space_check_fits
  \/ space_check_flushes
  \/ space_check_throws_at_once
  \/ space_check_throws_after_flush
  \/ space_check_aborts
  \/ space_check_crashes

-----------------------------------------------------------------------------
(* r800_state::flush_cs: cs_emit, then cs_erase.                           *)

\* Bug: a relocation is counted as one dword.
SectionDwordsShort == Len(queue)

SectionDwords == Len(queue) + reloc_num

flush_cs_begin ==
  /\ pc = "idle"
  /\ Len(cs.buf) + Len(queue) <= MaxBuf
  /\ pc' = "emit"
  /\ pos' = 0
  /\ cs' = Begin(cs, SectionDwords)
  /\ UNCHANGED <<streamVars, callback, space, acct, sent, broken>>

Current == queue[pos + 1]

flush_cs_dword ==
  /\ pc = "emit"
  /\ pos < Len(queue)
  /\ ~ IsReloc(Current)
  /\ cs' = WriteDword(cs, Current)
  /\ pos' = pos + 1
  /\ UNCHANGED <<streamVars, pc, callback, space, acct, sent, broken>>

flush_cs_reloc ==
  /\ pc = "emit"
  /\ pos < Len(queue)
  /\ IsReloc(Current)
  /\ acct[Current.bo] # NoDomain
  /\ ~ RelocRefused(cs, Current)
  /\ cs' = WriteReloc(cs, Current)
  /\ pos' = pos + 1
  /\ UNCHANGED <<streamVars, pc, callback, space, acct, sent, broken>>

\* Bug: the position in the queue outlives the loop.
LeaveLoopKeepingPos == pc' = "idle" /\ UNCHANGED pos

LeaveLoop == pc' = "idle" /\ pos' = 0

\* "Relocation error" leaves cs_emit before the section ends, and flush_cs
\* before the queue is erased.
flush_cs_throws ==
  /\ pc = "emit"
  /\ pos < Len(queue)
  /\ IsReloc(Current)
  /\ acct[Current.bo] # NoDomain
  /\ RelocRefused(cs, Current)
  /\ LeaveLoop
  /\ broken' = TRUE
  /\ UNCHANGED <<streamVars, callback, cs, space, acct, sent>>

\* libdrm's assertion that a relocated object is accounted for.
flush_cs_aborts ==
  /\ pc = "emit"
  /\ pos < Len(queue)
  /\ IsReloc(Current)
  /\ acct[Current.bo] = NoDomain
  /\ pc' = "dead"
  /\ UNCHANGED <<streamVars, pos, callback, libdrmVars>>

\* Bug: the loop stops one token early.
LoopDoneEarly == pos + 1 >= Len(queue)

LoopDone == pos = Len(queue)

\* radeon_cs_end complains of a section of the wrong length, and nobody
\* looks; emit, erase, and the stream's own cs_erase follow.
flush_cs_end ==
  /\ pc = "emit"
  /\ LoopDone
  /\ EmitAndErase
  /\ acct' = Released(acct, cs)
  /\ LeaveLoop
  /\ Erase
  /\ UNCHANGED <<callback, space>>

flush_cs ==
  \/ flush_cs_begin
  \/ flush_cs_dword
  \/ flush_cs_reloc
  \/ flush_cs_throws
  \/ flush_cs_aborts
  \/ flush_cs_end

Next ==
  \/ \E d \in Dword : write_dword(d)
  \/ \E b \in BO, a \in Access \cup {BadAccess} : reloc(b, a)
  \/ \E e \in Entry : add_persistent_bo(e)
  \/ cs_erase
  \/ move
  \/ destroy
  \/ space_check
  \/ flush_cs

Spec == Init /\ [][Next]_vars

-----------------------------------------------------------------------------
(* Safety.                                                                 *)

(***************************************************************************)
(* The counter cs_emit declares its section with agrees with the queue,    *)
(* whatever order operations, throws and flush callbacks come in: it is    *)
(* kept in reloc and reset in cs_erase, far from the loop it must match.   *)
(***************************************************************************)
RelocNumExact == reloc_num = NumRelocs(queue)

(***************************************************************************)
(* cs_emit never writes past the section it declared with radeon_cs_begin  *)
(* and fills it exactly, unless an earlier relocation error left a section *)
(* open: the results of begin and end are not looked at.                   *)
(***************************************************************************)
SectionExact ==
  pc = "emit" /\ ~ broken =>
    /\ cs.cdw <= cs.ndw
    /\ pos = Len(queue) => cs.cdw = cs.ndw

(***************************************************************************)
(* Between operations libdrm holds nothing of the stream, no dword and no  *)
(* relocation, unless a relocation error was thrown since the last         *)
(* submission.  So the buffer of one dispatch never leaks into the next.   *)
(***************************************************************************)
NothingLeftOver == pc = "idle" /\ ~ broken => cs = EmptyCS

(***************************************************************************)
(* libdrm lists, and so holds a reference to, every object a batch the     *)
(* kernel took relocates: the pointers space_check passed on and those     *)
(* cs_emit relocates come from two queues the caller fills separately.     *)
(***************************************************************************)
BatchObjectsListed ==
  \A n \in DOMAIN sent : \A i \in DOMAIN sent[n] :
    IsReloc(sent[n][i]) => \E e \in space : e.bo = sent[n][i].bo

(***************************************************************************)
(* The flush callback, run inside space_check with commands queued, sends  *)
(* nothing to the kernel, unless a relocation error left part of a batch   *)
(* behind; and a flush sends all that is queued and nothing else.          *)
(***************************************************************************)
OnlyFlushSubmits ==
  [][sent' # sent /\ ~ broken =>
       /\ pc = "emit"
       /\ sent' = Append(sent, queue)]_vars

\* libdrm's buffer ends in all that is queued.
AllCopied ==
  /\ Len(queue) <= Len(cs.buf)
  /\ SubSeq(cs.buf, Len(cs.buf) - Len(queue) + 1, Len(cs.buf)) = queue

(***************************************************************************)
(* What is queued is lost by cs_erase alone, when the caller asks for it:  *)
(* a memory check keeps it, whether it fits, flushes libdrm's buffer or    *)
(* throws, and whatever that buffer holds; a relocation error keeps it;    *)
(* and a flush drops it only when libdrm has every token of it.            *)
(***************************************************************************)
QueueKept ==
  [][\/ Len(queue) <= Len(queue') /\ SubSeq(queue', 1, Len(queue)) = queue
     \/ cs_erase
     \/ pc = "emit" /\ AllCopied]_vars

(***************************************************************************)
(* The stream keeps the promise of CommandQueue: batches reach the kernel  *)
(* whole and in order, and a failure leaves exactly a prefix behind.       *)
(***************************************************************************)
residue == SubSeq(cs.buf, 1, Len(cs.buf) - pos)

Promise == INSTANCE CommandQueue
             WITH pending <- queue, residue <- residue, delivered <- sent

KeepsPromise == Promise!Spec
=============================================================================
