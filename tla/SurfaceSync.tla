----------------------------- MODULE SurfaceSync -----------------------------
(***************************************************************************)
(* The card reads buffers and programs through caches that nothing but a   *)
(* surface sync empties.  The setters that name an object queue one        *)
(* (set_surface_sync in src/r800_state.cpp, called by set_vtx_resource,    *)
(* setup_const_cache and prepare_compute_shader), for the lines of the     *)
(* object the job is going to read.  The program rewrites objects between  *)
(* jobs, and a job writes one through its RAT.                             *)
(***************************************************************************)
EXTENDS Integers, Sequences

CONSTANTS
  Object,        \* memory the card reads: buffers, and the code of shaders
  Line,          \* bytes of a line of a cache: 256
  WordSize,      \* sizes are 32-bit words: 2^32
  ObjectSize,    \* bytes of an object
  VtxDwords,     \* sizes of vertex buffers, in dwords
  ConstBytes,    \* sizes of constant buffers
  CodeBytes,     \* sizes of programs
  Offset,        \* where in its object a buffer starts
  MaxQueue       \* bound: commands the card has still to execute

\* Objects are smaller than the card's memory, which is smaller than the 4 GB
\* that sizes could count; constant buffers start at a line, as
\* setup_const_cache asserts.
ASSUME SizeAssumption ==
  /\ Line \in Nat \ {0} /\ WordSize \in Nat
  /\ ObjectSize \in Nat /\ ObjectSize + Line <= WordSize
  /\ \A n \in VtxDwords : n \in Nat /\ 4 * n <= ObjectSize
  /\ \A n \in ConstBytes \cup CodeBytes : n \in Nat /\ n <= ObjectSize
  /\ \A o \in Offset : o \in Nat /\ o % Line = 0
  /\ MaxQueue \in Nat

VARIABLES
  cached,    \* lines the caches hold
  stale,     \* those of them that memory has changed under
  batch,     \* commands queued
  running,   \* commands flushed that the card has not executed
  named,     \* the slots the program has named, and the lines they name
  used       \* those a queued dispatch reads

vars == <<cached, stale, batch, running, named, used>>

Slot == {"vtx", "const", "code"}
Cache == [vtx |-> "VC", const |-> "SH", code |-> "SH"]

Lines(first, size) ==
  {l \in 0 .. ObjectSize \div Line : l * Line < first + size /\ (l + 1) * Line > first}

CacheLine == [cache : {"VC", "SH"}, object : Object, line : 0 .. ObjectSize \div Line]
LinesOf(slot, o, lines) == {[cache |-> Cache[slot], object |-> o, line |-> l] : l \in lines}

Of(o, lines) == {c \in lines : c.object = o}

Reads(cmd) == IF cmd.op = "DISPATCH" THEN cmd.reads ELSE {}
Writes(cmd) == IF cmd.op = "DISPATCH" THEN cmd.writes ELSE {}

TypeOK ==
  /\ stale \subseteq cached /\ cached \subseteq CacheLine
  /\ Len(batch) + Len(running) <= MaxQueue
  /\ used \subseteq DOMAIN named /\ DOMAIN named \subseteq Slot
  /\ \A s \in DOMAIN named : named[s] \subseteq CacheLine

Init ==
  /\ cached = {} /\ stale = {}
  /\ batch = <<>> /\ running = <<>>
  /\ named = <<>> /\ used = {}

-----------------------------------------------------------------------------
(* The setters.                                                            *)

\* Bug: the size is rounded down.
BlocksRoundedDown(size) == size \div Line

\* A size of all ones means the whole of every object.
Everything == WordSize - 1

Blocks(size) ==
  IF size = Everything THEN Everything ELSE ((size + Line - 1) % WordSize) \div Line

\* The offset is a parameter that set_surface_sync does not use: the packet
\* gives the object's start, and the relocation its address.
set_surface_sync(slot, o, size) ==
  [op |-> "SURFACE_SYNC",
   lines |-> {c \in CacheLine : /\ c.cache = Cache[slot]
                                /\ size = Everything \/ c.object = o
                                /\ c.line < Blocks(size)}]

Room == Len(batch) + Len(running) < MaxQueue

Name(slot, o, offset, size) ==
  /\ Room
  /\ offset + size <= ObjectSize
  /\ batch' = Append(batch, set_surface_sync(slot, o, size))
  /\ named' = [s \in DOMAIN named \cup {slot} |->
                 IF s = slot THEN LinesOf(slot, o, Lines(offset, size)) ELSE named[s]]
  /\ used' = used \ {slot}
  /\ UNCHANGED <<cached, stale, running>>

set_vtx_resource(o, offset, dwords) == Name("vtx", o, offset, (dwords * 4) % WordSize)
setup_const_cache(o, size, offset) == Name("const", o, offset, size)
prepare_compute_shader(o, alloc_size) == Name("code", o, 0, alloc_size)

-----------------------------------------------------------------------------
(* The program.                                                            *)

\* What read an object has to be named again once the object has changed.
Forget(slots) ==
  /\ named' = [s \in DOMAIN named \ slots |-> named[s]]
  /\ used' = used \ slots

Naming(o) == {s \in DOMAIN named : Of(o, named[s]) # {}}

\* A dispatch that reads every slot named and may write an object none names.
direct_dispatch(written) ==
  /\ Room
  /\ \A o \in written : Naming(o) = {}
  /\ batch' = Append(batch, [op |-> "DISPATCH", writes |-> written,
                             reads |-> UNION {named[s] : s \in DOMAIN named}])
  /\ used' = DOMAIN named
  /\ UNCHANGED <<cached, stale, running, named>>

\* Bug: the batch is kept and sent again with the next one.
FlushKeeping ==
  /\ batch # <<>>
  /\ running' = running \o batch
  /\ UNCHANGED <<cached, stale, batch, named, used>>

flush_cs ==
  /\ batch # <<>>
  /\ running' = running \o batch
  /\ batch' = <<>>
  /\ UNCHANGED <<cached, stale, named, used>>

Pending == {batch[i] : i \in DOMAIN batch} \cup {running[i] : i \in DOMAIN running}

\* The program rewrites an object, by mapping it or by giving its memory to
\* another one, when no dispatch uses it any more.
rewrite(o) ==
  /\ \A cmd \in Pending : Of(o, Reads(cmd)) = {} /\ o \notin Writes(cmd)
  /\ stale' = stale \cup Of(o, cached)
  /\ Forget(Naming(o) \cap used)
  /\ UNCHANGED <<cached, batch, running>>

-----------------------------------------------------------------------------
(* The card.                                                               *)

Written(objects) == {c \in cached : c.object \in objects}

execute ==
  /\ running # <<>>
  /\ running' = Tail(running)
  /\ LET cmd == Head(running)
     IN  IF cmd.op = "SURFACE_SYNC"
         THEN cached' = cached \ cmd.lines /\ stale' = stale \ cmd.lines
         ELSE cached' = cached \cup cmd.reads /\ stale' = stale \cup Written(cmd.writes)
  /\ UNCHANGED <<batch, named, used>>

Next ==
  \/ \E o \in Object :
       \/ \E offset \in Offset :
            \/ \E n \in VtxDwords : set_vtx_resource(o, offset, n)
            \/ \E n \in ConstBytes : setup_const_cache(o, n, offset)
       \/ \E n \in CodeBytes : prepare_compute_shader(o, n)
       \/ rewrite(o)
  \/ \E written \in {{}} \cup {{o} : o \in Object} : direct_dispatch(written)
  \/ flush_cs
  \/ execute

Spec == Init /\ [][Next]_vars

-----------------------------------------------------------------------------
(* Safety.                                                                 *)

(***************************************************************************)
(* No dispatch reads a line that memory has changed under since a cache    *)
(* took it: the sync each setter queues covers what the setter names, its  *)
(* size rounded up to lines, in the cache that reads it; and it is enough  *)
(* to call the setter again after the object has changed, before or after  *)
(* other objects' setters and however the batches are cut.                 *)
(***************************************************************************)
FreshReads == running # <<>> => Reads(Head(running)) \cap stale = {}
=============================================================================
