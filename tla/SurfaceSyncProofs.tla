------------------------- MODULE SurfaceSyncProofs -------------------------
(***************************************************************************)
(* No dispatch reads a stale line, for all objects, sizes and caches, when *)
(* buffers begin where their objects do.  What is stale then depends on    *)
(* commands the card has not executed, in two queues; the invariant looks  *)
(* at both as one.                                                         *)
(***************************************************************************)
EXTENDS SurfaceSync, SequenceTheorems, TLAPS

Command ==
  [op : {"SURFACE_SYNC"}, lines : SUBSET CacheLine]
    \cup [op : {"DISPATCH"}, writes : SUBSET Object, reads : SUBSET CacheLine]

\* What the card has still to execute, and what it is going to.
queue == running \o batch

Syncs(cmd, c) == cmd.op = "SURFACE_SYNC" /\ c \in cmd.lines

\* A sync between commands k and i of q empties line c.
Cleaned(q, k, i, c) == \E j \in k + 1 .. i - 1 : Syncs(q[j], c)

\* Line c, if cached, is as memory when command i of q begins: whatever made
\* or makes it stale, a sync comes after it.
Clean(st, q, i, c) ==
  /\ c \in st => Cleaned(q, 0, i, c)
  /\ \A k \in 1 .. i - 1 : c.object \in Writes(q[k]) => Cleaned(q, k, i, c)

\* Nothing takes line c into a cache between the last sync of it and the
\* end of q.
Unread(ca, q, c) ==
  \/ \E j \in 1 .. Len(q) :
       /\ Syncs(q[j], c)
       /\ \A k \in j + 1 .. Len(q) : q[k].op # "DISPATCH"
  \/ c \notin ca /\ \A k \in 1 .. Len(q) : q[k].op # "DISPATCH"

Typed ==
  /\ cached \subseteq CacheLine /\ stale \subseteq cached
  /\ batch \in Seq(Command) /\ running \in Seq(Command)
  /\ Len(batch) + Len(running) <= MaxQueue
  /\ DOMAIN named \subseteq Slot /\ used \subseteq DOMAIN named
  /\ \A s \in DOMAIN named : named[s] \subseteq CacheLine

\* Every pending dispatch will find its lines clean.
DispatchesClean ==
  \A i \in 1 .. Len(queue) : \A c \in Reads(queue[i]) : Clean(stale, queue, i, c)

\* So would one that is queued next.
NamedClean ==
  \A s \in DOMAIN named : \A c \in named[s] : Clean(stale, queue, Len(queue) + 1, c)

\* What has been named and not used yet may be rewritten even so.
UnusedUnread ==
  \A s \in DOMAIN named \ used : \A c \in named[s] : Unread(cached, queue, c)

IInv == Typed /\ DispatchesClean /\ NamedClean /\ UnusedUnread

-----------------------------------------------------------------------------
(* Lines and sizes.                                                        *)

LEMMA RoundedUp ==
  ASSUME NEW n \in Nat, NEW l \in Nat, l * Line < n
  PROVE  l < (n + Line - 1) \div Line
<1> DEFINE m == n + Line - 1
           q == m \div Line
<1>1. Line \in Nat /\ Line > 0
  BY SizeAssumption
<1>2. q \in Nat /\ m < (q + 1) * Line
  BY <1>1
<1>. SUFFICES ASSUME q <= l PROVE FALSE
  BY <1>2
<1>3. q * Line <= l * Line
  BY <1>1, <1>2
<1>. QED
  BY <1>1, <1>2, <1>3

\* The blocks of a sync cover every line with a byte in the size.
LEMMA BlocksCover ==
  ASSUME NEW size \in Nat, size <= ObjectSize,
         NEW l \in Nat, l * Line < size
  PROVE  l < Blocks(size)
<1>1. Line \in Nat /\ Line > 0 /\ WordSize \in Nat /\ size + Line <= WordSize
  BY SizeAssumption
<1>2. CASE size = Everything
  <2>1. Line = 1
    BY <1>1, <1>2 DEF Everything
  <2>. QED
    BY <1>2, <2>1 DEF Blocks
<1>3. CASE size # Everything
  <2>1. (size + Line - 1) % WordSize = size + Line - 1
    BY <1>1
  <2>. QED
    BY <1>3, <2>1, RoundedUp DEF Blocks
<1>. QED
  BY <1>2, <1>3

\* A setter's sync empties every line the setter names, from the object's
\* start on.
LEMMA SyncCovers ==
  ASSUME NEW slot \in Slot, NEW o \in Object, NEW size \in Nat, size <= ObjectSize,
         NEW c \in LinesOf(slot, o, Lines(0, size))
  PROVE  c \in CacheLine /\ Syncs(set_surface_sync(slot, o, size), c)
<1>1. PICK l \in Lines(0, size) : c = [cache |-> Cache[slot], object |-> o, line |-> l]
  BY DEF LinesOf
<1>2. l \in 0 .. ObjectSize \div Line /\ l * Line < size
  BY <1>1, SizeAssumption DEF Lines
<1>3. l \in Nat
  BY <1>2, SizeAssumption
<1>4. l < Blocks(size)
  BY <1>2, <1>3, BlocksCover
<1>5. c \in CacheLine
  BY <1>1, <1>2 DEF CacheLine, Slot, Cache
<1>. QED
  BY <1>1, <1>4, <1>5 DEF Syncs, set_surface_sync

-----------------------------------------------------------------------------
(* The two queues as one.                                                  *)

LEMMA QueueAppend ==
  ASSUME Typed, NEW cmd \in Command, running' = running, batch' = Append(batch, cmd)
  PROVE  queue' = Append(queue, cmd)
  BY DEF Typed, queue

LEMMA QueueFlush ==
  ASSUME Typed, running' = running \o batch, batch' = <<>>
  PROVE  queue' = queue
  BY DEF Typed, queue

LEMMA QueueExecute ==
  ASSUME Typed, running # <<>>, running' = Tail(running), batch' = batch
  PROVE  queue # <<>> /\ queue[1] = Head(running) /\ queue' = Tail(queue)
<1>1. running \in Seq(Command) /\ batch \in Seq(Command) /\ Len(running) > 0
  BY DEF Typed
<1>2. Len(queue) = Len(running) + Len(batch) /\ queue[1] = running[1]
  BY <1>1 DEF queue
<1>3. queue' \in Seq(Command) /\ Tail(queue) \in Seq(Command)
        /\ Len(queue') = Len(Tail(queue))
  BY <1>1, <1>2 DEF queue
<1>4. ASSUME NEW i \in 1 .. Len(queue') PROVE queue'[i] = Tail(queue)[i]
  BY <1>1, <1>2, <1>3, <1>4 DEF queue
<1>5. queue' = Tail(queue)
  BY <1>3, <1>4, SeqEqual
<1>. QED
  BY <1>1, <1>2, <1>5

LEMMA QueueType == ASSUME Typed PROVE queue \in Seq(Command)
  BY DEF Typed, queue

-----------------------------------------------------------------------------
(* What a command at either end of the queue does to a clean line.         *)

LEMMA CleanAppend ==
  ASSUME NEW q \in Seq(Command), NEW cmd \in Command, NEW st, NEW c,
         NEW i \in 1 .. Len(q) + 1, Clean(st, q, i, c)
  PROVE  Clean(st, Append(q, cmd), i, c)
<1>1. \A j \in 1 .. i - 1 : Append(q, cmd)[j] = q[j]
  OBVIOUS
<1>2. \A k \in 0 .. i - 1 : Cleaned(q, k, i, c) => Cleaned(Append(q, cmd), k, i, c)
  BY <1>1 DEF Cleaned
<1>. QED
  BY <1>1, <1>2 DEF Clean

\* A command that writes another object leaves it clean.
LEMMA CleanBehind ==
  ASSUME NEW q \in Seq(Command), NEW cmd \in Command, NEW st, NEW c,
         Clean(st, q, Len(q) + 1, c), c.object \notin Writes(cmd)
  PROVE  Clean(st, Append(q, cmd), Len(q) + 2, c)
<1> DEFINE r == Append(q, cmd)
           n == Len(q)
<1>1. n \in Nat /\ r[n + 1] = cmd /\ \A j \in 1 .. n : r[j] = q[j]
  OBVIOUS
<1>2. \A k \in 0 .. n : Cleaned(q, k, n + 1, c) => Cleaned(r, k, n + 2, c)
  BY <1>1 DEF Cleaned
<1>3. \A k \in 1 .. n + 1 : k = n + 1 \/ k \in 1 .. n
  BY <1>1
<1>. QED
  BY <1>1, <1>2, <1>3 DEF Clean

\* Behind a sync of it any line is clean.
LEMMA CleanSynced ==
  ASSUME NEW q \in Seq(Command), NEW cmd \in Command, NEW st, NEW c, Syncs(cmd, c)
  PROVE  Clean(st, Append(q, cmd), Len(q) + 2, c)
<1> DEFINE r == Append(q, cmd)
           n == Len(q)
<1>1. n \in Nat /\ r[n + 1] = cmd
  OBVIOUS
<1>2. \A k \in 0 .. n : Cleaned(r, k, n + 2, c)
  BY <1>1 DEF Cleaned
<1>3. Writes(r[n + 1]) = {}
  BY <1>1 DEF Writes, Syncs
<1>4. \A k \in 1 .. n + 1 : k = n + 1 \/ k \in 1 .. n
  BY <1>1
<1>. QED
  BY <1>1, <1>2, <1>3, <1>4 DEF Clean

\* What becomes stale behind a sync that is still to come does no harm.
LEMMA CleanRewritten ==
  ASSUME NEW q, NEW st, NEW new, NEW i, NEW c,
         Clean(st, q, i, c), c \in new => c \in st \/ Cleaned(q, 0, i, c)
  PROVE  Clean(new, q, i, c)
  BY DEF Clean

LEMMA TailIndex ==
  ASSUME NEW q \in Seq(Command), q # <<>>
  PROVE  /\ Len(q) \in Nat \ {0} /\ Tail(q) \in Seq(Command) /\ Len(Tail(q)) = Len(q) - 1
         /\ \A j \in 1 .. Len(q) - 1 : Tail(q)[j] = q[j + 1]
  OBVIOUS

LEMMA CleanedTail ==
  ASSUME NEW q \in Seq(Command), q # <<>>, NEW c,
         NEW i \in 2 .. Len(q) + 1, NEW k \in 1 .. i - 1, Cleaned(q, k, i, c)
  PROVE  Cleaned(Tail(q), k - 1, i - 1, c)
<1>1. PICK j \in k + 1 .. i - 1 : Syncs(q[j], c)
  BY DEF Cleaned
<1>2. j - 1 \in k .. i - 2 /\ Tail(q)[j - 1] = q[j]
  BY <1>1, TailIndex
<1>. QED
  BY <1>1, <1>2 DEF Cleaned

\* When the first command of the queue is executed, a line that was clean
\* behind it stays clean: a sync takes lines out of what is stale, and a
\* dispatch adds those of objects it writes.
LEMMA CleanExecuted ==
  ASSUME NEW q \in Seq(Command), q # <<>>, NEW st, NEW new, NEW c,
         NEW i \in 2 .. Len(q) + 1, Clean(st, q, i, c),
         c \in new => \/ c \in st /\ ~ Syncs(q[1], c)
                      \/ c.object \in Writes(q[1])
  PROVE  Clean(new, Tail(q), i - 1, c)
<1>1. Len(q) \in Nat \ {0} /\ i \in Nat
  BY TailIndex
<1>2. ASSUME c \in new PROVE Cleaned(Tail(q), 0, i - 1, c)
  <2>1. CASE c \in st /\ ~ Syncs(q[1], c)
    <3>1. Cleaned(q, 0, i, c)
      BY <2>1 DEF Clean
    <3>2. Cleaned(q, 1, i, c)
      BY <1>1, <2>1, <3>1 DEF Cleaned
    <3>. QED
      BY <1>1, <3>2, CleanedTail
  <2>2. CASE c.object \in Writes(q[1])
    <3>1. Cleaned(q, 1, i, c)
      BY <1>1, <2>2 DEF Clean
    <3>. QED
      BY <1>1, <3>1, CleanedTail
  <2>. QED
    BY <1>2, <2>1, <2>2
<1>3. ASSUME NEW k \in 1 .. i - 2, c.object \in Writes(Tail(q)[k])
      PROVE  Cleaned(Tail(q), k, i - 1, c)
  <2>1. k + 1 \in 2 .. i - 1 /\ Tail(q)[k] = q[k + 1]
    BY <1>1, <1>3, TailIndex
  <2>2. Cleaned(q, k + 1, i, c)
    BY <1>1, <1>3, <2>1 DEF Clean
  <2>3. Cleaned(Tail(q), (k + 1) - 1, i - 1, c)
    BY <1>1, <2>1, <2>2, CleanedTail
  <2>. QED
    BY <2>3
<1>. QED
  BY <1>1, <1>2, <1>3 DEF Clean

LEMMA UnreadAppend ==
  ASSUME NEW q \in Seq(Command), NEW cmd \in Command, NEW ca, NEW c,
         cmd.op # "DISPATCH", Unread(ca, q, c) \/ Syncs(cmd, c)
  PROVE  Unread(ca, Append(q, cmd), c)
<1> DEFINE r == Append(q, cmd)
           n == Len(q)
<1>1. /\ n \in Nat /\ Len(r) = n + 1 /\ r[n + 1] = cmd
      /\ \A j \in 1 .. n : r[j] = q[j]
      /\ \A k \in 1 .. n + 1 : k = n + 1 \/ k \in 1 .. n
  OBVIOUS
<1>2. CASE Syncs(cmd, c)
  BY <1>1, <1>2 DEF Unread
<1>3. CASE Unread(ca, q, c)
  BY <1>1, <1>3 DEF Unread
<1>. QED
  BY <1>2, <1>3

LEMMA UnreadExecuted ==
  ASSUME NEW q \in Seq(Command), q # <<>>, NEW ca, NEW new, NEW c, Unread(ca, q, c),
         q[1].op # "DISPATCH" => new \subseteq ca /\ (Syncs(q[1], c) => c \notin new)
  PROVE  Unread(new, Tail(q), c)
<1> DEFINE n == Len(q)
<1>1. /\ n \in Nat \ {0} /\ Len(Tail(q)) = n - 1
      /\ \A j \in 1 .. n - 1 : Tail(q)[j] = q[j + 1]
  BY TailIndex
<1>2. ASSUME NEW j \in 1 .. n, Syncs(q[j], c), \A k \in j + 1 .. n : q[k].op # "DISPATCH"
      PROVE  Unread(new, Tail(q), c)
  <2>1. CASE j = 1
    <3>1. q[1].op # "DISPATCH" /\ c \notin new
      BY <1>2, <2>1 DEF Syncs
    <3>2. \A k \in 1 .. n - 1 : Tail(q)[k].op # "DISPATCH"
      BY <1>1, <1>2, <2>1
    <3>. QED
      BY <1>1, <3>1, <3>2 DEF Unread
  <2>2. CASE j # 1
    <3>1. j - 1 \in 1 .. n - 1 /\ Tail(q)[j - 1] = q[j]
      BY <1>1, <1>2, <2>2
    <3>2. \A k \in (j - 1) + 1 .. n - 1 : Tail(q)[k].op # "DISPATCH"
      BY <1>1, <1>2
    <3>. QED
      BY <1>1, <1>2, <3>1, <3>2 DEF Unread
  <2>. QED
    BY <2>1, <2>2
<1>3. CASE c \notin ca /\ \A k \in 1 .. n : q[k].op # "DISPATCH"
  BY <1>1, <1>3 DEF Unread
<1>. QED
  BY <1>2, <1>3 DEF Unread

-----------------------------------------------------------------------------
(* The invariant.                                                          *)

THEOREM InitInvariant == Init => IInv
<1>. SUFFICES ASSUME Init PROVE IInv
  OBVIOUS
<1>1. queue = <<>> /\ DOMAIN named = {}
  BY DEF Init, queue
<1>2. Typed
  BY <1>1, SizeAssumption DEF Init, Typed
<1>. QED
  BY <1>1, <1>2 DEF IInv, DispatchesClean, NamedClean, UnusedUnread

\* Types do not depend on where a buffer begins.
LEMMA NameTyped ==
  ASSUME Typed, NEW slot \in Slot, NEW o \in Object, NEW offset, NEW size,
         Name(slot, o, offset, size)
  PROVE  Typed'
<1> DEFINE lines == LinesOf(slot, o, Lines(offset, size))
<1>1. set_surface_sync(slot, o, size) \in Command
  BY DEF Command, set_surface_sync
<1>2. lines \subseteq CacheLine
  BY DEF LinesOf, Lines, CacheLine, Slot, Cache
<1>3. batch' \in Seq(Command) /\ Len(batch') = Len(batch) + 1 /\ running' = running
  BY <1>1 DEF Typed, Name
<1>4. \A s \in DOMAIN named' : named'[s] \subseteq CacheLine
  BY <1>2 DEF Typed, Name
<1>5. Len(batch') + Len(running') <= MaxQueue
  BY <1>3, SizeAssumption DEF Typed, Name, Room
<1>6. DOMAIN named' = DOMAIN named \cup {slot} /\ used' = used \ {slot}
        /\ UNCHANGED <<cached, stale>>
  BY DEF Name
<1>. QED
  BY <1>3, <1>4, <1>5, <1>6 DEF Typed

LEMMA TypedStep ==
  ASSUME Typed, [Next]_vars
  PROVE  Typed'
<1>1. CASE \E o \in Object :
             \/ \E offset \in Offset :
                  \/ \E n \in VtxDwords : set_vtx_resource(o, offset, n)
                  \/ \E n \in ConstBytes : setup_const_cache(o, n, offset)
             \/ \E n \in CodeBytes : prepare_compute_shader(o, n)
  BY <1>1, NameTyped
     DEF set_vtx_resource, setup_const_cache, prepare_compute_shader, Slot
<1>2. ASSUME NEW o \in Object, rewrite(o) PROVE Typed'
  BY <1>2 DEF Typed, rewrite, Forget, Of
<1>3. ASSUME NEW written \in SUBSET Object, direct_dispatch(written) PROVE Typed'
  <2> DEFINE cmd == [op |-> "DISPATCH", writes |-> written,
                     reads |-> UNION {named[s] : s \in DOMAIN named}]
  <2>1. cmd \in Command
    BY DEF Command, Typed
  <2>2. batch' = Append(batch, cmd) /\ UNCHANGED <<cached, stale, running, named>>
          /\ used' = DOMAIN named
    BY <1>3 DEF direct_dispatch
  <2>3. batch' \in Seq(Command) /\ Len(batch') = Len(batch) + 1
    BY <2>1, <2>2 DEF Typed
  <2>4. Len(batch') + Len(running') <= MaxQueue
    BY <1>3, <2>2, <2>3, SizeAssumption DEF Typed, direct_dispatch, Room
  <2>. QED
    BY <2>2, <2>3, <2>4 DEF Typed
<1>4. CASE flush_cs
  <2>1. batch' = <<>> /\ running' = running \o batch
    BY <1>4 DEF flush_cs
  <2>2. running' \in Seq(Command) /\ Len(running') = Len(running) + Len(batch)
    BY <2>1 DEF Typed
  <2>. QED
    BY <1>4, <2>1, <2>2 DEF Typed, flush_cs
<1>5. CASE execute
  <2>1. running \in Seq(Command) /\ running # <<>> /\ running' = Tail(running)
    BY <1>5 DEF Typed, execute
  <2>2. Head(running) \in Command /\ running' \in Seq(Command)
          /\ Len(running') = Len(running) - 1
    BY <2>1
  <2>3. cached' \subseteq CacheLine /\ stale' \subseteq cached'
    BY <1>5, <2>2 DEF Typed, Command, execute, Written
  <2>4. UNCHANGED <<batch, named, used>>
    BY <1>5 DEF execute
  <2>5. Len(batch') + Len(running') <= MaxQueue
    BY <2>1, <2>2, <2>4, SizeAssumption DEF Typed
  <2>. QED
    BY <2>2, <2>3, <2>4, <2>5 DEF Typed
<1>6. CASE UNCHANGED vars
  BY <1>6 DEF Typed, vars
<1>. QED
  BY <1>1, <1>2, <1>3, <1>4, <1>5, <1>6 DEF Next

\* Every variable keeps its type, wherever in their objects buffers begin.
THEOREM TypeCorrect == Spec => []TypeOK
<1>1. Typed => TypeOK
  BY DEF Typed, TypeOK
<1>2. Typed /\ [Next]_vars => Typed'
  BY TypedStep
<1>3. Init => Typed
  BY InitInvariant DEF IInv
<1>. QED
  BY <1>1, <1>2, <1>3, PTL DEF Spec

\* A setter that names part of an object from its start on.
LEMMA NameStep ==
  ASSUME IInv, Typed',
         NEW slot \in Slot, NEW o \in Object, NEW size \in Nat,
         Name(slot, o, 0, size)
  PROVE  IInv'
<1> DEFINE cmd == set_surface_sync(slot, o, size)
           lines == LinesOf(slot, o, Lines(0, size))
           n == Len(queue)
<1>1. Typed /\ queue \in Seq(Command) /\ n \in Nat
  BY QueueType DEF IInv
<1>2. cmd \in Command /\ cmd.op = "SURFACE_SYNC"
  BY DEF Command, set_surface_sync
<1>3. size <= ObjectSize
  BY DEF Name
<1>4. \A c \in lines : c \in CacheLine /\ Syncs(cmd, c)
  BY <1>3, SyncCovers
<1>5. UNCHANGED <<cached, stale, running>> /\ batch' = Append(batch, cmd)
        /\ used' = used \ {slot}
  BY DEF Name
<1>6. /\ DOMAIN named' = DOMAIN named \cup {slot}
      /\ named'[slot] = lines
      /\ \A s \in DOMAIN named : s # slot => named'[s] = named[s]
  BY DEF Name
<1>7. queue' = Append(queue, cmd) /\ Len(queue') = n + 1
  BY <1>1, <1>2, <1>5, QueueAppend
<1>9. DispatchesClean'
  <2>1. ASSUME NEW i \in 1 .. n + 1, NEW c \in Reads(queue'[i])
        PROVE  Clean(stale', queue', i, c)
    <3>1. i \in 1 .. n /\ queue'[i] = queue[i]
      BY <1>1, <1>2, <1>7, <2>1 DEF Reads
    <3>2. Clean(stale, queue, i, c)
      BY <2>1, <3>1 DEF IInv, DispatchesClean
    <3>. QED
      BY <1>1, <1>2, <1>5, <1>7, <3>1, <3>2, CleanAppend
  <2>. QED
    BY <1>7, <2>1 DEF DispatchesClean
<1>10. NamedClean'
  <2>1. ASSUME NEW s \in DOMAIN named', NEW c \in named'[s]
        PROVE  Clean(stale', queue', n + 2, c)
    <3>1. CASE s = slot
      BY <1>1, <1>2, <1>4, <1>5, <1>6, <1>7, <2>1, <3>1, CleanSynced
    <3>2. CASE s # slot
      <4>1. Clean(stale, queue, n + 1, c)
        BY <1>6, <2>1, <3>2 DEF IInv, NamedClean
      <4>2. c.object \notin Writes(cmd)
        BY <1>2 DEF Writes
      <4>. QED
        BY <1>1, <1>2, <1>5, <1>7, <4>1, <4>2, CleanBehind
    <3>. QED
      BY <3>1, <3>2
  <2>2. Len(queue') + 1 = n + 2
    BY <1>1, <1>7
  <2>. QED
    BY <2>1, <2>2 DEF NamedClean
<1>11. UnusedUnread'
  <2>1. ASSUME NEW s \in DOMAIN named' \ used', NEW c \in named'[s]
        PROVE  Unread(cached', queue', c)
    <3>1. Unread(cached, queue, c) \/ Syncs(cmd, c)
      BY <1>4, <1>5, <1>6, <2>1 DEF IInv, UnusedUnread
    <3>. QED
      BY <1>1, <1>2, <1>5, <1>7, <3>1, UnreadAppend
  <2>. QED
    BY <2>1 DEF UnusedUnread
<1>. QED
  BY <1>9, <1>10, <1>11 DEF IInv

\* A dispatch reads what is named, and writes nothing of it.
LEMMA DispatchStep ==
  ASSUME IInv, Typed', NEW written \in SUBSET Object, direct_dispatch(written)
  PROVE  IInv'
<1> DEFINE cmd == [op |-> "DISPATCH", writes |-> written,
                   reads |-> UNION {named[s] : s \in DOMAIN named}]
           n == Len(queue)
<1>1. Typed /\ queue \in Seq(Command) /\ n \in Nat
  BY QueueType DEF IInv
<1>2. cmd \in Command
  BY <1>1 DEF Command, Typed
<1>3. /\ UNCHANGED <<cached, stale, running, named>> /\ batch' = Append(batch, cmd)
      /\ used' = DOMAIN named
  BY DEF direct_dispatch
<1>4. queue' = Append(queue, cmd) /\ Len(queue') = n + 1
  BY <1>1, <1>2, <1>3, QueueAppend
<1>6. ASSUME NEW s \in DOMAIN named, NEW c \in named[s]
      PROVE  Clean(stale, queue, n + 1, c) /\ c.object \notin Writes(cmd)
  <2>1. s \in Naming(c.object)
    BY <1>6 DEF Naming, Of
  <2>2. c.object \notin written
    BY <2>1 DEF direct_dispatch
  <2>. QED
    BY <1>6, <2>2 DEF IInv, NamedClean, Writes
<1>7. DispatchesClean'
  <2>1. ASSUME NEW i \in 1 .. n + 1, NEW c \in Reads(queue'[i])
        PROVE  Clean(stale', queue', i, c)
    <3>1. Clean(stale, queue, i, c)
      <4>1. CASE i \in 1 .. n
        BY <1>1, <1>2, <1>4, <2>1, <4>1 DEF IInv, DispatchesClean
      <4>2. CASE i = n + 1
        <5>1. queue'[i] = cmd
          BY <1>1, <1>2, <1>4, <4>2
        <5>2. PICK s \in DOMAIN named : c \in named[s]
          BY <2>1, <5>1 DEF Reads
        <5>. QED
          BY <1>6, <4>2, <5>2
      <4>. QED
        BY <1>1, <4>1, <4>2
    <3>. QED
      BY <1>1, <1>2, <1>3, <1>4, <3>1, CleanAppend
  <2>. QED
    BY <1>4, <2>1 DEF DispatchesClean
<1>8. NamedClean'
  <2>1. Len(queue') + 1 = n + 2
    BY <1>1, <1>4
  <2>2. ASSUME NEW s \in DOMAIN named, NEW c \in named[s]
        PROVE  Clean(stale', queue', n + 2, c)
    BY <1>1, <1>2, <1>3, <1>4, <1>6, CleanBehind
  <2>. QED
    BY <1>3, <2>1, <2>2 DEF NamedClean
<1>9. UnusedUnread'
  BY <1>3 DEF UnusedUnread
<1>. QED
  BY <1>7, <1>8, <1>9 DEF IInv

\* An object changes that no pending dispatch touches.
LEMMA RewriteStep ==
  ASSUME IInv, Typed', NEW o \in Object, rewrite(o)
  PROVE  IInv'
<1>1. Typed /\ queue \in Seq(Command)
  BY QueueType DEF IInv
<1>2. /\ UNCHANGED <<cached, batch, running>>
      /\ stale' = stale \cup Of(o, cached)
      /\ DOMAIN named' = DOMAIN named \ (Naming(o) \cap used)
      /\ \A s \in DOMAIN named' : named'[s] = named[s]
      /\ used' = used \ (Naming(o) \cap used)
  BY DEF rewrite, Forget
<1>3. queue' = queue
  BY <1>2 DEF queue
<1>5. \A i \in 1 .. Len(queue) : queue[i] \in Pending
  BY <1>1 DEF Typed, Pending, queue
<1>6. DispatchesClean'
  <2>1. ASSUME NEW i \in 1 .. Len(queue), NEW c \in Reads(queue[i])
        PROVE  Clean(stale', queue, i, c)
    <3>1. c \notin Of(o, cached)
      BY <1>5, <2>1 DEF rewrite, Of
    <3>2. Clean(stale, queue, i, c)
      BY <2>1 DEF IInv, DispatchesClean
    <3>. QED
      BY <1>2, <3>1, <3>2, CleanRewritten
  <2>. QED
    BY <1>3, <2>1 DEF DispatchesClean
<1>7. NamedClean'
  <2>1. ASSUME NEW s \in DOMAIN named', NEW c \in named[s]
        PROVE  Clean(stale', queue, Len(queue) + 1, c)
    <3>1. Clean(stale, queue, Len(queue) + 1, c)
      BY <1>2, <2>1 DEF IInv, NamedClean
    <3>2. ASSUME c \in stale' PROVE c \in stale \/ Cleaned(queue, 0, Len(queue) + 1, c)
      <4>1. CASE c \in Of(o, cached)
        <5>1. s \in Naming(o)
          BY <1>2, <2>1, <4>1 DEF Naming, Of
        <5>2. Unread(cached, queue, c)
          BY <1>2, <2>1, <5>1 DEF IInv, UnusedUnread
        <5>3. \E j \in 1 .. Len(queue) : Syncs(queue[j], c)
          BY <4>1, <5>2 DEF Unread, Of
        <5>. QED
          BY <1>1, <5>3 DEF Cleaned
      <4>. QED
        BY <1>2, <3>2, <4>1
    <3>. QED
      BY <3>1, <3>2, CleanRewritten
  <2>. QED
    BY <1>2, <1>3, <2>1 DEF NamedClean
<1>8. UnusedUnread'
  BY <1>2, <1>3 DEF IInv, UnusedUnread
<1>. QED
  BY <1>6, <1>7, <1>8 DEF IInv

\* The card goes on by one command.
LEMMA ExecuteStep ==
  ASSUME IInv, Typed', execute
  PROVE  IInv'
<1> DEFINE cmd == queue[1]
           n == Len(queue)
<1>1. Typed /\ queue \in Seq(Command)
  BY QueueType DEF IInv
<1>2. UNCHANGED <<batch, named, used>> /\ running # <<>> /\ running' = Tail(running)
  BY DEF execute
<1>3. queue # <<>> /\ cmd = Head(running) /\ queue' = Tail(queue)
  BY <1>1, <1>2, QueueExecute
<1>4. cmd \in Command /\ n \in Nat \ {0} /\ Len(queue') = n - 1
  BY <1>1, <1>3
<1>5. /\ cmd.op = "SURFACE_SYNC" =>
           cached' = cached \ cmd.lines /\ stale' = stale \ cmd.lines
      /\ cmd.op = "DISPATCH" =>
           cached' = cached \cup cmd.reads /\ stale' = stale \cup Written(cmd.writes)
  BY <1>3 DEF execute
<1>7. \A c : c \in stale' => \/ c \in stale /\ ~ Syncs(cmd, c)
                             \/ c.object \in Writes(cmd)
  BY <1>4, <1>5 DEF Command, Syncs, Writes, Written
<1>8. ASSUME NEW c, NEW i \in 2 .. n + 1, Clean(stale, queue, i, c)
      PROVE  Clean(stale', queue', i - 1, c)
  BY <1>1, <1>3, <1>7, <1>8, CleanExecuted
<1>9. DispatchesClean'
  <2>1. ASSUME NEW i \in 1 .. n - 1, NEW c \in Reads(queue'[i])
        PROVE  Clean(stale', queue', i, c)
    <3>1. i + 1 \in 2 .. n /\ queue'[i] = queue[i + 1]
      BY <1>1, <1>3, <1>4, <2>1, TailIndex
    <3>2. Clean(stale, queue, i + 1, c)
      BY <1>4, <2>1, <3>1 DEF IInv, DispatchesClean
    <3>3. Clean(stale', queue', (i + 1) - 1, c)
      BY <1>4, <1>8, <3>1, <3>2
    <3>. QED
      BY <3>3
  <2>. QED
    BY <1>4, <2>1 DEF DispatchesClean
<1>10. NamedClean'
  <2>1. ASSUME NEW s \in DOMAIN named, NEW c \in named[s]
        PROVE  Clean(stale', queue', (n + 1) - 1, c)
    <3>1. Clean(stale, queue, n + 1, c)
      BY <2>1 DEF IInv, NamedClean
    <3>. QED
      BY <1>4, <1>8, <3>1
  <2>2. Len(queue') + 1 = (n + 1) - 1
    BY <1>4
  <2>. QED
    BY <1>2, <2>1, <2>2 DEF NamedClean
<1>11. UnusedUnread'
  <2>1. cmd.op # "DISPATCH" => cached' \subseteq cached /\ \A c : Syncs(cmd, c) => c \notin cached'
    BY <1>4, <1>5 DEF Command, Syncs
  <2>2. ASSUME NEW s \in DOMAIN named \ used, NEW c \in named[s]
        PROVE  Unread(cached', queue', c)
    <3>1. Unread(cached, queue, c)
      BY <2>2 DEF IInv, UnusedUnread
    <3>. QED
      BY <1>1, <1>3, <2>1, <3>1, UnreadExecuted
  <2>. QED
    BY <1>2, <2>2 DEF UnusedUnread
<1>. QED
  BY <1>9, <1>10, <1>11 DEF IInv

\* A flush moves commands from one queue to the other.
LEMMA FlushStep ==
  ASSUME IInv, Typed', flush_cs \/ UNCHANGED vars
  PROVE  IInv'
<1>1. Typed /\ UNCHANGED <<cached, stale, named, used>>
  BY DEF IInv, flush_cs, vars
<1>2. queue' = queue
  <2>1. CASE flush_cs
    BY <1>1, <2>1, QueueFlush DEF flush_cs
  <2>2. CASE UNCHANGED vars
    BY <2>2 DEF vars, queue
  <2>. QED
    BY <2>1, <2>2
<1>. QED
  BY <1>1, <1>2 DEF IInv, DispatchesClean, NamedClean, UnusedUnread

LEMMA InvariantStep ==
  ASSUME Offset \subseteq {0}, IInv, Typed', [Next]_vars
  PROVE  IInv'
<1>1. CASE \E o \in Object, offset \in Offset, n \in VtxDwords : set_vtx_resource(o, offset, n)
  <2>1. PICK o \in Object, n \in VtxDwords : set_vtx_resource(o, 0, n)
    BY <1>1
  <2>2. n \in Nat /\ 4 * n <= ObjectSize /\ ObjectSize < WordSize
    BY SizeAssumption
  <2>3. (n * 4) % WordSize = n * 4 /\ n * 4 \in Nat
    BY <2>2, SizeAssumption
  <2>. QED
    BY <2>1, <2>3, NameStep DEF set_vtx_resource, Slot
<1>2. CASE \E o \in Object, offset \in Offset, n \in ConstBytes : setup_const_cache(o, n, offset)
  <2>1. PICK o \in Object, n \in ConstBytes : setup_const_cache(o, n, 0)
    BY <1>2
  <2>2. n \in Nat
    BY SizeAssumption
  <2>. QED
    BY <2>1, <2>2, NameStep DEF setup_const_cache, Slot
<1>3. CASE \E o \in Object, n \in CodeBytes : prepare_compute_shader(o, n)
  <2>1. PICK o \in Object, n \in CodeBytes : prepare_compute_shader(o, n)
    BY <1>3
  <2>2. n \in Nat
    BY SizeAssumption
  <2>. QED
    BY <2>1, <2>2, NameStep DEF prepare_compute_shader, Slot
<1>4. CASE \E o \in Object : rewrite(o)
  BY <1>4, RewriteStep
<1>5. CASE \E written \in {{}} \cup {{o} : o \in Object} : direct_dispatch(written)
  BY <1>5, DispatchStep
<1>6. CASE execute
  BY <1>6, ExecuteStep
<1>7. CASE flush_cs \/ UNCHANGED vars
  BY <1>7, FlushStep
<1>. QED
  BY <1>1, <1>2, <1>3, <1>4, <1>5, <1>6, <1>7 DEF Next

\* The next command of the card is the first of the queue.
LEMMA InvariantFresh == IInv => FreshReads
<1>. SUFFICES ASSUME IInv, running # <<>>, NEW c \in Reads(Head(running)), c \in stale
              PROVE  FALSE
  BY DEF FreshReads
<1>1. running \in Seq(Command) /\ batch \in Seq(Command)
  BY DEF IInv, Typed
<1>2. Len(queue) >= 1 /\ queue[1] = Head(running) /\ Len(queue) \in Nat
  BY <1>1 DEF queue
<1>3. Clean(stale, queue, 1, c)
  BY <1>2 DEF IInv, DispatchesClean
<1>. QED
  BY <1>3 DEF Clean, Cleaned

\* When buffers begin where their objects do, no dispatch reads a line that
\* memory has changed under: the surface sync of each setter is enough,
\* whatever the sizes and whenever batches are flushed and executed.
THEOREM FreshReadsCorrect ==
  ASSUME Offset \subseteq {0}
  PROVE  Spec => []FreshReads
<1>1. IInv /\ [Next]_vars => IInv'
  <2>1. IInv => Typed
    BY DEF IInv
  <2>. QED
    BY <2>1, TypedStep, InvariantStep
<1>. QED
  BY <1>1, InitInvariant, InvariantFresh, PTL DEF Spec
=============================================================================
