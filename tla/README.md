# HD-Radeon-Compute in TLA+

HD-Radeon-Compute runs compute shaders on Radeon HD 5000 cards without a driver
stack above libdrm: a C++ object, `r800_state`, opens the card, writes the
card's registers through a command stream, and dispatches. This directory holds
a model of it for TLC, and for TLAPS proofs about the parts that everything else
rests on.

    tlc -workers 2 -config MCCmdStream.cfg MCCmdStream.tla
    tlapm CmdStreamProofs.tla

`PROJECT.json` maps each definition to the lines it stands for, and names for
each property a plausible bug (an operator marked `Bug:` in the module) that
breaks it.


## 1. Inventory

| Component | Source | State | Operations |
|---|---|---|---|
| command stream | `radeon_cs.cpp`, `radeon_cs.hpp` | `queue` of tokens, `reloc_num`, `pers_bos`, handles of libdrm | `write_dword`, `reloc`, `add_persistent_bo`, `space_check`, `cs_emit`, `cs_erase`, move constructor, destructor |
| packet encoding | `radeon_cs.cpp`, `evergreen_reg.h` | none | `packet0`, `packet3`, `set_reg`, `set_regs`, the `cs[reg] = value` proxies |
| device lifecycle | `r800_state.cpp` | `fd`, `exclusive`, `has_master`, `bom`; in the kernel: the DRM master, the compute mode | constructor, `get_master`, `drop_master`, `soft_reset`, `init_gpu`, `set_kms_compute_mode`, destructor |
| register setters and dispatch | `r800_state.cpp` | only the stream's, and the card's registers | `set_rat`, `set_vtx_resource`, `setup_const_cache`, `set_tmp_ring`, `set_export`, `set_lds`, `set_gds`, `set_loop_consts`, `load_shader`, `direct_dispatch`, `flush_cs` |
| default state | `r800_state.cpp` | the card's registers | `set_default_state` and its parts |
| register names | `evergreen_reg.h`, `evergreen_reg_auto.h` | none | addresses, arrays, fields |
| shader images | `cs_image.cpp` | a buffer object and the header's numbers | the two constructors, the destructor |
| programs | `main.cpp`, `tests/` | buffers | one job each |
| libdrm_radeon, kernel | external | sections, relocations, persistent list, accounting | `radeon_cs_*`, `radeon_bo_*` |
| the card | external | registers, memory, caches | runs batches, in order, late |
| no part of the program | `radeon_reg.h`, `radeon.cpp`, shaders, build files | | |

How they interact. A setter appends dwords and relocations to the stream, and
*registers* the buffer objects it relocates for a memory check. `load_shader`
makes that check, for everything registered so far; libdrm may answer by calling
the stream's flush callback in the middle of it. `flush_cs` copies the queue
into a libdrm section, submits it to the kernel and forgets it. The card runs
the batch some time later; the program learns of that only through
`radeon_bo_wait`, which knows which batches name which object. Registers live in
the card: they survive batches, jobs and processes.

What is hard here, and what makes each part correct:

- *Command stream.* A throw half way through `cs_emit` leaves the queue in the
  stream and a prefix of it in libdrm; the section's length is declared from a
  counter and filled by a loop elsewhere; a callback submits libdrm's buffer
  while the queue is full; results of libdrm are ignored. Correct: batches reach
  the kernel whole, once and in order, and nothing that is queued is lost on the
  way.
- *Device lifecycle.* `get_master` drops the mastership it just got and takes it
  again, with other clients in between; the constructor can fail at each step,
  and then no destructor runs. Correct: who believes to be master is, an
  exclusive process is master while it works, no buffer manager is lost, and
  nobody's destructor switches the compute mode off under it. (That somebody
  switches the mode off in the end is not so, and nothing promises it.)
- *Setters and jobs.* What is relocated and what is registered are two queues a
  caller fills in several calls; values outlive the job that set them. Correct:
  a well-behaved program is never aborted by libdrm, and what it reads is the
  result of its own last job.
- *Caches.* The card reads buffers and programs through caches; a setter queues
  a surface sync for what it names, with a size in lines, and the program
  rewrites its objects between jobs. Correct: no job reads what a cache kept from
  before.
- *One card for all.* Nothing separates the registers of two programs. Correct:
  a job finds every register as its own program meant it.
- *Shader images.* An image can be damaged or short, its code is padded for the
  object and not for the copy, and the size it declares is not compared with what
  was given. Correct: what the card runs is the code that was made.
- *Registers and packets.* Counts off by one, strides that change in the middle
  of an array and are not those of the header, bursts of zeros that run over registers other functions name,
  numbers shifted together without masks. Correct: the command processor stays in
  step, at a dispatch each register has what was asked of it last, and each number
  is inside its field, if the arguments fit.

All of `PROJECT.json`'s `hazards` are attached to a line of the source; the ones
that no property covers say why.


## 2. Plan

| Order | Module | Contents | State |
|---|---|---|---|
| 1 | `CommandQueue` | abstract: what a stream promises | done |
| 2 | `LibdrmCS`, `CmdStream` | the stream, shown to implement `CommandQueue` | done |
| 3 | `CmdStreamProofs` | its invariants and the refinement, proved | done |
| 4 | `DeviceLifecycle`, `DeviceLifecycleProofs` | mastership, resets, compute mode; proved | done |
| 5 | `R800State`, `ComputeJob` | setters over `CmdStream`; a program and the card | done |
| 6 | `PacketStream`, `RegisterLayout`, `RegisterMap`, `DefaultState`, `Setters`, `RegisterFile` | packets, addresses, fields and values, what the card has at a dispatch | done |
| 7 | `SharedCard` | several programs' batches over one card's registers | done |
| 8 | `SurfaceSync` | the card's caches, and the setters that empty them | done |
| 9 | `ShaderImage` | the loader of `cs_image.cpp` | done |
| 10 | in `CmdStreamProofs` | libdrm holds every object it submits, proved | done |
| 11 | `SurfaceSyncProofs` | no stale reads, for all objects and sizes, proved | done |
| 12 | `ComputeJobProofs` | types and `FlushSucceeds` for all sets of objects, proved | done |
| 13 | in `ComputeJobProofs` | results are the last job's, for all programs, proved | done |
| 14 | `ShaderImageProofs` | the checksum, for images of all sizes, proved | done |
| 15 | `SetterProofs`, `RegisterFileProofs` | packets and register spaces, for all arguments, proved | done |
| 16 | in `RegisterFileProofs` | `AsAsked`: no write runs over a register another one names, proved | done |
| 17 | `SharedCardProofs` | a job's registers are its own, for any number of programs, proved | done |
| 18 | in `RegisterFileProofs` | `WithinFields`: each number lies in a field of its register, proved | done |

`R800State` EXTENDS `CmdStream` (a setter *is* a run of its operations),
`ComputeJob` composes both with the program and the card. `RegisterFile` looks
at the same setters one level further down, at addresses and packets, where
relocations and memory do not matter; it and `SharedCard` EXTEND `Setters`, the
writes of each operation, which in turn stands on `DefaultState`, `RegisterMap`,
`PacketStream` and `RegisterLayout`. `SurfaceSync` and `ShaderImage` are about
memory and need no registers. `DeviceLifecycle` stands alone: its
processes meet in the kernel, and their streams begin when it says `running`.


## 3. The modules and the code

**`LibdrmCS`** (external). The command buffer is a record `[buf, ndw, cdw,
domain]`: tokens written, dwords declared and written, the domain each object
was relocated with. Begin refuses a second section, a relocation is refused when
both or neither of its domains are given or when it disagrees with an earlier
one in the batch. `acct` is where the memory check accounted for an object.
Sizes and limits are left out: a memory check may succeed, may ask for a flush,
or may fail, unless a conflict of domains leaves no choice. The persistent list
is a set, because libdrm keeps one entry for each object and pair of domains; an
object listed twice ends in either of its domains.

**`CmdStream`**. One action for each public operation. `flush_cs` is the
exception: `flush_cs_begin` declares the section, `flush_cs_dword` and
`flush_cs_reloc` are one turn of the loop each, and it ends in `flush_cs_end`
(`radeon_cs_end`, `radeon_cs_emit`, `radeon_cs_erase`, `cs_erase`, one step:
nothing runs in between), in `flush_cs_throws` ("Relocation error") or
`flush_cs_aborts` (libdrm's assertion on an object no check has seen).
`space_check` has one disjunct for each outcome. The caller is any caller: it may
catch what is thrown and go on. `move` keeps the queue and loses the callback,
as the move constructor does; the model follows the stream that was moved to.
`broken` is a history variable.

**`CommandQueue`** has three variables: written and not flushed, left behind by
a failed flush, accepted by the kernel. `KeepsPromise` maps the last part of
libdrm's buffer that is not the flush under way to `residue`. Its `Discard` may
drop what is written at any time, because `cs_erase` does; that nothing but
`cs_erase` does is `QueueKept` of `CmdStream`.

**`DeviceLifecycle`**. Each process is at the kernel call it makes next, since
all others run between two calls; the labels follow the constructor, `init_gpu`,
`soft_reset`, `get_master`, `drop_master` and the destructor. SET_MASTER
succeeds for root when nobody else is master; the first client that opens the
card is master without asking; closing gives it up. A display server takes and
leaves the card at any time. `exit(1)` and uncaught exceptions end a process
without its destructor. The public `get_master`, `drop_master` and `init_gpu`
are used by the constructor, destructor and `soft_reset` only, in every program
here, and so in the model.

**`R800State`**. A register, or a group written together, is one dword token; a
setter is a run of tokens and registrations (`Issue`), in the order of the code.
`load_shader` has three steps: register the shader, check, write the shader's
registers.

**`ComputeJob`**. A program as in `main.cpp`: construct, set up, load, dispatch,
flush, wait, read. The setters come in any order and number up to `MaxSets`;
`Late` allows them after `load_shader`, and `Home` says with which domains the
program names an object. The programs of the repository run one job and catch
nothing; `next_job` goes on to another one with the same stream, which the
library permits. The card (`run_batch`) runs the batches the kernel took, in
order, at any time. A relocation gives the register named before it its object
(`Naming`), so after some tokens of a batch each register has the object of the
last one that names it, or what it had before (`RegsAfter`); a dispatch writes to
the object of the RAT which shader and inputs made it. There is one RAT, one fetch
resource and one constant buffer.

**`PacketStream`**. A header is a record of its fields, with its count modulo
2^14. `packet0` chooses the packet for the space an address is in, and the
command processor decodes it.

**`RegisterLayout`**. The registers that `evergreen_reg_auto.h` declares, block
by block, each with its fields; a field is the set of bits between its `_shift`
and the width of its `_mask`, or one flag. Registers with the same fields are
written together. Twelve declarations that `evergreen_reg.h` and
`r800_state.cpp` make by themselves are in the last part. The colour buffers
(`Rats`) are as far apart as `set_rat` has them, 0x3c and then 0x1c. The header gives
their base, pitch, slice, view, info, attributes and size an `_offset` of 51
(`evergreen_reg_auto.h:3524` and up to 3666); where the code uses an `_offset`, as in
`r800_state.cpp:613`, it is a number of bytes, and 51 is no multiple of a dword.
So `AsAsked` and `WithinFields` are about the code's addresses.

**`RegisterMap`, `DefaultState`, `Setters`**. Real addresses and real values,
every write of every setter and of `set_default_state`, in order. A value is kept
as the code puts it together: a set of numbers, each with the place it is shifted
to; `Value` is what 32 bits hold of that. Arguments are zero or the largest
their field takes (`Load`, `UpTo`), so that a number is at the edge of its field.
`set_default_sq` is a table of the chip families: those named in its switch, and
the default for the others. The numbers of a surface sync are packet words and
not writes, but the card puts the first three into registers.

**`RegisterFile`**. A call puts its writes in `todo`; `write` encodes one,
`cp_packet` has the command processor read it. (The calls only append, so when
the card reads makes no difference to it.) Indices go from 0 up to what the assertions let
pass (negative ones pass `assert(id < 12)`, too, and are left out: no program has
one); the threads of a group are any. `asked` remembers the value each
*name* was given last: an element of an array by array and index, any other
register by its address, the zeros behind the first value of a burst by nothing
at all. `WithinFields` looks each number up in `RegisterLayout`; resources have
two layouts, told apart by the type in their last word.

**`SharedCard`**. Each program goes through its jobs as the tests do:
`set_default_state`, setters, the calls that say "none" for LDS, GDS and scratch
ring, `load_shader`, `direct_dispatch`, `flush_cs`. Since a batch overwrites
registers and reads none, it is kept as what it leaves in them, which `Effect`
computes from the writes of `Setters`; registers that only the default state
writes are left out. A batch may be refused, the default state's too.

**`SurfaceSync`**. Memory is objects of lines; `cached` are the lines a cache
holds, `stale` those of them that memory has changed under. The caches are two:
vertex buffers come through one, constants and code through the other, as the
flags of the three calls of `set_surface_sync` say; a sync empties the lines of
the object from its *start*, because the code passes no offset on, and a size of
all ones the whole cache. Queue and card are two sequences of commands, and
`flush_cs` moves one to the other. The program rewrites an object that no pending
dispatch uses (`rewrite`: after `radeon_bo_wait`, or when libdrm gives its memory
to another object), and names it again before a dispatch reads it again; it does
not write an object through the RAT that the same job reads.

**`ShaderImage`**. The magic number and the checksum of an image are fields, and
`rest` is what the sum runs over: chars with their sign, added one by one to a
word that wraps each time. One byte of the image may be changed, or it may be cut
anywhere behind its header; the header's `size`, which nobody reads, stays that of
the image made. The constructor is five steps, each with the assertion that may end it; a raw file is
read in part or whole.


## 4. The runs

| Run | Question | Instance | States |
|---|---|---|---|
| `stream` | counter, section, left-overs, callback, queue kept, objects listed, refinement | 1 object, 1 dword, 2 tokens queued | 680 000 |
| `device` | mastership, managers, compute mode | 3 processes and the server | 7 600 |
| `device_assert` | does `assert(has_master)` hold? (no) | the same | |
| `jobs` | do flushes succeed, are results current? | 2 jobs, 2 setters, 2 buffers, 2 shaders | 730 000 |
| `jobs_careless` | may a careless program read a wrong result, and does every program end? | 2 jobs, 2 setters and 1, also late ones, any domain | 108 000 |
| `registers` | what has the card at a dispatch? | 12 RATs, ends of the other arrays, 2 calls | 398 000 |
| `registers_immed` | is a RAT's immediate base its own? (no) | the same | |
| `registers_groups` | does a group of 4096 threads fit? (no) | 1 call | |
| `shared_card` | does a job find its own registers? | 2 programs, 2 jobs, 1 setter | 860 000 |
| `surface_sync` | does a job read old lines? | 2 objects of 2 lines, 3 commands | 1 740 000 |
| `surface_sync_offset` | and of a buffer behind the first line? (yes) | the same | |
| `shader_image` | is the code in memory the code made? | 3 chars, codes of 1, 2 and 6 bytes | 503 000 |

Why the bounds are enough:

- `stream`: two tokens allow a relocation behind a dword, a dword behind a
  relocation, and the same object relocated twice with domains that disagree, so
  that the second one throws. `MaxBuf = 3` leaves room for the left-overs of such
  a throw in front of a whole flush. With one object and two accesses,
  `MaxSpaceBos = 2` is reached, and so libdrm's assertion. A batch may relocate an
  object that another check listed, an earlier one, or none, for which one object
  is enough; the proof below is for any number. `MaxSent` bounds
  batches the kernel *took*; it may refuse any number.
- `device`: a process for each way to be exclusive (root or not) and one that
  shares. One process in the run is both exclusive and root; the proofs below
  are for any number of each.
- `jobs`: two jobs are what it takes for a register of one to show in the next,
  and two setters for the two that must name the same object (or do not).
  `b1` lives in VRAM and `b2` in GTT, like the buffers of the tests. `MaxQueue`,
  `MaxPers`, `MaxBuf`, `MaxSent` and `MaxSpaceBos` are above what such programs
  can reach, except that two jobs can name more than `MaxSpaceBos` pairs of
  object and access: the abort that follows is part of `FlushSucceeds`. Shaders
  are interchangeable, buffers are not (`HomeOf`).
- `jobs_careless`: two setters meet every disagreement of domains in one batch, and
  a late one every object that no check has seen; the second job, with one setter
  (`FewerSets`), waits for its result while the first one's batch may be pending.
- `registers`: a register can be overwritten by one later call, so two calls
  before a dispatch meet every pair. All twelve RATs are in; of the other
  arrays, the first and last elements, and the first two of the fetch
  resources, whose blocks adjoin. Each number is 0 or all its field takes: a
  number that leaves its field does so at its largest, or not at all. The
  groups of `registers` have at most 4095 threads, the 12 bits of their size
  (`GroupsFit`), though no code checks it; `registers_groups` has one of 4096.
  The family is CYPRESS, which the constructor sets for every card.
- `shared_card`: what one program's batch changes under another one's job shows
  with two programs and two jobs, the second with the default state or without;
  one setter a job, since setters of one job are `registers`' matter. The setters
  are the five without an index, the RATs 0 and 11 (one of each stride) and the
  first loop constant. The two programs differ in everything: shader, group and
  where their objects lie.
- `surface_sync`: lines of 8 bytes and words of 6 bits; a vertex buffer of a line
  and a half, a constant buffer of half a line, code that fills its object: a
  size rounded down, the wrong cache or a missing line all show. Three pending
  commands are a sync, a dispatch and whatever comes between. Objects are
  interchangeable (`SYMMETRY`).
- `shader_image`: headers of ten bytes with two behind the checked part, padding
  to four; code shorter than the padding, and longer than it; chars of both
  signs, in a word of three bits, which overflows both ways; code of six bytes loses a
  dword that adds up to zero or does not. `ImageAssumption`
  says that a char differs from another one by less than the word, as 8 bits do
  in 32, and that an image has a header: the constructor reads one before it knows
  the size.

`CHECK_DEADLOCK FALSE` is in every other configuration because those systems do
stop: a stream is destroyed or aborted, or at its bounds, processes end, programs
return, `RegisterFile` has no call left after the last dispatch, `SharedCard` no job
left, and a shader is gone or its constructor aborted. `SurfaceSync` never stops, and
is checked for deadlock.

**Fairness.** Only `Finishes` needs it. Weak fairness of the program says that
the operating system schedules it; weak fairness of `run_batch` says that the
card goes on to the next batch, that is, that no shader hangs it. Nothing is
assumed of the kernel: it may refuse each batch, and `Finishes` shows that the
wait returns even so, because a refused batch is not one that names the object.
`radeon_bo_wait` and the polling loop of `main.cpp` are both `bo_wait`.

**What the violated runs show.**

- `device_assert`: a process that asks for the card exclusively, is the first to
  open it, and is not root: it is master without SET_MASTER, both attempts
  to become master fail with a message, `drmSetInterfaceVersion` succeeds, the
  program runs, and `drop_master` in the destructor fails `assert(has_master)`
  (`r800_state.cpp:254`).
- `registers_immed`: `set_rat` writes the immediate base of RAT *id* at
  `CB_IMMED0_BASE + id*8` (`r800_state.cpp:1051`); the register header declares
  an array without an offset (`evergreen_reg_auto.h:3344-3345`), whose elements
  elsewhere are one dword apart. `AsAsked` holds of the addresses as the code
  computes them; this run compares them with the header's.
- `registers_groups`: `direct_dispatch` multiplies the sides of a group and writes
  the product (`r800_state.cpp:826`) to a register that the same file declares with
  twelve bits (`r800_state.cpp:98-99`). It asserts nothing about it, so a group of
  16 x 16 x 16 has size 0 there.
- `surface_sync_offset`: `set_surface_sync` has a parameter for the address of
  what it is to empty (`r800_state.h:355`), both setters of buffers pass their
  offset, and the packet is made without it (`r800_state.cpp:907`). A
  buffer that begins behind its object's first lines is read from lines that no
  sync has emptied. The programs of the repository pass offset 0; `surface_sync`
  is about them.

**What the passing runs do not promise.** `ReadbackCurrent` is about a result
whose RAT was set in the same job and whose batch was not refused: the code
ignores the result of `radeon_cs_emit`, so a refused batch leaves old contents to
be read, and `radeon_bo_wait` does not wait for a batch that does not name the
object. `FlushSucceeds` is about programs that name an object with one domain and
call their setters before `load_shader`; the `jobs_careless` run shows that others
are stopped and not misled.

`OwnRegisters` exempts three kinds of registers in a job that does not call
`set_default_state` again: the size of a RAT, that of the export buffer, and the
first loop constant, which setters change and nothing changes back. It is about
jobs made as the tests make them; `main.cpp` leaves out `set_tmp_ring(NULL, 0,
0)`, and with that omission (the mutant `NoTmpRingSkipped`) TLC finds a job with
another program's scratch ring. `OwnRegisters` does not see the registers that
only the default state writes, so it does not tell when a refused batch took the
default state with it.

`ModeKept` is about one direction only: the mode stays on while it is needed. It
also stays on when it is not: after `exit(1)`, after an uncaught exception, and
behind programs that switch it on themselves and never off
(`tests/05_atomics/test.cpp:48`, `tests/10_PCI_bandwidth/test.cpp:57`,
`tests/11_indexed_rat_id/test.cpp:47`). And it covers processes that have the card
for themselves, from the end of the constructor to the destructor; one that shares
it has no such protection, and a running program may switch the mode off itself.

`LoadedIntact` does not promise that an image is whole. One that ends in dwords whose
chars add up to zero, such as zeros, may be cut by them: its length is still a multiple
of four and its sum the same (`cs_image.cpp:51-61`), and although the header says how
much code there is (`size`, `cs_image.h:47`), nobody compares. The property names
these cuts (`UnseenCuts`); every other cut is found. More than one changed byte, which
no sum of chars can be expected to tell, is not modelled. `LoadedIntact` says of a raw file no more than
that what was read is what is run: the result of `fread` is ignored.


## 5. The proofs

TLC's instances are small; the following hold for all values of the constants,
from no more than the named assumptions in the modules, which TLC evaluates in
the runs:

| Assumption | Says |
|---|---|
| `BoundAssumption`, `SpaceAssumption`, `JobAssumption` | bounds are numbers |
| `AccessAssumption`, `AnyAccessAssumption` | accesses are a domain and a direction; a setter may use any of them |
| `RegisterAssumption`, `UnsetAssumption` | registers are dword tokens; "not set" is no object |
| `ShaderAssumption`, `HomeAssumption` | shaders are objects; the domains an object may be named with are domains |
| `ProcAssumption`, `MasterAssumption` | root and exclusive processes are processes; the server and nobody are none |
| `SizeAssumption` | objects fit the words that count their bytes, buffers their objects; buffers start at a line |
| `ImageAssumption` | a char is smaller than the word of the sum, an image has a header |
| `ProgAssumption` | nobody is no program; setters and indices are those the code has; groups have at most three sides |
| `ArgumentAssumption` | indices from 0 up to what the setters assert; a product of threads that an `int` holds; the family CYPRESS |

Three theorems have a hypothesis besides, which the code does not enforce, and a
violated run or `jobs_careless` shows what happens without it: `FlushSucceeds`
needs `Careful`, `FreshReads` needs `Offset \subseteq {0}`, and `WithinFields` needs
`GroupsFit`.


**`CmdStreamProofs`** proves `TypeOK`, `RelocNumExact`, `SectionExact`,
`NothingLeftOver`, `OnlyFlushSubmits`, `QueueKept` and the refinement `KeepsPromise`. The
inductive invariant adds to the first, second and fourth:

- `IdleAtStart`: outside a flush the position is 0. Without it a flush might
  start in the middle of the queue, and `residue` would be cut short.
- `SectionFilled`: inside a flush of a section that is not broken, the buffer is
  as long as the position, the section was declared with the dwords of the whole
  queue, and those written are the prefix's length plus its relocations.
  `SectionExact` follows from it and from the lemma that a prefix has no more
  relocations than the whole; it is not inductive by itself, since it says
  nothing about how many dwords have been written so far.
- `BufferTail`: inside a flush, the end of libdrm's buffer is the prefix of the
  queue already copied, whatever earlier failures left before it. The refinement
  needs it: a throw moves exactly that prefix into `residue`. `QueueKept` needs it,
  too: at the end of the loop the prefix is the whole queue, so `cs_erase` drops
  nothing that libdrm has not got.

The lemmas about `NumRelocs` (empty, appended, prefix) carry the counting, with
the library's theorems on finite sets. Each action maps to a step of
`CommandQueue`: the loop and a check that sends nothing to a stutter, a throw to
`Break`, a flush in the callback to `Spill`, the end of the loop to `Flush`.

Its last part proves `BatchObjectsListed`. What is relocated and
what is registered are two queues, filled by the caller and emptied at different
times; the invariant ties them together through libdrm's accounting:
`AccountedKnown` (an object accounted for is on the list, which only grows) and
`BufferKnown` (libdrm's buffer relocates nothing else, because its assertion on an
object that is not accounted for comes first). Three lemmas say how a step
may change accounting, buffer and batches, and `KnownStep` sorts the actions into
five kinds by what they do to these, on top of `IInv` above.

**`DeviceLifecycleProofs`** proves `MasterBelief`, `DropSucceeds`,
`ExclusiveIsMaster`, `OneManager` and `ModeKept` for any number of processes.
The inductive invariant is the conjunction of the first four, since each needs the
others, with
`RootKnows` (an exclusive process of root past its second SET_MASTER that is
master knows so: what `DropSucceeds` needs at the destructor, far from
`get_master`), `DropIsOwn` (at the DROP_MASTER of `get_master`, a process has the
mastership it is about to drop) and `NoManagerYet` (no buffer manager before
`init_gpu`, and none after `soft_reset`). `DropSucceeds` implies that the branch of `DropMaster` for a
refused ioctl is not taken; it is there because the code has it. `ModeKept` follows
from `ExclusiveIsMaster`: a destructor that switches the mode off is that of an
exclusive process before it gives up its mastership, and there is one master.

**`SurfaceSyncProofs`** proves `TypeOK` for any offsets and `FreshReads` for
buffers that begin where their objects do (`Offset \subseteq {0}`; the run
`surface_sync_offset` shows that it does not hold otherwise). The arithmetic is in
`SyncCovers`: the lines of a sync, its size rounded up and counted in a word, cover
every line the setter names. What a dispatch finds depends on commands that
are still queued, some in the stream and some flushed; the invariant looks at
both as one `queue`, which `flush_cs` does not change:

- `DispatchesClean`: each pending dispatch will find its lines clean, that is, a
  sync lies between whatever made or makes a line stale and the dispatch.
- `NamedClean`: so would a dispatch queued next, of all that is named.
- `UnusedUnread`: no dispatch takes a line into a cache behind the last sync of a
  slot nobody has used yet. This is why such a slot need not be named again when its
  object changes: nothing that a change could make stale gets in.

The `Clean` lemmas say what appending a command, executing the first one and a
rewrite do to a clean line, with no reference to the state.

**`ComputeJobProofs`** proves `JobTypeOK`, and `FlushSucceeds` under the
hypothesis `Careful`: the program calls no setter behind `load_shader`, and names
each object with one domain. Both are conventions the tests follow and nothing
enforces; a program without them is stopped by an abort or a throw, as the run
`jobs_careless` shows. On top of `IInv` of `CmdStreamProofs`, the invariant says
what stands where between the program's calls:

- `OneDomain`: whatever the stream has queued, registered, had accounted for or
  written to libdrm's buffer names an object with that object's domain, so that
  libdrm finds no disagreement.
- `Registered`: up to the memory check, each object relocated in the queue is
  registered for it; at the check, the shader is too.
- `AccountedFor`: behind the check, each object relocated in the queue is
  accounted for, so that the flush does not meet libdrm's assertion. That the check
  itself may flush the queue, and its failure throw, is in the step that leads
  from `Registered` to here.
- `Orderly`: the position in the stream's flush and the program's agree, and the
  one abort left is that of a list longer than `MaxSpaceBos`.

Its last part proves `ReadbackCurrent` for every program, careless or not,
and however far the card lags behind. What a dispatch finds in a register depends
on the queue, on the batches the kernel has and the card has not run, and on the
card; `Due` reads them in that order: the last token in the queue that names the
register, or else the last one in a pending batch, or else the card's own value.

- `DueAsAsked`: that value is what the program asked for last, as long as no batch
  was refused.
- `JobQueue`: the queue holds one dispatch, at its end and from `flush` on only,
  and names the RAT if this job has set it.
- `LastBatch`: behind the flush the last batch is this job's, and once the card
  has run it the object of the RAT is the result wanted.

The lemmas on `RegsAfter` and `Dispatched` say what one batch does to a register,
by the last position that names it.

**`ShaderImageProofs`** proves `TypeOK` and `LoadedIntact` for images of any size
and any header. The sum of an image is a function on the lengths of its prefixes,
and the lemmas find the least length at which a claim about it would fail: up to a
changed char both sums are equal; from there on they differ by the same number,
smaller than the word, whatever wraps and whatever the signs (`WrappedShift`). Of a
cut, the sum of the whole is the sum of what is left plus that of what is gone
(`SumSplits`), so it passes only if the latter is zero, and the length says that it is
whole dwords: that is `UnseenCuts`. The
invariant `Held` adds that what the constructor goes on with is what was made, that
the object has room for it, and what of it has been copied.

**`RegisterFileProofs`** proves `InSync`, `StaysInSpace`, `TypeOK`, `AsAsked` and
`WithinFields`, and **`SetterProofs`**, which it and the next module stand on, the
lemmas about single writes and setters that they need, for all RATs, fetch
resources, constant buffers, loop counts, offsets and group sizes, and any number of
calls in any order. In six steps:

- *Numbers.* A number below 2^31 is the number its bits make, so the offset that
  `packet0` puts into a dword is the one the command processor adds up.
- *Writes.* `SoundWrite`: 1 to 32 words, those for registers from an aligned
  address on and all inside one register space. Each setter's writes are of this kind (`RunRat`, `RunFetch` and
  so on: where the strides, the arrays and the edges of the spaces come in), and so
  are those of each part of `set_default_state`; `EncodePacket` says that such a
  write becomes a packet (`SoundPacket`) whose count is the dwords behind its header
  and whose registers lie in the space, and perhaps a relocation.
- *Names.* `Owner` gives each address the one name that setters use for it, the
  strides of the RATs and the other arrays included, and `Blank` are the registers
  that no call gives a value and only zeros at the end of a burst reach. A sound
  write begins at the address its name owns, and what it overwrites behind the
  first word it either asks for by that register's own name or is blank (`Keeps`).
  So a write leaves what it asks for and spares every other name (`WriteAsks`,
  `WriteSpares`). One burst of the default state is not sound: three zeros from
  `SPI_PS_IN_CONTROL_2` on reach over what a compute shader gets as input, and over the
  width of a group (`Wiper`).
- *Order.* What makes up for that burst: the default state sets the input again
  behind it (`Settles`), and `direct_dispatch` sets the width before it starts the
  card (`Launches`, `Coming`).
- *Fields.* `WordFits`: each number of a word lies inside one field that
  `RegisterLayout` declares at the word's address, or the word is zero. One lemma
  for each register looks up its fields (`BaseFields` and so on), `FitSpan` says when a
  number fits one, and one lemma for each setter and each part of the default state
  adds them up (`FitRat`, `FitFetch` and so on: where the masks, the sizes and the
  two halves of a 64-bit offset come in). A fetch resource has the fields of a buffer
  or of a texture, as its last word says, which may not have been asked for when one
  of the others is looked at; so `InBuffer` demands that the write which sets a word of
  a resource sets its type, too. No side of a group is larger than the product of
  all, unless one is zero (`ProductReaches`), so `GroupsFit` bounds the product only.
- *Steps.* `IInv`: the writes still to be made are sound, the stream is empty, a
  packet with its relocation, or the relocation, and the registers written are
  aligned and inside the card. `InSync` says nothing of writes not encoded yet and
  is not inductive without the first part. `VInv`: *ahead* of the card, counting the
  packet in the stream as read, each name has its value, or is one of the two that
  are `Owed`: a write still to be made sets it, or no dispatch is under way. At a
  dispatch nothing is left to be made, so nothing is owed, which is `AsAsked`. `FInv`:
  the words still to be written and all that were asked for fit, and with a word of
  a fetch resource its type is asked for (`TypeAsked`), if `GroupsFit`; the other
  invariants and theorems do without it. `WithinFields` looks
  for the type in the card, not in what was asked, so it takes `VInv` besides `FInv`: at
  a dispatch the card has it.

**`SharedCardProofs`** proves `TypeOK` and `OwnRegisters`, for any number of
programs, jobs and setters, any objects, shaders and groups. In four steps:

- *Effects.* `Effect` and the effects of several setters are folds; a fold leaves in
  each register what one of its parts writes, and the rest as it was (`FoldOver`,
  `EffectMerges`). So the registers of an effect are those its writes reach, and
  `Within` bounds them.
- *Areas.* `Purpose` says what each address is for: LDS, GDS, the ring, the export
  buffer, the engine, a buffer's registers, a RAT's, the loop constants, or nothing of
  these (`Untouched`). Each setter stays in its own area, an index for an array
  included, and two areas meet only in the loop constants, which all their setters
  give one value (`AreasApart`, `LoopValues`); `load_shader` and `direct_dispatch` stay in
  `Untouched` (`ShaderWithin`, `DispatchWithin`) and write the same registers whatever
  the shader or the group (`FixedEffects`). The calls for "none" leave zeros
  (`UnusedEffects`).
- *Default state.* Its writes, over a hundred, stay in `DefaultArea` (`DefaultWithin`),
  so it gives LDS, GDS and the ring no value, and of the registers that jobs
  write each is written by every job again or is one of the three kinds exempt
  (`DefaultKept`).
- *Steps.* `CardInv`: what a queue holds agrees with where its program is.
  `Started`, `Loaded`, `Complete` add up what must be in it: the default state, except
  where the job wrote itself; each setter called; "none" for what was not; the
  shader; the group. `RegistersInv` says the same of the card, for the program whose
  batch it ran last: `OwnRegisters` speaks of the card only, and without the queues
  it is not inductive. A batch put over any registers brings with it what makes it
  complete (`CardComplete`), which is why nobody else's matter. The proof has no use
  for the guard `defaulted`: a batch without the default state is complete, too,
  except for what is exempt. It would matter for the registers that only the default
  state writes, which the model leaves out.

The library's induction theorems take an operator as a parameter, which the
provers cannot instantiate. Claims about all prefixes or all numbers are proved
here by the least counterexample instead (`Least`, from the library's `WFMin`).

Every invariant and every action property that a passing run checks is a theorem (three
of them under the hypotheses above), and so is the refinement. Only model-checked is `Finishes`: liveness under
fairness is beyond the prover.


## 6. Not modelled, and why

- Sizes of objects and the limits set with `radeon_cs_set_limit`: the memory
  check's verdict is free instead. `SurfaceSync` assumes objects smaller than the
  4 GB its sizes count.
- Negative indices, sizes and numbers of threads, which some assertions let pass,
  and a group whose threads an `int` cannot count: no program has them.
- `indirect_dispatch` and `bo_is_referenced_by_cs`: the one always asserts, the
  other always throws. `set_draw_auto` is called by nothing.
- The names of values of register fields, and the instruction words of shaders
  (`evergreen_reg_auto.h:215-1652`): no code of the repository uses the latter.
  `radeon_reg.h` is included by no file.
- `select_se` restricts what later register writes reach, and nothing undoes it;
  no program calls it, and `OwnRegisters` covers the register it writes, not
  what that does to the others.
- Builds with `NDEBUG`, in which the calls inside `assert` vanish: no build file
  sets it.
- The assembler sources and binaries of the shaders, the build files, and
  `radeon.cpp` and `radeon.hpp`, which are not built.
- The arithmetic in the tests, and their buffers' contents.
