---------------------------- MODULE RegisterFile ----------------------------
(***************************************************************************)
(* The registers r800_state sets for a job (src/r800_state.cpp), from the  *)
(* calls that name them to what the card has in them when it starts the    *)
(* dispatch.  Every write travels as a packet whose length and place the   *)
(* command processor takes from its header.                                *)
(***************************************************************************)
EXTENDS Setters

CONSTANTS
  RatId, CacheId, FetchId, LoopCount,   \* arguments the programs may pass
  Start,                                \* offsets of objects, in 256 bytes
  LocalSize,                            \* the threads of a group, by dimension
  MaxCalls                              \* bound: calls before the last dispatch

IntMax == 2147483647

\* Indices from 0 up to what the assertions in set_rat, setup_const_cache and
\* set_loop_consts let pass, and the resources evergreen_reg.h gives compute
\* shaders.  The assertions on int indices also let negative ones pass; no
\* caller has one.  The threads of a group are multiplied in an int, and
\* nothing asserts how many they are.
ASSUME ArgumentAssumption ==
  /\ RatId \subseteq 0 .. 11
  /\ CacheId \subseteq 0 .. 15
  /\ FetchId \subseteq 816 .. 991
  /\ LoopCount \subseteq 0 .. 32
  /\ Start \subseteq Nat /\ MaxCalls \in Nat
  /\ \A sizes \in LocalSize :
       /\ sizes \in Seq(Nat) /\ Len(sizes) < 4
       /\ Product(sizes) \in 0 .. IntMax
  /\ ChipFamily = "CYPRESS"

VARIABLES
  todo,          \* writes the call under way has still to make
  ib,            \* dwords the command processor has not read
  regs,          \* registers written, a partial function on addresses
  outside,       \* history: a packet ran out of its register space
  started,       \* the command processor has just started a dispatch
  calls,         \* calls made
  asked          \* history: where and what each named register was asked to be

vars == <<todo, ib, regs, outside, started, calls, asked>>

LastAddress == \h3ffff     \* no space reaches further

TypeOK ==
  /\ Len(todo) <= Len(set_default_state)
  /\ \A i \in DOMAIN ib : IF IsHeader(ib[i]) THEN ib[i].count \in 0 .. CountMod - 1
                           ELSE ib[i].v \subseteq Bit
  /\ \A r \in DOMAIN regs : r \in 0 .. LastAddress /\ r % 4 = 0 /\ regs[r] \subseteq Bit
  /\ outside \in BOOLEAN /\ started \in BOOLEAN
  /\ calls \in 0 .. MaxCalls + 1
  /\ \A k \in DOMAIN asked : asked[k].at \in Nat /\ asked[k].word \subseteq Bit \X Int

Init ==
  /\ todo = <<>> /\ ib = <<>>
  /\ regs = <<>>
  /\ outside = FALSE /\ started = FALSE
  /\ calls = 0
  /\ asked = <<>>

-----------------------------------------------------------------------------
(* The calls.  They only append to the stream, so it makes no difference   *)
(* when the card reads what they wrote: here, before the next write.       *)

Queue(writes) ==
  /\ todo = <<>> /\ ib = <<>>
  /\ calls' = calls + 1
  /\ todo' = writes
  /\ started' = FALSE
  /\ UNCHANGED <<ib, regs, outside, asked>>

write ==
  /\ todo # <<>> /\ ib = <<>>
  /\ todo' = Tail(todo)
  /\ ib' = Encode(Head(todo))
  /\ asked' = Over(Asks(Head(todo)), asked)
  /\ UNCHANGED <<regs, outside, started, calls>>

Call(writes) == calls < MaxCalls /\ Queue(writes)

Dispatch(writes) == calls <= MaxCalls /\ Queue(writes)

WithinSpace(addresses) ==
  \E s \in Space : \A r \in addresses : s.lo <= r /\ r < s.hi

\* The command processor reads the next packet.
cp_packet ==
  /\ ib # <<>>
  /\ IsHeader(Head(ib))
  /\ Extent(ib) <= Len(ib)
  /\ ib' = Behind(ib)
  /\ started' = (~ WritesRegisters(Head(ib)) /\ Head(ib).op = "DISPATCH_DIRECT")
  /\ IF WritesRegisters(Head(ib))
     THEN LET w == Written(Head(ib), Body(ib))
          IN  /\ regs' = Over(w, regs)
              /\ outside' = (outside \/ ~ WithinSpace(DOMAIN w))
     ELSE UNCHANGED <<regs, outside>>
  /\ UNCHANGED <<todo, calls, asked>>

Next ==
  \/ Call(set_default_state) \/ Call(no_tmp_ring)
  \/ \E load \in Load :
       \/ Call(set_lds(load)) \/ Call(set_gds(load)) \/ Call(select_se(load))
       \/ Call(prepare_compute_shader(load))
  \/ \E s \in Start : Call(set_export(s)) \/ Call(set_tmp_ring(s))
  \/ \E n \in LoopCount, load \in Load : Call(set_loop_consts(n, load))
  \/ \E id \in RatId, s \in Start : Call(set_rat(id, s))
  \/ \E id \in RatId : Call(set_rat_defaults(id))
  \/ \E i \in CacheId, s \in Start, load \in Load : Call(setup_const_cache(i, s, load))
  \/ \E id \in FetchId, s \in Start, hi \in {0, 511}, load \in Load :
       Call(set_vtx_resource(id, s, hi, load))
  \/ \E local \in LocalSize : Dispatch(direct_dispatch(local))
  \/ write
  \/ cp_packet

Spec == Init /\ [][Next]_vars

-----------------------------------------------------------------------------
(* Safety.                                                                 *)

(***************************************************************************)
(* The command processor always finds a header where it expects one, with  *)
(* the whole packet behind it: the counts packet0 and packet3 compute and  *)
(* the dwords set_regs writes after them agree, with relocations between   *)
(* packets only.                                                           *)
(***************************************************************************)
InSync == ib # <<>> => IsHeader(Head(ib)) /\ Extent(ib) <= Len(ib)

(***************************************************************************)
(* No array the setters index, and no burst of the default state, runs out *)
(* of its register space, for every index from 0 up to what the assertions *)
(* let pass, and for any threads.                                          *)
(***************************************************************************)
StaysInSpace == ~ outside

(***************************************************************************)
(* When the card starts a dispatch, each register has the value it was     *)
(* named with last, whatever was set after it: neither another element of  *)
(* an array nor the zeros at the end of a burst overwrite it, across the   *)
(* two strides of the RATs and in the order of the default state too.      *)
(***************************************************************************)
Holds(r, word) == r \in DOMAIN regs /\ regs[r] = Value(word)

AsAsked == started => \A k \in DOMAIN asked : Holds(asked[k].at, asked[k].word)

(***************************************************************************)
(* Whatever a setter or the default state puts together with shifts, each  *)
(* number lies inside one field that the headers declare for its register: *)
(* it neither runs into the next field nor falls off the end, for indices  *)
(* up to what is asserted and a group of 4095 threads (GroupsFit); a       *)
(* register that no header declares gets zeros at most.  direct_dispatch   *)
(* does not check the threads, and a group of 4096 breaks it.              *)
(***************************************************************************)
IsBuffer(r) == TypeField \subseteq regs[32 * (r \div 32) + 28]

Fits(f, r) == \E d \in FieldsAt(r, IsBuffer(r)) : Placed(f) \subseteq d

\* What the 12 bits of VGT_COMPUTE_THREAD_GROUP_SIZE hold.
GroupsFit == \A sizes \in LocalSize : Product(sizes) \in 1 .. 4095

WithinFields ==
  started => \A k \in DOMAIN asked : \A f \in asked[k].word : Fits(f, asked[k].at)

(***************************************************************************)
(* evergreen_reg_auto.h declares CB_IMMED0_BASE as an array of 12 and      *)
(* gives it no offset, which elsewhere means one dword each; so the        *)
(* register of RAT id is CB_IMMED0_BASE + 4*id.  set_rat writes            *)
(* CB_IMMED0_BASE + 8*id, the register of RAT 2*id.                        *)
(***************************************************************************)
ImmedOfRat ==
  started => \A id \in RatId :
    id < 6 /\ <<"BASE", id>> \in DOMAIN asked =>
      Holds(CB_IMMED0_BASE + 4 * id, asked[<<"BASE", id>>].word)
=============================================================================
