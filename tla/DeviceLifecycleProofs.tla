----------------------- MODULE DeviceLifecycleProofs -----------------------
(***************************************************************************)
(* Theorems about DeviceLifecycle, for every set of processes.             *)
(***************************************************************************)
EXTENDS DeviceLifecycle, TLAPS

\* A process of root that holds the card knows it, from the second SET_MASTER
\* of get_master to the end of its destructor.
RootKnows ==
  \A p \in Root \cap Exclusive :
    pc[p] \in {"set_version", "gem_info", "running"} \cup (Destroying \ {"close"})
      /\ master = p => has_master[p]

\* Only SET_MASTER leads to the DROP_MASTER of get_master.
DropIsOwn ==
  \A p \in Proc : At(p, "drop_again") => has_master[p] /\ master = p

\* No manager is left when init_gpu is about to make one.
NoManagerYet ==
  \A p \in Proc :
    pc[p] \in {"start", "set_master", "drop_again", "set_master_again",
              "set_version", "gem_info"} => ~ bom[p]

IInv ==
  /\ TypeOK
  /\ MasterBelief
  /\ DropSucceeds
  /\ ExclusiveIsMaster
  /\ OneManager
  /\ RootKnows
  /\ DropIsOwn
  /\ NoManagerYet

\* The initial states satisfy it.
LEMMA InitIInv == Init => IInv
  BY ProcAssumption, MasterAssumption
  DEF Init, IInv, TypeOK, MasterBelief, DropSucceeds, ExclusiveIsMaster,
      OneManager, HoldsCard, RootKnows, DropIsOwn, NoManagerYet, At,
      Constructing, Destroying, Ended, ExclusiveSteps

-----------------------------------------------------------------------------
(* Every step keeps it.                                                    *)

\* An exclusive process that drops the mastership aborts or closes the card.
LEMMA LastSteps ==
  ASSUME TypeOK, NEW p \in Proc, At(p, "del_master"),
         NEW l \in {"aborted", "close"}, Goto(p, l)
  PROVE  /\ pc' \in [Proc -> {"start", "running"} \cup Constructing \cup Destroying \cup Ended]
         /\ \A q \in Proc \ Exclusive : pc'[q] \notin ExclusiveSteps
<1>1. l \in Destroying \cup Ended
  BY DEF Destroying, Ended
<1>2. p \in Exclusive
  BY DEF TypeOK, At, ExclusiveSteps
<1>. QED
  BY <1>1, <1>2 DEF TypeOK, Goto

\* One step per action, for all parts at once where the action is simple.
LEMMA StepIInv == IInv /\ [Next]_vars => IInv'
<1>. SUFFICES ASSUME IInv, [Next]_vars
                PROVE  IInv'
  OBVIOUS
<1>. USE ProcAssumption, MasterAssumption
     DEF IInv, TypeOK, MasterBelief, DropSucceeds, ExclusiveIsMaster, OneManager,
         HoldsCard, RootKnows, DropIsOwn, NoManagerYet,
         At, Goto, Gone, Constructing, Destroying, Ended, ExclusiveSteps
<1>1. ASSUME NEW p \in Proc, open_card(p)
      PROVE  IInv'
  BY <1>1 DEF open_card
<1>2. ASSUME NEW p \in Proc, set_kms_compute_mode_on(p)
      PROVE  IInv'
  BY <1>2 DEF set_kms_compute_mode_on
<1>3. ASSUME NEW p \in Proc, exit_1(p)
      PROVE  IInv'
  BY <1>3 DEF exit_1
<1>4. ASSUME NEW p \in Proc, soft_reset(p)
      PROVE  IInv'
  BY <1>4 DEF soft_reset
<1>5. ASSUME NEW p \in Proc, get_master(p)
      PROVE  IInv'
  <2>1. CASE SetMaster(p, "set_master", "drop_again", "set_master_again")
    <3>1. TypeOK'
      BY <2>1 DEF SetMaster, MayBecomeMaster
    <3>2. MasterBelief' /\ DropIsOwn'
      BY <2>1 DEF SetMaster, MayBecomeMaster
    <3>3. ExclusiveIsMaster' /\ OneManager' /\ NoManagerYet'
      BY <2>1 DEF SetMaster, MayBecomeMaster
    <3>4. RootKnows'
      BY <2>1 DEF SetMaster, MayBecomeMaster
    <3>5. DropSucceeds'
      BY <2>1 DEF SetMaster, MayBecomeMaster
    <3>. QED
      BY <3>1, <3>2, <3>3, <3>4, <3>5
  <2>2. CASE DropMaster(p, "drop_again", "set_master_again")
    <3>1. TypeOK'
      BY <2>2 DEF DropMaster
    <3>2. MasterBelief' /\ DropIsOwn'
      BY <2>2 DEF DropMaster
    <3>3. ExclusiveIsMaster' /\ OneManager' /\ NoManagerYet'
      BY <2>2 DEF DropMaster
    <3>4. RootKnows'
      BY <2>2 DEF DropMaster
    <3>5. DropSucceeds'
      BY <2>2 DEF DropMaster
    <3>. QED
      BY <3>1, <3>2, <3>3, <3>4, <3>5
  <2>3. CASE SetMaster(p, "set_master_again", "set_version", "set_version")
    <3>1. TypeOK'
      BY <2>3 DEF SetMaster, MayBecomeMaster
    <3>2. MasterBelief' /\ DropIsOwn'
      BY <2>3 DEF SetMaster, MayBecomeMaster
    <3>3. ExclusiveIsMaster' /\ OneManager' /\ NoManagerYet'
      BY <2>3 DEF SetMaster, MayBecomeMaster
    <3>4. RootKnows'
      BY <2>3 DEF SetMaster, MayBecomeMaster
    <3>5. DropSucceeds'
      BY <2>3 DEF SetMaster, MayBecomeMaster
    <3>. QED
      BY <3>1, <3>2, <3>3, <3>4, <3>5
  <2>. QED
    BY <1>5, <2>1, <2>2, <2>3 DEF get_master
<1>6. ASSUME NEW p \in Proc, set_interface_version(p)
      PROVE  IInv'
  BY <1>6 DEF set_interface_version, VersionMayBeSet
<1>7. ASSUME NEW p \in Proc, init_gpu(p)
      PROVE  IInv'
  BY <1>7 DEF init_gpu
<1>8. ASSUME NEW p \in Proc, soft_reset_again(p)
      PROVE  IInv'
  BY <1>8 DEF soft_reset_again
<1>9. ASSUME NEW p \in Proc, terminate(p)
      PROVE  IInv'
  BY <1>9 DEF terminate
<1>10. ASSUME NEW p \in Proc, return_from_main(p)
      PROVE  IInv'
  BY <1>10 DEF return_from_main
<1>11. ASSUME NEW p \in Proc, del_bom(p)
      PROVE  IInv'
  BY <1>11 DEF del_bom
<1>12. ASSUME NEW p \in Proc, del_reset(p)
      PROVE  IInv'
  BY <1>12 DEF del_reset
<1>13. ASSUME NEW p \in Proc, del_mode(p)
      PROVE  IInv'
  <2>1. TypeOK'
    BY <1>13 DEF del_mode
  <2>2. MasterBelief' /\ DropIsOwn' /\ RootKnows' /\ DropSucceeds'
    BY <1>13 DEF del_mode
  <2>3. ExclusiveIsMaster' /\ OneManager' /\ NoManagerYet'
    BY <1>13 DEF del_mode
  <2>. QED
    BY <2>1, <2>2, <2>3
<1>14. ASSUME NEW p \in Proc, del_master(p)
      PROVE  IInv'
  <2>1. CASE DropMaster(p, "del_master", "close")
    <3>1. TypeOK'
      <4>1. /\ has_master' \in [Proc -> BOOLEAN] /\ bom' \in [Proc -> BOOLEAN]
            /\ master' \in Proc \cup {Server, Nobody} /\ compute_mode' \in BOOLEAN
        BY <2>1 DEF DropMaster
      <4>2. Goto(p, "aborted") \/ Goto(p, "close")
        BY <2>1 DEF DropMaster
      <4>3. TypeOK /\ At(p, "del_master")
        BY <2>1 DEF DropMaster
      <4>4. /\ pc' \in [Proc -> {"start", "running"} \cup Constructing \cup Destroying \cup Ended]
            /\ \A q \in Proc \ Exclusive : pc'[q] \notin ExclusiveSteps
        BY <4>2, <4>3, LastSteps
      <4>. QED
        BY <4>1, <4>4
    <3>2. MasterBelief' /\ DropIsOwn'
      BY <2>1 DEF DropMaster
    <3>3. ExclusiveIsMaster' /\ OneManager' /\ NoManagerYet'
      BY <2>1 DEF DropMaster
    <3>4. RootKnows'
      BY <2>1 DEF DropMaster
    <3>5. DropSucceeds'
      BY <2>1 DEF DropMaster
    <3>. QED
      BY <3>1, <3>2, <3>3, <3>4, <3>5
  <2>. QED
    BY <1>14, <2>1 DEF del_master
<1>15. ASSUME NEW p \in Proc, close_card(p)
      PROVE  IInv'
  BY <1>15 DEF close_card
<1>16. ASSUME NEW p \in Proc, NEW flag \in BOOLEAN, set_kms_compute_mode(p, flag)
       PROVE  IInv'
  BY <1>16 DEF set_kms_compute_mode
<1>17. CASE ServerTakes \/ ServerLeaves
  BY <1>17 DEF ServerTakes, ServerLeaves
<1>18. CASE UNCHANGED vars
  BY <1>18 DEF vars
<1>. QED
  BY <1>1, <1>2, <1>3, <1>4, <1>5, <1>6, <1>7, <1>8, <1>9,
     <1>10, <1>11, <1>12, <1>13, <1>14, <1>15, <1>16, <1>17, <1>18 DEF Next, ProcNext

\* The inductive invariant holds throughout.
THEOREM Invariance == Spec => []IInv
<1>. QED
  BY InitIInv, StepIInv, PTL DEF Spec

-----------------------------------------------------------------------------
(* What follows.                                                           *)

\* A process that is alive and believes to be the DRM master is it, whatever
\* other processes and the display server do.
THEOREM MasterBeliefCorrect == Spec => []MasterBelief
<1>1. IInv => MasterBelief
  BY DEF IInv
<1>. QED
  BY Invariance, <1>1, PTL

\* A process of root never fails to drop the card and never fails the
\* assertion of drop_master.
THEOREM DropSucceedsCorrect == Spec => []DropSucceeds
<1>1. IInv => DropSucceeds
  BY DEF IInv
<1>. QED
  BY Invariance, <1>1, PTL

\* A process with an exclusive r800_state is the master from the end of the
\* construction to the last call of the destructor, root or not.
THEOREM ExclusiveIsMasterCorrect == Spec => []ExclusiveIsMaster
<1>1. IInv => ExclusiveIsMaster
  BY DEF IInv
<1>. QED
  BY Invariance, <1>1, PTL

\* Buffer managers are neither used before they are made nor leaked.
THEOREM OneManagerCorrect == Spec => []OneManager
<1>1. IInv => OneManager
  BY DEF IInv
<1>. QED
  BY Invariance, <1>1, PTL

\* No destructor of another process switches the compute mode off while a
\* process holds the card: whoever switches it off holds the card itself.
THEOREM ModeKeptCorrect == Spec => ModeKept
<1> DEFINE Own(p) == pc' = pc \/ pc'[p] # pc[p]
<1>1. ASSUME IInv, Next, compute_mode, ~ compute_mode', NEW p \in Proc, HoldsCard(p)
      PROVE  Own(p)
  <2>1. ASSUME NEW q \in Proc, NEW flag \in BOOLEAN, set_kms_compute_mode(q, flag)
        PROVE  Own(p)
    BY <2>1 DEF set_kms_compute_mode
  <2>2. ASSUME NEW q \in Proc, del_mode(q)
        PROVE  Own(p)
    <3>1. HoldsCard(q)
      BY <1>1, <2>2 DEF IInv, TypeOK, del_mode, At, HoldsCard, Destroying, ExclusiveSteps
    <3>2. q = p
      BY <1>1, <3>1 DEF IInv, ExclusiveIsMaster
    <3>3. pc \in [Proc -> {"start", "running"} \cup Constructing \cup Destroying \cup Ended]
      BY <1>1 DEF IInv, TypeOK
    <3>. QED
      BY <2>2, <3>2, <3>3 DEF del_mode, At, Goto
  <2>3. \/ \E q \in Proc, flag \in BOOLEAN : set_kms_compute_mode(q, flag)
        \/ \E q \in Proc : del_mode(q)
    BY <1>1 DEF Next, ProcNext, open_card, set_kms_compute_mode_on, exit_1, soft_reset,
       get_master, SetMaster, DropMaster, set_interface_version, init_gpu,
       soft_reset_again, terminate, return_from_main, del_bom, del_reset, del_master,
       close_card, ServerTakes, ServerLeaves
  <2>. QED
    BY <2>1, <2>2, <2>3
<1>2. IInv /\ [Next]_vars
        => [compute_mode /\ ~ compute_mode' => \A p \in Proc : HoldsCard(p) => Own(p)]_vars
  BY <1>1
<1>. QED
  BY Invariance, <1>2, PTL DEF Spec, ModeKept

\* Types, and the steps of an exclusive constructor for exclusive processes.
THEOREM TypeCorrect == Spec => []TypeOK
<1>1. IInv => TypeOK
  BY DEF IInv
<1>. QED
  BY Invariance, <1>1, PTL
=============================================================================
