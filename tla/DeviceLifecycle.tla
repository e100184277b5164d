--------------------------- MODULE DeviceLifecycle --------------------------
(***************************************************************************)
(* The life of an r800_state (src/r800_state.cpp): how a process opens the *)
(* card, takes it over when it runs exclusively, and gives it back.        *)
(*                                                                         *)
(* Several such processes share the card with a display server, and the    *)
(* kernel knows one DRM master at a time.  The steps of a constructor or a *)
(* destructor are its calls to the kernel, one action each, because the    *)
(* others run in between.                                                  *)
(***************************************************************************)
EXTENDS Naturals, FiniteSets

CONSTANTS
  Proc,          \* processes that create an r800_state
  Exclusive,     \* those that ask for the card for themselves
  Root,          \* those that may call DRM_IOCTL_SET_MASTER
  Server,        \* the display server
  Nobody         \* no DRM master

ASSUME ProcAssumption == Exclusive \subseteq Proc /\ Root \subseteq Proc
ASSUME MasterAssumption ==
  Server \notin Proc /\ Nobody \notin Proc /\ Server # Nobody

VARIABLES
  pc,            \* where each process is
  has_master,    \* what each process believes
  bom,           \* whether each process has a buffer-object manager
  master,        \* the kernel's DRM master
  compute_mode   \* the kernel's compute mode, one for the card

vars == <<pc, has_master, bom, master, compute_mode>>

\* Ways to be gone: destroyed, exit(1), assertion failed, exception not caught.
Ended == {"done", "exited", "aborted", "terminated"}

Constructing ==
  {"kms_mode", "reset", "set_master", "drop_again", "set_master_again",
   "set_version", "gem_info"}
Destroying == {"del_bom", "del_reset", "del_mode", "del_master", "close"}

\* Steps only a process that holds the card exclusively goes through.
ExclusiveSteps ==
  {"kms_mode", "reset", "set_master", "drop_again", "set_master_again",
   "set_version", "del_reset", "del_mode", "del_master", "aborted"}

TypeOK ==
  /\ pc \in [Proc -> {"start", "running"} \cup Constructing \cup Destroying \cup Ended]
  /\ \A p \in Proc \ Exclusive : pc[p] \notin ExclusiveSteps
  /\ has_master \in [Proc -> BOOLEAN]
  /\ bom \in [Proc -> BOOLEAN]
  /\ master \in Proc \cup {Server, Nobody}
  /\ compute_mode \in BOOLEAN

Init ==
  /\ pc = [p \in Proc |-> "start"]
  /\ has_master = [p \in Proc |-> FALSE]
  /\ bom = [p \in Proc |-> FALSE]
  /\ master \in {Server, Nobody}
  /\ compute_mode = FALSE

At(p, l) == pc[p] = l
Goto(p, l) == pc' = [pc EXCEPT ![p] = l]

\* The kernel closes the files of a process that is gone.
Gone(p, l) ==
  /\ Goto(p, l)
  /\ master' = IF master = p THEN Nobody ELSE master

-----------------------------------------------------------------------------
(* The constructor.                                                        *)

\* Bug: the card is reset whatever the constructor is asked for.
OpenAlwaysExclusive(p) ==
  /\ At(p, "start")
  /\ Goto(p, "kms_mode")
  /\ master' = IF master = Nobody THEN p ELSE master
  /\ UNCHANGED <<has_master, bom, compute_mode>>

\* The first client to open the card is its master without asking.
open_card(p) ==
  /\ At(p, "start")
  /\ Goto(p, IF p \in Exclusive THEN "kms_mode" ELSE "gem_info")
  /\ master' = IF master = Nobody THEN p ELSE master
  /\ UNCHANGED <<has_master, bom, compute_mode>>

set_kms_compute_mode_on(p) ==
  /\ At(p, "kms_mode")
  /\ Goto(p, "reset")
  /\ compute_mode' = TRUE
  /\ UNCHANGED <<has_master, bom, master>>

\* A failure of set_kms_compute_mode, drmSetInterfaceVersion or GEM_INFO.
exit_1(p) ==
  /\ pc[p] \in {"kms_mode", "set_version", "gem_info", "del_mode"}
  /\ Gone(p, "exited")
  /\ UNCHANGED <<has_master, bom, compute_mode>>

\* Bug: the old manager is not destroyed before init_gpu makes a new one.
SoftResetLeaks(p) ==
  /\ At(p, "reset")
  /\ Goto(p, "set_master")
  /\ UNCHANGED <<has_master, bom, master, compute_mode>>

\* The result of CP_RESET is printed and not acted upon.
soft_reset(p) ==
  /\ At(p, "reset")
  /\ bom' = [bom EXCEPT ![p] = FALSE]
  /\ Goto(p, "set_master")
  /\ UNCHANGED <<has_master, master, compute_mode>>

MayBecomeMaster(p) == p \in Root /\ master \in {Nobody, p}

\* Bug: the result of the ioctl is not looked at.
SetMasterUnchecked(p, l, success, failure) ==
  /\ At(p, l)
  /\ has_master' = [has_master EXCEPT ![p] = TRUE]
  /\ master' = IF MayBecomeMaster(p) THEN p ELSE master
  /\ Goto(p, success)
  /\ UNCHANGED <<bom, compute_mode>>

SetMaster(p, l, success, failure) ==
  /\ At(p, l)
  /\ \/ /\ MayBecomeMaster(p)
        /\ master' = p
        /\ has_master' = [has_master EXCEPT ![p] = TRUE]
        /\ Goto(p, success)
     \/ /\ ~ MayBecomeMaster(p)
        /\ Goto(p, failure)
        /\ UNCHANGED <<has_master, master>>
  /\ UNCHANGED <<bom, compute_mode>>

\* Bug: the flag is not cleared, as if the master were never lost.
DropMasterKeepsFlag(p, l, next) ==
  /\ At(p, l)
  /\ \/ /\ ~ has_master[p]
        /\ Gone(p, "aborted")
        /\ UNCHANGED has_master
     \/ /\ has_master[p]
        /\ master' = IF master = p THEN Nobody ELSE master
        /\ Goto(p, next)
        /\ UNCHANGED has_master
  /\ UNCHANGED <<bom, compute_mode>>

\* drop_master asserts has_master; a failure of the ioctl changes nothing.
DropMaster(p, l, next) ==
  /\ At(p, l)
  /\ \/ /\ ~ has_master[p]
        /\ Gone(p, "aborted")
        /\ UNCHANGED has_master
     \/ /\ has_master[p]
        /\ p \in Root /\ master = p
        /\ master' = Nobody
        /\ has_master' = [has_master EXCEPT ![p] = FALSE]
        /\ Goto(p, next)
     \/ /\ has_master[p]
        /\ ~ (p \in Root /\ master = p)
        /\ Goto(p, next)
        /\ UNCHANGED <<has_master, master>>
  /\ UNCHANGED <<bom, compute_mode>>

\* get_master takes the master, drops it at once and takes it again.
get_master(p) ==
  \/ SetMaster(p, "set_master", "drop_again", "set_master_again")
  \/ DropMaster(p, "drop_again", "set_master_again")
  \/ SetMaster(p, "set_master_again", "set_version", "set_version")

\* Bug: the interface version is set whoever is master.
VersionAlwaysSet(p) == TRUE

\* Only the DRM master may set the interface version.
VersionMayBeSet(p) == master = p

set_interface_version(p) ==
  /\ At(p, "set_version")
  /\ VersionMayBeSet(p)
  /\ Goto(p, "gem_info")
  /\ UNCHANGED <<has_master, bom, master, compute_mode>>

init_gpu(p) ==
  /\ At(p, "gem_info")
  /\ bom' = [bom EXCEPT ![p] = TRUE]
  /\ Goto(p, "running")
  /\ UNCHANGED <<has_master, master, compute_mode>>

-----------------------------------------------------------------------------
(* The program between constructor and destructor.                         *)

\* The programs call set_kms_compute_mode themselves.
set_kms_compute_mode(p, flag) ==
  /\ At(p, "running")
  /\ compute_mode' = flag
  /\ UNCHANGED <<pc, has_master, bom, master>>

\* soft_reset is public and asserts that the card is held exclusively.
soft_reset_again(p) ==
  /\ At(p, "running")
  /\ p \in Exclusive
  /\ Goto(p, "reset")
  /\ UNCHANGED <<has_master, bom, master, compute_mode>>

\* An exception no program of the repository catches, or exit(1) in
\* set_kms_compute_mode: no destructor runs.
terminate(p) ==
  /\ At(p, "running")
  /\ Gone(p, "terminated")
  /\ UNCHANGED <<has_master, bom, compute_mode>>

-----------------------------------------------------------------------------
(* The destructor.                                                         *)

return_from_main(p) ==
  /\ At(p, "running")
  /\ Goto(p, "del_bom")
  /\ UNCHANGED <<has_master, bom, master, compute_mode>>

del_bom(p) ==
  /\ At(p, "del_bom")
  /\ bom' = [bom EXCEPT ![p] = FALSE]
  /\ Goto(p, IF p \in Exclusive THEN "del_reset" ELSE "close")
  /\ UNCHANGED <<has_master, master, compute_mode>>

\* Bug: the card is given up before the compute mode is switched off.
DelResetDropping(p) == DropMaster(p, "del_reset", "del_mode")

del_reset(p) ==
  /\ At(p, "del_reset")
  /\ Goto(p, "del_mode")
  /\ UNCHANGED <<has_master, bom, master, compute_mode>>

del_mode(p) ==
  /\ At(p, "del_mode")
  /\ compute_mode' = FALSE
  /\ Goto(p, "del_master")
  /\ UNCHANGED <<has_master, bom, master>>

del_master(p) == DropMaster(p, "del_master", "close")

close_card(p) ==
  /\ At(p, "close")
  /\ Gone(p, "done")
  /\ UNCHANGED <<has_master, bom, compute_mode>>

-----------------------------------------------------------------------------
(* The display server comes and goes.                                      *)

ServerTakes ==
  /\ master = Nobody
  /\ master' = Server
  /\ UNCHANGED <<pc, has_master, bom, compute_mode>>

ServerLeaves ==
  /\ master = Server
  /\ master' = Nobody
  /\ UNCHANGED <<pc, has_master, bom, compute_mode>>

ProcNext(p) ==
  \/ open_card(p)
  \/ set_kms_compute_mode_on(p)
  \/ exit_1(p)
  \/ soft_reset(p)
  \/ get_master(p)
  \/ set_interface_version(p)
  \/ init_gpu(p)
  \/ \E flag \in BOOLEAN : set_kms_compute_mode(p, flag)
  \/ soft_reset_again(p)
  \/ terminate(p)
  \/ return_from_main(p)
  \/ del_bom(p)
  \/ del_reset(p)
  \/ del_mode(p)
  \/ del_master(p)
  \/ close_card(p)

Next ==
  \/ \E p \in Proc : ProcNext(p)
  \/ ServerTakes
  \/ ServerLeaves

Spec == Init /\ [][Next]_vars
-----------------------------------------------------------------------------
(* Safety.                                                                 *)

(***************************************************************************)
(* A live process that believes it is DRM master (has_master) is: between  *)
(* drop_master and the second SET_MASTER of get_master, and at its end,    *)
(* another client may take the card, and the flag must not survive that.   *)
(***************************************************************************)
MasterBelief ==
  \A p \in Proc : pc[p] \notin Ended /\ has_master[p] => master = p

(***************************************************************************)
(* A process of root never finds DROP_MASTER refused, in get_master or in  *)
(* its destructor, after whatever soft resets: drop_master has the throw   *)
(* for it commented out with "shouldn't happen!".                          *)
(***************************************************************************)
DropSucceeds ==
  \A p \in Root :
    /\ pc[p] \in {"drop_again", "del_master"} => has_master[p] /\ master = p
    /\ ~ At(p, "aborted")

\* From the end of its constructor up to the destructor's drop_master.
HoldsCard(p) ==
  p \in Exclusive /\ pc[p] \in {"gem_info", "running"} \cup (Destroying \ {"close"})

(***************************************************************************)
(* A process that got an exclusive r800_state holds the card until its     *)
(* destructor gives it up: no display server and no other exclusive        *)
(* process is master while it resets the card and submits to it.           *)
(***************************************************************************)
ExclusiveIsMaster == \A p \in Proc : HoldsCard(p) => master = p

(***************************************************************************)
(* A running process has a buffer manager, and init_gpu never overwrites a *)
(* manager that soft_reset did not destroy.                                *)
(***************************************************************************)
OneManager ==
  \A p \in Proc :
    /\ At(p, "running") => bom[p]
    /\ At(p, "gem_info") => ~ bom[p]

(***************************************************************************)
(* While a process holds an exclusive r800_state, no destructor but its    *)
(* own switches the compute mode off under its jobs, although the mode is  *)
(* one flag of the card and a destructor's steps come one by one: another  *)
(* exclusive process that still had its switch-off to make would be DRM    *)
(* master too.  What stays is a running program's own call, of which the   *)
(* code asks nothing: it moves no process on.                              *)
(***************************************************************************)
ModeKept ==
  [][compute_mode /\ ~ compute_mode' =>
       \A p \in Proc : HoldsCard(p) => pc' = pc \/ pc'[p] # pc[p]]_vars

(***************************************************************************)
(* assert(has_master) in drop_master holds of every process.  It does not  *)
(* of one that is master without being root: the first client to open the  *)
(* card.  get_master only reports that SET_MASTER failed, everything else  *)
(* succeeds, and the destructor asserts.                                   *)
(***************************************************************************)
AssertHolds == \A p \in Proc : ~ At(p, "aborted")
=============================================================================
