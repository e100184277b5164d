---------------------------- MODULE MCComputeJob ----------------------------
(***************************************************************************)
(* Programs over a buffer in VRAM and one in GTT, or over one buffer that  *)
(* the program may name with either domain, and one or two shaders.        *)
(***************************************************************************)
EXTENDS ComputeJob, TLC

CONSTANTS b1, b2, s1, s2

AnyAccess == [dom : Domain, write : BOOLEAN]
Symmetry == Permutations({s1, s2})
HomeOf == [b \in BO |-> IF b = b2 THEN {"gtt"} ELSE {"vram"}]
AnyHome == [b \in BO |-> Domain]

\* Bound: one setter less in the second job than in the first.
FewerSets == sets' <= 3 - jobs'

CarelessSpec ==
  JobInit /\ [][JobNext /\ FewerSets]_jobVars
    /\ WF_jobVars(Program /\ FewerSets) /\ WF_jobVars(run_batch)
=============================================================================
