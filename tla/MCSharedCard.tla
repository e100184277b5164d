---------------------------- MODULE MCSharedCard ----------------------------
(***************************************************************************)
(* Two programs of two jobs each, with different shaders and groups; one RAT *)
(* of each kind, and one loop constant.                                    *)
(***************************************************************************)
EXTENDS SharedCard, TLC

CONSTANTS p1, p2
Starts == (p1 :> 1) @@ (p2 :> 2)
Shaders == (p1 :> 0) @@ (p2 :> 1)
Groups == (p1 :> <<64>>) @@ (p2 :> <<8, 4>>)
TwoRats == {0, 11}
OneLoop == {1}
=============================================================================
