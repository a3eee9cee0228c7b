------------------------------ MODULE MCReplay ------------------------------
(***************************************************************************)
(* The coordinator and its recorder on a small world.  Temporary names are *)
(* interchangeable: the code only tests them for equality.                 *)
(***************************************************************************)
EXTENDS Replay, TLC

Symmetry == Permutations(TempNames)
=============================================================================
