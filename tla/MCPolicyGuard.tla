---------------------------- MODULE MCPolicyGuard ----------------------------
(***************************************************************************)
(* PolicyGuard with the code's ratios: a skeleton of 128 bytes is 1 and a  *)
(* cube of 256 is 2, so west (512) affords one cube and one tombstone.     *)
(* Position 0 is the origin, 1 west, 2 east.                               *)
(***************************************************************************)
EXTENDS PolicyGuard, TLC

CONSTANTS west, east

MCPrincipals == {west, east}
MCRegion == west :> {1} @@ east :> {2}
MCWorkingLimit == west :> 4 @@ east :> 5
MCRetainedLimit == west :> 4 @@ east :> 7

Symmetry == Permutations(TempNames) \cup Permutations(Holders)
=============================================================================
