--------------------------- MODULE MCDurableStore ---------------------------
(***************************************************************************)
(* DurableStore on a small store.  Payloads are interchangeable: the code  *)
(* only compares them.                                                     *)
(***************************************************************************)
EXTENDS DurableStore, TLC

Symmetry == Permutations(Payloads)
=============================================================================
