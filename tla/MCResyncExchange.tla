-------------------------- MODULE MCResyncExchange --------------------------
(***************************************************************************)
(* ResyncExchange on a small instance.  Clients of one session are alike.  *)
(***************************************************************************)
EXTENDS ResyncExchange, TLC

Symmetry == Permutations(Clients)
=============================================================================
