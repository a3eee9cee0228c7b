--------------------------- MODULE MCRetryExchange ---------------------------
(***************************************************************************)
(* RetryExchange on a small exchange.  Transactions and clients are only   *)
(* compared for equality.                                                  *)
(***************************************************************************)
EXTENDS RetryExchange, TLC

Symmetry == Permutations(Transactions) \cup Permutations(Clients)
=============================================================================
