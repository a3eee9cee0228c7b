------------------------------ MODULE Exchange ------------------------------
(***************************************************************************)
(* What the SDK's two exchanges with a host share: credentials of some     *)
(* epoch, a next sequence that each admitted transaction consumes, and     *)
(* the clients that hold the credentials.  RetryExchange is the protocol   *)
(* with retained receipts, ResyncExchange the one without.                 *)
(***************************************************************************)
EXTENDS Integers

CONSTANTS
  Clients,      \* the SDK's client objects of the session
  MaxSequence,  \* numeric_limits<uint64_t>::max(), UINT64_MAX
  MaxEpoch,     \* bound on credential renewals (renewals_)
  None

VARIABLES
  epoch, next, exhausted,  \* the host's session; token and epoch change together
  client                   \* the fields of each client and the call in progress

(* The last sequence is admitted once and ends the epoch. *)
Consume ==
  IF next = MaxSequence THEN exhausted' = TRUE /\ UNCHANGED next
                        ELSE next' = next + 1 /\ UNCHANGED exhausted
=============================================================================
