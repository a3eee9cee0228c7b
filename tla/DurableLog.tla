----------------------------- MODULE DurableLog -----------------------------
(***************************************************************************)
(* What the persistent store promises its owner: a log of committed        *)
(* requests that only grows, one entry at a time, whatever crashes,        *)
(* failures and compactions occur, and receipts that report entries of the *)
(* log.  Source of the promise: src/examples/world-crash_recovery.md and   *)
(* the contract of Store in src/include/omniweft/persistence.hpp.          *)
(***************************************************************************)
EXTENDS Integers, Sequences

CONSTANTS
  Payloads,   \* canonical commands
  Ticks       \* boundary ticks

Entries == [payload : Payloads, tick : Ticks]

VARIABLES
  log,     \* the committed requests; position = sequence = durable revision
  acked    \* the replies with a receipt the owner was given

Reply(n) == [asked   |-> n,
             receipt |-> [sequence |-> n, payload |-> log[n].payload]]

Init == log = <<>> /\ acked = {}

Persist ==
  /\ \E e \in Entries : log' = Append(log, e)
  /\ UNCHANGED acked

Report ==
  /\ \E n \in 1 .. Len(log) : acked' = acked \cup {Reply(n)}
  /\ UNCHANGED log

Next == Persist \/ Report

Spec == Init /\ [][Next]_<<log, acked>>
=============================================================================
