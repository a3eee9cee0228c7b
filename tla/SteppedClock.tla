---------------------------- MODULE SteppedClock ----------------------------
(***************************************************************************)
(* A FixedStepper under any sequence of advance calls, tick by tick: the   *)
(* callback runs before its tick is counted and may throw, which leaves    *)
(* the earlier ticks of the batch counted and its drops and remainder not. *)
(* Both owners of a stepper end their loop when advance throws.            *)
(* Source: src/src/simulation.cpp, FixedStepper::advance.                  *)
(***************************************************************************)
EXTENDS FixedStepper

CONSTANT Elapsed      \* the elapsed times a call may be given, in nanoseconds

ASSUME SteppedClockAssumption == Elapsed \subseteq Nat

VARIABLES
  stats,    \* stats_
  batch,    \* the batch of the call in progress
  left,     \* callbacks that call has still to make
  calling,  \* a call is in progress
  torn,     \* a callback has thrown and the owner has left its loop
  total     \* history: the elapsed time of every accepted call

vars == <<stats, batch, left, calling, torn, total>>

Init ==
  /\ stats = NoStats
  /\ batch = Batch(0, 0)
  /\ left = 0
  /\ calling = FALSE
  /\ torn = FALSE
  /\ total = 0

\* advance(elapsed): the counters are checked before any callback runs.
Begin(elapsed) ==
  LET next == Batch(stats.remainder_units, elapsed)
  IN /\ ~calling /\ ~torn
     /\ ~Exhausted(stats, next)
     /\ batch' = next
     /\ left' = next.executed
     /\ calling' = TRUE
     /\ total' = total + elapsed
     /\ UNCHANGED <<stats, torn>>

\* The call throws overflow_error before it changes anything.
Refuse(elapsed) ==
  /\ ~calling /\ ~torn
  /\ Exhausted(stats, Batch(stats.remainder_units, elapsed))
  /\ UNCHANGED vars

Tick ==
  /\ calling /\ left > 0
  /\ stats' = Ticked(stats)
  /\ left' = left - 1
  /\ UNCHANGED <<batch, calling, torn, total>>

\* on_step throws through advance.
Throw ==
  /\ calling /\ left > 0
  /\ calling' = FALSE
  /\ left' = 0
  /\ torn' = TRUE
  /\ UNCHANGED <<stats, batch, total>>

End ==
  /\ calling /\ left = 0
  /\ stats' = Settled(stats, batch)
  /\ calling' = FALSE
  /\ UNCHANGED <<batch, left, torn, total>>

Next ==
  \/ \E elapsed \in Elapsed : Begin(elapsed) \/ Refuse(elapsed)
  \/ Tick \/ Throw \/ End

Spec == Init /\ [][Next]_vars

TypeOK ==
  /\ stats \in Stats
  /\ batch \in [executed : 0 .. CatchUpCap, dropped : Nat,
                remainder : 0 .. PhaseUnits - 1, overload : {0, 1}]
  /\ left \in 0 .. batch.executed
  /\ calling \in BOOLEAN /\ torn \in BOOLEAN
  /\ total \in Nat

(***************************************************************************)
(* No time is lost or invented by the integer arithmetic: between calls,   *)
(* the ticks executed and dropped and the remainder are exactly the time   *)
(* that was passed in, however it was cut into calls.  A callback that     *)
(* throws tears its batch, after which the owner makes no more calls.      *)
(***************************************************************************)
TimeConserved ==
  ~calling /\ ~torn =>
    Rate * total = PhaseUnits * (stats.simulation_tick + stats.dropped_ticks)
                   + stats.remainder_units

(***************************************************************************)
(* The clock never runs ahead of real time and no call makes it catch up   *)
(* with ticks it dropped: whatever was thrown and wherever a call stands,  *)
(* the ticks counted fit in the time that was passed in.                   *)
(***************************************************************************)
NeverAhead ==
  PhaseUnits * (stats.simulation_tick + left) <= Rate * total
=============================================================================
