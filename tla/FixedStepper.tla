---------------------------- MODULE FixedStepper ----------------------------
(***************************************************************************)
(* The arithmetic of the simulation clock: elapsed real time becomes whole *)
(* ticks, of which one call executes only so many and drops the rest.      *)
(* Source: src/src/simulation.cpp and src/include/omniweft/simulation.hpp. *)
(*                                                                         *)
(* The code's literals (60 ticks per second, 10^9 phase units per second,  *)
(* at most 4 ticks executed per call, 64-bit counters) are constants, so   *)
(* that theorems hold for the code's values and TLC can run with small     *)
(* ones.  The products inside one call cannot wrap with the code's         *)
(* literals (10^9 * 60 and 2^64 / 10^9 * 60 both fit in 64 bits), so only  *)
(* the three cumulative counters have a maximum here.                      *)
(***************************************************************************)
EXTENDS Integers

CONSTANTS
  Rate,         \* ticks per second: 60
  PhaseUnits,   \* phase_units: 10^9
  CatchUpCap,   \* catch_up_cap: 4
  MaxCounter    \* numeric_limits<uint64_t>::max()

ASSUME FixedStepperAssumption ==
  /\ Rate \in Nat \ {0}
  /\ PhaseUnits \in Nat \ {0}
  /\ CatchUpCap \in Nat \ {0}
  /\ MaxCounter \in Nat

Stats == [simulation_tick : 0 .. MaxCounter, overload_count : 0 .. MaxCounter,
          dropped_ticks : 0 .. MaxCounter, remainder_units : 0 .. PhaseUnits - 1]

NoStats == [simulation_tick |-> 0, overload_count |-> 0,
            dropped_ticks |-> 0, remainder_units |-> 0]

\* Mutated form of Phase: every call starts a fresh phase.
PhaseFresh(remainder, elapsed) == (elapsed % PhaseUnits) * Rate

Phase(remainder, elapsed) == remainder + (elapsed % PhaseUnits) * Rate

Due(remainder, elapsed) ==
  (elapsed \div PhaseUnits) * Rate + Phase(remainder, elapsed) \div PhaseUnits

\* What one call of advance does with a remainder and an elapsed time.
Batch(remainder, elapsed) ==
  LET due == Due(remainder, elapsed)
      over == due > CatchUpCap
  IN [executed   |-> IF over THEN CatchUpCap ELSE due,
      dropped    |-> IF over THEN due - CatchUpCap ELSE 0,
      remainder  |-> Phase(remainder, elapsed) % PhaseUnits,
      overload   |-> IF over THEN 1 ELSE 0]

\* advance refuses a batch that some cumulative counter has no room for.
Exhausted(stats, batch) ==
  \/ stats.simulation_tick > MaxCounter - batch.executed
  \/ stats.dropped_ticks > MaxCounter - batch.dropped
  \/ stats.overload_count > MaxCounter - batch.overload

\* One callback has returned.
Ticked(stats) == [stats EXCEPT !.simulation_tick = @ + 1]

\* Every callback of the batch has returned.
Settled(stats, batch) ==
  [stats EXCEPT !.overload_count = @ + batch.overload,
                !.dropped_ticks = @ + batch.dropped,
                !.remainder_units = batch.remainder]
=============================================================================
