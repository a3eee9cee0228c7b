--------------------------- MODULE LiveHostProofs ---------------------------
(***************************************************************************)
(* Proofs about the live host for every rate, cap, counter width, set of   *)
(* elapsed times and bound.  The owner thread only ever moves the clock by *)
(* the clock's own steps, so what is proved of a stepper first holds of    *)
(* the host's.  The rest is an invariant about who is ahead of whom: the   *)
(* frame drawn and the frame presented behind the publication, the         *)
(* publication behind the world and level with it wherever a job is        *)
(* claimed or finished, and what the client was told behind all of them.   *)
(***************************************************************************)
EXTENDS LiveHost, TLAPS

-----------------------------------------------------------------------------
(* The clock.  The argument is the division theorem: due ticks and the     *)
(* next remainder split the phase exactly, so each call turns what it is   *)
(* given into ticks and remainder of the same worth.  Between calls the    *)
(* books balance; during one, up to what the batch still has to count.     *)

Batches == [executed : 0 .. CatchUpCap, dropped : Nat,
            remainder : 0 .. PhaseUnits - 1, overload : {0, 1}]

\* What a call in progress has still to add fits in the counters.
Room ==
  calling => /\ stats.simulation_tick + left <= MaxCounter
             /\ stats.dropped_ticks + batch.dropped <= MaxCounter
             /\ stats.overload_count + batch.overload <= MaxCounter

\* TimeConserved, and what it becomes while a call counts its batch.
Books ==
  ~torn =>
    /\ ~calling =>
         Rate * total = PhaseUnits * (stats.simulation_tick + stats.dropped_ticks)
                        + stats.remainder_units
    /\ calling =>
         Rate * total = PhaseUnits * (stats.simulation_tick + left
                                      + (stats.dropped_ticks + batch.dropped))
                        + batch.remainder

IInv == TypeOK /\ Room /\ Books /\ NeverAhead

(***************************************************************************)
(* Quotient and remainder of a natural number by a positive one.           *)
(***************************************************************************)
LEMMA Division ==
  ASSUME NEW n \in Nat, NEW d \in Nat \ {0}
  PROVE  /\ n \div d \in Nat
         /\ n % d \in 0 .. d - 1
         /\ n = d * (n \div d) + (n % d)
  OBVIOUS

(***************************************************************************)
(* Batch, whatever it executes or drops, is worth the remainder and the    *)
(* elapsed time it was computed from.                                      *)
(***************************************************************************)
LEMMA BatchWorth ==
  ASSUME NEW r \in 0 .. PhaseUnits - 1, NEW e \in Nat
  PROVE  /\ Batch(r, e) \in Batches
         /\ PhaseUnits * (Batch(r, e).executed + Batch(r, e).dropped)
              + Batch(r, e).remainder = r + Rate * e
<1> DEFINE a == e \div PhaseUnits
           m == e % PhaseUnits
           p == Phase(r, e)
           q == p \div PhaseUnits
           due == Due(r, e)
<1>0. /\ PhaseUnits \in Nat \ {0} /\ Rate \in Nat \ {0} /\ CatchUpCap \in Nat \ {0}
      /\ r \in Nat
  BY FixedStepperAssumption
<1>1. a \in Nat /\ m \in 0 .. PhaseUnits - 1 /\ e = PhaseUnits * a + m
  BY <1>0, Division
<1>2. m \in Nat /\ m * Rate \in Nat /\ a * Rate \in Nat
  BY <1>0, <1>1
<1>3. p = r + m * Rate /\ p \in Nat
  BY <1>0, <1>2 DEF Phase
<1>4. /\ q \in Nat /\ p % PhaseUnits \in 0 .. PhaseUnits - 1
      /\ p = PhaseUnits * q + (p % PhaseUnits)
  <2> HIDE DEF p
  <2> QED BY <1>0, <1>3, Division
<1>5. due = a * Rate + q /\ due \in Nat
  BY <1>2, <1>4 DEF Due
<1>6. PhaseUnits * due + (p % PhaseUnits) = r + Rate * e
  <2> HIDE DEF a, m, p, q, due
  <2>1. PhaseUnits * due = PhaseUnits * (a * Rate) + PhaseUnits * q
    BY <1>0, <1>2, <1>4, <1>5
  <2>2. Rate * e = Rate * (PhaseUnits * a) + Rate * m
    BY <1>0, <1>1
  <2>3. PhaseUnits * (a * Rate) = Rate * (PhaseUnits * a) /\ m * Rate = Rate * m
    BY <1>0, <1>1, <1>2
  <2> DEFINE X == PhaseUnits * (a * Rate)
             Y == Rate * m
             Z == PhaseUnits * q
  <2>4. X \in Nat /\ Y \in Nat /\ Z \in Nat
    BY <1>0, <1>1, <1>2, <1>4
  <2> QED BY <2>1, <2>2, <2>3, <2>4, <1>3, <1>4, <1>5, <1>0
<1>7. /\ Batch(r, e).executed = IF due > CatchUpCap THEN CatchUpCap ELSE due
      /\ Batch(r, e).dropped = IF due > CatchUpCap THEN due - CatchUpCap ELSE 0
      /\ Batch(r, e).remainder = p % PhaseUnits
      /\ Batch(r, e).overload \in {0, 1}
  BY DEF Batch
<1>8. Batch(r, e).executed + Batch(r, e).dropped = due
  BY <1>0, <1>5, <1>7
<1>9. Batch(r, e) \in Batches
  <2> HIDE DEF p, due
  <2> QED BY <1>0, <1>4, <1>5 DEF Batch, Batches, p, due
<1> QED BY <1>6, <1>7, <1>8, <1>9

\* A new stepper has run no tick and been given no time.
LEMMA InitIInv == Init => IInv
<1> SUFFICES ASSUME Init PROVE IInv
  OBVIOUS
<1>0. 0 \in 0 .. PhaseUnits - 1 /\ 0 \in Nat
  BY FixedStepperAssumption
<1>1. Batch(0, 0) \in Batches
  BY <1>0, BatchWorth
<1>2. TypeOK
  <2>1. batch \in Batches /\ batch.executed \in Nat
    BY <1>1, FixedStepperAssumption DEF Init, Batches
  <2>2. stats \in Stats
    BY <1>0, FixedStepperAssumption DEF Init, NoStats, Stats
  <2>3. left \in 0 .. batch.executed
    BY <2>1 DEF Init
  <2> QED BY <2>1, <2>2, <2>3 DEF Init, TypeOK, Batches
<1>3. Room
  BY DEF Init, Room
<1>4. Books
  BY FixedStepperAssumption DEF Init, Books, NoStats
<1>5. NeverAhead
  BY FixedStepperAssumption DEF Init, NeverAhead, NoStats
<1> QED BY <1>2, <1>3, <1>4, <1>5 DEF IInv

(***************************************************************************)
(* A call in progress is entered with balanced books.                      *)
(***************************************************************************)
LEMMA BeginKeeps ==
  ASSUME IInv, NEW e \in Elapsed, Begin(e)
  PROVE  IInv'
<1> DEFINE b == Batch(stats.remainder_units, e)
           tick == stats.simulation_tick
           drop == stats.dropped_ticks
           rem == stats.remainder_units
<1>0. /\ PhaseUnits \in Nat \ {0} /\ Rate \in Nat \ {0} /\ CatchUpCap \in Nat \ {0}
      /\ MaxCounter \in Nat /\ e \in Nat /\ total \in Nat
  BY FixedStepperAssumption, SteppedClockAssumption DEF IInv, TypeOK
<1>1. /\ tick \in Nat /\ drop \in Nat /\ rem \in 0 .. PhaseUnits - 1
      /\ stats.overload_count \in Nat
  BY DEF IInv, TypeOK, Stats
<1>2. /\ b \in Batches
      /\ PhaseUnits * (b.executed + b.dropped) + b.remainder = rem + Rate * e
  BY <1>0, <1>1, BatchWorth
<1>3. /\ ~calling /\ ~torn /\ ~Exhausted(stats, b)
      /\ batch' = b /\ left' = b.executed /\ calling' = TRUE
      /\ total' = total + e /\ stats' = stats /\ torn' = torn
  BY DEF Begin
<1> HIDE DEF b
<1>4. /\ b.executed \in Nat /\ b.dropped \in Nat /\ b.overload \in {0, 1}
      /\ b.remainder \in Nat
  BY <1>0, <1>2 DEF Batches
<1>5. TypeOK'
  BY <1>0, <1>2, <1>3, <1>4 DEF IInv, TypeOK, Batches
<1>6. Room'
  BY <1>0, <1>1, <1>3, <1>4 DEF Exhausted, Room
<1>7. Rate * total = PhaseUnits * (tick + drop) + rem
  BY <1>3 DEF IInv, Books
<1>8. Rate * (total + e) = PhaseUnits * (tick + b.executed + (drop + b.dropped)) + b.remainder
  <2>1. Rate * (total + e) = Rate * total + Rate * e
    BY <1>0
  <2>2. PhaseUnits * (tick + b.executed + (drop + b.dropped))
          = PhaseUnits * (tick + drop) + PhaseUnits * (b.executed + b.dropped)
    BY <1>0, <1>1, <1>4
  <2> DEFINE X == PhaseUnits * (tick + drop)
             Y == PhaseUnits * (b.executed + b.dropped)
  <2>3. X \in Nat /\ Y \in Nat /\ Rate * total \in Nat /\ Rate * e \in Nat /\ rem \in Nat
    BY <1>0, <1>1, <1>4
  <2> QED BY <2>1, <2>2, <2>3, <1>2, <1>4, <1>7
<1>9. Books'
  BY <1>3, <1>8 DEF Books
<1>10. NeverAhead'
  <2>1. PhaseUnits * (tick + b.executed + (drop + b.dropped))
          = PhaseUnits * (tick + b.executed) + PhaseUnits * (drop + b.dropped)
    BY <1>0, <1>1, <1>4
  <2>2. PhaseUnits * (tick + b.executed) \in Nat /\ PhaseUnits * (drop + b.dropped) \in Nat
    BY <1>0, <1>1, <1>4
  <2>3. PhaseUnits * (tick + b.executed) <= Rate * (total + e)
    BY <2>1, <2>2, <1>4, <1>8
  <2> QED BY <2>3, <1>3 DEF NeverAhead
<1> QED BY <1>5, <1>6, <1>9, <1>10 DEF IInv

(***************************************************************************)
(* Every step keeps the books, for whatever constants.                     *)
(***************************************************************************)
LEMMA NextKeeps == IInv /\ [Next]_vars => IInv'
<1> SUFFICES ASSUME IInv, [Next]_vars PROVE IInv'
  OBVIOUS
<1>0. /\ PhaseUnits \in Nat \ {0} /\ Rate \in Nat \ {0} /\ CatchUpCap \in Nat \ {0}
      /\ MaxCounter \in Nat
  BY FixedStepperAssumption
<1>a. /\ stats \in Stats /\ batch \in Batches /\ left \in 0 .. batch.executed
      /\ batch.executed \in Nat /\ left \in Nat /\ total \in Nat
      /\ stats.simulation_tick \in Nat /\ stats.dropped_ticks \in Nat
      /\ stats.overload_count \in Nat
      /\ batch.dropped \in Nat /\ batch.overload \in {0, 1}
      /\ stats.remainder_units \in Nat /\ batch.remainder \in Nat
  BY <1>0 DEF IInv, TypeOK, Stats, Batches
<1>1. ASSUME NEW e \in Elapsed, Begin(e) PROVE IInv'
  BY <1>1, BeginKeeps
<1>2. CASE vars' = vars
  BY <1>2 DEF vars, IInv, TypeOK, Room, Books, NeverAhead
<1>3. CASE Tick
  <2>1. /\ calling /\ left > 0 /\ stats' = Ticked(stats) /\ left' = left - 1
        /\ batch' = batch /\ calling' = calling /\ torn' = torn /\ total' = total
    BY <1>3 DEF Tick
  <2>2. /\ stats'.simulation_tick = stats.simulation_tick + 1
        /\ stats'.dropped_ticks = stats.dropped_ticks
        /\ stats'.overload_count = stats.overload_count
        /\ stats'.remainder_units = stats.remainder_units
    BY <1>a, <2>1 DEF Ticked, Stats
  <2>3. stats.simulation_tick + 1 \in 0 .. MaxCounter
    BY <1>0, <1>a, <2>1 DEF IInv, Room
  <2>4. TypeOK'
    BY <1>a, <2>1, <2>3 DEF IInv, TypeOK, Ticked, Stats, Batches
  <2>5. stats'.simulation_tick + left' = stats.simulation_tick + left
    BY <1>a, <2>1, <2>2
  <2>6. Room'
    BY <2>1, <2>2, <2>5 DEF IInv, Room
  <2>7. Books'
    BY <2>1, <2>2, <2>5 DEF IInv, Books
  <2>8. NeverAhead'
    BY <2>1, <2>5 DEF IInv, NeverAhead
  <2> QED BY <2>4, <2>6, <2>7, <2>8 DEF IInv
<1>4. CASE Throw
  <2>1. /\ left > 0 /\ ~calling' /\ calling' = FALSE /\ left' = 0 /\ torn' /\ torn' = TRUE
        /\ stats' = stats /\ batch' = batch /\ total' = total
    BY <1>4 DEF Throw
  <2>2. TypeOK' /\ Room' /\ Books'
    <3>1. left' \in 0 .. batch'.executed
      BY <1>a, <2>1
    <3>2. torn' \in BOOLEAN /\ calling' \in BOOLEAN
      BY <1>4 DEF Throw
    <3>3. stats' \in Stats /\ total' \in Nat /\ batch' \in Batches
      BY <1>a, <2>1
    <3>4. TypeOK'
      BY <3>1, <3>2, <3>3 DEF TypeOK, Batches
    <3> QED BY <2>1, <3>4 DEF Room, Books
  <2>3. PhaseUnits * (stats.simulation_tick + left)
          = PhaseUnits * stats.simulation_tick + PhaseUnits * left
    BY <1>0, <1>a
  <2>4. PhaseUnits * left \in Nat /\ PhaseUnits * stats.simulation_tick \in Nat
        /\ Rate * total \in Nat /\ stats.simulation_tick + 0 = stats.simulation_tick
    BY <1>0, <1>a
  <2>5. PhaseUnits * (stats.simulation_tick + 0) <= Rate * total
    BY <2>3, <2>4 DEF IInv, NeverAhead
  <2>6. NeverAhead'
    BY <2>1, <2>5 DEF NeverAhead
  <2> QED BY <2>2, <2>6 DEF IInv
<1>5. CASE End
  <2>1. /\ calling /\ left = 0 /\ stats' = Settled(stats, batch) /\ ~calling'
        /\ calling' = FALSE /\ batch' = batch /\ left' = left /\ torn' = torn /\ total' = total
    BY <1>5 DEF End
  <2>2. /\ stats'.simulation_tick = stats.simulation_tick
        /\ stats'.dropped_ticks = stats.dropped_ticks + batch.dropped
        /\ stats'.overload_count = stats.overload_count + batch.overload
        /\ stats'.remainder_units = batch.remainder
    BY <1>a, <2>1 DEF Settled, Stats
  <2>3. /\ stats.dropped_ticks + batch.dropped \in 0 .. MaxCounter
        /\ stats.overload_count + batch.overload \in 0 .. MaxCounter
    BY <1>0, <1>a, <2>1 DEF IInv, Room
  <2>4. TypeOK'
    BY <1>a, <2>1, <2>3 DEF IInv, TypeOK, Settled, Stats, Batches
  <2>5. Room'
    BY <2>1 DEF Room
  <2>6. Books'
    <3>1. stats.simulation_tick + left + (stats.dropped_ticks + batch.dropped)
            = stats'.simulation_tick + stats'.dropped_ticks
      BY <1>a, <2>1, <2>2
    <3> QED BY <2>1, <2>2, <3>1 DEF IInv, Books
  <2>7. NeverAhead'
    BY <2>1, <2>2 DEF IInv, NeverAhead
  <2> QED BY <2>4, <2>5, <2>6, <2>7 DEF IInv
<1>6. ASSUME NEW e \in Elapsed, Refuse(e) PROVE IInv'
  BY <1>2, <1>6 DEF Refuse
<1> QED BY <1>1, <1>2, <1>3, <1>4, <1>5, <1>6 DEF Next

(***************************************************************************)
(* The invariant the theorems below are read from.                         *)
(***************************************************************************)
THEOREM Invariance == Spec => []IInv
<1> QED BY InitIInv, NextKeeps, PTL DEF Spec

(***************************************************************************)
(* No counter of the clock passes its maximum and no remainder reaches a   *)
(* whole tick, for every width and every sequence of calls.                *)
(***************************************************************************)
THEOREM CountersInRange == Spec => []TypeOK
<1>1. IInv => TypeOK
  BY DEF IInv
<1> QED BY <1>1, Invariance, PTL

(***************************************************************************)
(* The ticks executed and dropped and the remainder are exactly the time   *)
(* passed in.                                                              *)
(***************************************************************************)
THEOREM NoTimeLost == Spec => []TimeConserved
<1>1. IInv => TimeConserved
  BY DEF IInv, Books, TimeConserved
<1> QED BY <1>1, Invariance, PTL

(***************************************************************************)
(* The clock never runs ahead of the time passed in, also in mid-batch and *)
(* after a callback threw.                                                 *)
(***************************************************************************)
THEOREM ClockBehindTime == Spec => []NeverAhead
<1>1. IInv => NeverAhead
  BY DEF IInv
<1> QED BY <1>1, Invariance, PTL

-----------------------------------------------------------------------------
(* The host.                                                               *)

Jobs == [state : {"none", "pending", "running", "completed", "canceled"},
         kind : Kinds, failure : {"none", "rejected", "error"},
         revision : Nat, frames : Nat]

HostTypes ==
  /\ world \in Nat
  /\ published \in [tick : Nat, revision : Nat]
  /\ job \in Jobs
  /\ claimed \in BOOLEAN
  /\ frame \in [revision : Nat, sequence : Nat]
  /\ presentation \in [frames : Nat, revision : Nat, sequence : Nat]
  /\ told \in [revision : Nat, frames : Nat]

\* Every tick counted is published; a commit is ahead of it until the next is.
Level ==
  /\ published.tick = stats.simulation_tick
  /\ published.revision <= world
  /\ at \notin {"publish", "failing", "drain", "stopped"} => published.revision = world

\* A frame is a publication, seen earlier.
Behind ==
  /\ frame.revision <= published.revision
  /\ frame.sequence <= published.tick + 1
  /\ NeverMixed

\* The owner holds a job exactly while its caller waits for it.
Holding ==
  /\ at \in {"task", "idle_task"} => claimed
  /\ at = "idle_task" => job.kind # "author"
  /\ claimed => job.state = "running"
  /\ job.state # "none" => gateway = "waiting"

\* The claimed closure has returned, or its answer may be sent.
Answered ==
  \/ claimed /\ at \notin {"task", "idle_task"}
  \/ job.state = "completed" /\ job.failure = "none"

\* Answers lie between what was told before and what may be told next.
Telling ==
  /\ told.revision <= published.revision /\ told.frames <= presentation.frames
  /\ job.revision <= world /\ job.frames <= presentation.frames
  /\ job.state = "completed" /\ job.failure = "none" =>
       job.revision <= published.revision
  /\ Answered =>
       /\ job.kind # "author" => job.revision >= told.revision
       /\ job.kind = "runtime" => job.frames >= told.frames

HInv == IInv /\ HostTypes /\ Level /\ Behind /\ Holding /\ Telling

(***************************************************************************)
(* A step of any thread is a step of the clock or leaves it alone: advance *)
(* is called by the owner only, one call at a time.                        *)
(***************************************************************************)
LEMMA StepsTheClock == [HostNext]_hostVars => [Next]_vars
<1> SUFFICES ASSUME [HostNext]_hostVars PROVE [Next]_vars
  OBVIOUS
<1>1. CASE UNCHANGED hostVars
  BY <1>1 DEF hostVars
<1>2. CASE OwnerStep
  <2>1. ASSUME NEW e \in Elapsed, Poll(e) PROVE [Next]_vars
    BY <2>1 DEF Poll, Next
  <2>2. CASE RunTick
    BY <2>2 DEF RunTick
  <2>3. CASE Task("task", "publish") \/ Task("idle_task", "finish_idle")
    BY <2>3 DEF Task
  <2>4. CASE Publish
    BY <2>4 DEF Publish, Next
  <2>5. CASE FinishTicks
    BY <2>5 DEF FinishTicks, Next
  <2>6. CASE Idle \/ FinishIdle \/ Fail \/ Drain
    BY <2>6 DEF Idle, FinishIdle, Fail, Drain
  <2> QED BY <1>2, <2>1, <2>2, <2>3, <2>4, <2>5, <2>6 DEF OwnerStep
<1>3. ASSUME NEW kind \in Kinds, Dispatch(kind) PROVE UNCHANGED vars
  BY <1>3 DEF Dispatch, Serves
<1>4. CASE RequestDeadline \/ TimeOut \/ Return \/ GatewayEnds
  BY <1>4 DEF RequestDeadline, TimeOut, Return, GatewayEnds, Serves
<1>5. CASE MainStep
  BY <1>5 DEF MainStep, Start, Look, Drawn, MainStops, Report, Leads
<1>6. CASE ProcessDeadline \/ Exited
  BY <1>6 DEF ProcessDeadline, Exited, hostVars
<1> QED BY <1>1, <1>2, <1>3, <1>4, <1>5, <1>6 DEF HostNext

LEMMA HostInitHolds == HostInit => HInv
<1> SUFFICES ASSUME HostInit PROVE HInv
  OBVIOUS
<1>1. IInv
  BY InitIInv DEF HostInit
<1>2. HostTypes
  BY DEF HostInit, HostTypes, NoJob, NoFrame, NoPresentation, Jobs, Kinds
<1>3. Level /\ Behind
  BY DEF HostInit, Init, NoStats, NoFrame, NoPresentation, Level, Behind, NeverMixed
<1>4. Holding /\ Telling
  BY DEF HostInit, NoJob, NoPresentation, Holding, Telling, Answered
<1> QED BY <1>1, <1>2, <1>3, <1>4 DEF HInv

(***************************************************************************)
(* The thread that draws and the one that ends the process keep to what    *)
(* has been published.                                                     *)
(***************************************************************************)
LEMMA MainKeeps ==
  ASSUME HInv, IInv', MainStep \/ ProcessDeadline \/ Exited
  PROVE HInv'
<1> USE DEF HInv, HostTypes, Level, Behind, NeverMixed, Holding, Telling, Answered
<1>1. CASE Start
  BY <1>1 DEF Start, Leads, vars, owner, serving
<1>2. CASE Look
  BY <1>2 DEF Look, Leads, vars, owner, serving
<1>3. CASE Drawn
  <2>1. CASE UNCHANGED presentation
    BY <1>3, <2>1 DEF Drawn, Leads, vars, owner, serving, NoFrame
  <2>2. CASE presentation' = [frames |-> presentation.frames + 1,
                              revision |-> frame.revision, sequence |-> frame.sequence]
    <3>1. /\ presentation' \in [frames : Nat, revision : Nat, sequence : Nat]
          /\ presentation'.frames = presentation.frames + 1
          /\ presentation'.revision = frame.revision
          /\ presentation'.sequence = frame.sequence
      BY <2>2
    <3>2. /\ frame' = NoFrame
          /\ UNCHANGED <<vars, owner, job, over, gateway, late, gateway_result, told>>
      BY <1>3 DEF Drawn, Leads, serving
    <3>3. UNCHANGED <<at, world, published, claimed, stats>>
      BY <3>2 DEF vars, owner
    <3>4. HostTypes' /\ Level' /\ Behind'
      BY <3>1, <3>2, <3>3 DEF NoFrame
    <3>5. Holding' /\ Telling'
      <4>1. Answered' <=> Answered
        BY <3>2, <3>3
      <4>2. /\ presentation.frames \in Nat /\ told.frames \in Nat /\ job.frames \in Nat
            /\ presentation'.frames = presentation.frames + 1
        BY <3>1 DEF Jobs
      <4> HIDE DEF Answered
      <4> QED BY <3>2, <3>3, <4>1, <4>2
    <3> QED BY <3>4, <3>5
  <2> QED BY <1>3, <2>1, <2>2 DEF Drawn
<1>4. CASE MainStops
  BY <1>4 DEF MainStops, Leads, vars, owner, serving, NoFrame
<1>5. CASE Report
  BY <1>5 DEF Report, Leads, vars, owner, serving
<1>6. CASE ProcessDeadline
  BY <1>6 DEF ProcessDeadline, vars, owner, serving, drawing
<1>7. CASE Exited
  BY <1>7 DEF Exited, hostVars, vars, owner, serving, drawing
<1> QED BY <1>1, <1>2, <1>3, <1>4, <1>5, <1>6, <1>7 DEF MainStep

(***************************************************************************)
(* The gateway asks for one thing at a time and tells the client only what *)
(* the answer says.                                                        *)
(***************************************************************************)
LEMMA GatewayKeeps ==
  ASSUME HInv, IInv',
         \/ \E kind \in Kinds : Dispatch(kind)
         \/ RequestDeadline \/ TimeOut \/ Return \/ GatewayEnds
  PROVE HInv'
<1> USE DEF HInv, HostTypes, Level, Behind, NeverMixed, Holding, Telling, Answered
<1>1. ASSUME NEW kind \in Kinds, Dispatch(kind) PROVE HInv'
  <2>1. job' = [state |-> "pending", kind |-> kind, failure |-> "none",
                revision |-> 0, frames |-> 0]
    BY <1>1 DEF Dispatch, NoJob
  <2>2. job' \in Jobs /\ job'.state = "pending" /\ job'.revision = 0 /\ job'.frames = 0
    BY <2>1 DEF Jobs
  <2>3. gateway = "serving" /\ gateway' = "waiting"
    BY <1>1 DEF Dispatch
  <2>4. UNCHANGED <<at, world, published, claimed, stats, frame, presentation, told>>
    BY <1>1 DEF Dispatch, Serves, vars, owner, drawing
  <2>5. HostTypes' /\ Level' /\ Behind'
    BY <2>2, <2>4
  <2>6. Holding' /\ Telling'
    BY <2>2, <2>3, <2>4
  <2> QED BY <2>5, <2>6
<1>2. CASE RequestDeadline
  BY <1>2 DEF RequestDeadline, Serves, vars, owner, drawing
<1>3. CASE TimeOut
  BY <1>3 DEF TimeOut, Serves, vars, owner, drawing, NoJob, Jobs, Kinds
<1>4. CASE Return
  BY <1>4 DEF Return, Serves, vars, owner, drawing, NoJob, Jobs, Kinds
<1>5. CASE GatewayEnds
  BY <1>5 DEF GatewayEnds, Serves, vars, owner, drawing
<1> QED BY <1>1, <1>2, <1>3, <1>4, <1>5

(***************************************************************************)
(* A claim, a cancellation or neither: the world and what is shown of it   *)
(* stay, and an authoring job is claimed on a tick only.                   *)
(***************************************************************************)
LEMMA ClaimKeeps ==
  ASSUME HInv, IInv', NEW mayAuthor \in BOOLEAN, NEW task, NEW otherwise,
         ~claimed,
         <<task, otherwise>> \in {<<"task", "publish">>, <<"idle_task", "poll">>},
         task = "idle_task" => ~mayAuthor,
         at \in {"tick", "idle"},
         ExecuteJob(mayAuthor, task, otherwise),
         UNCHANGED <<vars, world, published, failed, stop, over, serving, drawing>>
  PROVE HInv'
<1> USE DEF HInv, HostTypes, Level, Behind, NeverMixed, Holding, Telling, Answered
<1>1. UNCHANGED <<stats, world, published, gateway, told, frame, presentation>>
  BY DEF vars, serving, drawing
<1>2. CASE job' = job /\ claimed' = claimed /\ at' = otherwise
  <2>1. at' \in {"publish", "poll"}
    BY <1>2
  <2> QED BY <1>1, <1>2, <2>1
<1>3. CASE job' = [job EXCEPT !.state = "canceled"] /\ claimed' = claimed /\ at' = otherwise
           /\ job.state = "pending"
  <2>1. at' \in {"publish", "poll"}
    BY <1>3
  <2>2. /\ job' \in Jobs /\ job'.state = "canceled"
        /\ job'.revision = job.revision /\ job'.frames = job.frames
    BY <1>3 DEF Jobs
  <2> QED BY <1>1, <1>3, <2>1, <2>2
<1>4. CASE job' = [job EXCEPT !.state = "running"] /\ claimed' = TRUE /\ at' = task
           /\ job.state = "pending" /\ (job.kind = "author" => mayAuthor)
  <2>1. at' \in {"task", "idle_task"}
    BY <1>4
  <2>2. /\ job' \in Jobs /\ job'.state = "running" /\ job'.kind = job.kind
        /\ job'.revision = job.revision /\ job'.frames = job.frames
    BY <1>4 DEF Jobs
  <2>3. at' = "idle_task" => job.kind # "author"
    BY <1>4
  <2> QED BY <1>1, <1>4, <2>1, <2>2, <2>3
<1> QED BY <1>2, <1>3, <1>4 DEF ExecuteJob

(***************************************************************************)
(* The closure answers from the world or from the publication, neither of  *)
(* them behind what the client has been told.                              *)
(***************************************************************************)
LEMMA TaskKeeps ==
  ASSUME HInv, IInv', NEW task, NEW then,
         <<task, then>> \in {<<"task", "publish">>, <<"idle_task", "finish_idle">>},
         Task(task, then)
  PROVE HInv'
<1> USE DEF HInv, HostTypes, Level, Behind, NeverMixed, Holding, Telling
<1>1. UNCHANGED <<stats, published, claimed, gateway, told, frame, presentation>>
  BY DEF Task, vars, serving, drawing
<1>2. PICK failure \in {"none", "rejected", "error"}, commits \in BOOLEAN :
        /\ commits => job.kind = "author"
        /\ world' = IF commits THEN world + 1 ELSE world
        /\ job' = [job EXCEPT
             !.failure = failure,
             !.revision = CASE job.kind = "author" -> IF commits THEN world' ELSE 0
                            [] job.kind = "observe" -> world
                            [] job.kind = "runtime" -> Runtime.revision,
             !.frames = IF job.kind = "runtime" THEN Runtime.frames ELSE 0]
  BY DEF Task
<1>3. Runtime.revision = published.revision /\ Runtime.frames = presentation.frames
  BY DEF Runtime
<1>4. /\ job'.state = job.state /\ job'.kind = job.kind /\ job'.failure = failure
      /\ job.kind = "author" => job'.revision = IF commits THEN world' ELSE 0
      /\ job.kind = "observe" => job'.revision = world
      /\ job.kind = "runtime" => job'.revision = published.revision
      /\ job'.frames = IF job.kind = "runtime" THEN presentation.frames ELSE 0
  BY <1>2, <1>3 DEF Jobs, Kinds
<1>5. world' \in Nat /\ world <= world' /\ (job.kind # "author" => world' = world)
  BY <1>2
<1>6. job' \in Jobs
  BY <1>2, <1>3, <1>5 DEF Jobs, Kinds
<1>7. at = task /\ at' = then /\ claimed /\ job.state = "running"
  BY DEF Task
<1>8. HostTypes' /\ Level' /\ Behind' /\ Holding'
  BY <1>1, <1>4, <1>5, <1>6, <1>7
<1>9. Telling'
  BY <1>1, <1>4, <1>5, <1>7 DEF Answered, Jobs, Kinds
<1> QED BY <1>8, <1>9

(***************************************************************************)
(* Finishing a batch or an idle turn completes the job it held, where the  *)
(* publication is level with the world.                                    *)
(***************************************************************************)
LEMMA FinishKeeps ==
  ASSUME HInv, IInv', FinishTicks \/ FinishIdle
  PROVE HInv'
<1> USE DEF HInv, HostTypes, Level, Behind, NeverMixed, Holding, Telling, Answered
<1>1. UNCHANGED <<world, published, gateway, told, frame, presentation>>
  BY DEF FinishTicks, FinishIdle, vars, serving, drawing
<1>2. stats'.simulation_tick = stats.simulation_tick
  <2>1. stats \in Stats
    BY DEF IInv, TypeOK
  <2> QED BY <2>1 DEF FinishTicks, FinishIdle, End, Settled, Stats, vars
<1>3. /\ at \in {"finish", "finish_idle"} /\ at' \in {"idle", "poll"}
      /\ claimed' = FALSE
      /\ job' = IF claimed THEN [job EXCEPT !.state = "completed"] ELSE job
  BY DEF FinishTicks, FinishIdle, Finish
<1>4. /\ job' \in Jobs
      /\ job'.kind = job.kind /\ job'.failure = job.failure
      /\ job'.revision = job.revision /\ job'.frames = job.frames
      /\ job'.state = IF claimed THEN "completed" ELSE job.state
  BY <1>3 DEF Jobs
<1>5. HostTypes' /\ Level' /\ Behind'
  <2>1. HostTypes'
    BY <1>1, <1>3, <1>4
  <2>2. Level'
    BY <1>1, <1>2, <1>3
  <2>3. Behind'
    BY <1>1
  <2> QED BY <2>1, <2>2, <2>3
<1>6. CASE claimed
  <2>1. Answered /\ job'.revision <= published'.revision
    BY <1>1, <1>3, <1>4, <1>6
  <2> QED BY <1>1, <1>3, <1>4, <1>5, <1>6, <2>1
<1>7. CASE ~claimed
  BY <1>1, <1>3, <1>4, <1>5, <1>7
<1> QED BY <1>6, <1>7

(***************************************************************************)
(* The other steps of the owner thread.                                    *)
(***************************************************************************)
LEMMA OwnerKeeps ==
  ASSUME HInv, IInv', OwnerStep
  PROVE HInv'
<1> USE DEF HInv, HostTypes, Level, Behind, NeverMixed, Holding, Telling, Answered
<1>0. stats \in Stats
  BY DEF IInv, TypeOK
<1>1. ASSUME NEW e \in Elapsed, Poll(e) PROVE HInv'
  <2>1. /\ UNCHANGED <<stats, world, published, claimed, job, gateway, told, frame, presentation>>
        /\ at = "poll" /\ at' \in {"drain", "finish", "tick", "failing"}
    BY <1>1 DEF Poll, Begin, Refuse, vars, serving, drawing
  <2>2. HostTypes' /\ Level' /\ Behind' /\ Holding'
    BY <2>1
  <2>3. Answered' <=> Answered
    BY <2>1
  <2> HIDE DEF Answered
  <2>4. Telling'
    BY <2>1, <2>3
  <2> QED BY <2>2, <2>4
<1>2. CASE RunTick
  <2>1. CASE claimed
    BY <1>2, <2>1 DEF RunTick, ExecuteJob, vars, serving, drawing
  <2>2. CASE ~claimed
    BY <1>2, <2>2, ClaimKeeps DEF RunTick
  <2> QED BY <2>1, <2>2
<1>3. CASE Task("task", "publish") \/ Task("idle_task", "finish_idle")
  BY <1>3, TaskKeeps
<1>4. CASE Publish
  <2>1. UNCHANGED <<world, claimed, job, gateway, told, frame, presentation>>
    BY <1>4 DEF Publish, serving, drawing
  <2>2. CASE Tick
    <3>1. stats'.simulation_tick = stats.simulation_tick + 1 /\ stats.simulation_tick \in Nat
      BY <1>0, <2>2 DEF Tick, Ticked, Stats
    <3>2. published'.tick = stats.simulation_tick + 1 /\ published'.revision = world
          /\ published' \in [tick : Nat, revision : Nat] /\ at' \in {"tick", "finish"}
      BY <1>4, <2>2, <3>1 DEF Publish, Publication, Throw, Tick
    <3> QED BY <1>4, <2>1, <3>1, <3>2 DEF Publish
  <2>3. CASE Throw
    <3>1. UNCHANGED <<stats, published>> /\ at = "publish" /\ at' = "failing"
      BY <1>4, <2>3 DEF Publish, Throw, Tick
    <3> QED BY <2>1, <3>1
  <2> QED BY <1>4, <2>2, <2>3 DEF Publish
<1>5. CASE FinishTicks \/ FinishIdle
  BY <1>5, FinishKeeps
<1>6. CASE Idle
  <2>1. CASE claimed
    BY <1>6, <2>1 DEF Idle, ExecuteJob, vars, serving, drawing
  <2>2. CASE ~claimed
    BY <1>6, <2>2, ClaimKeeps DEF Idle
  <2> QED BY <2>1, <2>2
<1>7. CASE Fail
  <2>1. UNCHANGED <<stats, world, published, gateway, told, frame, presentation>>
    BY <1>7 DEF Fail, vars, serving, drawing
  <2>2. /\ job' \in Jobs
        /\ job'.kind = job.kind
        /\ job'.revision = job.revision /\ job'.frames = job.frames
        /\ job'.state = IF claimed THEN "completed" ELSE job.state
        /\ job'.failure = IF claimed THEN "error" ELSE job.failure
    <3>1. CASE claimed
      <4> DEFINE done == [job EXCEPT !.state = "completed"]
      <4>1. job' = [done EXCEPT !.failure = "error"]
        BY <1>7, <3>1, Zenon DEF Fail
      <4>2. /\ done \in Jobs /\ done.state = "completed" /\ done.kind = job.kind
            /\ done.revision = job.revision /\ done.frames = job.frames
        BY DEF Jobs
      <4> HIDE DEF done
      <4> QED BY <3>1, <4>1, <4>2 DEF Jobs
    <3>2. CASE ~claimed
      BY <1>7, <3>2 DEF Fail
    <3> QED BY <3>1, <3>2
  <2>3. at = "failing" /\ at' = "drain" /\ claimed' = FALSE
    BY <1>7 DEF Fail
  <2> QED BY <2>1, <2>2, <2>3
<1>8. CASE Drain
  <2>1. UNCHANGED <<stats, world, published, claimed, gateway, told, frame, presentation>>
    BY <1>8 DEF Drain, vars, serving, drawing
  <2>2. /\ job' \in Jobs
        /\ job'.kind = job.kind /\ job'.failure = job.failure
        /\ job'.revision = job.revision /\ job'.frames = job.frames
        /\ job'.state = IF job.state = "pending" THEN "canceled" ELSE job.state
    BY <1>8 DEF Drain, Jobs
  <2> QED BY <1>8, <2>1, <2>2 DEF Drain
<1> QED BY <1>1, <1>2, <1>3, <1>4, <1>5, <1>6, <1>7, <1>8 DEF OwnerStep

LEMMA HostKeeps == HInv /\ [HostNext]_hostVars => HInv'
<1> SUFFICES ASSUME HInv, [HostNext]_hostVars PROVE HInv'
  OBVIOUS
<1>1. IInv'
  BY StepsTheClock, NextKeeps DEF HInv
<1>2. CASE UNCHANGED hostVars
  BY <1>1, <1>2, MainKeeps DEF Exited, hostVars, HInv, HostTypes, Level, Behind,
     NeverMixed, Holding, Telling, Answered, vars, owner, serving, drawing
<1>3. CASE HostNext
  BY <1>1, <1>3, OwnerKeeps, GatewayKeeps, MainKeeps DEF HostNext
<1> QED BY <1>2, <1>3

THEOREM HostInvariance == HostSpec => []HInv
<1> QED BY HostInitHolds, HostKeeps, PTL DEF HostSpec

(***************************************************************************)
(* The host's owner thread drives its stepper as SteppedClock describes:   *)
(* the live host implements the clock, whatever its other threads do.      *)
(***************************************************************************)
THEOREM HostDrivesClock == HostSpec => Spec
<1>1. HostInit => Init
  BY DEF HostInit
<1> QED BY <1>1, StepsTheClock, PTL DEF HostSpec, Spec

(***************************************************************************)
(* So no time is lost between the calls of the host's loop, whichever jobs *)
(* run on its ticks and wherever a publication fails.                      *)
(***************************************************************************)
THEOREM HostLosesNoTime == HostSpec => []TimeConserved
<1> QED BY HostDrivesClock, NoTimeLost, PTL

(***************************************************************************)
(* What is presented is never ahead of what is published: runtime's branch *)
(* that hides a newer presentation is never taken.                         *)
(***************************************************************************)
THEOREM PresentedWasPublished == HostSpec => []NeverMixed
<1>1. HInv => NeverMixed
  BY DEF HInv, Behind
<1> QED BY <1>1, HostInvariance, PTL

(***************************************************************************)
(* Whatever its route, a read never answers with less than the client has  *)
(* been told, by an acknowledgement or by another read.                    *)
(***************************************************************************)
THEOREM AnswersNeverFallBack == HostSpec => AnswersKeepUp
<1>1. HInv => (Return /\ job.state = "completed" /\ job.failure = "none" =>
                 /\ job.kind # "author" => job.revision >= told.revision
                 /\ job.kind = "runtime" => job.frames >= told.frames)
  BY DEF HInv, Telling, Answered
<1>2. HInv /\ [HostNext]_hostVars =>
        [Return /\ job.state = "completed" /\ job.failure = "none" =>
           /\ job.kind # "author" => job.revision >= told.revision
           /\ job.kind = "runtime" => job.frames >= told.frames]_hostVars
  BY <1>1
<1> QED BY <1>2, HostInvariance, PTL DEF HostSpec, AnswersKeepUp
=============================================================================
