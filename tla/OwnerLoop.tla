------------------------------ MODULE OwnerLoop ------------------------------
(***************************************************************************)
(* The policy host's process: one owner thread that alone touches the      *)
(* World, gateway workers that dispatch closures to it and wait on their   *)
(* stacks, and the main thread that joins both.  Jobs are claimed under    *)
(* the mutex and run outside it; a commit is published before its request  *)
(* is answered; stop, deadlines and a failed publication come at any step. *)
(* Source: src/src/policy_main.cpp (Owner, execute), with the gateway      *)
(* (run_policy, PolicyHost::connection) of src/src/control.cpp and the     *)
(* admission of src/src/policy.cpp as far as they bound it.  With          *)
(* QueueLimit = 1 it is the Owner of src/src/agents_main.cpp, which keeps  *)
(* one pending job instead of a queue.                                     *)
(*                                                                         *)
(* Data abstractions.  The World is its revision.  A worker has at most    *)
(* one job, so jobs are named by workers.  Time passing is three kinds of  *)
(* step: elapsed time at a poll, a request's deadline, the process's.      *)
(***************************************************************************)
EXTENDS FixedStepper, Sequences, FiniteSets

CONSTANTS
  Workers,       \* the gateway's worker threads
  Principals,    \* principals a lease is admitted for
  GlobalLimit,   \* Ledger::global_limit_
  QueueLimit,    \* the jobs dispatch lets wait in pending_
  Elapsed,       \* elapsed times the owner may see between two polls
  MaxRevision,   \* bound on the commits explored
  None

ASSUME OwnerLoopAssumption ==
  /\ GlobalLimit \in Nat \ {0} /\ QueueLimit \in Nat \ {0}
  /\ Elapsed \subseteq Nat
  /\ MaxRevision \in Nat
  /\ None \notin Workers \cup Principals

VARIABLES
  at,         \* where the owner thread stands in run
  stats,      \* stepper_
  batch,      \* the batch of the advance in progress
  left,       \* callbacks of that batch still to come
  completed,  \* the job claimed and not yet finished: its worker, or None
  world,      \* world_'s revision
  published,  \* published_: the clock and revision readers see
  stop,       \* stop_
  over,       \* deadline_ has passed
  failed,     \* failed_
  pending,    \* pending_: the workers whose jobs wait
  job,        \* each worker's Job
  worker,     \* where each worker stands; how its dispatch ended
  lease,      \* the principal each worker's lease is for, or None
  late,       \* workers whose request deadline has passed
  gateway,    \* the accept loop of run_policy
  main        \* the thread in execute

clock == <<stats, batch, left>>
requests == <<pending, job, worker>>
control == <<stop, over, failed, gateway, main>>
vars == <<at, stats, batch, left, completed, world, published, stop, over,
          failed, pending, job, worker, lease, late, gateway, main>>

NoJob == [state |-> "none", authoring |-> FALSE, failure |-> FALSE, committed |-> 0]

Jobs == [state : {"none", "pending", "running", "completed", "canceled"},
         authoring : BOOLEAN, failure : BOOLEAN, committed : 0 .. MaxRevision]

\* The types of the variables, and the queue's limit.
TypeOK ==
  /\ at \in {"poll", "tick", "tick_task", "publish", "finish", "idle", "idle_task",
             "finish_idle", "failing", "notify", "drain", "stopped"}
  /\ stats \in Stats
  /\ left \in 0 .. CatchUpCap
  /\ batch.executed \in 0 .. CatchUpCap /\ batch.dropped \in 0 .. MaxCounter
  /\ completed \in Workers \cup {None}
  /\ world \in 0 .. MaxRevision
  /\ published \in [clock : Stats, revision : 0 .. MaxRevision]
  /\ stop \in BOOLEAN /\ over \in BOOLEAN /\ failed \in BOOLEAN
  /\ pending \in Seq(Workers) /\ Len(pending) <= QueueLimit
  /\ job \in [Workers -> Jobs]
  /\ worker \in [Workers -> {"free", "accepted", "admitted", "waiting",
                             "served", "refused", "threw"}]
  /\ lease \in [Workers -> Principals \cup {None}]
  /\ late \subseteq Workers
  /\ gateway \in {"serving", "joining", "done"}
  /\ main \in {"running", "joining", "exited"}

Init ==
  /\ at = "poll"
  /\ stats = NoStats /\ batch = Batch(0, 0) /\ left = 0
  /\ completed = None
  /\ world = 0 /\ published = [clock |-> NoStats, revision |-> 0]
  /\ stop = FALSE /\ over = FALSE /\ failed = FALSE
  /\ pending = <<>> /\ job = [w \in Workers |-> NoJob]
  /\ worker = [w \in Workers |-> "free"]
  /\ lease = [w \in Workers |-> None]
  /\ late = {}
  /\ gateway = "serving" /\ main = "running"

Stopping == stop \/ over
Dead(w) == Stopping \/ w \in late

-----------------------------------------------------------------------------
(* execute_job and finish                                                  *)

Cut(queue, i) == SubSeq(queue, 1, i - 1) \o SubSeq(queue, i + 1, Len(queue))

\* The n jobs at the front of the queue are past their time, the next is not.
Sweeps(n) ==
  /\ \A i \in 1 .. n : Dead(pending[i])
  /\ n < Len(pending) => ~Dead(pending[n + 1])

\* Mutated form of Claimable: only the front of the queue is looked at.
ClaimableFront(queue, mayAuthor, i) ==
  i = 1 /\ (mayAuthor \/ ~job[queue[1]].authoring)

\* The first job of the queue that may run here is the i-th.
Claimable(queue, mayAuthor, i) ==
  /\ mayAuthor \/ ~job[queue[i]].authoring
  /\ \A k \in 1 .. i - 1 : ~mayAuthor /\ job[queue[k]].authoring

\* execute_job: drop what expired at the front, claim at most one of the rest.
ExecuteJob(mayAuthor, task, otherwise) ==
  \E n \in 0 .. Len(pending) :
    LET live == SubSeq(pending, n + 1, Len(pending))
        swept == [w \in Workers |-> IF \E i \in 1 .. n : pending[i] = w
                                    THEN [job[w] EXCEPT !.state = "canceled"] ELSE job[w]]
    IN /\ Sweeps(n)
       /\ \/ \E i \in 1 .. Len(live) :
               /\ Claimable(live, mayAuthor, i)
               /\ pending' = Cut(live, i)
               /\ completed' = live[i]
               /\ job' = [swept EXCEPT ![live[i]].state = "running"]
               /\ at' = task
          \/ /\ \A i \in 1 .. Len(live) : ~Claimable(live, mayAuthor, i)
             /\ pending' = live /\ job' = swept /\ completed' = None
             /\ at' = otherwise

\* finish(completed); completed.reset()
Finish ==
  /\ completed' = None
  /\ job' = IF completed = None THEN job ELSE [job EXCEPT ![completed].state = "completed"]

-----------------------------------------------------------------------------
(* The owner thread: Owner::run                                            *)

LeaveLoop ==
  /\ at = "poll" /\ Stopping
  /\ at' = "drain"
  /\ UNCHANGED <<clock, requests, control, completed, world, published, lease, late>>

\* One turn of the loop reads the clock and enters advance, which throws when a
\* cumulative counter has no room.
Poll(elapsed) ==
  LET next == Batch(stats.remainder_units, elapsed)
  IN /\ at = "poll" /\ ~Stopping
     /\ \/ /\ Exhausted(stats, next)
           /\ at' = "failing" /\ UNCHANGED <<batch, left>>
        \/ /\ ~Exhausted(stats, next)
           /\ batch' = next /\ left' = next.executed
           /\ at' = IF next.executed = 0 THEN "finish" ELSE "tick"
     /\ UNCHANGED <<stats, requests, control, completed, world, published, lease, late>>

\* A callback of advance claims a job unless this batch has already run one,
\* and may author unless the batch is overloaded.
Tick ==
  /\ at = "tick"
  /\ \/ completed = None /\ ExecuteJob(batch.overload = 0, "tick_task", "publish")
     \/ completed # None /\ at' = "publish" /\ UNCHANGED <<pending, job, completed>>
  /\ UNCHANGED <<clock, control, worker, world, published, lease, late>>

\* The claimed closure, outside the mutex.  The host refuses a dead connection
\* or an old epoch by an exception, an authoring task may commit one revision,
\* and building the response may fail after that.
Task(task, then) ==
  /\ at = task /\ at' = then
  /\ \E failure \in BOOLEAN, commits \in BOOLEAN :
       /\ commits => job[completed].authoring /\ ~Dead(completed) /\ world < MaxRevision
       /\ Dead(completed) => failure
       /\ world' = IF commits THEN world + 1 ELSE world
       /\ job' = [job EXCEPT ![completed].failure = failure,
                             ![completed].committed = IF commits THEN world' ELSE 0]
  /\ UNCHANGED <<clock, control, pending, worker, completed, published, lease, late>>

TickTask == Task("tick_task", "publish")
IdleTask == Task("idle_task", "finish_idle")

\* What the owner publishes for a tick: the stepper's counters as they will be
\* once the batch has settled, computed beside it.
Publication ==
  [clock |-> [simulation_tick |-> stats.simulation_tick + 1,
              overload_count  |-> stats.overload_count + batch.overload,
              dropped_ticks   |-> stats.dropped_ticks + batch.dropped,
              remainder_units |-> batch.remainder],
   revision |-> world]

Publish ==
  /\ at = "publish"
  /\ published' = Publication
  /\ stats' = Ticked(stats)
  /\ left' = left - 1
  /\ at' = IF left = 1 THEN "finish" ELSE "tick"
  /\ UNCHANGED <<batch, requests, control, completed, world, lease, late>>

\* Allocating the snapshot fails: the exception leaves advance and the loop.
PublishFails ==
  /\ at = "publish" /\ at' = "failing"
  /\ UNCHANGED <<clock, requests, control, completed, world, published, lease, late>>

FinishTicks ==
  /\ at = "finish" /\ at' = "idle"
  /\ stats' = Settled(stats, batch)
  /\ Finish
  /\ UNCHANGED <<batch, left, control, pending, worker, world, published, lease, late>>

\* Mutated form of Idle: between ticks any job may run.
IdleMayAuthor ==
  /\ at = "idle"
  /\ ExecuteJob(TRUE, "idle_task", "poll")
  /\ UNCHANGED <<clock, control, worker, world, published, lease, late>>

Idle ==
  /\ at = "idle"
  /\ ExecuteJob(FALSE, "idle_task", "poll")
  /\ UNCHANGED <<clock, control, worker, world, published, lease, late>>

FinishIdle ==
  /\ at = "finish_idle" /\ at' = "poll"
  /\ Finish
  /\ UNCHANGED <<clock, control, pending, worker, world, published, lease, late>>

Fail ==
  /\ at = "failing" /\ at' = "notify"
  /\ failed' = TRUE /\ stop' = TRUE
  /\ UNCHANGED <<clock, requests, over, gateway, main, completed, world, published, lease, late>>

\* Mutated form of NotifyFailed: the claimed job is forgotten.
NotifyNobody ==
  /\ at = "notify" /\ at' = "drain"
  /\ UNCHANGED <<clock, control, requests, completed, world, published, lease, late>>

\* The request whose task ran before the failed publication gets the failure.
NotifyFailed ==
  /\ at = "notify" /\ at' = "drain"
  /\ completed' = None
  /\ job' = IF completed = None THEN job
            ELSE [job EXCEPT ![completed].state = "completed", ![completed].failure = TRUE]
  /\ UNCHANGED <<clock, control, pending, worker, world, published, lease, late>>

\* cancel_pending, and the thread ends.
Drain ==
  /\ at = "drain" /\ at' = "stopped"
  /\ job' = [w \in Workers |-> IF \E i \in 1 .. Len(pending) : pending[i] = w
                               THEN [job[w] EXCEPT !.state = "canceled"] ELSE job[w]]
  /\ pending' = <<>>
  /\ UNCHANGED <<clock, control, completed, worker, world, published, lease, late>>

OwnerStep ==
  \/ LeaveLoop \/ (\E elapsed \in Elapsed : Poll(elapsed))
  \/ Tick \/ TickTask \/ Publish \/ PublishFails \/ FinishTicks
  \/ Idle \/ IdleTask \/ FinishIdle
  \/ Fail \/ NotifyFailed \/ Drain

-----------------------------------------------------------------------------
(* A gateway worker: one connection                                        *)

\* The accept loop hands a connection to a free worker.
Accept(w) ==
  /\ gateway = "serving" /\ ~Stopping
  /\ worker[w] = "free"
  /\ worker' = [worker EXCEPT ![w] = "accepted"]
  /\ UNCHANGED <<at, clock, control, completed, world, published, pending, job, lease, late>>

Admit(w, p) ==
  /\ worker[w] = "accepted"
  /\ \A v \in Workers : lease[v] # p
  /\ Cardinality({v \in Workers : lease[v] # None}) < GlobalLimit
  /\ worker' = [worker EXCEPT ![w] = "admitted"]
  /\ lease' = [lease EXCEPT ![w] = p]
  /\ UNCHANGED <<at, clock, control, completed, world, published, pending, job, late>>

\* The connection ends without a dispatch: refused, unreadable, or answered
\* from a route that needs no boundary; its lease, if any, is refunded.
Decline(w) ==
  /\ worker[w] \in {"accepted", "admitted"}
  /\ worker' = [worker EXCEPT ![w] = "free"]
  /\ lease' = [lease EXCEPT ![w] = None]
  /\ late' = late \ {w}
  /\ UNCHANGED <<at, clock, control, completed, world, published, pending, job>>

\* dispatch, up to its first wait.
Dispatch(w, authoring) ==
  /\ worker[w] = "admitted"
  /\ \/ /\ Dead(w) \/ Len(pending) >= QueueLimit
        /\ worker' = [worker EXCEPT ![w] = "refused"]
        /\ UNCHANGED <<pending, job>>
     \/ /\ ~Dead(w) /\ Len(pending) < QueueLimit
        /\ worker' = [worker EXCEPT ![w] = "waiting"]
        /\ pending' = Append(pending, w)
        /\ job' = [job EXCEPT ![w] = [NoJob EXCEPT !.state = "pending", !.authoring = authoring]]
  /\ UNCHANGED <<at, clock, control, completed, world, published, lease, late>>

\* Mutated form of TimeOut: a claimed job is abandoned too.
TimeOutClaimed(w) ==
  /\ worker[w] = "waiting" /\ (over \/ w \in late)
  /\ job[w].state \in {"pending", "running"}
  /\ worker' = [worker EXCEPT ![w] = "refused"]
  /\ pending' = SelectSeq(pending, LAMBDA v : v # w)
  /\ UNCHANGED <<at, clock, control, completed, world, published, job, lease, late>>

\* The wait of an unclaimed job reaches its deadline.
TimeOut(w) ==
  /\ worker[w] = "waiting" /\ (over \/ w \in late)
  /\ job[w].state = "pending"
  /\ worker' = [worker EXCEPT ![w] = "refused"]
  /\ job' = [job EXCEPT ![w].state = "canceled"]
  /\ \E i \in 1 .. Len(pending) : pending[i] = w /\ pending' = Cut(pending, i)
  /\ UNCHANGED <<at, clock, control, completed, world, published, lease, late>>

\* Mutated form of Return: the second wait, for the end of the closure, is gone.
ReturnOnceClaimed(w) ==
  /\ worker[w] = "waiting" /\ job[w].state # "pending"
  /\ worker' = [worker EXCEPT ![w] =
       IF job[w].state = "canceled" THEN "refused"
       ELSE IF job[w].failure THEN "threw" ELSE "served"]
  /\ UNCHANGED <<at, clock, control, completed, world, published, pending, job, lease, late>>

\* dispatch returns false, rethrows the job's failure, or returns true.
Return(w) ==
  /\ worker[w] = "waiting"
  /\ job[w].state \in {"completed", "canceled"}
  /\ worker' = [worker EXCEPT ![w] =
       IF job[w].state = "canceled" THEN "refused"
       ELSE IF job[w].failure THEN "threw" ELSE "served"]
  /\ UNCHANGED <<at, clock, control, completed, world, published, pending, job, lease, late>>

\* The response is sent or the socket dropped, and the lease is refunded.
Leave(w) ==
  /\ worker[w] \in {"served", "refused", "threw"}
  /\ worker' = [worker EXCEPT ![w] = "free"]
  /\ job' = [job EXCEPT ![w] = NoJob]
  /\ lease' = [lease EXCEPT ![w] = None]
  /\ late' = late \ {w}
  /\ UNCHANGED <<at, clock, control, completed, world, published, pending>>

WorkerStep(w) ==
  \/ \E p \in Principals : Admit(w, p)
  \/ Decline(w)
  \/ \E authoring \in BOOLEAN : Dispatch(w, authoring)
  \/ TimeOut(w) \/ Return(w) \/ Leave(w)

-----------------------------------------------------------------------------
(* Time, the accept loop and the main thread                               *)

RequestDeadline(w) ==
  /\ worker[w] # "free" /\ w \notin late
  /\ late' = late \cup {w}
  /\ UNCHANGED <<at, clock, control, requests, completed, world, published, lease>>

ProcessDeadline ==
  /\ ~over /\ over' = TRUE
  /\ UNCHANGED <<at, clock, requests, completed, world, published, lease, late,
                 stop, failed, gateway, main>>

\* The accept loop ends: stopping, the stop command, its request limit, or an
\* error of a worker.
CloseGateway ==
  /\ gateway = "serving" /\ gateway' = "joining"
  /\ UNCHANGED <<at, clock, requests, completed, world, published, lease, late,
                 stop, over, failed, main>>

\* run_policy has joined its workers; its caller stops the process.
GatewayDone ==
  /\ gateway = "joining" /\ \A w \in Workers : worker[w] = "free"
  /\ gateway' = "done" /\ stop' = TRUE
  /\ UNCHANGED <<at, clock, requests, completed, world, published, lease, late,
                 over, failed, main>>

\* execute: wait for stopping, stop, join the gateway, join the owner.
MainStops ==
  /\ main = "running" /\ Stopping
  /\ main' = "joining" /\ stop' = TRUE
  /\ UNCHANGED <<at, clock, requests, completed, world, published, lease, late,
                 over, failed, gateway>>

MainExits ==
  /\ main = "joining" /\ gateway = "done" /\ at = "stopped"
  /\ main' = "exited"
  /\ UNCHANGED <<at, clock, requests, completed, world, published, lease, late,
                 stop, over, failed, gateway>>

\* The process is gone.
Exited == main = "exited" /\ UNCHANGED vars

Next ==
  \/ OwnerStep
  \/ \E w \in Workers : Accept(w) \/ WorkerStep(w) \/ RequestDeadline(w)
  \/ ProcessDeadline \/ CloseGateway \/ GatewayDone \/ MainStops \/ MainExits
  \/ Exited

\* Threads are scheduled, the process deadline comes, and the accept loop looks
\* at stopping between bounded waits.  Nothing is assumed of clients, of request
\* deadlines, or of the choices a step has.
Fairness ==
  /\ WF_vars(OwnerStep)
  /\ \A w \in Workers : WF_vars(WorkerStep(w))
  /\ WF_vars(ProcessDeadline)
  /\ WF_vars(Stopping /\ CloseGateway)
  /\ WF_vars(GatewayDone) /\ WF_vars(MainStops) /\ WF_vars(MainExits)

Spec == Init /\ [][Next]_vars

FairSpec == Spec /\ Fairness

-----------------------------------------------------------------------------

(***************************************************************************)
(* A claimed closure uses variables of its worker's stack: from the claim  *)
(* until it is finished its worker is still inside dispatch, whatever      *)
(* deadlines passed and whatever failed.                                   *)
(***************************************************************************)
CapturesAlive ==
  completed # None =>
    worker[completed] = "waiting" /\ job[completed].state = "running"

(***************************************************************************)
(* A client is told of a commit only once the publication that readers and *)
(* the renderer use contains it.                                           *)
(***************************************************************************)
AckedIsPublished ==
  \A w \in Workers : worker[w] = "served" => job[w].committed <= published.revision

(***************************************************************************)
(* A dispatch that gives up, by its own deadline or because the owner      *)
(* dropped the job, has changed nothing: false means not executed.         *)
(***************************************************************************)
RefusedNeverRan ==
  \A w \in Workers : worker[w] = "refused" => job[w].committed = 0 /\ completed # w

(***************************************************************************)
(* A read never waits for a tick behind an authoring job: when the owner   *)
(* finds nothing to run between ticks, no read is left in the queue.       *)
(***************************************************************************)
ReadsOvertake ==
  [][at = "idle" /\ at' = "poll" =>
       \A i \in 1 .. Len(pending') : job'[pending'[i]].authoring]_vars

(***************************************************************************)
(* The process ends by itself: no thread joins one that waits for it (the  *)
(* LifetimeGuard that kills the process a second later is not needed).     *)
(***************************************************************************)
ProcessExits == <>(main = "exited")
=============================================================================
