------------------------------ MODULE LiveHost ------------------------------
(***************************************************************************)
(* The live host's process: the owner thread that steps the clock, runs    *)
(* one waiting job a batch and publishes every tick; the gateway thread    *)
(* that serves one connection at a time; the main thread that draws the    *)
(* latest publication, reports what it presented, and in the end joins     *)
(* both and reports the run.  The clock is the module SteppedClock: its    *)
(* callbacks are the owner's ticks.                                        *)
(* Source: src/src/agents_main.cpp, with the routes of control.cpp that it *)
(* serves and the renderer's loop as far as its callbacks go.              *)
(*                                                                         *)
(* Data abstractions.  The World is its revision.  An answer is the        *)
(* revision and the presented frame count in it, 0 when it has none.       *)
(***************************************************************************)
EXTENDS SteppedClock

CONSTANTS
  MaxRevision,   \* bound on the commits explored
  MaxFrames      \* bound on the frames presented

ASSUME LiveHostAssumption == MaxRevision \in Nat /\ MaxFrames \in Nat

VARIABLES
  at,            \* where the owner thread stands in run
  world,         \* world_'s revision
  published,     \* published_: the tick and revision readers see
  job,           \* the gateway's Job; it waits in pending_ while pending
  claimed,       \* the owner holds the job in completed
  stop, over,    \* stop_; deadline_ has passed
  failed,        \* failed_
  gateway,       \* the gateway thread: serving, waiting in dispatch, done
  late,          \* the request's deadline has passed
  gateway_result,
  main,          \* where the main thread stands in execute
  gpu,           \* the options' gpu
  frame,         \* the publication the renderer is drawing
  presentation,  \* presentation_
  told,          \* history: the newest the client has been told
  status         \* the report's status

owner == <<at, world, published, claimed, failed>>
serving == <<gateway, late, gateway_result, told>>
drawing == <<main, gpu, frame, presentation, status>>
hostVars == <<vars, owner, job, stop, over, serving, drawing>>

Kinds == {"author", "observe", "runtime"}
NoJob == [state |-> "none", kind |-> "runtime", failure |-> "none",
          revision |-> 0, frames |-> 0]
NoFrame == [revision |-> 0, sequence |-> 0]
NoPresentation == [frames |-> 0, revision |-> 0, sequence |-> 0]

HostInit ==
  /\ Init
  /\ at = "poll" /\ world = 0
  /\ published = [tick |-> 0, revision |-> 0]
  /\ job = NoJob /\ claimed = FALSE
  /\ stop = FALSE /\ over = FALSE /\ failed = FALSE
  /\ gateway = "serving" /\ late = FALSE /\ gateway_result = 0
  /\ main = "starting" /\ gpu \in BOOLEAN
  /\ frame = NoFrame /\ presentation = NoPresentation
  /\ told = [revision |-> 0, frames |-> 0]
  /\ status = "passed"

Stopping == stop \/ over
Dead == Stopping \/ late

-----------------------------------------------------------------------------
(* The owner thread                                                        *)

\* execute_job: cancel the waiting job, claim it, or leave it where it is.
ExecuteJob(mayAuthor, task, otherwise) ==
  LET waits == job.state = "pending"
      held == job.kind = "author" /\ ~mayAuthor
  IN \/ /\ ~waits \/ (~Dead /\ held)
        /\ at' = otherwise /\ UNCHANGED <<job, claimed>>
     \/ /\ waits /\ Dead
        /\ job' = [job EXCEPT !.state = "canceled"]
        /\ at' = otherwise /\ UNCHANGED claimed
     \/ /\ waits /\ ~Dead /\ ~held
        /\ job' = [job EXCEPT !.state = "running"] /\ claimed' = TRUE
        /\ at' = task

\* finish(completed); completed.reset()
Finish ==
  /\ claimed' = FALSE
  /\ job' = IF claimed THEN [job EXCEPT !.state = "completed"] ELSE job

\* A turn of the loop: advance refuses when a counter is exhausted.
Poll(elapsed) ==
  /\ at = "poll"
  /\ \/ Stopping /\ at' = "drain" /\ UNCHANGED vars
     \/ ~Stopping /\ Begin(elapsed) /\ at' = IF left' = 0 THEN "finish" ELSE "tick"
     \/ ~Stopping /\ Refuse(elapsed) /\ at' = "failing"
  /\ UNCHANGED <<world, published, claimed, failed, job, stop, over, serving, drawing>>

\* The callback of a tick runs a job, unless this batch already has.
RunTick ==
  /\ at = "tick"
  /\ \/ ~claimed /\ ExecuteJob(batch.overload = 0, "task", "publish")
     \/ claimed /\ at' = "publish" /\ UNCHANGED <<job, claimed>>
  /\ UNCHANGED <<vars, world, published, failed, stop, over, serving, drawing>>

\* runtime: what is presented is left out when it is ahead of the publication.
Runtime ==
  [revision |-> published.revision,
   frames |-> IF presentation.sequence > published.tick + 1
                 \/ presentation.revision > published.revision
              THEN 0 ELSE presentation.frames]

\* What a claimed closure looks at before it acts: the deadline of its connection,
\* which no process outlives, and should_stop only when it authors.
TurnedAway == late \/ over \/ (job.kind = "author" /\ stop)

\* The claimed closure.  An exception turns a connection away; an authoring one
\* may commit; building the answer may fail after that.
Task(task, then) ==
  /\ at = task /\ at' = then
  /\ \E failure \in {"none", "rejected", "error"}, commits \in BOOLEAN :
       /\ TurnedAway => failure = "rejected"
       /\ commits => job.kind = "author" /\ ~TurnedAway /\ world < MaxRevision
       /\ world' = IF commits THEN world + 1 ELSE world
       /\ job' = [job EXCEPT
            !.failure = failure,
            !.revision = CASE job.kind = "author" -> IF commits THEN world' ELSE 0
                           [] job.kind = "observe" -> world
                           [] job.kind = "runtime" -> Runtime.revision,
            !.frames = IF job.kind = "runtime" THEN Runtime.frames ELSE 0]
  /\ UNCHANGED <<vars, published, claimed, failed, stop, over, serving, drawing>>

Publication == [tick |-> stats.simulation_tick + 1, revision |-> world]

\* Every tick is published; allocating the snapshot may throw through advance.
Publish ==
  /\ at = "publish"
  /\ \/ Tick /\ published' = Publication /\ at' = IF left' = 0 THEN "finish" ELSE "tick"
     \/ Throw /\ UNCHANGED published /\ at' = "failing"
  /\ UNCHANGED <<world, claimed, failed, job, stop, over, serving, drawing>>

FinishTicks ==
  /\ at = "finish" /\ at' = "idle"
  /\ End /\ Finish
  /\ UNCHANGED <<world, published, failed, stop, over, serving, drawing>>

\* Mutated form of Idle: between ticks any job may run.
IdleMayAuthor ==
  /\ at = "idle"
  /\ ExecuteJob(TRUE, "idle_task", "poll")
  /\ UNCHANGED <<vars, world, published, failed, stop, over, serving, drawing>>

\* Between ticks only a read may run.
Idle ==
  /\ at = "idle"
  /\ ExecuteJob(FALSE, "idle_task", "poll")
  /\ UNCHANGED <<vars, world, published, failed, stop, over, serving, drawing>>

FinishIdle ==
  /\ at = "finish_idle" /\ at' = "poll"
  /\ Finish
  /\ UNCHANGED <<vars, world, published, failed, stop, over, serving, drawing>>

\* Mutated form of Fail: the job that has run is forgotten.
FailUntold ==
  /\ at = "failing" /\ at' = "drain"
  /\ failed' = TRUE /\ stop' = TRUE
  /\ claimed' = FALSE
  /\ UNCHANGED <<vars, job, world, published, over, serving, drawing>>

\* The loop is left by an exception: a job that has run is told of it.
Fail ==
  /\ at = "failing" /\ at' = "drain"
  /\ failed' = TRUE /\ stop' = TRUE
  /\ claimed' = FALSE
  /\ job' = IF claimed THEN [job EXCEPT !.state = "completed", !.failure = "error"] ELSE job
  /\ UNCHANGED <<vars, world, published, over, serving, drawing>>

\* cancel_pending, and the thread ends.
Drain ==
  /\ at = "drain" /\ at' = "stopped"
  /\ job' = IF job.state = "pending" THEN [job EXCEPT !.state = "canceled"] ELSE job
  /\ UNCHANGED <<vars, world, published, claimed, failed, stop, over, serving, drawing>>

OwnerStep ==
  \/ \E elapsed \in Elapsed : Poll(elapsed)
  \/ RunTick \/ Task("task", "publish") \/ Publish \/ FinishTicks
  \/ Idle \/ Task("idle_task", "finish_idle") \/ FinishIdle
  \/ Fail \/ Drain

-----------------------------------------------------------------------------
(* The gateway thread                                                      *)

Serves == UNCHANGED <<vars, owner, over, drawing>>

\* A connection's request reaches dispatch, which may refuse it.
Dispatch(kind) ==
  /\ gateway = "serving" /\ ~Stopping
  /\ gateway' = "waiting"
  /\ job' = [NoJob EXCEPT !.state = "pending", !.kind = kind]
  /\ Serves /\ UNCHANGED <<stop, late, gateway_result, told>>

RequestDeadline ==
  /\ gateway = "waiting" /\ ~late /\ late' = TRUE
  /\ Serves /\ UNCHANGED <<job, stop, gateway, gateway_result, told>>

\* The wait of an unclaimed job reaches its deadline.
TimeOut ==
  /\ gateway = "waiting" /\ job.state = "pending" /\ (over \/ late)
  /\ job' = NoJob /\ late' = FALSE
  /\ gateway' = "serving"
  /\ Serves /\ UNCHANGED <<stop, gateway_result, told>>

\* The answer is sent, or the connection ends without one.  An exception that
\* is not a refusal ends control::run.
Return ==
  /\ gateway = "waiting" /\ job.state \in {"completed", "canceled"}
  /\ IF job.state = "completed" /\ job.failure = "error"
     THEN gateway' = "ending" /\ gateway_result' = 4
     ELSE gateway' = "serving" /\ UNCHANGED gateway_result
  /\ told' = IF job.state = "completed" /\ job.failure = "none"
             THEN [revision |-> IF job.revision > told.revision THEN job.revision ELSE told.revision,
                   frames |-> IF job.frames > told.frames THEN job.frames ELSE told.frames]
             ELSE told
  /\ job' = NoJob /\ late' = FALSE
  /\ Serves /\ UNCHANGED stop

\* control::run returns and its thread stops the process.
GatewayEnds ==
  /\ gateway \in {"serving", "ending"}
  /\ gateway' = "done" /\ stop' = TRUE
  /\ gateway_result' \in IF gateway = "serving" THEN {0, 4} ELSE {gateway_result}
  /\ Serves /\ UNCHANGED <<job, late, told>>

-----------------------------------------------------------------------------
(* The main thread                                                         *)

Leads == UNCHANGED <<vars, owner, job, over, serving, gpu>>

\* Without a renderer the main thread waits; with one, run_live is ready.
Start ==
  /\ main = "starting"
  /\ main' = IF gpu THEN "live" ELSE "waiting"
  /\ Leads /\ UNCHANGED <<stop, frame, presentation, status>>

\* Mutated form of Look: the world is drawn, not its publication.
LookAtWorld ==
  /\ main = "live" /\ ~Stopping
  /\ main' = "drawing"
  /\ frame' = [revision |-> world, sequence |-> published.tick + 1]
  /\ Leads /\ UNCHANGED <<stop, presentation, status>>

\* callbacks.latest
Look ==
  /\ main = "live" /\ ~Stopping
  /\ main' = "drawing"
  /\ frame' = [revision |-> published.revision, sequence |-> published.tick + 1]
  /\ Leads /\ UNCHANGED <<stop, presentation, status>>

\* The frame is drawn and presented, or it is not.
Drawn ==
  /\ main = "drawing" /\ main' = "live"
  /\ \/ UNCHANGED presentation
     \/ /\ presentation.frames < MaxFrames
        /\ presentation' = [frames |-> presentation.frames + 1,
                            revision |-> frame.revision, sequence |-> frame.sequence]
  /\ frame' = NoFrame
  /\ Leads /\ UNCHANGED <<stop, status>>

\* run_live ends when the owner stops, or by itself: the window is closed or it
\* has failed.  Then the process is stopped.
MainStops ==
  /\ \/ main = "waiting" /\ Stopping /\ UNCHANGED status
     \/ main \in {"live", "drawing"} /\ status' \in {"passed", "failed"}
  /\ main' = "joining" /\ stop' = TRUE
  /\ frame' = NoFrame
  /\ Leads /\ UNCHANGED presentation

\* Both threads are joined; the report shows the last publication.
Report ==
  /\ main = "joining" /\ gateway = "done" /\ at = "stopped"
  /\ main' = "exited"
  /\ status' = IF failed \/ gateway_result # 0 THEN "failed" ELSE status
  /\ Leads /\ UNCHANGED <<stop, frame, presentation>>

ProcessDeadline ==
  /\ ~over /\ over' = TRUE
  /\ UNCHANGED <<vars, owner, job, stop, serving, drawing>>

Exited == main = "exited" /\ UNCHANGED hostVars

GatewayStep == TimeOut \/ Return \/ (Stopping /\ GatewayEnds)
MainStep == Start \/ Look \/ Drawn \/ MainStops \/ Report

HostNext ==
  \/ OwnerStep
  \/ \E kind \in Kinds : Dispatch(kind)
  \/ RequestDeadline \/ TimeOut \/ Return \/ GatewayEnds
  \/ MainStep \/ ProcessDeadline \/ Exited

\* Threads are scheduled, the accept loop looks at stopping between bounded
\* waits, and the process deadline comes.
HostSpec ==
  /\ HostInit /\ [][HostNext]_hostVars
  /\ WF_hostVars(OwnerStep) /\ WF_hostVars(GatewayStep) /\ WF_hostVars(MainStep)
  /\ WF_hostVars(ProcessDeadline)

-----------------------------------------------------------------------------

(***************************************************************************)
(* What is presented is never newer than what is published, in revision or *)
(* in sequence: an answer never mixes an old world with a newer frame, and *)
(* the branch of runtime that hides such a frame is not needed.            *)
(***************************************************************************)
NeverMixed ==
  /\ presentation.revision <= published.revision
  /\ presentation.sequence <= published.tick + 1

(***************************************************************************)
(* Answers keep up with each other: whichever route it takes, a read that  *)
(* is answered after a commit was acknowledged or another read answered    *)
(* shows at least that revision and that many presented frames.            *)
(***************************************************************************)
AnswersKeepUp ==
  [][Return /\ job.state = "completed" /\ job.failure = "none" =>
       /\ job.kind # "author" => job.revision >= told.revision
       /\ job.kind = "runtime" => job.frames >= told.frames]_hostVars

(***************************************************************************)
(* The process ends by itself, whichever thread stops first and whatever   *)
(* fails: the LifetimeGuard that kills it a second later is not needed.    *)
(***************************************************************************)
HostExits == <>(main = "exited")
=============================================================================
