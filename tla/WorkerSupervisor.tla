-------------------------- MODULE WorkerSupervisor --------------------------
(***************************************************************************)
(* The SDK's worker supervisor: it starts child processes that propose     *)
(* edits, keeps the only client that may write, and decides which proposal *)
(* is still wanted.  Callers, one thread per child and one thread per      *)
(* submission or reconciliation meet under a short lock; deadlines,        *)
(* cancellation, supersession, restart and close come between any two of   *)
(* their steps.                                                            *)
(* Source: src/sdk/python/omniweft_sdk/lifecycle.py, over the client of    *)
(* retry.py, client.py and policy.py.                                      *)
(*                                                                         *)
(* One action is one section under the lock or one call of the client.     *)
(* A request prepares at most one transaction, which bears its identifier. *)
(* Error codes are left out; a retry or reconciliation whose thread cannot *)
(* be started changes nothing.                                             *)
(***************************************************************************)
EXTENDS Integers, FiniteSets

CONSTANTS
  MaxRequests,    \* statuses kept: 8
  MaxWorkers,     \* children at once: 2
  MaxGeneration,  \* bound on the generations explored
  None

ASSUME SupervisorAssumption ==
  /\ MaxRequests \in Nat \ {0} /\ MaxWorkers \in Nat \ {0}
  /\ MaxGeneration \in Nat \ {0}
  /\ None \notin 1 .. MaxRequests

VARIABLES
  requests,    \* _records
  generation,  \* _generation
  active,      \* _active
  blocked,     \* _blocked
  workers,     \* _workers
  closing,     \* close: not called, joining the threads, returned or raised
  due,         \* requests whose deadline has passed
  worker,      \* where each request's _worker thread stands, and its finding
  sender,      \* where each request's _submit or _reconcile thread stands
  pending,     \* the client's _pending
  uncertain,   \* the client's _uncertain
  transit,     \* transactions on their way to the host
  host         \* what the host retains of each transaction

records == <<requests, generation, active, blocked, workers, closing>>
client == <<pending, uncertain>>
world == <<transit, host>>
vars == <<records, due, worker, sender, client, world>>

Ids == 1 .. MaxRequests

PreSubmit == {"running", "proposal_ready"}
Busy == {"submitting", "outcome_unknown", "reconciling"}
Final == {"timed_out", "superseded", "cancelled", "crashed", "worker_failed",
          "committed", "rejected", "reconciled"}

NoRequest == [state |-> "none", generation |-> 0, late |-> 0,
              prepared |-> FALSE, started |-> FALSE]
NoWorker == [at |-> "none", found |-> "nothing"]

Init ==
  /\ requests = [id \in Ids |-> NoRequest]
  /\ generation = 1 /\ active = None /\ blocked = None /\ workers = 0
  /\ closing = "open"
  /\ due = {}
  /\ worker = [id \in Ids |-> NoWorker] /\ sender = [id \in Ids |-> "none"]
  /\ pending = None /\ uncertain = FALSE
  /\ transit = {} /\ host = [id \in Ids |-> "none"]

Closed == closing # "open"

\* The threads close waits for.
Threads == {id \in Ids : worker[id].at \notin {"none", "gone", "leaked"} \/ sender[id] # "none"}

\* The state a request has after _expire.
Checked(id) ==
  IF id \in due /\ requests[id].state \in PreSubmit THEN "timed_out" ELSE requests[id].state

\* The request is given a state; a final one ends its being active.
Becomes(id, state) ==
  /\ requests' = [requests EXCEPT ![id].state = state]
  /\ active' = IF state \in Final /\ active = id THEN None ELSE active

-----------------------------------------------------------------------------
(* The callers                                                             *)

\* status, and every other call that finds the deadline passed and raises.
Expire(id) ==
  /\ Checked(id) # requests[id].state
  /\ Becomes(id, Checked(id))
  /\ UNCHANGED <<generation, blocked, workers, closing, due, worker, sender, client, world>>

Places(spawned) == IF spawned THEN workers + 1 ELSE workers

\* start and supersede; spawned is whether the thread could be started.
Start(supersede, spawned) ==
  LET id == Cardinality({i \in Ids : requests[i].state # "none"}) + 1
      now == IF supersede THEN generation + 1 ELSE generation
      kept == IF active = None THEN requests
              ELSE [requests EXCEPT ![active].state =
                      IF Checked(active) \in PreSubmit THEN "superseded" ELSE Checked(active)]
  IN /\ ~Closed /\ blocked = None
     /\ id \in Ids /\ workers < MaxWorkers
     /\ active # None => supersede \/ Checked(active) \notin PreSubmit
     /\ now <= MaxGeneration /\ generation' = now
     /\ requests' = [kept EXCEPT ![id].generation = now,
                                 ![id].state = IF spawned THEN "running" ELSE "worker_failed"]
     /\ active' = IF spawned THEN id ELSE None
     /\ workers' = Places(spawned)
     /\ worker' = [worker EXCEPT ![id].at = IF spawned THEN "enter" ELSE "gone"]
     /\ UNCHANGED <<blocked, closing, due, sender, client, world>>

\* Mutated form of Cancel: a submission can still be canceled.
CancelAnyTime(id) ==
  /\ Checked(id) \in PreSubmit \cup Busy
  /\ Becomes(id, "cancelled")
  /\ UNCHANGED <<generation, blocked, workers, closing, due, worker, sender, client, world>>

\* cancel, when it answers "cancelled".
Cancel(id) ==
  /\ Checked(id) \in PreSubmit /\ ~requests[id].prepared
  /\ Becomes(id, "cancelled")
  /\ UNCHANGED <<generation, blocked, workers, closing, due, worker, sender, client, world>>

Restart ==
  /\ ~Closed /\ generation < MaxGeneration
  /\ generation' = generation + 1
  /\ IF active = None THEN UNCHANGED <<requests, active>>
     ELSE Becomes(active, IF Checked(active) \in PreSubmit THEN "superseded"
                          ELSE Checked(active))
  /\ UNCHANGED <<blocked, workers, closing, due, worker, sender, client, world>>

Submit(id, spawned) ==
  /\ Checked(id) = "proposal_ready"
  /\ ~Closed /\ active = id /\ requests[id].generation = generation
  /\ blocked = None
  /\ Becomes(id, IF spawned THEN "submitting" ELSE "worker_failed")
  /\ blocked' = IF spawned THEN id ELSE None
  /\ sender' = [sender EXCEPT ![id] = IF spawned THEN "begin" ELSE "none"]
  /\ UNCHANGED <<generation, workers, closing, due, worker, client, world>>

\* Mutated form of Retry: it is not refused after close.
RetryAnyTime(id) ==
  /\ requests[id].state = "outcome_unknown" /\ blocked = id
  /\ requests[id].prepared /\ requests[id].started
  /\ Becomes(id, "submitting")
  /\ sender' = [sender EXCEPT ![id] = "post"]
  /\ UNCHANGED <<generation, blocked, workers, closing, due, worker, client, world>>

Retry(id) ==
  /\ ~Closed
  /\ requests[id].state = "outcome_unknown" /\ blocked = id
  /\ requests[id].prepared /\ requests[id].started
  /\ Becomes(id, "submitting")
  /\ sender' = [sender EXCEPT ![id] = "post"]
  /\ UNCHANGED <<generation, blocked, workers, closing, due, worker, client, world>>

Reconcile(id) ==
  /\ ~Closed
  /\ requests[id].state = "outcome_unknown" /\ blocked = id
  /\ Becomes(id, "reconciling")
  /\ sender' = [sender EXCEPT ![id] = "resync"]
  /\ UNCHANGED <<generation, blocked, workers, closing, due, worker, client, world>>

\* close, which may be called again when it has raised.
Close ==
  /\ closing \in {"open", "raised"} /\ closing' = "joining"
  /\ requests' = [id \in Ids |-> IF requests[id].state \in PreSubmit
                                 THEN [requests[id] EXCEPT !.state = "cancelled"]
                                 ELSE requests[id]]
  /\ active' = IF active # None /\ requests[active].state \in PreSubmit THEN None ELSE active
  /\ UNCHANGED <<generation, blocked, workers, due, worker, sender, client, world>>

\* The threads have ended, or twelve seconds have passed.
CloseEnds ==
  /\ closing = "joining"
  /\ closing' = IF Threads = {} /\ workers = 0 THEN "returned" ELSE "raised"
  /\ UNCHANGED <<requests, generation, active, blocked, workers, due, worker, sender,
                 client, world>>

\* Time reaches a deadline that somebody may still look at.
Deadline(id) ==
  /\ id \notin due
  /\ \/ requests[id].state \in PreSubmit
     \/ worker[id].at \in {"enter", "child"} \/ sender[id] \in {"begin", "ready"}
  /\ due' = due \cup {id}
  /\ UNCHANGED <<records, worker, sender, client, world>>

-----------------------------------------------------------------------------
(* The thread of a worker process                                          *)

WorkerAt(id, at, next, found) ==
  worker[id].at = at /\ worker' = [worker EXCEPT ![id] = [at |-> next, found |-> found]]

\* The child is started, unless it is too late for it.
Enter(id) ==
  LET late == Closed \/ id \in due
  IN /\ WorkerAt(id, "enter", IF late THEN "cleanup" ELSE "child",
                 IF late THEN "unstarted" ELSE "nothing")
     /\ Becomes(id, IF late THEN Checked(id) ELSE requests[id].state)
     /\ UNCHANGED <<generation, blocked, workers, closing, due, sender, client, world>>

\* The child ends by itself, with a line or without one worth reading.
ChildEnds(id, found) ==
  /\ WorkerAt(id, "child", "reaped",
              IF found # "line" /\ id \in due THEN "nothing" ELSE found)
  /\ UNCHANGED <<records, due, sender, client, world>>

\* Mutated form of Kill: the wait for the child does not look at the stop event.
KillWhenDue(id) ==
  /\ id \in due
  /\ WorkerAt(id, "child", "reaped", "nothing")
  /\ UNCHANGED <<records, due, sender, client, world>>

\* The wait for the child ends at the deadline or when the supervisor stops.
Kill(id) ==
  /\ Closed \/ id \in due
  /\ WorkerAt(id, "child", "reaped", IF id \in due THEN "nothing" ELSE "crashed")
  /\ UNCHANGED <<records, due, sender, client, world>>

\* Starting, reaping or joining the child raised.
ChildRaises(id) ==
  /\ WorkerAt(id, "child", "judging", "worker_failed")
  /\ UNCHANGED <<records, due, sender, client, world>>

Reaped(id) ==
  /\ WorkerAt(id, "reaped", "judging", worker[id].found)
  /\ Becomes(id, Checked(id))
  /\ UNCHANGED <<generation, blocked, workers, closing, due, sender, client, world>>

Wanted(id) ==
  /\ ~Closed
  /\ Checked(id) = "running" /\ active = id
  /\ requests[id].generation = generation

\* _accept: the proposal is ready to be submitted, or late.
Accept(id) ==
  /\ worker[id].found = "line" /\ WorkerAt(id, "judging", "cleanup", "line")
  /\ IF Wanted(id) THEN Becomes(id, "proposal_ready")
     ELSE /\ requests' = [requests EXCEPT ![id].state = Checked(id), ![id].late = @ + 1]
          /\ active' = IF Checked(id) \in Final /\ active = id THEN None ELSE active
  /\ UNCHANGED <<generation, blocked, workers, closing, due, sender, client, world>>

\* The child crashed or answered nonsense, or it ended too late to matter.
Blame(id) ==
  /\ worker[id].found # "line"
  /\ WorkerAt(id, "judging", "cleanup", worker[id].found)
  /\ IF worker[id].found # "nothing" /\ requests[id].state = "running"
     THEN Becomes(id, worker[id].found) ELSE UNCHANGED <<requests, active>>
  /\ UNCHANGED <<generation, blocked, workers, closing, due, sender, client, world>>

\* The child and its pipes are gone, or it keeps its place among the workers.
CleanUp(id, cleaned) ==
  /\ worker[id].found = "unstarted" => cleaned
  /\ WorkerAt(id, "cleanup", IF cleaned THEN "gone" ELSE "leaked", "nothing")
  /\ workers' = IF cleaned THEN workers - 1 ELSE workers
  /\ IF ~cleaned /\ requests[id].state \in PreSubmit
     THEN Becomes(id, "worker_failed") ELSE UNCHANGED <<requests, active>>
  /\ UNCHANGED <<generation, blocked, closing, due, sender, client, world>>

WorkerStep(id) ==
  \/ Enter(id) \/ Kill(id) \/ Reaped(id) \/ Accept(id) \/ Blame(id)
  \/ \E cleaned \in BOOLEAN : CleanUp(id, cleaned)

-----------------------------------------------------------------------------
(* The thread of a submission or a reconciliation                          *)

SenderAt(id, at, next) == sender[id] = at /\ sender' = [sender EXCEPT ![id] = next]

\* The thread ends without an answer; any request may have left the client uncertain.
Unknown(id) ==
  /\ sender' = [sender EXCEPT ![id] = "none"]
  /\ Becomes(id, "outcome_unknown")
  /\ uncertain' \in {uncertain, TRUE}
  /\ UNCHANGED <<generation, blocked, workers, closing, due, worker, pending, world>>

\* The deadline passed before the thread began: nothing was prepared.
TooLate(id) ==
  /\ id \in due /\ SenderAt(id, "begin", "none")
  /\ blocked' = None /\ Becomes(id, "timed_out")
  /\ UNCHANGED <<generation, workers, closing, due, worker, client, world>>

\* The client prepares the transaction and its handle is kept.
Prepare(id) ==
  /\ id \notin due /\ SenderAt(id, "begin", "ready")
  /\ ~uncertain /\ pending = None
  /\ pending' = id
  /\ requests' = [requests EXCEPT ![id].prepared = TRUE]
  /\ UNCHANGED <<generation, active, blocked, workers, closing, due, worker, uncertain, world>>

PrepareRaises(id) == id \notin due /\ sender[id] = "begin" /\ Unknown(id)

\* Mutated form of Prepared: the deadline ends the request as it did before.
PreparedTimingOut(id) ==
  IF id \in due
  THEN /\ SenderAt(id, "ready", "none")
       /\ blocked' = None /\ Becomes(id, "timed_out")
       /\ UNCHANGED <<generation, workers, closing, due, worker, client, world>>
  ELSE /\ SenderAt(id, "ready", "post")
       /\ requests' = [requests EXCEPT ![id].started = TRUE]
       /\ UNCHANGED <<generation, active, blocked, workers, closing, due, worker, client, world>>

\* The deadline is looked at for the last time before the first submission.
Prepared(id) ==
  IF id \in due
  THEN /\ SenderAt(id, "ready", "none")
       /\ Becomes(id, "outcome_unknown")
       /\ UNCHANGED <<generation, blocked, workers, closing, due, worker, client, world>>
  ELSE /\ SenderAt(id, "ready", "post")
       /\ requests' = [requests EXCEPT ![id].started = TRUE]
       /\ UNCHANGED <<generation, active, blocked, workers, closing, due, worker, client, world>>

\* client.submit sends the transaction.
Post(id) ==
  /\ pending \in {None, id} /\ pending' = id
  /\ SenderAt(id, "post", "waiting")
  /\ transit' = transit \cup {id}
  /\ UNCHANGED <<records, due, worker, uncertain, host>>

\* client.submit raises, before it sends or while it waits for the answer.
PostRaises(id) == sender[id] \in {"post", "waiting"} /\ Unknown(id)

\* client.submit returns the receipt the host retains.
Answer(id) ==
  /\ host[id] # "none" /\ id \notin transit
  /\ SenderAt(id, "waiting", "answered")
  /\ pending' = None /\ uncertain' = FALSE
  /\ UNCHANGED <<records, due, worker, world>>

Settle(id) ==
  /\ SenderAt(id, "answered", "none")
  /\ requests' = [requests EXCEPT ![id].state = host[id], ![id].prepared = FALSE]
  /\ blocked' = None /\ active' = IF active = id THEN None ELSE active
  /\ UNCHANGED <<generation, workers, closing, due, worker, client, world>>

\* client.resync_policy abandons the pending transaction, or raises.
Resync(id) ==
  /\ SenderAt(id, "resync", "resynced")
  /\ pending' = None /\ uncertain' = FALSE
  /\ UNCHANGED <<records, due, worker, world>>

ResyncRaises(id) == sender[id] = "resync" /\ Unknown(id)

Reconciled(id) ==
  /\ SenderAt(id, "resynced", "none")
  /\ requests' = [requests EXCEPT ![id].state = "reconciled", ![id].prepared = FALSE]
  /\ blocked' = None /\ active' = IF active = id THEN None ELSE active
  /\ UNCHANGED <<generation, workers, closing, due, worker, client, world>>

SenderStep(id) ==
  \/ TooLate(id) \/ Prepare(id) \/ PrepareRaises(id) \/ Prepared(id)
  \/ Post(id) \/ PostRaises(id) \/ Answer(id) \/ Settle(id)
  \/ Resync(id) \/ ResyncRaises(id) \/ Reconciled(id)

\* The host executes a transaction once and retains its outcome, or refuses it.
Arrive(id, outcome) ==
  /\ id \in transit /\ transit' = transit \ {id}
  /\ host' = [host EXCEPT ![id] = IF @ = "none" THEN outcome ELSE @]
  /\ UNCHANGED <<records, due, worker, sender, client>>

-----------------------------------------------------------------------------

\* close has returned and its caller has nothing more to do.
Done == closing = "returned" /\ UNCHANGED vars

Next ==
  \/ \E supersede, spawned \in BOOLEAN : Start(supersede, spawned)
  \/ Restart \/ Close \/ CloseEnds \/ Done
  \/ \E id \in Ids :
       \/ Expire(id) \/ Cancel(id) \/ Retry(id) \/ Reconcile(id) \/ Deadline(id)
       \/ \E spawned \in BOOLEAN : Submit(id, spawned)
       \/ \E found \in {"line", "crashed", "worker_failed"} : ChildEnds(id, found)
       \/ ChildRaises(id) \/ WorkerStep(id) \/ SenderStep(id)
       \/ \E outcome \in {"committed", "rejected", "none"} : Arrive(id, outcome)

\* The threads are scheduled and their waits are bounded.  Nothing is assumed of
\* the children, of the host, of deadlines or of the callers.
Fairness == \A id \in Ids : WF_vars(WorkerStep(id)) /\ WF_vars(SenderStep(id))

Spec == Init /\ [][Next]_vars /\ Fairness

-----------------------------------------------------------------------------

\* The types of the variables, and the bound on children.
TypeOK ==
  /\ requests \in [Ids -> [state : {"none"} \cup PreSubmit \cup Busy \cup Final,
                           generation : 0 .. MaxGeneration, late : 0 .. 1,
                           prepared : BOOLEAN, started : BOOLEAN]]
  /\ generation \in 1 .. MaxGeneration
  /\ active \in Ids \cup {None} /\ blocked \in Ids \cup {None}
  /\ workers \in 0 .. MaxWorkers
  /\ closing \in {"open", "joining", "returned", "raised"}
  /\ due \subseteq Ids
  /\ worker \in [Ids -> [at : {"none", "enter", "child", "reaped", "judging", "cleanup",
                               "gone", "leaked"},
                         found : {"nothing", "unstarted", "line", "crashed", "worker_failed"}]]
  /\ sender \in [Ids -> {"none", "begin", "ready", "post", "waiting", "answered",
                         "resync", "resynced"}]
  /\ pending \in Ids \cup {None} /\ uncertain \in BOOLEAN
  /\ transit \subseteq Ids
  /\ host \in [Ids -> {"none", "committed", "rejected"}]

(***************************************************************************)
(* One write at a time, and none while an outcome is unknown: at most one  *)
(* request has been submitted and not settled, it is the one that blocks   *)
(* the others, and the client's pending transaction is its own.  When      *)
(* nothing blocks, the client has nothing pending and is certain, so that  *)
(* the next proposal can be prepared.  A started submission whose outcome  *)
(* is unknown keeps its exact transaction for a retry.                     *)
(***************************************************************************)
SettledFirst ==
  /\ \A id \in Ids : requests[id].state \in Busy <=> blocked = id
  /\ pending # None => blocked = pending /\ requests[pending].prepared
  /\ blocked = None => ~uncertain
  /\ \A id \in Ids : requests[id].state = "outcome_unknown" /\ requests[id].started
                       => pending = id /\ requests[id].prepared

(***************************************************************************)
(* Only wanted proposals are written: a transaction that is on its way or  *)
(* was executed belongs to a request that is still being settled, was      *)
(* given up by an explicit reconciliation, or ended with the outcome the   *)
(* host retains.  No cancelled, superseded, timed out or failed request    *)
(* ever reaches the World.                                                 *)
(***************************************************************************)
OnlyWantedIsWritten ==
  \A id \in Ids : id \in transit \/ host[id] # "none" =>
    \/ requests[id].state \in Busy \cup {"reconciled"}
    \/ requests[id].state = host[id]

(***************************************************************************)
(* When close has returned no thread and no child is left, and no request  *)
(* can change its state any more except by a retry or reconciliation that  *)
(* a closed supervisor refuses.                                            *)
(***************************************************************************)
ClosedIsQuiet ==
  closing = "returned" =>
    /\ Threads = {} /\ workers = 0
    /\ \A id \in Ids : /\ worker[id].at \in {"none", "gone"}
                       /\ requests[id].state \notin PreSubmit \cup {"submitting", "reconciling"}

(***************************************************************************)
(* close is not kept waiting: once it is called every thread ends, also    *)
(* when a child hangs, the host never answers and no deadline comes.       *)
(***************************************************************************)
ThreadsEnd == Closed ~> Threads = {}
=============================================================================
