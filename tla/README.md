# Omniweft in TLA+

TLA+ modules of the native core of Omniweft and of its Python SDK, the TLC
configurations that check them on small instances, and theorems about them that
TLAPS checks for every value of the constants. `PROJECT.json` lists the runs, the
source lines of every definition, the hazards the properties are for and a
seeded fault for every property.

## The system

| component | source | state | operations | interacts with |
|---|---|---|---|---|
| transaction coordinator and World | `src/src/transactions.cpp`, `world.cpp` | snapshot: revision, slots with generation, entity, parent, tags | one batch of create, transform, tags, reparent, delete; commit or reject | called by every writer; a guard and an observer are called back while it stages |
| persistent Store | `src/src/persistence.cpp`, `persistence_io.cpp` | three files and a lock; package in memory; sealed flag | create, open, apply_await_durable, lookup, compact, notify_acknowledged | owns a World; is the coordinator's observer |
| retry window | `src/src/retry.cpp` | last four receipts, next sequence | execute, reset | called by the policy host under the owner's boundary |
| control and policy hosts | `src/src/control.cpp` | sessions (token, epoch, sequence, expiry) | connection, renew, host commands | loopback HTTP from the SDK; posts closures to the owner |
| policy ledger, lease, guard | `src/src/policy.cpp` | usage per principal, sponsors and liveness of slots | admit, refund, begin, account, commit | lease spans a connection; guard is the coordinator's |
| owner loop | `src/src/policy_main.cpp` | queue of jobs, publication, clock | dispatch, execute, finish, cancel, publish | runs the policy host's closures on the thread that owns the World |
| live host | `src/src/agents_main.cpp` | one waiting job, publication, presentation, stop | the owner's loop, the control host's routes, runtime, the renderer's callbacks | three threads: owner, gateway, main; main drives the renderer and joins the others |
| presentation and renderer | `src/src/render_vulkan.cpp`, `presentation.cpp` | window, device, swapchain and their objects, three fences, a byte budget | construct, recreate, draw, capture, execute, execute_live, cleanup | asks the live host for the latest publication and tells it what was presented |
| fixed stepper | `src/src/simulation.cpp` | tick, overload and drop counters, remainder | advance | driven by the owner loop |
| authoring history | `src/src/history.cpp` | up to eight entries and a cursor | apply, undo, redo, clear | writes through the coordinator |
| replay | `src/src/replay.cpp` | up to eight records | record, export, reconstruct | calls the coordinator as its observer; used by the Store to decode |
| asset catalog | `src/src/assets.cpp` | assets, blobs, current and history roots | import, set and remove roots, collect, inspect | none |
| SDK client | `sdk/python/omniweft_sdk/retry.py`, `client.py`, `policy.py` | next sequence, pending request, uncertainty | prepare, submit, resync | HTTP to the hosts |
| SDK worker supervisor | `sdk/python/omniweft_sdk/lifecycle.py` | eight request records, two workers | start, supersede, cancel, restart, submit, retry, reconcile, close | owns a client; threads and child processes |
| observe query session | `src/src/observe.cpp` | one captured snapshot, cursor serial, expiry | start, next, close | reads a World |

What makes them hard: a batch stages many operations that must look like one
step; handles outlive the entities they name; files are written in pieces by a
process that may be killed anywhere; a request may be executed although its
caller never learns it, and may arrive after the caller has given it up;
credentials are renewed under requests in flight; the gateway threads and the
owner thread hand over closures with deadlines; a window changes while frames of it are
on a GPU that may never answer; three threads stop each other in any order.

What makes each correct:

- coordinator: the hierarchy is sound, handles are never reused, a commit's revision
  is carried by the entities its operations reached (named, or below one they moved) and
  by no other, a rejected batch leaves nothing;
- Store: whatever is interrupted, the files hold the committed prefix, they can
  be opened, and a receipt is always the original one;
- resync exchange: a client that is certain knows all its commits, and nothing it has
  given up is executed after a resync;
- retry exchange: a request is executed at most once, replies are the
  original ones, what a client was told is settled stays settled;
- policy: the ledger agrees with the World, leases are refunded once, a live cube
  is inside its writer's region;
- owner loop: every waiter is answered, no claimed closure outlives its waiter,
  nobody is told of a commit before it is published;
- live host: no time is lost, answers never fall back behind what the client was told,
  a frame is never ahead of its publication, and the process ends;
- renderer: nothing in flight is destroyed, nothing is left behind, a capture shows its
  packet, only what was presented is reported, and no wait is for ever;
- history: an undo restores what was there, or refuses;
- replay: an exported log is complete and in step with the world;
- observe session: all pages are pages of one query's capture, in order, within the grant;
- asset catalog: roots find their content, an export can be imported, a report foretells
  the collection;
- supervisor: only a proposal that is still wanted is submitted, one at a time,
  and an unknown outcome blocks further writes until it is settled.

## Modules

| module | models | state and actions |
|---|---|---|
| `Coordinator` | `Coordinator::apply` and the World | `world` is `World::state_`; `staged`, `names`, `applied` are apply's locals; one action per operation, then `Commit` (stamp and swap) or `Reject` |
| `CoordinatorProofs` | | of the coordinator: `TypeCorrect`, `IssuedOnce`, `StaleForEver`, `HierarchyStaysSound`, `EditsCarryTheRevision`; of what runs over it: `RecordingInStep`, `UndoRestoresContent`, `PagesStayWithTheirQuery`, `ReservationsBalance`, `LedgerInStep`, `CubesStayInRegion`, `OnlyOwnCubesChange`, and that recorder, history and guard each implement it |
| `DurableLog` | what the Store promises | a log that gains one entry at a time and receipts that report its entries |
| `DurableStore` | the Store | files as frames with a count of bytes written and flushed; one action per system call; `Stop` kills the process, `Fail` makes the call fail, `Open` and the two repair steps recover |
| `DurableStoreProofs` | | `StoreRecoverable`, `OracleHolds`, `StoreImplementsLog` |
| `Exchange` | what both exchanges of the SDK share | `epoch`, `next`, `exhausted` of a host's session, `client` the client objects, and how a sequence is consumed |
| `RetryExchange` | the retry window, the policy host's sessions, the SDK client | `window`, with the session of `Exchange`; `prepared` the key of each transaction; `stale` counts requests nobody waits for |
| `ResyncExchange` | the legacy host, its session and the SDK client | `expired`, `running` and the session of `Exchange` for `Host`; `backlog` the connections not yet served; `client` the fields of each `Client` and the call it is in |
| `ExchangeProofs` | | with receipts: `ExecutedAtMostOnce`, `ReceiptsOriginal`, `WatermarkHolds`; without: `NothingAfterResync`, `CertainMeansSeen` |
| `FixedStepper` | the arithmetic of `FixedStepper::advance` | operators only, shared by `SteppedClock` and `OwnerLoop` |
| `SteppedClock` | a stepper under any sequence of calls | `stats` is `stats_`; `batch`, `left`, `calling` are advance's locals; a callback may throw |
| `OwnerLoop` | the policy host's process: owner thread, gateway workers, accept loop, main thread | `at` is the owner's program counter in `Owner::run`; `pending`, `job` the queue and its jobs; `worker` where each connection stands; `published` the atomic publication; `stop`, `over`, `failed` the flags the threads share |
| `OwnerLoopProofs` | | `ClosuresAreSafe`, `FalseMeansNothing`, `PublishedBeforeAck`, `ReadsComeFirst` |
| `LiveHost` | the live host's process, over `SteppedClock` | `at` is the owner's place in `Owner::run`, `gateway` and `main` those of the other two threads; `job` the waiting job; `published`, `presentation` the two values they exchange; the owner's batch steps are the clock's `Begin`, `Tick`, `Throw` and `End` |
| `LiveHostProofs` | | of the clock: `CountersInRange`, `NoTimeLost`, `ClockBehindTime`; of the host: `HostDrivesClock`, `HostLosesNoTime`, `PresentedWasPublished`, `AnswersNeverFallBack` |
| `Renderer` | `Context` of the renderer, `run_world_cube` and `run_live` | `at` is the host thread's place; `live`, `size`, `allocated` the objects and their memory; `pending` the three `*_pending_` flags, `flying` what the GPU has not completed; `step` the script of `execute` or the captures of `execute_live` |
| `PolicyGuard` | the two-principal policy, composed with `Coordinator` | `leases` are the connections' `Lease` objects; `usage`, `sponsors`, `live` the `Ledger`; `guard` the copies of the batch's `Guard`; each guarded operation is the coordinator's and the guard's callback in one step |
| `WorkerSupervisor` | `WorkerSupervisor` of the SDK | `requests` are the records, `active`, `blocked`, `workers`, `generation` its fields; `worker` and `sender` where its threads stand; `pending`, `uncertain` the client's; `transit`, `host` what happens beyond the wire |
| `WorkerSupervisorProofs` | | `WritesAreSettled`, `OnlyWantedReachTheWorld`, `CloseLeavesNothing` |
| `History` | `History` over the `Coordinator`, with other writers | `entries`, `cursor`, `expected_revision` are its fields; `script` is what is left to stage of the batch handed to the coordinator; `past` remembers the content before each entry |
| `ObserveSession` | `observe::Session` over the `Coordinator` | `snapshot`, `serial`, `closed` are its fields; `lapsed`, `expired` its two deadlines; `held` the cursors handed out; `captured` remembers the rows of every query |
| `Replay` | `Recorder` over the `Coordinator`, and what `preflight` asks of a log | `records`, `head` are its fields, `checkpoint` the last record's; `prepared` the observer's record of the batch in progress; `marked` and `moved` are history variables, the entities the batch's operations named |
| `AssetCatalog` | `assets::Catalog` | `revision`, `assets`, `blobs`, `current`, `named` and `history` are `Data`; `report` is the last retention report; one action per command |
| `MediaProofs` | | of the catalog: `RootsStored`, `ReportsForetell`, `ExportsImport`; of the renderer: `NothingInFlightDestroyed`, `DestroyedInOrder`, `CapturesShowTheirPacket`, `ReportedHasBeenShown` |
| `SumTheorems` | | lemmas about sums over finite sets, for the Store's and the renderer's bytes and the catalog's quota |
| `MC*` | | the constants' symmetry and tables for TLC |

Abstractions worth knowing. A transform of the coordinator is a translation in a
cyclic group with the one bit of its scale the code branches on; rounding of real
transforms is therefore not covered, and `HierarchySound` states equality where
the code has floating point. A payload is a model value, since the code only
compares canonical texts. The subtree pass is stated by its result (every
descendant composed from its parent), not by its queue. `Reject` may happen from
any staged state, because every batch can end in an operation on an unknown
identifier, a guard's refusal or an observer's failure. A frame of n entries is
n + 2 units long, so that every commit's frame is longer than the one before and
the quota binds as it does with real sizes. In `OwnerLoop` one action is what a
thread does between two points where another may be seen: the mutex held, one
store of an atomic, one closure. The World is its revision, since the closures'
other effects are those of the modules above; a worker has at most one job, so a
job is named by its worker; time is three kinds of step (the elapsed time a poll
sees, a request's deadline, the process's). The literals of the clock (60 ticks, 10^9
phase units, a cap of 4, 64 bits) are constants, so that TLC can run with small ones
and the theorems hold for the code's. In `PolicyGuard` a cube's oriented bounds are its
position, which lies in one principal's write region or in none (the origin, where a
created cube stands until it is placed); the bytes of an envelope's fields are a
refusal that may happen; since the guard holds the ledger's mutex while a batch is
staged, leases are admitted and refunded between batches. In `WorkerSupervisor` one
action is one section under the lock or one call of the client; the child is what
its parent can learn of it (a line, a crash, nonsense, nothing yet); a deadline is a
flag that is set once, at any moment somebody may still look at it. In `AssetCatalog` a
bundle is the set of its manifests and the set of its blobs; its binary form, its hashes
and the run-length codec are a bundle that decodes or does not. In `History` an operation
of another kind than transform and tags, and each byte budget, is a refusal that changes
nothing. In `ResyncExchange` an answer is heard in the step that gives it or not at all,
since a waiting client changes in no other way, and an abandoned read is forgotten.

In `LiveHost` the gateway serves one connection at a time and `runtime` runs on the
owner thread, as in the code; an answer is the revision and the frame count it shows.
The owner's ticks are the steps of `SteppedClock`, which the module extends, so the
clock's properties are checked of the host itself.

In `Renderer` an extent is a number of pixels and a packet the revision it shows. The
window changes only when events are pumped, and the second pump of a draw is part of
the first; the surface reports the window's extent. Construction, retirement and teardown are one
step each, over an ordered list of objects: a construction may stop after any of them,
and `NothingOutlives` looks at every prefix of a destruction. A failed entry point is a
failure of the creation that follows, a failed fence reset that of the wait before. Of
the outcome only passed or not is kept. The deadline, publications and the owner's stop
arrive at the places where the thread may next look at them (`Watched`). A live run is the
non-interactive one.

In `ObserveSession` a region is a set of transforms; a row takes a byte and one more for
its tags, and a page one more byte when it is the last, as `false` is one byte longer than `true`. In `Replay` a record is its number, its expected revision and its
tick, and only the last checkpoint is kept; the world that a log replays to is therefore
compared at its end, and the bindings of each record are left to the handle properties of the
coordinator that the same run checks.

## Runs

| run | instance | shows |
|---|---|---|
| `replay` | 3 slots, 2 generations, 3 revisions, batches of 2, 2 names, one tag; a recorder with room for 2 records, 2 ticks | hierarchy soundness, handle uniqueness and staleness, the exact set of entities a commit stamps; a log that can be exported is complete and in step |
| `durable_store` | 4 commits, window of 2, quota of 16 units, 2 payloads, 2 ticks | recovery at every kill point, no store that cannot be opened, refinement of `DurableLog` |
| `durable_flush` | 3 commits, quota of 13 | the finding below |
| `retry_exchange` | 1 SDK client and raw posts, 3 transactions, window of 2, sequences to 3, one renewal | at most one execution, original replies, settled sequences |
| `resync_exchange` | 2 SDK clients and raw posts, sequences to 3, one renewal, a backlog of 2 | a client that is certain knows its commits and has nothing in transit |
| `live_host` | rate 2 of 3 units, cap 2, counters to 2, four elapsed times, 2 commits, 1 frame, fair threads | the clock's books, no mixed answers, answers that keep up, the end of the process |
| `owner_loop` | 2 workers, 2 leases, queue of 2, 1 commit, cap 2, counters to 2, fair threads | closures, acknowledgements, refusals, overtaking under every interleaving; no deadlock and the end of the process |
| `policy_guard` | 3 slots, 2 principals, 3 connections, 4 commits, batches of 4, charges in the code's ratios | the ledger's books and the World agree, cubes stay in their payer's region, nobody's commit touches another's cubes |
| `supervisor` | 2 requests, 2 children, 2 generations, fair threads | writes settle one by one, only wanted proposals are written, close leaves nothing running, every thread ends |
| `authoring` | 2 slots, 2 generations beside other writers; a history of 2 over 7 commits, or a session with 2 queries over 4 commits and 2 grants | undo and redo restore, never on top of another's edit; pages are of one query, complete and in order |
| `asset_catalog` | 5 manifests over 4 blobs, at most 3 of each and 3 bytes, 2 names with one history set, 5 commands | roots find their content, an export can be imported, a report foretells the collection |
| `renderer` | three kinds of run, three extents of which one is over the budget of pixels, bytes for the second to the last one, 6 frames, 3 changes of the window or the swapchain | objects in flight, cleanup after any failure, captures, progress, the end of every run |

Why these bounds. Three slots give chains of two links and so every shape of cycle,
re-rooting and middle deletion; two generations reach reuse and retirement; batches
of two let one operation see another's effect and three revisions let a
later batch see an earlier one's. A store of four commits with a window of two
evicts, compacts before and after eviction, and has the quota refuse a frame
before and admit it after a compaction. A window of two with three sequences
evicts and exhausts. In `resync_exchange` an abandoned transaction and the client's own
next request, or another caller's, stand in the backlog together, and the last sequence
is consumed by a raw post, since the SDK never sends it; a backlog of three was explored
too. Deadlock is not checked where the system may stop for good: the coordinator at its
last revision, a create that was interrupted (its directory is accepted neither by
create nor by open), a host that has ended, and clients that do not retry.

In `policy_guard` a tombstone costs 1 and a cube 2 as 128 and 256 bytes do, so that
west's limit of 4 admits one cube and one tombstone and refuses a second cube, and
east's of 7 admits one of each more; three connections compete for two requests;
batches of four operations create, place, move and delete within one batch. It ends at
the last revision, so deadlock is not checked there. In `supervisor` two requests with two
places let an old child drain beside a new one; a third request or a full house adds
no new pair of threads, and larger instances (three requests with one place, three
with one generation) were explored without a violation of the invariants. In
`asset_catalog` two manifests share a blob and one blob is twice the size of the others,
so that the limits on manifests, blobs and bytes each refuse an import alone; five
commands import twice, root, unroot and collect, with a report anywhere between. In
`authoring` the seven commits of the history are one creation, two entries, two undos, an entry that cuts both
and what might wrongly be redone; the run's batches have one operation, batches of two were
explored to four commits, and several edits of an entity in one batch are covered for every
length by the theorem `UndoRestoresContent`.

The two extents of `renderer` that fit need 16 and 22 of its 22 units, so the byte budget
holds to the last one and any unit not returned by a rebuild makes the next rebuild
fail; three changes are a resize, a minimize with its restore, or a swapchain that goes out
of date between them; six frames are exactly the script's draws, so
that a frame dropped by a rebuild meets the limit on frames. A surface that is out of date
for ever is beyond three changes: the deadline that ends such a run is reached through a
window that stays minimized.

In `authoring` a session never writes, so it and the history are explored side by side,
each beside the other writers (`tool` says which). Queries take one row a page, all at
once, by tag or by place, and a response too small for two rows; the second query is
answered around commits that deleted or reused what the first one captured.

A rate of 2 ticks in 3 units leaves a remainder that is no multiple of either,
and its elapsed times fall short of a tick, give one, several, the cap and more than the
cap; counters to 2 are exhausted, so the owner also ends by its own exception. In
`live_host` two commits let a second one race the publication of the first, and one frame is
drawn before, between or after them. Two workers are what TLC can check
liveness of without symmetry in `owner_loop`; all its other properties were explored with
`run_policy`'s three workers and two commits too, where the queue of two can be full.
Both processes stutter once they have exited, so both runs check deadlock in earnest, as
the renderer's does.

Every module with a state of its own but `LiveHost`, `Renderer` and the tools over the
`Coordinator` has a `TypeOK`: it documents the state, was checked once on the runs'
instances, and is proved, alone or as a part of the inductive invariant, for `Coordinator`,
`SteppedClock`, `OwnerLoop`, `RetryExchange`, `DurableStore` and `WorkerSupervisor`. No run
repeats it, since the properties above fail first.

### Fairness

Four runs assume fairness, and only weak fairness.

- `owner_loop`: of the owner thread, of each worker, of the main thread's steps and of the
  end of `run_policy`, since the operating system schedules them and every wait of
  theirs is bounded or notified; of the process deadline, since time passes; and of leaving
  the accept loop once stopping, since it looks at that flag between waits of at most
  10 ms. A closure ends: it is a bounded computation on the World. A worker that has been
  accepted keeps moving because its socket operations end at the request's deadline.
  Nothing is assumed of clients, of request deadlines, or of which alternative a step takes.
- `live_host`: the same of its owner, gateway and main threads and of the process deadline.
- `supervisor`: of each thread of the supervisor, since each of its waits is bounded (10 ms
  polls of the child, two seconds to reap it, the client's request timeout); nothing of the
  child, the host, deadlines or callers, so a child that hangs and a host that is silent
  are among the behaviours.
- `renderer`: of the host thread, whose every call and wait has a timeout; of its 30-second
  deadline; and of the owner's stop, since the live host's deadline sets it. Nothing of
  the GPU, which may never complete, or of the window, which may stay minimized.

### Finding

`docs/WORLD_MODEL.md:69` says that only after the journal's commit record is flushed
may the engine report `durable_revision`. `Store::open` adopts a frame whose
footer was written but never flushed and flushes nothing unless there is a torn
tail; the revision it then reports rests on bytes that a kill keeps and a power
loss may not. The run `durable_flush` has the trace: apply, kill between
`WriteFooter` and `FlushFooter`, open. The contract of
`examples/world-crash_recovery.md` (process termination only) is kept.

## What is proved

Each theorem holds for every value of the constants that satisfies its module's named
assumption, where a run shows the same property on one instance. The proof modules follow one
order: what the operators of the model return, the inductive invariant in named parts, one
lemma per action or per group of actions that disturb the same parts, and the theorems.

### The coordinator and what runs over it (`CoordinatorProofs`)

`TypeCorrect`: every reachable state is well typed. The invariant is `TypeOK` strengthened by
two facts the counters need: a staging batch started below the last revision, and outside a
batch nothing is staged. One lemma for each operation says that it returns well-typed
snapshots.

`IssuedOnce`, `StaleForEver`: no batch hands out a handle that an earlier one handed out,
and an issued handle that stopped resolving never resolves again. The invariant orders each
issued handle against its slot: the slot's generation is at least the handle's, in the world
and in the staged copy, and where it is equal the entity is live or the slot retired. It is
needed because the property speaks of names and handles only, while what makes it true is the
generation a deletion leaves in the tombstone.

`HierarchyStaysSound`: no edit, creation or deletion leaves a child whose parent is gone, a
cycle, or a place that is not its parent's composed with its own. A subtree is the least set
that has the root and the children of its members, so "no cycle" is that a parent is not in
its child's subtree; no argument needs to count, and trees of every depth are covered. The
invariant has two halves, the links (`Linked`) and the places (`Seated`), of the world and of
the copy. Reparenting is the step that matters: with the one new link a subtree
grows only by the subtree of the moved entity, and the new parent is refused when it is in
there. That a reparented entity which keeps its place has a local transform that composes to
it is the lemma `ComposeRelative`.

`EditsCarryTheRevision`: the world changes only by a commit, which advances the
revision by one. It stamps that revision on exactly the entities the batch reached, and every
other entity is the one it was. Reached are the entities its operations created or edited, also
to the value they had (`tags.set` and `transform.set` stamp without comparing), and those below
one they transformed or reparented. The code stamps at each pass of `subtree`, in the hierarchy
of that moment; the theorem speaks of the hierarchy that is committed, and so has to show that
links made and cut between two passes make no difference. `Replay` has two history variables
for it, `marked` and `moved`, which record the targets of the batch in progress and which no
guard reads. The invariant (`StampInv`) compares copy and world slot by slot under the present
links; the step that matters is `Relinked`: when only the link of one entity changes, subtrees
differ by nothing but what is below that entity in the end, and the pass that follows the change
stamps just that. A created slot and a deleted entity have no children (`CreatedExactly`,
`DeletedExactly`), for which the soundness of the hierarchy is needed.

`RecordingInStep`: every log that can be exported is complete, in order and ends in the
present world, for every limit and whatever others write. The invariant follows the record
from `prepared` to `records` through the staged batch: while a batch is being staged for the
recorder, its base is the recorder's head.

`UndoRestoresContent`: while the history is current, the world has the content its
cursor stands for, for every capacity, every batch and every mixture with other writers. The
invariant says that each entry's forward operations turn the content before it into the one
after it and its inverse operations turn that one back (`Line`), and that what is left of a
batch leads from the copy to where the whole batch leads from the world (`Calling`). Content
after a list of operations is stated by the last operation that writes each field, so no
induction over the list is needed. Operations apply only to entities without links, which is
what makes an inverse an inverse.

`PagesStayWithTheirQuery`: a page holds the rows its query captured, from where its cursor
stands, never none while there are any, and says rightly whether there are more, whatever others
write and the caller asks in between. The invariant: the snapshot is the newest capture, and a
cursor the session has handed out points into its rows. A lemma that a bounded set of numbers has a
largest member shows that the page's end, a `CHOOSE`, exists.

`ReservationsBalance`, `LedgerInStep`, `CubesStayInRegion`, `OnlyOwnCubesChange`: for every set
of principals, connections and limits, reservations are counted once and given back once;
after every commit and every refused batch the ledger's sponsors, live cubes and
charges describe the World within every limit; no cube is outside the region of the principal
that pays for it; and a commit leaves the cubes of all others as they were. The
invariant is one statement made twice: of the ledger and the World, and, while a batch is staged,
of the guard and the copy, with two additions. A cube not yet placed is the writer's, and a cube the
batch has touched is the writer's too; everything else still is what the World has. Regions of
different principals are disjoint, which turns "in its payer's region" into "not the
writer's". The counts are cardinalities of finite sets of connections and slots.

`RecorderImplementsCoordinator`, `HistoryImplementsCoordinator`, `GuardImplementsCoordinator`:
each of the three has `... => Spec`, so what is proved of the coordinator holds of a world that
is recorded, undone or guarded.

### The Store (`DurableStoreProofs`)

`StoreRecoverable`, `OracleHolds`, `StoreImplementsLog`: for every limit, quota and request, an
existing store can be opened at every moment, a crash is recovered as the oracle says,
and the store with its checkpoint, frames, rename and kills implements `DurableLog`. The
invariant is that what `open` would restore is the top of a chain: the checkpoint and every
whole frame are prefixes of it, the frames' highs end at its high and leave no gap after
the checkpoint's. Every write, flush, rename and truncation keeps the chain; only
the footer of a frame raises its top, by the one entry that was prepared. `Places` and what
memory holds at each place of a call say which of `package` and `prepared` is the top, and
the refinement follows, since `Durable` is the top's entries.

`StoreRecoverable` is `AlwaysRecoverable` whole: what is on disk reads back, and its bytes are
within the quota `open` checks, so that no store shuts itself out. The chain gives the first half.
The second is the invariant `Room`: a frame is written, and a checkpoint replaced, only where
the quota was found to admit it together with all that is there, and what a call has written of
either is never more than it asked for; a torn tail counts and is counted off when it is cut. The
bytes of a journal are a sum over its frames, of which a lemma says what appending, cutting and
rewriting the last frame do to it.

### The two exchanges (`ExchangeProofs`)

`ExecutedAtMostOnce`, `ReceiptsOriginal`, `WatermarkHolds`: for every number of clients,
transactions and renewals, every window and last sequence. An executed key lies below the host's
next one in its epoch, or is the exhausted last, so it is never fresh again (`KeysConsumed`);
an entry of the window is the outcome of an executed transaction (`EntriesAreOutcomes`); a
request in transit has a key of this epoch or an earlier one (`RequestsHaveKeys`); and nothing
a client has read of its epoch is ahead of the host (`ClientsBehind`). The first is what an
eviction or a renewal could break: the window may forget a key, `next` does not.

`NothingAfterResync`, `CertainMeansSeen`: the same for the `resync_only` host, for every backlog,
number of callers and last sequence. It has no receipts to look up, and the order of connections is
the argument: a connection somebody waits for is the one its client sent (`Waited`) and the last of
that client in the backlog (`InOrder`), and credentials only get newer (`Dated`). So when the reads
of a resync are answered, all that its client sent before them has been served or is refused for its
epoch, and the snapshot shows what was committed. `TailOf` and `HeadLeaves` say what serving the
head leaves behind; they serve every way in which the host is done with a connection. An abandoned
request is what the two properties turn on: it stays in the backlog with nobody waiting for it.

### The worker supervisor (`WorkerSupervisorProofs`)

`WritesAreSettled`, `OnlyWantedReachTheWorld`, `CloseLeavesNothing`: for every number of
requests, children and generations. Where the thread of a submission stands says what the client
has pending, whether its request may have left for the host, and that nothing did before it or
will after its answer (`SendersMatch`, `ClientMatches`, `NotSent`); most actions touch none of
it, which is stated once (`Calm`) and used for all of them. The number of running children is
the number of places taken (`Counted`, the cardinality of a finite set), and a closed supervisor
has no request that could still be submitted (`Closing`).

### Clock, hosts, renderer and catalog

`CountersInRange`, `NoTimeLost`, `ClockBehindTime` (`LiveHostProofs`): for every rate,
phase, cap and maximum, no counter passes its maximum, ticks run and dropped and the
remainder are exactly the time given, and the clock is never ahead of it. The
invariant is the books of a call in progress: what is still to run and to drop,
with the remainder to be, is what the accepted time is worth beyond the counted
ticks. It needs one lemma about quotient and remainder; the rest is the arithmetic
of a batch.

`HostDrivesClock`, `HostLosesNoTime`, `PresentedWasPublished`, `AnswersNeverFallBack`
(`LiveHostProofs`): the live host implements the clock, `HostSpec => Spec`, so every step of
its three threads is a step of `SteppedClock` or leaves the stepper alone, and `TimeConserved`
follows for the host from the clock's own theorem. The inductive invariant is the clock's and four facts
about what travels between the threads: the world is level with the publication wherever a
client may be told of it (`Level`), the frame being drawn and the one presented are behind it
(`Behind`), a job is held by the owner or waits (`Holding`), and an answer that has been
made and not yet sent already has what the client was last told (`Telling`). Without
`Level` a read between ticks could answer with a revision that a later `runtime` does not show
yet.

`ClosuresAreSafe`, `FalseMeansNothing`, `PublishedBeforeAck`, `ReadsComeFirst` (`OwnerLoopProofs`): for every
number of workers and leases and every queue limit (also the one of
`agents_main.cpp`), a claimed closure runs only while its worker is in
dispatch, a dispatch that returned false has not executed, and a request is answered
only after a publication of its commit. The invariant says where a job may be: a queued job
is pending, queued once, and its worker waits (`Queued`); a job in the owner's hands
is running, its worker waits, and the owner's program counter allows it to hold one
(`Held`); and it bounds each job's commit by the publication, except the one the owner
holds, which is covered by what it will publish (`Owed`, `Told`). Without `Queued` the
claim could take a job whose waiter has left, without `Owed` finishing a job could
acknowledge a commit that no publication has. `ReadsComeFirst` is about steps, the action property
`ReadsOvertake`: a queue with a read has a first one, and that one can be claimed.

`NothingInFlightDestroyed`, `ReportedHasBeenShown`, `CapturesShowTheirPacket`
(`MediaProofs`): for every set of extents, budgets, numbers of frames and changes, what the
GPU still uses exists, the owner hears only of revisions whose presentation has completed, and a
captured frame shows the packet it is reported with. The invariant ties what is in
flight to the pending flags (`wait_work` clears a flag only after its fence signaled), and
those to the place of the host thread: nothing is pending where something is destroyed. For
captures it adds what the frame being drawn and the copy of it show at each place (`Drawing`).

`DestroyedInOrder`: wherever a construction stopped and however often the swapchain was rebuilt,
each prefix of a destruction leaves nothing alive without what it was made from, and a run that
could wait for the GPU leaves nothing behind and no byte counted. Each object has a place in
the order of construction and in the order of destruction (`UpPlace`, `DownPlace`, and `Place` for
an image's memory and view); the orders are sorted by place (`Sorted`), what an object is made from
has an earlier place in the one and a later one in the other, and so an order may stop
anywhere (`MadeClosed`, `LeftByDestruction`). The invariants are that what is alive has its
parents at every place of the host thread (`Owned`), how a run has ended (`Ended`), and that the
bytes counted are the sum over the memories that exist (`Counted`).

`RootsStored`, `ReportsForetell` (`MediaProofs`): for every set of manifests and
contents and all limits, what a root retains is stored with its content, and a collection
at a report's revision removes exactly what the report lists. The invariant is what the
roots keep (`Kept`) and that a report whose revision is the catalog's speaks of the present
state (`Fresh`): without the latter the property, which compares two moments, would
not follow from one step. A lemma shows that the retained set of `collect` and the
report's rows, which the code computes separately, are the same rule.

`ExportsImport`: whatever was imported and collected, import accepts what export gives. The
invariant `Exportable` is that the blobs are exactly those of the manifests, none missing and none
left over, within the counts and bytes of a bundle; a collection leaves a part of both, and a part
of a set sums to no more than the set.

`SumTheorems` says what a sum over a finite set gains, loses and bounds: that it is a number, splits
in two, loses an element's value with the element, is monotonic, and is the same for functions
that agree on the set. The fold that defines it is recursive, so each would be an induction over the set;
the induction theorems of the library take an operator and cannot be cited here. The
lemmas are proved by a smallest counterexample instead: a set of numbers, the sizes at which
the statement fails, has a least member (`First`), and taking one element away contradicts it.

### Assumptions, and what is only model-checked

All of them rest only on the named assumptions of the modules (`CoordinatorAssumption`,
`ReplayAssumption`, `HistoryAssumption`, `ObserveAssumption`, `PolicyAssumption`,
`DurableStoreAssumption`, `RetryExchangeAssumption`, `ResyncAssumption`, `SupervisorAssumption`,
`FixedStepperAssumption`, `SteppedClockAssumption`, `OwnerLoopAssumption`,
`LiveHostAssumption`, `RendererAssumption`, `CatalogAssumption`: positive limits, elapsed times
that are numbers, `None` distinct from workers and principals, each manifest's content a blob,
the principals' regions apart), which TLC evaluates in the runs.

Every safety invariant and action property of the passing runs is stated by a theorem. Only
model-checked:

- `ReportedIsFlushed`, which the code does not have (the finding);
- the liveness properties `ProcessExits`, `HostExits`, `ThreadsEnd` and
  `RunEnds`: liveness under fairness is beyond this prover.

## Not modelled

The writer lock and the epoch of the Store; the header and body framing of a
connection; the resync-only route of the policy host; JSON, glTF and command parsing, and
the binary formats of bundles, packages and logs; the choice of a device and its formats, the
projection of a packet and the validation callback; `replay::reconstruct`, a sequential loop
over the coordinator's `replay_at_boundary`; the scripted worker and the typed models of
the SDK; the drivers of the examples and the wording of their reports. These are pure
functions of their input or input and output, where a state machine would restate the
code; the Store's lock and the framing are the exceptions and belong to the plan.

A resync that saw its own abandoned request's sequence as the next one
may still see that request executed (reads are exempt from the lease that would
hold it back): `SettledBelowWatermark` is stated for the sequences below.

## Plan

Done: coordinator and its handle theorems, Store, retry exchange, clock, owner loop
with dispatch, cancellation, publication and shutdown, live host over the clock, renderer,
policy ledger and guard, worker supervisor, asset catalog, authoring history, observe session,
replay recorder, legacy control host and client.

1. The Store's writer lock and epoch, with two processes that open one directory.
2. The resync-only route of the policy host beside its retained-retry one, and the framing of
   a connection with its deadlines.
3. Theorems: that the exchange, with its abandoned requests, and the query session each implement
   an observer's view of one log.
