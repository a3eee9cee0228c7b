------------------------------- MODULE Replay -------------------------------
(***************************************************************************)
(* A Recorder beside the coordinator: batches that go through it and       *)
(* commit are recorded with their boundary tick, the handles they created  *)
(* and a checkpoint of the world they left; others may write the same      *)
(* world behind its back.  An exported log is replayed into a fresh world, *)
(* record by record, against the recorded handles and checkpoints.         *)
(* Source: src/src/replay.cpp, and the observer and the bindings of apply  *)
(* in src/src/transactions.cpp.                                            *)
(*                                                                         *)
(* Data abstractions.  A record is its number, its expected revision and   *)
(* its tick; only the last checkpoint is kept.  Sizes of commands and of   *)
(* checkpoints are refusals that may happen: at once, or as the Reject of  *)
(* a staged batch.  marked and moved are history variables: no guard reads *)
(* them; they say what the batch in progress did, for EditsAreStamped.     *)
(***************************************************************************)
EXTENDS Coordinator, Sequences

CONSTANTS
  EntryLimit,   \* entry_limit
  Ticks         \* boundary ticks a batch may be given

ASSUME ReplayAssumption == EntryLimit \in Nat /\ Ticks \subseteq Nat

VARIABLES
  records,      \* the first count_ of records_
  head,         \* head_
  checkpoint,   \* the last record's checkpoint; the initial world before
  prepared,     \* the record of the batch in progress; NoRecord elsewhere
  marked,       \* history: slots of the entities it created or tagged
  moved         \* history: slots of the entities whose transform or parent it set

recorder == <<records, head, checkpoint>>
batch == <<marked, moved>>
replayVars == <<vars, recorder, prepared, batch>>

NoRecord == [sequence |-> 0, expected_revision |-> 0, boundary_tick |-> 0]

\* The Recorder starts beside an empty world at revision zero.
ReplayInit ==
  /\ Init
  /\ records = <<>> /\ head = 0 /\ checkpoint = world
  /\ prepared = NoRecord
  /\ marked = {} /\ moved = {}

\* Recorder::apply_at_boundary, up to the coordinator's copy.
BeginRecorded(expected_world_revision, tick) ==
  /\ world.world_revision = head
  /\ Len(records) < EntryLimit
  /\ Len(records) > 0 => tick >= records[Len(records)].boundary_tick
  /\ Begin(expected_world_revision)
  /\ prepared' = [sequence |-> Len(records) + 1, expected_revision |-> head,
                  boundary_tick |-> tick]
  /\ UNCHANGED <<recorder, batch>>

\* Somebody else applies a batch to the same world.
BeginElsewhere(expected_world_revision) ==
  /\ Begin(expected_world_revision)
  /\ UNCHANGED <<recorder, prepared, batch>>

\* One operation of the batch, and the entity it is about: a deleted one is gone.
Operation ==
  /\ \/ /\ \/ \E n \in TempNames : Create(n) /\ marked' = marked \cup {names'[n].slot}
           \/ \E t \in Targets, tags \in TagSets :
                SetTags(t, tags) /\ marked' = marked \cup {Denotes(t).slot}
        /\ UNCHANGED moved
     \/ /\ \E t \in Targets :
             /\ \/ \E v \in Transforms : SetTransform(t, v)
                \/ \E p \in Targets, mode \in Modes : Reparent(t, p, mode)
                \/ \E mode \in Modes : Unparent(t, mode)
             /\ moved' = moved \cup {Denotes(t).slot}
        /\ UNCHANGED marked
     \/ \E t \in Targets :
          /\ Delete(t)
          /\ marked' = marked \ {Denotes(t).slot} /\ moved' = moved \ {Denotes(t).slot}
  /\ UNCHANGED <<recorder, prepared>>

\* Mutated form of Published: a batch of somebody else is recorded too.
PublishedAlways ==
  /\ records' = Append(records, prepared)
  /\ head' = head + 1
  /\ checkpoint' = world'

\* Observer::publish, after the swap.
Published ==
  IF prepared = NoRecord THEN UNCHANGED recorder
  ELSE /\ records' = Append(records, prepared)
       /\ head' = head + 1
       /\ checkpoint' = world'

EndRecord == prepared' = NoRecord /\ marked' = {} /\ moved' = {}

CommitBatch == Commit /\ Published /\ EndRecord

\* An operation fails, or the checkpoint is over its limit: nothing is recorded.
RejectBatch == Reject /\ EndRecord /\ UNCHANGED recorder

ReplayNext ==
  \/ \E r \in 0 .. MaxRevision, tick \in Ticks : BeginRecorded(r, tick)
  \/ \E r \in 0 .. MaxRevision : BeginElsewhere(r)
  \/ Operation \/ CommitBatch \/ RejectBatch

ReplaySpec == ReplayInit /\ [][ReplayNext]_replayVars

-----------------------------------------------------------------------------
(* Reconstruction                                                          *)

\* export_log hands out the records only while the world is at their end.
Exports == world.world_revision = head

\* What preflight asks of the order of the records.
Preflight(log) ==
  /\ Len(log) <= EntryLimit
  /\ \A i \in DOMAIN log :
       /\ log[i].sequence = i /\ log[i].expected_revision = i - 1
       /\ i > 1 => log[i].boundary_tick >= log[i - 1].boundary_tick

(***************************************************************************)
(* The recording is in step: an exported log is one that preflight         *)
(* accepts, complete, and ends in the world as it is, whatever the guard   *)
(* or the checkpoint refused and whoever else wrote the world.             *)
(***************************************************************************)
ExportsReplay ==
  Exports => Preflight(records) /\ Len(records) = head /\ checkpoint = world

\* What the batch in progress edited: an entity it created or tagged, or one below a
\* moved one in the hierarchy of st.
Below(st, roots) == UNION {Subtree(st, p) : p \in roots}
Reached(st) == marked \cup Below(st, moved)

(***************************************************************************)
(* The world changes only by a commit, which advances its revision by one  *)
(* and stamps that revision on exactly the entities its operations created *)
(* or edited, be it to the value they had, and on those that are below one *)
(* it transformed or reparented in the hierarchy it commits.  Every other  *)
(* entity is the one it was, its stamp included: whatever links the batch  *)
(* made and cut, in whatever order, between two passes of subtree.         *)
(***************************************************************************)
EditsAreStamped ==
  [][world' # world =>
       /\ world'.world_revision = world.world_revision + 1
       /\ \A s \in Slots : world'.slots[s].live =>
            IF s \in Reached(world')
              THEN world'.slots[s].authoring_revision = world'.world_revision
              ELSE world'.slots[s] = world.slots[s]]_replayVars
=============================================================================
