---------------------------- MODULE Coordinator ----------------------------
(***************************************************************************)
(* The transaction coordinator of the authoring world: one owner thread    *)
(* applies a batch of typed operations to a private copy (staged) of the   *)
(* complete snapshot, operation by operation, and either swaps the copy in *)
(* or discards it.  Source: src/src/transactions.cpp, src/src/world.cpp.   *)
(*                                                                         *)
(* Data abstractions.  A slot's UUID is its index.  A transform is a       *)
(* translation in the cyclic group 0..M-1 (so that compose and relative    *)
(* are exact inverses) and the one bit of its scale the code branches on:  *)
(* positive and uniform, or not.  Tags are members of TagSets.             *)
(***************************************************************************)
EXTENDS Integers, FiniteSets

CONSTANTS
  MaxSlots,       \* Snapshot::max_slots
  MaxGeneration,  \* numeric_limits<uint64_t>::max() of Slot::generation
  MaxRevision,    \* numeric_limits<uint64_t>::max() of world_revision
  MaxOperations,  \* operations of one envelope
  TempNames,      \* temporary identifiers a batch may use
  TagSets,        \* the tag lists a request may carry; {} is the empty list
  M               \* order of the translation group

ASSUME CoordinatorAssumption ==
  /\ MaxSlots \in Nat \ {0}
  /\ MaxGeneration \in Nat \ {0}
  /\ MaxRevision \in Nat
  /\ MaxOperations \in Nat \ {0}
  /\ M \in Nat \ {0}
  /\ {} \in TagSets

Slots == 1 .. MaxSlots
Handles == [slot : Slots, generation : 1 .. MaxGeneration]
NoHandle == [slot |-> 0, generation |-> 0]
Targets == [temporary : {FALSE}, handle : Handles]
             \cup [temporary : {TRUE}, name : TempNames]

Transforms == [position : 0 .. M - 1, uniform : BOOLEAN]
Identity == [position |-> 0, uniform |-> TRUE]

SlotRecords ==
  [generation : 0 .. MaxGeneration,      \* 0: not yet appended to slots
   retired    : BOOLEAN,
   live       : BOOLEAN,                 \* slot.entity has a value
   authoring_revision : 0 .. MaxRevision,
   transform  : Transforms,
   parent     : Handles \cup {NoHandle},
   local_transform : Transforms,
   tags       : TagSets]

Snapshots == [world_revision : 0 .. MaxRevision,
              format_version : 1 .. 3,
              slots : [Slots -> SlotRecords]]

VARIABLES
  world,       \* the authoritative Snapshot (World::state_)
  staging,     \* apply() is between the copy and the swap
  staged,      \* the private copy
  names,       \* temporary name -> handle created in this batch, or NoHandle
  applied,     \* operations of the batch applied so far
  issued       \* history: every handle a committed batch ever reported created

vars == <<world, staging, staged, names, applied, issued>>

-----------------------------------------------------------------------------
(* Slots and handles.                                                      *)

Appended(st, s) == st.slots[s].generation > 0
HandleOf(st, s) == [slot |-> s, generation |-> st.slots[s].generation]

Resolves(st, h) ==
  /\ h \in Handles
  /\ ~st.slots[h.slot].retired
  /\ st.slots[h.slot].live
  /\ st.slots[h.slot].generation = h.generation

Denotes(target) == IF target.temporary THEN names[target.name] ELSE target.handle

HasParent(st, s) == st.slots[s].live /\ st.slots[s].parent # NoHandle
ChildOf(st, c, p) == st.slots[c].live /\ st.slots[c].parent = HandleOf(st, p)
HasChildren(st, p) == \E c \in Slots : ChildOf(st, c, p)

(* The entities reached from root by child links: the least set that holds *)
(* root and is closed under children.                                      *)
Subtree(st, root) ==
  {s \in Slots : \A S \in SUBSET Slots :
     (root \in S /\ \A p \in S, c \in Slots : ChildOf(st, c, p) => c \in S) => s \in S}

-----------------------------------------------------------------------------
(* Transforms.                                                             *)

Compose(parent, local) ==
  [position |-> (parent.position + local.position) % M, uniform |-> local.uniform]

Relative(parent, value) ==
  [position |-> (value.position - parent.position) % M, uniform |-> value.uniform]

(* The world transforms subtree() can leave behind once root's is set: each *)
(* descendant composed from its parent's new one, every parent met positive *)
(* and uniform.  Empty when parent_scale rejects.                           *)
Recomputed(st, root) ==
  LET below == Subtree(st, root) \ {root} IN
  {f \in [Slots -> Transforms] : \A s \in Slots :
     IF s \in below
       THEN /\ f[st.slots[s].parent.slot].uniform
            /\ f[s] = Compose(f[st.slots[s].parent.slot], st.slots[s].local_transform)
       ELSE f[s] = st.slots[s].transform}

NextRevision == staged.world_revision + 1

(* Seeded fault: the subtree pass forgets to stamp the descendants. *)
SubtreeOutcomesStampRootOnly(st, root) ==
  {[st EXCEPT !.slots = [s \in Slots |->
      [st.slots[s] EXCEPT !.transform = f[s],
                          !.authoring_revision = IF s = root THEN NextRevision ELSE @]]] :
   f \in Recomputed(st, root)}

SubtreeOutcomes(st, root) ==
  {[st EXCEPT !.slots = [s \in Slots |->
      IF s \in Subtree(st, root)
        THEN [st.slots[s] EXCEPT !.transform = f[s], !.authoring_revision = NextRevision]
        ELSE st.slots[s]]] : f \in Recomputed(st, root)}

-----------------------------------------------------------------------------
(* What each operation makes of the staged snapshot st: the set of its      *)
(* outcomes, empty when the code throws an Error.                           *)

Tombstones(st) == {s \in Slots : Appended(st, s) /\ ~st.slots[s].live /\ ~st.slots[s].retired}
Unappended(st) == {s \in Slots : ~Appended(st, s)}

(* The first reusable tombstone, else the slot to append; none when the     *)
(* capacity is exhausted.                                                   *)
FirstFree(st) ==
  LET free == IF Tombstones(st) # {} THEN Tombstones(st) ELSE Unappended(st)
  IN {s \in free : \A t \in free : s <= t}

Vacant(generation, retired) ==
  [generation |-> generation, retired |-> retired, live |-> FALSE,
   authoring_revision |-> 0, transform |-> Identity, parent |-> NoHandle,
   local_transform |-> Identity, tags |-> {}]

Occupied(generation) ==
  [Vacant(generation, FALSE) EXCEPT !.live = TRUE, !.authoring_revision = NextRevision]

Created(st, s) ==
  {[st EXCEPT !.slots[s] =
      Occupied(IF Appended(st, s) THEN st.slots[s].generation ELSE 1)]}

Transformed(st, h, replacement) ==
  IF \/ ~Resolves(st, h)
     \/ HasChildren(st, h.slot) /\ ~replacement.uniform
  THEN {}
  ELSE LET s == h.slot
           p == st.slots[s].parent.slot
           local == IF HasParent(st, s) THEN Relative(st.slots[p].transform, replacement)
                                        ELSE st.slots[s].local_transform
       IN SubtreeOutcomes([st EXCEPT !.slots[s] =
            [st.slots[s] EXCEPT !.local_transform = local, !.transform = replacement]], s)

Tagged(st, h, tags) ==
  IF ~Resolves(st, h) THEN {}
  ELSE {[st EXCEPT !.slots[h.slot] =
          [st.slots[h.slot] EXCEPT !.tags = tags, !.authoring_revision = NextRevision]]}

Attached(st, s, ph, mode) ==
  LET child == st.slots[s]
      parent == st.slots[ph.slot].transform
      local == IF child.parent # NoHandle THEN child.local_transform ELSE child.transform
      placed == IF mode = "preserve_world"
                  THEN [child EXCEPT !.local_transform = Relative(parent, child.transform)]
                  ELSE [child EXCEPT !.local_transform = local,
                                     !.transform = Compose(parent, local)]
  IN [st EXCEPT !.slots[s] = [placed EXCEPT !.parent = ph]]

Detached(st, s, mode) ==
  LET child == st.slots[s]
      local == IF child.parent # NoHandle THEN child.local_transform ELSE child.transform
  IN [st EXCEPT !.slots[s] =
       [child EXCEPT !.transform = IF mode = "preserve_local" THEN local ELSE child.transform,
                     !.parent = NoHandle, !.local_transform = Identity]]

Reparented(st, h, ph, mode) ==
  IF \/ ~Resolves(st, h)
     \/ ~Resolves(st, ph)
     \/ ph.slot \in Subtree(st, h.slot)
     \/ ~st.slots[ph.slot].transform.uniform
  THEN {}
  ELSE SubtreeOutcomes(Attached(st, h.slot, ph, mode), h.slot)

Unparented(st, h, mode) ==
  IF ~Resolves(st, h) THEN {}
  ELSE SubtreeOutcomes(Detached(st, h.slot, mode), h.slot)

(* Seeded faults: no child check; the tombstone keeps its generation; the   *)
(* last generation is not retired.                                          *)
DeletedOrphaning(st, h) ==
  IF ~Resolves(st, h) THEN {}
  ELSE {[st EXCEPT !.slots[h.slot] =
          IF h.generation = MaxGeneration THEN Vacant(h.generation, TRUE)
                                          ELSE Vacant(h.generation + 1, FALSE)]}

DeletedSameGeneration(st, h) ==
  IF ~Resolves(st, h) \/ HasChildren(st, h.slot) THEN {}
  ELSE {[st EXCEPT !.slots[h.slot] = Vacant(h.generation, FALSE)]}

DeletedNeverRetiring(st, h) ==
  IF ~Resolves(st, h) \/ HasChildren(st, h.slot) THEN {}
  ELSE {[st EXCEPT !.slots[h.slot] =
          Vacant(IF h.generation = MaxGeneration THEN h.generation ELSE h.generation + 1, FALSE)]}

(* slot.entity.reset(), and the next generation, or retirement at the last. *)
Deleted(st, h) ==
  IF ~Resolves(st, h) \/ HasChildren(st, h.slot) THEN {}
  ELSE {[st EXCEPT !.slots[h.slot] =
          IF h.generation = MaxGeneration THEN Vacant(h.generation, TRUE)
                                          ELSE Vacant(h.generation + 1, FALSE)]}

-----------------------------------------------------------------------------
(* The batch.                                                              *)

NoNames == [n \in TempNames |-> NoHandle]

Init ==
  /\ world = [world_revision |-> 0, format_version |-> 1,
              slots |-> [s \in Slots |-> Vacant(0, FALSE)]]
  /\ staging = FALSE
  /\ staged = world
  /\ names = NoNames
  /\ applied = 0
  /\ issued = {}

(* apply() past its checks of the envelope: copy the whole state.  A stale *)
(* expected revision, or a revision at its maximum, is rejected before the *)
(* copy and changes nothing.                                               *)
Begin(expected_world_revision) ==
  /\ ~staging
  /\ expected_world_revision = world.world_revision
  /\ world.world_revision # MaxRevision
  /\ staging' = TRUE
  /\ UNCHANGED <<world, staged, names, applied, issued>>

Stage(outcomes) ==
  /\ staging
  /\ applied < MaxOperations
  /\ staged' \in outcomes
  /\ applied' = applied + 1
  /\ UNCHANGED <<world, staging, issued>>

Create(name) ==
  /\ names[name] = NoHandle
  /\ \E s \in FirstFree(staged) :
       /\ Stage(Created(staged, s))
       /\ names' = [names EXCEPT ![name] = HandleOf(staged', s)]

SetTransform(target, replacement) ==
  /\ Stage(Transformed(staged, Denotes(target), replacement))
  /\ UNCHANGED names

SetTags(target, tags) ==
  /\ Stage(Tagged(staged, Denotes(target), tags))
  /\ UNCHANGED names

Reparent(target, parent, mode) ==
  /\ Stage(Reparented(staged, Denotes(target), Denotes(parent), mode))
  /\ UNCHANGED names

Unparent(target, mode) ==
  /\ Stage(Unparented(staged, Denotes(target), mode))
  /\ UNCHANGED names

Delete(target) ==
  /\ Stage(Deleted(staged, Denotes(target)))
  /\ UNCHANGED names

FormatOf(slots) ==
  IF \E s \in Slots : slots[s].live /\ slots[s].tags # {} THEN 3
  ELSE IF \E s \in Slots : slots[s].live /\ slots[s].parent # NoHandle THEN 2
  ELSE 1

EndBatch ==
  /\ staging' = FALSE
  /\ staged' = world'
  /\ names' = NoNames
  /\ applied' = 0

(* Every operation succeeded: stamp the copy and swap it in. *)
Commit ==
  /\ staging
  /\ applied > 0
  /\ world' = [staged EXCEPT !.world_revision = NextRevision,
                             !.format_version = FormatOf(staged.slots)]
  /\ issued' = issued \cup {names[n] : n \in {m \in TempNames : names[m] # NoHandle}}
  /\ EndBatch

(* Some operation, the guard or the observer threw: drop the copy.  From    *)
(* any staged state some operation does (one on an unknown UUID, say).      *)
Reject ==
  /\ staging
  /\ UNCHANGED <<world, issued>>
  /\ EndBatch

Modes == {"preserve_world", "preserve_local"}

Next ==
  \/ \E r \in 0 .. MaxRevision : Begin(r)
  \/ \E n \in TempNames : Create(n)
  \/ \E t \in Targets, v \in Transforms : SetTransform(t, v)
  \/ \E t \in Targets, tags \in TagSets : SetTags(t, tags)
  \/ \E t, p \in Targets, mode \in Modes : Reparent(t, p, mode)
  \/ \E t \in Targets, mode \in Modes : Unparent(t, mode)
  \/ \E t \in Targets : Delete(t)
  \/ Commit
  \/ Reject

Spec == Init /\ [][Next]_vars

-----------------------------------------------------------------------------
(* Properties.                                                             *)

(* Every variable has its type, in particular no counter passes its bound. *)
TypeOK ==
  /\ world \in Snapshots
  /\ staging \in BOOLEAN
  /\ staged \in Snapshots
  /\ names \in [TempNames -> Handles \cup {NoHandle}]
  /\ applied \in 0 .. MaxOperations
  /\ issued \in SUBSET Handles

(* The hierarchy of a snapshot: each parent link names a live entity of the *)
(* same generation, links form no cycle, a parent's scale is positive and   *)
(* uniform, and the cached world transform is the parent's composed with    *)
(* the local one.  No delete, reparent or subtree pass may break it, within *)
(* a batch or across batches.                                               *)
Sound(st) ==
  \A s \in Slots : HasParent(st, s) =>
    LET parent == st.slots[s].parent IN
    /\ Resolves(st, parent)
    /\ parent.slot \notin Subtree(st, s)
    /\ st.slots[parent.slot].transform.uniform
    /\ st.slots[s].transform
         = Compose(st.slots[parent.slot].transform, st.slots[s].local_transform)

HierarchySound == Sound(world) /\ Sound(staged)

(* A batch never hands out a handle that an earlier batch handed out, even  *)
(* when it deletes and reuses the slot several times: generation reuse and  *)
(* retirement in create and delete.                                         *)
CreatedHandlesAreNew == \A n \in TempNames : names[n] \notin issued

(* Once an issued handle stops resolving it never resolves again, whatever  *)
(* is created in its slot later (resolve, STALE_HANDLE).                    *)
DeadHandlesStayDead ==
  [][\A h \in issued : ~Resolves(world, h) => ~Resolves(world', h)]_vars

(* What a client authors of an entity, its stamp apart. *)
Authored(slot) == <<slot.generation, slot.live, slot.transform, slot.parent,
                    slot.local_transform, slot.tags>>

=============================================================================
