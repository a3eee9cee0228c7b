------------------------- MODULE CoordinatorProofs -------------------------
(***************************************************************************)
(* Proofs about Coordinator, for every value of its constants: its types;  *)
(* the safety of handles (none is issued twice, and one that stopped       *)
(* resolving never resolves again); and the hierarchy, which no operation  *)
(* breaks.  Then the components around the coordinator.  Three run its     *)
(* steps with steps of their own: the recorder, which stays in step with   *)
(* the world for every mixture of recorded batches, rejected ones and      *)
(* batches of others, and whose history of a batch says which entities its *)
(* commit stamps; the authoring history, whose undo and redo restore; and  *)
(* the policy guard, whose ledger and regions every batch of every         *)
(* principal respects.  All three implement the coordinator, so that its   *)
(* theorems hold of the world they write.  The query session only reads    *)
(* the world that others write.                                            *)
(***************************************************************************)
EXTENDS Replay, History, ObserveSession, PolicyGuard, FiniteSetTheorems, TLAPS

USE CoordinatorAssumption

-----------------------------------------------------------------------------
(* Values and outcomes of the operations.                                  *)

(* Identity, composed and relative transforms, and handles stay in their sets. *)
LEMMA Values ==
  /\ Identity \in Transforms
  /\ NoHandle \notin Handles
  /\ \A p, l \in Transforms : Compose(p, l) \in Transforms /\ Relative(p, l) \in Transforms
  /\ \A h \in Handles : h.slot \in Slots /\ h.generation \in 1 .. MaxGeneration
  BY DEF Identity, Transforms, NoHandle, Handles, Slots, Compose, Relative

(* Vacant slots, fresh or retired, are slot records. *)
LEMMA VacantType ==
  ASSUME NEW g \in 0 .. MaxGeneration
  PROVE  Vacant(g, FALSE) \in SlotRecords /\ Vacant(g, TRUE) \in SlotRecords
  BY Values DEF Vacant, SlotRecords

(* A slot create fills is a slot record. *)
LEMMA OccupiedType ==
  ASSUME NEW g \in 0 .. MaxGeneration, NextRevision \in 0 .. MaxRevision
  PROVE  Occupied(g) \in SlotRecords
  BY VacantType DEF Occupied, Vacant, SlotRecords

(* Replacing one slot record of a snapshot leaves a snapshot. *)
LEMMA SlotUpdate ==
  ASSUME NEW st \in Snapshots, NEW s \in Slots, NEW r \in SlotRecords
  PROVE  /\ [st EXCEPT !.slots[s] = r] \in Snapshots
         /\ [st EXCEPT !.slots[s] = r].world_revision = st.world_revision
         /\ [st EXCEPT !.slots[s] = r].slots = [st.slots EXCEPT ![s] = r]
  BY DEF Snapshots

(* Replacing one slot's record. *)
LEMMA OneSlot ==
  ASSUME NEW st \in Snapshots, NEW c \in Slots, NEW r \in SlotRecords
  PROVE  LET st1 == [st EXCEPT !.slots[c] = r] IN
         /\ st1 \in Snapshots
         /\ st1.slots[c] = r
         /\ \A s \in Slots \ {c} : st1.slots[s] = st.slots[s]
  BY DEF Snapshots

(* What handles resolve to is untouched. *)
SameIdentities(st, st2) ==
  \A s \in Slots : /\ st2.slots[s].generation = st.slots[s].generation
                   /\ st2.slots[s].retired = st.slots[s].retired
                   /\ st2.slots[s].live = st.slots[s].live

Edited(st, st2) ==
  /\ st2 \in Snapshots
  /\ st2.world_revision = st.world_revision
  /\ SameIdentities(st, st2)

(* The subtree pass changes transforms and stamps, nothing a handle resolves by. *)
LEMMA SubtreeEdits ==
  ASSUME NEW st \in Snapshots, NEW root \in Slots, NextRevision \in 0 .. MaxRevision,
         NEW st2 \in SubtreeOutcomes(st, root)
  PROVE  Edited(st, st2)
  <1>1. PICK f \in [Slots -> Transforms] :
          st2 = [st EXCEPT !.slots = [s \in Slots |->
                  IF s \in Subtree(st, root)
                    THEN [st.slots[s] EXCEPT !.transform = f[s],
                                             !.authoring_revision = NextRevision]
                    ELSE st.slots[s]]]
    BY DEF SubtreeOutcomes, Recomputed
  <1>2. \A s \in Slots : st.slots[s] \in SlotRecords
    BY DEF Snapshots
  <1>3. \A s \in Slots :
          /\ [st.slots[s] EXCEPT !.transform = f[s], !.authoring_revision = NextRevision]
               \in SlotRecords
          /\ [st.slots[s] EXCEPT !.transform = f[s], !.authoring_revision = NextRevision].generation
               = st.slots[s].generation
          /\ [st.slots[s] EXCEPT !.transform = f[s], !.authoring_revision = NextRevision].live
               = st.slots[s].live
          /\ [st.slots[s] EXCEPT !.transform = f[s], !.authoring_revision = NextRevision].retired
               = st.slots[s].retired
    BY <1>2 DEF SlotRecords
  <1> QED BY <1>1, <1>2, <1>3 DEF Snapshots, Edited, SameIdentities

(* An edit of one slot's attributes followed by the subtree pass. *)
LEMMA RecordEdits ==
  ASSUME NEW st \in Snapshots, NEW s \in Slots, NEW r \in SlotRecords,
         r.generation = st.slots[s].generation, r.live = st.slots[s].live,
         r.retired = st.slots[s].retired
  PROVE  Edited(st, [st EXCEPT !.slots[s] = r])
  BY SlotUpdate DEF Edited, SameIdentities, Snapshots

(* Edits in sequence are an edit. *)
LEMMA EditsCompose ==
  ASSUME NEW a, NEW b, NEW c, Edited(a, b), Edited(b, c)
  PROVE  Edited(a, c)
  BY DEF Edited, SameIdentities

(* A subtree holds its root, and is closed under children. *)
LEMMA SubtreeClosed ==
  ASSUME NEW st, NEW root \in Slots
  PROVE  /\ Subtree(st, root) \subseteq Slots /\ root \in Subtree(st, root)
         /\ \A p \in Subtree(st, root), c \in Slots : ChildOf(st, c, p) => c \in Subtree(st, root)
  BY DEF Subtree

(* It is the least such set. *)
LEMMA SubtreeLeast ==
  ASSUME NEW st, NEW root \in Slots, NEW S \in SUBSET Slots, root \in S,
         \A p \in S, c \in Slots : ChildOf(st, c, p) => c \in S
  PROVE  Subtree(st, root) \subseteq S
  BY DEF Subtree

(* With fewer links a subtree only shrinks. *)
LEMMA SubtreeShrinks ==
  ASSUME NEW st, NEW st2, NEW root \in Slots,
         \A c, p \in Slots : ChildOf(st2, c, p) => ChildOf(st, c, p)
  PROVE  Subtree(st2, root) \subseteq Subtree(st, root)
  BY SubtreeClosed, SubtreeLeast

(* What the links of a snapshot depend on. *)
SameLinks(st, st2) ==
  \A s \in Slots : /\ st2.slots[s].live = st.slots[s].live
                   /\ st2.slots[s].retired = st.slots[s].retired
                   /\ st2.slots[s].generation = st.slots[s].generation
                   /\ st2.slots[s].parent = st.slots[s].parent

(* The records of S carry the revision to come, the others are as they were. *)
StampsOnly(st, st2, S) ==
  \A s \in Slots : IF s \in S THEN st2.slots[s].authoring_revision = NextRevision
                              ELSE st2.slots[s] = st.slots[s]

(* An operation that places c stamps what is below it in the end, and leaves *)
(* the links of the others.                                                 *)
Places(st, st2, c) ==
  /\ StampsOnly(st, st2, Subtree(st2, c))
  /\ \A s \in Slots \ {c} : st2.slots[s].parent = st.slots[s].parent

(* A change of one record with the pass behind it places that record. *)
LEMMA PassPlaces ==
  ASSUME NEW st \in Snapshots, NextRevision \in 0 .. MaxRevision, NEW c \in Slots,
         NEW r \in SlotRecords, NEW st2 \in SubtreeOutcomes([st EXCEPT !.slots[c] = r], c)
  PROVE  Places(st, st2, c)
  <1> DEFINE st1 == [st EXCEPT !.slots[c] = r]
  <1>1. st1 \in Snapshots /\ \A q \in Slots \ {c} : st1.slots[q] = st.slots[q]
    BY OneSlot
  <1> HIDE DEF st1
  <1>2. PICK f \in [Slots -> Transforms] :
          st2 = [st1 EXCEPT !.slots = [q \in Slots |->
                  IF q \in Subtree(st1, c)
                    THEN [st1.slots[q] EXCEPT !.transform = f[q],
                                              !.authoring_revision = NextRevision]
                    ELSE st1.slots[q]]]
    BY DEF SubtreeOutcomes, Recomputed, st1
  <1>3. \A q \in Slots : st1.slots[q] \in SlotRecords
    BY <1>1 DEF Snapshots
  <1>4. ASSUME NEW q \in Slots
        PROVE  /\ st2.slots[q].live = st1.slots[q].live
               /\ st2.slots[q].generation = st1.slots[q].generation
               /\ st2.slots[q].parent = st1.slots[q].parent
               /\ q \in Subtree(st1, c) => st2.slots[q].authoring_revision = NextRevision
               /\ q \notin Subtree(st1, c) => st2.slots[q] = st1.slots[q]
    <2>1. st2.slots[q] = IF q \in Subtree(st1, c)
                           THEN [st1.slots[q] EXCEPT !.transform = f[q],
                                                     !.authoring_revision = NextRevision]
                           ELSE st1.slots[q]
      BY <1>1, <1>2 DEF Snapshots
    <2> QED BY <1>3, <2>1 DEF SlotRecords
  <1>5. \A a, b \in Slots : ChildOf(st2, a, b) <=> ChildOf(st1, a, b)
    BY <1>4 DEF ChildOf, HandleOf
  <1>6. Subtree(st2, c) \subseteq Subtree(st1, c) /\ Subtree(st1, c) \subseteq Subtree(st2, c)
    BY <1>5, SubtreeShrinks
  <1>7. StampsOnly(st, st2, Subtree(st2, c))
    BY <1>1, <1>4, <1>6, SubtreeClosed DEF StampsOnly
  <1> QED BY <1>1, <1>4, <1>7 DEF Places

(* An attribute edit and the subtree pass behind it, as transform and reparent do. *)
LEMMA EditThenSubtree ==
  ASSUME NEW st \in Snapshots, NextRevision \in 0 .. MaxRevision,
         NEW s \in Slots, NEW r \in SlotRecords,
         r.generation = st.slots[s].generation, r.live = st.slots[s].live,
         r.retired = st.slots[s].retired,
         NEW st2 \in SubtreeOutcomes([st EXCEPT !.slots[s] = r], s)
  PROVE  Edited(st, st2) /\ Places(st, st2, s)
  <1>1. Edited(st, [st EXCEPT !.slots[s] = r])
    BY RecordEdits
  <1>2. [st EXCEPT !.slots[s] = r] \in Snapshots
    BY <1>1 DEF Edited
  <1>3. Edited([st EXCEPT !.slots[s] = r], st2)
    BY <1>2, SubtreeEdits
  <1> QED BY <1>1, <1>3, EditsCompose, PassPlaces

(* transform.set is an edit. *)
LEMMA TransformedEdits ==
  ASSUME NEW st \in Snapshots, NextRevision \in 0 .. MaxRevision,
         NEW h, NEW v \in Transforms, NEW st2 \in Transformed(st, h, v)
  PROVE  Edited(st, st2) /\ Places(st, st2, h.slot)
  <1>1. h \in Handles /\ h.slot \in Slots
    BY Values DEF Transformed, Resolves
  <1> DEFINE s == h.slot
             p == st.slots[s].parent.slot
             local == IF HasParent(st, s) THEN Relative(st.slots[p].transform, v)
                                          ELSE st.slots[s].local_transform
             r == [st.slots[s] EXCEPT !.local_transform = local, !.transform = v]
  <1>2. st.slots[s] \in SlotRecords
    BY <1>1 DEF Snapshots
  <1>3. local \in Transforms
    <2>1. CASE HasParent(st, s)
      <3>1. st.slots[s].parent \in Handles
        BY <1>2, <2>1 DEF HasParent, SlotRecords
      <3>2. st.slots[p] \in SlotRecords
        BY <3>1, Values DEF Snapshots
      <3> QED BY <2>1, <3>2, Values DEF SlotRecords
    <2>2. CASE ~HasParent(st, s)
      BY <1>2, <2>2 DEF SlotRecords
    <2> QED BY <2>1, <2>2
  <1>4. r \in SlotRecords /\ r.generation = st.slots[s].generation
          /\ r.live = st.slots[s].live /\ r.retired = st.slots[s].retired
    BY <1>2, <1>3 DEF SlotRecords
  <1>5. st2 \in SubtreeOutcomes([st EXCEPT !.slots[s] = r], s)
    BY DEF Transformed
  <1> HIDE DEF r
  <1> QED BY <1>1, <1>4, <1>5, EditThenSubtree

(* tags.set is an edit. *)
LEMMA TaggedEdits ==
  ASSUME NEW st \in Snapshots, NextRevision \in 0 .. MaxRevision,
         NEW h, NEW tags \in TagSets, NEW st2 \in Tagged(st, h, tags)
  PROVE  Edited(st, st2) /\ StampsOnly(st, st2, {h.slot}) /\ SameLinks(st, st2)
  <1>1. h \in Handles /\ h.slot \in Slots
    BY Values DEF Tagged, Resolves
  <1> DEFINE r == [st.slots[h.slot] EXCEPT !.tags = tags, !.authoring_revision = NextRevision]
  <1>2. r \in SlotRecords /\ r.generation = st.slots[h.slot].generation
          /\ r.live = st.slots[h.slot].live /\ r.retired = st.slots[h.slot].retired
          /\ r.parent = st.slots[h.slot].parent
          /\ r.authoring_revision = NextRevision
    <2>1. PICK e \in SlotRecords : e = st.slots[h.slot]
      BY <1>1 DEF Snapshots
    <2>2. PICK n \in 0 .. MaxRevision : n = NextRevision
      OBVIOUS
    <2>3. r = [e EXCEPT !.tags = tags, !.authoring_revision = n]
      BY <2>1, <2>2
    <2> HIDE DEF r
    <2> QED BY ONLY <2>1, <2>2, <2>3, tags \in TagSets DEF SlotRecords
  <1>3. st2 = [st EXCEPT !.slots[h.slot] = r]
    BY DEF Tagged
  <1> HIDE DEF r
  <1>4. st2.slots[h.slot] = r /\ \A q \in Slots \ {h.slot} : st2.slots[q] = st.slots[q]
    BY <1>1, <1>2, <1>3, OneSlot
  <1>5. StampsOnly(st, st2, {h.slot}) /\ SameLinks(st, st2)
    BY <1>1, <1>2, <1>4 DEF StampsOnly, SameLinks
  <1> QED BY <1>1, <1>2, <1>3, <1>5, RecordEdits

(* reparent to a parent is an edit. *)
LEMMA ReparentedEdits ==
  ASSUME NEW st \in Snapshots, NextRevision \in 0 .. MaxRevision,
         NEW h, NEW ph, NEW mode, NEW st2 \in Reparented(st, h, ph, mode)
  PROVE  Edited(st, st2) /\ Places(st, st2, h.slot)
  <1>1. h \in Handles /\ h.slot \in Slots /\ ph \in Handles /\ ph.slot \in Slots
    BY Values DEF Reparented, Resolves
  <1> DEFINE child == st.slots[h.slot]
             parent == st.slots[ph.slot].transform
             local == IF child.parent # NoHandle THEN child.local_transform ELSE child.transform
             placed == IF mode = "preserve_world"
                         THEN [child EXCEPT !.local_transform = Relative(parent, child.transform)]
                         ELSE [child EXCEPT !.local_transform = local,
                                            !.transform = Compose(parent, local)]
             r == [placed EXCEPT !.parent = ph]
  <1>2. child \in SlotRecords /\ parent \in Transforms /\ local \in Transforms
          /\ child.transform \in Transforms
    BY <1>1 DEF Snapshots, SlotRecords
  <1>3. Relative(parent, child.transform) \in Transforms /\ Compose(parent, local) \in Transforms
    BY <1>2, Values
  <1>4. placed \in SlotRecords /\ placed.generation = child.generation
          /\ placed.live = child.live /\ placed.retired = child.retired
    BY <1>2, <1>3 DEF SlotRecords
  <1> HIDE DEF placed
  <1>5. r \in SlotRecords /\ r.generation = child.generation
          /\ r.live = child.live /\ r.retired = child.retired
    BY <1>1, <1>4 DEF SlotRecords
  <1> USE DEF placed
  <1>6. st2 \in SubtreeOutcomes([st EXCEPT !.slots[h.slot] = r], h.slot)
    BY DEF Reparented, Attached
  <1> HIDE DEF r
  <1> QED BY <1>1, <1>5, <1>6, EditThenSubtree

(* reparent to no parent is an edit. *)
LEMMA UnparentedEdits ==
  ASSUME NEW st \in Snapshots, NextRevision \in 0 .. MaxRevision,
         NEW h, NEW mode, NEW st2 \in Unparented(st, h, mode)
  PROVE  Edited(st, st2) /\ Places(st, st2, h.slot)
  <1>1. h \in Handles /\ h.slot \in Slots
    BY Values DEF Unparented, Resolves
  <1> DEFINE child == st.slots[h.slot]
             local == IF child.parent # NoHandle THEN child.local_transform ELSE child.transform
             r == [child EXCEPT !.transform = IF mode = "preserve_local" THEN local
                                                                        ELSE child.transform,
                                !.parent = NoHandle, !.local_transform = Identity]
  <1>2. child \in SlotRecords /\ local \in Transforms
    BY <1>1 DEF Snapshots, SlotRecords
  <1>3. r \in SlotRecords /\ r.generation = child.generation
          /\ r.live = child.live /\ r.retired = child.retired
    BY <1>2, Values DEF SlotRecords
  <1>4. st2 \in SubtreeOutcomes([st EXCEPT !.slots[h.slot] = r], h.slot)
    BY DEF Unparented, Detached
  <1> HIDE DEF r
  <1> QED BY <1>1, <1>3, <1>4, EditThenSubtree

(* create takes a slot that was never used, or a tombstone that may be reused. *)
LEMMA FirstFreeVacant ==
  ASSUME NEW st \in Snapshots, NEW s \in FirstFree(st)
  PROVE  /\ s \in Slots
         /\ \/ st.slots[s].generation = 0
            \/ st.slots[s].generation > 0 /\ ~st.slots[s].live /\ ~st.slots[s].retired
  <1>1. s \in Tombstones(st) \/ s \in Unappended(st)
    BY DEF FirstFree
  <1>2. s \in Slots
    BY <1>1 DEF Tombstones, Unappended
  <1>3. st.slots[s].generation \in 0 .. MaxGeneration
    BY <1>2 DEF Snapshots, SlotRecords
  <1> QED BY <1>1, <1>2, <1>3 DEF Tombstones, Unappended, Appended

(* The identity part of creation and deletion. *)
NewGeneration(st, s) == IF st.slots[s].generation > 0 THEN st.slots[s].generation ELSE 1

(* What create does to generations and liveness: its slot alone changes. *)
LEMMA CreatedIdentity ==
  ASSUME NEW st \in Snapshots, NextRevision \in 0 .. MaxRevision,
         NEW s \in Slots, NEW st2 \in Created(st, s)
  PROVE  /\ st2 \in Snapshots
         /\ st2.world_revision = st.world_revision
         /\ st2.slots[s].generation = NewGeneration(st, s)
         /\ NewGeneration(st, s) \in 1 .. MaxGeneration
         /\ st2.slots[s].live /\ ~st2.slots[s].retired
         /\ \A q \in Slots \ {s} : st2.slots[q] = st.slots[q]
  <1> DEFINE g == NewGeneration(st, s)
  <1>1. g \in 1 .. MaxGeneration
    BY DEF NewGeneration, Snapshots, SlotRecords
  <1>2. st2 = [st EXCEPT !.slots[s] = Occupied(g)]
    BY DEF Created, NewGeneration, Appended
  <1>3. Occupied(g) \in SlotRecords
    BY <1>1, OccupiedType
  <1>4. Occupied(g).generation = g /\ Occupied(g).live /\ ~Occupied(g).retired
    BY DEF Occupied, Vacant
  <1> HIDE DEF g
  <1>5. st2 \in Snapshots /\ st2.world_revision = st.world_revision
          /\ st2.slots = [st.slots EXCEPT ![s] = Occupied(g)]
    BY <1>2, <1>3, SlotUpdate
  <1>6. st.slots \in [Slots -> SlotRecords]
    BY DEF Snapshots
  <1>7. st2.slots[s] = Occupied(g) /\ \A q \in Slots \ {s} : st2.slots[q] = st.slots[q]
    BY <1>5, <1>6
  <1> QED BY <1>1, <1>4, <1>5, <1>7 DEF g

(* What delete does to generations and liveness: its slot alone changes. *)
LEMMA DeletedIdentity ==
  ASSUME NEW st \in Snapshots, NEW h, NEW st2 \in Deleted(st, h)
  PROVE  /\ h \in Handles
         /\ st2 \in Snapshots
         /\ st2.world_revision = st.world_revision
         /\ ~st2.slots[h.slot].live
         /\ \/ st2.slots[h.slot].generation = st.slots[h.slot].generation + 1
            \/ /\ st2.slots[h.slot].generation = st.slots[h.slot].generation
               /\ st2.slots[h.slot].retired
         /\ \A q \in Slots \ {h.slot} : st2.slots[q] = st.slots[q]
  <1>1. h \in Handles /\ h.slot \in Slots /\ h.generation \in 1 .. MaxGeneration
          /\ st.slots[h.slot].generation = h.generation
    BY Values DEF Deleted, Resolves
  <1> DEFINE v == IF h.generation = MaxGeneration THEN Vacant(h.generation, TRUE)
                                                  ELSE Vacant(h.generation + 1, FALSE)
  <1>2. v \in SlotRecords
    <2>1. CASE h.generation = MaxGeneration
      <3>1. h.generation \in 0 .. MaxGeneration
        BY <1>1
      <3> QED BY <2>1, <3>1, VacantType
    <2>2. CASE h.generation # MaxGeneration
      <3>1. h.generation + 1 \in 0 .. MaxGeneration
        BY <1>1, <2>2
      <3> QED BY <2>2, <3>1, VacantType
    <2> QED BY <2>1, <2>2
  <1>3. ~v.live /\ \/ v.generation = h.generation + 1
                   \/ v.generation = h.generation /\ v.retired
    BY DEF Vacant
  <1>4. st2 = [st EXCEPT !.slots[h.slot] = v]
    BY DEF Deleted
  <1> HIDE DEF v
  <1>5. st2 \in Snapshots /\ st2.world_revision = st.world_revision
          /\ st2.slots = [st.slots EXCEPT ![h.slot] = v]
    BY <1>1, <1>2, <1>4, SlotUpdate
  <1>6. st.slots \in [Slots -> SlotRecords]
    BY DEF Snapshots
  <1>7. st2.slots[h.slot] = v /\ \A q \in Slots \ {h.slot} : st2.slots[q] = st.slots[q]
    BY <1>1, <1>5, <1>6
  <1> QED BY <1>1, <1>3, <1>5, <1>7

-----------------------------------------------------------------------------
(* Type correctness.                                                       *)

Headroom == staging => staged.world_revision < MaxRevision
Settled == ~staging => staged = world

TypeInv == TypeOK /\ Headroom /\ Settled

(* The handle of a used slot is a handle. *)
LEMMA HandlesOf ==
  ASSUME NEW st \in Snapshots, NEW s \in Slots, st.slots[s].generation > 0
  PROVE  HandleOf(st, s) \in Handles
  BY DEF HandleOf, Handles, Snapshots, SlotRecords

(* The revision a commit would write exists while a batch stages. *)
LEMMA NextRevisionBound ==
  ASSUME TypeInv, staging
  PROVE  NextRevision \in 1 .. MaxRevision
  BY DEF TypeInv, Headroom, TypeOK, Snapshots, NextRevision

(* A staged operation: what is left to show is what it makes of the copy. *)
LEMMA StageStep ==
  ASSUME TypeInv, NEW outcomes, Stage(outcomes),
         staged' \in Snapshots, staged'.world_revision = staged.world_revision,
         names' \in [TempNames -> Handles \cup {NoHandle}]
  PROVE  TypeInv'
  BY DEF Stage, TypeInv, TypeOK, Headroom, Settled

(* A staged edit keeps the type invariant. *)
LEMMA EditStep ==
  ASSUME TypeInv, NEW outcomes, Stage(outcomes), UNCHANGED names,
         Edited(staged, staged')
  PROVE  TypeInv'
  <1>1. names' \in [TempNames -> Handles \cup {NoHandle}]
    BY DEF TypeInv, TypeOK
  <1> QED BY <1>1, StageStep DEF Edited

(* The four editing operations are staged edits. *)
LEMMA EditActions ==
  ASSUME TypeInv,
         \/ \E t \in Targets, v \in Transforms : SetTransform(t, v)
         \/ \E t \in Targets, tags \in TagSets : SetTags(t, tags)
         \/ \E t, p \in Targets, mode \in Modes : Reparent(t, p, mode)
         \/ \E t \in Targets, mode \in Modes : Unparent(t, mode)
  PROVE  /\ Edited(staged, staged')
         /\ UNCHANGED <<world, staging, names, issued>>
         /\ staging
         /\ TypeInv'
  <1> USE DEF Stage
  <1>1. staged \in Snapshots
    BY DEF TypeInv, TypeOK
  <1>2. staging
    BY DEF SetTransform, SetTags, Reparent, Unparent
  <1>3. NextRevision \in 0 .. MaxRevision
    BY <1>2, NextRevisionBound
  <1>4. CASE \E t \in Targets, v \in Transforms : SetTransform(t, v)
    BY <1>1, <1>3, <1>4, TransformedEdits, EditStep DEF SetTransform
  <1>5. CASE \E t \in Targets, tags \in TagSets : SetTags(t, tags)
    BY <1>1, <1>3, <1>5, TaggedEdits, EditStep DEF SetTags
  <1>6. CASE \E t, p \in Targets, mode \in Modes : Reparent(t, p, mode)
    BY <1>1, <1>3, <1>6, ReparentedEdits, EditStep DEF Reparent
  <1>7. CASE \E t \in Targets, mode \in Modes : Unparent(t, mode)
    BY <1>1, <1>3, <1>7, UnparentedEdits, EditStep DEF Unparent
  <1> QED BY <1>4, <1>5, <1>6, <1>7

(* create keeps the type invariant. *)
LEMMA CreateType ==
  ASSUME TypeInv, NEW n \in TempNames, Create(n)
  PROVE  TypeInv'
  <1>1. PICK s \in FirstFree(staged) :
          Stage(Created(staged, s)) /\ names' = [names EXCEPT ![n] = HandleOf(staged', s)]
    BY DEF Create
  <1>2. staging /\ staged' \in Created(staged, s) /\ staged \in Snapshots
    BY <1>1 DEF Stage, TypeInv, TypeOK
  <1>3. s \in Slots /\ NextRevision \in 0 .. MaxRevision
    BY <1>2, FirstFreeVacant, NextRevisionBound
  <1>4. /\ staged' \in Snapshots /\ staged'.world_revision = staged.world_revision
        /\ staged'.slots[s].generation > 0
    BY <1>2, <1>3, CreatedIdentity
  <1>5. HandleOf(staged', s) \in Handles
    BY <1>3, <1>4, HandlesOf
  <1>6. names' \in [TempNames -> Handles \cup {NoHandle}]
    BY <1>1, <1>5 DEF TypeInv, TypeOK
  <1> QED BY <1>1, <1>4, <1>6, StageStep

(* delete keeps the type invariant. *)
LEMMA DeleteType ==
  ASSUME TypeInv, NEW t \in Targets, Delete(t)
  PROVE  TypeInv'
  <1>1. /\ staged' \in Deleted(staged, Denotes(t)) /\ staged \in Snapshots
        /\ names' \in [TempNames -> Handles \cup {NoHandle}]
    BY DEF Delete, Stage, TypeInv, TypeOK
  <1>2. staged' \in Snapshots /\ staged'.world_revision = staged.world_revision
    BY <1>1, DeletedIdentity
  <1> QED BY <1>1, <1>2, StageStep DEF Delete

(* A batch that ends, either way, leaves nothing staged. *)
LEMMA EndBatchType ==
  ASSUME EndBatch, world' \in Snapshots, issued' \in SUBSET Handles
  PROVE  TypeInv'
  <1>1. /\ staging' = FALSE
        /\ staged' = world'
        /\ names' \in [TempNames -> Handles \cup {NoHandle}]
        /\ applied' \in 0 .. MaxOperations
    BY DEF EndBatch, NoNames
  <1>2. TypeOK'
    BY <1>1 DEF TypeOK
  <1> QED BY <1>1, <1>2 DEF TypeInv, Headroom, Settled

(* The swap installs the stamped staging copy. *)
LEMMA CommitType ==
  ASSUME TypeInv, Commit
  PROVE  TypeInv'
  <1>1. NextRevision \in 1 .. MaxRevision
    BY NextRevisionBound DEF Commit
  <1>2. FormatOf(staged.slots) \in 1 .. 3
    BY DEF FormatOf
  <1>3. staged \in Snapshots
    BY DEF TypeInv, TypeOK
  <1>4. world' = [staged EXCEPT !.world_revision = NextRevision,
                                !.format_version = FormatOf(staged.slots)]
    BY DEF Commit
  <1>5. world' \in Snapshots
    <2>1. NextRevision \in 0 .. MaxRevision
      BY <1>1
    <2> DEFINE r == NextRevision
               f == FormatOf(staged.slots)
    <2>2. r \in 0 .. MaxRevision /\ f \in 1 .. 3
      BY <2>1, <1>2
    <2>3. world' = [staged EXCEPT !.world_revision = r, !.format_version = f]
      BY <1>4
    <2> HIDE DEF r, f
    <2> QED BY <1>3, <2>2, <2>3 DEF Snapshots
  <1>6. issued' \in SUBSET Handles
    BY DEF Commit, TypeInv, TypeOK
  <1> QED BY <1>5, <1>6, EndBatchType DEF Commit

(* A new World satisfies the type invariant. *)
LEMMA TypeInvInit == Init => TypeInv
  <1> SUFFICES ASSUME Init PROVE TypeInv
    OBVIOUS
  <1>1. 0 \in 0 .. MaxGeneration /\ 0 \in 0 .. MaxRevision /\ 0 \in 0 .. MaxOperations
    OBVIOUS
  <1>2. Vacant(0, FALSE) \in SlotRecords
    BY <1>1, VacantType
  <1>3. world \in Snapshots
    <2> DEFINE slots == [s \in Slots |-> Vacant(0, FALSE)]
    <2>1. slots \in [Slots -> SlotRecords]
      BY <1>2
    <2>2. world = [world_revision |-> 0, format_version |-> 1, slots |-> slots]
      BY DEF Init
    <2>3. 1 \in 1 .. 3
      OBVIOUS
    <2> HIDE DEF slots
    <2> QED BY <1>1, <2>1, <2>2, <2>3 DEF Snapshots
  <1>4. TypeOK
    BY <1>1, <1>3 DEF Init, TypeOK, NoNames
  <1> QED BY <1>4 DEF Init, TypeInv, Headroom, Settled

(* Every step keeps the type invariant. *)
LEMMA TypeInvStep == TypeInv /\ [Next]_vars => TypeInv'
  <1> SUFFICES ASSUME TypeInv, [Next]_vars PROVE TypeInv'
    OBVIOUS
  <1>1. ASSUME NEW r \in 0 .. MaxRevision, Begin(r) PROVE TypeInv'
    BY <1>1 DEF Begin, TypeInv, TypeOK, Headroom, Settled, Snapshots
  <1>2. ASSUME Reject PROVE TypeInv'
    <2>1. world' \in Snapshots /\ issued' \in SUBSET Handles
      BY <1>2 DEF Reject, TypeInv, TypeOK
    <2> QED BY <1>2, <2>1, EndBatchType DEF Reject
  <1>3. CASE UNCHANGED vars
    BY <1>3 DEF vars, TypeInv, TypeOK, Headroom, Settled
  <1> QED BY <1>1, <1>2, <1>3, EditActions, CreateType, DeleteType, CommitType DEF Next

(* Every variable keeps its type and every counter its bound: no batch ever *)
(* carries a generation or the revision past its maximum.                   *)
THEOREM TypeCorrect == Spec => []TypeOK
  <1>1. TypeInv => TypeOK
    BY DEF TypeInv
  <1> QED BY <1>1, TypeInvInit, TypeInvStep, PTL DEF Spec

-----------------------------------------------------------------------------
(* Handles.                                                                *)

(* Snapshot st has already given h out: its slot is past h's generation, or *)
(* at it and occupied or retired.                                          *)
Used(st, h) ==
  LET record == st.slots[h.slot] IN
  \/ h.generation < record.generation
  \/ h.generation = record.generation /\ (record.live \/ record.retired)

(* From st to st2 a used handle stays used, and resolves only if it did.   *)
Evolves(st, st2) ==
  \A h \in Handles : Used(st, h) =>
    /\ Used(st2, h)
    /\ Resolves(st2, h) => Resolves(st, h)

HandleInv ==
  /\ \A h \in issued : /\ Used(world, h)
                       /\ Used(staged, h)
                       /\ Resolves(staged, h) => Resolves(world, h)
  /\ \A n \in TempNames : names[n] # NoHandle =>
       Used(staged, names[n]) /\ names[n] \notin issued

IInv == TypeInv /\ HandleInv

(* An edit leaves handles as they were. *)
LEMMA EditEvolves ==
  ASSUME NEW st \in Snapshots, NEW st2, Edited(st, st2)
  PROVE  Evolves(st, st2)
  <1> SUFFICES ASSUME NEW h \in Handles, Used(st, h)
               PROVE  Used(st2, h) /\ (Resolves(st2, h) => Resolves(st, h))
    BY DEF Evolves
  <1>1. h.slot \in Slots
    BY Values
  <1> QED BY <1>1 DEF Edited, SameIdentities, Used, Resolves

(* create hands out an unused handle and changes no other. *)
LEMMA CreateEvolves ==
  ASSUME NEW st \in Snapshots, NextRevision \in 0 .. MaxRevision,
         NEW s \in FirstFree(st), NEW st2 \in Created(st, s)
  PROVE  /\ Evolves(st, st2)
         /\ ~Used(st, HandleOf(st2, s))
         /\ Used(st2, HandleOf(st2, s))
         /\ HandleOf(st2, s) \in Handles
  <1>1. /\ s \in Slots
        /\ \/ st.slots[s].generation = 0
           \/ st.slots[s].generation > 0 /\ ~st.slots[s].live /\ ~st.slots[s].retired
    BY FirstFreeVacant
  <1>2. /\ st2 \in Snapshots
        /\ st2.slots[s].generation = NewGeneration(st, s)
        /\ NewGeneration(st, s) \in 1 .. MaxGeneration
        /\ st2.slots[s].live /\ ~st2.slots[s].retired
        /\ \A q \in Slots \ {s} : st2.slots[q] = st.slots[q]
    BY <1>1, CreatedIdentity
  <1>3. HandleOf(st2, s) \in Handles
    BY <1>1, <1>2, HandlesOf
  <1>4. st.slots[s].generation \in 0 .. MaxGeneration
    BY <1>1 DEF Snapshots, SlotRecords
  <1>5. ~Used(st, HandleOf(st2, s)) /\ Used(st2, HandleOf(st2, s))
    BY <1>1, <1>2, <1>4 DEF HandleOf, Used, NewGeneration
  <1>6. ASSUME NEW h \in Handles, Used(st, h)
        PROVE  Used(st2, h) /\ (Resolves(st2, h) => Resolves(st, h))
    <2>1. h.slot \in Slots /\ h.generation \in 1 .. MaxGeneration
      BY Values
    <2>2. CASE h.slot # s
      BY <1>2, <1>6, <2>1, <2>2 DEF Used, Resolves
    <2>3. CASE h.slot = s
      <3>1. h.generation < st2.slots[s].generation
        BY <1>1, <1>2, <1>4, <1>6, <2>1, <2>3 DEF Used, NewGeneration
      <3> QED BY <3>1, <2>1, <2>3, <1>2 DEF Used, Resolves
    <2> QED BY <2>2, <2>3
  <1> QED BY <1>3, <1>5, <1>6 DEF Evolves

(* delete ends one handle for good and changes no other. *)
LEMMA DeleteEvolves ==
  ASSUME NEW st \in Snapshots, NEW h, NEW st2 \in Deleted(st, h)
  PROVE  Evolves(st, st2)
  <1>1. /\ h \in Handles
        /\ ~st2.slots[h.slot].live
        /\ \/ st2.slots[h.slot].generation = st.slots[h.slot].generation + 1
           \/ /\ st2.slots[h.slot].generation = st.slots[h.slot].generation
              /\ st2.slots[h.slot].retired
        /\ \A q \in Slots \ {h.slot} : st2.slots[q] = st.slots[q]
    BY DeletedIdentity
  <1> SUFFICES ASSUME NEW k \in Handles, Used(st, k)
               PROVE  Used(st2, k) /\ (Resolves(st2, k) => Resolves(st, k))
    BY DEF Evolves
  <1>2. k.slot \in Slots /\ k.generation \in 1 .. MaxGeneration
    BY Values
  <1>3. st.slots[k.slot].generation \in 0 .. MaxGeneration
    BY <1>2 DEF Snapshots, SlotRecords
  <1>4. CASE k.slot # h.slot
    BY <1>1, <1>2, <1>4 DEF Used, Resolves
  <1>5. CASE k.slot = h.slot
    BY <1>1, <1>2, <1>3, <1>5 DEF Used, Resolves
  <1> QED BY <1>4, <1>5

-----------------------------------------------------------------------------
(* A new World has issued no handle. *)
LEMMA HandleInvInit == Init => HandleInv
  BY DEF Init, HandleInv, NoNames

(* A step that only evolves the staged copy. *)
LEMMA EvolveStep ==
  ASSUME IInv, Evolves(staged, staged'), UNCHANGED <<world, names, issued>>
  PROVE  HandleInv'
  <1>1. issued \in SUBSET Handles /\ names \in [TempNames -> Handles \cup {NoHandle}]
    BY DEF IInv, TypeInv, TypeOK
  <1>2. ASSUME NEW h \in issued'
        PROVE  /\ Used(world', h) /\ Used(staged', h)
               /\ Resolves(staged', h) => Resolves(world', h)
    BY <1>1, <1>2 DEF IInv, HandleInv, Evolves
  <1>3. ASSUME NEW n \in TempNames, names'[n] # NoHandle
        PROVE  Used(staged', names'[n]) /\ names'[n] \notin issued'
    BY <1>1, <1>3 DEF IInv, HandleInv, Evolves
  <1> QED BY <1>2, <1>3 DEF HandleInv

(* create's name denotes a handle nobody holds yet. *)
LEMMA CreateHandles ==
  ASSUME IInv, NEW n \in TempNames, Create(n)
  PROVE  HandleInv'
  <1>1. PICK s \in FirstFree(staged) :
          Stage(Created(staged, s)) /\ names' = [names EXCEPT ![n] = HandleOf(staged', s)]
    BY DEF Create
  <1>2. /\ staging /\ staged' \in Created(staged, s) /\ staged \in Snapshots
        /\ UNCHANGED <<world, issued>> /\ issued \in SUBSET Handles
        /\ names \in [TempNames -> Handles \cup {NoHandle}]
    BY <1>1 DEF Stage, IInv, TypeInv, TypeOK
  <1>3. NextRevision \in 0 .. MaxRevision
    BY <1>2, NextRevisionBound DEF IInv
  <1>4. /\ Evolves(staged, staged')
        /\ ~Used(staged, HandleOf(staged', s)) /\ Used(staged', HandleOf(staged', s))
    BY <1>2, <1>3, CreateEvolves
  <1>5. ASSUME NEW h \in issued'
        PROVE  /\ Used(world', h) /\ Used(staged', h)
               /\ Resolves(staged', h) => Resolves(world', h)
    BY <1>2, <1>4, <1>5 DEF IInv, HandleInv, Evolves
  <1>6. HandleOf(staged', s) \notin issued
    BY <1>4 DEF IInv, HandleInv
  <1>7. ASSUME NEW m \in TempNames, names'[m] # NoHandle
        PROVE  Used(staged', names'[m]) /\ names'[m] \notin issued'
    <2>1. CASE m = n
      BY <1>1, <1>2, <1>4, <1>6, <2>1
    <2>2. CASE m # n
      <3>1. names'[m] = names[m] /\ names[m] \in Handles
        BY <1>1, <1>2, <1>7, <2>2
      <3> QED BY <3>1, <1>2, <1>4, <1>7 DEF IInv, HandleInv, Evolves
    <2> QED BY <2>1, <2>2
  <1> QED BY <1>5, <1>7 DEF HandleInv

(* A commit issues exactly the handles of its batch's names. *)
LEMMA CommitHandles ==
  ASSUME IInv, Commit
  PROVE  HandleInv' /\ world'.slots = staged.slots
  <1>1. world'.slots = staged.slots /\ staged' = world'
    BY DEF Commit, EndBatch, IInv, TypeInv, TypeOK, Snapshots
  <1>2. ASSUME NEW h \in issued' PROVE Used(staged, h)
    BY <1>2 DEF Commit, IInv, HandleInv
  <1>3. ASSUME NEW h \in issued'
        PROVE  Used(world', h) /\ Used(staged', h)
    BY <1>1, <1>2, <1>3 DEF Used
  <1>4. \A n \in TempNames : names'[n] = NoHandle
    BY DEF Commit, EndBatch, NoNames
  <1> QED BY <1>1, <1>3, <1>4 DEF HandleInv

(* Every step keeps the order of issued handles and slot generations. *)
LEMMA HandleInvStep == IInv /\ [Next]_vars => HandleInv'
  <1> SUFFICES ASSUME IInv, [Next]_vars PROVE HandleInv'
    OBVIOUS
  <1> USE DEF IInv
  <1>1. ASSUME NEW r \in 0 .. MaxRevision, Begin(r) PROVE HandleInv'
    BY <1>1 DEF Begin, HandleInv
  <1>2. ASSUME \/ \E t \in Targets, v \in Transforms : SetTransform(t, v)
               \/ \E t \in Targets, tags \in TagSets : SetTags(t, tags)
               \/ \E t, p \in Targets, mode \in Modes : Reparent(t, p, mode)
               \/ \E t \in Targets, mode \in Modes : Unparent(t, mode)
        PROVE  HandleInv'
    <2>1. Edited(staged, staged') /\ UNCHANGED <<world, names, issued>>
      BY <1>2, EditActions
    <2>2. staged \in Snapshots
      BY DEF TypeInv, TypeOK
    <2> QED BY <2>1, <2>2, EditEvolves, EvolveStep
  <1>3. ASSUME NEW t \in Targets, Delete(t) PROVE HandleInv'
    <2>1. /\ staged' \in Deleted(staged, Denotes(t)) /\ staged \in Snapshots
          /\ UNCHANGED <<world, names, issued>>
      BY <1>3 DEF Delete, Stage, TypeInv, TypeOK
    <2> QED BY <2>1, DeleteEvolves, EvolveStep
  <1>4. ASSUME Reject PROVE HandleInv'
    BY <1>4 DEF Reject, EndBatch, NoNames, HandleInv
  <1>5. CASE UNCHANGED vars
    BY <1>5 DEF vars, HandleInv, Used, Resolves
  <1> QED BY <1>1, <1>2, <1>3, <1>4, <1>5, CreateHandles, CommitHandles DEF Next

(* The invariant the two theorems are read from. *)
LEMMA HandleInvariance == Spec => []IInv
  <1>1. IInv => TypeInv /\ HandleInv
    BY DEF IInv
  <1>2. TypeInv /\ HandleInv => IInv
    BY DEF IInv
  <1> QED BY <1>1, <1>2, TypeInvInit, TypeInvStep, HandleInvInit, HandleInvStep, PTL DEF Spec

(* No batch hands out a handle that a committed batch reported: generation  *)
(* reuse and retirement, however often the slot is deleted and reused.      *)
THEOREM IssuedOnce == Spec => []CreatedHandlesAreNew
  <1>1. IInv => CreatedHandlesAreNew
    <2> SUFFICES ASSUME IInv, NEW n \in TempNames PROVE names[n] \notin issued
      BY DEF CreatedHandlesAreNew
    <2>1. CASE names[n] = NoHandle
      BY <2>1, Values DEF IInv, TypeInv, TypeOK
    <2>2. CASE names[n] # NoHandle
      BY <2>2 DEF IInv, HandleInv
    <2> QED BY <2>1, <2>2
  <1> QED BY <1>1, HandleInvariance, PTL

(* An issued handle that stopped resolving (its entity was deleted) never   *)
(* resolves again, so a stale target is rejected for ever.                  *)
THEOREM StaleForEver == Spec => DeadHandlesStayDead
  <1> DEFINE Stay == \A h \in issued : ~Resolves(world, h) => ~Resolves(world', h)
  <1>1. IInv /\ [Next]_vars => [Stay]_vars
    <2> SUFFICES ASSUME IInv, Next PROVE Stay
      OBVIOUS
    <2>1. CASE Commit
      <3>1. world'.slots = staged.slots
        BY <2>1, CommitHandles
      <3> QED BY <3>1 DEF Resolves, IInv, HandleInv
    <2>2. CASE ~Commit
      <3>1. UNCHANGED world
        BY <2>2 DEF Next, Begin, Create, SetTransform, SetTags, Reparent, Unparent, Delete,
                    Stage, Reject
      <3> QED BY <3>1 DEF Resolves
    <2> QED BY <2>1, <2>2
  <1> QED BY <1>1, HandleInvariance, PTL DEF Spec, DeadHandlesStayDead

-----------------------------------------------------------------------------
(* The hierarchy.                                                          *)

(* Relative is undone by Compose: the place a child keeps is its place.    *)
LEMMA ComposeRelative ==
  ASSUME NEW p \in Transforms, NEW v \in Transforms
  PROVE  Compose(p, Relative(p, v)) = v
  <1> DEFINE a == p.position
             b == v.position
             d == (b - a) % M
  <1>1. a \in 0 .. M - 1 /\ b \in 0 .. M - 1 /\ M \in Nat \ {0}
    BY CoordinatorAssumption DEF Transforms
  <1>2. CASE a <= b
    <2>1. b - a \in 0 .. M - 1
      BY <1>1, <1>2
    <2>2. d = b - a
      BY <1>1, <2>1
    <2>3. a + d = b
      BY <1>1, <2>2
    <2>4. b % M = b
      BY <1>1
    <2> QED BY <2>3, <2>4 DEF Compose, Relative, Transforms
  <1>3. CASE b < a
    <2>1. b - a + M \in 0 .. M - 1
      BY <1>1, <1>3
    <2>2. d = b - a + M
      BY <1>1, <2>1
    <2>3. a + d = b + M
      BY <1>1, <2>2
    <2>4. (b + M) % M = b
      BY <1>1
    <2> QED BY <2>3, <2>4 DEF Compose, Relative, Transforms
  <1> QED BY <1>1, <1>2, <1>3

(* The two halves of a sound hierarchy: its links, and the place each child *)
(* has from its parent's.                                                   *)
Linked(st) ==
  \A s \in Slots : HasParent(st, s) =>
    /\ Resolves(st, st.slots[s].parent)
    /\ st.slots[s].parent.slot \notin Subtree(st, s)

Seated(st, s) ==
  HasParent(st, s) =>
    LET p == st.slots[s].parent.slot IN
    /\ st.slots[p].transform.uniform
    /\ st.slots[s].transform = Compose(st.slots[p].transform, st.slots[s].local_transform)

LEMMA SoundParts ==
  ASSUME NEW st
  PROVE  Sound(st) <=> Linked(st) /\ \A s \in Slots : Seated(st, s)
  BY DEF Sound, Linked, Seated

(* A child with a parent that resolves is a child of that parent's slot, and *)
(* of no other.                                                             *)
LEMMA ParentSlot ==
  ASSUME NEW st, NEW s \in Slots, HasParent(st, s), Resolves(st, st.slots[s].parent)
  PROVE  /\ st.slots[s].parent.slot \in Slots
         /\ ChildOf(st, s, st.slots[s].parent.slot)
         /\ \A p \in Slots : ChildOf(st, s, p) => p = st.slots[s].parent.slot
  <1>1. PICK n \in Slots, g \in 1 .. MaxGeneration :
          st.slots[s].parent = [slot |-> n, generation |-> g]
    BY DEF Resolves, Handles
  <1> QED BY <1>1 DEF Resolves, HasParent, ChildOf, HandleOf

(* Only a child has a parent. *)
LEMMA ChildHasParent ==
  ASSUME NEW st, NEW s \in Slots, NEW p \in Slots, ChildOf(st, s, p)
  PROVE  HasParent(st, s) /\ st.slots[s].parent.slot = p
  BY DEF ChildOf, HasParent, HandleOf, NoHandle, Slots

LEMMA LinksKept ==
  ASSUME NEW st, NEW st2, SameLinks(st, st2)
  PROVE  /\ \A s \in Slots : HasParent(st2, s) <=> HasParent(st, s)
         /\ \A h : Resolves(st2, h) <=> Resolves(st, h)
         /\ \A s \in Slots : Subtree(st2, s) = Subtree(st, s)
         /\ Linked(st2) <=> Linked(st)
  <1>1. \A c, p \in Slots : ChildOf(st2, c, p) <=> ChildOf(st, c, p)
    BY DEF SameLinks, ChildOf, HandleOf
  <1>2. ASSUME NEW s \in Slots PROVE Subtree(st2, s) = Subtree(st, s)
    <2>1. Subtree(st2, s) \subseteq Subtree(st, s)
      BY <1>1, SubtreeShrinks
    <2>2. Subtree(st, s) \subseteq Subtree(st2, s)
      BY <1>1, SubtreeShrinks
    <2> QED BY <2>1, <2>2
  <1>3. \A s \in Slots : HasParent(st2, s) <=> HasParent(st, s)
    BY DEF SameLinks, HasParent
  <1>4. ASSUME NEW h PROVE Resolves(st2, h) <=> Resolves(st, h)
    BY Values DEF SameLinks, Resolves
  <1>5. \A s \in Slots : st2.slots[s].parent = st.slots[s].parent
    BY DEF SameLinks
  <1> QED BY <1>2, <1>3, <1>4, <1>5 DEF Linked

(* The pass over a subtree mends the places below its root. *)
LEMMA SubtreePass ==
  ASSUME NEW st \in Snapshots, NEW root \in Slots, NextRevision \in 0 .. MaxRevision, Linked(st),
         \A s \in Slots : s = root \/ s \notin Subtree(st, root) => Seated(st, s),
         NEW st2 \in SubtreeOutcomes(st, root)
  PROVE  Sound(st2)
  <1>1. PICK f \in Recomputed(st, root) :
          st2 = [st EXCEPT !.slots = [s \in Slots |->
                  IF s \in Subtree(st, root)
                    THEN [st.slots[s] EXCEPT !.transform = f[s],
                                             !.authoring_revision = NextRevision]
                    ELSE st.slots[s]]]
    BY DEF SubtreeOutcomes
  <1> DEFINE below == Subtree(st, root) \ {root}
  <1>2. \A s \in Slots : st.slots[s] \in SlotRecords
    BY DEF Snapshots
  <1>3. /\ \A s \in below : /\ f[st.slots[s].parent.slot].uniform
                            /\ f[s] = Compose(f[st.slots[s].parent.slot],
                                              st.slots[s].local_transform)
        /\ \A s \in Slots \ below : f[s] = st.slots[s].transform
    BY SubtreeClosed DEF Recomputed
  <1>4. st2.slots = [s \in Slots |->
                  IF s \in Subtree(st, root)
                    THEN [st.slots[s] EXCEPT !.transform = f[s],
                                             !.authoring_revision = NextRevision]
                    ELSE st.slots[s]]
    BY <1>1 DEF Snapshots
  <1>5. ASSUME NEW s \in Slots
        PROVE  /\ st2.slots[s].live = st.slots[s].live
               /\ st2.slots[s].retired = st.slots[s].retired
               /\ st2.slots[s].generation = st.slots[s].generation
               /\ st2.slots[s].parent = st.slots[s].parent
               /\ st2.slots[s].local_transform = st.slots[s].local_transform
               /\ st2.slots[s].transform = f[s]
    <2>1. CASE s \in Subtree(st, root)
      <3>1. st2.slots[s] = [st.slots[s] EXCEPT !.transform = f[s],
                                               !.authoring_revision = NextRevision]
        BY <1>4, <2>1
      <3> QED BY <1>2, <3>1 DEF SlotRecords
    <2>2. CASE s \notin Subtree(st, root)
      <3>1. st2.slots[s] = st.slots[s]
        BY <1>4, <2>2
      <3>2. s \in Slots \ below
        BY <2>2
      <3> QED BY <1>3, <3>1, <3>2
    <2> QED BY <2>1, <2>2
  <1>6. Linked(st2) /\ \A s \in Slots : HasParent(st2, s) => HasParent(st, s)
    BY <1>5, LinksKept DEF SameLinks
  <1>7. ASSUME NEW s \in Slots, HasParent(st, s)
        PROVE  LET p == st.slots[s].parent.slot IN
               p \in Slots /\ f[p].uniform /\ f[s] = Compose(f[p], st.slots[s].local_transform)
    <2> DEFINE p == st.slots[s].parent.slot
    <2>1. p \in Slots /\ ChildOf(st, s, p) /\ p \notin Subtree(st, s)
      BY <1>7, ParentSlot DEF Linked
    <2>2. CASE s \in below
      BY <1>3, <2>1, <2>2
    <2>3. CASE s \notin below
      <3>1. p \notin below
        BY <2>1, <2>3, SubtreeClosed
      <3>2. Seated(st, s)
        BY <2>3
      <3> QED BY <1>3, <1>7, <2>1, <2>3, <3>1, <3>2 DEF Seated
    <2> QED BY <2>2, <2>3
  <1>8. ASSUME NEW s \in Slots, HasParent(st2, s) PROVE Seated(st2, s)
    <2> DEFINE p == st.slots[s].parent.slot
    <2>1. p \in Slots /\ f[p].uniform /\ f[s] = Compose(f[p], st.slots[s].local_transform)
      BY <1>6, <1>7, <1>8
    <2>2. st2.slots[s].parent.slot = p /\ st2.slots[s].local_transform = st.slots[s].local_transform
      BY <1>5
    <2>3. st2.slots[p].transform = f[p] /\ st2.slots[s].transform = f[s]
      BY <1>5, <2>1
    <2> HIDE DEF p
    <2> QED BY <2>1, <2>2, <2>3 DEF Seated
  <1>9. \A s \in Slots : Seated(st2, s)
    BY <1>8 DEF Seated
  <1> QED BY <1>6, <1>9, SoundParts

(* A slot keeps its seat when neither it nor its parent changes.           *)
LEMMA SeatKept ==
  ASSUME NEW st, NEW st1, NEW s \in Slots, Seated(st, s),
         st1.slots[s] = st.slots[s],
         HasParent(st, s) =>
           st1.slots[st.slots[s].parent.slot] = st.slots[st.slots[s].parent.slot]
  PROVE  Seated(st1, s)
  BY DEF Seated, HasParent

(* transform.set keeps a hierarchy sound.                                  *)
LEMMA TransformedSound ==
  ASSUME NEW st \in Snapshots, NextRevision \in 0 .. MaxRevision, Sound(st),
         NEW h, NEW v \in Transforms, NEW st2 \in Transformed(st, h, v)
  PROVE  Sound(st2)
  <1>1. h \in Handles /\ h.slot \in Slots
    BY Values DEF Transformed, Resolves
  <1> DEFINE s == h.slot
             p == st.slots[s].parent.slot
             local == IF HasParent(st, s) THEN Relative(st.slots[p].transform, v)
                                          ELSE st.slots[s].local_transform
             r == [st.slots[s] EXCEPT !.local_transform = local, !.transform = v]
             st1 == [st EXCEPT !.slots[s] = r]
  <1>2. st2 \in SubtreeOutcomes(st1, s)
    BY DEF Transformed
  <1>3. Linked(st) /\ \A q \in Slots : Seated(st, q)
    BY SoundParts
  <1>4. st.slots[s] \in SlotRecords
    BY <1>1 DEF Snapshots
  <1>5. HasParent(st, s) => /\ p \in Slots /\ ChildOf(st, s, p) /\ p # s
                            /\ st.slots[p].transform \in Transforms
                            /\ st.slots[p].transform.uniform
    <2>1. ASSUME HasParent(st, s)
          PROVE  p \in Slots /\ ChildOf(st, s, p) /\ p \notin Subtree(st, s)
      BY <1>1, <1>3, <2>1, ParentSlot DEF Linked
    <2> QED BY <1>1, <1>3, <2>1, SubtreeClosed DEF Seated, Snapshots, SlotRecords
  <1>6. local \in Transforms
    BY <1>4, <1>5, Values DEF SlotRecords
  <1>7. /\ r \in SlotRecords /\ r.live = st.slots[s].live /\ r.retired = st.slots[s].retired
        /\ r.generation = st.slots[s].generation /\ r.parent = st.slots[s].parent
        /\ r.transform = v /\ r.local_transform = local
    BY <1>4, <1>6 DEF SlotRecords
  <1> HIDE DEF r, local
  <1>8. /\ st1 \in Snapshots /\ st1.slots[s] = r
        /\ \A q \in Slots \ {s} : st1.slots[q] = st.slots[q]
    BY <1>1, <1>7, OneSlot
  <1> HIDE DEF st1
  <1>9. SameLinks(st, st1)
    BY <1>1, <1>7, <1>8 DEF SameLinks
  <1>10. /\ Linked(st1) /\ \A q \in Slots : HasParent(st1, q) <=> HasParent(st, q)
         /\ \A q \in Slots : Subtree(st1, q) = Subtree(st, q)
    BY <1>3, <1>9, LinksKept
  <1>11. Seated(st1, s)
    <2>1. CASE ~HasParent(st1, s)
      BY <2>1 DEF Seated
    <2>2. CASE HasParent(st1, s)
      <3>1. /\ st1.slots[p] = st.slots[p] /\ p \in Slots
            /\ st.slots[p].transform \in Transforms /\ st.slots[p].transform.uniform
        BY <1>1, <1>5, <1>8, <1>10, <2>2
      <3>2. local = Relative(st.slots[p].transform, v)
        BY <1>1, <1>10, <2>2 DEF local
      <3>3. Compose(st.slots[p].transform, local) = v
        BY <3>1, <3>2, ComposeRelative
      <3>4. st1.slots[s].parent = st.slots[s].parent /\ st1.slots[s].transform = v
            /\ st1.slots[s].local_transform = local
        BY <1>7, <1>8
      <3> QED BY <3>1, <3>3, <3>4 DEF Seated
    <2> QED BY <2>1, <2>2
  <1>12. ASSUME NEW q \in Slots, q \notin Subtree(st1, s)
         PROVE  Seated(st1, q)
    <2>1. q # s
      BY <1>1, <1>12, SubtreeClosed
    <2>2. ASSUME HasParent(st, q)
          PROVE  st1.slots[st.slots[q].parent.slot] = st.slots[st.slots[q].parent.slot]
      <3>1. st.slots[q].parent.slot \in Slots /\ ChildOf(st, q, st.slots[q].parent.slot)
        BY <1>3, <2>2, ParentSlot DEF Linked
      <3>2. st.slots[q].parent.slot # s
        BY <1>1, <1>10, <1>12, <3>1, SubtreeClosed
      <3> QED BY <1>8, <3>1, <3>2
    <2> QED BY <1>3, <1>8, <2>1, <2>2, SeatKept
  <1> QED BY <1>1, <1>2, <1>8, <1>10, <1>11, <1>12, SubtreePass

(* tags.set keeps a hierarchy sound.                                       *)
LEMMA TaggedSound ==
  ASSUME NEW st \in Snapshots, NextRevision \in 0 .. MaxRevision, Sound(st),
         NEW h, NEW tags \in TagSets, NEW st2 \in Tagged(st, h, tags)
  PROVE  Sound(st2)
  <1>1. h \in Handles /\ h.slot \in Slots
    BY Values DEF Tagged, Resolves
  <1> DEFINE r == [st.slots[h.slot] EXCEPT !.tags = tags, !.authoring_revision = NextRevision]
  <1>2. /\ r \in SlotRecords
        /\ r.live = st.slots[h.slot].live /\ r.retired = st.slots[h.slot].retired
        /\ r.generation = st.slots[h.slot].generation
        /\ r.parent = st.slots[h.slot].parent
        /\ r.transform = st.slots[h.slot].transform
        /\ r.local_transform = st.slots[h.slot].local_transform
    <2>1. PICK e \in SlotRecords : e = st.slots[h.slot]
      BY <1>1 DEF Snapshots
    <2>2. PICK n \in 0 .. MaxRevision : n = NextRevision
      OBVIOUS
    <2>3. r = [e EXCEPT !.tags = tags, !.authoring_revision = n]
      BY <2>1, <2>2
    <2> HIDE DEF r
    <2> QED BY ONLY <2>1, <2>3, tags \in TagSets DEF SlotRecords
  <1>3. st2 = [st EXCEPT !.slots[h.slot] = r]
    BY DEF Tagged
  <1> HIDE DEF r
  <1>4. /\ st2.slots[h.slot] = r
        /\ \A q \in Slots \ {h.slot} : st2.slots[q] = st.slots[q]
    BY <1>1, <1>2, <1>3, OneSlot
  <1>5. ASSUME NEW s \in Slots
        PROVE  /\ st2.slots[s].live = st.slots[s].live
               /\ st2.slots[s].retired = st.slots[s].retired
               /\ st2.slots[s].generation = st.slots[s].generation
               /\ st2.slots[s].parent = st.slots[s].parent
               /\ st2.slots[s].transform = st.slots[s].transform
               /\ st2.slots[s].local_transform = st.slots[s].local_transform
    BY <1>1, <1>2, <1>4
  <1>6. Linked(st2) /\ \A s \in Slots : HasParent(st2, s) => HasParent(st, s)
    BY <1>5, LinksKept, SoundParts DEF SameLinks
  <1>7. ASSUME NEW s \in Slots PROVE Seated(st2, s)
    <2>1. HasParent(st, s) => st.slots[s].parent.slot \in Slots
      BY ParentSlot, SoundParts DEF Linked
    <2>2. Seated(st, s)
      BY SoundParts
    <2>3. CASE HasParent(st2, s)
      <3>1. HasParent(st, s)
        BY <1>6, <2>3
      <3>2. PICK p \in Slots : p = st.slots[s].parent.slot
        BY <2>1, <3>1
      <3>3. /\ st.slots[p].transform.uniform
            /\ st.slots[s].transform = Compose(st.slots[p].transform, st.slots[s].local_transform)
        BY <2>2, <3>1, <3>2 DEF Seated
      <3> QED BY <1>5, <3>2, <3>3 DEF Seated
    <2> QED BY <2>3 DEF Seated
  <1> QED BY <1>6, <1>7, SoundParts

(* reparent to a parent keeps a hierarchy sound: the new parent is outside  *)
(* the subtree that moves, so that no link closes a cycle.                  *)
LEMMA ReparentedSound ==
  ASSUME NEW st \in Snapshots, NextRevision \in 0 .. MaxRevision, Sound(st),
         NEW h, NEW ph, NEW mode, NEW st2 \in Reparented(st, h, ph, mode)
  PROVE  Sound(st2)
  <1>1. h \in Handles /\ h.slot \in Slots /\ ph \in Handles /\ ph.slot \in Slots
    BY Values DEF Reparented, Resolves
  <1> DEFINE c == h.slot
             p == ph.slot
             child == st.slots[c]
             parent == st.slots[p].transform
             local == IF child.parent # NoHandle THEN child.local_transform ELSE child.transform
             placed == IF mode = "preserve_world"
                         THEN [child EXCEPT !.local_transform = Relative(parent, child.transform)]
                         ELSE [child EXCEPT !.local_transform = local,
                                            !.transform = Compose(parent, local)]
             r == [placed EXCEPT !.parent = ph]
             st1 == [st EXCEPT !.slots[c] = r]
  <1>2. /\ st2 \in SubtreeOutcomes(st1, c)
        /\ Resolves(st, h) /\ Resolves(st, ph) /\ p \notin Subtree(st, c) /\ parent.uniform
    BY DEF Reparented, Attached
  <1>3. Linked(st) /\ \A q \in Slots : Seated(st, q)
    BY SoundParts
  <1>4. child \in SlotRecords /\ parent \in Transforms /\ local \in Transforms
          /\ child.transform \in Transforms
    BY <1>1 DEF Snapshots, SlotRecords
  <1>5. Relative(parent, child.transform) \in Transforms /\ Compose(parent, local) \in Transforms
    BY <1>4, Values
  <1>6. /\ placed \in SlotRecords /\ placed.generation = child.generation
        /\ placed.live = child.live /\ placed.retired = child.retired
        /\ placed.transform = Compose(parent, placed.local_transform)
    <2>1. Compose(parent, Relative(parent, child.transform)) = child.transform
      BY <1>4, ComposeRelative
    <2> QED BY <1>4, <1>5, <2>1 DEF SlotRecords
  <1> HIDE DEF placed
  <1>7. /\ r \in SlotRecords /\ r.generation = child.generation
        /\ r.live = child.live /\ r.retired = child.retired /\ r.parent = ph
        /\ r.transform = Compose(parent, r.local_transform)
    BY <1>1, <1>6 DEF SlotRecords
  <1> HIDE DEF r
  <1>8. /\ st1 \in Snapshots /\ st1.slots[c] = r
        /\ \A q \in Slots \ {c} : st1.slots[q] = st.slots[q]
    BY <1>1, <1>7, OneSlot
  <1> HIDE DEF st1
  <1>9. c \in Slots /\ p \in Slots /\ p # c /\ c \in Subtree(st, c)
    BY <1>1, <1>2, SubtreeClosed
  <1>10. \A k : Resolves(st, k) <=> Resolves(st1, k)
    BY <1>7, <1>8, Values DEF Resolves
  <1>11. ASSUME NEW a \in Slots, NEW b \in Slots, ChildOf(st1, a, b)
         PROVE  IF a = c THEN b = p ELSE ChildOf(st, a, b)
    <2>1. HandleOf(st1, b) = HandleOf(st, b)
      BY <1>7, <1>8 DEF HandleOf
    <2>2. CASE a = c
      BY <1>7, <1>8, <1>11, <2>2 DEF ChildOf, HandleOf
    <2>3. CASE a # c
      BY <1>8, <1>11, <2>1, <2>3 DEF ChildOf
    <2> QED BY <2>2, <2>3
  <1>12. Subtree(st1, c) \subseteq Subtree(st, c)
    <2>1. \A b \in Subtree(st, c), a \in Slots : ChildOf(st1, a, b) => a \in Subtree(st, c)
      BY <1>9, <1>11, SubtreeClosed
    <2> QED BY <1>9, <2>1, SubtreeClosed, SubtreeLeast
  <1>13. ASSUME NEW s \in Slots, HasParent(st1, s)
         PROVE  /\ Resolves(st1, st1.slots[s].parent)
                /\ st1.slots[s].parent.slot \notin Subtree(st1, s)
    <2>1. CASE s = c
      BY <1>2, <1>7, <1>8, <1>10, <1>12, <2>1
    <2>2. CASE s # c
      <3> DEFINE q == st.slots[s].parent.slot
      <3>1. st1.slots[s].parent = st.slots[s].parent /\ HasParent(st, s)
        BY <1>8, <1>13, <2>2 DEF HasParent
      <3>2. /\ Resolves(st, st.slots[s].parent) /\ q \in Slots /\ ChildOf(st, s, q)
            /\ q \notin Subtree(st, s)
        BY <1>3, <3>1, ParentSlot DEF Linked
      <3>3. CASE q \notin Subtree(st, c)
        <4> DEFINE S == Subtree(st, s) \cup Subtree(st, c)
        <4>1. S \in SUBSET Slots /\ s \in S
          BY <1>9, SubtreeClosed
        <4>2. \A b \in S, a \in Slots : ChildOf(st1, a, b) => a \in S
          BY <1>9, <1>11, SubtreeClosed
        <4>3. Subtree(st1, s) \subseteq S
          <5> HIDE DEF S
          <5> QED BY <4>1, <4>2, SubtreeLeast
        <4> QED BY <1>10, <3>1, <3>2, <3>3, <4>3
      <3>4. CASE q \in Subtree(st, c)
        <4>1. s \in Subtree(st, c)
          BY <1>9, <3>2, <3>4, SubtreeClosed
        <4>2. Subtree(st, s) \subseteq Subtree(st, c)
          BY <1>9, <4>1, SubtreeClosed, SubtreeLeast
        <4>3. p \notin Subtree(st, s)
          BY <1>2, <4>2
        <4>4. \A b \in Subtree(st, s), a \in Slots : ChildOf(st1, a, b) => a \in Subtree(st, s)
          BY <1>11, <4>3, SubtreeClosed
        <4>5. Subtree(st1, s) \subseteq Subtree(st, s)
          BY <4>4, SubtreeClosed, SubtreeLeast
        <4> QED BY <1>10, <3>1, <3>2, <4>5
      <3> QED BY <3>3, <3>4
    <2> QED BY <2>1, <2>2
  <1>14. Linked(st1)
    BY <1>13 DEF Linked
  <1>15. Seated(st1, c)
    BY <1>2, <1>7, <1>8, <1>9 DEF Seated
  <1>16. ASSUME NEW s \in Slots, s \notin Subtree(st1, c)
         PROVE  Seated(st1, s)
    <2>1. s # c
      BY <1>9, <1>16, SubtreeClosed
    <2>2. ASSUME HasParent(st, s)
          PROVE  st1.slots[st.slots[s].parent.slot] = st.slots[st.slots[s].parent.slot]
      <3>1. st1.slots[s].parent = st.slots[s].parent /\ HasParent(st1, s)
        BY <1>8, <2>1, <2>2 DEF HasParent
      <3>2. st.slots[s].parent.slot \in Slots /\ ChildOf(st1, s, st.slots[s].parent.slot)
        BY <1>14, <3>1, ParentSlot DEF Linked
      <3>3. st.slots[s].parent.slot # c
        BY <1>9, <1>16, <3>2, SubtreeClosed
      <3> QED BY <1>8, <3>2, <3>3
    <2> QED BY <1>3, <1>8, <2>1, <2>2, SeatKept
  <1> QED BY <1>2, <1>8, <1>9, <1>14, <1>15, <1>16, SubtreePass

(* reparent to no parent keeps a hierarchy sound. *)
LEMMA UnparentedSound ==
  ASSUME NEW st \in Snapshots, NextRevision \in 0 .. MaxRevision, Sound(st),
         NEW h, NEW mode, NEW st2 \in Unparented(st, h, mode)
  PROVE  Sound(st2)
  <1>1. h \in Handles /\ h.slot \in Slots
    BY Values DEF Unparented, Resolves
  <1> DEFINE c == h.slot
             child == st.slots[c]
             local == IF child.parent # NoHandle THEN child.local_transform ELSE child.transform
             r == [child EXCEPT !.transform = IF mode = "preserve_local" THEN local
                                                                        ELSE child.transform,
                                !.parent = NoHandle, !.local_transform = Identity]
             st1 == [st EXCEPT !.slots[c] = r]
  <1>2. st2 \in SubtreeOutcomes(st1, c)
    BY DEF Unparented, Detached
  <1>3. Linked(st) /\ \A q \in Slots : Seated(st, q)
    BY SoundParts
  <1>4. child \in SlotRecords /\ local \in Transforms
    BY <1>1 DEF Snapshots, SlotRecords
  <1>5. /\ r \in SlotRecords /\ r.generation = child.generation
        /\ r.live = child.live /\ r.retired = child.retired /\ r.parent = NoHandle
    BY <1>4, Values DEF SlotRecords
  <1> HIDE DEF r
  <1>6. /\ c \in Slots /\ st1 \in Snapshots /\ st1.slots[c] = r
        /\ \A q \in Slots \ {c} : st1.slots[q] = st.slots[q]
    BY <1>1, <1>5, OneSlot
  <1> HIDE DEF st1
  <1>7. \A k : Resolves(st, k) <=> Resolves(st1, k)
    BY <1>5, <1>6, Values DEF Resolves
  <1>8. \A s \in Slots : HasParent(st1, s) =>
          s # c /\ HasParent(st, s) /\ st1.slots[s] = st.slots[s]
    BY <1>5, <1>6 DEF HasParent
  <1>9. \A a, b \in Slots : ChildOf(st1, a, b) => ChildOf(st, a, b)
    BY <1>5, <1>6, <1>8, ChildHasParent DEF ChildOf, HandleOf
  <1>10. Linked(st1)
    BY <1>3, <1>7, <1>8, <1>9, SubtreeShrinks DEF Linked
  <1>11. Seated(st1, c)
    BY <1>6, <1>8 DEF Seated
  <1>12. ASSUME NEW s \in Slots, s \notin Subtree(st1, c)
         PROVE  Seated(st1, s)
    <2>1. CASE ~HasParent(st1, s)
      BY <2>1 DEF Seated
    <2>2. CASE HasParent(st1, s)
      <3>1. st1.slots[s].parent.slot \in Slots /\ ChildOf(st1, s, st1.slots[s].parent.slot)
        BY <1>10, <2>2, ParentSlot DEF Linked
      <3>2. st1.slots[s].parent.slot # c
        BY <1>6, <1>12, <3>1, SubtreeClosed
      <3> QED BY <1>3, <1>6, <1>8, <2>2, <3>1, <3>2, SeatKept
    <2> QED BY <2>1, <2>2
  <1> QED BY <1>2, <1>6, <1>10, <1>11, <1>12, SubtreePass

(* create keeps a hierarchy sound: nobody is a child of the slot it takes. *)
LEMMA CreatedSound ==
  ASSUME NEW st \in Snapshots, NextRevision \in 0 .. MaxRevision, Sound(st),
         NEW c \in FirstFree(st), NEW st2 \in Created(st, c)
  PROVE  Sound(st2)
  <1>1. c \in Slots /\ (st.slots[c].generation = 0 \/ ~st.slots[c].live)
    BY FirstFreeVacant
  <1>2. /\ st2 \in Snapshots /\ st2.slots[c].parent = NoHandle
        /\ \A q \in Slots \ {c} : st2.slots[q] = st.slots[q]
    <2>1. st2 = [st EXCEPT !.slots[c] = Occupied(NewGeneration(st, c))]
      BY DEF Created, NewGeneration, Appended
    <2>2. NewGeneration(st, c) \in 0 .. MaxGeneration
      BY <1>1, CreatedIdentity
    <2>3. Occupied(NewGeneration(st, c)) \in SlotRecords
      BY <2>2, OccupiedType
    <2>4. Occupied(NewGeneration(st, c)).parent = NoHandle
      BY DEF Occupied, Vacant
    <2> QED BY <1>1, <2>1, <2>3, <2>4, OneSlot
  <1>3. Linked(st) /\ \A q \in Slots : Seated(st, q)
    BY SoundParts
  <1>4. ASSUME NEW k, Resolves(st, k)
        PROVE  k.slot \in Slots /\ k.slot # c /\ Resolves(st2, k)
    BY <1>1, <1>2, <1>4, Values DEF Resolves
  <1>5. \A s \in Slots : HasParent(st2, s) =>
          s # c /\ HasParent(st, s) /\ st2.slots[s] = st.slots[s]
    BY <1>2 DEF HasParent
  <1>6. ASSUME NEW a \in Slots, NEW b \in Slots, ChildOf(st2, a, b) PROVE ChildOf(st, a, b)
    <2>1. HasParent(st2, a) /\ st2.slots[a].parent.slot = b
      BY <1>6, ChildHasParent
    <2>2. HasParent(st, a) /\ st2.slots[a] = st.slots[a] /\ b # c
      BY <1>3, <1>4, <1>5, <2>1 DEF Linked
    <2> QED BY <1>2, <1>6, <2>2 DEF ChildOf, HandleOf
  <1>7. Linked(st2)
    BY <1>3, <1>4, <1>5, <1>6, SubtreeShrinks DEF Linked
  <1>8. ASSUME NEW s \in Slots, HasParent(st2, s) PROVE Seated(st2, s)
    <2>1. s # c /\ HasParent(st, s) /\ st2.slots[s] = st.slots[s]
      BY <1>5, <1>8
    <2>2. st.slots[s].parent.slot \in Slots \ {c}
      BY <1>3, <1>4, <2>1 DEF Linked
    <2> QED BY <1>2, <1>3, <2>1, <2>2, SeatKept
  <1>9. \A s \in Slots : Seated(st2, s)
    BY <1>8 DEF Seated
  <1> QED BY <1>7, <1>9, SoundParts

(* delete keeps a hierarchy sound: what it removes has no child. *)
LEMMA DeletedSound ==
  ASSUME NEW st \in Snapshots, Sound(st), NEW h, NEW st2 \in Deleted(st, h)
  PROVE  Sound(st2)
  <1> DEFINE c == h.slot
  <1>1. /\ st2 \in Snapshots /\ ~st2.slots[c].live /\ c \in Slots
        /\ \A q \in Slots \ {c} : st2.slots[q] = st.slots[q]
    BY DeletedIdentity, Values
  <1>2. \A s \in Slots : ~ChildOf(st, s, c)
    BY DEF Deleted, HasChildren
  <1>3. Linked(st) /\ \A q \in Slots : Seated(st, q)
    BY SoundParts
  <1>4. \A s \in Slots : HasParent(st2, s) =>
          s # c /\ HasParent(st, s) /\ st2.slots[s] = st.slots[s]
    BY <1>1 DEF HasParent
  <1>5. ASSUME NEW s \in Slots, HasParent(st2, s)
        PROVE  /\ st2.slots[s] = st.slots[s] /\ HasParent(st, s)
               /\ st.slots[s].parent.slot \in Slots \ {c}
               /\ Resolves(st2, st.slots[s].parent)
    <2>1. st2.slots[s] = st.slots[s] /\ HasParent(st, s)
      BY <1>4, <1>5
    <2>2. Resolves(st, st.slots[s].parent)
      BY <1>3, <2>1 DEF Linked
    <2>3. st.slots[s].parent.slot \in Slots \ {c}
      BY <1>2, <2>1, <2>2, ParentSlot
    <2> QED BY <1>1, <2>1, <2>2, <2>3 DEF Resolves
  <1>6. ASSUME NEW a \in Slots, NEW b \in Slots, ChildOf(st2, a, b) PROVE ChildOf(st, a, b)
    <2>1. HasParent(st2, a) /\ st2.slots[a].parent.slot = b
      BY <1>6, ChildHasParent
    <2>2. st2.slots[a] = st.slots[a] /\ b # c
      BY <1>5, <2>1
    <2> QED BY <1>1, <1>6, <2>2 DEF ChildOf, HandleOf
  <1>7. Linked(st2)
    BY <1>3, <1>5, <1>6, SubtreeShrinks DEF Linked
  <1>8. ASSUME NEW s \in Slots, HasParent(st2, s) PROVE Seated(st2, s)
    BY <1>1, <1>3, <1>5, <1>8, SeatKept
  <1>9. \A s \in Slots : Seated(st2, s)
    BY <1>8 DEF Seated
  <1> QED BY <1>7, <1>9, SoundParts

(* Every step keeps both hierarchies sound. *)
LEMMA SoundStep == TypeInv /\ HierarchySound /\ [Next]_vars => HierarchySound'
  <1> SUFFICES ASSUME TypeInv, HierarchySound, [Next]_vars PROVE HierarchySound'
    OBVIOUS
  <1>1. Sound(world) /\ Sound(staged) /\ staged \in Snapshots
    BY DEF HierarchySound, TypeInv, TypeOK
  <1>2. ASSUME NEW outcomes, Stage(outcomes)
        PROVE  /\ staged' \in outcomes /\ UNCHANGED world
               /\ NextRevision \in 0 .. MaxRevision
    BY <1>2, NextRevisionBound DEF Stage
  <1>3. ASSUME UNCHANGED world, Sound(staged') PROVE HierarchySound'
    BY <1>1, <1>3 DEF HierarchySound
  <1>4. ASSUME NEW n \in TempNames, Create(n) PROVE HierarchySound'
    <2>1. PICK s \in FirstFree(staged) : Stage(Created(staged, s))
      BY <1>4 DEF Create
    <2>2. Sound(staged')
      BY <1>1, <1>2, <2>1, CreatedSound
    <2> QED BY <1>2, <1>3, <2>1, <2>2
  <1>5. ASSUME NEW t \in Targets, NEW v \in Transforms, SetTransform(t, v) PROVE HierarchySound'
    <2>1. Stage(Transformed(staged, Denotes(t), v))
      BY <1>5 DEF SetTransform
    <2>2. Sound(staged')
      BY <1>1, <1>2, <2>1, TransformedSound
    <2> QED BY <1>2, <1>3, <2>1, <2>2
  <1>6. ASSUME NEW t \in Targets, NEW tags \in TagSets, SetTags(t, tags) PROVE HierarchySound'
    <2>1. Stage(Tagged(staged, Denotes(t), tags))
      BY <1>6 DEF SetTags
    <2>2. Sound(staged')
      BY <1>1, <1>2, <2>1, TaggedSound
    <2> QED BY <1>2, <1>3, <2>1, <2>2
  <1>7. ASSUME NEW t \in Targets, NEW p \in Targets, NEW mode \in Modes, Reparent(t, p, mode)
        PROVE  HierarchySound'
    <2>1. Stage(Reparented(staged, Denotes(t), Denotes(p), mode))
      BY <1>7 DEF Reparent
    <2>2. Sound(staged')
      BY <1>1, <1>2, <2>1, ReparentedSound
    <2> QED BY <1>2, <1>3, <2>1, <2>2
  <1>8. ASSUME NEW t \in Targets, NEW mode \in Modes, Unparent(t, mode) PROVE HierarchySound'
    <2>1. Stage(Unparented(staged, Denotes(t), mode))
      BY <1>8 DEF Unparent
    <2>2. Sound(staged')
      BY <1>1, <1>2, <2>1, UnparentedSound
    <2> QED BY <1>2, <1>3, <2>1, <2>2
  <1>9. ASSUME NEW t \in Targets, Delete(t) PROVE HierarchySound'
    <2>1. Stage(Deleted(staged, Denotes(t)))
      BY <1>9 DEF Delete
    <2>2. Sound(staged')
      BY <1>1, <1>2, <2>1, DeletedSound
    <2> QED BY <1>2, <1>3, <2>1, <2>2
  <1>10. ASSUME Commit PROVE HierarchySound'
    <2>1. world'.slots = staged.slots /\ staged' = world'
      BY <1>1, <1>10 DEF Commit, EndBatch, Snapshots
    <2>2. \A s \in Slots : /\ world'.slots[s] = staged.slots[s]
                           /\ Seated(world', s) <=> Seated(staged, s)
      BY <2>1 DEF Seated, HasParent
    <2>3. Linked(world')
      BY <1>1, <2>2, LinksKept, SoundParts DEF SameLinks
    <2>4. Sound(world')
      BY <1>1, <2>2, <2>3, SoundParts
    <2> QED BY <2>1, <2>4 DEF HierarchySound
  <1>11. CASE Reject
    BY <1>1, <1>11 DEF Reject, EndBatch, HierarchySound
  <1>12. ASSUME NEW r \in 0 .. MaxRevision, Begin(r) PROVE HierarchySound'
    BY <1>1, <1>3, <1>12 DEF Begin
  <1>13. CASE UNCHANGED vars
    BY <1>1, <1>3, <1>13 DEF vars
  <1> QED BY <1>4, <1>5, <1>6, <1>7, <1>8, <1>9, <1>10, <1>11, <1>12, <1>13 DEF Next

(* No edit, creation or deletion, alone or within a batch, leaves a child   *)
(* whose parent is gone, a cycle, or a place that is not its parent's       *)
(* composed with its own: whatever the depth of the tree.                   *)
THEOREM HierarchyStaysSound == Spec => []HierarchySound
  <1>1. Init => HierarchySound
    BY DEF Init, HierarchySound, Sound, HasParent, Vacant
  <1> QED BY <1>1, TypeInvInit, TypeInvStep, SoundStep, PTL DEF Spec

-----------------------------------------------------------------------------
(* The copy of a batch has the revision of the world it was made from. *)
Copied == staging => staged.world_revision = world.world_revision

(* create and delete leave the revision of the copy. *)
LEMMA CreateDeleteRevision ==
  ASSUME NEW st \in Snapshots, NextRevision \in 0 .. MaxRevision, NEW st2,
         \/ \E c \in FirstFree(st) : st2 \in Created(st, c)
         \/ \E h : st2 \in Deleted(st, h)
  PROVE  st2.world_revision = st.world_revision
  BY FirstFreeVacant, CreatedIdentity, DeletedIdentity

(* An operation changes neither the world nor the revision of the copy. *)
LEMMA OperationKeeps ==
  ASSUME TypeInv,
         \/ \E n \in TempNames : Create(n)
         \/ \E t \in Targets, v \in Transforms : SetTransform(t, v)
         \/ \E t \in Targets, tags \in TagSets : SetTags(t, tags)
         \/ \E t, p \in Targets, mode \in Modes : Reparent(t, p, mode)
         \/ \E t \in Targets, mode \in Modes : Unparent(t, mode)
         \/ \E t \in Targets : Delete(t)
  PROVE  /\ staging /\ UNCHANGED <<world, staging>>
         /\ staged'.world_revision = staged.world_revision
  <1>1. staged \in Snapshots
    BY DEF TypeInv, TypeOK
  <1>2. ASSUME NEW n \in TempNames, Create(n)
        PROVE  /\ staging /\ UNCHANGED <<world, staging>>
               /\ \E c \in FirstFree(staged) : staged' \in Created(staged, c)
    BY <1>2 DEF Create, Stage
  <1>3. ASSUME NEW t \in Targets, Delete(t)
        PROVE  /\ staging /\ UNCHANGED <<world, staging>>
               /\ \E h : staged' \in Deleted(staged, h)
    BY <1>3 DEF Delete, Stage
  <1>4. staging => NextRevision \in 0 .. MaxRevision
    BY NextRevisionBound
  <1>5. CASE \E n \in TempNames : Create(n)
    BY <1>1, <1>2, <1>4, <1>5, CreateDeleteRevision
  <1>6. CASE \E t \in Targets : Delete(t)
    BY <1>1, <1>3, <1>4, <1>6, CreateDeleteRevision
  <1> QED BY <1>5, <1>6, EditActions DEF Edited

(* A batch never sees the world move under its copy. *)
LEMMA CopiedStep == TypeInv /\ Copied /\ [Next]_vars => Copied'
  <1> SUFFICES ASSUME TypeInv, Copied, [Next]_vars PROVE Copied'
    OBVIOUS
  <1>1. ASSUME NEW r \in 0 .. MaxRevision, Begin(r) PROVE Copied'
    BY <1>1 DEF Begin, TypeInv, Settled, Copied
  <1>2. CASE \/ \E n \in TempNames : Create(n)
             \/ \E t \in Targets, v \in Transforms : SetTransform(t, v)
             \/ \E t \in Targets, tags \in TagSets : SetTags(t, tags)
             \/ \E t, p \in Targets, mode \in Modes : Reparent(t, p, mode)
             \/ \E t \in Targets, mode \in Modes : Unparent(t, mode)
             \/ \E t \in Targets : Delete(t)
    BY <1>2, OperationKeeps DEF Copied
  <1>3. CASE Commit \/ Reject
    BY <1>3 DEF Commit, Reject, EndBatch, Copied
  <1>4. CASE UNCHANGED vars
    BY <1>4 DEF vars, Copied
  <1> QED BY <1>1, <1>2, <1>3, <1>4 DEF Next

-----------------------------------------------------------------------------
(* The recorder.  A batch is only prepared at the end of the records, and  *)
(* the first batch of somebody else leaves that end behind for good.       *)

Records == [sequence : Nat, expected_revision : Nat, boundary_tick : Nat]

\* The records end where the recorder believes, at or behind the world.
Stand ==
  /\ records \in Seq(Records) /\ head = Len(records)
  /\ head <= world.world_revision
  /\ world.world_revision = head => checkpoint = world

\* A prepared record is the next one.
Follows ==
  prepared # NoRecord =>
    /\ staging /\ world.world_revision = head
    /\ prepared \in Records /\ Len(records) < EntryLimit
    /\ prepared.sequence = head + 1 /\ prepared.expected_revision = head
    /\ head > 0 => prepared.boundary_tick >= records[head].boundary_tick

ReplayInv == TypeInv /\ Copied /\ Stand /\ Follows /\ Preflight(records)

LEMMA ReplayInitInv == ReplayInit => ReplayInv
<1> SUFFICES ASSUME ReplayInit PROVE ReplayInv
  OBVIOUS
<1>1. TypeInv
  BY TypeInvInit DEF ReplayInit
<1>2. /\ records = <<>> /\ head = 0 /\ checkpoint = world /\ prepared = NoRecord /\ ~staging
      /\ world.world_revision = 0
  BY DEF ReplayInit, Init
<1>3. Stand /\ Follows /\ Copied
  BY <1>2 DEF Stand, Follows, Copied
<1>4. Preflight(records)
  BY <1>2, ReplayAssumption DEF Preflight
<1> QED
  BY <1>1, <1>3, <1>4 DEF ReplayInv

(***************************************************************************)
(* An operation changes neither the world nor the revision of the copy.    *)
(***************************************************************************)
LEMMA OperationStep ==
  ASSUME TypeInv, Operation
  PROVE  /\ TypeInv'
         /\ UNCHANGED <<world, staging, recorder, prepared>>
         /\ staged'.world_revision = staged.world_revision
<1>1. TypeInv'
  BY TypeInvStep DEF Operation, Next
<1>2. UNCHANGED <<recorder, prepared>>
  BY DEF Operation
<1> QED
  BY <1>1, <1>2, OperationKeeps DEF Operation

(***************************************************************************)
(* A commit takes the world to its next revision.                          *)
(***************************************************************************)
LEMMA CommitStep ==
  ASSUME TypeInv, Copied, Commit
  PROVE  /\ TypeInv' /\ Copied'
         /\ world'.world_revision = world.world_revision + 1
         /\ world.world_revision \in Nat
<1>1. TypeInv'
  BY TypeInvStep DEF Next
<1>2. staging /\ staged.world_revision = world.world_revision
  BY DEF Copied, Commit
<1>3. world'.world_revision = NextRevision
  BY DEF Commit, TypeInv, TypeOK, Snapshots
<1>4. world.world_revision \in Nat
  BY DEF TypeInv, TypeOK, Snapshots
<1>5. Copied'
  BY DEF Commit, EndBatch, Copied
<1> QED
  BY <1>1, <1>2, <1>3, <1>4, <1>5 DEF NextRevision

(***************************************************************************)
(* Appending the prepared record keeps the log one that preflight accepts. *)
(***************************************************************************)
LEMMA AppendRecord ==
  ASSUME Stand, Follows, Preflight(records), prepared # NoRecord,
         records' = Append(records, prepared)
  PROVE  /\ records' \in Seq(Records) /\ Len(records') = Len(records) + 1
         /\ Preflight(records')
<1> DEFINE n == Len(records)
<1>1. /\ records \in Seq(Records) /\ prepared \in Records /\ n \in Nat /\ n < EntryLimit
      /\ prepared.sequence = n + 1 /\ prepared.expected_revision = n
      /\ n > 0 => prepared.boundary_tick >= records[n].boundary_tick
  BY DEF Stand, Follows
<1>2. /\ records' \in Seq(Records) /\ Len(records') = n + 1
      /\ \A i \in 1 .. n : records'[i] = records[i]
      /\ records'[n + 1] = prepared
  BY <1>1
<1>3. ASSUME NEW i \in 1 .. n
      PROVE  /\ records[i].sequence = i /\ records[i].expected_revision = i - 1
             /\ i > 1 => records[i].boundary_tick >= records[i - 1].boundary_tick
  BY <1>1 DEF Preflight
<1>4. ASSUME NEW i \in 1 .. n + 1
      PROVE  /\ records'[i].sequence = i /\ records'[i].expected_revision = i - 1
             /\ i > 1 => records'[i].boundary_tick >= records'[i - 1].boundary_tick
  <2>1. CASE i \in 1 .. n
    BY <1>1, <1>2, <1>3, <2>1
  <2>2. CASE i = n + 1
    BY <1>1, <1>2, <2>2
  <2> QED
    BY <1>1, <2>1, <2>2
<1>5. Len(records') <= EntryLimit
  BY <1>1, <1>2, ReplayAssumption
<1>6. DOMAIN records' = 1 .. n + 1
  BY <1>1, <1>2
<1>7. Preflight(records')
  BY <1>4, <1>5, <1>6 DEF Preflight
<1> QED
  BY <1>2, <1>7

(***************************************************************************)
(* Every step keeps the invariant.                                         *)
(***************************************************************************)
LEMMA ReplayStepInv == ReplayInv /\ [ReplayNext]_replayVars => ReplayInv'
<1> SUFFICES ASSUME ReplayInv, [ReplayNext]_replayVars PROVE ReplayInv'
  OBVIOUS
<1>1. TypeInv /\ Copied /\ Stand /\ Follows /\ Preflight(records)
  BY DEF ReplayInv
<1>2. world.world_revision \in Nat /\ head \in Nat
  BY <1>1 DEF TypeInv, TypeOK, Snapshots, Stand
<1>3. ASSUME NEW r \in 0 .. MaxRevision, NEW tick \in Ticks, BeginRecorded(r, tick)
      PROVE  ReplayInv'
  <2>1. TypeInv'
    BY <1>1, <1>3, TypeInvStep DEF BeginRecorded, Next
  <2>2. /\ ~staging /\ staging' /\ staged = world
        /\ UNCHANGED <<world, staged, records, head, checkpoint>>
    BY <1>1, <1>3 DEF BeginRecorded, Begin, recorder, TypeInv, Settled
  <2>3. Copied' /\ Stand' /\ Preflight(records')
    BY <1>1, <2>2 DEF Copied, Stand, Preflight
  <2>4. Follows'
    BY <1>1, <1>2, <1>3, <2>2, ReplayAssumption DEF BeginRecorded, Follows, Records, Stand
  <2> QED
    BY <2>1, <2>3, <2>4 DEF ReplayInv
<1>4. ASSUME NEW r \in 0 .. MaxRevision, BeginElsewhere(r)
      PROVE  ReplayInv'
  <2>1. TypeInv'
    BY <1>1, <1>4, TypeInvStep DEF BeginElsewhere, Next
  <2>2. /\ ~staging /\ staged = world
        /\ UNCHANGED <<world, staged, records, head, checkpoint, prepared>>
    BY <1>1, <1>4 DEF BeginElsewhere, Begin, recorder, TypeInv, Settled
  <2> QED
    BY <1>1, <2>1, <2>2 DEF ReplayInv, Copied, Stand, Follows, Preflight
<1>5. CASE Operation
  <2>1. /\ TypeInv' /\ UNCHANGED <<world, staging, recorder, prepared>>
        /\ staged'.world_revision = staged.world_revision
    BY <1>1, <1>5, OperationStep
  <2> QED
    BY <1>1, <2>1 DEF ReplayInv, Copied, Stand, Follows, Preflight, recorder
<1>6. CASE CommitBatch
  <2>1. /\ TypeInv' /\ Copied' /\ world'.world_revision = world.world_revision + 1
    BY <1>1, <1>6, CommitStep DEF CommitBatch
  <2>2. prepared' = NoRecord /\ Follows'
    BY <1>6 DEF CommitBatch, EndRecord, Follows
  <2>3. CASE prepared = NoRecord
    <3>1. UNCHANGED <<records, head, checkpoint>>
      BY <1>6, <2>3 DEF CommitBatch, Published, recorder
    <3> QED
      BY <1>1, <1>2, <2>1, <2>2, <3>1 DEF ReplayInv, Stand, Preflight
  <2>4. CASE prepared # NoRecord
    <3>1. records' = Append(records, prepared) /\ head' = head + 1 /\ checkpoint' = world'
      BY <1>6, <2>4 DEF CommitBatch, Published
    <3>2. /\ records' \in Seq(Records) /\ Len(records') = Len(records) + 1
          /\ Preflight(records')
      BY <1>1, <2>4, <3>1, AppendRecord
    <3>3. world.world_revision = head
      BY <1>1, <2>4 DEF Follows
    <3>4. Stand'
      BY <1>1, <1>2, <2>1, <3>1, <3>2, <3>3 DEF Stand
    <3> QED
      BY <2>1, <2>2, <3>2, <3>4 DEF ReplayInv
  <2> QED
    BY <2>3, <2>4
<1>7. CASE RejectBatch
  <2>1. TypeInv'
    BY <1>1, <1>7, TypeInvStep DEF RejectBatch, Next
  <2>2. /\ UNCHANGED <<world, records, head, checkpoint>> /\ prepared' = NoRecord /\ ~staging'
    BY <1>7 DEF RejectBatch, Reject, EndRecord, EndBatch, recorder
  <2> QED
    BY <1>1, <2>1, <2>2 DEF ReplayInv, Copied, Stand, Follows, Preflight
<1>8. CASE UNCHANGED replayVars
  <2>1. TypeInv'
    BY <1>1, <1>8, TypeInvStep DEF replayVars
  <2> QED
    BY <1>1, <1>8, <2>1 DEF ReplayInv, Copied, Stand, Follows, Preflight, replayVars, recorder, vars
<1> QED
  BY <1>3, <1>4, <1>5, <1>6, <1>7, <1>8 DEF ReplayNext

(***************************************************************************)
(* Whatever was recorded, rejected or written by others, a log that can be *)
(* exported is complete, accepted by preflight and ends in the world.      *)
(***************************************************************************)
THEOREM RecordingInStep == ReplaySpec => []ExportsReplay
<1>1. ReplayInv => ExportsReplay
  BY DEF ReplayInv, Stand, ExportsReplay, Exports
<1> QED
  BY ReplayInitInv, ReplayStepInv, <1>1, PTL DEF ReplaySpec

\* A step of the recorder is one of the coordinator.
LEMMA RecorderSteps == (ReplayInit => Init) /\ ([ReplayNext]_replayVars => [Next]_vars)
  BY DEF ReplayInit, ReplayNext, replayVars, BeginRecorded, BeginElsewhere, Operation,
         CommitBatch, RejectBatch, Next

(***************************************************************************)
(* The recorder drives the coordinator by the coordinator's own steps.     *)
(***************************************************************************)
THEOREM RecorderImplementsCoordinator == ReplaySpec => Spec
  BY RecorderSteps, PTL DEF ReplaySpec, Spec

-----------------------------------------------------------------------------
(* The stamps of a batch.  Each pass of subtree stamps what is below its    *)
(* root at that moment; the invariant speaks of the hierarchy as it is now. *)
(* They agree because an entity only enters or leaves a subtree when the    *)
(* link of one above it changes, and then the pass behind that change       *)
(* stamps it itself.                                                        *)

\* When only the link of c changes, subtrees differ by nothing but what ends below c.
LEMMA Relinked ==
  ASSUME NEW st, NEW st2, NEW c \in Slots,
         \A a \in Slots \ {c}, b \in Slots : ChildOf(st2, a, b) <=> ChildOf(st, a, b),
         NEW p \in Slots, NEW s \in Slots, s \notin Subtree(st2, c)
  PROVE  s \in Subtree(st2, p) <=> s \in Subtree(st, p)
  <1>1. Subtree(st2, p) \subseteq Subtree(st, p) \cup Subtree(st2, c)
    <2> DEFINE S == Subtree(st, p) \cup Subtree(st2, c)
    <2>1. S \in SUBSET Slots /\ p \in S
      BY SubtreeClosed
    <2>2. \A b \in S, a \in Slots : ChildOf(st2, a, b) => a \in S
      BY SubtreeClosed
    <2> HIDE DEF S
    <2>3. Subtree(st2, p) \subseteq S
      BY <2>1, <2>2, SubtreeLeast
    <2> QED BY <2>3 DEF S
  <1>2. Subtree(st, p) \subseteq Subtree(st2, p) \cup Subtree(st2, c)
    <2> DEFINE S == Subtree(st2, p) \cup Subtree(st2, c)
    <2>1. S \in SUBSET Slots /\ p \in S
      BY SubtreeClosed
    <2>2. \A b \in S, a \in Slots : ChildOf(st, a, b) => a \in S
      BY SubtreeClosed
    <2> HIDE DEF S
    <2>3. Subtree(st, p) \subseteq S
      BY <2>1, <2>2, SubtreeLeast
    <2> QED BY <2>3 DEF S
  <1> QED BY <1>1, <1>2

\* The live records of st in A, or below B, carry the revision to come; the others are w's.
Exactly(w, st, A, B) ==
  \A s \in Slots : st.slots[s].live =>
    IF s \in A \cup Below(st, B) THEN st.slots[s].authoring_revision = NextRevision
                                 ELSE st.slots[s] = w.slots[s]

\* An operation that places c extends what is stamped by what is below c.
LEMMA PlacesExactly ==
  ASSUME NEW w, NEW st \in Snapshots, NEW st2, NEW A \in SUBSET Slots, NEW B \in SUBSET Slots,
         NEW c \in Slots, Edited(st, st2), Places(st, st2, c), Exactly(w, st, A, B)
  PROVE  Exactly(w, st2, A, B \cup {c})
  <1>1. \A a \in Slots \ {c}, b \in Slots : ChildOf(st2, a, b) <=> ChildOf(st, a, b)
    BY DEF Edited, SameIdentities, Places, ChildOf, HandleOf
  <1> SUFFICES ASSUME NEW s \in Slots, st2.slots[s].live
               PROVE  IF s \in A \cup Below(st2, B \cup {c})
                        THEN st2.slots[s].authoring_revision = NextRevision
                        ELSE st2.slots[s] = w.slots[s]
    BY DEF Exactly
  <1>2. CASE s \in Subtree(st2, c)
    <2>1. s \in Below(st2, B \cup {c})
      BY <1>2 DEF Below
    <2> QED BY <1>2, <2>1 DEF Places, StampsOnly
  <1>3. CASE s \notin Subtree(st2, c)
    <2>1. st2.slots[s] = st.slots[s]
      BY <1>3 DEF Places, StampsOnly
    <2>2. \A p \in Slots : s \in Subtree(st2, p) <=> s \in Subtree(st, p)
      BY <1>1, <1>3, Relinked
    <2>3. s \in Below(st2, B \cup {c}) <=> s \in Below(st, B)
      BY <1>3, <2>2 DEF Below
    <2> QED BY <2>1, <2>3 DEF Exactly
  <1> QED BY <1>2, <1>3

\* An operation that stamps c alone and leaves all links extends it by c.
LEMMA MarksExactly ==
  ASSUME NEW w, NEW st \in Snapshots, NEW st2, NEW A \in SUBSET Slots, NEW B \in SUBSET Slots,
         NEW c \in Slots, StampsOnly(st, st2, {c}), Exactly(w, st, A, B),
         \A a, b \in Slots : ChildOf(st2, a, b) <=> ChildOf(st, a, b)
  PROVE  Exactly(w, st2, A \cup {c}, B)
  <1>1. \A p \in Slots : Subtree(st2, p) = Subtree(st, p)
    <2> SUFFICES ASSUME NEW p \in Slots PROVE Subtree(st2, p) = Subtree(st, p)
      OBVIOUS
    <2>1. Subtree(st2, p) \subseteq Subtree(st, p)
      BY SubtreeShrinks
    <2>2. Subtree(st, p) \subseteq Subtree(st2, p)
      BY SubtreeShrinks
    <2> QED BY <2>1, <2>2
  <1>2. Below(st2, B) = Below(st, B)
    BY <1>1 DEF Below
  <1> QED BY <1>2 DEF Exactly, StampsOnly

\* A childless entity has nothing below it.
LEMMA ChildlessSubtree ==
  ASSUME NEW st, NEW c \in Slots, \A a \in Slots : ~ChildOf(st, a, c)
  PROVE  Subtree(st, c) = {c}
  <1> DEFINE S == {c}
  <1>1. S \in SUBSET Slots /\ c \in S
    OBVIOUS
  <1>2. \A p \in S, a \in Slots : ChildOf(st, a, p) => a \in S
    OBVIOUS
  <1> HIDE DEF S
  <1>3. Subtree(st, c) \subseteq S
    BY <1>1, <1>2, SubtreeLeast
  <1> QED BY <1>3, SubtreeClosed DEF S

\* create adds an entity nobody is a child of.
LEMMA CreatedExactly ==
  ASSUME NEW w, NEW st \in Snapshots, Sound(st), NextRevision \in 0 .. MaxRevision,
         NEW A \in SUBSET Slots, NEW B \in SUBSET Slots,
         NEW c \in FirstFree(st), NEW st2 \in Created(st, c), Exactly(w, st, A, B)
  PROVE  Exactly(w, st2, A \cup {c}, B)
  <1>1. c \in Slots /\ (st.slots[c].generation = 0 \/ ~st.slots[c].live)
    BY FirstFreeVacant
  <1>2. /\ st2.slots[c].parent = NoHandle /\ st2.slots[c].authoring_revision = NextRevision
        /\ \A q \in Slots \ {c} : st2.slots[q] = st.slots[q]
    <2>1. st2.slots[c] = Occupied(NewGeneration(st, c))
      BY <1>1 DEF Created, NewGeneration, Appended, Snapshots
    <2> QED BY <1>1, <2>1, CreatedIdentity DEF Occupied, Vacant
  <1>3. \A a \in Slots : HasParent(st, a) => st.slots[a].parent.slot # c
    BY <1>1, Values, SoundParts DEF Linked, Resolves
  <1>4. \A a \in Slots : ~ChildOf(st, a, c) /\ ~ChildOf(st2, a, c)
    <2> SUFFICES ASSUME NEW a \in Slots PROVE ~ChildOf(st, a, c) /\ ~ChildOf(st2, a, c)
      OBVIOUS
    <2>1. ~ChildOf(st, a, c)
      BY <1>1, <1>3, ChildHasParent
    <2>2. ~ChildOf(st2, a, c)
      BY <1>1, <1>2, <1>3, ChildHasParent DEF HasParent
    <2> QED BY <2>1, <2>2
  <1>5. \A a \in Slots \ {c}, b \in Slots : ChildOf(st2, a, b) <=> ChildOf(st, a, b)
    BY <1>2, <1>4 DEF ChildOf, HandleOf
  <1> SUFFICES ASSUME NEW s \in Slots, st2.slots[s].live
               PROVE  IF s \in A \cup {c} \cup Below(st2, B)
                        THEN st2.slots[s].authoring_revision = NextRevision
                        ELSE st2.slots[s] = w.slots[s]
    BY DEF Exactly
  <1>6. CASE s # c
    <2>1. s \notin Subtree(st2, c)
      BY <1>1, <1>4, <1>6, ChildlessSubtree
    <2>2. \A p \in Slots : s \in Subtree(st2, p) <=> s \in Subtree(st, p)
      BY <1>1, <1>5, <2>1, Relinked
    <2>3. s \in Below(st2, B) <=> s \in Below(st, B)
      BY <2>2 DEF Below
    <2> QED BY <1>2, <1>6, <2>3 DEF Exactly
  <1> QED BY <1>2, <1>6

\* delete takes one away.
LEMMA DeletedExactly ==
  ASSUME NEW w, NEW st \in Snapshots, Sound(st),
         NEW A \in SUBSET Slots, NEW B \in SUBSET Slots,
         NEW h, NEW st2 \in Deleted(st, h), Exactly(w, st, A, B)
  PROVE  Exactly(w, st2, A \ {h.slot}, B \ {h.slot})
  <1> DEFINE c == h.slot
  <1>1. /\ ~st2.slots[c].live /\ c \in Slots
        /\ \A q \in Slots \ {c} : st2.slots[q] = st.slots[q]
    BY DeletedIdentity, Values
  <1>2. \A a \in Slots : ~ChildOf(st, a, c)
    BY DEF Deleted, HasChildren
  <1>3. \A a \in Slots : HasParent(st, a) => st.slots[a].parent.slot # c
    BY <1>1, <1>2, SoundParts, ParentSlot DEF Linked
  <1>4. \A a \in Slots : ~ChildOf(st2, a, c)
    BY <1>1, <1>3, ChildHasParent DEF HasParent
  <1>5. \A a \in Slots \ {c}, b \in Slots : ChildOf(st2, a, b) <=> ChildOf(st, a, b)
    BY <1>1, <1>2, <1>4 DEF ChildOf, HandleOf
  <1> SUFFICES ASSUME NEW s \in Slots, st2.slots[s].live
               PROVE  IF s \in (A \ {c}) \cup Below(st2, B \ {c})
                        THEN st2.slots[s].authoring_revision = NextRevision
                        ELSE st2.slots[s] = w.slots[s]
    BY DEF Exactly
  <1>6. s # c /\ st2.slots[s] = st.slots[s]
    BY <1>1
  <1>7. s \notin Subtree(st, c) /\ s \notin Subtree(st2, c)
    BY <1>1, <1>2, <1>4, <1>6, ChildlessSubtree
  <1>8. \A p \in Slots : s \in Subtree(st2, p) <=> s \in Subtree(st, p)
    BY <1>1, <1>5, <1>7, Relinked
  <1>9. s \in Below(st2, B \ {c}) <=> s \in Below(st, B)
    BY <1>7, <1>8 DEF Below
  <1> QED BY <1>6, <1>9 DEF Exactly

StampInv ==
  /\ marked \subseteq Slots /\ moved \subseteq Slots
  /\ ~staging => marked = {} /\ moved = {}
  /\ staging => Exactly(world, staged, marked, moved)

ExactInv == TypeInv /\ HierarchySound /\ Copied /\ StampInv

\* An operation's outcome, with what it adds to the history, keeps the stamps.
LEMMA OperationStamps == ExactInv /\ Operation => StampInv'
  <1> SUFFICES ASSUME ExactInv, Operation PROVE StampInv'
    OBVIOUS
  <1>1. /\ TypeInv /\ Sound(staged) /\ staged \in Snapshots
        /\ marked \in SUBSET Slots /\ moved \in SUBSET Slots
    BY DEF ExactInv, HierarchySound, StampInv, TypeInv, TypeOK
  <1>2. /\ staging /\ UNCHANGED <<world, staging>> /\ NextRevision' = NextRevision
        /\ NextRevision \in 0 .. MaxRevision
    BY <1>1, OperationKeeps, NextRevisionBound DEF Operation, NextRevision
  <1>3. Exactly(world, staged, marked, moved)
    BY <1>2 DEF ExactInv, StampInv
  <1>4. ASSUME marked' \subseteq Slots, moved' \subseteq Slots,
               Exactly(world, staged', marked', moved')
        PROVE  StampInv'
    BY <1>2, <1>4 DEF StampInv, Exactly, Below
  <1>5. ASSUME NEW n \in TempNames, Create(n), marked' = marked \cup {names'[n].slot},
               UNCHANGED moved
        PROVE  StampInv'
    <2>1. PICK c \in FirstFree(staged) :
            staged' \in Created(staged, c) /\ names' = [names EXCEPT ![n] = HandleOf(staged', c)]
      BY <1>5 DEF Create, Stage
    <2>2. names'[n].slot = c /\ c \in Slots
      BY <1>1, <2>1, FirstFreeVacant DEF TypeInv, TypeOK, HandleOf
    <2>3. Exactly(world, staged', marked \cup {c}, moved)
      BY <1>1, <1>2, <1>3, <2>1, CreatedExactly
    <2> QED BY <1>1, <1>4, <1>5, <2>2, <2>3
  <1>6. ASSUME NEW t \in Targets, NEW tags \in TagSets, SetTags(t, tags),
               marked' = marked \cup {Denotes(t).slot}, UNCHANGED moved
        PROVE  StampInv'
    <2> DEFINE h == Denotes(t)
    <2>1. staged' \in Tagged(staged, h, tags) /\ h.slot \in Slots
      BY <1>6, Values DEF SetTags, Stage, Tagged, Resolves
    <2> HIDE DEF h
    <2>2. StampsOnly(staged, staged', {h.slot}) /\ SameLinks(staged, staged')
      BY <1>1, <1>2, <2>1, TaggedEdits
    <2>3. \A a, b \in Slots : ChildOf(staged', a, b) <=> ChildOf(staged, a, b)
      BY <2>2 DEF SameLinks, ChildOf, HandleOf
    <2>4. Exactly(world, staged', marked \cup {h.slot}, moved)
      BY <1>1, <1>3, <2>1, <2>2, <2>3, MarksExactly
    <2> QED BY <1>1, <1>4, <1>6, <2>1, <2>4 DEF h
  <1>7. ASSUME NEW c \in Slots, Edited(staged, staged'), Places(staged, staged', c),
               moved' = moved \cup {c}, UNCHANGED marked
        PROVE  StampInv'
    <2>1. Exactly(world, staged', marked, moved \cup {c})
      BY <1>1, <1>3, <1>7, PlacesExactly
    <2> QED BY <1>1, <1>4, <1>7, <2>1
  <1>8. ASSUME NEW t \in Targets, UNCHANGED marked, moved' = moved \cup {Denotes(t).slot},
               \/ \E v \in Transforms : SetTransform(t, v)
               \/ \E p \in Targets, mode \in Modes : Reparent(t, p, mode)
               \/ \E mode \in Modes : Unparent(t, mode)
        PROVE  StampInv'
    <2> DEFINE h == Denotes(t)
    <2>1. \/ \E v \in Transforms : staged' \in Transformed(staged, h, v)
          \/ \E ph, mode : staged' \in Reparented(staged, h, ph, mode)
          \/ \E mode : staged' \in Unparented(staged, h, mode)
      BY <1>8 DEF SetTransform, Reparent, Unparent, Stage
    <2> HIDE DEF h
    <2>2. h.slot \in Slots
      BY <2>1, Values DEF Transformed, Reparented, Unparented, Resolves
    <2>3. Edited(staged, staged') /\ Places(staged, staged', h.slot)
      BY <1>1, <1>2, <2>1, TransformedEdits, ReparentedEdits, UnparentedEdits
    <2> QED BY <1>7, <1>8, <2>2, <2>3 DEF h
  <1>9. ASSUME NEW t \in Targets, Delete(t), marked' = marked \ {Denotes(t).slot},
               moved' = moved \ {Denotes(t).slot}
        PROVE  StampInv'
    <2>1. staged' \in Deleted(staged, Denotes(t))
      BY <1>9 DEF Delete, Stage
    <2>2. Exactly(world, staged', marked', moved')
      BY <1>1, <1>3, <1>9, <2>1, DeletedExactly
    <2> QED BY <1>1, <1>4, <1>9, <2>2
  <1> QED BY <1>5, <1>6, <1>8, <1>9 DEF Operation

\* Every step keeps them.
LEMMA StampStep == ExactInv /\ [ReplayNext]_replayVars => StampInv'
  <1> SUFFICES ASSUME ExactInv, [ReplayNext]_replayVars PROVE StampInv'
    OBVIOUS
  <1>1. ASSUME NEW r \in 0 .. MaxRevision, Begin(r), UNCHANGED batch PROVE StampInv'
    <2>1. /\ staged' = staged /\ world' = world /\ staged = world
          /\ marked' = {} /\ moved' = {}
      BY <1>1 DEF Begin, batch, ExactInv, TypeInv, Settled, StampInv
    <2>2. Exactly(world', staged', marked', moved')
      BY <2>1 DEF Exactly, Below
    <2> QED BY <2>1, <2>2 DEF StampInv, Exactly, NextRevision
  <1>2. CASE CommitBatch \/ RejectBatch
    BY <1>2 DEF CommitBatch, RejectBatch, EndRecord, Commit, Reject, EndBatch, StampInv
  <1>3. CASE UNCHANGED replayVars
    BY <1>3 DEF replayVars, vars, batch, ExactInv, StampInv, Exactly, Below, NextRevision
  <1> QED BY <1>1, <1>2, <1>3, OperationStamps DEF ReplayNext, BeginRecorded, BeginElsewhere

(* A commit stamps its revision on exactly the entities its operations      *)
(* created or edited and those below one they moved, in the hierarchy it    *)
(* commits, and leaves every other entity as it was: for every batch, every *)
(* order of links made and cut in it, and every depth of the tree.          *)
THEOREM EditsCarryTheRevision == ReplaySpec => EditsAreStamped
  <1> DEFINE Fresh ==
        world' # world =>
          /\ world'.world_revision = world.world_revision + 1
          /\ \A s \in Slots : world'.slots[s].live =>
               IF s \in Reached(world')
                 THEN world'.slots[s].authoring_revision = world'.world_revision
                 ELSE world'.slots[s] = world.slots[s]
  <1>1. ExactInv /\ [ReplayNext]_replayVars => [Fresh]_replayVars
    <2> SUFFICES ASSUME ExactInv, ReplayNext PROVE Fresh
      OBVIOUS
    <2>1. CASE CommitBatch
      <3>1. /\ staging /\ world'.world_revision = NextRevision /\ world'.slots = staged.slots
            /\ world'.world_revision = world.world_revision + 1
        BY <2>1 DEF CommitBatch, Commit, ExactInv, Copied, TypeInv, TypeOK, Snapshots, NextRevision
      <3>2. \A p \in Slots : Subtree(world', p) = Subtree(staged, p)
        BY <3>1, LinksKept DEF SameLinks
      <3>3. Reached(world') = marked \cup Below(staged, moved)
        BY <3>2 DEF Reached, Below, ExactInv, StampInv
      <3> QED BY <3>1, <3>3 DEF ExactInv, StampInv, Exactly
    <2>2. CASE ~CommitBatch
      BY <2>2, OperationKeeps DEF ReplayNext, BeginRecorded, BeginElsewhere, Begin, Operation,
         RejectBatch, Reject, ExactInv
    <2> QED BY <2>1, <2>2
  <1>2. ReplayInit => StampInv
    BY DEF ReplayInit, Init, StampInv
  <1>3. Init => Copied /\ HierarchySound
    BY DEF Init, Copied, HierarchySound, Sound, HasParent, Vacant
  <1>4. ExactInv <=> TypeInv /\ HierarchySound /\ Copied /\ StampInv
    BY DEF ExactInv
  <1> QED BY <1>1, <1>2, <1>3, <1>4, RecorderSteps, TypeInvInit, TypeInvStep, SoundStep,
             CopiedStep, StampStep, PTL DEF ReplaySpec, EditsAreStamped

-----------------------------------------------------------------------------
(* The authoring history.  What a list of operations makes of a content is *)
(* stated by its last writers: an attribute has the value of the last      *)
(* operation that sets it, or the one it had.  The operations that set an  *)
(* entity's transform are on entities without links, so that nothing else  *)
(* moves with them; and an inverse sets what its batch set, everywhere to  *)
(* the value before the batch, in whatever order.                          *)

Contents ==
  [Slots -> (0 .. MaxGeneration) \X BOOLEAN \X Transforms \X (Handles \cup {NoHandle})
              \X Transforms \X TagSets]

Kinds == {"transform", "tags"}
Column(kind) == IF kind = "transform" THEN 3 ELSE 6

\* The operation sets that attribute of that slot's entity.
Alters(op, kind, s) == op.kind = kind /\ op.handle.slot = s

Untouched(ops, kind, s) == \A i \in DOMAIN ops : ~Alters(ops[i], kind, s)

LastOf(ops, kind, s, i) ==
  /\ i \in DOMAIN ops /\ Alters(ops[i], kind, s)
  /\ \A j \in DOMAIN ops : j > i => ~Alters(ops[j], kind, s)

\* The operations turn content c into content d.
TurnsAt(c, ops, d, s) ==
  /\ d[s][1] = c[s][1] /\ d[s][2] = c[s][2] /\ d[s][4] = c[s][4] /\ d[s][5] = c[s][5]
  /\ \A kind \in Kinds :
       /\ Untouched(ops, kind, s) => d[s][Column(kind)] = c[s][Column(kind)]
       /\ \A i \in DOMAIN ops : LastOf(ops, kind, s, i) => d[s][Column(kind)] = ops[i].value

Turns(c, ops, d) == \A s \in Slots : TurnsAt(c, ops, d, s)

\* No operation moves an entity that has a parent or children.
FitsAt(c, op) ==
  op.kind = "transform" =>
    LET s == op.handle.slot IN
    /\ ~(c[s][2] /\ c[s][4] # NoHandle)
    /\ \A q \in Slots : ~(c[q][2] /\ c[q][4] = [slot |-> s, generation |-> c[s][1]])

Fits(c, ops) == \A i \in DOMAIN ops : FitsAt(c, ops[i])

\* The content after one operation.
Written(c, op) ==
  [s \in Slots |->
     IF s # op.handle.slot THEN c[s]
     ELSE IF op.kind = "transform" THEN <<c[s][1], c[s][2], op.value, c[s][4], c[s][5], c[s][6]>>
     ELSE <<c[s][1], c[s][2], c[s][3], c[s][4], c[s][5], op.value>>]

LEMMA ContentOf ==
  ASSUME NEW st \in Snapshots
  PROVE  /\ Content(st) \in Contents
         /\ \A s \in Slots :
              /\ Content(st)[s] = <<st.slots[s].generation, st.slots[s].live, st.slots[s].transform,
                                    st.slots[s].parent, st.slots[s].local_transform, st.slots[s].tags>>
              /\ Content(st)[s][1] = st.slots[s].generation /\ Content(st)[s][2] = st.slots[s].live
              /\ Content(st)[s][3] = st.slots[s].transform /\ Content(st)[s][4] = st.slots[s].parent
              /\ Content(st)[s][5] = st.slots[s].local_transform
              /\ Content(st)[s][6] = st.slots[s].tags
  <1>1. \A s \in Slots : st.slots[s] \in SlotRecords
    BY DEF Snapshots
  <1> QED BY <1>1 DEF Content, Contents, Authored, SlotRecords

LEMMA OperationFields ==
  ASSUME NEW op \in Operations
  PROVE  /\ op.kind \in Kinds /\ op.handle \in Handles /\ op.handle.slot \in Slots
         /\ op.kind = "transform" => op.value \in Transforms
         /\ op.kind = "tags" => op.value \in TagSets
  <1>1. op.kind \in Kinds /\ op.handle \in Handles
        /\ (op.kind = "transform" => op.value \in Transforms)
        /\ (op.kind = "tags" => op.value \in TagSets)
    BY DEF Operations, Kinds
  <1> QED BY <1>1, Values

LEMMA WrittenColumns ==
  ASSUME NEW c \in Contents, NEW op \in Operations
  PROVE  /\ Written(c, op) \in Contents
         /\ \A s \in Slots :
              /\ Written(c, op)[s][1] = c[s][1] /\ Written(c, op)[s][2] = c[s][2]
              /\ Written(c, op)[s][4] = c[s][4] /\ Written(c, op)[s][5] = c[s][5]
              /\ \A kind \in Kinds : Written(c, op)[s][Column(kind)]
                                       = IF Alters(op, kind, s) THEN op.value ELSE c[s][Column(kind)]
  <1> DEFINE w == Written(c, op)
  <1>1. /\ op.kind \in Kinds /\ op.handle.slot \in Slots
        /\ op.kind = "transform" => op.value \in Transforms
        /\ op.kind = "tags" => op.value \in TagSets
    BY OperationFields
  <1>2. ASSUME NEW s \in Slots
        PROVE  /\ w[s] \in (0 .. MaxGeneration) \X BOOLEAN \X Transforms \X (Handles \cup {NoHandle})
                             \X Transforms \X TagSets
               /\ w[s][1] = c[s][1] /\ w[s][2] = c[s][2] /\ w[s][4] = c[s][4] /\ w[s][5] = c[s][5]
               /\ \A kind \in Kinds : w[s][Column(kind)]
                                       = IF Alters(op, kind, s) THEN op.value ELSE c[s][Column(kind)]
    <2>1. c[s] \in (0 .. MaxGeneration) \X BOOLEAN \X Transforms \X (Handles \cup {NoHandle})
                     \X Transforms \X TagSets
      BY DEF Contents
    <2>2. CASE s # op.handle.slot
      BY <2>1, <2>2 DEF Written, Alters
    <2>3. CASE s = op.handle.slot /\ op.kind = "transform"
      <3>1. w[s] = <<c[s][1], c[s][2], op.value, c[s][4], c[s][5], c[s][6]>>
        BY <2>3 DEF Written
      <3> HIDE DEF w
      <3> QED BY <1>1, <2>1, <2>3, <3>1 DEF Alters, Kinds, Column
    <2>4. CASE s = op.handle.slot /\ op.kind = "tags"
      <3>1. w[s] = <<c[s][1], c[s][2], c[s][3], c[s][4], c[s][5], op.value>>
        BY <2>4 DEF Written
      <3> HIDE DEF w
      <3> QED BY <1>1, <2>1, <2>4, <3>1 DEF Alters, Kinds, Column
    <2> QED BY <1>1, <2>2, <2>3, <2>4 DEF Kinds
  <1>3. w \in Contents
    <2>1. w = [s \in Slots |-> w[s]]
      BY DEF Written
    <2> HIDE DEF w
    <2> QED BY <1>2, <2>1 DEF Contents
  <1> QED BY <1>2, <1>3

\* The last writers of a list, from those of its tail.
LEMMA LastWriters ==
  ASSUME NEW ops \in Seq(Operations), ops # <<>>, NEW kind, NEW s
  PROVE  /\ Tail(ops) \in Seq(Operations) /\ Head(ops) \in Operations /\ 1 \in DOMAIN ops
         /\ Head(ops) = ops[1]
         /\ \A i \in DOMAIN Tail(ops) : i + 1 \in DOMAIN ops /\ Tail(ops)[i] = ops[i + 1]
         /\ \A i \in DOMAIN ops : i = 1 \/ i - 1 \in DOMAIN Tail(ops)
         /\ Untouched(ops, kind, s) <=> ~Alters(Head(ops), kind, s) /\ Untouched(Tail(ops), kind, s)
         /\ LastOf(ops, kind, s, 1) <=> Alters(Head(ops), kind, s) /\ Untouched(Tail(ops), kind, s)
         /\ \A i \in DOMAIN Tail(ops) :
              LastOf(Tail(ops), kind, s, i) <=> LastOf(ops, kind, s, i + 1)
  <1> DEFINE t == Tail(ops)
             n == Len(ops)
  <1>1. /\ n \in Nat /\ n > 0 /\ DOMAIN ops = 1 .. n /\ t \in Seq(Operations) /\ DOMAIN t = 1 .. n - 1
        /\ Head(ops) = ops[1] /\ ops[1] \in Operations
        /\ \A i \in 1 .. n - 1 : t[i] = ops[i + 1]
    OBVIOUS
  <1> HIDE DEF t, n
  <1>2. /\ 1 \in DOMAIN ops
        /\ \A i \in DOMAIN t : i + 1 \in DOMAIN ops /\ t[i] = ops[i + 1] /\ i + 1 > 1
        /\ \A i \in DOMAIN ops : i = 1 \/ (i > 1 /\ i - 1 \in DOMAIN t /\ t[i - 1] = ops[i])
    BY <1>1
  <1>3. Untouched(ops, kind, s) <=> ~Alters(Head(ops), kind, s) /\ Untouched(t, kind, s)
    BY <1>1, <1>2 DEF Untouched
  <1>4. LastOf(ops, kind, s, 1) <=> Alters(Head(ops), kind, s) /\ Untouched(t, kind, s)
    <2>1. \A j \in DOMAIN ops : j > 1 => j - 1 \in DOMAIN t /\ t[j - 1] = ops[j]
      BY <1>2
    <2>2. /\ 1 \in DOMAIN ops /\ Head(ops) = ops[1]
          /\ \A i \in DOMAIN t : i + 1 \in DOMAIN ops /\ t[i] = ops[i + 1] /\ i + 1 > 1
      BY <1>1, <1>2
    <2>3. (\A j \in DOMAIN ops : j > 1 => ~Alters(ops[j], kind, s)) <=> Untouched(t, kind, s)
      BY <2>1, <2>2 DEF Untouched
    <2> QED BY <2>2, <2>3 DEF LastOf
  <1>5. ASSUME NEW i \in DOMAIN t PROVE LastOf(t, kind, s, i) <=> LastOf(ops, kind, s, i + 1)
    <2>1. \A j \in DOMAIN t : j > i <=> j + 1 > i + 1
      BY <1>1
    <2>2. \A k \in DOMAIN ops : k > i + 1 => k - 1 \in DOMAIN t /\ k - 1 > i /\ t[k - 1] = ops[k]
      BY <1>1, <1>2
    <2>3. ASSUME LastOf(t, kind, s, i) PROVE LastOf(ops, kind, s, i + 1)
      BY <1>2, <1>5, <2>2, <2>3 DEF LastOf
    <2>4. ASSUME LastOf(ops, kind, s, i + 1) PROVE LastOf(t, kind, s, i)
      BY <1>2, <1>5, <2>1, <2>4 DEF LastOf
    <2> QED BY <2>3, <2>4
  <1> QED BY <1>1, <1>2, <1>3, <1>4, <1>5 DEF t

LEMMA TurnsOne ==
  ASSUME NEW c \in Contents, NEW ops \in Seq(Operations), ops # <<>>, NEW d
  PROVE  Turns(Written(c, Head(ops)), Tail(ops), d) <=> Turns(c, ops, d)
  <1> DEFINE w == Written(c, Head(ops))
             t == Tail(ops)
  <1>1. Head(ops) \in Operations
    BY LastWriters
  <1>2. \A s \in Slots :
              /\ w[s][1] = c[s][1] /\ w[s][2] = c[s][2] /\ w[s][4] = c[s][4] /\ w[s][5] = c[s][5]
              /\ \A kind \in Kinds : w[s][Column(kind)]
                   = IF Alters(Head(ops), kind, s) THEN Head(ops).value ELSE c[s][Column(kind)]
    BY <1>1, WrittenColumns
  <1> HIDE DEF w
  <1>3. ASSUME NEW s \in Slots, NEW kind \in Kinds
        PROVE  /\ Untouched(t, kind, s) => d[s][Column(kind)] = w[s][Column(kind)]
               /\ \A i \in DOMAIN t : LastOf(t, kind, s, i) => d[s][Column(kind)] = t[i].value
               <=>
               /\ Untouched(ops, kind, s) => d[s][Column(kind)] = c[s][Column(kind)]
               /\ \A i \in DOMAIN ops : LastOf(ops, kind, s, i) => d[s][Column(kind)] = ops[i].value
    <2>1. /\ 1 \in DOMAIN ops /\ Head(ops) = ops[1]
          /\ \A i \in DOMAIN t : i + 1 \in DOMAIN ops /\ t[i] = ops[i + 1]
          /\ \A i \in DOMAIN ops : i = 1 \/ i - 1 \in DOMAIN t
          /\ Untouched(ops, kind, s) <=> ~Alters(Head(ops), kind, s) /\ Untouched(t, kind, s)
          /\ LastOf(ops, kind, s, 1) <=> Alters(Head(ops), kind, s) /\ Untouched(t, kind, s)
          /\ \A i \in DOMAIN t : LastOf(t, kind, s, i) <=> LastOf(ops, kind, s, i + 1)
          /\ t \in Seq(Operations)
      BY LastWriters
    <2>2. DOMAIN ops \subseteq Int
      OBVIOUS
    <2>3. w[s][Column(kind)] = IF Alters(Head(ops), kind, s) THEN Head(ops).value
                                                             ELSE c[s][Column(kind)]
      BY <1>2
    <2> HIDE DEF t
    <2>4. ASSUME Untouched(t, kind, s) => d[s][Column(kind)] = w[s][Column(kind)],
                 \A i \in DOMAIN t : LastOf(t, kind, s, i) => d[s][Column(kind)] = t[i].value
          PROVE  /\ Untouched(ops, kind, s) => d[s][Column(kind)] = c[s][Column(kind)]
                 /\ \A i \in DOMAIN ops : LastOf(ops, kind, s, i) => d[s][Column(kind)] = ops[i].value
      <3>1. ASSUME NEW i \in DOMAIN ops, LastOf(ops, kind, s, i)
            PROVE  d[s][Column(kind)] = ops[i].value
        <4>1. CASE i = 1
          BY <2>1, <2>3, <2>4, <3>1, <4>1
        <4>2. CASE i # 1
          <5>1. PICK j \in DOMAIN t : j = i - 1
            BY <2>1, <4>2
          <5>2. j + 1 = i
            BY <2>2, <5>1
          <5> QED BY <2>1, <2>4, <3>1, <5>1, <5>2
        <4> QED BY <4>1, <4>2
      <3> QED BY <2>1, <2>3, <2>4, <3>1
    <2>5. ASSUME Untouched(ops, kind, s) => d[s][Column(kind)] = c[s][Column(kind)],
                 \A i \in DOMAIN ops : LastOf(ops, kind, s, i) => d[s][Column(kind)] = ops[i].value
          PROVE  /\ Untouched(t, kind, s) => d[s][Column(kind)] = w[s][Column(kind)]
                 /\ \A i \in DOMAIN t : LastOf(t, kind, s, i) => d[s][Column(kind)] = t[i].value
      BY <2>1, <2>3, <2>5
    <2> QED BY <2>4, <2>5
  <1>4. ASSUME NEW s \in Slots PROVE TurnsAt(w, t, d, s) <=> TurnsAt(c, ops, d, s)
    BY <1>2, <1>3 DEF TurnsAt
  <1> QED BY <1>4 DEF Turns, w

\* Nothing left to do leaves the content as it is.
LEMMA TurnsNone ==
  ASSUME NEW c \in Contents, NEW d \in Contents
  PROVE  Turns(c, <<>>, c) /\ (Turns(c, <<>>, d) => d = c)
  <1>1. \A s \in Slots, kind \in Kinds : Untouched(<<>>, kind, s)
    BY DEF Untouched
  <1>2. \A s \in Slots, kind \in Kinds, i \in DOMAIN <<>> : FALSE
    OBVIOUS
  <1>3. Turns(c, <<>>, c)
    BY <1>2 DEF Turns, TurnsAt
  <1>4. ASSUME Turns(c, <<>>, d) PROVE d = c
    <2>1. ASSUME NEW s \in Slots PROVE d[s] = c[s]
      <3>1. /\ d[s][1] = c[s][1] /\ d[s][2] = c[s][2] /\ d[s][4] = c[s][4] /\ d[s][5] = c[s][5]
            /\ \A kind \in Kinds : d[s][Column(kind)] = c[s][Column(kind)]
        BY <1>1, <1>4 DEF Turns, TurnsAt
      <3>2. d[s][3] = c[s][3] /\ d[s][6] = c[s][6]
        BY <3>1 DEF Kinds, Column
      <3> QED BY <3>1, <3>2 DEF Contents
    <2> QED BY <2>1 DEF Contents
  <1> QED BY <1>3, <1>4

\* An inverse turns back what its batch does, and fits where its batch did.
LEMMA InverseTurnsBack ==
  ASSUME NEW st \in Snapshots, NEW forward \in Seq(Operations),
         NEW d, Turns(Content(st), forward, d), Fits(Content(st), forward)
  PROVE  LET inverse == Prepared(st, forward).inverse
         IN inverse \in Seq(Operations) /\ Turns(d, inverse, Content(st)) /\ Fits(d, inverse)
  <1> DEFINE inverse == Prepared(st, forward).inverse
             c == Content(st)
             n == Len(forward)
  <1>1. /\ n \in Nat /\ DOMAIN forward = 1 .. n
        /\ inverse = [i \in 1 .. n |-> Inverted(st, forward[n + 1 - i])]
        /\ \A i \in 1 .. n : n + 1 - i \in 1 .. n /\ forward[n + 1 - i] \in Operations
    BY DEF Prepared
  <1>2. ASSUME NEW op \in Operations
        PROVE  /\ Inverted(st, op) \in Operations /\ Inverted(st, op).kind = op.kind
               /\ Inverted(st, op).handle = op.handle
               /\ Inverted(st, op).value = c[op.handle.slot][Column(op.kind)]
    <2>1. /\ op.kind \in Kinds /\ op.handle.slot \in Slots
      BY OperationFields
    <2>2. st.slots[op.handle.slot] \in SlotRecords
      BY <2>1 DEF Snapshots
    <2>3. CASE op.kind = "transform"
      <3>1. Inverted(st, op) = [op EXCEPT !.value = st.slots[op.handle.slot].transform]
        BY <2>3 DEF Inverted
      <3>2. st.slots[op.handle.slot].transform \in Transforms
        BY <2>2 DEF SlotRecords
      <3>3. c[op.handle.slot][3] = st.slots[op.handle.slot].transform
        BY <2>1, ContentOf
      <3> HIDE DEF c
      <3> QED BY <2>3, <3>1, <3>2, <3>3 DEF Operations, Column
    <2>4. CASE op.kind = "tags"
      <3>1. Inverted(st, op) = [op EXCEPT !.value = st.slots[op.handle.slot].tags]
        BY <2>4 DEF Inverted
      <3>2. st.slots[op.handle.slot].tags \in TagSets
        BY <2>2 DEF SlotRecords
      <3>3. c[op.handle.slot][6] = st.slots[op.handle.slot].tags
        BY <2>1, ContentOf
      <3> HIDE DEF c
      <3> QED BY <2>4, <3>1, <3>2, <3>3 DEF Operations, Column
    <2> QED BY <2>1, <2>3, <2>4 DEF Kinds
  <1> HIDE DEF inverse, c, n
  <1>3. /\ inverse \in Seq(Operations) /\ DOMAIN inverse = 1 .. n
        /\ \A i \in 1 .. n :
             /\ inverse[i].kind = forward[n + 1 - i].kind
             /\ inverse[i].handle = forward[n + 1 - i].handle
             /\ inverse[i].value = c[inverse[i].handle.slot][Column(inverse[i].kind)]
    <2>1. ASSUME NEW i \in 1 .. n
          PROVE  /\ inverse[i] \in Operations
                 /\ inverse[i].kind = forward[n + 1 - i].kind
                 /\ inverse[i].handle = forward[n + 1 - i].handle
                 /\ inverse[i].value = c[inverse[i].handle.slot][Column(inverse[i].kind)]
      <3>1. PICK op \in Operations : op = forward[n + 1 - i]
        BY <1>1
      <3>2. inverse[i] = Inverted(st, op)
        BY <1>1, <3>1
      <3> QED BY <1>2, <3>1, <3>2
    <2>2. DOMAIN inverse = 1 .. n
      BY <1>1
    <2>3. inverse \in [1 .. n -> Operations]
      BY <1>1, <2>1
    <2>4. inverse \in Seq(Operations)
      BY <1>1, <2>3
    <2> QED BY <2>1, <2>2, <2>4
  <1>4. \A i \in 1 .. n : n + 1 - (n + 1 - i) = i
    BY <1>1
  <1>5. ASSUME NEW kind \in Kinds, NEW s \in Slots
        PROVE  Untouched(inverse, kind, s) => Untouched(forward, kind, s)
    <2>1. ASSUME Untouched(inverse, kind, s), NEW j \in 1 .. n PROVE ~Alters(forward[j], kind, s)
      <3>1. PICK i \in 1 .. n : i = n + 1 - j
        BY <1>1
      <3>2. n + 1 - i = j
        BY <1>4, <3>1
      <3>3. ~Alters(inverse[i], kind, s)
        BY <1>3, <2>1 DEF Untouched
      <3> QED BY <1>3, <3>2, <3>3 DEF Alters
    <2> QED BY <1>1, <2>1 DEF Untouched
  <1>6. ASSUME NEW s \in Slots PROVE TurnsAt(d, inverse, c, s)
    <2>1. TurnsAt(c, forward, d, s)
      BY DEF Turns, c
    <2>2. ASSUME NEW kind \in Kinds, NEW i \in DOMAIN inverse, LastOf(inverse, kind, s, i)
          PROVE  c[s][Column(kind)] = inverse[i].value
      BY <1>3, <2>2 DEF LastOf, Alters
    <2> QED BY <1>5, <2>1, <2>2 DEF TurnsAt
  <1>7. Fits(d, inverse)
    <2>1. \A s \in Slots : d[s][1] = c[s][1] /\ d[s][2] = c[s][2] /\ d[s][4] = c[s][4]
      BY DEF Turns, TurnsAt, c
    <2>2. ASSUME NEW i \in 1 .. n PROVE FitsAt(d, inverse[i])
      <3>1. FitsAt(c, forward[n + 1 - i]) /\ forward[n + 1 - i].handle.slot \in Slots
        BY <1>1, OperationFields DEF Fits, c
      <3>2. inverse[i].kind = forward[n + 1 - i].kind
            /\ inverse[i].handle = forward[n + 1 - i].handle
        BY <1>3
      <3>3. PICK s \in Slots : s = inverse[i].handle.slot
        BY <3>1, <3>2
      <3>4. inverse[i].kind = "transform" =>
              /\ ~(c[s][2] /\ c[s][4] # NoHandle)
              /\ \A q \in Slots : ~(c[q][2] /\ c[q][4] = [slot |-> s, generation |-> c[s][1]])
        BY <3>1, <3>2, <3>3 DEF FitsAt
      <3> QED BY <2>1, <3>3, <3>4 DEF FitsAt
    <2> QED BY <1>3, <2>2 DEF Fits
  <1> QED BY <1>3, <1>6, <1>7 DEF Turns, inverse, c

\* Exactly one record differs, in its transform.
MovesAlone(st, st2, s, v) ==
  /\ st2.slots[s] = [st.slots[s] EXCEPT !.transform = v, !.authoring_revision = NextRevision]
  /\ \A q \in Slots \ {s} : st2.slots[q] = st.slots[q]

\* An entity without parent and children moves alone.
LEMMA LoneTransformed ==
  ASSUME NEW st \in Snapshots, NextRevision \in 0 .. MaxRevision,
         NEW h, NEW v \in Transforms, NEW st2 \in Transformed(st, h, v),
         ~HasParent(st, h.slot), ~HasChildren(st, h.slot)
  PROVE  MovesAlone(st, st2, h.slot, v)
  <1>1. h \in Handles /\ h.slot \in Slots /\ st.slots[h.slot].live
    BY Values DEF Transformed, Resolves
  <1> DEFINE s == h.slot
             r == [st.slots[s] EXCEPT !.local_transform = st.slots[s].local_transform,
                                      !.transform = v]
             st1 == [st EXCEPT !.slots[s] = r]
  <1>2. st2 \in SubtreeOutcomes(st1, s)
    BY DEF Transformed
  <1>3. st.slots[s] \in SlotRecords
    BY <1>1 DEF Snapshots
  <1>4. /\ r \in SlotRecords /\ r.transform = v /\ r.live = st.slots[s].live
        /\ r.generation = st.slots[s].generation /\ r.parent = st.slots[s].parent
        /\ [r EXCEPT !.transform = v, !.authoring_revision = NextRevision]
             = [st.slots[s] EXCEPT !.transform = v, !.authoring_revision = NextRevision]
    BY <1>3 DEF SlotRecords
  <1> HIDE DEF r
  <1>5. /\ st1 \in Snapshots /\ st1.slots[s] = r
        /\ \A q \in Slots \ {s} : st1.slots[q] = st.slots[q]
    BY <1>1, <1>4, OneSlot
  <1> HIDE DEF st1
  <1>6. \A c \in Slots : ~ChildOf(st1, c, s)
    <2>1. \A c \in Slots : ~ChildOf(st, c, s)
      BY DEF HasChildren
    <2>2. HandleOf(st1, s) = HandleOf(st, s)
      BY <1>4, <1>5 DEF HandleOf
    <2>3. \A c \in Slots : st1.slots[c].live = st.slots[c].live
                           /\ st1.slots[c].parent = st.slots[c].parent
      BY <1>4, <1>5
    <2> QED BY <2>1, <2>2, <2>3 DEF ChildOf
  <1>7. Subtree(st1, s) = {s}
    <2>1. PICK S \in SUBSET Slots : S = {s}
      BY <1>1
    <2>2. s \in S /\ \A p \in S, c \in Slots : ChildOf(st1, c, p) => c \in S
      BY <1>6, <2>1
    <2>3. Subtree(st1, s) \subseteq S
      BY <1>1, <2>2, SubtreeLeast
    <2> QED BY <1>1, <2>1, <2>3, SubtreeClosed
  <1>8. PICK f \in Recomputed(st1, s) :
          st2 = [st1 EXCEPT !.slots = [q \in Slots |->
                 IF q \in Subtree(st1, s)
                   THEN [st1.slots[q] EXCEPT !.transform = f[q],
                                             !.authoring_revision = NextRevision]
                   ELSE st1.slots[q]]]
    BY <1>2 DEF SubtreeOutcomes
  <1>9. f[s] = st1.slots[s].transform
    BY <1>1, <1>7, <1>8 DEF Recomputed
  <1>10. st2.slots = [q \in Slots |->
                  IF q = s THEN [r EXCEPT !.transform = v, !.authoring_revision = NextRevision]
                           ELSE st.slots[q]]
    BY <1>4, <1>5, <1>7, <1>8, <1>9 DEF Snapshots
  <1> QED BY <1>1, <1>4, <1>10 DEF MovesAlone

LEMMA SameContent ==
  ASSUME NEW st2, NEW st, NEW op,
         \A q \in Slots : Content(st2)[q] = Written(Content(st), op)[q]
  PROVE  Content(st2) = Written(Content(st), op)
  <1>1. /\ Content(st2) = [q \in Slots |-> Content(st2)[q]]
        /\ Written(Content(st), op) = [q \in Slots |-> Written(Content(st), op)[q]]
    BY DEF Content, Written
  <1> QED BY <1>1

\* One operation of a script that fits writes its value and nothing else.
LEMMA OutcomeWrites ==
  ASSUME NEW st \in Snapshots, NextRevision \in 0 .. MaxRevision, NEW op \in Operations,
         FitsAt(Content(st), op), NEW st2 \in Outcomes(st, op)
  PROVE  /\ Edited(st, st2)
         /\ Content(st2) = Written(Content(st), op)
  <1> DEFINE s == op.handle.slot
  <1>1. /\ op.kind \in Kinds /\ op.handle \in Handles /\ s \in Slots
        /\ op.kind = "transform" => op.value \in Transforms
        /\ op.kind = "tags" => op.value \in TagSets
    BY OperationFields
  <1>2. Edited(st, st2)
    BY <1>1, TransformedEdits, TaggedEdits DEF Outcomes, Kinds
  <1>3. st2 \in Snapshots /\ st.slots[s] \in SlotRecords
    BY <1>1, <1>2 DEF Edited, Snapshots
  <1>4. \A q \in Slots : /\ Content(st)[q] = Authored(st.slots[q])
                         /\ Content(st2)[q] = Authored(st2.slots[q])
    BY DEF Content
  <1>5. CASE op.kind = "transform"
    <2>1. ~HasParent(st, s) /\ ~HasChildren(st, s)
      <3>1. /\ ~(Content(st)[s][2] /\ Content(st)[s][4] # NoHandle)
            /\ \A q \in Slots : ~(Content(st)[q][2]
                   /\ Content(st)[q][4] = [slot |-> s, generation |-> Content(st)[s][1]])
        BY <1>5 DEF FitsAt
      <3>2. \A q \in Slots : /\ Content(st)[q][1] = st.slots[q].generation
                             /\ Content(st)[q][2] = st.slots[q].live
                             /\ Content(st)[q][4] = st.slots[q].parent
        BY ContentOf
      <3> QED BY <1>1, <3>1, <3>2 DEF HasParent, HasChildren, ChildOf, HandleOf
    <2>2. PICK h \in Handles, v \in Transforms : h = op.handle /\ v = op.value
      BY <1>1, <1>5
    <2>3. st2 \in Transformed(st, h, v) /\ h.slot = s
      BY <1>5, <2>2 DEF Outcomes
    <2>4. ~HasParent(st, h.slot) /\ ~HasChildren(st, h.slot)
      BY <2>1, <2>3
    <2>5. MovesAlone(st, st2, h.slot, v)
      BY <2>3, <2>4, LoneTransformed
    <2>6. PICK r \in SlotRecords : r = st.slots[s]
      BY <1>3
    <2>7. /\ st2.slots[s].generation = r.generation /\ st2.slots[s].live = r.live
          /\ st2.slots[s].transform = op.value /\ st2.slots[s].parent = r.parent
          /\ st2.slots[s].local_transform = r.local_transform /\ st2.slots[s].tags = r.tags
      BY <2>2, <2>3, <2>5, <2>6 DEF SlotRecords, MovesAlone
    <2>8. \A q \in Slots \ {s} : Content(st2)[q] = Content(st)[q]
      BY <1>4, <2>3, <2>5 DEF MovesAlone
    <2>9. Content(st2)[s] = Written(Content(st), op)[s]
      <3>1. Content(st2)[s] = <<r.generation, r.live, op.value, r.parent, r.local_transform, r.tags>>
        BY <1>1, <1>3, <2>7, ContentOf
      <3>2. /\ Content(st)[s][1] = r.generation /\ Content(st)[s][2] = r.live
            /\ Content(st)[s][4] = r.parent /\ Content(st)[s][5] = r.local_transform
            /\ Content(st)[s][6] = r.tags
        BY <1>1, <2>6, ContentOf
      <3>3. Written(Content(st), op)[s] = <<Content(st)[s][1], Content(st)[s][2], op.value,
                   Content(st)[s][4], Content(st)[s][5], Content(st)[s][6]>>
        BY <1>1, <1>5 DEF Written
      <3> QED BY <3>1, <3>2, <3>3
    <2>10. \A q \in Slots \ {s} : Written(Content(st), op)[q] = Content(st)[q]
      BY DEF Written
    <2>11. ASSUME NEW q \in Slots PROVE Content(st2)[q] = Written(Content(st), op)[q]
      <3>1. CASE q = s
        BY <2>9, <3>1
      <3>2. CASE q \in Slots \ {s}
        BY <2>8, <2>10, <3>2
      <3> QED BY <3>1, <3>2
    <2> QED BY <1>2, <2>11, SameContent
  <1>6. CASE op.kind = "tags"
    <2>1. st2 = [st EXCEPT !.slots[s] = [st.slots[s] EXCEPT !.tags = op.value,
                                                            !.authoring_revision = NextRevision]]
      BY <1>6 DEF Outcomes, Tagged
    <2>2. /\ st2.slots[s] = [st.slots[s] EXCEPT !.tags = op.value,
                                                !.authoring_revision = NextRevision]
          /\ \A q \in Slots \ {s} : st2.slots[q] = st.slots[q]
      BY <1>1, <2>1 DEF Snapshots
    <2>3. PICK r \in SlotRecords : r = st.slots[s]
      BY <1>3
    <2>4. /\ st2.slots[s].generation = r.generation /\ st2.slots[s].live = r.live
          /\ st2.slots[s].transform = r.transform /\ st2.slots[s].parent = r.parent
          /\ st2.slots[s].local_transform = r.local_transform /\ st2.slots[s].tags = op.value
      BY <2>2, <2>3 DEF SlotRecords
    <2>5. \A q \in Slots \ {s} : Content(st2)[q] = Content(st)[q]
      BY <1>4, <2>2
    <2>6. Content(st2)[s] = Written(Content(st), op)[s]
      <3>1. Content(st2)[s] = <<r.generation, r.live, r.transform, r.parent, r.local_transform, op.value>>
        BY <1>1, <1>3, <2>4, ContentOf
      <3>2. /\ Content(st)[s][1] = r.generation /\ Content(st)[s][2] = r.live
            /\ Content(st)[s][3] = r.transform /\ Content(st)[s][4] = r.parent
            /\ Content(st)[s][5] = r.local_transform
        BY <1>1, <2>3, ContentOf
      <3>3. Written(Content(st), op)[s] = <<Content(st)[s][1], Content(st)[s][2], Content(st)[s][3],
                   Content(st)[s][4], Content(st)[s][5], op.value>>
        BY <1>1, <1>6 DEF Written
      <3> QED BY <3>1, <3>2, <3>3
    <2>7. \A q \in Slots \ {s} : Written(Content(st), op)[q] = Content(st)[q]
      BY DEF Written
    <2>8. ASSUME NEW q \in Slots PROVE Content(st2)[q] = Written(Content(st), op)[q]
      <3>1. CASE q = s
        BY <2>6, <3>1
      <3>2. CASE q \in Slots \ {s}
        BY <2>5, <2>7, <3>2
      <3> QED BY <3>1, <3>2
    <2> QED BY <1>2, <2>8, SameContent
  <1> QED BY <1>1, <1>2, <1>5, <1>6 DEF Kinds

\* Operations that fit keep fitting while they are carried out.
LEMMA FitsOn ==
  ASSUME NEW c \in Contents, NEW ops \in Seq(Operations), ops # <<>>, Fits(c, ops)
  PROVE  FitsAt(c, Head(ops)) /\ Fits(Written(c, Head(ops)), Tail(ops))
  <1> DEFINE w == Written(c, Head(ops))
             t == Tail(ops)
  <1>1. /\ Head(ops) \in Operations /\ 1 \in DOMAIN ops /\ Head(ops) = ops[1]
        /\ t \in Seq(Operations)
        /\ \A i \in DOMAIN t : i + 1 \in DOMAIN ops /\ t[i] = ops[i + 1]
    BY LastWriters
  <1>2. \A s \in Slots : w[s][1] = c[s][1] /\ w[s][2] = c[s][2] /\ w[s][4] = c[s][4]
    BY <1>1, WrittenColumns
  <1> HIDE DEF w, t
  <1>3. FitsAt(c, Head(ops))
    BY <1>1 DEF Fits
  <1>4. ASSUME NEW i \in DOMAIN t PROVE FitsAt(w, t[i])
    <2>1. FitsAt(c, t[i]) /\ t[i] \in Operations
      BY <1>1 DEF Fits
    <2>2. t[i].handle.slot \in Slots
      BY <2>1, OperationFields
    <2> QED BY <1>2, <2>1, <2>2 DEF FitsAt
  <1> QED BY <1>3, <1>4 DEF Fits, w, t

\* What a batch is checked for before its inverse is made.
LEMMA InvertibleFits ==
  ASSUME NEW st \in Snapshots, NEW forward \in Seq(Operations),
         \A i \in DOMAIN forward : Invertible(st, forward[i])
  PROVE  Fits(Content(st), forward)
  <1>1. ASSUME NEW i \in DOMAIN forward PROVE FitsAt(Content(st), forward[i])
    <2>1. PICK op \in Operations : op = forward[i]
      BY <1>1
    <2>2. op.handle.slot \in Slots /\ Invertible(st, op)
      BY <1>1, <2>1, OperationFields
    <2>3. \A q \in Slots : /\ Content(st)[q][1] = st.slots[q].generation
                           /\ Content(st)[q][2] = st.slots[q].live
                           /\ Content(st)[q][4] = st.slots[q].parent
      BY ContentOf
    <2>4. FitsAt(Content(st), op)
      BY <2>2, <2>3 DEF FitsAt, Invertible, Isolated, HasParent, HasChildren, ChildOf, HandleOf
    <2> QED BY <2>1, <2>4
  <1> QED BY <1>1 DEF Fits

-----------------------------------------------------------------------------
(* The invariant.  Each entry turns the content before it into the one     *)
(* after it, and its inverse turns it back; while the history is current   *)
(* the world has the content the cursor points at; and what is left of a   *)
(* batch leads from the copy to where the whole batch leads from the world.*)

Entries == [forward : Seq(Operations), inverse : Seq(Operations)]

HistoryTypes ==
  /\ entries \in Seq(Entries) /\ cursor \in 0 .. Len(entries)
  /\ past \in Seq(Contents) /\ Len(past) = Len(entries) + 1
  /\ expected_revision \in Nat
  /\ script \in Seq(Operations)

Leads(c, ops, d) == Turns(c, ops, d) /\ Fits(c, ops)

Line ==
  \A i \in 1 .. Len(entries) : /\ Leads(past[i], entries[i].forward, past[i + 1])
                               /\ Leads(past[i + 1], entries[i].inverse, past[i])

Standing ==
  /\ expected_revision <= world.world_revision
  /\ Current => Content(world) = past[cursor + 1]

Calling ==
  staging => \/ action = "other" /\ script = <<>>
             \/ /\ Current /\ Fits(Content(staged), script)
                /\ \/ /\ action = "apply"
                      /\ prepared_entry.forward \in Seq(Operations)
                      /\ prepared_entry = Prepared(world, prepared_entry.forward)
                      /\ Fits(Content(world), prepared_entry.forward)
                      /\ \A d \in Contents : Turns(Content(staged), script, d)
                                               => Turns(Content(world), prepared_entry.forward, d)
                   \/ action = "undo" /\ cursor # 0 /\ Turns(Content(staged), script, past[cursor])
                   \/ /\ action = "redo" /\ cursor # Len(entries)
                      /\ Turns(Content(staged), script, past[cursor + 2])

HistoryInv == TypeInv /\ Copied /\ HistoryTypes /\ Line /\ Standing /\ Calling

(* Every step of the history is one of the coordinator's, or none. *)
LEMMA HistorySteps == TypeInv /\ HistoryTypes /\ [HistoryNext]_allVars => [Next]_vars
  <1> SUFFICES ASSUME TypeInv, HistoryTypes, [HistoryNext]_allVars PROVE [Next]_vars
    OBVIOUS
  <1>1. ASSUME Begin(world.world_revision) PROVE Next
    <2>1. world.world_revision \in 0 .. MaxRevision
      BY DEF TypeInv, TypeOK, Snapshots
    <2> QED BY <1>1, <2>1 DEF Next
  <1>2. ASSUME StageNext PROVE Next
    <2>1. PICK op \in Operations : op = Head(script)
      BY <1>2 DEF StageNext, HistoryTypes
    <2>2. Stage(Outcomes(staged, op)) /\ UNCHANGED names
      BY <1>2, <2>1 DEF StageNext
    <2> DEFINE t == [temporary |-> FALSE, handle |-> op.handle]
    <2>3. /\ op.kind \in Kinds /\ op.handle \in Handles
          /\ op.kind = "transform" => op.value \in Transforms
          /\ op.kind = "tags" => op.value \in TagSets
      BY OperationFields
    <2>4. t \in Targets /\ Denotes(t) = op.handle
      BY <2>3 DEF Targets, Denotes
    <2> HIDE DEF t
    <2>5. CASE op.kind = "transform"
      <3>1. SetTransform(t, op.value)
        BY <2>2, <2>4, <2>5 DEF SetTransform, Outcomes
      <3> QED BY <2>3, <2>4, <2>5, <3>1 DEF Next
    <2>6. CASE op.kind = "tags"
      <3>1. SetTags(t, op.value)
        BY <2>2, <2>4, <2>6 DEF SetTags, Outcomes
      <3> QED BY <2>3, <2>4, <2>6, <3>1 DEF Next
    <2> QED BY <2>3, <2>5, <2>6 DEF Kinds
  <1>3. ASSUME OtherStage PROVE Next
    BY <1>3 DEF OtherStage, Next
  <1> QED BY <1>1, <1>2, <1>3 DEF HistoryNext, Apply, Navigate, Call, OtherBegin, Committed,
                                  Rejected, Clear, OtherEnd, Next, allVars

(* The batch of an apply, an undo or a redo, about to be staged. *)
LEMMA CallStarts ==
  ASSUME HistoryInv, NEW forward \in Seq(Operations), Apply(forward)
  PROVE  HistoryTypes' /\ Line' /\ Standing' /\ Calling'
  <1>1. /\ UNCHANGED <<world, staged, entries, cursor, expected_revision, past>>
        /\ ~staging /\ staging' /\ Current
        /\ action' = "apply" /\ script' = forward /\ prepared_entry' = Prepared(world, forward)
    BY DEF Apply, Call, Begin, history
  <1>2. staged = world /\ world \in Snapshots
    BY <1>1 DEF HistoryInv, TypeInv, Settled, TypeOK
  <1>3. Fits(Content(world), forward)
    BY <1>2, InvertibleFits DEF Apply
  <1>4. HistoryTypes'
    BY <1>1 DEF HistoryInv, HistoryTypes
  <1>5. Line' /\ Standing'
    BY <1>1 DEF HistoryInv, Line, Standing, Current
  <1>6. prepared_entry'.forward = forward
    BY <1>1 DEF Prepared
  <1>7. Content(staged)' = Content(world) /\ Content(world)' = Content(world)
    BY <1>1, <1>2 DEF Content
  <1>8. prepared_entry' = Prepared(world', prepared_entry'.forward)
    BY <1>1, <1>6
  <1>9. Calling'
    BY <1>1, <1>3, <1>6, <1>7, <1>8 DEF Calling, Current
  <1> QED BY <1>4, <1>5, <1>9

LEMMA NavigationStarts ==
  ASSUME HistoryInv, NEW kind \in {"undo", "redo"}, Navigate(kind)
  PROVE  HistoryTypes' /\ Line' /\ Standing' /\ Calling'
  <1>1. /\ UNCHANGED <<world, staged, entries, cursor, expected_revision, past>>
        /\ ~staging /\ staging' /\ Current
        /\ \/ action' = "undo" /\ cursor # 0 /\ script' = entries[cursor].inverse
           \/ /\ action' = "redo" /\ cursor # Len(entries)
              /\ script' = entries[cursor + 1].forward
    BY DEF Navigate, Call, Begin, history
  <1>2. staged = world /\ Content(world) = past[cursor + 1]
    BY <1>1 DEF HistoryInv, TypeInv, Settled, Standing
  <1>3. Content(staged)' = Content(world) /\ Content(world)' = Content(world)
    BY <1>1, <1>2 DEF Content
  <1>4. Line' /\ Standing'
    BY <1>1 DEF HistoryInv, Line, Standing, Current
  <1>5. CASE action' = "undo" /\ cursor # 0 /\ script' = entries[cursor].inverse
    <2>1. cursor \in 1 .. Len(entries) /\ entries[cursor] \in Entries
      BY <1>5 DEF HistoryInv, HistoryTypes
    <2>2. Leads(Content(world), script', past[cursor])
      BY <1>2, <1>5, <2>1 DEF HistoryInv, Line
    <2>3. HistoryTypes'
      BY <1>1, <1>5, <2>1 DEF HistoryInv, HistoryTypes, Entries
    <2>4. Calling'
      BY <1>1, <1>3, <1>5, <2>2 DEF Calling, Current, Leads
    <2> QED BY <1>4, <2>3, <2>4
  <1>6. CASE action' = "redo" /\ cursor # Len(entries) /\ script' = entries[cursor + 1].forward
    <2>1. cursor + 1 \in 1 .. Len(entries) /\ entries[cursor + 1] \in Entries
          /\ cursor + 1 + 1 = cursor + 2
      BY <1>6 DEF HistoryInv, HistoryTypes
    <2>2. Leads(Content(world), script', past[cursor + 2])
      BY <1>2, <1>6, <2>1 DEF HistoryInv, Line
    <2>3. HistoryTypes'
      BY <1>1, <1>6, <2>1 DEF HistoryInv, HistoryTypes, Entries
    <2>4. Calling'
      BY <1>1, <1>3, <1>6, <2>2 DEF Calling, Current, Leads
    <2> QED BY <1>4, <2>3, <2>4
  <1> QED BY <1>1, <1>5, <1>6

(* One operation of the script: what is left leads where it led before. *)
LEMMA ScriptStep ==
  ASSUME HistoryInv, StageNext
  PROVE  HistoryTypes' /\ Line' /\ Standing' /\ Calling'
  <1>1. /\ UNCHANGED <<world, staging, entries, cursor, expected_revision, past, action,
                       prepared_entry>>
        /\ staging /\ script # <<>> /\ script' = Tail(script)
        /\ staged' \in Outcomes(staged, Head(script))
    BY DEF StageNext, Stage, history
  <1>2. PICK op \in Operations : op = Head(script)
    BY <1>1 DEF HistoryInv, HistoryTypes
  <1>3. PICK ops \in Seq(Operations) : ops = script
    BY DEF HistoryInv, HistoryTypes
  <1>4. PICK c \in Contents : c = Content(staged)
    BY ContentOf DEF HistoryInv, TypeInv, TypeOK
  <1>5. /\ action # "other" /\ Current /\ Fits(c, ops)
        /\ \/ /\ action = "apply"
              /\ prepared_entry.forward \in Seq(Operations)
              /\ prepared_entry = Prepared(world, prepared_entry.forward)
              /\ Fits(Content(world), prepared_entry.forward)
              /\ \A d \in Contents : Turns(c, ops, d)
                                       => Turns(Content(world), prepared_entry.forward, d)
           \/ action = "undo" /\ cursor # 0 /\ Turns(c, ops, past[cursor])
           \/ action = "redo" /\ cursor # Len(entries) /\ Turns(c, ops, past[cursor + 2])
    BY <1>1, <1>3, <1>4 DEF HistoryInv, Calling
  <1>6. FitsAt(c, Head(ops)) /\ Fits(Written(c, Head(ops)), Tail(ops))
    BY <1>1, <1>3, <1>5, FitsOn
  <1>7. Content(staged)' = Written(c, op)
    <2>1. NextRevision \in 0 .. MaxRevision
      BY <1>1, NextRevisionBound DEF HistoryInv
    <2>2. PICK st2 : st2 = staged' /\ st2 \in Outcomes(staged, op)
      BY <1>1, <1>2
    <2>3. FitsAt(Content(staged), op) /\ staged \in Snapshots
      BY <1>2, <1>3, <1>4, <1>6 DEF HistoryInv, TypeInv, TypeOK
    <2>4. Content(st2) = Written(Content(staged), op)
      BY <2>1, <2>2, <2>3, OutcomeWrites
    <2>5. Content(staged)' = Content(st2)
      BY <2>2 DEF Content
    <2> QED BY <1>4, <2>4, <2>5
  <1>8. \A d : Turns(Content(staged)', Tail(ops), d) <=> Turns(c, ops, d)
    BY <1>1, <1>2, <1>3, <1>7, TurnsOne
  <1>9. Fits(Content(staged)', Tail(ops)) /\ Tail(ops) \in Seq(Operations)
    BY <1>1, <1>2, <1>3, <1>6, <1>7, LastWriters
  <1>10. Content(world)' = Content(world)
    BY <1>1 DEF Content
  <1>11. HistoryTypes'
    BY <1>1, <1>3, <1>9 DEF HistoryInv, HistoryTypes
  <1>12. Line' /\ Standing'
    BY <1>1, <1>10 DEF HistoryInv, Line, Standing, Current
  <1>13. prepared_entry = Prepared(world, prepared_entry.forward)
           => (prepared_entry = Prepared(world, prepared_entry.forward))'
    BY <1>1
  <1>14. Calling'
    BY <1>1, <1>3, <1>5, <1>8, <1>9, <1>10, <1>13 DEF Calling, Current
  <1> QED BY <1>11, <1>12, <1>14

(* The batch is committed: the world has the content the whole of it leads to. *)
LEMMA CommitReached ==
  ASSUME HistoryInv, Committed
  PROVE  /\ Content(world') = Content(staged) /\ Content(staged) \in Contents
         /\ expected_revision' = world'.world_revision /\ expected_revision' \in Nat
         /\ script' = <<>> /\ ~staging' /\ Current
         /\ \/ /\ action = "apply"
               /\ prepared_entry.forward \in Seq(Operations)
               /\ prepared_entry = Prepared(world, prepared_entry.forward)
               /\ Leads(Content(world), prepared_entry.forward, Content(staged))
            \/ action = "undo" /\ cursor # 0 /\ Content(staged) = past[cursor]
            \/ action = "redo" /\ cursor # Len(entries) /\ Content(staged) = past[cursor + 2]
  <1>1. /\ staging /\ script = <<>> /\ ~staging' /\ script' = <<>>
        /\ expected_revision' = world'.world_revision
        /\ world'.slots = staged.slots
    BY DEF Committed, Commit, EndBatch, EndCall, HistoryInv, TypeInv, TypeOK, Snapshots
  <1>2. Content(world') = Content(staged)
    BY <1>1 DEF Content
  <1>3. world'.world_revision \in Nat
    <2>1. Commit
      BY DEF Committed
    <2>2. world'.world_revision = world.world_revision + 1 /\ world.world_revision \in Nat
      BY <2>1, CommitStep DEF HistoryInv
    <2> QED BY <2>2
  <1>4. PICK c \in Contents : c = Content(staged)
    BY ContentOf DEF HistoryInv, TypeInv, TypeOK
  <1>5. Turns(c, <<>>, c) /\ \A d \in Contents : Turns(c, <<>>, d) => d = c
    BY TurnsNone
  <1>6. action # "other"
    BY DEF Committed
  <1>7. /\ Current
        /\ \/ /\ action = "apply"
              /\ prepared_entry.forward \in Seq(Operations)
              /\ prepared_entry = Prepared(world, prepared_entry.forward)
              /\ Fits(Content(world), prepared_entry.forward)
              /\ \A d \in Contents : Turns(c, <<>>, d)
                                       => Turns(Content(world), prepared_entry.forward, d)
           \/ action = "undo" /\ cursor # 0 /\ Turns(c, <<>>, past[cursor])
           \/ action = "redo" /\ cursor # Len(entries) /\ Turns(c, <<>>, past[cursor + 2])
    BY <1>1, <1>4, <1>6 DEF HistoryInv, Calling
  <1>8. /\ cursor # 0 => past[cursor] \in Contents
        /\ cursor # Len(entries) => past[cursor + 2] \in Contents
    BY DEF HistoryInv, HistoryTypes
  <1> QED BY <1>1, <1>2, <1>3, <1>4, <1>5, <1>7, <1>8 DEF Leads

(* An applied batch is remembered at the cursor, in place of what could be  *)
(* redone.                                                                  *)
LEMMA AppliedStep ==
  ASSUME HistoryInv, Committed, action = "apply"
  PROVE  HistoryTypes' /\ Line' /\ Standing' /\ Calling'
  <1>1. /\ Content(world') = Content(staged)
        /\ expected_revision' = world'.world_revision /\ expected_revision' \in Nat
        /\ script' = <<>> /\ ~staging' /\ Current
        /\ prepared_entry.forward \in Seq(Operations)
        /\ prepared_entry = Prepared(world, prepared_entry.forward)
        /\ Leads(Content(world), prepared_entry.forward, Content(staged))
    BY CommitReached
  <1>2. PICK n \in Nat, ent \in Seq(Entries), was \in Seq(Contents) :
          /\ n = cursor /\ ent = entries /\ was = past
          /\ n <= Len(ent) /\ Len(was) = Len(ent) + 1
    BY DEF HistoryInv, HistoryTypes
  <1>3. PICK c \in Contents, fwd \in Seq(Operations) :
          c = Content(staged) /\ fwd = prepared_entry.forward
    BY <1>1, CommitReached
  <1> DEFINE inv == Prepared(world, fwd).inverse
  <1>4. inv \in Seq(Operations) /\ Leads(c, inv, Content(world))
    BY <1>1, <1>3, InverseTurnsBack DEF Leads, HistoryInv, TypeInv, TypeOK
  <1>5. Prepared(world, fwd) = [forward |-> fwd, inverse |-> inv]
    BY DEF Prepared
  <1> HIDE DEF inv
  <1>6. PICK e \in Entries : e = prepared_entry /\ e.forward = fwd /\ e.inverse = inv
    BY <1>1, <1>3, <1>4, <1>5 DEF Entries
  <1>7. was[n + 1] = Content(world)
    BY <1>1, <1>2 DEF HistoryInv, Standing
  <1>8. /\ entries' = Append(SubSeq(ent, 1, n), e) /\ cursor' = n + 1
        /\ past' = Append(SubSeq(was, 1, n + 1), c)
    BY <1>1, <1>2, <1>3, <1>6 DEF Committed, Remembered
  <1>9. /\ entries' \in Seq(Entries) /\ Len(entries') = n + 1
        /\ \A i \in 1 .. n : entries'[i] = ent[i]
        /\ entries'[n + 1] = e
    <2> DEFINE kept == SubSeq(ent, 1, n)
    <2>1. kept \in Seq(Entries) /\ Len(kept) = n /\ \A i \in 1 .. n : kept[i] = ent[i]
      BY <1>2
    <2>2. entries' = Append(kept, e)
      BY <1>8
    <2> HIDE DEF kept
    <2>3. entries' \in Seq(Entries) /\ Len(entries') = n + 1 /\ entries'[n + 1] = e
      BY <2>1, <2>2
    <2>4. \A i \in 1 .. n : entries'[i] = kept[i]
      BY <2>1, <2>2
    <2> QED BY <2>1, <2>3, <2>4
  <1>10. /\ past' \in Seq(Contents) /\ Len(past') = n + 2
         /\ \A i \in 1 .. n + 1 : past'[i] = was[i]
         /\ past'[n + 2] = c
    BY <1>2, <1>8
  <1>11. HistoryTypes'
    BY <1>1, <1>2, <1>8, <1>9, <1>10 DEF HistoryTypes
  <1>12. Line'
    <2>1. ASSUME NEW i \in 1 .. n + 1
          PROVE  /\ Leads(past'[i], entries'[i].forward, past'[i + 1])
                 /\ Leads(past'[i + 1], entries'[i].inverse, past'[i])
      <3>1. CASE i = n + 1
        <4>1. past'[i] = Content(world) /\ past'[i + 1] = c /\ entries'[i] = e
          BY <1>2, <1>7, <1>9, <1>10, <3>1
        <4>2. Leads(Content(world), fwd, c)
          BY <1>1, <1>3
        <4> QED BY <1>4, <1>6, <4>1, <4>2
      <3>2. CASE i \in 1 .. n
        <4>1. i \in 1 .. Len(ent) /\ i \in 1 .. n + 1 /\ i + 1 \in 1 .. n + 1
          BY <1>2, <3>2
        <4>2. past'[i] = was[i] /\ past'[i + 1] = was[i + 1] /\ entries'[i] = ent[i]
          BY <1>9, <1>10, <3>2, <4>1
        <4> QED BY <1>2, <4>1, <4>2 DEF HistoryInv, Line
      <3> QED BY <1>2, <2>1, <3>1, <3>2
    <2> QED BY <1>9, <2>1 DEF Line
  <1>13. past'[cursor' + 1] = Content(world')
    BY <1>1, <1>2, <1>3, <1>8, <1>10
  <1>14. Standing' /\ Calling'
    BY <1>1, <1>13 DEF Standing, Calling, Current
  <1> QED BY <1>11, <1>12, <1>14

(* An undo or a redo moves the cursor to the content it has restored. *)
LEMMA NavigatedStep ==
  ASSUME HistoryInv, Committed, action \in {"undo", "redo"}
  PROVE  HistoryTypes' /\ Line' /\ Standing' /\ Calling'
  <1>1. /\ Content(world') = Content(staged)
        /\ expected_revision' = world'.world_revision /\ expected_revision' \in Nat
        /\ script' = <<>> /\ ~staging'
        /\ \/ action = "undo" /\ cursor # 0 /\ Content(staged) = past[cursor]
           \/ action = "redo" /\ cursor # Len(entries) /\ Content(staged) = past[cursor + 2]
    BY CommitReached
  <1>2. /\ UNCHANGED <<entries, past>>
        /\ cursor' = IF action = "undo" THEN cursor - 1 ELSE cursor + 1
    BY DEF Committed
  <1>3. HistoryTypes'
    BY <1>1, <1>2 DEF HistoryInv, HistoryTypes
  <1>4. Content(world') = past'[cursor' + 1]
    BY <1>1, <1>2 DEF HistoryInv, HistoryTypes
  <1>5. Line'
    BY <1>2 DEF HistoryInv, Line
  <1>6. Standing' /\ Calling'
    BY <1>1, <1>4 DEF Standing, Calling, Current
  <1> QED BY <1>3, <1>5, <1>6

(* A batch that is rejected leaves the history as it is. *)
LEMMA RejectedStep ==
  ASSUME HistoryInv, Reject, EndCall, UNCHANGED history
  PROVE  HistoryTypes' /\ Line' /\ Standing' /\ Calling'
  <1>1. UNCHANGED <<world, entries, cursor, expected_revision, past>> /\ script' = <<>> /\ ~staging'
    BY DEF Reject, EndBatch, EndCall, history
  <1>2. Content(world)' = Content(world)
    BY <1>1 DEF Content
  <1> QED BY <1>1, <1>2 DEF HistoryInv, HistoryTypes, Line, Standing, Calling, Current

(* What others write takes the world away from the history, for good. *)
LEMMA OthersStep ==
  ASSUME HistoryInv,
         \/ OtherBegin \/ OtherStage
         \/ action = "other" /\ Commit /\ EndCall /\ UNCHANGED history
  PROVE  HistoryTypes' /\ Line' /\ Standing' /\ Calling'
  <1>1. CASE OtherBegin
    <2>1. /\ UNCHANGED <<world, entries, cursor, expected_revision, past>>
          /\ action' = "other" /\ script' = <<>>
      BY <1>1 DEF OtherBegin, Call, Begin, history
    <2>2. Content(world)' = Content(world)
      BY <2>1 DEF Content
    <2> QED BY <2>1, <2>2 DEF HistoryInv, HistoryTypes, Line, Standing, Calling, Current
  <1>2. CASE OtherStage
    <2>1. UNCHANGED <<world, staging, entries, cursor, expected_revision, past, action, script>>
          /\ action = "other"
      BY <1>2, OperationKeeps DEF OtherStage, history, call, HistoryInv
    <2>2. Content(world)' = Content(world)
      BY <2>1 DEF Content
    <2> QED BY <2>1, <2>2 DEF HistoryInv, HistoryTypes, Line, Standing, Calling, Current
  <1>3. CASE action = "other" /\ Commit /\ EndCall /\ UNCHANGED history
    <2>1. UNCHANGED <<entries, cursor, expected_revision, past>> /\ script' = <<>> /\ ~staging'
      BY <1>3 DEF Commit, EndBatch, EndCall, history
    <2>2. world'.world_revision = world.world_revision + 1 /\ world.world_revision \in Nat
      BY <1>3, CommitStep DEF HistoryInv
    <2>3. Standing'
      BY <2>1, <2>2 DEF HistoryInv, HistoryTypes, Standing, Current
    <2>4. HistoryTypes'
      BY <2>1 DEF HistoryInv, HistoryTypes
    <2>5. Line'
      BY <2>1 DEF HistoryInv, Line
    <2>6. Calling'
      BY <2>1 DEF Calling
    <2> QED BY <2>3, <2>4, <2>5, <2>6
  <1> QED BY <1>1, <1>2, <1>3

(* A cleared history starts over from the world as it is. *)
LEMMA ClearStep ==
  ASSUME HistoryInv, Clear
  PROVE  HistoryTypes' /\ Line' /\ Standing' /\ Calling'
  <1>1. /\ UNCHANGED <<world, script>> /\ ~staging'
        /\ entries' = <<>> /\ cursor' = 0 /\ past' = <<Content(world)>>
        /\ expected_revision' = world.world_revision
    BY DEF Clear, vars, call
  <1>2. Content(world)' = Content(world)
    BY <1>1 DEF Content
  <1>3. world.world_revision \in Nat /\ Content(world) \in Contents
    BY ContentOf DEF HistoryInv, TypeInv, TypeOK, Snapshots
  <1>4. HistoryTypes'
    BY <1>1, <1>3 DEF HistoryInv, HistoryTypes
  <1>5. Line' /\ Calling'
    BY <1>1 DEF Line, Calling
  <1>6. Standing'
    BY <1>1, <1>2, <1>3 DEF Standing
  <1> QED BY <1>4, <1>5, <1>6

LEMMA HistoryStart == HistoryInit => HistoryInv
  <1> SUFFICES ASSUME HistoryInit PROVE HistoryInv
    OBVIOUS
  <1>1. /\ TypeInv /\ ~staging
        /\ script = <<>> /\ entries = <<>> /\ cursor = 0 /\ past = <<Content(world)>>
        /\ expected_revision = world.world_revision
    BY TypeInvInit DEF HistoryInit, Init
  <1>2. world.world_revision \in Nat /\ Content(world) \in Contents
    BY <1>1, ContentOf DEF TypeInv, TypeOK, Snapshots
  <1>3. HistoryTypes
    BY <1>1, <1>2 DEF HistoryTypes
  <1> QED BY <1>1, <1>2, <1>3 DEF HistoryInv, Copied, Line, Standing, Calling

LEMMA HistoryStepInv == HistoryInv /\ [HistoryNext]_allVars => HistoryInv'
  <1> SUFFICES ASSUME HistoryInv, [HistoryNext]_allVars PROVE HistoryInv'
    OBVIOUS
  <1>1. TypeInv' /\ Copied'
    BY HistorySteps, TypeInvStep, CopiedStep DEF HistoryInv
  <1> DEFINE Rest == HistoryTypes /\ Line /\ Standing /\ Calling
  <1>2. ASSUME NEW n \in 1 .. MaxOperations, NEW forward \in [1 .. n -> Operations], Apply(forward)
        PROVE  Rest'
    <2>1. forward \in Seq(Operations)
      BY <1>2
    <2> QED BY <1>2, <2>1, CallStarts
  <1>3. ASSUME NEW kind \in {"undo", "redo"}, Navigate(kind) PROVE Rest'
    BY <1>3, NavigationStarts
  <1>4. ASSUME StageNext PROVE Rest'
    BY <1>4, ScriptStep
  <1>5. ASSUME Committed PROVE Rest'
    BY <1>5, AppliedStep, NavigatedStep DEF Committed
  <1>6. ASSUME Rejected PROVE Rest'
    BY <1>6, RejectedStep DEF Rejected
  <1>7. ASSUME Clear PROVE Rest'
    BY <1>7, ClearStep
  <1>8. ASSUME OtherBegin \/ OtherStage PROVE Rest'
    BY <1>8, OthersStep
  <1>9. ASSUME OtherEnd PROVE Rest'
    BY <1>9, OthersStep, RejectedStep DEF OtherEnd
  <1>10. ASSUME UNCHANGED allVars PROVE Rest'
    <2>1. UNCHANGED <<world, staging, staged, entries, cursor, expected_revision, past,
                      action, script, prepared_entry>>
      BY <1>10 DEF allVars, vars, history, call
    <2>2. Content(world)' = Content(world) /\ Content(staged)' = Content(staged)
      BY <2>1 DEF Content
    <2>3. Prepared(world', prepared_entry'.forward) = Prepared(world, prepared_entry.forward)
      BY <2>1
    <2>4. Calling'
      BY <2>1, <2>2, <2>3 DEF HistoryInv, Calling, Current
    <2>5. HistoryTypes' /\ Line'
      BY <2>1 DEF HistoryInv, HistoryTypes, Line
    <2>6. Standing'
      BY <2>1, <2>2 DEF HistoryInv, Standing, Current
    <2> QED BY <2>4, <2>5, <2>6
  <1>11. Rest'
    BY <1>2, <1>3, <1>4, <1>5, <1>6, <1>7, <1>8, <1>9, <1>10 DEF HistoryNext
  <1> QED BY <1>1, <1>11 DEF HistoryInv

(* As long as the history considers itself current, the world holds what it *)
(* held when the cursor last stood where it stands: undo and redo restore,  *)
(* however often a batch edits an entity and whatever others write between. *)
THEOREM UndoRestoresContent == HistorySpec => []UndoRestores
  <1>1. HistoryInv => UndoRestores
    BY DEF HistoryInv, HistoryTypes, Standing, UndoRestores
  <1> QED BY HistoryStart, HistoryStepInv, <1>1, PTL DEF HistorySpec

(* The history writes by the coordinator's own steps. *)
THEOREM HistoryImplementsCoordinator == HistorySpec => Spec
  <1>1. HistoryInit => Init
    BY DEF HistoryInit
  <1>2. HistoryInv /\ [HistoryNext]_allVars => [Next]_vars
    BY HistorySteps DEF HistoryInv
  <1> QED BY HistoryStart, HistoryStepInv, <1>1, <1>2, PTL DEF HistorySpec, Spec

-----------------------------------------------------------------------------
(* The query session.  Its rows are only known to be a sequence, whatever   *)
(* their elements: a page is made of positions.                             *)

IsSeq(rows) == \E S : rows \in Seq(S)

Capturing ==
  /\ serial \in Nat /\ IsSeq(captured) /\ Len(captured) = serial
  /\ snapshot # NoSnapshot => /\ serial # 0 /\ snapshot.rows = captured[serial]
                              /\ IsSeq(snapshot.rows) /\ snapshot.page_size \in Nat

\* A cursor that was handed out stands after a page of a query that was answered.
CursorsStand == \A c \in held : c.owner = "self" /\ c.offset \in Nat

SessionInv == Capturing /\ CursorsStand /\ PagesOfOneQuery

(* A bounded set of numbers has a largest one: there are least numbers above *)
(* one of its elements.                                                       *)
LEMMA Largest ==
  ASSUME NEW n \in Nat, NEW S \in SUBSET (0 .. n), S # {}
  PROVE  \E e \in S : \A k \in S : k <= e
  <1>0. \A j \in S : j \in Int
    OBVIOUS
  <1> DEFINE Above(e) == {k \in S : k > e}
             T == {X \in SUBSET S : \E e \in S : X = Above(e)}
  <1>1. IsFiniteSet(S)
    <2>1. IsFiniteSet(0 .. n)
      BY FS_Interval
    <2> QED BY <2>1, FS_Subset
  <1>2. T \subseteq SUBSET S /\ T # {}
    <2>1. PICK e \in S : TRUE
      OBVIOUS
    <2>2. Above(e) \in T
      BY <2>1
    <2> QED BY <2>2
  <1>3. IsWellFoundedOn(StrictSubsetOrdering(S), SUBSET S)
    BY <1>1, FS_StrictSubsetOrderingWellFounded, FS_FiniteSubsetsOfFinite
  <1>4. PICK X \in T : \A Y \in T : ~(<<Y, X>> \in StrictSubsetOrdering(S))
    <2> HIDE DEF T
    <2> QED BY <1>2, <1>3, WFMin
  <1>5. PICK e \in S : X = Above(e)
    OBVIOUS
  <1>6. ASSUME NEW k \in S PROVE k <= e
    <2>1. SUFFICES ASSUME k > e PROVE FALSE
      OBVIOUS
    <2>2. Above(k) \in T /\ X \in SUBSET S
      OBVIOUS
    <2>3. k \in X /\ k \notin Above(k)
      BY <1>5, <2>1
    <2>4. Above(k) \subseteq X
      <3>1. k \in Int /\ e \in Int
        BY <1>0
      <3>2. ASSUME NEW j \in S, j > k PROVE j > e
        <4>1. j \in Int
          BY <1>0
        <4> QED BY <2>1, <3>1, <3>2, <4>1
      <3> QED BY <1>5, <3>2
    <2> HIDE DEF Above
    <2>5. <<Above(k), X>> \in StrictSubsetOrdering(S)
      BY <2>2, <2>3, <2>4 DEF StrictSubsetOrdering
    <2> QED BY <1>4, <2>2, <2>5
  <1> QED BY <1>6

(* A page ends where its rows do, or before. *)
LEMMA PageEnds ==
  ASSUME NEW data, IsSeq(data.rows), data.page_size \in Nat, NEW offset \in 0 .. Len(data.rows)
  PROVE  End(data, offset) \in offset .. Len(data.rows)
  <1> DEFINE S == Ends(data, offset)
             n == Len(data.rows)
  <1>1. n \in Nat
    BY DEF IsSeq
  <1>2. S \in SUBSET (0 .. n) /\ S \subseteq offset .. n
    BY <1>1 DEF Ends
  <1>3. offset \in S
    BY <1>1 DEF Ends
  <1>4. \E e \in S : \A k \in S : k <= e
    <2> HIDE DEF S, n
    <2> QED BY <1>1, <1>2, <1>3, Largest
  <1> QED BY <1>2, <1>4 DEF End

(* The page at a cursor of the newest capture is a page of that capture. *)
LEMMA AnswersPage ==
  ASSUME NEW data, IsSeq(data.rows), data.page_size \in Nat, NEW mark,
         mark.offset \in 0 .. Len(data.rows), Pageable(data, mark.offset), Answers(data, mark),
         data.rows = captured'[mark.snapshot],
         CursorsStand, mark.offset # 0 => mark \in held
  PROVE  PagesOfOneQuery' /\ CursorsStand'
  <1> DEFINE n == Len(data.rows)
             first == mark.offset
             end == End(data, first)
             rows == SubSeq(data.rows, first + 1, end)
  <1>1. n \in Nat /\ first \in 0 .. n /\ end \in first .. n
    BY PageEnds DEF IsSeq
  <1>2. end = first => end = n
    BY DEF Pageable
  <1>3. /\ answer' = [cursor |-> mark, more |-> end < n, rows |-> rows]
        /\ held' = IF end < n THEN held \cup {Cursor("self", mark.snapshot, end)} ELSE held
    BY DEF Answers
  <1>4. Len(rows) = end - first
    <2>1. PICK S : data.rows \in Seq(S)
      BY DEF IsSeq
    <2> QED BY <1>1, <2>1
  <1> HIDE DEF end, rows
  <1>5. answer'.cursor = mark /\ answer'.rows = rows /\ (answer'.more <=> end < n)
    BY <1>3
  <1>6. held \subseteq held'
    BY <1>3
  <1>7. first + Len(rows) = end
    BY <1>1, <1>4
  <1>8. PagesOfOneQuery'
    <2>1. answer'.rows = SubSeq(captured'[mark.snapshot], first + 1, first + Len(answer'.rows))
      BY <1>5, <1>7 DEF rows
    <2>2. first < n => first < end
      BY <1>1, <1>2
    <2>3. first # 0 => mark \in held'
      BY <1>6
    <2> QED BY <1>5, <1>7, <2>1, <2>2, <2>3 DEF PagesOfOneQuery
  <1>9. CursorsStand'
    BY <1>1, <1>3 DEF CursorsStand, Cursor
  <1> QED BY <1>8, <1>9

(* The rows of a query are a sequence. *)
LEMMA RowsAreSequence ==
  ASSUME NEW query
  PROVE  IsSeq(Rows(query))
  <1> DEFINE chosen == {s \in Slots : Admitted(query, s)}
             Nth(i) == CHOOSE s \in chosen : Cardinality({q \in chosen : q < s}) = i - 1
             n == Cardinality(chosen)
             f == [i \in 1 .. n |-> Row(Nth(i))]
  <1>1. n \in Nat
    <2>1. chosen \subseteq Slots
      OBVIOUS
    <2>2. IsFiniteSet(Slots)
      <3>1. MaxSlots \in Int /\ 1 \in Int
        OBVIOUS
      <3> QED BY <3>1, FS_Interval DEF Slots
    <2> HIDE DEF chosen
    <2>3. IsFiniteSet(chosen)
      BY <2>1, <2>2, FS_Subset
    <2> QED BY <2>3, FS_CardinalityType
  <1>2. Rows(query) = f
    BY DEF Rows
  <1>3. PICK S : S = {f[i] : i \in 1 .. n}
    OBVIOUS
  <1>4. f \in [1 .. n -> S]
    BY <1>3
  <1> HIDE DEF f, n
  <1>5. f \in Seq(S)
    BY <1>1, <1>4
  <1> QED BY <1>2, <1>5 DEF IsSeq

LEMMA RefusalKeeps ==
  ASSUME SessionInv, Expire, Refuses, UNCHANGED <<serial, captured>>
  PROVE  SessionInv'
  <1>1. snapshot' = NoSnapshot \/ snapshot' = snapshot
    BY DEF Expire
  <1> QED BY <1>1 DEF Refuses, SessionInv, Capturing, CursorsStand, PagesOfOneQuery

(* A query that is answered becomes the newest capture. *)
LEMMA StartKeeps ==
  ASSUME SessionInv, NEW query \in Queries, Start(query)
  PROVE  SessionInv'
  <1>1. CASE Refused \/ RunsLate
    BY <1>1, RefusalKeeps DEF Refused, RunsLate
  <1>2. CASE ~(Refused \/ RunsLate)
    <2> DEFINE data == Staged(query)
               rows == Rows(query)
    <2>1. /\ snapshot' = data /\ serial' = serial + 1 /\ captured' = Append(captured, rows)
          /\ Pageable(data, 0) /\ Answers(data, Cursor("self", serial', 0))
      BY <1>2 DEF Start
    <2>2. data.rows = rows /\ data.page_size = query.page_size /\ query.page_size \in Nat
      BY ObserveAssumption DEF Staged
    <2>3. IsSeq(rows)
      BY RowsAreSequence
    <2> HIDE DEF data, rows
    <2>4. serial \in Nat /\ Len(captured) = serial
      BY DEF SessionInv, Capturing
    <2>5. PICK S : captured \in Seq(S)
      BY DEF SessionInv, Capturing, IsSeq
    <2>6. PICK T : T = S \cup {rows}
      OBVIOUS
    <2>7. captured \in Seq(T) /\ rows \in T
      BY <2>5, <2>6
    <2>8. captured' \in Seq(T) /\ Len(captured') = serial + 1 /\ captured'[serial + 1] = rows
      BY <2>1, <2>4, <2>7
    <2>9. Capturing'
      BY <2>1, <2>2, <2>3, <2>4, <2>8 DEF Capturing, IsSeq
    <2> DEFINE c == Cursor("self", serial', 0)
    <2>10. c.offset = 0 /\ c.snapshot = serial + 1
      BY <2>1 DEF Cursor
    <2>11. Answers(data, c)
      BY <2>1
    <2> HIDE DEF c
    <2>12. 0 \in 0 .. Len(data.rows)
      BY <2>2, <2>3 DEF IsSeq
    <2>13. PagesOfOneQuery' /\ CursorsStand'
      BY <2>1, <2>2, <2>3, <2>8, <2>10, <2>11, <2>12, AnswersPage DEF SessionInv
    <2> QED BY <2>9, <2>13 DEF SessionInv
  <1> QED BY <1>1, <1>2

(* A page is answered from the newest capture only. *)
LEMMA NextPageKeeps ==
  ASSUME SessionInv, NEW mark \in held \cup Foreign, NextPage(mark)
  PROVE  SessionInv'
  <1>1. CASE Refused \/ RunsLate
    BY <1>1, RefusalKeeps DEF Refused, RunsLate
  <1>2. CASE ~(Refused \/ RunsLate)
    <2>1. /\ Pages(mark) /\ Pageable(snapshot, mark.offset) /\ Answers(snapshot, mark)
          /\ UNCHANGED <<serial, snapshot, captured>>
      BY <1>2 DEF NextPage
    <2>2. mark \in held
      <3>1. ASSUME mark \in Foreign PROVE mark.owner # "self"
        BY <3>1 DEF Foreign, Cursor
      <3> QED BY <2>1, <3>1 DEF Pages
    <2>3. /\ mark.snapshot = serial /\ mark.offset \in Nat
          /\ mark.offset < Len(snapshot.rows)
          /\ snapshot.rows = captured[serial] /\ IsSeq(snapshot.rows) /\ snapshot.page_size \in Nat
      BY <2>1, <2>2 DEF Pages, SessionInv, Capturing, CursorsStand
    <2>4. mark.offset \in 0 .. Len(snapshot.rows)
      BY <2>3 DEF IsSeq
    <2>5. PagesOfOneQuery' /\ CursorsStand'
      BY <2>1, <2>2, <2>3, <2>4, AnswersPage DEF SessionInv
    <2>6. Capturing'
      BY <2>1 DEF SessionInv, Capturing
    <2> QED BY <2>5, <2>6 DEF SessionInv
  <1> QED BY <1>1, <1>2

LEMMA SessionStart == SessionInit => SessionInv
  <1> SUFFICES ASSUME SessionInit PROVE SessionInv
    OBVIOUS
  <1>1. captured = <<>> /\ serial = 0 /\ snapshot = NoSnapshot /\ held = {} /\ answer = NoAnswer
    BY DEF SessionInit
  <1>2. captured \in Seq({}) /\ Len(captured) = 0
    BY <1>1
  <1> QED BY <1>1, <1>2 DEF SessionInv, Capturing, CursorsStand, PagesOfOneQuery, IsSeq

LEMMA SessionStep ==
  SessionInv /\ [(SessionNext /\ UNCHANGED vars) \/ (Next /\ UNCHANGED session)]_<<vars, session>>
    => SessionInv'
  <1> SUFFICES ASSUME SessionInv, SessionNext \/ UNCHANGED session PROVE SessionInv'
    BY DEF session
  <1>1. CASE UNCHANGED session \/ TimePasses
    BY <1>1 DEF session, TimePasses, SessionInv, Capturing, CursorsStand, PagesOfOneQuery
  <1>2. CASE Close
    BY <1>2 DEF Close, SessionInv, Capturing, CursorsStand, PagesOfOneQuery
  <1>3. ASSUME NEW query \in Queries, Start(query) PROVE SessionInv'
    BY <1>3, StartKeeps
  <1>4. ASSUME NEW mark \in held \cup Foreign, NextPage(mark) PROVE SessionInv'
    BY <1>4, NextPageKeeps
  <1> QED BY <1>1, <1>2, <1>3, <1>4 DEF SessionNext

(* Every page is a page of the query its cursor is of, as that query was    *)
(* captured: for every grant, world, byte limit and deadline, whatever      *)
(* others write and the caller asks between two pages.                      *)
THEOREM PagesStayWithTheirQuery == SessionSpec => []PagesOfOneQuery
  <1>1. SessionInv => PagesOfOneQuery
    BY DEF SessionInv
  <1> QED BY SessionStart, SessionStep, <1>1, PTL DEF SessionSpec
-----------------------------------------------------------------------------
(* The policy guard.                                                       *)

Leases == [principal : Principals \cup {None}, bytes : Nat, claimed : BOOLEAN]
Usages == [working : [Principals -> Int], requests : [Principals -> Int],
           retained : [Principals -> Int], global_requests : Int, world_revision : Nat]
Payers == [Slots -> Principals \cup {None}]
Flags == [Slots -> BOOLEAN]
Guards == [holder : Holders, sponsors : Payers, live : Flags, unplaced : Flags,
           retained : [Principals -> Int]]

\* The types of the policy's state; a lease without a principal is none.
PolicyTypes ==
  /\ leases \in [Holders -> Leases] /\ usage \in Usages
  /\ sponsors \in Payers /\ live \in Flags
  /\ \A h \in Holders : leases[h].principal = None => leases[h] = NoLease

\* Cubes hang from no other: no guarded operation makes a child.
Flat(st) ==
  \A s \in Slots : st.slots[s].parent = NoHandle /\ (st.slots[s].live => Appended(st, s))

\* Who pays for what is in the snapshot, and can.
Describes(by, alive, st) ==
  \A s \in Slots : /\ by[s] # None <=> Appended(st, s)
                   /\ alive[s] <=> st.slots[s].live

Affordable(retained) == \A p \in Principals : retained[p] <= RetainedLimit[p]

Within(st, by, unplaced) ==
  \A s \in Slots : st.slots[s].live /\ ~unplaced[s] =>
    st.slots[s].transform.position \in Region[by[s]]

Ledgers ==
  /\ usage.world_revision = world.world_revision
  /\ Describes(sponsors, live, world)
  /\ usage.retained = Retained(sponsors, live) /\ Affordable(usage.retained)
  /\ Flat(world)
  /\ Within(world, sponsors, [s \in Slots |-> FALSE])

\* The guard describes the copy as the ledger describes the World.  A cube
\* without a place yet is the writer's, and so is one the batch has touched.
Guarding ==
  staging =>
    /\ guard \in Guards /\ Writer \in Principals
    /\ Describes(guard.sponsors, guard.live, staged)
    /\ guard.retained = Retained(guard.sponsors, guard.live) /\ Affordable(guard.retained)
    /\ Flat(staged)
    /\ Within(staged, guard.sponsors, guard.unplaced)
    /\ \A s \in Slots : guard.unplaced[s] => guard.sponsors[s] = Writer
    /\ \A s \in Slots : world.slots[s].live =>
         \/ sponsors[s] = Writer
         \/ /\ staged.slots[s] = world.slots[s] /\ guard.sponsors[s] = sponsors[s]
            /\ ~guard.unplaced[s]

PolicyInv == TypeInv /\ Copied /\ PolicyTypes /\ BooksBalance /\ Ledgers /\ Guarding

(* What slots cost a principal is a number. *)
LEMMA RetainedType ==
  ASSUME NEW by, NEW alive
  PROVE  Retained(by, alive) \in [Principals -> Int]
  <1> SUFFICES ASSUME NEW p \in Principals
               PROVE  Skeleton * Cardinality({s \in Slots : by[s] = p})
                        + Cube * Cardinality({s \in Slots : by[s] = p /\ alive[s]}) \in Int
    BY DEF Retained
  <1>1. IsFiniteSet(Slots)
    BY FS_Interval, CoordinatorAssumption DEF Slots
  <1> DEFINE a == Cardinality({s \in Slots : by[s] = p})
             b == Cardinality({s \in Slots : by[s] = p /\ alive[s]})
  <1>2. a \in Nat /\ b \in Nat
    BY <1>1, FS_Subset, FS_CardinalityType
  <1> HIDE DEF a, b
  <1>3. Skeleton * a \in Int /\ Cube * b \in Int
    BY <1>2, PolicyAssumption
  <1> QED BY <1>3 DEF a, b

(* account: the guard's copy, when every principal can pay. *)
LEMMA AccountGuard ==
  ASSUME NEW g \in Guards, Account(g)
  PROVE  /\ guard' \in Guards /\ guard'.holder = g.holder
         /\ guard'.sponsors = g.sponsors /\ guard'.live = g.live
         /\ guard'.unplaced = g.unplaced
         /\ guard'.retained = Retained(guard'.sponsors, guard'.live)
         /\ Affordable(guard'.retained)
  <1> DEFINE r == Retained(g.sponsors, g.live)
  <1>1. r \in [Principals -> Int] /\ guard' = [g EXCEPT !.retained = r] /\ Affordable(r)
    BY RetainedType DEF Account, Affordable
  <1> HIDE DEF r
  <1>2. /\ guard' \in Guards /\ guard'.holder = g.holder
        /\ guard'.sponsors = g.sponsors /\ guard'.live = g.live
        /\ guard'.unplaced = g.unplaced /\ guard'.retained = r
    BY <1>1 DEF Guards
  <1> QED BY <1>1, <1>2 DEF r

(* Regions do not meet: a place inside two principals' regions has one owner. *)
LEMMA OneOwner ==
  ASSUME NEW p \in Principals, NEW q \in Principals, NEW x, x \in Region[p], x \in Region[q]
  PROVE  p = q
  BY PolicyAssumption

(* In a flat world a transform changes the cube it names and no other. *)
LEMMA FlatTransformed ==
  ASSUME NEW st \in Snapshots, NextRevision \in 0 .. MaxRevision, Flat(st),
         NEW h, NEW v \in Transforms, NEW st2 \in Transformed(st, h, v)
  PROVE  /\ h.slot \in Slots /\ st.slots[h.slot].live /\ st2.slots[h.slot].live
         /\ st2.slots[h.slot].transform = v
         /\ st2.slots[h.slot].parent = NoHandle
         /\ st2.slots[h.slot].generation = st.slots[h.slot].generation
         /\ \A q \in Slots \ {h.slot} : st2.slots[q] = st.slots[q]
  <1>1. h \in Handles /\ h.slot \in Slots /\ st.slots[h.slot].live
    BY Values DEF Transformed, Resolves
  <1> DEFINE s == h.slot
             r == [st.slots[s] EXCEPT !.local_transform = st.slots[s].local_transform,
                                      !.transform = v]
             st1 == [st EXCEPT !.slots[s] = r]
  <1>2. ~HasParent(st, s)
    BY <1>1 DEF Flat, HasParent
  <1>3. st2 \in SubtreeOutcomes(st1, s)
    BY <1>2 DEF Transformed
  <1>4. st.slots[s] \in SlotRecords
    BY <1>1 DEF Snapshots
  <1>5. /\ r \in SlotRecords /\ r.transform = v /\ r.live = st.slots[s].live
        /\ r.generation = st.slots[s].generation /\ r.parent = st.slots[s].parent
    BY <1>4 DEF SlotRecords
  <1> HIDE DEF r
  <1>6. /\ st1 \in Snapshots /\ st1.slots[s] = r
        /\ \A q \in Slots \ {s} : st1.slots[q] = st.slots[q]
    BY <1>1, <1>5, OneSlot
  <1> HIDE DEF st1
  <1>7. \A q \in Slots : st1.slots[q].parent = NoHandle
    BY <1>5, <1>6 DEF Flat
  <1>8. \A a, b \in Slots : ~ChildOf(st1, a, b)
    BY <1>7, ChildHasParent DEF HasParent
  <1>9. Subtree(st1, s) = {s}
    <2>1. {s} \in SUBSET Slots
      BY <1>1
    <2>2. \A p \in {s}, c \in Slots : ChildOf(st1, c, p) => c \in {s}
      BY <1>1, <1>8
    <2>3. Subtree(st1, s) \subseteq {s}
      <3>1. PICK S \in SUBSET Slots : S = {s}
        BY <2>1
      <3>2. s \in S /\ \A p \in S, c \in Slots : ChildOf(st1, c, p) => c \in S
        BY <2>2, <3>1
      <3>3. Subtree(st1, s) \subseteq S
        BY <1>1, <3>2, SubtreeLeast
      <3> QED BY <3>1, <3>3
    <2> QED BY <1>1, <2>3, SubtreeClosed
  <1>10. PICK f \in Recomputed(st1, s) :
           st2 = [st1 EXCEPT !.slots = [q \in Slots |->
                  IF q \in Subtree(st1, s)
                    THEN [st1.slots[q] EXCEPT !.transform = f[q],
                                              !.authoring_revision = NextRevision]
                    ELSE st1.slots[q]]]
    BY <1>3 DEF SubtreeOutcomes
  <1>11. f[s] = st1.slots[s].transform
    BY <1>1, <1>9, <1>10 DEF Recomputed
  <1>12. st2.slots = [q \in Slots |->
                  IF q = s THEN [r EXCEPT !.transform = v, !.authoring_revision = NextRevision]
                           ELSE st.slots[q]]
    BY <1>5, <1>6, <1>9, <1>10, <1>11 DEF Snapshots
  <1>13. /\ st2.slots[s] = [r EXCEPT !.transform = v, !.authoring_revision = NextRevision]
         /\ \A q \in Slots \ {s} : st2.slots[q] = st.slots[q]
    BY <1>1, <1>12
  <1> QED BY <1>1, <1>5, <1>13 DEF SlotRecords, Flat

(* What the batch changes is its writer's: a cube stands in the region of   *)
(* the principal that pays for it, and regions do not meet.                 *)
LEMMA TouchedIsOwn ==
  ASSUME PolicyInv, staging, NEW s \in Slots, staged.slots[s].live,
         guard.unplaced[s] \/ InScope(staged.slots[s].transform)
  PROVE  guard.sponsors[s] = Writer /\ (world.slots[s].live => sponsors[s] = Writer)
  <1>1. /\ guard \in Guards /\ Writer \in Principals
        /\ Describes(guard.sponsors, guard.live, staged)
        /\ Flat(staged) /\ Within(staged, guard.sponsors, guard.unplaced)
        /\ \A q \in Slots : guard.unplaced[q] => guard.sponsors[q] = Writer
        /\ world.slots[s].live =>
             \/ sponsors[s] = Writer
             \/ guard.sponsors[s] = sponsors[s]
    BY DEF PolicyInv, Guarding
  <1>2. guard.sponsors[s] \in Principals
    BY <1>1 DEF Describes, Flat, Guards, Payers
  <1>3. guard.sponsors[s] = Writer
    <2>1. CASE guard.unplaced[s]
      BY <1>1, <2>1
    <2>2. CASE ~guard.unplaced[s]
      <3>1. /\ staged.slots[s].transform.position \in Region[Writer]
            /\ staged.slots[s].transform.position \in Region[guard.sponsors[s]]
        BY <1>1, <2>2 DEF InScope, Within
      <3> QED BY <1>1, <1>2, <3>1, OneOwner
    <2> QED BY <2>1, <2>2
  <1> QED BY <1>1, <1>3

(* The guard still describes the copy when one slot of it was the writer's  *)
(* to change, and is described as it is now.                                *)
LEMMA GuardKept ==
  ASSUME PolicyInv, staging, UNCHANGED <<world, leases, usage, sponsors, live>>,
         guard' \in Guards, guard'.holder = guard.holder,
         guard'.retained = Retained(guard'.sponsors, guard'.live), Affordable(guard'.retained),
         NEW s \in Slots,
         \A q \in Slots \ {s} : /\ staged'.slots[q] = staged.slots[q]
                                /\ guard'.sponsors[q] = guard.sponsors[q]
                                /\ guard'.live[q] = guard.live[q]
                                /\ guard'.unplaced[q] = guard.unplaced[q],
         staged'.slots[s].generation > 0, staged'.slots[s].parent = NoHandle,
         guard'.live[s] <=> staged'.slots[s].live,
         guard'.sponsors[s] = Writer,
         staged'.slots[s].live /\ ~guard'.unplaced[s] =>
           staged'.slots[s].transform.position \in Region[Writer],
         world.slots[s].live => sponsors[s] = Writer
  PROVE  Guarding'
  <1>1. Writer' = Writer /\ Writer \in Principals /\ Writer # None
    BY PolicyAssumption DEF PolicyInv, Guarding, Writer
  <1>2. Describes(guard'.sponsors, guard'.live, staged')
    BY <1>1 DEF PolicyInv, Guarding, Describes, Appended
  <1>3. Flat(staged')
    BY DEF PolicyInv, Guarding, Flat, Appended
  <1>4. Within(staged', guard'.sponsors, guard'.unplaced)
    BY DEF PolicyInv, Guarding, Within
  <1>5. \A q \in Slots : guard'.unplaced[q] => guard'.sponsors[q] = Writer
    BY DEF PolicyInv, Guarding
  <1>6. \A q \in Slots : world'.slots[q].live =>
          \/ sponsors'[q] = Writer'
          \/ /\ staged'.slots[q] = world'.slots[q] /\ guard'.sponsors[q] = sponsors'[q]
             /\ ~guard'.unplaced[q]
    BY <1>1 DEF PolicyInv, Guarding
  <1> QED BY <1>1, <1>2, <1>3, <1>4, <1>5, <1>6
           DEF Guarding, Describes, Affordable, Flat, Within, Appended, Retained

(* What an operation of a batch leaves alone. *)
LEMMA OperationPolicy ==
  ASSUME PolicyInv,
         \/ \E n \in TempNames : Create(n)
         \/ \E t \in Targets, v \in Transforms : SetTransform(t, v)
         \/ \E t \in Targets : Delete(t),
         UNCHANGED <<leases, ledger>>, Guarding'
  PROVE  PolicyInv'
  <1>1. TypeInv'
    BY TypeInvStep DEF PolicyInv, Next
  <1>2. /\ staging /\ UNCHANGED <<world, staging>>
        /\ staged'.world_revision = staged.world_revision
    BY OperationKeeps DEF PolicyInv
  <1>3. Copied'
    BY <1>2 DEF PolicyInv, Copied
  <1>4. UNCHANGED <<usage, sponsors, live>>
    BY DEF ledger
  <1>5. PolicyTypes'
    BY <1>4 DEF PolicyInv, PolicyTypes
  <1>6. BooksBalance'
    BY <1>4 DEF PolicyInv, BooksBalance
  <1>7. Ledgers'
    BY <1>2, <1>4 DEF PolicyInv, Ledgers, Describes, Affordable, Flat, Within, Retained, Appended
  <1> QED BY <1>1, <1>3, <1>5, <1>6, <1>7 DEF PolicyInv

(* A create takes a slot no cube stands in, and makes it the writer's. *)
LEMMA CreateGuarded ==
  ASSUME PolicyInv, NEW name \in TempNames, GuardedCreate(name)
  PROVE  PolicyInv'
  <1>1. PICK c \in FirstFree(staged) :
          Stage(Created(staged, c)) /\ names' = [names EXCEPT ![name] = HandleOf(staged', c)]
    BY DEF GuardedCreate, Create
  <1>2. /\ staging /\ UNCHANGED <<world, leases, usage, sponsors, live>>
        /\ staged' \in Created(staged, c) /\ staged \in Snapshots
    BY <1>1 DEF GuardedCreate, Stage, ledger, PolicyInv, TypeInv, TypeOK
  <1>3. names'[name].slot = c
    BY <1>1 DEF HandleOf, PolicyInv, TypeInv, TypeOK
  <1>4. guard \in Guards /\ Writer \in Principals
    BY <1>2 DEF PolicyInv, Guarding
  <1>5. /\ c \in Slots /\ NextRevision \in 0 .. MaxRevision
        /\ \/ staged.slots[c].generation = 0
           \/ staged.slots[c].generation > 0 /\ ~staged.slots[c].live /\ ~staged.slots[c].retired
    BY <1>2, FirstFreeVacant, NextRevisionBound DEF PolicyInv
  <1>6. ~staged.slots[c].live
    BY <1>2, <1>5 DEF PolicyInv, Guarding, Flat, Appended
  <1>7. /\ staged'.slots[c].generation > 0 /\ staged'.slots[c].live
        /\ \A q \in Slots \ {c} : staged'.slots[q] = staged.slots[q]
    BY <1>2, <1>5, CreatedIdentity
  <1>8. staged'.slots[c].parent = NoHandle
    <2>1. staged'.slots[c] = Occupied(NewGeneration(staged, c))
      BY <1>2, <1>5 DEF Created, NewGeneration, Appended, Snapshots
    <2> QED BY <2>1 DEF Occupied, Vacant
  <1> DEFINE g == [guard EXCEPT !.sponsors[c] = Writer, !.live[c] = TRUE, !.unplaced[c] = TRUE]
  <1>9. Account(g)
    BY <1>3 DEF GuardedCreate
  <1>10. /\ g \in Guards /\ g.holder = guard.holder
         /\ g.sponsors = [guard.sponsors EXCEPT ![c] = Writer]
         /\ g.live = [guard.live EXCEPT ![c] = TRUE]
         /\ g.unplaced = [guard.unplaced EXCEPT ![c] = TRUE]
    BY <1>4, <1>5 DEF Guards, Payers, Flags
  <1> HIDE DEF g
  <1>11. /\ guard' \in Guards /\ guard'.holder = guard.holder
         /\ guard'.sponsors = [guard.sponsors EXCEPT ![c] = Writer]
         /\ guard'.live = [guard.live EXCEPT ![c] = TRUE]
         /\ guard'.unplaced = [guard.unplaced EXCEPT ![c] = TRUE]
         /\ guard'.retained = Retained(guard'.sponsors, guard'.live)
         /\ Affordable(guard'.retained)
    BY <1>9, <1>10, AccountGuard
  <1>12. /\ guard'.sponsors[c] = Writer /\ guard'.live[c] /\ guard'.unplaced[c]
         /\ \A q \in Slots \ {c} : /\ guard'.sponsors[q] = guard.sponsors[q]
                                   /\ guard'.live[q] = guard.live[q]
                                   /\ guard'.unplaced[q] = guard.unplaced[q]
    BY <1>4, <1>5, <1>11 DEF Guards, Payers, Flags
  <1>13. world.slots[c].live => sponsors[c] = Writer
    BY <1>2, <1>5, <1>6 DEF PolicyInv, Guarding
  <1>14. Guarding'
    <2>1. staging /\ UNCHANGED <<world, leases, usage, sponsors, live>>
      BY <1>2, <1>5
    <2>2. PICK s \in Slots : s = c
      BY <1>5
    <2>3. \A q \in Slots \ {s} : /\ staged'.slots[q] = staged.slots[q]
                                 /\ guard'.sponsors[q] = guard.sponsors[q]
                                 /\ guard'.live[q] = guard.live[q]
                                 /\ guard'.unplaced[q] = guard.unplaced[q]
      BY <1>7, <1>12, <2>2
    <2>4. /\ staged'.slots[s].generation > 0 /\ staged'.slots[s].parent = NoHandle
          /\ staged'.slots[s].live /\ guard'.live[s] /\ guard'.unplaced[s]
          /\ guard'.sponsors[s] = Writer
          /\ world.slots[s].live => sponsors[s] = Writer
      BY <1>7, <1>8, <1>12, <1>13, <2>2
    <2> QED BY <1>11, <2>1, <2>3, <2>4, GuardKept
  <1> QED BY <1>14, OperationPolicy DEF GuardedCreate

(* A transform moves a cube of the writer's to a place of the writer's. *)
LEMMA TransformGuarded ==
  ASSUME PolicyInv, NEW t \in Targets, NEW v \in Transforms, GuardedTransform(t, v)
  PROVE  PolicyInv'
  <1> DEFINE s == Denotes(t).slot
  <1>1. /\ staging /\ UNCHANGED <<world, leases, usage, sponsors, live>>
        /\ staged' \in Transformed(staged, Denotes(t), v) /\ staged \in Snapshots
        /\ guard.unplaced[s] \/ InScope(staged.slots[s].transform)
        /\ InScope(v)
        /\ guard' = [guard EXCEPT !.unplaced[s] = FALSE]
    BY DEF GuardedTransform, SetTransform, Stage, ledger, PolicyInv, TypeInv, TypeOK
  <1>2. /\ guard \in Guards /\ Flat(staged) /\ NextRevision \in 0 .. MaxRevision
        /\ Describes(guard.sponsors, guard.live, staged)
        /\ guard.retained = Retained(guard.sponsors, guard.live) /\ Affordable(guard.retained)
    BY <1>1, NextRevisionBound DEF PolicyInv, Guarding
  <1>3. /\ s \in Slots /\ staged.slots[s].live /\ staged'.slots[s].live
        /\ staged'.slots[s].transform = v /\ staged'.slots[s].parent = NoHandle
        /\ staged'.slots[s].generation = staged.slots[s].generation
        /\ \A q \in Slots \ {s} : staged'.slots[q] = staged.slots[q]
    BY <1>1, <1>2, FlatTransformed
  <1>4. guard.sponsors[s] = Writer /\ (world.slots[s].live => sponsors[s] = Writer)
    BY <1>1, <1>3, TouchedIsOwn
  <1>5. staged.slots[s].generation > 0 /\ guard.live[s]
    BY <1>2, <1>3 DEF Flat, Appended, Describes
  <1> HIDE DEF s
  <1>6. /\ guard' \in Guards /\ guard'.holder = guard.holder
        /\ guard'.sponsors = guard.sponsors /\ guard'.live = guard.live
        /\ guard'.retained = guard.retained
        /\ guard'.unplaced = [guard.unplaced EXCEPT ![s] = FALSE]
    BY <1>1, <1>2, <1>3 DEF Guards, Flags
  <1>7. \A q \in Slots \ {s} : guard'.unplaced[q] = guard.unplaced[q]
    BY <1>2, <1>6 DEF Guards, Flags
  <1>8. staged'.slots[s].transform.position \in Region[Writer]
    BY <1>1, <1>3 DEF InScope
  <1>9. Guarding'
    BY <1>1, <1>2, <1>3, <1>4, <1>5, <1>6, <1>7, <1>8, GuardKept
  <1> QED BY <1>9, OperationPolicy DEF GuardedTransform

(* A delete removes a cube of the writer's, who keeps paying for the slot. *)
LEMMA DeleteGuarded ==
  ASSUME PolicyInv, NEW t \in Targets, GuardedDelete(t)
  PROVE  PolicyInv'
  <1> DEFINE s == Denotes(t).slot
             g == [guard EXCEPT !.live[s] = FALSE, !.unplaced[s] = FALSE]
  <1>1. /\ staging /\ UNCHANGED <<world, leases, usage, sponsors, live>>
        /\ staged' \in Deleted(staged, Denotes(t)) /\ staged \in Snapshots
        /\ guard.unplaced[s] \/ InScope(staged.slots[s].transform)
        /\ Account(g)
    BY DEF GuardedDelete, Delete, Stage, ledger, PolicyInv, TypeInv, TypeOK
  <1>2. guard \in Guards
    BY <1>1 DEF PolicyInv, Guarding
  <1>3. /\ s \in Slots /\ staged.slots[s].live /\ ~staged'.slots[s].live
        /\ \A q \in Slots \ {s} : staged'.slots[q] = staged.slots[q]
        /\ staged'.slots[s].generation > 0 /\ staged'.slots[s].parent = NoHandle
    <2>1. /\ Denotes(t) \in Handles /\ s \in Slots /\ staged.slots[s].live
          /\ staged.slots[s].generation \in 1 .. MaxGeneration
      BY <1>1, Values DEF Deleted, Resolves
    <2>2. /\ ~staged'.slots[s].live
          /\ \/ staged'.slots[s].generation = staged.slots[s].generation + 1
             \/ staged'.slots[s].generation = staged.slots[s].generation
          /\ \A q \in Slots \ {s} : staged'.slots[q] = staged.slots[q]
      BY <1>1, DeletedIdentity
    <2>3. staged'.slots[s].parent = NoHandle
      BY <1>1, <2>1 DEF Deleted, Vacant, Snapshots
    <2> QED BY <2>1, <2>2, <2>3
  <1>4. guard.sponsors[s] = Writer /\ (world.slots[s].live => sponsors[s] = Writer)
    BY <1>1, <1>3, TouchedIsOwn
  <1> HIDE DEF s
  <1>5. /\ g \in Guards /\ g.holder = guard.holder /\ g.sponsors = guard.sponsors
        /\ g.live = [guard.live EXCEPT ![s] = FALSE]
        /\ g.unplaced = [guard.unplaced EXCEPT ![s] = FALSE]
    BY <1>2, <1>3 DEF Guards, Flags
  <1> HIDE DEF g
  <1>6. /\ guard' \in Guards /\ guard'.holder = guard.holder
        /\ guard'.sponsors = guard.sponsors
        /\ guard'.live = [guard.live EXCEPT ![s] = FALSE]
        /\ guard'.unplaced = [guard.unplaced EXCEPT ![s] = FALSE]
        /\ guard'.retained = Retained(guard'.sponsors, guard'.live)
        /\ Affordable(guard'.retained)
    BY <1>1, <1>5, AccountGuard
  <1>7. /\ ~guard'.live[s]
        /\ \A q \in Slots \ {s} : /\ guard'.live[q] = guard.live[q]
                                  /\ guard'.unplaced[q] = guard.unplaced[q]
    BY <1>2, <1>3, <1>6 DEF Guards, Flags
  <1>8. Guarding'
    BY <1>1, <1>3, <1>4, <1>6, <1>7, GuardKept
  <1> QED BY <1>8, OperationPolicy DEF GuardedDelete

(* A commit makes the guard's copy the ledger, with the World it describes. *)
LEMMA CommitGuarded ==
  ASSUME PolicyInv, GuardedCommit
  PROVE  PolicyInv'
  <1>1. TypeInv'
    BY TypeInvStep DEF PolicyInv, GuardedCommit, Next
  <1>2. /\ staging /\ ~staging' /\ staged.world_revision = world.world_revision
        /\ world'.slots = staged.slots
        /\ world'.world_revision = world.world_revision + 1
    BY DEF GuardedCommit, Commit, EndBatch, PolicyInv, Copied, TypeInv, TypeOK, Snapshots,
           NextRevision
  <1>3. /\ guard \in Guards /\ Describes(guard.sponsors, guard.live, staged)
        /\ guard.retained = Retained(guard.sponsors, guard.live) /\ Affordable(guard.retained)
        /\ Flat(staged) /\ Within(staged, guard.sponsors, guard.unplaced)
    BY <1>2 DEF PolicyInv, Guarding
  <1>4. /\ sponsors' = guard.sponsors /\ live' = guard.live /\ leases' = leases
        /\ usage' = [usage EXCEPT !.retained = guard.retained, !.world_revision = @ + 1]
        /\ \A s \in Slots : ~guard.unplaced[s]
    BY DEF GuardedCommit
  <1>5. /\ guard.sponsors \in Payers /\ guard.live \in Flags
        /\ guard.retained \in [Principals -> Int]
    BY <1>3 DEF Guards
  <1>6. /\ usage' \in Usages /\ usage'.retained = guard.retained
        /\ usage'.world_revision = usage.world_revision + 1
        /\ usage'.working = usage.working /\ usage'.requests = usage.requests
        /\ usage'.global_requests = usage.global_requests
    <2> DEFINE r == guard.retained
               w == usage.world_revision + 1
    <2>1. usage \in Usages
      BY DEF PolicyInv, PolicyTypes
    <2>2. r \in [Principals -> Int] /\ w \in Nat
      BY <1>5, <2>1 DEF Usages
    <2>3. usage' = [usage EXCEPT !.retained = r, !.world_revision = w]
      BY <1>4, <2>1 DEF Usages
    <2> HIDE DEF r, w
    <2>4. /\ usage' \in Usages /\ usage'.retained = r /\ usage'.world_revision = w
          /\ usage'.working = usage.working /\ usage'.requests = usage.requests
          /\ usage'.global_requests = usage.global_requests
      BY <2>1, <2>2, <2>3 DEF Usages
    <2> QED BY <2>4 DEF r, w
  <1>7. PolicyTypes'
    BY <1>4, <1>5, <1>6 DEF PolicyInv, PolicyTypes
  <1>8. BooksBalance'
    BY <1>4, <1>6 DEF PolicyInv, BooksBalance
  <1>9. Ledgers'
    <2>1. usage'.world_revision = world'.world_revision
      BY <1>2, <1>6 DEF PolicyInv, Ledgers
    <2>2. Describes(sponsors', live', world')
      BY <1>2, <1>3, <1>4 DEF Describes, Appended
    <2>3. usage'.retained = Retained(sponsors', live') /\ Affordable(usage'.retained)
      BY <1>3, <1>4, <1>6
    <2>4. Flat(world')
      BY <1>2, <1>3 DEF Flat, Appended
    <2>5. Within(world', sponsors', [s \in Slots |-> FALSE])
      BY <1>2, <1>3, <1>4 DEF Within
    <2> QED BY <2>1, <2>2, <2>3, <2>4, <2>5
             DEF Ledgers, Describes, Affordable, Flat, Within, Appended, Retained
  <1>10. Copied' /\ Guarding'
    BY <1>2 DEF Copied, Guarding
  <1> QED BY <1>1, <1>7, <1>8, <1>9, <1>10 DEF PolicyInv

(* What stays as it is when neither the World nor the ledger changes. *)
LEMMA LedgersKept ==
  ASSUME PolicyInv, UNCHANGED <<world, usage, sponsors, live>>
  PROVE  Ledgers'
  BY DEF PolicyInv, Ledgers, Describes, Affordable, Flat, Within, Retained, Appended

(* A rejected batch leaves the ledger with the World it described. *)
LEMMA RejectGuarded ==
  ASSUME PolicyInv, GuardedReject
  PROVE  PolicyInv'
  <1>1. TypeInv'
    BY TypeInvStep DEF PolicyInv, GuardedReject, Next
  <1>2. ~staging' /\ UNCHANGED <<world, leases, usage, sponsors, live>>
    BY DEF GuardedReject, Reject, EndBatch, ledger
  <1>3. Copied' /\ Guarding'
    BY <1>2 DEF Copied, Guarding
  <1>4. PolicyTypes' /\ BooksBalance'
    BY <1>2 DEF PolicyInv, PolicyTypes, BooksBalance
  <1> QED BY <1>1, <1>2, <1>3, <1>4, LedgersKept DEF PolicyInv

-----------------------------------------------------------------------------
(* The leases.                                                             *)

Held == {h \in Holders : leases[h] # NoLease}
Own(p) == {h \in Holders : leases[h].principal = p}

(* The sets of holders are finite, and a lease is held by its principal. *)
LEMMA HolderSets ==
  ASSUME PolicyTypes
  PROVE  /\ IsFiniteSet(Held) /\ Cardinality(Held) \in Nat
         /\ \A p : IsFiniteSet(Own(p)) /\ Cardinality(Own(p)) \in Nat
         /\ Held = {h \in Holders : leases[h].principal # None}
  <1>1. ASSUME NEW S \in SUBSET Holders PROVE IsFiniteSet(S) /\ Cardinality(S) \in Nat
    BY PolicyAssumption, FS_Subset, FS_CardinalityType
  <1>2. Held \in SUBSET Holders /\ \A p : Own(p) \in SUBSET Holders
    BY DEF Held, Own
  <1>3. ASSUME NEW h \in Holders PROVE leases[h] # NoLease <=> leases[h].principal # None
    BY DEF PolicyTypes, NoLease
  <1> QED BY <1>1, <1>2, <1>3 DEF Held

(* The books over those sets. *)
LEMMA Books ==
  BooksBalance <=>
    /\ usage.global_requests = Cardinality(Held) /\ usage.global_requests <= GlobalLimit
    /\ \A p \in Principals :
         /\ usage.requests[p] = Cardinality(Own(p)) /\ usage.requests[p] <= 1
         /\ Own(p) = {} => usage.working[p] = 0
         /\ \A h \in Own(p) : usage.working[p] = Charge(leases[h].bytes)
         /\ usage.working[p] <= WorkingLimit[p]
  BY DEF BooksBalance, Held, Own

(* A reservation is counted once. *)
LEMMA AdmitBooks ==
  ASSUME PolicyTypes, BooksBalance, NEW h \in Holders, NEW p \in Principals, NEW bytes \in Bodies,
         Admit(h, p, bytes)
  PROVE  PolicyTypes' /\ BooksBalance'
  <1> DEFINE lease == [principal |-> p, bytes |-> bytes, claimed |-> FALSE]
  <1>1. /\ leases[h] = NoLease /\ leases' = [leases EXCEPT ![h] = lease]
        /\ usage.requests[p] < 1 /\ usage.global_requests < GlobalLimit
        /\ Charge(bytes) <= WorkingLimit[p] - usage.working[p]
        /\ UNCHANGED <<sponsors, live>>
        /\ usage' = [usage EXCEPT !.working[p] = @ + Charge(bytes), !.requests[p] = @ + 1,
                                  !.global_requests = @ + 1]
    BY DEF Admit
  <1>2. Charge(bytes) \in Int /\ bytes \in Nat /\ p # None /\ GlobalLimit \in Int
    BY PolicyAssumption DEF Charge
  <1>3. /\ usage' \in Usages
        /\ usage'.working = [usage.working EXCEPT ![p] = @ + Charge(bytes)]
        /\ usage'.requests = [usage.requests EXCEPT ![p] = @ + 1]
        /\ usage'.global_requests = usage.global_requests + 1
    <2> DEFINE c == Charge(bytes)
               working == [usage.working EXCEPT ![p] = @ + c]
               requests == [usage.requests EXCEPT ![p] = @ + 1]
               all == usage.global_requests + 1
    <2>1. usage \in Usages
      BY DEF PolicyTypes
    <2>2. /\ usage.working \in [Principals -> Int] /\ usage.requests \in [Principals -> Int]
          /\ usage.global_requests \in Int /\ c \in Int
      BY <1>2, <2>1 DEF Usages
    <2>3. usage' = [usage EXCEPT !.working = working, !.requests = requests,
                                 !.global_requests = all]
      BY <1>1, <2>1 DEF Usages
    <2> HIDE DEF c
    <2>4. /\ working \in [Principals -> Int] /\ requests \in [Principals -> Int] /\ all \in Int
      BY <2>2
    <2> HIDE DEF working, requests, all
    <2>5. /\ usage' \in Usages /\ usage'.working = working /\ usage'.requests = requests
          /\ usage'.global_requests = all
      BY <2>1, <2>3, <2>4 DEF Usages
    <2> QED BY <2>5 DEF c, working, requests, all
  <1>4. leases' \in [Holders -> Leases]
    BY <1>1, <1>2 DEF PolicyTypes, Leases
  <1>5. \A g \in Holders : leases'[g].principal = None => leases'[g] = NoLease
    BY <1>1, <1>2 DEF PolicyTypes
  <1>6. PolicyTypes'
    BY <1>1, <1>3, <1>4, <1>5 DEF PolicyTypes, NoLease
  <1>7. \A g \in Holders : leases'[g] = IF g = h THEN lease ELSE leases[g]
    BY <1>1 DEF PolicyTypes
  <1>8. h \notin Held /\ Held' = Held \cup {h}
    BY <1>1, <1>2, <1>7 DEF Held, NoLease
  <1>9. Cardinality(Held') = Cardinality(Held) + 1
    BY <1>8, HolderSets, FS_AddElement
  <1>10. Own(p) = {}
    <2>1. Cardinality(Own(p)) = 0
      BY <1>1, Books, HolderSets
    <2> QED BY <2>1, HolderSets, FS_EmptySet
  <1>11. Own(p)' = {h}
    BY <1>7, <1>10 DEF Own
  <1>12. \A q \in Principals \ {p} : Own(q)' = Own(q)
    <2>1. ASSUME NEW q \in Principals \ {p} PROVE lease.principal # q /\ leases[h].principal # q
      BY <1>1, PolicyAssumption DEF NoLease
    <2> QED BY <1>7, <2>1 DEF Own
  <1>13. Cardinality({h}) = 1
    BY FS_Singleton
  <1>14. usage.working[p] = 0 /\ usage.requests[p] = 0
    BY <1>10, Books, FS_EmptySet
  <1>15. usage'.global_requests = Cardinality(Held') /\ usage'.global_requests <= GlobalLimit
    BY <1>1, <1>2, <1>3, <1>9, Books, HolderSets
  <1>16. ASSUME NEW q \in Principals
         PROVE  /\ usage'.requests[q] = Cardinality(Own(q)') /\ usage'.requests[q] <= 1
                /\ Own(q)' = {} => usage'.working[q] = 0
                /\ \A g \in Own(q)' : usage'.working[q] = Charge(leases'[g].bytes)
                /\ usage'.working[q] <= WorkingLimit[q]
    <2>1. CASE q = p
      <3>1. usage'.working[p] = Charge(bytes) /\ usage'.requests[p] = 1
        BY <1>2, <1>3, <1>14 DEF PolicyTypes, Usages
      <3>2. leases'[h].bytes = bytes
        BY <1>7
      <3>3. Charge(bytes) <= WorkingLimit[p]
        BY <1>1, <1>2, <1>14, PolicyAssumption
      <3> QED BY <1>11, <1>13, <2>1, <3>1, <3>2, <3>3
    <2>2. CASE q # p
      <3>1. usage'.working[q] = usage.working[q] /\ usage'.requests[q] = usage.requests[q]
        BY <1>3, <2>2 DEF PolicyTypes, Usages
      <3>2. \A g \in Own(q) : leases'[g] = leases[g]
        BY <1>1, <1>7, PolicyAssumption DEF Own, NoLease
      <3> QED BY <1>12, <2>2, <3>1, <3>2, Books
    <2> QED BY <2>1, <2>2
  <1>17. BooksBalance'
    BY <1>15, <1>16 DEF BooksBalance, Held, Own
  <1> QED BY <1>6, <1>17

(* A lease that ends gives back what it reserved. *)
LEMMA RefundBooks ==
  ASSUME PolicyTypes, BooksBalance, NEW h \in Holders, Refund(h)
  PROVE  PolicyTypes' /\ BooksBalance'
  <1>0. leases[h] # NoLease /\ leases[h] \in Leases /\ leases[h].principal # None
    BY DEF Refund, PolicyTypes
  <1> PICK p \in Principals : p = leases[h].principal
    BY <1>0 DEF Leases
  <1> DEFINE c == Charge(leases[h].bytes)
             working == [usage.working EXCEPT ![p] = @ - c]
             requests == [usage.requests EXCEPT ![p] = @ - 1]
             all == usage.global_requests - 1
  <1>1. /\ leases[h] # NoLease /\ leases' = [leases EXCEPT ![h] = NoLease]
        /\ UNCHANGED <<sponsors, live>>
        /\ usage' = [usage EXCEPT !.working[p] = @ - c, !.requests[p] = @ - 1,
                                  !.global_requests = @ - 1]
    BY DEF Refund
  <1>2. c \in Int
    BY <1>0, PolicyAssumption DEF Leases, Charge
  <1>3. /\ usage \in Usages
        /\ usage.working \in [Principals -> Int] /\ usage.requests \in [Principals -> Int]
        /\ usage.global_requests \in Int
    BY DEF PolicyTypes, Usages
  <1>4. usage' = [usage EXCEPT !.working = working, !.requests = requests,
                               !.global_requests = all]
    BY <1>1, <1>3 DEF Usages
  <1> HIDE DEF c
  <1>5. /\ working \in [Principals -> Int] /\ requests \in [Principals -> Int] /\ all \in Int
    BY <1>2, <1>3
  <1> HIDE DEF working, requests, all
  <1>6. /\ usage' \in Usages /\ usage'.working = working /\ usage'.requests = requests
        /\ usage'.global_requests = all
    BY <1>3, <1>4, <1>5 DEF Usages
  <1>7. NoLease \in Leases /\ NoLease.principal = None
    BY DEF NoLease, Leases
  <1>8. leases' \in [Holders -> Leases]
    BY <1>1, <1>7 DEF PolicyTypes
  <1>9. \A g \in Holders : leases'[g] = IF g = h THEN NoLease ELSE leases[g]
    BY <1>1 DEF PolicyTypes
  <1>10. PolicyTypes'
    <2>1. \A g \in Holders : leases'[g].principal = None => leases'[g] = NoLease
      BY <1>9 DEF PolicyTypes
    <2> QED BY <1>1, <1>6, <1>8, <2>1 DEF PolicyTypes, NoLease
  <1>11. h \in Held /\ Held' = Held \ {h}
    BY <1>1, <1>9 DEF Held, NoLease
  <1>12. Cardinality(Held') = Cardinality(Held) - 1
    BY <1>11, HolderSets, FS_RemoveElement
  <1>13. h \in Own(p) /\ Own(p)' = Own(p) \ {h}
    <2>1. NoLease.principal # p
      BY <1>2, <1>7, PolicyAssumption
    <2> QED BY <1>9, <2>1 DEF Own
  <1>14. Cardinality(Own(p)') = Cardinality(Own(p)) - 1 /\ IsFiniteSet(Own(p)')
    BY <1>13, HolderSets, FS_RemoveElement
  <1>15. Cardinality(Own(p)) = usage.requests[p] /\ usage.requests[p] <= 1
    BY <1>2, Books
  <1>16. Cardinality(Own(p)') = 0
    BY <1>14, <1>15, HolderSets, FS_CardinalityType
  <1>17. Own(p)' = {}
    BY <1>14, <1>16, FS_EmptySet
  <1>18. requests[p] = 0 /\ working[p] = 0
    <2>1. requests[p] = usage.requests[p] - 1 /\ working[p] = usage.working[p] - c
      BY <1>2, <1>3 DEF requests, working
    <2>2. usage.working[p] = c
      BY <1>2, <1>13, Books DEF c
    <2> QED BY <1>2, <1>14, <1>15, <1>16, <2>1, <2>2, HolderSets
  <1>19. usage'.global_requests = Cardinality(Held') /\ usage'.global_requests <= GlobalLimit
    <2>1. GlobalLimit \in Int
      BY PolicyAssumption
    <2> QED BY <1>3, <1>6, <1>12, <2>1, Books DEF all
  <1>20. ASSUME NEW q \in Principals
         PROVE  /\ usage'.requests[q] = Cardinality(Own(q)') /\ usage'.requests[q] <= 1
                /\ Own(q)' = {} => usage'.working[q] = 0
                /\ \A g \in Own(q)' : usage'.working[q] = Charge(leases'[g].bytes)
                /\ usage'.working[q] <= WorkingLimit[q]
    <2>1. CASE q = p
      <3>1. usage'.requests[q] = 0 /\ usage'.working[q] = 0 /\ 0 <= WorkingLimit[q]
        BY <1>6, <1>18, <2>1, PolicyAssumption
      <3>2. Cardinality(Own(q)') = 0 /\ Own(q)' = {}
        BY <1>16, <1>17, <2>1 DEF Own
      <3> QED BY <3>1, <3>2
    <2>2. CASE q # p
      <3>1. usage'.working[q] = usage.working[q] /\ usage'.requests[q] = usage.requests[q]
        BY <1>3, <1>6, <2>2 DEF working, requests
      <3>2. /\ NoLease.principal # q /\ leases[h].principal # q
        BY <1>7, <2>2, PolicyAssumption
      <3>3. Own(q)' = Own(q) /\ \A g \in Own(q) : leases'[g] = leases[g]
        BY <1>9, <3>2 DEF Own
      <3> QED BY <3>1, <3>3, Books
    <2> QED BY <2>1, <2>2
  <1>21. BooksBalance'
    BY <1>19, <1>20 DEF BooksBalance, Held, Own
  <1> QED BY <1>10, <1>21

(* Claiming a lease for a batch changes no book. *)
LEMMA ClaimBooks ==
  ASSUME PolicyTypes, BooksBalance, NEW h \in Holders, leases[h] # NoLease,
         leases' = [leases EXCEPT ![h].claimed = TRUE], UNCHANGED <<usage, sponsors, live>>
  PROVE  /\ PolicyTypes' /\ BooksBalance'
         /\ leases'[h].principal \in Principals
  <1> DEFINE lease == [leases[h] EXCEPT !.claimed = TRUE]
  <1>1. leases[h] \in Leases /\ leases[h].principal \in Principals
    BY DEF PolicyTypes, Leases
  <1>2. /\ lease \in Leases /\ lease.principal = leases[h].principal
        /\ lease.bytes = leases[h].bytes
    BY <1>1 DEF Leases
  <1>3. leases' = [leases EXCEPT ![h] = lease]
    BY DEF PolicyTypes
  <1> HIDE DEF lease
  <1>4. /\ leases' \in [Holders -> Leases]
        /\ \A g \in Holders : leases'[g] = IF g = h THEN lease ELSE leases[g]
    BY <1>2, <1>3 DEF PolicyTypes
  <1>5. leases[h].principal # None /\ NoLease.principal = None
    BY <1>1, PolicyAssumption DEF NoLease
  <1>6. PolicyTypes'
    <2>1. \A g \in Holders : leases'[g].principal = None => leases'[g] = NoLease
      BY <1>2, <1>4, <1>5 DEF PolicyTypes
    <2> QED BY <1>4, <2>1 DEF PolicyTypes, NoLease
  <1>7. /\ \A g \in Holders : /\ leases'[g].principal = leases[g].principal
                              /\ leases'[g].bytes = leases[g].bytes
                              /\ leases'[g] # NoLease <=> leases[g] # NoLease
    BY <1>2, <1>4, <1>5
  <1>8. Held' = Held /\ \A q \in Principals : Own(q)' = Own(q)
    BY <1>7 DEF Held, Own, NoLease
  <1>9. ASSUME NEW q \in Principals
        PROVE  /\ usage'.requests[q] = Cardinality(Own(q)') /\ usage'.requests[q] <= 1
               /\ Own(q)' = {} => usage'.working[q] = 0
               /\ \A g \in Own(q)' : usage'.working[q] = Charge(leases'[g].bytes)
               /\ usage'.working[q] <= WorkingLimit[q]
    BY <1>7, <1>8, Books DEF Own
  <1>10. BooksBalance'
    BY <1>8, <1>9, Books DEF BooksBalance, Held, Own
  <1> QED BY <1>1, <1>2, <1>4, <1>6, <1>10

-----------------------------------------------------------------------------
(* The policy keeps its invariant.                                         *)

(* A guard begins as a copy of the ledger, which describes the World. *)
LEMMA BeginGuarded ==
  ASSUME PolicyInv, NEW h \in Holders, BeginBatch(h)
  PROVE  PolicyInv'
  <1>1. /\ leases[h] # NoLease /\ leases' = [leases EXCEPT ![h].claimed = TRUE]
        /\ UNCHANGED <<usage, sponsors, live, world, staged>>
        /\ Begin(world.world_revision) /\ ~staging
        /\ guard' = [holder |-> h, sponsors |-> sponsors, live |-> live,
                     unplaced |-> [s \in Slots |-> FALSE], retained |-> usage.retained]
    BY DEF BeginBatch, Begin, ledger
  <1>2. TypeInv'
    BY <1>1, TypeInvStep DEF PolicyInv, TypeInv, TypeOK, Snapshots, Next
  <1>3. PolicyTypes' /\ BooksBalance' /\ leases'[h].principal \in Principals
    BY <1>1, ClaimBooks DEF PolicyInv
  <1>4. Ledgers'
    BY <1>1, LedgersKept
  <1>5. staged = world
    BY <1>1 DEF PolicyInv, TypeInv, Settled
  <1>6. Copied'
    BY <1>1, <1>5 DEF Copied
  <1>7. /\ usage.retained \in [Principals -> Int] /\ sponsors \in Payers /\ live \in Flags
    BY DEF PolicyInv, PolicyTypes, Usages
  <1>8. /\ guard' \in Guards /\ guard'.holder = h /\ guard'.sponsors = sponsors
        /\ guard'.live = live /\ guard'.retained = usage.retained
        /\ guard'.unplaced = [s \in Slots |-> FALSE]
    BY <1>1, <1>7 DEF Guards, Flags
  <1>9. Writer' \in Principals
    BY <1>3, <1>8 DEF Writer
  <1>10. /\ Describes(sponsors, live, world) /\ Flat(world) /\ Affordable(usage.retained)
         /\ usage.retained = Retained(sponsors, live)
         /\ Within(world, sponsors, [s \in Slots |-> FALSE])
    BY DEF PolicyInv, Ledgers
  <1>11. Guarding'
    BY <1>1, <1>5, <1>8, <1>9, <1>10
    DEF Guarding, Describes, Flat, Affordable, Retained, Within, Appended
  <1> QED BY <1>2, <1>3, <1>4, <1>6, <1>11 DEF PolicyInv

(* The leases move between batches only. *)
LEMMA LeaseStep ==
  ASSUME PolicyInv, ~staging, UNCHANGED <<vars, sponsors, live, guard>>,
         PolicyTypes', BooksBalance',
         usage'.retained = usage.retained, usage'.world_revision = usage.world_revision
  PROVE  PolicyInv'
  <1>1. TypeInv'
    BY TypeInvStep DEF PolicyInv
  <1>2. UNCHANGED <<world, staging>>
    BY DEF vars
  <1>3. Copied' /\ Guarding'
    BY <1>2 DEF Copied, Guarding
  <1>4. Ledgers'
    BY <1>2 DEF PolicyInv, Ledgers, Describes, Affordable, Flat, Within, Retained, Appended
  <1> QED BY <1>1, <1>3, <1>4 DEF PolicyInv

LEMMA PolicyStep == PolicyInv /\ [PolicyNext]_policyVars => PolicyInv'
  <1> SUFFICES ASSUME PolicyInv, [PolicyNext]_policyVars PROVE PolicyInv'
    OBVIOUS
  <1>1. PolicyTypes /\ BooksBalance /\ usage \in Usages
    BY DEF PolicyInv, PolicyTypes
  <1>2. ASSUME NEW h \in Holders, NEW p \in Principals, NEW bytes \in Bodies, Admit(h, p, bytes)
        PROVE  PolicyInv'
    <2>1. /\ ~staging /\ UNCHANGED <<vars, sponsors, live, guard>>
          /\ usage'.retained = usage.retained /\ usage'.world_revision = usage.world_revision
      BY <1>1, <1>2 DEF Admit, Usages
    <2> QED BY <1>1, <1>2, <2>1, AdmitBooks, LeaseStep
  <1>3. ASSUME NEW h \in Holders, Refund(h) PROVE PolicyInv'
    <2>1. /\ ~staging /\ UNCHANGED <<vars, sponsors, live, guard>>
          /\ usage'.retained = usage.retained /\ usage'.world_revision = usage.world_revision
      BY <1>1, <1>3 DEF Refund, Usages
    <2> QED BY <1>1, <1>3, <2>1, RefundBooks, LeaseStep
  <1>4. ASSUME NEW h \in Holders, RefuseBatch(h) PROVE PolicyInv'
    <2>1. /\ ~staging /\ leases[h] # NoLease /\ leases' = [leases EXCEPT ![h].claimed = TRUE]
          /\ UNCHANGED <<vars, usage, sponsors, live, guard>>
      BY <1>4 DEF RefuseBatch, ledger
    <2> QED BY <1>1, <2>1, ClaimBooks, LeaseStep
  <1>5. CASE UNCHANGED policyVars
    <2>1. UNCHANGED <<vars, leases, usage, sponsors, live, guard>>
      BY <1>5 DEF policyVars, ledger
    <2>2. TypeInv'
      BY <2>1, TypeInvStep DEF PolicyInv
    <2>3. UNCHANGED <<world, staging, staged>>
      BY <2>1 DEF vars
    <2>4. PolicyTypes' /\ BooksBalance'
      BY <1>1, <2>1 DEF PolicyTypes, BooksBalance
    <2>5. Ledgers'
      BY <2>1, <2>3, LedgersKept
    <2>6. Copied'
      BY <2>3 DEF PolicyInv, Copied
    <2>7. Guarding'
      BY <2>1, <2>3 DEF PolicyInv, Guarding, Writer, Describes, Affordable, Flat, Within,
                        Retained, Appended
    <2> QED BY <2>2, <2>4, <2>5, <2>6, <2>7 DEF PolicyInv
  <1> QED BY <1>2, <1>3, <1>4, <1>5, BeginGuarded, CreateGuarded, TransformGuarded,
             DeleteGuarded, CommitGuarded, RejectGuarded DEF PolicyNext

(* A new World with an empty ledger. *)
LEMMA PolicyStart == PolicyInit => PolicyInv
  <1> SUFFICES ASSUME PolicyInit PROVE PolicyInv
    OBVIOUS
  <1>1. TypeInv
    BY TypeInvInit DEF PolicyInit
  <1>2. /\ ~staging /\ world.world_revision = 0
        /\ world.slots = [s \in Slots |-> Vacant(0, FALSE)]
    BY DEF PolicyInit, Init
  <1>3. Copied /\ Guarding
    BY <1>2 DEF Copied, Guarding
  <1>4. /\ leases = [h \in Holders |-> NoLease] /\ sponsors = [s \in Slots |-> None]
        /\ live = [s \in Slots |-> FALSE]
        /\ usage = [working |-> NoUse, requests |-> NoUse, retained |-> NoUse,
                    global_requests |-> 0, world_revision |-> 0]
    BY DEF PolicyInit
  <1>5. NoUse \in [Principals -> Int]
    BY DEF NoUse
  <1>6. NoLease \in Leases
    BY DEF NoLease, Leases
  <1>7. PolicyTypes
    BY <1>4, <1>5, <1>6 DEF PolicyTypes, Usages, Payers, Flags
  <1>8. Held = {} /\ \A p \in Principals : Own(p) = {}
    BY <1>4, PolicyAssumption DEF Held, Own, NoLease
  <1>9. BooksBalance
    <2>1. Cardinality({}) = 0
      BY FS_EmptySet
    <2>2. 0 <= GlobalLimit
      BY PolicyAssumption
    <2>3. /\ usage.global_requests = 0
          /\ \A p \in Principals : usage.requests[p] = 0 /\ usage.working[p] = 0
      BY <1>4 DEF NoUse
    <2>4. usage.global_requests = Cardinality(Held) /\ usage.global_requests <= GlobalLimit
      BY <1>8, <2>1, <2>2, <2>3
    <2>5. ASSUME NEW p \in Principals
          PROVE  /\ usage.requests[p] = Cardinality(Own(p)) /\ usage.requests[p] <= 1
                 /\ Own(p) = {} => usage.working[p] = 0
                 /\ \A h \in Own(p) : usage.working[p] = Charge(leases[h].bytes)
                 /\ usage.working[p] <= WorkingLimit[p]
      <3>1. 0 <= WorkingLimit[p]
        BY PolicyAssumption
      <3> QED BY <1>8, <2>1, <2>3, <2>5, <3>1
    <2> QED BY <2>4, <2>5, Books
  <1>10. Retained(sponsors, live) = NoUse
    <2>1. ASSUME NEW p \in Principals
          PROVE  /\ {s \in Slots : sponsors[s] = p} = {}
                 /\ {s \in Slots : sponsors[s] = p /\ live[s]} = {}
      BY <1>4, PolicyAssumption
    <2>2. ASSUME NEW p \in Principals
          PROVE  Skeleton * Cardinality({s \in Slots : sponsors[s] = p})
                   + Cube * Cardinality({s \in Slots : sponsors[s] = p /\ live[s]}) = 0
      <3>1. /\ Cardinality({s \in Slots : sponsors[s] = p}) = 0
            /\ Cardinality({s \in Slots : sponsors[s] = p /\ live[s]}) = 0
        BY <2>1, FS_EmptySet
      <3>2. Skeleton * 0 + Cube * 0 = 0
        BY PolicyAssumption
      <3> QED BY <3>1, <3>2
    <2> QED BY <2>2 DEF Retained, NoUse
  <1>11. Affordable(NoUse)
    BY PolicyAssumption DEF Affordable, NoUse
  <1>12. \A s \in Slots : /\ world.slots[s].generation = 0 /\ ~world.slots[s].live
                          /\ world.slots[s].parent = NoHandle
    BY <1>2 DEF Vacant
  <1>13. Ledgers
    <2>1. Describes(sponsors, live, world)
      BY <1>4, <1>12 DEF Describes, Appended
    <2>2. usage.retained = NoUse /\ usage.world_revision = 0
      BY <1>4
    <2>3. Flat(world) /\ Within(world, sponsors, [s \in Slots |-> FALSE])
      BY <1>12 DEF Flat, Within
    <2> QED BY <1>2, <1>10, <1>11, <2>1, <2>2, <2>3 DEF Ledgers
  <1> QED BY <1>1, <1>3, <1>7, <1>9, <1>13 DEF PolicyInv

LEMMA PolicyInvariance == PolicySpec => []PolicyInv
  BY PolicyStart, PolicyStep, PTL DEF PolicySpec

(* Whatever leases are taken, refunded and claimed, and however their       *)
(* connections end: every reservation is counted once and given back once,  *)
(* and no limit is passed.                                                  *)
THEOREM ReservationsBalance == PolicySpec => []BooksBalance
  <1>1. PolicyInv => BooksBalance
    BY DEF PolicyInv
  <1> QED BY <1>1, PolicyInvariance, PTL

(* The ledger never falls out of step with the World: every commit moves    *)
(* both, every other end of a batch neither.                                *)
THEOREM LedgerInStep == PolicySpec => []LedgerDescribesWorld
  <1>1. PolicyInv => LedgerDescribesWorld
    BY DEF PolicyInv, Ledgers, LedgerDescribesWorld, Agreement, Describes, Affordable
  <1> QED BY <1>1, PolicyInvariance, PTL

(* No sequence of batches of any principals leaves a cube outside the       *)
(* region of the one that pays for it.                                      *)
THEOREM CubesStayInRegion == PolicySpec => []CubesInRegion
  <1>1. PolicyInv => CubesInRegion
    BY DEF PolicyInv, Ledgers, Within, CubesInRegion
  <1> QED BY <1>1, PolicyInvariance, PTL

(* A principal's commit leaves the cubes of every other as they were. *)
THEOREM OnlyOwnCubesChange == PolicySpec => ForeignCubesUntouched
  <1> DEFINE Touched == \A s \in Slots :
                world.slots[s].live /\ world'.slots[s] # world.slots[s] => sponsors[s] = Writer
  <1>1. PolicyInv /\ [PolicyNext]_policyVars => [Touched]_policyVars
    <2> SUFFICES ASSUME PolicyInv, PolicyNext PROVE Touched
      OBVIOUS
    <2>1. CASE GuardedCommit
      <3>1. staging /\ world'.slots = staged.slots
        BY <2>1 DEF GuardedCommit, Commit, PolicyInv, TypeInv, TypeOK, Snapshots
      <3> QED BY <3>1 DEF PolicyInv, Guarding
    <2>2. CASE ~GuardedCommit
      <3>1. UNCHANGED world
        BY <2>2 DEF PolicyNext, Admit, Refund, RefuseBatch, BeginBatch, GuardedCreate,
                    GuardedTransform, GuardedDelete, GuardedReject, Begin, Create, SetTransform,
                    Delete, Stage, Reject, vars
      <3> QED BY <3>1
    <2> QED BY <2>1, <2>2
  <1> QED BY <1>1, PolicyInvariance, PTL DEF PolicySpec, ForeignCubesUntouched

(* The guard drives the coordinator by the coordinator's own steps, so that *)
(* what holds of every World it writes holds under the guard.               *)
THEOREM GuardImplementsCoordinator == PolicySpec => Spec
  <1>1. PolicyInit => Init
    BY DEF PolicyInit
  <1>2. PolicyInv /\ [PolicyNext]_policyVars => [Next]_vars
    <2> SUFFICES ASSUME PolicyInv, [PolicyNext]_policyVars PROVE [Next]_vars
      OBVIOUS
    <2>1. ASSUME NEW h \in Holders, BeginBatch(h) PROVE Next
      BY <2>1 DEF BeginBatch, PolicyInv, TypeInv, TypeOK, Snapshots, Next
    <2>2. CASE UNCHANGED policyVars
      BY <2>2 DEF policyVars
    <2>3. CASE \/ \E name \in TempNames : GuardedCreate(name)
               \/ \E t \in Targets, v \in Transforms : v.uniform /\ GuardedTransform(t, v)
               \/ \E t \in Targets : GuardedDelete(t)
               \/ GuardedCommit \/ GuardedReject
      BY <2>3 DEF GuardedCreate, GuardedTransform, GuardedDelete, GuardedCommit, GuardedReject, Next
    <2>4. CASE \E h \in Holders : \/ \E p \in Principals, bytes \in Bodies : Admit(h, p, bytes)
                                  \/ Refund(h) \/ RefuseBatch(h)
      BY <2>4 DEF Admit, Refund, RefuseBatch
    <2> QED BY <2>1, <2>2, <2>3, <2>4 DEF PolicyNext
  <1> QED BY <1>1, <1>2, PolicyInvariance, PTL DEF PolicySpec, Spec
=============================================================================
