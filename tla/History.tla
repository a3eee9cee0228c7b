------------------------------- MODULE History -------------------------------
(***************************************************************************)
(* The authoring history: up to Capacity batches with their inverses and a *)
(* cursor, over a world that others also write.  A batch of the history is *)
(* applied by the coordinator: its operations wait in script and are       *)
(* staged one by one.  Source: src/src/history.cpp.                        *)
(*                                                                         *)
(* An operation of the history names a handle and has the transform or the *)
(* tags it sets; all other kinds are refused.  The byte budgets are        *)
(* refusals that change nothing.                                           *)
(***************************************************************************)
EXTENDS Coordinator, Sequences

CONSTANT Capacity  \* history::capacity

ASSUME HistoryAssumption == Capacity \in Nat \ {0}

Operations ==
  [kind : {"transform"}, handle : Handles, value : Transforms]
    \cup [kind : {"tags"}, handle : Handles, value : TagSets]

VARIABLES
  entries,   \* entries_[0 .. entries - 1], each with forward and inverse
  cursor, expected_revision,  \* of State
  action,    \* whose batch the coordinator is staging
  script,    \* the operations of that batch still to be staged
  prepared_entry,  \* the entry the batch becomes once it is committed
  past       \* history: past[i] is the content before entries[i]

history == <<entries, cursor, expected_revision, past>>
call == <<action, script, prepared_entry>>
allVars == <<vars, history, call>>

NoEntry == [forward |-> <<>>, inverse |-> <<>>]

(* What an undo is to bring back: all that is authored, without revisions. *)
Content(st) == [s \in Slots |-> Authored(st.slots[s])]

-----------------------------------------------------------------------------
(* Building an entry.                                                      *)

Isolated(st, s) == ~HasParent(st, s) /\ ~HasChildren(st, s)

Invertible(st, op) ==
  /\ Resolves(st, op.handle)
  /\ op.kind = "transform" => Isolated(st, op.handle.slot)

(* The operation that sets back what the snapshot before the batch has. *)
Inverted(st, op) ==
  [op EXCEPT !.value = IF op.kind = "transform" THEN st.slots[op.handle.slot].transform
                                                ELSE st.slots[op.handle.slot].tags]

Prepared(st, forward) ==
  LET n == Len(forward)
  IN [forward |-> forward, inverse |-> [i \in 1 .. n |-> Inverted(st, forward[n + 1 - i])]]

(* What the coordinator makes of one operation of a script. *)
Outcomes(st, op) ==
  IF op.kind = "transform" THEN Transformed(st, op.handle, op.value)
                           ELSE Tagged(st, op.handle, op.value)

-----------------------------------------------------------------------------

HistoryInit ==
  /\ Init
  /\ entries = <<>> /\ cursor = 0
  /\ expected_revision = world.world_revision
  /\ action = "none" /\ script = <<>> /\ prepared_entry = NoEntry
  /\ past = <<Content(world)>>

Current == expected_revision = world.world_revision

Call(kind, operations, entry) ==
  /\ Begin(world.world_revision)
  /\ action' = kind /\ script' = operations /\ prepared_entry' = entry
  /\ UNCHANGED history

(* apply_at_boundary up to the coordinator's call. *)
Apply(forward) ==
  /\ Current
  /\ cursor # Capacity
  /\ forward # <<>>
  /\ \A i \in DOMAIN forward : Invertible(world, forward[i])
  /\ Call("apply", forward, Prepared(world, forward))

(* navigate_at_boundary up to the coordinator's call. *)
Navigate(kind) ==
  /\ Current
  /\ \/ kind = "undo" /\ cursor # 0 /\ Call("undo", entries[cursor].inverse, NoEntry)
     \/ /\ kind = "redo" /\ cursor # Len(entries)
        /\ Call("redo", entries[cursor + 1].forward, NoEntry)

StageNext ==
  /\ script # <<>>
  /\ Stage(Outcomes(staged, Head(script)))
  /\ script' = Tail(script)
  /\ UNCHANGED <<names, history, action, prepared_entry>>

EndCall == action' = "none" /\ script' = <<>> /\ prepared_entry' = NoEntry

(* Seeded fault: the entries that could be redone stay behind the new one. *)
RememberedBesideRedo ==
  entries' = [i \in 1 .. (IF cursor = Len(entries) THEN cursor + 1 ELSE Len(entries)) |->
                IF i = cursor + 1 THEN prepared_entry ELSE entries[i]]

(* The new entry stands at the cursor and nothing can be redone any more. *)
Remembered == entries' = Append(SubSeq(entries, 1, cursor), prepared_entry)

(* The coordinator returned a committed receipt. *)
Committed ==
  /\ script = <<>>
  /\ Commit
  /\ expected_revision' = world'.world_revision
  /\ \/ /\ action = "apply"
        /\ Remembered
        /\ cursor' = cursor + 1
        /\ past' = Append(SubSeq(past, 1, cursor + 1), Content(world'))
     \/ action = "undo" /\ cursor' = cursor - 1 /\ UNCHANGED <<entries, past>>
     \/ action = "redo" /\ cursor' = cursor + 1 /\ UNCHANGED <<entries, past>>
  /\ EndCall

(* An operation failed or the guard refused: nothing of the history moves. *)
Rejected == action # "other" /\ Reject /\ EndCall /\ UNCHANGED history

Clear ==
  /\ ~staging
  /\ entries' = <<>> /\ cursor' = 0
  /\ expected_revision' = world.world_revision
  /\ past' = <<Content(world)>>
  /\ UNCHANGED <<vars, call>>

-----------------------------------------------------------------------------
(* The other writers of the world, who use the coordinator directly.       *)

OtherBegin == Call("other", <<>>, NoEntry)

OtherStage ==
  /\ action = "other"
  /\ \/ \E n \in TempNames : Create(n)
     \/ \E t \in Targets, v \in Transforms : SetTransform(t, v)
     \/ \E t \in Targets, tags \in TagSets : SetTags(t, tags)
     \/ \E t, p \in Targets, mode \in Modes : Reparent(t, p, mode)
     \/ \E t \in Targets, mode \in Modes : Unparent(t, mode)
     \/ \E t \in Targets : Delete(t)
  /\ UNCHANGED <<history, call>>

OtherEnd == action = "other" /\ (Commit \/ Reject) /\ EndCall /\ UNCHANGED history

HistoryNext ==
  \/ \E n \in 1 .. MaxOperations : \E forward \in [1 .. n -> Operations] : Apply(forward)
  \/ \E kind \in {"undo", "redo"} : Navigate(kind)
  \/ StageNext \/ Committed \/ Rejected \/ Clear
  \/ OtherBegin \/ OtherStage \/ OtherEnd

HistorySpec == HistoryInit /\ [][HistoryNext]_allVars

-----------------------------------------------------------------------------

(***************************************************************************)
(* Whatever was applied, undone, redone, forgotten and written by others,  *)
(* as long as the history considers itself current the world holds what it *)
(* held when the cursor last stood where it stands now: undo and redo      *)
(* restore, also in a batch that edits an entity several times, and never  *)
(* on top of somebody else's edit.                                         *)
(***************************************************************************)
UndoRestores ==
  ~staging /\ Current => cursor < Len(past) /\ Content(world) = past[cursor + 1]

=============================================================================
