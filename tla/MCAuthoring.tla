---------------------------- MODULE MCAuthoring ----------------------------
(***************************************************************************)
(* Two tools beside other writers of one small world: a history, or a      *)
(* query session.  A session never writes, so the two are explored side by *)
(* side rather than together, the session over fewer commits.              *)
(***************************************************************************)
EXTENDS History, ObserveSession

CONSTANT SessionRevisions  \* bound on the commits around a query session

VARIABLE tool

mcVars == <<allVars, session, tool>>

First == [slot |-> 1, generation |-> 1]

\* All of the world, or one entity of one generation and one slot's successor.
MCGrants ==
  {[whole_world |-> TRUE, entities |-> {}, region |-> Transforms, response_bytes |-> 4],
   [whole_world |-> FALSE, entities |-> {First, [slot |-> 2, generation |-> 2]},
    region |-> {v \in Transforms : v.uniform}, response_bytes |-> 3]}

Asks(tags, transforms, rows, bytes) ==
  [all_tags |-> tags, intersects |-> transforms, page_size |-> rows, response_bytes |-> bytes]

\* Row by row, everything at once, by tag and by place, and too few bytes for two.
MCQueries ==
  {Asks({}, Transforms, 1, 4), Asks({}, Transforms, 2, 2)}
    \cup {Asks(tags, {v \in Transforms : v.uniform}, 2, 4) : tags \in TagSets}

MCInit ==
  /\ HistoryInit /\ SessionInit
  /\ tool \in {"history", "session"}
  /\ tool = "history" => grant = CHOOSE g \in Grants : TRUE

\* What the other writers do before a session has seen enough.
Written ==
  \/ OtherBegin /\ world.world_revision < SessionRevisions
  \/ OtherStage \/ OtherEnd

MCNext ==
  \/ tool = "history" /\ HistoryNext /\ UNCHANGED <<session, tool>>
  \/ tool = "session" /\ Written /\ UNCHANGED <<session, tool>>
  \/ tool = "session" /\ SessionNext /\ UNCHANGED <<allVars, tool>>

MCSpec == MCInit /\ [][MCNext]_mcVars
=============================================================================
