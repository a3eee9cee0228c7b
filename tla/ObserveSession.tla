--------------------------- MODULE ObserveSession ---------------------------
(***************************************************************************)
(* A query session over the authoring world: start captures the rows one   *)
(* query may see and answers the first page; next answers the page a       *)
(* cursor stands at, as long as the capture is the newest and in time.     *)
(* Source: src/src/observe.cpp.                                            *)
(*                                                                         *)
(* Data abstractions.  A region is the set of transforms whose bounds it   *)
(* contains or meets.  A row takes a byte, and one more for its tags; the  *)
(* prefix takes none, and has_more takes one more when it is false.  A     *)
(* query out of schema, the retained budget, the last serial and bounds    *)
(* that are not finite are refusals that may happen.  Time passes while a  *)
(* call runs or between two calls.                                         *)
(***************************************************************************)
EXTENDS Coordinator, FiniteSets, Sequences

CONSTANTS
  Grants,      \* the grants a Session may be made for
  Queries,     \* the queries a caller makes
  MaxSerial    \* bound on the queries answered

ASSUME ObserveAssumption ==
  /\ \A g \in Grants : /\ g.whole_world => g.entities = {}
                       /\ g.entities \subseteq Handles /\ g.response_bytes \in Nat \ {0}
  /\ \A q \in Queries : q.page_size \in Nat \ {0} /\ q.response_bytes \in Nat \ {0}
  /\ MaxSerial \in Nat

VARIABLES
  grant,            \* grant_
  closed, serial,   \* closed_; serial_
  snapshot,         \* snapshot_
  lapsed, expired,  \* the deadline of snapshot_, and expires_, have passed
  held,             \* the cursors that pages have handed out
  answer,           \* the last page answered
  captured          \* history: the rows of every query answered

session == <<grant, closed, serial, snapshot, lapsed, expired, held, answer, captured>>

NoSnapshot == [rows |-> <<>>, page_size |-> 0, response_bytes |-> 0]
Cursor(owner, of, offset) == [owner |-> owner, snapshot |-> of, offset |-> offset]
NoAnswer == [cursor |-> Cursor("nobody", 0, 0), rows |-> <<>>, more |-> FALSE]

\* Cursors of another session, and one made from nothing.
Foreign == {Cursor("another", s, o) : s \in 1 .. MaxSerial, o \in Slots} \cup {Cursor("nobody", 0, 0)}

SessionInit ==
  /\ grant \in Grants
  /\ closed = FALSE /\ serial = 0 /\ snapshot = NoSnapshot
  /\ lapsed = FALSE /\ expired = FALSE
  /\ held = {} /\ answer = NoAnswer /\ captured = <<>>

-----------------------------------------------------------------------------
(* The rows of a query and the pages of a snapshot                         *)

Permitted(s) == grant.whole_world \/ HandleOf(world, s) \in grant.entities

Admitted(query, s) ==
  LET slot == world.slots[s]
  IN /\ slot.live /\ ~slot.retired /\ Permitted(s)
     /\ slot.transform \in grant.region
     /\ query.all_tags \subseteq slot.tags
     /\ slot.transform \in query.intersects

Row(s) == [handle |-> HandleOf(world, s), authored |-> world.slots[s]]

\* In the order of their UUIDs.
Rows(query) ==
  LET chosen == {s \in Slots : Admitted(query, s)}
      Nth(i) == CHOOSE s \in chosen : Cardinality({q \in chosen : q < s}) = i - 1
  IN [i \in 1 .. Cardinality(chosen) |-> Row(Nth(i))]

Staged(query) ==
  [rows |-> Rows(query), page_size |-> query.page_size,
   response_bytes |-> IF query.response_bytes < grant.response_bytes
                      THEN query.response_bytes ELSE grant.response_bytes]

\* The bytes of a page with the rows after offset up to end.
Count(rows, offset, end) ==
  LET page == offset + 1 .. end
  IN Cardinality(page) + Cardinality({i \in page : rows[i].authored.tags # {}})
     + IF end < Len(rows) THEN 0 ELSE 1

\* The ends of the pages that fit: each with all the pages shorter than it.
Ends(data, offset) ==
  {end \in offset .. Len(data.rows) :
     /\ end - offset <= data.page_size
     /\ \A e \in offset + 1 .. end : Count(data.rows, offset, e) <= data.response_bytes}

End(data, offset) == CHOOSE end \in Ends(data, offset) : \A e \in Ends(data, offset) : e <= end

\* page fails when not even one row fits, or a page without rows does not.
Pageable(data, offset) ==
  LET end == End(data, offset)
  IN /\ end = offset => end = Len(data.rows)
     /\ Count(data.rows, offset, end) <= data.response_bytes

Answers(data, cursor) ==
  LET end == End(data, cursor.offset)
      more == end < Len(data.rows)
  IN /\ answer' = [cursor |-> cursor, more |-> more,
                   rows |-> SubSeq(data.rows, cursor.offset + 1, end)]
     /\ held' = IF more THEN held \cup {Cursor("self", cursor.snapshot, end)} ELSE held

-----------------------------------------------------------------------------
(* The calls                                                               *)

Refuses == answer' = NoAnswer /\ UNCHANGED held

\* expire: the session is closed, or its snapshot dropped.
Expire ==
  /\ closed' = (closed \/ expired')
  /\ snapshot' = IF lapsed' \/ expired' THEN NoSnapshot ELSE snapshot

\* Time passes while the page is made; the call looks at it once more.
RunsLate ==
  /\ lapsed' = TRUE /\ expired' \in {expired, TRUE}
  /\ Expire /\ Refuses
  /\ UNCHANGED <<grant, serial, captured>>

\* A call that is over before it publishes anything.
Refused ==
  /\ UNCHANGED <<lapsed, expired, grant, serial, captured>>
  /\ Expire /\ Refuses

Start(query) ==
  /\ ~staging
  /\ \/ Refused
     \/ /\ ~closed /\ ~expired /\ Pageable(Staged(query), 0)
        /\ \/ RunsLate
           \/ /\ serial < MaxSerial
              /\ snapshot' = Staged(query) /\ serial' = serial + 1 /\ lapsed' = FALSE
              /\ captured' = Append(captured, Rows(query))
              /\ Answers(Staged(query), Cursor("self", serial', 0))
              /\ UNCHANGED <<grant, closed, expired>>

\* Mutated form of Pages: the cursor's snapshot is not compared.
PagesAny(cursor) ==
  /\ ~closed /\ ~expired /\ ~lapsed /\ snapshot # NoSnapshot
  /\ cursor.owner = "self"
  /\ cursor.offset < Len(snapshot.rows)

\* The cursor is this session's and stands in its newest capture.
Pages(cursor) ==
  /\ ~closed /\ ~expired /\ ~lapsed /\ snapshot # NoSnapshot
  /\ cursor.owner = "self" /\ cursor.snapshot = serial
  /\ cursor.offset < Len(snapshot.rows)

NextPage(cursor) ==
  /\ ~staging
  /\ \/ (Pages(cursor) => ~Pageable(snapshot, cursor.offset)) /\ Refused
     \/ Pages(cursor) /\ RunsLate
     \/ /\ Pages(cursor) /\ Pageable(snapshot, cursor.offset)
        /\ Answers(snapshot, cursor)
        /\ UNCHANGED <<grant, closed, serial, snapshot, lapsed, expired, captured>>

Close ==
  /\ closed' = TRUE /\ snapshot' = NoSnapshot
  /\ UNCHANGED <<grant, serial, lapsed, expired, held, answer, captured>>

\* The deadline of the capture passes, or that of the session.
TimePasses ==
  /\ \/ snapshot # NoSnapshot /\ ~lapsed /\ UNCHANGED expired
     \/ ~expired /\ expired' = TRUE
  /\ lapsed' = TRUE
  /\ UNCHANGED <<grant, closed, serial, snapshot, held, answer, captured>>

SessionNext ==
  \/ \E query \in Queries : Start(query)
  \/ \E cursor \in held \cup Foreign : NextPage(cursor)
  \/ Close \/ TimePasses

\* A session over a world that others write.
SessionSpec ==
  /\ Init /\ SessionInit
  /\ [][(SessionNext /\ UNCHANGED vars) \/ (Next /\ UNCHANGED session)]_<<vars, session>>

-----------------------------------------------------------------------------

(***************************************************************************)
(* A page is a page of its own query: whatever others have written, asked  *)
(* or kept since, an answer holds the rows its query captured, from where  *)
(* the cursor stands, never none while there are any, and says that there  *)
(* are more exactly when there are.                                        *)
(***************************************************************************)
PagesOfOneQuery ==
  answer # NoAnswer =>
    LET rows == captured[answer.cursor.snapshot]
        first == answer.cursor.offset
        last == first + Len(answer.rows)
    IN /\ answer.cursor.offset # 0 => answer.cursor \in held
       /\ answer.rows = SubSeq(rows, first + 1, last)
       /\ first < Len(rows) => first < last
       /\ answer.more <=> last < Len(rows)
=============================================================================
