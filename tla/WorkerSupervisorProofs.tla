----------------------- MODULE WorkerSupervisorProofs -----------------------
(***************************************************************************)
(* Proofs about the SDK's worker supervisor, for any number of requests,   *)
(* children and generations.  The argument has two halves.  What has been  *)
(* written: where the thread of a submission stands says what the client   *)
(* has pending and what may have left for the host, and everything else    *)
(* the supervisor does leaves that alone (Calm).  What is running: the     *)
(* count of children is the number of threads that have not left, and a    *)
(* closed supervisor has nothing that could still be submitted.            *)
(***************************************************************************)
EXTENDS WorkerSupervisor, FiniteSetTheorems, TLAPS

Submitting == {"begin", "ready", "post", "waiting", "answered"}
Reconciling == {"resync", "resynced"}

\* The thread of a submission or reconciliation and the state of its request.
SendersMatch ==
  \A id \in Ids :
    /\ sender[id] \in Submitting <=> requests[id].state = "submitting"
    /\ sender[id] \in Reconciling <=> requests[id].state = "reconciling"
    /\ requests[id].state \in Busy <=> blocked = id

\* What the client holds for the request it is writing.
ClientMatches ==
  /\ pending # None => blocked = pending /\ requests[pending].prepared
  /\ blocked = None => ~uncertain
  /\ \A id \in Ids :
       /\ sender[id] = "begin" => pending = None /\ ~uncertain
       /\ sender[id] = "ready" => pending = id
       /\ sender[id] \in {"post", "waiting"} => requests[id].started
       /\ sender[id] \in {"answered", "resynced"} => pending = None /\ ~uncertain
       /\ requests[id].state \in Busy /\ requests[id].started
            => pending = id \/ sender[id] \in {"answered", "resynced"}

\* Nothing has left for the host before the submission, or after its answer.
NotSent ==
  \A id \in Ids :
    /\ requests[id].state \in {"none"} \cup PreSubmit \/ sender[id] \in {"begin", "ready"}
         => ~requests[id].started
    /\ sender[id] \in {"begin", "ready"} => id \notin transit /\ host[id] = "none"
    /\ sender[id] = "answered" => id \notin transit /\ host[id] # "none"
    /\ id \in transit \/ host[id] # "none" =>
         \/ requests[id].state \in Busy \cup {"reconciled"}
         \/ requests[id].state = host[id] /\ host[id] # "none"

Writes == SendersMatch /\ ClientMatches /\ NotSent

\* The requests are numbered in the order of their calls, and thread with them.
Numbered ==
  /\ \E n \in 0 .. MaxRequests : \A id \in Ids : requests[id].state # "none" <=> id <= n
  /\ \A id \in Ids :
       /\ requests[id].state = "none" => worker[id].at = "none"
       /\ requests[id].late > 0 => worker[id].at \in {"cleanup", "gone", "leaked"}
       /\ worker[id].found = "unstarted" => worker[id].at = "cleanup"

\* The children whose places are taken.
Running == {id \in Ids : worker[id].at \notin {"none", "gone"}}

Counted == workers = Cardinality(Running)

Closing ==
  /\ Closed => \A id \in Ids : requests[id].state \notin PreSubmit
  /\ closing = "returned" => Threads = {} /\ workers = 0

IInv == TypeOK /\ Writes /\ Numbered /\ Counted /\ Closing
-----------------------------------------------------------------------------
(* Requests.                                                               *)

States == {"none"} \cup PreSubmit \cup Busy \cup Final

\* How a request ends that was never submitted.
Dropped == {"timed_out", "superseded", "cancelled", "crashed", "worker_failed"}

Records == [Ids -> [state : States, generation : 0 .. MaxGeneration, late : 0 .. 1,
                    prepared : BOOLEAN, started : BOOLEAN]]

RequestTypes == requests \in Records /\ active \in Ids \cup {None}

\* A request is left as it is but for its state, which moves as Expire and the like move it.
Drifts(id) ==
  /\ requests'[id].prepared = requests[id].prepared
  /\ requests'[id].started = requests[id].started
  /\ \/ requests'[id].state = requests[id].state
     \/ requests[id].state \in PreSubmit /\ requests'[id].state \in PreSubmit \cup Dropped
     \/ requests[id].state = "none" /\ requests'[id].state \in {"running", "worker_failed"}

\* Nothing of a submission is touched.
Calm ==
  /\ requests' \in Records
  /\ \A id \in Ids : Drifts(id)
  /\ UNCHANGED <<blocked, sender, client, world>>

LEMMA NoneIsNoId == None \notin Ids
  BY SupervisorAssumption DEF Ids

\* The state a call finds.
LEMMA CheckedDrifts ==
  ASSUME RequestTypes, NEW id \in Ids
  PROVE  /\ Checked(id) \in States
         /\ \/ Checked(id) = requests[id].state
            \/ requests[id].state \in PreSubmit /\ Checked(id) \in Dropped
         /\ Checked(id) \in PreSubmit => Checked(id) = requests[id].state
  BY DEF RequestTypes, Records, Checked, States, PreSubmit, Dropped, Final

LEMMA BecomesTypes ==
  ASSUME RequestTypes, NEW id \in Ids, NEW s \in States, Becomes(id, s)
  PROVE  /\ RequestTypes'
         /\ requests'[id] = [requests[id] EXCEPT !.state = s]
         /\ requests'[id].state = s
         /\ \A j \in Ids : j # id => requests'[j] = requests[j]
  BY DEF RequestTypes, Records, Becomes

\* What a change of one state from before its submission leaves alone.
LEMMA BecomesDrifts ==
  ASSUME RequestTypes, NEW id \in Ids, NEW s \in States, Becomes(id, s),
         s = requests[id].state \/ (requests[id].state \in PreSubmit /\ s \in PreSubmit \cup Dropped)
  PROVE  requests' \in Records /\ \A j \in Ids : Drifts(j)
<1>1. /\ RequestTypes'
      /\ requests'[id] = [requests[id] EXCEPT !.state = s]
      /\ requests'[id].state = s
      /\ \A j \in Ids : j # id => requests'[j] = requests[j]
  BY BecomesTypes
<1>2. requests'[id].prepared = requests[id].prepared
      /\ requests'[id].started = requests[id].started
  BY <1>1 DEF RequestTypes, Records
<1>3. Drifts(id)
  BY <1>1, <1>2 DEF Drifts
<1>4. ASSUME NEW j \in Ids, j # id PROVE Drifts(j)
  BY <1>1, <1>4 DEF Drifts
<1> QED BY <1>1, <1>3, <1>4 DEF RequestTypes

-----------------------------------------------------------------------------
(* What has been written.                                                  *)

\* Every step that is no submission's.
LEMMA CalmKeeps == ASSUME TypeOK, Writes, Calm PROVE Writes'
<1>1. /\ blocked' = blocked /\ sender' = sender /\ pending' = pending
      /\ uncertain' = uncertain /\ transit' = transit /\ host' = host
  BY DEF Calm, client, world
<1>2. \A id \in Ids :
        /\ requests'[id].prepared = requests[id].prepared
        /\ requests'[id].started = requests[id].started
        /\ requests'[id].state \in Busy <=> requests[id].state \in Busy
        /\ requests[id].state \in Busy => requests'[id].state = requests[id].state
        /\ requests'[id].state \in {"none"} \cup PreSubmit
             => requests[id].state \in {"none"} \cup PreSubmit
        /\ requests[id].state \notin {"none"} \cup PreSubmit
             => requests'[id].state = requests[id].state
  BY DEF Calm, Drifts, PreSubmit, Busy, Dropped
<1>3. SendersMatch'
  BY <1>1, <1>2 DEF Writes, SendersMatch, Busy
<1>4. ClientMatches'
  BY <1>1, <1>2 DEF Writes, ClientMatches, TypeOK
<1>5. NotSent'
  <2>1. \A id \in Ids : id \in transit \/ host[id] # "none" =>
           requests[id].state \notin {"none"} \cup PreSubmit
    BY DEF Writes, NotSent, Busy, PreSubmit, TypeOK
  <2> QED BY <1>1, <1>2, <2>1 DEF Writes, NotSent
<1> QED BY <1>3, <1>4, <1>5 DEF Writes

\* Only one thread of a submission or reconciliation exists.
LEMMA Alone ==
  ASSUME TypeOK, Writes, NEW id \in Ids, sender[id] # "none"
  PROVE  /\ blocked = id /\ requests[id].state \in {"submitting", "reconciling"}
         /\ sender[id] \in Submitting \cup Reconciling
         /\ \A j \in Ids : j # id => sender[j] = "none" /\ requests[j].state \notin Busy
<1>1. sender[id] \in Submitting \cup Reconciling
  BY DEF TypeOK, Submitting, Reconciling
<1>2. blocked = id /\ requests[id].state \in {"submitting", "reconciling"}
  BY <1>1 DEF Writes, SendersMatch, Busy
<1>3. ASSUME NEW j \in Ids, j # id PROVE sender[j] = "none" /\ requests[j].state \notin Busy
  <2>1. requests[j].state \notin Busy
    BY <1>2, <1>3 DEF Writes, SendersMatch
  <2>2. sender[j] \notin Submitting \cup Reconciling
    BY <2>1 DEF Writes, SendersMatch, Busy
  <2> QED BY <2>1, <2>2 DEF TypeOK, Submitting, Reconciling
<1> QED BY <1>1, <1>2, <1>3

\* A step of one request's submission: the others are as they were.
OneSends(id) ==
  /\ RequestTypes'
  /\ \A j \in Ids : j # id => /\ requests'[j] = requests[j] /\ sender'[j] = sender[j]
                              /\ host'[j] = host[j] /\ (j \in transit' <=> j \in transit)
  /\ \A j \in Ids : j # id => sender[j] = "none" /\ requests[j].state \notin Busy

\* What the step of one request has to show of it and of the client.
MatchesAt(id) ==
  /\ sender[id] \in Submitting <=> requests[id].state = "submitting"
  /\ sender[id] \in Reconciling <=> requests[id].state = "reconciling"
  /\ requests[id].state \in Busy => blocked = id
  /\ requests[id].state \notin Busy => blocked = None

ClientAt(id) ==
  /\ pending # None => pending = id /\ blocked = id /\ requests[id].prepared
  /\ blocked = None => ~uncertain
  /\ sender[id] = "begin" => pending = None /\ ~uncertain
  /\ sender[id] = "ready" => pending = id
  /\ sender[id] \in {"post", "waiting"} => requests[id].started
  /\ sender[id] \in {"answered", "resynced"} => pending = None /\ ~uncertain
  /\ requests[id].state \in Busy /\ requests[id].started
       => pending = id \/ sender[id] \in {"answered", "resynced"}

NotSentAt(id) ==
  /\ requests[id].state \in {"none"} \cup PreSubmit \/ sender[id] \in {"begin", "ready"}
       => ~requests[id].started
  /\ sender[id] \in {"begin", "ready"} => id \notin transit /\ host[id] = "none"
  /\ sender[id] = "answered" => id \notin transit /\ host[id] # "none"
  /\ id \in transit \/ host[id] # "none" =>
       \/ requests[id].state \in Busy \cup {"reconciled"}
       \/ requests[id].state = host[id] /\ host[id] # "none"

LEMMA OneKeeps ==
  ASSUME TypeOK, Writes, NEW id \in Ids, OneSends(id),
         MatchesAt(id)', ClientAt(id)', NotSentAt(id)'
  PROVE  Writes'
<1> USE NoneIsNoId
<1>1. blocked' \in {id, None}
  BY DEF MatchesAt
<1>2. SendersMatch'
  BY <1>1 DEF OneSends, MatchesAt, SendersMatch, Busy, Submitting, Reconciling
<1>3. ClientMatches'
  BY <1>1 DEF OneSends, MatchesAt, ClientAt, ClientMatches, Busy
<1>4. NotSent'
  BY DEF OneSends, NotSentAt, NotSent, Writes
<1> QED BY <1>2, <1>3, <1>4 DEF Writes

\* Where a request stands whose thread takes a step.
LEMMA WhereItStands ==
  ASSUME TypeOK, Writes, NEW id \in Ids, sender[id] # "none"
  PROVE  MatchesAt(id) /\ ClientAt(id) /\ NotSentAt(id) /\ blocked = id
BY Alone DEF Writes, SendersMatch, ClientMatches, NotSent, MatchesAt, ClientAt, NotSentAt, Busy

\* The fields of the requests after a step that gives one of them another record.
LEMMA OneSendsTypes ==
  ASSUME TypeOK, Writes, NEW id \in Ids, sender[id] # "none",
         RequestTypes', \A j \in Ids : j # id => requests'[j] = requests[j],
         NEW next \in {"none"} \cup Submitting \cup Reconciling,
         sender' = [sender EXCEPT ![id] = next],
         \A j \in Ids : j # id => host'[j] = host[j] /\ (j \in transit' <=> j \in transit)
  PROVE  OneSends(id) /\ sender'[id] = next
BY Alone DEF OneSends, TypeOK

\* A thread leaves with an unknown outcome.
LEMMA UnknownKeeps ==
  ASSUME TypeOK, Writes, NEW id \in Ids, sender[id] \in {"begin", "post", "waiting", "resync"},
         Unknown(id)
  PROVE  Writes'
<1> DEFINE s == "outcome_unknown"
<1>1. MatchesAt(id) /\ ClientAt(id) /\ NotSentAt(id) /\ blocked = id
  BY WhereItStands
<1>2. /\ Becomes(id, s) /\ s \in States /\ sender' = [sender EXCEPT ![id] = "none"]
      /\ uncertain' \in {uncertain, TRUE} /\ blocked' = blocked /\ pending' = pending
      /\ transit' = transit /\ host' = host
  BY DEF Unknown, world, States, Busy
<1> HIDE DEF s
<1>3. RequestTypes
  BY DEF TypeOK, RequestTypes, Records, States
<1>4. /\ RequestTypes' /\ requests'[id] = [requests[id] EXCEPT !.state = s]
      /\ requests'[id].state = s /\ \A j \in Ids : j # id => requests'[j] = requests[j]
  BY <1>2, <1>3, BecomesTypes
<1>5. requests'[id].prepared = requests[id].prepared /\ requests'[id].started = requests[id].started
  BY <1>3, <1>4 DEF RequestTypes, Records
<1>6. OneSends(id) /\ sender'[id] = "none"
  BY <1>2, <1>4, OneSendsTypes
<1>7. s = "outcome_unknown"
  BY DEF s
<1>8. MatchesAt(id)'
  BY <1>1, <1>2, <1>4, <1>6, <1>7 DEF MatchesAt, Submitting, Reconciling, Busy
<1>9. ClientAt(id)'
  BY <1>1, <1>2, <1>4, <1>5, <1>6, <1>7, NoneIsNoId DEF ClientAt, MatchesAt
<1>10. NotSentAt(id)'
  BY <1>1, <1>2, <1>4, <1>5, <1>6, <1>7 DEF NotSentAt, PreSubmit, Busy
<1> QED BY <1>6, <1>8, <1>9, <1>10, OneKeeps

LEMMA TooLateKeeps ==
  ASSUME TypeOK, Writes, NEW id \in Ids, TooLate(id) PROVE Writes'
<1> DEFINE s == "timed_out"
<1>1. /\ sender[id] = "begin" /\ sender' = [sender EXCEPT ![id] = "none"]
      /\ Becomes(id, s) /\ s \in States /\ blocked' = None
      /\ pending' = pending /\ uncertain' = uncertain /\ transit' = transit /\ host' = host
  BY DEF TooLate, SenderAt, client, world, States, Final
<1> HIDE DEF s
<1>2. MatchesAt(id) /\ ClientAt(id) /\ NotSentAt(id) /\ blocked = id
  BY <1>1, WhereItStands
<1>3. RequestTypes
  BY DEF TypeOK, RequestTypes, Records, States
<1>4. /\ RequestTypes' /\ requests'[id] = [requests[id] EXCEPT !.state = s]
      /\ requests'[id].state = s /\ \A j \in Ids : j # id => requests'[j] = requests[j]
  BY <1>1, <1>3, BecomesTypes
<1>5. requests'[id].started = requests[id].started
  BY <1>3, <1>4 DEF RequestTypes, Records
<1>6. OneSends(id) /\ sender'[id] = "none"
  BY <1>1, <1>4, OneSendsTypes
<1>7. s = "timed_out"
  BY DEF s
<1>8. MatchesAt(id)'
  BY <1>1, <1>4, <1>6, <1>7 DEF MatchesAt, Submitting, Reconciling, Busy
<1>9. ClientAt(id)'
  BY <1>1, <1>2, <1>4, <1>6, <1>7 DEF ClientAt, Busy
<1>10. NotSentAt(id)'
  BY <1>1, <1>2, <1>4, <1>5, <1>6, <1>7 DEF NotSentAt, PreSubmit, Busy
<1> QED BY <1>6, <1>8, <1>9, <1>10, OneKeeps

LEMMA PrepareKeeps ==
  ASSUME TypeOK, Writes, NEW id \in Ids, Prepare(id) PROVE Writes'
<1>1. /\ sender[id] = "begin" /\ sender' = [sender EXCEPT ![id] = "ready"]
      /\ ~uncertain /\ uncertain' = uncertain /\ pending = None /\ pending' = id
      /\ requests' = [requests EXCEPT ![id].prepared = TRUE]
      /\ active' = active /\ blocked' = blocked /\ transit' = transit /\ host' = host
  BY DEF Prepare, SenderAt, world
<1>2. MatchesAt(id) /\ ClientAt(id) /\ NotSentAt(id) /\ blocked = id
  BY <1>1, WhereItStands
<1>3. RequestTypes
  BY DEF TypeOK, RequestTypes, Records, States
<1>4. /\ RequestTypes' /\ \A j \in Ids : j # id => requests'[j] = requests[j]
      /\ requests'[id].state = requests[id].state /\ requests'[id].prepared
      /\ requests'[id].started = requests[id].started
  BY <1>1, <1>3 DEF RequestTypes, Records
<1>5. OneSends(id) /\ sender'[id] = "ready"
  BY <1>1, <1>4, OneSendsTypes DEF Submitting
<1>6. MatchesAt(id)'
  BY <1>1, <1>2, <1>4, <1>5 DEF MatchesAt, Submitting, Reconciling, Busy
<1>7. ClientAt(id)'
  BY <1>1, <1>2, <1>4, <1>5, NoneIsNoId DEF ClientAt
<1>8. NotSentAt(id)'
  BY <1>1, <1>2, <1>4, <1>5 DEF NotSentAt
<1> QED BY <1>5, <1>6, <1>7, <1>8, OneKeeps

LEMMA PreparedKeeps ==
  ASSUME TypeOK, Writes, NEW id \in Ids, Prepared(id) PROVE Writes'
<1> DEFINE s == "outcome_unknown"
<1>1. /\ sender[id] = "ready" /\ blocked' = blocked /\ pending' = pending
      /\ uncertain' = uncertain /\ transit' = transit /\ host' = host
      /\ \/ Becomes(id, s) /\ sender' = [sender EXCEPT ![id] = "none"]
         \/ /\ requests' = [requests EXCEPT ![id].started = TRUE] /\ active' = active
            /\ sender' = [sender EXCEPT ![id] = "post"]
  BY DEF Prepared, SenderAt, client, world
<1>2. MatchesAt(id) /\ ClientAt(id) /\ NotSentAt(id) /\ blocked = id
  BY <1>1, WhereItStands
<1>3. RequestTypes /\ s \in States /\ s = "outcome_unknown"
  BY DEF TypeOK, RequestTypes, Records, States, Busy
<1> HIDE DEF s
<1>4. CASE Becomes(id, s) /\ sender' = [sender EXCEPT ![id] = "none"]
  <2>1. /\ RequestTypes' /\ requests'[id] = [requests[id] EXCEPT !.state = s]
        /\ requests'[id].state = s /\ \A j \in Ids : j # id => requests'[j] = requests[j]
    BY <1>4, <1>3, BecomesTypes
  <2>2. /\ requests'[id].started = requests[id].started
        /\ requests'[id].prepared = requests[id].prepared
    BY <1>3, <2>1 DEF RequestTypes, Records
  <2>3. OneSends(id) /\ sender'[id] = "none"
    BY <1>1, <1>4, <2>1, OneSendsTypes
  <2>4. MatchesAt(id)'
    BY <1>1, <1>2, <1>3, <2>1, <2>3 DEF MatchesAt, Submitting, Reconciling, Busy
  <2>5. ClientAt(id)'
    BY <1>1, <1>2, <1>3, <2>1, <2>2, <2>3, NoneIsNoId DEF ClientAt
  <2>6. NotSentAt(id)'
    BY <1>1, <1>2, <1>3, <2>1, <2>2, <2>3 DEF NotSentAt, PreSubmit, Busy
  <2> QED BY <2>3, <2>4, <2>5, <2>6, OneKeeps
<1>5. CASE /\ requests' = [requests EXCEPT ![id].started = TRUE] /\ active' = active
           /\ sender' = [sender EXCEPT ![id] = "post"]
  <2>1. /\ RequestTypes' /\ \A j \in Ids : j # id => requests'[j] = requests[j]
        /\ requests'[id].state = requests[id].state /\ requests'[id].started
        /\ requests'[id].prepared = requests[id].prepared
    BY <1>5, <1>3 DEF RequestTypes, Records
  <2>2. OneSends(id) /\ sender'[id] = "post"
    BY <1>1, <1>5, <2>1, OneSendsTypes DEF Submitting
  <2>3. MatchesAt(id)'
    BY <1>1, <1>2, <2>1, <2>2 DEF MatchesAt, Submitting, Reconciling, Busy
  <2>4. ClientAt(id)'
    BY <1>1, <1>2, <2>1, <2>2, NoneIsNoId DEF ClientAt
  <2>5. NotSentAt(id)'
    BY <1>1, <1>2, <2>1, <2>2 DEF NotSentAt, MatchesAt, Submitting, PreSubmit, Busy
  <2> QED BY <2>2, <2>3, <2>4, <2>5, OneKeeps
<1> QED BY <1>1, <1>4, <1>5

LEMMA PostKeeps == ASSUME TypeOK, Writes, NEW id \in Ids, Post(id) PROVE Writes'
<1>1. /\ sender[id] = "post" /\ sender' = [sender EXCEPT ![id] = "waiting"]
      /\ pending' = id /\ uncertain' = uncertain /\ requests' = requests /\ active' = active
      /\ blocked' = blocked /\ transit' = transit \cup {id} /\ host' = host
  BY DEF Post, SenderAt, records
<1>2. MatchesAt(id) /\ ClientAt(id) /\ NotSentAt(id) /\ blocked = id
  BY <1>1, WhereItStands
<1>3. RequestTypes'
  BY <1>1 DEF TypeOK, RequestTypes, Records, States
<1>4. OneSends(id) /\ sender'[id] = "waiting"
  BY <1>1, <1>3, OneSendsTypes DEF Submitting
<1>5. requests[id].state = "submitting"
  BY <1>1, <1>2 DEF MatchesAt, Submitting
<1>6. MatchesAt(id)'
  BY <1>1, <1>2, <1>4, <1>5 DEF MatchesAt, Submitting, Reconciling, Busy
<1>7. ClientAt(id)'
  BY <1>1, <1>2, <1>4, <1>5, NoneIsNoId DEF ClientAt, Busy
<1>8. NotSentAt(id)'
  BY <1>1, <1>2, <1>4, <1>5 DEF NotSentAt, PreSubmit, Busy
<1> QED BY <1>4, <1>6, <1>7, <1>8, OneKeeps

\* The answer, or the resync, settles what the client had pending.
LEMMA AnswersKeep ==
  ASSUME TypeOK, Writes, NEW id \in Ids, Answer(id) \/ Resync(id) PROVE Writes'
<1>1. /\ \/ /\ sender[id] = "waiting" /\ sender' = [sender EXCEPT ![id] = "answered"]
            /\ host[id] # "none" /\ id \notin transit
         \/ sender[id] = "resync" /\ sender' = [sender EXCEPT ![id] = "resynced"]
      /\ pending' = None /\ uncertain' = FALSE /\ requests' = requests /\ active' = active
      /\ blocked' = blocked /\ transit' = transit /\ host' = host
  BY DEF Answer, Resync, SenderAt, records, world
<1>2. MatchesAt(id) /\ ClientAt(id) /\ NotSentAt(id) /\ blocked = id
  BY <1>1, WhereItStands
<1>3. RequestTypes'
  BY <1>1 DEF TypeOK, RequestTypes, Records, States
<1>4. /\ OneSends(id)
      /\ \/ sender[id] = "waiting" /\ sender'[id] = "answered" /\ host[id] # "none" /\ id \notin transit
         \/ sender[id] = "resync" /\ sender'[id] = "resynced"
  <2>1. CASE sender[id] = "waiting"
    BY <1>1, <1>3, <2>1, OneSendsTypes DEF Submitting
  <2>2. CASE sender[id] = "resync"
    BY <1>1, <1>3, <2>2, OneSendsTypes DEF Reconciling
  <2> QED BY <1>1, <2>1, <2>2
<1>5. MatchesAt(id)'
  BY <1>1, <1>2, <1>4 DEF MatchesAt, Submitting, Reconciling, Busy
<1>6. ClientAt(id)'
  BY <1>1, <1>2, <1>4 DEF ClientAt
<1>7. NotSentAt(id)'
  BY <1>1, <1>2, <1>4 DEF NotSentAt, MatchesAt, Submitting, Reconciling, PreSubmit, Busy
<1> QED BY <1>4, <1>5, <1>6, <1>7, OneKeeps

\* A submission ends with the outcome the host retains, a reconciliation with none.
LEMMA SettlesKeep ==
  ASSUME TypeOK, Writes, NEW id \in Ids, Settle(id) \/ Reconciled(id) PROVE Writes'
<1>1. PICK s \in States :
        /\ \/ sender[id] = "answered" /\ s = host[id] /\ s \in {"committed", "rejected"}
           \/ sender[id] = "resynced" /\ s = "reconciled"
        /\ requests' = [requests EXCEPT ![id].state = s, ![id].prepared = FALSE]
        /\ active' = IF active = id THEN None ELSE active
        /\ sender' = [sender EXCEPT ![id] = "none"] /\ blocked' = None
        /\ pending' = pending /\ uncertain' = uncertain /\ transit' = transit /\ host' = host
  <2>1. CASE Settle(id)
    <3>1. sender[id] = "answered"
      BY <2>1 DEF Settle, SenderAt
    <3>2. host[id] \in {"committed", "rejected"}
      BY <3>1 DEF Writes, NotSent, TypeOK
    <3> QED BY <2>1, <3>1, <3>2 DEF Settle, SenderAt, client, world, States, Final
  <2>2. CASE Reconciled(id)
    BY <2>2 DEF Reconciled, SenderAt, client, world, States, Final
  <2> QED BY <2>1, <2>2
<1>2. MatchesAt(id) /\ ClientAt(id) /\ NotSentAt(id) /\ blocked = id
  BY <1>1, WhereItStands
<1>3. RequestTypes
  BY DEF TypeOK, RequestTypes, Records, States
<1>4. /\ RequestTypes' /\ \A j \in Ids : j # id => requests'[j] = requests[j]
      /\ requests'[id].state = s
  BY <1>1, <1>3 DEF RequestTypes, Records
<1>5. OneSends(id) /\ sender'[id] = "none"
  BY <1>1, <1>4, OneSendsTypes
<1>6. MatchesAt(id)'
  BY <1>1, <1>4, <1>5 DEF MatchesAt, Submitting, Reconciling, Busy
<1>7. ClientAt(id)'
  BY <1>1, <1>2, <1>4, <1>5 DEF ClientAt, Busy
<1>8. NotSentAt(id)'
  BY <1>1, <1>2, <1>4, <1>5 DEF NotSentAt, PreSubmit, Busy
<1> QED BY <1>5, <1>6, <1>7, <1>8, OneKeeps

\* What arrives belongs to a request that was sent and not yet answered.
LEMMA ArriveKeeps ==
  ASSUME TypeOK, Writes, NEW id \in Ids, NEW outcome \in {"committed", "rejected", "none"},
         Arrive(id, outcome)
  PROVE  Writes'
<1>1. /\ id \in transit /\ transit' = transit \ {id}
      /\ host' = [host EXCEPT ![id] = IF @ = "none" THEN outcome ELSE @]
      /\ requests' = requests /\ blocked' = blocked /\ sender' = sender
      /\ pending' = pending /\ uncertain' = uncertain
  BY DEF Arrive, records, client
<1>2. SendersMatch'
  BY <1>1 DEF Writes, SendersMatch
<1>3. ClientMatches'
  BY <1>1 DEF Writes, ClientMatches
<1>4. sender[id] \notin {"begin", "ready", "answered"}
  BY <1>1 DEF Writes, NotSent
<1>5. \A j \in Ids : j # id => host'[j] = host[j]
  BY <1>1 DEF TypeOK
<1>6. host'[id] = IF host[id] = "none" THEN outcome ELSE host[id]
  BY <1>1 DEF TypeOK
<1>7. NotSent'
  BY <1>1, <1>4, <1>5, <1>6 DEF Writes, NotSent
<1> QED BY <1>2, <1>3, <1>7 DEF Writes

\* A call that starts a thread finds no other one writing.
LEMMA NobodySends ==
  ASSUME TypeOK, Writes, NEW id \in Ids, blocked \in {None, id},
         requests[id].state \notin {"submitting", "reconciling"}
  PROVE  /\ \A j \in Ids : sender[j] = "none" /\ (j # id => requests[j].state \notin Busy)
         /\ MatchesAt(id) /\ ClientAt(id) /\ NotSentAt(id)
<1> USE NoneIsNoId
<1>1. ASSUME NEW j \in Ids PROVE sender[j] = "none" /\ (j # id => requests[j].state \notin Busy)
  <2>1. j # id => requests[j].state \notin Busy
    BY DEF Writes, SendersMatch
  <2>2. sender[j] \notin Submitting \cup Reconciling
    BY <2>1 DEF Writes, SendersMatch, Busy
  <2> QED BY <2>1, <2>2 DEF TypeOK, Submitting, Reconciling
<1>2. MatchesAt(id)
  BY DEF Writes, SendersMatch, MatchesAt
<1>3. ClientAt(id)
  BY DEF Writes, ClientMatches, ClientAt
<1>4. NotSentAt(id)
  BY DEF Writes, NotSent, NotSentAt
<1> QED BY <1>1, <1>2, <1>3, <1>4

LEMMA SubmitKeeps ==
  ASSUME TypeOK, Writes, NEW id \in Ids, NEW spawned \in BOOLEAN, Submit(id, spawned)
  PROVE  Writes'
<1> DEFINE s == IF spawned THEN "submitting" ELSE "worker_failed"
<1> DEFINE next == IF spawned THEN "begin" ELSE "none"
<1>1. RequestTypes
  BY DEF TypeOK, RequestTypes, Records, States
<1>2. requests[id].state = "proposal_ready"
  BY <1>1, CheckedDrifts DEF Submit, PreSubmit, Dropped
<1>3. /\ Becomes(id, s) /\ s \in States
      /\ s = IF spawned THEN "submitting" ELSE "worker_failed"
      /\ next = IF spawned THEN "begin" ELSE "none"
      /\ next \in {"none"} \cup Submitting
      /\ blocked = None /\ blocked' = (IF spawned THEN id ELSE None)
      /\ sender' = [sender EXCEPT ![id] = next]
      /\ pending' = pending /\ uncertain' = uncertain /\ transit' = transit /\ host' = host
  BY DEF Submit, client, world, States, Busy, Final, Submitting
<1> HIDE DEF s, next
<1>4. /\ \A j \in Ids : sender[j] = "none" /\ (j # id => requests[j].state \notin Busy)
      /\ MatchesAt(id) /\ ClientAt(id) /\ NotSentAt(id)
  BY <1>2, <1>3, NobodySends
<1>5. /\ RequestTypes' /\ requests'[id] = [requests[id] EXCEPT !.state = s]
      /\ requests'[id].state = s /\ \A j \in Ids : j # id => requests'[j] = requests[j]
  BY <1>1, <1>3, BecomesTypes
<1>6. requests'[id].started = requests[id].started
  BY <1>1, <1>5 DEF RequestTypes, Records
<1>7. sender'[id] = next /\ \A j \in Ids : j # id => sender'[j] = sender[j]
  BY <1>3 DEF TypeOK
<1>8. OneSends(id)
  BY <1>3, <1>4, <1>5, <1>7 DEF OneSends
<1>9. MatchesAt(id)'
  BY <1>3, <1>5, <1>7 DEF MatchesAt, Submitting, Reconciling, Busy
<1>10. ClientAt(id)'
  BY <1>2, <1>3, <1>4, <1>5, <1>6, <1>7, NoneIsNoId DEF ClientAt, NotSentAt, Writes, ClientMatches,
     PreSubmit
<1>11. NotSentAt(id)'
  BY <1>2, <1>3, <1>4, <1>5, <1>6, <1>7 DEF NotSentAt, PreSubmit, Busy, TypeOK
<1> QED BY <1>8, <1>9, <1>10, <1>11, OneKeeps

LEMMA RetryKeeps ==
  ASSUME TypeOK, Writes, NEW id \in Ids, Retry(id) \/ Reconcile(id) PROVE Writes'
<1>1. PICK s \in States, next \in {"post", "resync"} :
        /\ \/ s = "submitting" /\ next = "post" /\ requests[id].started
           \/ s = "reconciling" /\ next = "resync"
        /\ requests[id].state = "outcome_unknown"
        /\ Becomes(id, s) /\ blocked = id /\ blocked' = blocked
        /\ sender' = [sender EXCEPT ![id] = next]
        /\ pending' = pending /\ uncertain' = uncertain /\ transit' = transit /\ host' = host
  <2>1. CASE Retry(id)
    BY <2>1 DEF Retry, client, world, States, Busy
  <2>2. CASE Reconcile(id)
    BY <2>2 DEF Reconcile, client, world, States, Busy
  <2> QED BY <2>1, <2>2
<1>2. RequestTypes
  BY DEF TypeOK, RequestTypes, Records, States
<1>3. /\ \A j \in Ids : sender[j] = "none" /\ (j # id => requests[j].state \notin Busy)
      /\ MatchesAt(id) /\ ClientAt(id) /\ NotSentAt(id)
  BY <1>1, NobodySends
<1>4. /\ RequestTypes' /\ requests'[id] = [requests[id] EXCEPT !.state = s]
      /\ requests'[id].state = s /\ \A j \in Ids : j # id => requests'[j] = requests[j]
  BY <1>1, <1>2, BecomesTypes
<1>5. requests'[id].started = requests[id].started
      /\ requests'[id].prepared = requests[id].prepared
  BY <1>2, <1>4 DEF RequestTypes, Records
<1>6. sender'[id] = next /\ \A j \in Ids : j # id => sender'[j] = sender[j]
  BY <1>1 DEF TypeOK
<1>7. OneSends(id)
  BY <1>1, <1>3, <1>4, <1>6 DEF OneSends
<1>8. MatchesAt(id)'
  BY <1>1, <1>4, <1>6 DEF MatchesAt, Submitting, Reconciling, Busy
<1>9. ClientAt(id)'
  BY <1>1, <1>3, <1>4, <1>5, <1>6, NoneIsNoId DEF ClientAt, Busy
<1>10. NotSentAt(id)'
  BY <1>1, <1>3, <1>4, <1>5, <1>6 DEF NotSentAt, PreSubmit, Busy
<1> QED BY <1>7, <1>8, <1>9, <1>10, OneKeeps

LEMMA SenderKeeps ==
  ASSUME TypeOK, Writes, NEW id \in Ids, SenderStep(id) PROVE Writes'
<1>1. CASE PrepareRaises(id) \/ PostRaises(id) \/ ResyncRaises(id)
  BY <1>1, UnknownKeeps DEF PrepareRaises, PostRaises, ResyncRaises
<1> QED BY <1>1, TooLateKeeps, PrepareKeeps, PreparedKeeps, PostKeeps, AnswersKeep, SettlesKeep
        DEF SenderStep

-----------------------------------------------------------------------------
(* What is running.                                                        *)

\* The threads of children that have not left.
Alive == {"enter", "child", "reaped", "judging", "cleanup"}

Workers == [Ids -> [at : {"none", "gone", "leaked"} \cup Alive,
                    found : {"nothing", "unstarted", "line", "crashed", "worker_failed"}]]

\* The types of all but the requests.
OtherTypes ==
  /\ generation \in 1 .. MaxGeneration
  /\ blocked \in Ids \cup {None}
  /\ workers \in 0 .. MaxWorkers
  /\ closing \in {"open", "joining", "returned", "raised"}
  /\ due \subseteq Ids
  /\ worker \in Workers
  /\ sender \in [Ids -> {"none"} \cup Submitting \cup Reconciling]
  /\ pending \in Ids \cup {None} /\ uncertain \in BOOLEAN
  /\ transit \subseteq Ids
  /\ host \in [Ids -> {"none", "committed", "rejected"}]

LEMMA TypesSplit == TypeOK <=> RequestTypes /\ OtherTypes
<1>1. RequestTypes <=> /\ requests \in [Ids -> [state : {"none"} \cup PreSubmit \cup Busy \cup Final,
                           generation : 0 .. MaxGeneration, late : 0 .. 1,
                           prepared : BOOLEAN, started : BOOLEAN]]
                       /\ active \in Ids \cup {None}
  BY DEF RequestTypes, Records, States
<1>2. worker \in Workers <=>
        worker \in [Ids -> [at : {"none", "enter", "child", "reaped", "judging", "cleanup",
                                  "gone", "leaked"},
                     found : {"nothing", "unstarted", "line", "crashed", "worker_failed"}]]
  <2>1. {"none", "gone", "leaked"} \cup Alive
          = {"none", "enter", "child", "reaped", "judging", "cleanup", "gone", "leaked"}
    BY DEF Alive
  <2> QED BY <2>1 DEF Workers
<1>3. {"none"} \cup Submitting \cup Reconciling
        = {"none", "begin", "ready", "post", "waiting", "answered", "resync", "resynced"}
  BY DEF Submitting, Reconciling
<1> QED BY <1>1, <1>2, <1>3 DEF TypeOK, OtherTypes

LEMMA TypesSplitPrimed == TypeOK' <=> RequestTypes' /\ OtherTypes'
  BY TypesSplit, PTL

Books == Numbered /\ Counted /\ Closing

\* The number of the next request, as Start computes it.
Number == Cardinality({i \in Ids : requests[i].state # "none"}) + 1

LEMMA NumberIsNext ==
  ASSUME TypeOK, Numbered
  PROVE  Number \in Nat \ {0} /\ \A id \in Ids : requests[id].state # "none" <=> id < Number
<1>1. PICK n \in 0 .. MaxRequests : \A id \in Ids : requests[id].state # "none" <=> id <= n
  BY DEF Numbered
<1>2. {i \in Ids : requests[i].state # "none"} = 1 .. n
  BY <1>1, SupervisorAssumption DEF Ids
<1>3. Cardinality(1 .. n) = n
  BY FS_Interval, SupervisorAssumption
<1>4. Number = n + 1
  BY <1>2, <1>3 DEF Number
<1> QED BY <1>1, <1>4, SupervisorAssumption DEF Ids

\* The children whose places are taken are finitely many.
LEMMA RunningIsFinite == IsFiniteSet(Running) /\ Cardinality(Running) \in Nat
<1>1. IsFiniteSet(Ids)
  BY FS_Interval, SupervisorAssumption DEF Ids
<1> QED BY <1>1, FS_Subset, FS_CardinalityType DEF Running

\* No request comes or goes, and no thread starts.
StaysOpen ==
  /\ \A id \in Ids : /\ requests'[id].state = "none" <=> requests[id].state = "none"
                     /\ Closed => requests'[id].state \notin PreSubmit
  /\ closing' = closing

\* A step of callers or of a submission leaves the children alone.
LEMMA ChildrenAlone ==
  ASSUME TypeOK, Books, StaysOpen,
         UNCHANGED <<workers, worker>>,
         \A id \in Ids : requests'[id].late = requests[id].late,
         closing = "returned" => sender' = sender
  PROVE  Books'
<1>1. Numbered'
  BY DEF Books, Numbered, StaysOpen
<1>2. Counted'
  BY DEF Books, Counted, Running
<1>3. Closing'
  BY DEF Books, Closing, StaysOpen, Closed, Threads
<1> QED BY <1>1, <1>2, <1>3 DEF Books

\* A step of a child's thread that keeps its place.
LEMMA ChildMoves ==
  ASSUME TypeOK, Books, NEW id \in Ids, StaysOpen, worker[id].at \in Alive,
         NEW w \in [at : {"leaked"} \cup Alive, found : {"nothing", "unstarted", "line", "crashed", "worker_failed"}],
         worker' = [worker EXCEPT ![id] = w], w.at # "enter",
         w.found = "unstarted" => w.at = "cleanup",
         UNCHANGED <<workers>>,
         \A j \in Ids : requests'[j].late = requests[j].late
                          \/ (j = id /\ worker[id].at = "judging"),
         worker[id].at \in {"judging", "cleanup"} => w.at \in {"cleanup", "leaked"}
  PROVE  Books' /\ worker' \in Workers
<1>1. /\ worker'[id] = w /\ \A j \in Ids : j # id => worker'[j] = worker[j]
      /\ worker' \in Workers
  <2>1. worker \in Workers
    BY TypesSplit DEF OtherTypes
  <2> QED BY <2>1 DEF Workers
<1>2. Numbered'
  <2>1. \E n \in 0 .. MaxRequests : \A j \in Ids : requests'[j].state # "none" <=> j <= n
    BY DEF Books, Numbered, StaysOpen
  <2>2. ASSUME NEW j \in Ids
        PROVE  /\ requests'[j].state = "none" => worker'[j].at = "none"
               /\ requests'[j].late > 0 => worker'[j].at \in {"cleanup", "gone", "leaked"}
               /\ worker'[j].found = "unstarted" => worker'[j].at = "cleanup"
    BY <1>1 DEF Books, Numbered, StaysOpen, Alive
  <2> QED BY <2>1, <2>2 DEF Numbered
<1>3. Running' = Running
  BY <1>1 DEF Running, Alive
<1>4. Counted'
  BY <1>3 DEF Books, Counted
<1>5. closing # "returned"
  BY DEF Books, Closing, Threads, Alive
<1>6. Closing'
  BY <1>5 DEF Books, Closing, StaysOpen, Closed
<1> QED BY <1>1, <1>2, <1>4, <1>6 DEF Books

\* A child's thread that leaves gives its place back.
LEMMA ChildLeaves ==
  ASSUME TypeOK, Books, NEW id \in Ids, StaysOpen, worker[id].at \in Alive,
         worker' = [worker EXCEPT ![id] = [at |-> "gone", found |-> "nothing"]],
         workers' = workers - 1,
         \A j \in Ids : requests'[j].late = requests[j].late
  PROVE  Books' /\ worker' \in Workers /\ workers' \in 0 .. MaxWorkers
<1>1. /\ worker'[id].at = "gone" /\ worker'[id].found = "nothing"
      /\ \A j \in Ids : j # id => worker'[j] = worker[j]
      /\ worker' \in Workers
  <2>1. worker \in Workers
    BY TypesSplit DEF OtherTypes
  <2> QED BY <2>1 DEF Workers
<1>2. Numbered'
  <2>1. \E n \in 0 .. MaxRequests : \A j \in Ids : requests'[j].state # "none" <=> j <= n
    BY DEF Books, Numbered, StaysOpen
  <2>2. ASSUME NEW j \in Ids
        PROVE  /\ requests'[j].state = "none" => worker'[j].at = "none"
               /\ requests'[j].late > 0 => worker'[j].at \in {"cleanup", "gone", "leaked"}
               /\ worker'[j].found = "unstarted" => worker'[j].at = "cleanup"
    BY <1>1 DEF Books, Numbered, StaysOpen, Alive
  <2> QED BY <2>1, <2>2 DEF Numbered
<1>3. Running' = Running \ {id} /\ id \in Running
  BY <1>1 DEF Running, Alive
<1>4. Cardinality(Running \ {id}) = Cardinality(Running) - 1
      /\ Cardinality(Running \ {id}) \in Nat
  BY <1>3, RunningIsFinite, FS_RemoveElement, FS_CardinalityType
<1>5. workers' = Cardinality(Running')
  BY <1>3, <1>4 DEF Books, Counted
<1>6. workers' \in 0 .. MaxWorkers
  BY <1>3, <1>4, <1>5, SupervisorAssumption DEF TypeOK
<1>7. closing # "returned"
  BY DEF Books, Closing, Threads, Alive
<1>8. Closing'
  BY <1>7 DEF Books, Closing, StaysOpen, Closed
<1> QED BY <1>1, <1>2, <1>5, <1>6, <1>8 DEF Books, Counted

\* A new request and the thread of its child.
LEMMA StartKeeps ==
  ASSUME IInv, NEW supersede \in BOOLEAN, NEW spawned \in BOOLEAN, Start(supersede, spawned)
  PROVE  IInv'
<1> DEFINE id == Number
<1> DEFINE now == IF supersede THEN generation + 1 ELSE generation
<1> DEFINE kept == IF active = None THEN requests
                   ELSE [requests EXCEPT ![active].state =
                           IF Checked(active) \in PreSubmit THEN "superseded" ELSE Checked(active)]
<1> DEFINE s == IF spawned THEN "running" ELSE "worker_failed"
<1> DEFINE place == IF spawned THEN "enter" ELSE "gone"
<1>1. /\ id \in Ids /\ workers < MaxWorkers /\ ~Closed
      /\ now <= MaxGeneration /\ generation' = now
      /\ requests' = [kept EXCEPT ![id].generation = now, ![id].state = s]
      /\ active' = (IF spawned THEN id ELSE None)
      /\ workers' = (IF spawned THEN workers + 1 ELSE workers)
      /\ worker' = [worker EXCEPT ![id].at = place]
      /\ blocked' = blocked /\ closing' = closing /\ due' = due /\ sender' = sender
      /\ pending' = pending /\ uncertain' = uncertain /\ transit' = transit /\ host' = host
  BY DEF Start, Number, Places, client, world
<1>2. RequestTypes /\ OtherTypes /\ Numbered /\ Counted /\ Closing /\ TypeOK /\ Writes
  BY TypesSplit DEF IInv
<1>3. requests[id].state = "none" /\ worker[id].at = "none" /\ requests[id].late = 0
  <2>1. requests[id].state = "none"
    BY <1>1, <1>2, NumberIsNext DEF Ids
  <2>2. worker[id].at = "none" /\ ~(requests[id].late > 0)
    BY <1>1, <1>2, <2>1 DEF Numbered
  <2> QED BY <1>1, <1>2, <2>1, <2>2 DEF RequestTypes, Records
<1>4. /\ s \in {"running", "worker_failed"} /\ s \in States
      /\ place \in {"enter", "gone"} /\ (place = "enter" <=> spawned)
      /\ now \in 1 .. MaxGeneration
  BY <1>1, <1>2 DEF States, PreSubmit, Final, OtherTypes
<1>5. /\ kept \in Records
      /\ \A j \in Ids : /\ kept[j].prepared = requests[j].prepared
                        /\ kept[j].started = requests[j].started
                        /\ kept[j].late = requests[j].late
                        /\ \/ kept[j].state = requests[j].state
                           \/ requests[j].state \in PreSubmit /\ kept[j].state \in Dropped
  <2>1. CASE active = None
    BY <1>2, <2>1 DEF RequestTypes
  <2>2. CASE active \in Ids
    <3> DEFINE k == IF Checked(active) \in PreSubmit THEN "superseded" ELSE Checked(active)
    <3>1. /\ k \in States
          /\ k = requests[active].state \/ (requests[active].state \in PreSubmit /\ k \in Dropped)
      BY <1>2, <2>2, CheckedDrifts DEF States, Final, Dropped
    <3>2. kept = [requests EXCEPT ![active].state = k]
      BY <2>2, NoneIsNoId
    <3> HIDE DEF k, kept
    <3> QED BY <1>2, <2>2, <3>1, <3>2 DEF RequestTypes, Records
  <2> QED BY <1>2, <2>1, <2>2 DEF RequestTypes
<1> HIDE DEF id, now, kept, s, place
<1>6. kept[id].state = "none"
  BY <1>1, <1>3, <1>5 DEF PreSubmit
<1>7. /\ requests' \in Records
      /\ \A j \in Ids : /\ requests'[j].prepared = kept[j].prepared
                        /\ requests'[j].started = kept[j].started
                        /\ requests'[j].late = kept[j].late
                        /\ j # id => requests'[j].state = kept[j].state
      /\ requests'[id].state = s
  <2>1. requests' = [kept EXCEPT ![id] = [kept[id] EXCEPT !.generation = now, !.state = s]]
    BY <1>1, <1>5 DEF Records
  <2>2. kept[id] \in [state : States, generation : 0 .. MaxGeneration, late : 0 .. 1,
                     prepared : BOOLEAN, started : BOOLEAN]
    BY <1>1, <1>5 DEF Records
  <2>3. now \in 0 .. MaxGeneration
    BY <1>4, SupervisorAssumption
  <2>4. [kept[id] EXCEPT !.generation = now, !.state = s]
          \in [state : States, generation : 0 .. MaxGeneration, late : 0 .. 1,
              prepared : BOOLEAN, started : BOOLEAN]
    BY <1>4, <2>2, <2>3
  <2>5. requests'[id] = [kept[id] EXCEPT !.generation = now, !.state = s]
        /\ \A j \in Ids : j # id => requests'[j] = kept[j]
    BY <1>1, <1>5, <2>1 DEF Records
  <2>6. requests' \in Records
    BY <1>1, <1>5, <2>1, <2>4 DEF Records
  <2> QED BY <2>2, <2>5, <2>6
<1>8. Calm
  <2>1. ASSUME NEW j \in Ids PROVE Drifts(j)
    BY <1>1, <1>3, <1>4, <1>5, <1>7 DEF Drifts
  <2> QED BY <1>1, <1>7, <2>1 DEF Calm, client, world
<1>9. Writes'
  BY <1>2, <1>8, CalmKeeps
<1>10. worker' \in Workers /\ worker'[id].at = place
       /\ worker'[id].found = worker[id].found
       /\ \A j \in Ids : j # id => worker'[j] = worker[j]
  BY <1>1, <1>2, <1>4 DEF OtherTypes, Workers, Alive
<1>11. TypeOK'
  <2>1. RequestTypes'
    BY <1>1, <1>7 DEF RequestTypes
  <2>2. workers' \in 0 .. MaxWorkers
    BY <1>1, <1>2, SupervisorAssumption DEF OtherTypes
  <2>3. OtherTypes'
    BY <1>1, <1>2, <1>4, <1>10, <2>2 DEF OtherTypes
  <2> QED BY <2>1, <2>3, TypesSplitPrimed
<1>12. Numbered'
  <2>1. \A j \in Ids : requests'[j].state # "none" <=> j <= Number
    <3>1. \A j \in Ids : requests[j].state # "none" <=> j < Number
      BY <1>2, NumberIsNext
    <3>2. \A j \in Ids : j # id => (requests'[j].state # "none" <=> requests[j].state # "none")
      BY <1>5, <1>7 DEF PreSubmit, Dropped
    <3>3. requests'[id].state # "none"
      BY <1>4, <1>7
    <3>4. id = Number
      BY DEF id
    <3>5. ASSUME NEW j \in Ids, j # id PROVE j < Number <=> j <= Number
      BY <1>1, <3>4, <3>5, SupervisorAssumption DEF Ids
    <3>6. id <= Number
      BY <1>1, <3>4, SupervisorAssumption DEF Ids
    <3> QED BY <3>1, <3>2, <3>3, <3>5, <3>6
  <2>2. Number \in 0 .. MaxRequests
    BY <1>1, SupervisorAssumption DEF id, Ids
  <2>3. \E n \in 0 .. MaxRequests : \A j \in Ids : requests'[j].state # "none" <=> j <= n
    <3>1. PICK m \in 0 .. MaxRequests : m = Number
      BY <2>2
    <3> QED BY <2>1, <3>1
  <2>4. ASSUME NEW j \in Ids
        PROVE  /\ requests'[j].state = "none" => worker'[j].at = "none"
               /\ requests'[j].late > 0 => worker'[j].at \in {"cleanup", "gone", "leaked"}
               /\ worker'[j].found = "unstarted" => worker'[j].at = "cleanup"
    <3>1. CASE j = id
        <4>1. requests'[id].state # "none"
        BY <1>4, <1>7
      <4>2. requests'[id].late = 0
        BY <1>1, <1>3, <1>5, <1>7
      <4>3. worker'[id].found # "unstarted"
        BY <1>1, <1>2, <1>3, <1>10 DEF Numbered
      <4> QED BY <3>1, <4>1, <4>2, <4>3
    <3>2. CASE j # id
      BY <1>2, <1>5, <1>7, <1>10, <3>2 DEF Numbered, PreSubmit, Dropped
    <3> QED BY <3>1, <3>2
  <2> QED BY <2>3, <2>4 DEF Numbered
<1>13. Counted'
  <2>1. CASE spawned
    <3>1. Running' = Running \cup {id} /\ id \notin Running
      BY <1>1, <1>3, <1>4, <1>10, <2>1 DEF Running
    <3>2. Cardinality(Running \cup {id}) = Cardinality(Running) + 1
      BY <3>1, RunningIsFinite, FS_AddElement
    <3> QED BY <1>1, <1>2, <2>1, <3>1, <3>2 DEF Counted
  <2>2. CASE ~spawned
    <3>1. Running' = Running
      BY <1>1, <1>3, <1>4, <1>10, <2>2 DEF Running
    <3> QED BY <1>1, <1>2, <2>2, <3>1 DEF Counted
  <2> QED BY <2>1, <2>2
<1>14. Closing'
  BY <1>1 DEF Closing, Closed
<1> QED BY <1>9, <1>11, <1>12, <1>13, <1>14 DEF IInv

-----------------------------------------------------------------------------
(* The other calls and the threads of the children.                        *)

\* One state moves, or none, and no submission is concerned.
LEMMA BecomesQuietly ==
  ASSUME IInv, NEW id \in Ids, NEW s \in States, Becomes(id, s),
         s = requests[id].state \/ (requests[id].state \in PreSubmit /\ s \in PreSubmit \cup Dropped),
         UNCHANGED <<blocked, closing, sender, client, world>>
  PROVE  /\ Calm /\ StaysOpen /\ RequestTypes'
         /\ \A j \in Ids : requests'[j].late = requests[j].late
<1>1. RequestTypes /\ Closing
  BY TypesSplit DEF IInv
<1>2. /\ RequestTypes' /\ requests'[id] = [requests[id] EXCEPT !.state = s]
      /\ requests'[id].state = s /\ \A j \in Ids : j # id => requests'[j] = requests[j]
  BY <1>1, BecomesTypes
<1>3. Calm
  BY <1>1, BecomesDrifts DEF Calm
<1>4. requests'[id].late = requests[id].late
  BY <1>1, <1>2 DEF RequestTypes, Records
<1>5. StaysOpen
  <2>1. s = "none" <=> requests[id].state = "none"
    BY DEF PreSubmit, Dropped
  <2>2. Closed => s \notin PreSubmit
    BY <1>1 DEF Closing
  <2> QED BY <1>1, <1>2, <2>1, <2>2 DEF StaysOpen, Closing
<1> QED BY <1>2, <1>3, <1>4, <1>5

LEMMA SameQuietly ==
  ASSUME IInv, UNCHANGED <<requests, active, blocked, closing, sender, client, world>>
  PROVE  /\ Calm /\ StaysOpen /\ RequestTypes'
         /\ \A j \in Ids : requests'[j].late = requests[j].late
<1>1. RequestTypes /\ Closing
  BY TypesSplit DEF IInv
<1>2. RequestTypes'
  BY <1>1 DEF RequestTypes
<1>3. Calm
  BY <1>1 DEF Calm, Drifts, RequestTypes
<1>4. StaysOpen
  BY <1>1 DEF StaysOpen, Closing
<1> QED BY <1>2, <1>3, <1>4

LEMMA QuietKeeps ==
  ASSUME IInv, Calm, StaysOpen, RequestTypes', OtherTypes',
         \A j \in Ids : requests'[j].late = requests[j].late,
         UNCHANGED <<workers, worker>>
  PROVE  IInv'
<1>1. TypeOK'
  BY TypesSplitPrimed
<1>2. Writes'
  BY CalmKeeps DEF IInv
<1>3. Books'
  BY ChildrenAlone DEF IInv, Books, Calm
<1> QED BY <1>1, <1>2, <1>3 DEF IInv, Books

LEMMA CallersKeep ==
  ASSUME IInv, NEW id \in Ids, Expire(id) \/ Cancel(id) \/ Restart \/ Deadline(id)
  PROVE  IInv'
<1>1. RequestTypes /\ OtherTypes
  BY TypesSplit DEF IInv
<1>2. UNCHANGED <<blocked, workers, closing, worker, sender, client, world>>
  BY DEF Expire, Cancel, Restart, Deadline, records
<1>3. /\ Calm /\ StaysOpen /\ RequestTypes'
      /\ \A j \in Ids : requests'[j].late = requests[j].late
  <2>1. CASE Expire(id)
    BY <1>1, <1>2, <2>1, CheckedDrifts, BecomesQuietly DEF Expire
  <2>2. CASE Cancel(id)
    <3>1. requests[id].state \in PreSubmit /\ Becomes(id, "cancelled")
          /\ "cancelled" \in States \cap Dropped
      BY <1>1, <2>2, CheckedDrifts DEF Cancel, States, Final, Dropped
    <3> QED BY <1>2, <3>1, BecomesQuietly
  <2>3. CASE Restart
    <3>1. CASE active = None
      BY <1>2, <2>3, <3>1, SameQuietly DEF Restart
    <3>2. CASE active \in Ids
      <4>1. PICK j \in Ids : j = active
        BY <3>2
      <4>2. PICK s : s = IF Checked(j) \in PreSubmit THEN "superseded" ELSE Checked(j)
        OBVIOUS
      <4>3. Becomes(j, s)
        BY <2>3, <4>1, <4>2, NoneIsNoId DEF Restart
      <4>4. s \in States /\ (s = requests[j].state \/ (requests[j].state \in PreSubmit /\ s \in Dropped))
        BY <1>1, <4>2, CheckedDrifts DEF States, Final, Dropped
      <4> QED BY <1>2, <4>3, <4>4, BecomesQuietly
    <3> QED BY <1>1, <3>1, <3>2 DEF RequestTypes
  <2>4. CASE Deadline(id)
    BY <1>2, <2>4, SameQuietly DEF Deadline, records
  <2> QED BY <2>1, <2>2, <2>3, <2>4
<1>4. OtherTypes'
  <2>1. generation' \in 1 .. MaxGeneration /\ due' \subseteq Ids
    BY <1>1, SupervisorAssumption DEF Expire, Cancel, Restart, Deadline, records, OtherTypes
  <2> QED BY <1>1, <1>2, <2>1 DEF OtherTypes, client, world
<1> QED BY <1>2, <1>3, <1>4, QuietKeeps

\* close cancels what was not submitted; its end looks at the threads.
LEMMA CloseKeeps == ASSUME IInv, Close PROVE IInv'
<1>1. RequestTypes /\ OtherTypes /\ Numbered /\ Counted /\ TypeOK /\ Writes
  BY TypesSplit DEF IInv
<1>2. /\ closing' = "joining"
      /\ UNCHANGED <<generation, blocked, workers, due, worker, sender, client, world>>
  BY DEF Close
<1>3. \A j \in Ids : requests'[j] = IF requests[j].state \in PreSubmit
                                    THEN [requests[j] EXCEPT !.state = "cancelled"]
                                    ELSE requests[j]
  BY DEF Close
<1>4. "cancelled" \in States /\ "cancelled" \in Dropped /\ "cancelled" \notin PreSubmit \cup {"none"}
  BY DEF States, Final, Dropped, PreSubmit
<1>5. requests' \in Records
  <2>1. \A j \in Ids : requests'[j] \in [state : States, generation : 0 .. MaxGeneration,
                                         late : 0 .. 1, prepared : BOOLEAN, started : BOOLEAN]
    BY <1>1, <1>3, <1>4 DEF RequestTypes, Records
  <2> QED BY <2>1 DEF Close, Records
<1>6. \A j \in Ids : /\ requests'[j].prepared = requests[j].prepared
                     /\ requests'[j].started = requests[j].started
                     /\ requests'[j].late = requests[j].late
                     /\ requests'[j].state = IF requests[j].state \in PreSubmit
                                             THEN "cancelled" ELSE requests[j].state
  BY <1>1, <1>3 DEF RequestTypes, Records
<1>7. Calm
  <2>1. \A j \in Ids : Drifts(j)
    BY <1>4, <1>6 DEF Drifts
  <2> QED BY <1>2, <1>5, <2>1 DEF Calm
<1>8. TypeOK'
  <2>1. RequestTypes'
    BY <1>1, <1>5 DEF RequestTypes, Close
  <2>2. OtherTypes'
    BY <1>1, <1>2 DEF OtherTypes, client, world
  <2> QED BY <2>1, <2>2, TypesSplitPrimed
<1>9. Numbered'
  <2>1. \A j \in Ids : requests'[j].state = "none" <=> requests[j].state = "none"
    BY <1>4, <1>6 DEF PreSubmit
  <2> QED BY <1>1, <1>2, <1>6, <2>1 DEF Numbered
<1>10. Counted'
  BY <1>1, <1>2 DEF Counted, Running
<1>11. Closing'
  BY <1>2, <1>4, <1>6 DEF Closing
<1> QED BY <1>1, <1>7, <1>8, <1>9, <1>10, <1>11, CalmKeeps DEF IInv

LEMMA CloseEndsKeeps == ASSUME IInv, CloseEnds PROVE IInv'
<1>1. RequestTypes /\ OtherTypes /\ Numbered /\ Counted /\ TypeOK /\ Writes /\ Closing
  BY TypesSplit DEF IInv
<1>2. /\ closing = "joining" /\ closing' \in {"returned", "raised"}
      /\ closing' = "returned" => Threads = {} /\ workers = 0
      /\ UNCHANGED <<requests, generation, active, blocked, workers, due, worker, sender, client, world>>
  BY DEF CloseEnds
<1>3. Calm
  BY <1>1, <1>2 DEF Calm, Drifts, RequestTypes
<1>4. TypeOK'
  <2>1. RequestTypes' /\ OtherTypes'
    BY <1>1, <1>2 DEF RequestTypes, OtherTypes, client, world
  <2> QED BY <2>1, TypesSplitPrimed
<1>5. Numbered' /\ Counted'
  BY <1>1, <1>2 DEF Numbered, Counted, Running
<1>6. Closing'
  BY <1>1, <1>2 DEF Closing, Closed, Threads
<1> QED BY <1>1, <1>3, <1>4, <1>5, <1>6, CalmKeeps DEF IInv

\* What a step of a child's thread leaves alone.
ChildStep ==
  /\ Calm /\ RequestTypes'
  /\ UNCHANGED <<generation, closing, due>>

LEMMA ChildStepKeeps ==
  ASSUME IInv, ChildStep, Books', worker' \in Workers, workers' \in 0 .. MaxWorkers
  PROVE  IInv'
<1>1. OtherTypes'
  BY TypesSplit DEF IInv, ChildStep, Calm, OtherTypes, client, world
<1>2. TypeOK'
  BY <1>1, TypesSplitPrimed DEF ChildStep
<1>3. Writes'
  BY CalmKeeps DEF IInv, ChildStep
<1> QED BY <1>2, <1>3 DEF IInv, Books

\* The findings of a thread and the places it goes to.
Findings == {"nothing", "unstarted", "line", "crashed", "worker_failed"}

LEMMA ChildStays ==
  ASSUME IInv, NEW id \in Ids,
         NEW at \in Alive, NEW next \in Alive \cup {"leaked"}, NEW found \in Findings,
         WorkerAt(id, at, next, found), next # "enter",
         found = "unstarted" => next = "cleanup",
         at \in {"judging", "cleanup"} => next \in {"cleanup", "leaked"},
         ChildStep, StaysOpen, workers' = workers,
         \A j \in Ids : requests'[j].late = requests[j].late \/ (j = id /\ at = "judging")
  PROVE  IInv'
<1> DEFINE w == [at |-> next, found |-> found]
<1>1. /\ worker[id].at = at /\ worker' = [worker EXCEPT ![id] = w]
      /\ w.at = next /\ w.found = found
      /\ w \in [at : {"leaked"} \cup Alive,
                found : {"nothing", "unstarted", "line", "crashed", "worker_failed"}]
  BY DEF WorkerAt, Findings
<1> HIDE DEF w
<1>2. TypeOK /\ Books
  BY DEF IInv, Books
<1>3. Books' /\ worker' \in Workers
  BY <1>1, <1>2, ChildMoves
<1>4. workers' \in 0 .. MaxWorkers
  BY <1>2 DEF TypeOK
<1> QED BY <1>3, <1>4, ChildStepKeeps

\* A thread that only looks at its child.
LEMMA LooksKeep ==
  ASSUME IInv, NEW id \in Ids, NEW found \in {"line", "crashed", "worker_failed"},
         ChildEnds(id, found) \/ Kill(id) \/ ChildRaises(id)
  PROVE  IInv'
<1>1. PICK next \in {"reaped", "judging"}, f \in Findings \ {"unstarted"} :
        WorkerAt(id, "child", next, f)
  <2>1. CASE ChildEnds(id, found)
    <3>1. PICK f \in Findings \ {"unstarted"} : f = IF found # "line" /\ id \in due THEN "nothing" ELSE found
      BY DEF Findings
    <3> QED BY <2>1, <3>1 DEF ChildEnds
  <2>2. CASE Kill(id)
    <3>1. PICK f \in Findings \ {"unstarted"} : f = IF id \in due THEN "nothing" ELSE "crashed"
      BY DEF Findings
    <3> QED BY <2>2, <3>1 DEF Kill
  <2>3. CASE ChildRaises(id)
    BY <2>3 DEF ChildRaises, Findings
  <2> QED BY <2>1, <2>2, <2>3
<1>2. UNCHANGED <<records, due, sender, client, world>>
  BY DEF ChildEnds, Kill, ChildRaises
<1>3. StaysOpen /\ ChildStep /\ workers' = workers
      /\ \A j \in Ids : requests'[j].late = requests[j].late
  BY <1>2, SameQuietly DEF ChildStep, records
<1>4. "child" \in Alive /\ next \in Alive /\ next # "enter"
  BY DEF Alive
<1> QED BY <1>1, <1>3, <1>4, ChildStays

LEMMA EnterKeeps == ASSUME IInv, NEW id \in Ids, Enter(id) PROVE IInv'
<1>1. RequestTypes
  BY TypesSplit DEF IInv
<1>2. PICK next \in {"cleanup", "child"}, found \in {"unstarted", "nothing"} :
        WorkerAt(id, "enter", next, found) /\ (found = "unstarted" => next = "cleanup")
  BY DEF Enter
<1>3. PICK s : /\ s = (IF Closed \/ id \in due THEN Checked(id) ELSE requests[id].state)
               /\ Becomes(id, s)
  BY DEF Enter
<1>4. s \in States /\ (s = requests[id].state \/ (requests[id].state \in PreSubmit /\ s \in Dropped))
  BY <1>1, <1>3, CheckedDrifts DEF RequestTypes, Records
<1>5. UNCHANGED <<generation, blocked, workers, closing, due, sender, client, world>>
  BY DEF Enter
<1>6. StaysOpen /\ ChildStep /\ \A j \in Ids : requests'[j].late = requests[j].late
  BY <1>3, <1>4, <1>5, BecomesQuietly DEF ChildStep
<1>7. "enter" \in Alive /\ next \in Alive /\ next # "enter" /\ found \in Findings
  BY DEF Alive, Findings
<1> QED BY <1>2, <1>5, <1>6, <1>7, ChildStays

LEMMA ReapedKeeps == ASSUME IInv, NEW id \in Ids, Reaped(id) PROVE IInv'
<1>1. RequestTypes
  BY TypesSplit DEF IInv
<1>2. WorkerAt(id, "reaped", "judging", worker[id].found) /\ worker[id].found \in Findings
      /\ worker[id].found # "unstarted"
  BY DEF Reaped, WorkerAt, IInv, Numbered, TypeOK, Findings
<1>3. Checked(id) \in States
      /\ (Checked(id) = requests[id].state
            \/ (requests[id].state \in PreSubmit /\ Checked(id) \in Dropped))
  BY <1>1, CheckedDrifts
<1>4. UNCHANGED <<generation, blocked, workers, closing, due, sender, client, world>>
      /\ Becomes(id, Checked(id))
  BY DEF Reaped
<1>5. StaysOpen /\ ChildStep /\ \A j \in Ids : requests'[j].late = requests[j].late
  BY <1>3, <1>4, BecomesQuietly DEF ChildStep
<1>6. "reaped" \in Alive /\ "judging" \in Alive
  BY DEF Alive
<1> QED BY <1>2, <1>4, <1>5, <1>6, ChildStays

LEMMA BlameKeeps == ASSUME IInv, NEW id \in Ids, Blame(id) PROVE IInv'
<1>1. RequestTypes
  BY TypesSplit DEF IInv
<1>2. WorkerAt(id, "judging", "cleanup", worker[id].found) /\ worker[id].found \in Findings
      /\ worker[id].found # "unstarted"
  BY DEF Blame, WorkerAt, IInv, Numbered, TypeOK, Findings
<1>3. UNCHANGED <<generation, blocked, workers, closing, due, sender, client, world>>
  BY DEF Blame
<1>4. StaysOpen /\ ChildStep /\ \A j \in Ids : requests'[j].late = requests[j].late
  <2>1. CASE UNCHANGED <<requests, active>>
    BY <1>3, <2>1, SameQuietly DEF ChildStep
  <2>2. CASE ~UNCHANGED <<requests, active>>
    <3>1. requests[id].state = "running" /\ Becomes(id, worker[id].found)
          /\ worker[id].found \in {"crashed", "worker_failed"}
      BY <1>2, <2>2 DEF Blame, Findings
    <3>2. requests[id].state \in PreSubmit /\ worker[id].found \in Dropped
          /\ worker[id].found \in States
      BY <3>1 DEF PreSubmit, Dropped, States, Final
    <3> QED BY <1>3, <3>1, <3>2, BecomesQuietly DEF ChildStep
  <2> QED BY <2>1, <2>2
<1>5. "cleanup" \in Alive /\ "judging" \in Alive
  BY DEF Alive
<1> QED BY <1>2, <1>3, <1>4, <1>5, ChildStays

\* A proposal is ready, or it is late and counted so.
LEMMA AcceptKeeps == ASSUME IInv, NEW id \in Ids, Accept(id) PROVE IInv'
<1>1. RequestTypes /\ Closing /\ Numbered
  BY TypesSplit DEF IInv
<1>2. /\ WorkerAt(id, "judging", "cleanup", "line") /\ worker[id].at = "judging"
      /\ UNCHANGED <<generation, blocked, workers, closing, due, sender, client, world>>
  BY DEF Accept, WorkerAt
<1>3. "cleanup" \in Alive /\ "judging" \in Alive /\ "line" \in Findings
  BY DEF Alive, Findings
<1>4. CASE Wanted(id)
  <2>1. Becomes(id, "proposal_ready") /\ requests[id].state \in PreSubmit
    BY <1>1, <1>4, CheckedDrifts DEF Accept, Wanted, PreSubmit
  <2>2. "proposal_ready" \in States \cap PreSubmit
    BY DEF States, PreSubmit
  <2>3. StaysOpen /\ ChildStep /\ \A j \in Ids : requests'[j].late = requests[j].late
    BY <1>2, <2>1, <2>2, BecomesQuietly DEF ChildStep
  <2> QED BY <1>2, <1>3, <2>3, ChildStays
<1>5. CASE ~Wanted(id)
  <2> DEFINE s == Checked(id)
  <2> DEFINE l == requests[id].late + 1
  <2>1. /\ requests' = [requests EXCEPT ![id].state = s, ![id].late = l]
        /\ active' = (IF s \in Final /\ active = id THEN None ELSE active)
    BY <1>5 DEF Accept
  <2>2. s \in States /\ (s = requests[id].state \/ (requests[id].state \in PreSubmit /\ s \in Dropped))
    BY <1>1, CheckedDrifts
  <2>3. requests[id].late = 0
    BY <1>1, <1>2 DEF Numbered, RequestTypes, Records
  <2>4. l \in 0 .. 1
    BY <2>3
  <2> HIDE DEF s, l
  <2>5. requests[id] \in [state : States, generation : 0 .. MaxGeneration, late : 0 .. 1,
                          prepared : BOOLEAN, started : BOOLEAN]
    BY <1>1 DEF RequestTypes, Records
  <2>6. requests' = [requests EXCEPT ![id] = [requests[id] EXCEPT !.state = s, !.late = l]]
    BY <1>1, <2>1 DEF RequestTypes, Records
  <2>7. [requests[id] EXCEPT !.state = s, !.late = l]
          \in [state : States, generation : 0 .. MaxGeneration, late : 0 .. 1,
              prepared : BOOLEAN, started : BOOLEAN]
    BY <2>2, <2>4, <2>5
  <2>8. /\ requests' \in Records
        /\ requests'[id] = [requests[id] EXCEPT !.state = s, !.late = l]
        /\ \A j \in Ids : j # id => requests'[j] = requests[j]
    BY <1>1, <2>6, <2>7 DEF RequestTypes, Records
  <2>9. /\ requests'[id].state = s
        /\ requests'[id].prepared = requests[id].prepared
        /\ requests'[id].started = requests[id].started
    BY <2>5, <2>8
  <2>10. \A j \in Ids : Drifts(j)
    BY <2>2, <2>8, <2>9 DEF Drifts
  <2>11. ChildStep
    BY <1>1, <1>2, <2>1, <2>8, <2>10 DEF ChildStep, Calm, RequestTypes
  <2>12. StaysOpen
    <3>1. (s = "none" <=> requests[id].state = "none") /\ (Closed => s \notin PreSubmit)
      BY <1>1, <2>2 DEF Closing, PreSubmit, Dropped
    <3> QED BY <1>1, <1>2, <2>8, <2>9, <3>1 DEF StaysOpen, Closing
  <2> QED BY <1>2, <1>3, <2>8, <2>11, <2>12, ChildStays
<1> QED BY <1>4, <1>5

LEMMA CleanUpKeeps ==
  ASSUME IInv, NEW id \in Ids, NEW cleaned \in BOOLEAN, CleanUp(id, cleaned) PROVE IInv'
<1>1. RequestTypes /\ TypeOK /\ Books
  BY TypesSplit DEF IInv, Books
<1>2. /\ worker[id].at = "cleanup" /\ "cleanup" \in Alive /\ "nothing" \in Findings
      /\ UNCHANGED <<generation, blocked, closing, due, sender, client, world>>
  BY DEF CleanUp, WorkerAt, Alive, Findings
<1>3. StaysOpen /\ ChildStep /\ \A j \in Ids : requests'[j].late = requests[j].late
  <2>1. CASE UNCHANGED <<requests, active>>
    BY <1>2, <2>1, SameQuietly DEF ChildStep
  <2>2. CASE ~UNCHANGED <<requests, active>>
    <3>1. requests[id].state \in PreSubmit /\ Becomes(id, "worker_failed")
      BY <2>2 DEF CleanUp
    <3>2. "worker_failed" \in States \cap Dropped
      BY DEF Dropped, States, Final
    <3> QED BY <1>2, <3>1, <3>2, BecomesQuietly DEF ChildStep
  <2> QED BY <2>1, <2>2
<1>4. CASE cleaned
  <2>1. worker' = [worker EXCEPT ![id] = [at |-> "gone", found |-> "nothing"]]
        /\ workers' = workers - 1
    BY <1>4 DEF CleanUp, WorkerAt
  <2>2. Books' /\ worker' \in Workers /\ workers' \in 0 .. MaxWorkers
    BY <1>1, <1>2, <1>3, <2>1, ChildLeaves
  <2> QED BY <1>3, <2>2, ChildStepKeeps
<1>5. CASE ~cleaned
  <2>1. WorkerAt(id, "cleanup", "leaked", "nothing") /\ workers' = workers
    BY <1>5 DEF CleanUp
  <2> QED BY <1>2, <1>3, <2>1, ChildStays
<1> QED BY <1>4, <1>5

LEMMA WorkerKeeps == ASSUME IInv, NEW id \in Ids, WorkerStep(id) PROVE IInv'
BY EnterKeeps, LooksKeep, ReapedKeeps, AcceptKeeps, BlameKeeps, CleanUpKeeps DEF WorkerStep

-----------------------------------------------------------------------------
(* The submissions again: types and books.                                 *)

\* A submission's step leaves the children, and the kind of its request, alone.
SubmissionStep(id) ==
  /\ RequestTypes'
  /\ \A j \in Ids : j # id => requests'[j] = requests[j]
  /\ requests'[id].late = requests[id].late
  /\ requests'[id].state \notin {"none"} \cup PreSubmit
  /\ requests[id].state # "none"
  /\ \E next \in {"none"} \cup Submitting \cup Reconciling : sender' = [sender EXCEPT ![id] = next]
  /\ blocked' \in {None, id, blocked} /\ pending' \in {None, id, pending}
  /\ uncertain' \in BOOLEAN /\ transit' \subseteq transit \cup {id} /\ host' = host
  /\ UNCHANGED <<generation, workers, closing, due, worker>>

LEMMA SubmissionKeeps ==
  ASSUME IInv, NEW id \in Ids, SubmissionStep(id), Writes',
         sender[id] # "none" \/ ~Closed
  PROVE  IInv'
<1>1. TypeOK /\ RequestTypes /\ OtherTypes /\ Books
  BY TypesSplit DEF IInv, Books
<1>2. TypeOK'
  <2>1. sender' \in [Ids -> {"none"} \cup Submitting \cup Reconciling]
    BY <1>1 DEF SubmissionStep, OtherTypes
  <2>2. OtherTypes'
    BY <1>1, <2>1 DEF SubmissionStep, OtherTypes
  <2> QED BY <2>2, TypesSplitPrimed DEF SubmissionStep
<1>3. closing # "returned"
  BY <1>1 DEF Books, Closing, Threads, Closed
<1>4. StaysOpen
  BY <1>1 DEF SubmissionStep, StaysOpen, Books, Closing
<1>5. Books'
  BY <1>1, <1>3, <1>4, ChildrenAlone DEF SubmissionStep
<1> QED BY <1>2, <1>5 DEF IInv, Books

\* A submission's step that gives its request a state and nothing else.
LEMMA BecomesSubmits ==
  ASSUME IInv, NEW id \in Ids, NEW s \in States, Becomes(id, s)
  PROVE  /\ RequestTypes' /\ \A j \in Ids : j # id => requests'[j] = requests[j]
         /\ requests'[id].late = requests[id].late /\ requests'[id].state = s
<1>1. RequestTypes
  BY TypesSplit DEF IInv
<1>2. /\ RequestTypes' /\ requests'[id] = [requests[id] EXCEPT !.state = s]
      /\ requests'[id].state = s /\ \A j \in Ids : j # id => requests'[j] = requests[j]
  BY <1>1, BecomesTypes
<1> QED BY <1>1, <1>2 DEF RequestTypes, Records

LEMMA SenderStepSubmits ==
  ASSUME IInv, NEW id \in Ids, SenderStep(id) PROVE SubmissionStep(id) /\ sender[id] # "none"
<1>1. TypeOK /\ Writes /\ RequestTypes
  BY TypesSplit DEF IInv
<1>2. sender[id] # "none"
  BY DEF SenderStep, TooLate, Prepare, PrepareRaises, Prepared, Post, PostRaises, Answer,
         Settle, Resync, ResyncRaises, Reconciled, SenderAt
<1>3. requests[id].state \in {"submitting", "reconciling"}
  BY <1>1, <1>2, Alone
<1>4. "outcome_unknown" \in States /\ "timed_out" \in States
      /\ "outcome_unknown" \notin {"none"} \cup PreSubmit
      /\ "timed_out" \notin {"none"} \cup PreSubmit
      /\ requests[id].state \notin {"none"} \cup PreSubmit
  BY <1>3 DEF States, Busy, Final, PreSubmit
<1>5. {"none", "ready", "post", "waiting", "answered", "resynced"}
        \subseteq {"none"} \cup Submitting \cup Reconciling
  BY DEF Submitting, Reconciling
<1>6. uncertain \in BOOLEAN
  BY <1>1 DEF TypeOK
<1>7. CASE PrepareRaises(id) \/ PostRaises(id) \/ ResyncRaises(id)
  <2>1. Unknown(id)
    BY <1>7 DEF PrepareRaises, PostRaises, ResyncRaises
  <2> QED BY <2>1, <1>2, <1>4, <1>5, <1>6, BecomesSubmits DEF Unknown, world, SubmissionStep
<1>8. CASE TooLate(id)
  BY <1>8, <1>4, <1>5, <1>6, BecomesSubmits DEF TooLate, SenderAt, client, world, SubmissionStep
<1>9. CASE Prepare(id)
  <2>a. requests' = [requests EXCEPT ![id].prepared = TRUE] /\ active' = active
    BY <1>9 DEF Prepare
  <2>b. requests \in Records /\ active \in Ids \cup {None}
    BY <1>1 DEF RequestTypes
  <2>1. /\ RequestTypes' /\ \A j \in Ids : j # id => requests'[j] = requests[j]
        /\ requests'[id].late = requests[id].late /\ requests'[id].state = requests[id].state
    BY <2>a, <2>b DEF RequestTypes, Records
  <2> QED BY <2>1, <1>9, <1>4, <1>5, <1>6 DEF Prepare, SenderAt, client, world, SubmissionStep
<1>10. CASE Prepared(id) /\ id \in due
  BY <1>10, <1>4, <1>5, <1>6, BecomesSubmits DEF Prepared, SenderAt, client, world, SubmissionStep
<1>11. CASE Prepared(id) /\ id \notin due
  <2>a. requests' = [requests EXCEPT ![id].started = TRUE] /\ active' = active
    BY <1>11 DEF Prepared
  <2>b. requests \in Records /\ active \in Ids \cup {None}
    BY <1>1 DEF RequestTypes
  <2>1. /\ RequestTypes' /\ \A j \in Ids : j # id => requests'[j] = requests[j]
        /\ requests'[id].late = requests[id].late /\ requests'[id].state = requests[id].state
    BY <2>a, <2>b DEF RequestTypes, Records
  <2> QED BY <2>1, <1>11, <1>4, <1>5, <1>6 DEF Prepared, SenderAt, client, world, SubmissionStep
<1>12. CASE Post(id) \/ Answer(id) \/ Resync(id)
  <2>1. requests' = requests /\ RequestTypes'
    BY <1>1, <1>12 DEF Post, Answer, Resync, records, RequestTypes
  <2> QED BY <2>1, <1>12, <1>4, <1>5, <1>6
          DEF Post, Answer, Resync, SenderAt, records, world, SubmissionStep
<1>13. CASE Settle(id) \/ Reconciled(id)
  <2>1. PICK s : /\ s \in {"committed", "rejected", "reconciled"}
                 /\ requests' = [requests EXCEPT ![id].state = s, ![id].prepared = FALSE]
    <3>1. CASE Settle(id)
      <4>1. host[id] \in {"committed", "rejected"}
        BY <1>1, <3>1 DEF Settle, SenderAt, Writes, NotSent, TypeOK
      <4> QED BY <3>1, <4>1 DEF Settle
    <3>2. CASE Reconciled(id)
      BY <3>2 DEF Reconciled
    <3> QED BY <1>13, <3>1, <3>2
  <2>2. s \in States /\ s \notin {"none"} \cup PreSubmit
    BY <2>1 DEF States, Final, PreSubmit
  <2>3. active' \in Ids \cup {None}
    BY <1>1, <1>13 DEF Settle, Reconciled, RequestTypes
  <2>4. /\ requests' \in Records /\ \A j \in Ids : j # id => requests'[j] = requests[j]
        /\ requests'[id].late = requests[id].late /\ requests'[id].state = s
    BY <1>1, <2>1, <2>2 DEF RequestTypes, Records
  <2>5. RequestTypes'
    BY <2>3, <2>4 DEF RequestTypes
  <2> QED BY <2>2, <2>4, <2>5, <1>13, <1>4, <1>5, <1>6
          DEF Settle, Reconciled, SenderAt, client, world, SubmissionStep
<1> QED BY <1>2, <1>7, <1>8, <1>9, <1>10, <1>11, <1>12, <1>13 DEF SenderStep

LEMMA CallsSubmit ==
  ASSUME IInv, NEW id \in Ids, NEW spawned \in BOOLEAN,
         Submit(id, spawned) \/ Retry(id) \/ Reconcile(id)
  PROVE  SubmissionStep(id) /\ ~Closed
<1>1. TypeOK /\ Writes /\ RequestTypes
  BY TypesSplit DEF IInv
<1>2. uncertain \in BOOLEAN
  BY <1>1 DEF TypeOK
<1>3. PICK s : /\ s \in {"submitting", "worker_failed", "reconciling"} /\ Becomes(id, s)
               /\ requests[id].state # "none"
  <2>1. CASE Submit(id, spawned)
    <3>1. requests[id].state # "none"
      BY <1>1, <2>1, CheckedDrifts DEF Submit, PreSubmit, Dropped
    <3> QED BY <2>1, <3>1 DEF Submit
  <2>2. CASE Retry(id) \/ Reconcile(id)
    BY <2>2 DEF Retry, Reconcile
  <2> QED BY <2>1, <2>2
<1>4. s \in States /\ s \notin {"none"} \cup PreSubmit
  BY <1>3 DEF States, Busy, Final, PreSubmit
<1>5. /\ RequestTypes' /\ \A j \in Ids : j # id => requests'[j] = requests[j]
      /\ requests'[id].late = requests[id].late /\ requests'[id].state = s
  BY <1>3, <1>4, BecomesSubmits
<1>6. \E next \in {"none"} \cup Submitting \cup Reconciling : sender' = [sender EXCEPT ![id] = next]
  <2>1. {"none", "begin", "post", "resync"} \subseteq {"none"} \cup Submitting \cup Reconciling
    BY DEF Submitting, Reconciling
  <2>2. \E next \in {"none", "begin", "post", "resync"} : sender' = [sender EXCEPT ![id] = next]
    BY DEF Submit, Retry, Reconcile
  <2> QED BY <2>1, <2>2
<1>7. /\ ~Closed /\ blocked' \in {None, id, blocked}
      /\ UNCHANGED <<generation, workers, closing, due, worker, client, world>>
  BY DEF Submit, Retry, Reconcile
<1> QED BY <1>2, <1>3, <1>4, <1>5, <1>6, <1>7 DEF SubmissionStep, client, world

LEMMA SubmissionsKeep ==
  ASSUME IInv, NEW id \in Ids, NEW spawned \in BOOLEAN,
         SenderStep(id) \/ Submit(id, spawned) \/ Retry(id) \/ Reconcile(id)
  PROVE  IInv'
<1>1. Writes'
  BY SenderKeeps, SubmitKeeps, RetryKeeps DEF IInv
<1> QED BY <1>1, SenderStepSubmits, CallsSubmit, SubmissionKeeps

LEMMA HostKeeps ==
  ASSUME IInv, NEW id \in Ids, NEW outcome \in {"committed", "rejected", "none"},
         Arrive(id, outcome)
  PROVE  IInv'
<1>1. TypeOK /\ Books /\ Writes /\ RequestTypes /\ OtherTypes
  BY TypesSplit DEF IInv, Books
<1>2. UNCHANGED <<records, due, worker, sender, client>> /\ transit' = transit \ {id}
      /\ host' = [host EXCEPT ![id] = IF @ = "none" THEN outcome ELSE @]
  BY DEF Arrive
<1>3. TypeOK'
  <2>1. host' \in [Ids -> {"none", "committed", "rejected"}]
    BY <1>1, <1>2 DEF OtherTypes
  <2>2. RequestTypes' /\ OtherTypes'
    BY <1>1, <1>2, <2>1 DEF RequestTypes, OtherTypes, records, client
  <2> QED BY <2>2, TypesSplitPrimed
<1>4. Writes'
  BY <1>1, ArriveKeeps
<1>5. StaysOpen
  BY <1>1, <1>2 DEF StaysOpen, records, Books, Closing
<1>6. Books'
  BY <1>1, <1>2, <1>5, ChildrenAlone DEF records
<1> QED BY <1>3, <1>4, <1>6 DEF IInv, Books

-----------------------------------------------------------------------------
(* The theorems.                                                           *)

LEMMA InitEstablishes == ASSUME Init PROVE IInv
<1>1. \A id \in Ids : /\ requests[id] = NoRequest /\ worker[id] = NoWorker
                      /\ sender[id] = "none" /\ host[id] = "none"
  BY DEF Init
<1>2. RequestTypes
  <2>1. NoRequest \in [state : States, generation : 0 .. MaxGeneration, late : 0 .. 1,
                       prepared : BOOLEAN, started : BOOLEAN]
    BY SupervisorAssumption DEF NoRequest, States
  <2> QED BY <2>1 DEF Init, RequestTypes, Records
<1>3. OtherTypes
  <2>1. NoWorker \in [at : {"none", "gone", "leaked"} \cup Alive,
                      found : {"nothing", "unstarted", "line", "crashed", "worker_failed"}]
    BY DEF NoWorker
  <2>2. worker \in Workers
    BY <2>1 DEF Init, Workers
  <2>3. sender \in [Ids -> {"none"} \cup Submitting \cup Reconciling]
        /\ host \in [Ids -> {"none", "committed", "rejected"}]
    BY DEF Init
  <2>4. generation \in 1 .. MaxGeneration /\ workers \in 0 .. MaxWorkers
    BY SupervisorAssumption DEF Init
  <2> QED BY <2>2, <2>3, <2>4 DEF Init, OtherTypes
<1>4. Writes
  BY <1>1, NoneIsNoId DEF Init, Writes, SendersMatch, ClientMatches, NotSent, NoRequest,
     Submitting, Reconciling, Busy, PreSubmit
<1>5. Numbered
  <2>1. \A id \in Ids : requests[id].state # "none" <=> id <= 0
    BY <1>1, SupervisorAssumption DEF NoRequest, Ids
  <2>2. 0 \in 0 .. MaxRequests
    BY SupervisorAssumption
  <2> QED BY <1>1, <2>1, <2>2 DEF Numbered, NoRequest, NoWorker
<1>6. Counted
  <2>1. Running = {}
    BY <1>1 DEF Running, NoWorker
  <2> QED BY <2>1, FS_EmptySet DEF Init, Counted
<1>7. Closing
  BY DEF Init, Closing, Closed
<1> QED BY <1>2, <1>3, <1>4, <1>5, <1>6, <1>7, TypesSplit DEF IInv

LEMMA StepKeeps == ASSUME IInv, [Next]_vars PROVE IInv'
<1>1. CASE UNCHANGED vars
  <2>1. TypeOK' /\ Numbered' /\ Counted' /\ Closing'
    BY <1>1 DEF IInv, vars, records, client, world, TypeOK, Numbered, Counted, Running, Closing,
       Closed, Threads
  <2>2. Writes'
    BY <1>1 DEF IInv, vars, records, client, world, Writes, SendersMatch, ClientMatches, NotSent
  <2> QED BY <2>1, <2>2 DEF IInv
<1>2. CASE \E supersede, spawned \in BOOLEAN : Start(supersede, spawned)
  BY <1>2, StartKeeps
<1>3. CASE Restart
  <2>1. 1 \in Ids
    BY SupervisorAssumption DEF Ids
  <2> QED BY <1>3, <2>1, CallersKeep
<1>4. CASE Close \/ CloseEnds
  BY <1>4, CloseKeeps, CloseEndsKeeps
<1>5. ASSUME NEW id \in Ids,
             \/ Expire(id) \/ Cancel(id) \/ Retry(id) \/ Reconcile(id) \/ Deadline(id)
             \/ \E spawned \in BOOLEAN : Submit(id, spawned)
             \/ \E found \in {"line", "crashed", "worker_failed"} : ChildEnds(id, found)
             \/ ChildRaises(id) \/ WorkerStep(id) \/ SenderStep(id)
             \/ \E outcome \in {"committed", "rejected", "none"} : Arrive(id, outcome)
      PROVE  IInv'
  <2>1. CASE Expire(id) \/ Cancel(id) \/ Deadline(id)
    BY <2>1, CallersKeep
  <2>2. CASE Retry(id) \/ Reconcile(id) \/ SenderStep(id)
    BY <2>2, SubmissionsKeep
  <2>3. CASE \E spawned \in BOOLEAN : Submit(id, spawned)
    BY <2>3, SubmissionsKeep
  <2>4. CASE ChildRaises(id)
    <3>1. "line" \in {"line", "crashed", "worker_failed"}
      OBVIOUS
    <3> QED BY <2>4, <3>1, LooksKeep
  <2>5. CASE \E found \in {"line", "crashed", "worker_failed"} : ChildEnds(id, found)
    BY <2>5, LooksKeep
  <2>6. CASE WorkerStep(id)
    BY <2>6, WorkerKeeps
  <2>7. CASE \E outcome \in {"committed", "rejected", "none"} : Arrive(id, outcome)
    BY <2>7, HostKeeps
  <2> QED BY <1>5, <2>1, <2>2, <2>3, <2>4, <2>5, <2>6, <2>7
<1>6. CASE Done
  BY <1>1, <1>6 DEF Done
<1> QED BY <1>1, <1>2, <1>3, <1>4, <1>5, <1>6 DEF Next

\* Whatever the supervisor and its callers do, the invariant holds.
THEOREM Invariant == Spec => []IInv
<1>1. Init => IInv
  BY InitEstablishes
<1>2. IInv /\ [Next]_vars => IInv'
  BY StepKeeps
<1> QED BY <1>1, <1>2, PTL DEF Spec

\* The supervisor's records, threads and client are of their types, and no more
\* children hold a place than there are (lifecycle.py).
THEOREM TypesHold == Spec => []TypeOK
BY Invariant, PTL DEF IInv

\* One write at a time: a request that has been submitted and not settled is the one that
\* blocks the others, and the client's pending transaction is its own.
THEOREM WritesAreSettled == Spec => []SettledFirst
<1>1. IInv => SettledFirst
  <2> SUFFICES ASSUME IInv PROVE SettledFirst
    OBVIOUS
  <2>1. SendersMatch /\ ClientMatches
    BY DEF IInv, Writes
  <2>2. ASSUME NEW id \in Ids, requests[id].state = "outcome_unknown", requests[id].started
        PROVE  pending = id /\ requests[id].prepared
    <3>1. sender[id] \notin Submitting \cup Reconciling
      BY <2>1, <2>2 DEF SendersMatch
    <3>2. pending = id
      BY <2>1, <2>2, <3>1 DEF ClientMatches, Submitting, Reconciling, Busy
    <3> QED BY <2>1, <3>2, NoneIsNoId DEF ClientMatches
  <2> QED BY <2>1, <2>2 DEF SendersMatch, ClientMatches, SettledFirst
<1> QED BY <1>1, Invariant, PTL

\* Nothing reaches the World but proposals that are being settled, were given up by a
\* reconciliation, or ended as the host says.
THEOREM OnlyWantedReachTheWorld == Spec => []OnlyWantedIsWritten
<1>1. IInv => OnlyWantedIsWritten
  BY DEF IInv, Writes, NotSent, OnlyWantedIsWritten
<1> QED BY <1>1, Invariant, PTL

\* After close has returned nothing runs and nothing can be submitted any more.
THEOREM CloseLeavesNothing == Spec => []ClosedIsQuiet
<1>1. IInv => ClosedIsQuiet
  <2> SUFFICES ASSUME IInv, closing = "returned"
               PROVE  /\ Threads = {} /\ workers = 0
                      /\ \A id \in Ids : /\ worker[id].at \in {"none", "gone"}
                                         /\ requests[id].state
                                              \notin PreSubmit \cup {"submitting", "reconciling"}
    BY DEF ClosedIsQuiet
  <2>1. Threads = {} /\ workers = 0 /\ \A id \in Ids : requests[id].state \notin PreSubmit
    BY DEF IInv, Closing, Closed
  <2>2. Running = {}
    BY <2>1, RunningIsFinite, FS_EmptySet DEF IInv, Counted
  <2>3. \A id \in Ids : worker[id].at \in {"none", "gone"}
    BY <2>2 DEF Running
  <2>4. \A id \in Ids : sender[id] = "none"
    BY <2>1 DEF Threads
  <2>5. \A id \in Ids : requests[id].state \notin {"submitting", "reconciling"}
    BY <2>4 DEF IInv, Writes, SendersMatch, Submitting, Reconciling
  <2> QED BY <2>1, <2>3, <2>5
<1> QED BY <1>1, Invariant, PTL

=============================================================================
