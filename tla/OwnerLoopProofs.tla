--------------------------- MODULE OwnerLoopProofs ---------------------------
(***************************************************************************)
(* Safety of the owner loop for any number of workers, principals, queue   *)
(* length, lease limit and clock.  The inductive invariant says who holds  *)
(* a job: the queue (its worker waits and the job is pending, once), the   *)
(* owner (its worker waits and the job is running) or nobody; and that a   *)
(* commit not yet published belongs to a job the owner still holds or has  *)
(* failed.  That reads overtake needs only its types.                      *)
(***************************************************************************)
EXTENDS OwnerLoop, SequenceTheorems, SumTheorems, TLAPS

Types ==
  /\ completed \in Workers \cup {None}
  /\ job \in [Workers -> Jobs]
  /\ worker \in [Workers -> {"free", "accepted", "admitted", "waiting",
                             "served", "refused", "threw"}]
  /\ pending \in Seq(Workers)
  /\ world \in 0 .. MaxRevision
  /\ published.revision \in 0 .. MaxRevision

\* A queued job is pending, waited for, unexecuted and queued once.
Queued ==
  \A i \in 1 .. Len(pending) :
    /\ worker[pending[i]] = "waiting"
    /\ job[pending[i]].state = "pending"
    /\ \A k \in 1 .. Len(pending) : pending[k] = pending[i] => k = i

\* The owner holds a job exactly while it runs or owes its waiter an answer.
Held ==
  /\ completed # None => worker[completed] = "waiting" /\ job[completed].state = "running"
  /\ at \in {"poll", "idle", "drain", "stopped"} => completed = None
  /\ at \in {"tick_task", "idle_task"} => completed # None
  /\ at = "idle_task" => ~job[completed].authoring

\* A commit that is not published is the owner's to publish or to fail.
Owed ==
  /\ published.revision <= world
  /\ \A w \in Workers : job[w].committed <= world
  /\ \A w \in Workers :
       \/ job[w].committed <= published.revision
       \/ completed = w /\ at \in {"publish", "failing", "notify"}
       \/ job[w].failure /\ job[w].state = "completed"

\* What a worker that has left dispatch was told.
Told ==
  \A w \in Workers :
    /\ worker[w] = "served" => job[w].state = "completed" /\ ~job[w].failure
    /\ worker[w] = "refused" => job[w].state \in {"none", "canceled"}
    /\ worker[w] \in {"free", "accepted", "admitted"} => job[w] = NoJob
    /\ job[w].state \in {"none", "pending", "canceled"} => job[w].committed = 0

IInv == Types /\ Queued /\ Held /\ Owed /\ Told

-----------------------------------------------------------------------------
(* The two ways jobs leave the queue                                       *)

(***************************************************************************)
(* Dropping the front n: what is left, by index.                           *)
(***************************************************************************)
LEMMA Suffix ==
  ASSUME NEW q \in Seq(Workers), NEW n \in 0 .. Len(q)
  PROVE  LET live == SubSeq(q, n + 1, Len(q))
         IN /\ live \in Seq(Workers) /\ Len(live) = Len(q) - n
            /\ \A k \in 1 .. Len(live) : live[k] = q[n + k] /\ n + k \in 1 .. Len(q)
<1>1. Len(q) \in Nat
  BY LenProperties
<1>2. CASE n = Len(q)
  <2>1. SubSeq(q, n + 1, Len(q)) = <<>>
    BY <1>1, <1>2, SubSeqEmpty
  <2> QED BY <1>1, <1>2, <2>1
<1>3. CASE n < Len(q)
  <2>1. n + 1 \in 1 .. Len(q) + 1 /\ Len(q) \in n + 1 - 1 .. Len(q)
    BY <1>1, <1>3
  <2> DEFINE live == SubSeq(q, n + 1, Len(q))
  <2>2. /\ live \in Seq(Workers)
        /\ Len(live) = Len(q) - (n + 1) + 1
        /\ \A k \in 1 .. Len(q) - (n + 1) + 1 : live[k] = q[(n + 1) + k - 1]
    BY <1>1, <1>3, <2>1, SubSeqProperties
  <2> QED BY <1>1, <1>3, <2>2
<1> QED BY <1>1, <1>2, <1>3

(***************************************************************************)
(* Erasing the i-th: what is left, by index.                               *)
(***************************************************************************)
LEMMA CutProperties ==
  ASSUME NEW q \in Seq(Workers), NEW i \in 1 .. Len(q)
  PROVE  /\ Cut(q, i) \in Seq(Workers) /\ Len(Cut(q, i)) = Len(q) - 1
         /\ \A k \in 1 .. Len(q) - 1 : Cut(q, i)[k] = IF k < i THEN q[k] ELSE q[k + 1]
<1> DEFINE a == SubSeq(q, 1, i - 1)
           b == SubSeq(q, i + 1, Len(q))
<1>1. Len(q) \in Nat /\ i \in 0 .. Len(q)
  BY LenProperties
<1>2. /\ b \in Seq(Workers) /\ Len(b) = Len(q) - i
      /\ \A k \in 1 .. Len(b) : b[k] = q[i + k]
  BY <1>1, Suffix
<1>3. /\ a \in Seq(Workers) /\ Len(a) = i - 1
      /\ \A k \in 1 .. i - 1 : a[k] = q[k]
  BY <1>1
<1>4. Cut(q, i) = a \o b
  BY DEF Cut
<1> HIDE DEF a, b
<1>5. /\ a \o b \in Seq(Workers) /\ Len(a \o b) = Len(a) + Len(b)
      /\ \A k \in 1 .. Len(a) + Len(b) :
           (a \o b)[k] = IF k <= Len(a) THEN a[k] ELSE b[k - Len(a)]
  BY <1>2, <1>3, ConcatProperties
<1> QED BY <1>1, <1>2, <1>3, <1>4, <1>5

Once(q) == \A i, k \in 1 .. Len(q) : q[i] = q[k] => i = k

(***************************************************************************)
(* Either way what is left was in the queue, is still there once, and what *)
(* was removed is not.                                                     *)
(***************************************************************************)
LEMMA SuffixOnce ==
  ASSUME NEW q \in Seq(Workers), Once(q), NEW n \in 0 .. Len(q)
  PROVE  LET live == SubSeq(q, n + 1, Len(q))
         IN /\ Once(live)
            /\ \A k \in 1 .. Len(live) :
                 /\ \E m \in 1 .. Len(q) : q[m] = live[k]
                 /\ \A m \in 1 .. n : q[m] # live[k]
<1> DEFINE live == SubSeq(q, n + 1, Len(q))
<1>1. /\ live \in Seq(Workers) /\ Len(live) = Len(q) - n /\ Len(q) \in Nat
      /\ \A k \in 1 .. Len(live) : live[k] = q[n + k] /\ n + k \in 1 .. Len(q)
  BY Suffix, LenProperties
<1> HIDE DEF live
<1>2. Once(live)
  <2> SUFFICES ASSUME NEW i \in 1 .. Len(live), NEW k \in 1 .. Len(live), live[i] = live[k]
               PROVE  i = k
    BY DEF Once
  <2>1. /\ live[i] = q[n + i] /\ n + i \in 1 .. Len(q)
        /\ live[k] = q[n + k] /\ n + k \in 1 .. Len(q)
    BY <1>1
  <2>2. n + i = n + k
    BY <2>1 DEF Once
  <2> QED BY <2>2, <1>1
<1>3. ASSUME NEW k \in 1 .. Len(live)
      PROVE  /\ \E m \in 1 .. Len(q) : q[m] = live[k]
             /\ \A m \in 1 .. n : q[m] # live[k]
  <2>1. live[k] = q[n + k] /\ n + k \in 1 .. Len(q)
    BY <1>1
  <2>2. ASSUME NEW m \in 1 .. n PROVE q[m] # live[k]
    <3>1. m \in 1 .. Len(q) /\ m # n + k
      BY <1>1
    <3> QED BY <2>1, <3>1 DEF Once
  <2> QED BY <2>1, <2>2
<1> QED BY <1>2, <1>3 DEF live

\* A queue without repetitions has none after one job is erased.
LEMMA CutOnce ==
  ASSUME NEW q \in Seq(Workers), Once(q), NEW i \in 1 .. Len(q)
  PROVE  /\ Once(Cut(q, i))
         /\ \A k \in 1 .. Len(Cut(q, i)) :
              /\ \E m \in 1 .. Len(q) : q[m] = Cut(q, i)[k]
              /\ q[i] # Cut(q, i)[k]
<1> DEFINE c == Cut(q, i)
           at0(k) == IF k < i THEN k ELSE k + 1
<1>1. /\ Len(q) \in Nat /\ Len(c) = Len(q) - 1
      /\ \A k \in 1 .. Len(c) : c[k] = IF k < i THEN q[k] ELSE q[k + 1]
  BY CutProperties, LenProperties
<1> HIDE DEF c
<1>2. ASSUME NEW k \in 1 .. Len(c)
      PROVE  at0(k) \in 1 .. Len(q) /\ at0(k) # i /\ c[k] = q[at0(k)]
  BY <1>1
<1>3. ASSUME NEW k \in 1 .. Len(c), NEW m \in 1 .. Len(c), at0(k) = at0(m) PROVE k = m
  BY <1>1, <1>3
<1> HIDE DEF at0
<1>4. Once(c)
  BY <1>2, <1>3 DEF Once
<1>5. \A k \in 1 .. Len(c) : (\E m \in 1 .. Len(q) : q[m] = c[k]) /\ q[i] # c[k]
  BY <1>2 DEF Once
<1> QED BY <1>4, <1>5 DEF c

-----------------------------------------------------------------------------
(* The steps                                                               *)

\* Owner::Owner: no job, no connection, one publication of nothing.
LEMMA InitIInv == Init => IInv
<1> SUFFICES ASSUME Init PROVE IInv
  OBVIOUS
<1>1. NoJob \in Jobs /\ 0 \in 0 .. MaxRevision /\ <<>> \in Seq(Workers)
  BY OwnerLoopAssumption DEF NoJob, Jobs
<1>2. \A w \in Workers : job[w] = NoJob /\ worker[w] = "free"
  BY DEF Init
<1>3. Types
  BY <1>1 DEF Init, Types
<1>4. Queued /\ Held
  BY DEF Init, Queued, Held
<1>5. Owed /\ Told
  BY <1>2 DEF Init, Owed, Told, NoJob
<1> QED BY <1>3, <1>4, <1>5 DEF IInv

(***************************************************************************)
(* Steps of the owner that only move it along, and steps that touch none   *)
(* of this, keep the invariant when at stays fit for what the owner holds. *)
(***************************************************************************)
LEMMA Moves ==
  ASSUME IInv, UNCHANGED <<requests, completed, world, published>>,
         \/ at' = at
         \/ at' = "drain" /\ completed = None
         \/ at' \in {"tick", "finish", "failing"} /\ at \notin {"publish", "failing", "notify"}
         \/ at' \in {"publish", "failing", "notify"}
  PROVE  IInv'
<1>1. Types' /\ Queued'
  BY DEF IInv, Types, Queued, requests
<1>2. Held'
  BY DEF IInv, Held, requests
<1>3. Owed'
  BY OwnerLoopAssumption DEF IInv, Owed, requests, Types, Held
<1>4. Told'
  BY DEF IInv, Told, requests
<1> QED BY <1>1, <1>2, <1>3, <1>4 DEF IInv

(***************************************************************************)
(* Taking jobs out of the queue: what the owner does under the mutex, with *)
(* no job in its hands.                                                    *)
(***************************************************************************)
LEMMA Takes ==
  ASSUME IInv, completed = None, UNCHANGED <<world, worker, published>>,
         pending' \in Seq(Workers), Once(pending'),
         \A k \in 1 .. Len(pending') :
           /\ \E m \in 1 .. Len(pending) : pending[m] = pending'[k]
           /\ job'[pending'[k]] = job[pending'[k]],
         job' \in [Workers -> Jobs],
         \A w \in Workers :
           \/ job'[w] = job[w]
           \/ /\ job[w].state = "pending" /\ worker[w] = "waiting"
              /\ job'[w].state \in {"canceled", "running"}
              /\ job'[w].committed = job[w].committed,
         completed' \in Workers \cup {None},
         completed' # None => worker[completed'] = "waiting" /\ job'[completed'].state = "running",
         at' \in {"poll", "idle", "drain", "stopped"} => completed' = None,
         at' \in {"tick_task", "idle_task"} => completed' # None,
         at' = "idle_task" => ~job'[completed'].authoring
  PROVE  IInv'
<1>1. Types'
  BY DEF IInv, Types
<1>2. Queued'
  <2> SUFFICES ASSUME NEW i \in 1 .. Len(pending')
               PROVE  /\ worker'[pending'[i]] = "waiting"
                      /\ job'[pending'[i]].state = "pending"
                      /\ \A k \in 1 .. Len(pending') : pending'[k] = pending'[i] => k = i
    BY DEF Queued
  <2>1. PICK m \in 1 .. Len(pending) : pending[m] = pending'[i]
    OBVIOUS
  <2>2. worker[pending[m]] = "waiting" /\ job[pending[m]].state = "pending"
    BY DEF IInv, Queued
  <2>3. \A k \in 1 .. Len(pending') : pending'[k] = pending'[i] => k = i
    BY DEF Once
  <2> QED BY <2>1, <2>2, <2>3
<1>3. Held'
  BY DEF Held
<1>4. Owed'
  <2> SUFFICES ASSUME NEW w \in Workers
               PROVE  /\ job'[w].committed <= world
                      /\ \/ job'[w].committed <= published.revision
                         \/ job'[w].failure /\ job'[w].state = "completed"
    BY DEF IInv, Owed
  <2>1. /\ job[w].committed <= world
        /\ \/ job[w].committed <= published.revision
           \/ job[w].failure /\ job[w].state = "completed"
    BY OwnerLoopAssumption DEF IInv, Owed
  <2> QED BY <2>1
<1>5. Told'
  <2> SUFFICES ASSUME NEW w \in Workers
        PROVE /\ worker[w] = "served" => job'[w].state = "completed" /\ ~job'[w].failure
              /\ worker[w] = "refused" => job'[w].state \in {"none", "canceled"}
              /\ worker[w] \in {"free", "accepted", "admitted"} => job'[w] = NoJob
              /\ job'[w].state \in {"none", "pending", "canceled"} => job'[w].committed = 0
    BY DEF Told
  <2> QED BY DEF IInv, Told
<1> QED BY <1>1, <1>2, <1>3, <1>4, <1>5 DEF IInv

(***************************************************************************)
(* execute_job.                                                            *)
(***************************************************************************)
LEMMA ExecuteKeeps ==
  ASSUME IInv, completed = None, UNCHANGED <<world, worker, published>>,
         NEW mayAuthor \in BOOLEAN, NEW task \in {"tick_task", "idle_task"},
         NEW otherwise \in {"publish", "poll"},
         task = "idle_task" => ~mayAuthor,
         ExecuteJob(mayAuthor, task, otherwise)
  PROVE  IInv'
<1>0. /\ pending \in Seq(Workers) /\ job \in [Workers -> Jobs] /\ Once(pending)
      /\ Len(pending) \in Nat
      /\ \A i \in 1 .. Len(pending) :
           /\ pending[i] \in Workers
           /\ worker[pending[i]] = "waiting" /\ job[pending[i]].state = "pending"
  BY LenProperties, ElementOfSeq DEF IInv, Types, Queued, Once
<1> DEFINE live(m) == SubSeq(pending, m + 1, Len(pending))
           swept(m) == [w \in Workers |-> IF \E i \in 1 .. m : pending[i] = w
                                          THEN [job[w] EXCEPT !.state = "canceled"] ELSE job[w]]
<1>1. PICK n \in 0 .. Len(pending) :
        \/ \E i \in 1 .. Len(live(n)) :
             /\ Claimable(live(n), mayAuthor, i)
             /\ pending' = Cut(live(n), i)
             /\ completed' = live(n)[i]
             /\ job' = [swept(n) EXCEPT ![live(n)[i]].state = "running"]
             /\ at' = task
        \/ /\ pending' = live(n) /\ job' = swept(n) /\ completed' = None
           /\ at' = otherwise
  BY DEF ExecuteJob
<1> DEFINE L == live(n)
           S == swept(n)
<1>2. /\ L \in Seq(Workers) /\ Len(L) \in Nat /\ Once(L)
      /\ \A k \in 1 .. Len(L) :
           /\ L[k] \in Workers
           /\ \E m \in 1 .. Len(pending) : pending[m] = L[k]
           /\ \A m \in 1 .. n : pending[m] # L[k]
  <2>1. /\ pending \in Seq(Workers) /\ Once(pending)
        /\ \A i \in 1 .. Len(pending) : pending[i] \in Workers
    BY <1>0
  <2>2. /\ L \in Seq(Workers) /\ Len(L) = Len(pending) - n
        /\ \A k \in 1 .. Len(L) : L[k] = pending[n + k] /\ n + k \in 1 .. Len(pending)
    BY <2>1, Suffix
  <2>3. /\ Once(L)
        /\ \A k \in 1 .. Len(L) : /\ \E m \in 1 .. Len(pending) : pending[m] = L[k]
                                  /\ \A m \in 1 .. n : pending[m] # L[k]
    BY <2>1, SuffixOnce
  <2> HIDE DEF L
  <2>4. Len(L) \in Nat
    BY <2>2, LenProperties
  <2>5. \A k \in 1 .. Len(L) : L[k] \in Workers
    BY <2>1, <2>2
  <2> QED BY <2>2, <2>3, <2>4, <2>5
<1>3. /\ S \in [Workers -> Jobs]
      /\ \A w \in Workers :
           \/ S[w] = job[w]
           \/ /\ job[w].state = "pending" /\ worker[w] = "waiting"
              /\ S[w].state = "canceled" /\ S[w].committed = job[w].committed
      /\ \A k \in 1 .. Len(L) : S[L[k]] = job[L[k]]
  <2>a. Len(pending) \in Nat
    BY <1>0
  <2>b. n \in Nat /\ n <= Len(pending)
    BY <2>a, <1>1
  <2>0. \A i \in 1 .. n : i \in 1 .. Len(pending)
    BY <2>a, <2>b
  <2>1. ASSUME NEW w \in Workers PROVE [job[w] EXCEPT !.state = "canceled"] \in Jobs
    <3>1. PICK j \in Jobs : j = job[w]
      BY <1>0
    <3>2. [j EXCEPT !.state = "canceled"] \in Jobs
      BY ONLY <3>1 DEF Jobs
    <3> QED BY <3>1, <3>2
  <2>2. \A w \in Workers : (\E i \in 1 .. n : pending[i] = w) =>
          /\ job[w].state = "pending" /\ worker[w] = "waiting"
          /\ S[w] = [job[w] EXCEPT !.state = "canceled"]
    <3> SUFFICES ASSUME NEW w \in Workers, NEW i \in 1 .. n, pending[i] = w
                 PROVE  /\ job[w].state = "pending" /\ worker[w] = "waiting"
                        /\ S[w] = [job[w] EXCEPT !.state = "canceled"]
      OBVIOUS
    <3>1. i \in 1 .. Len(pending)
      BY <2>0
    <3>2. job[w].state = "pending" /\ worker[w] = "waiting"
      BY <1>0, <3>1
    <3> QED BY <3>2
  <2>3. \A w \in Workers : ~(\E i \in 1 .. n : pending[i] = w) => S[w] = job[w]
    OBVIOUS
  <2>4. \A w \in Workers : /\ [job[w] EXCEPT !.state = "canceled"].state = "canceled"
                           /\ [job[w] EXCEPT !.state = "canceled"].committed = job[w].committed
    BY <1>0 DEF Jobs
  <2>5. S \in [Workers -> Jobs]
    BY <1>0, <2>1
  <2> HIDE DEF S
  <2> QED BY <1>2, <2>2, <2>3, <2>4, <2>5
<1> HIDE DEF L, S
<1>4. CASE pending' = L /\ job' = S /\ completed' = None /\ at' = otherwise
  BY <1>2, <1>3, <1>4, Takes
<1>5. ASSUME NEW i \in 1 .. Len(L), Claimable(L, mayAuthor, i), pending' = Cut(L, i),
             completed' = L[i], job' = [S EXCEPT ![L[i]].state = "running"], at' = task
      PROVE  IInv'
  <2> DEFINE c == L[i]
  <2>1. c \in Workers /\ worker[c] = "waiting" /\ job[c].state = "pending" /\ S[c] = job[c]
        /\ c # None
    <3>1. PICK m \in 1 .. Len(pending) : pending[m] = c
      BY <1>2
    <3>2. c \in Workers /\ S[c] = job[c]
      BY <1>2, <1>3
    <3>3. worker[c] = "waiting" /\ job[c].state = "pending"
      BY <1>0, <3>1
    <3> QED BY <3>2, <3>3, OwnerLoopAssumption
  <2>2. /\ pending' \in Seq(Workers) /\ Once(pending')
        /\ \A k \in 1 .. Len(pending') :
             (\E m \in 1 .. Len(L) : L[m] = pending'[k]) /\ c # pending'[k]
    <3>1. Cut(L, i) \in Seq(Workers)
      BY <1>2, CutProperties
    <3>2. /\ Once(Cut(L, i))
          /\ \A k \in 1 .. Len(Cut(L, i)) :
               (\E m \in 1 .. Len(L) : L[m] = Cut(L, i)[k]) /\ L[i] # Cut(L, i)[k]
      BY <1>2, CutOnce
    <3> DEFINE C == Cut(L, i)
    <3> HIDE DEF C
    <3>3. pending' = C
      BY <1>5 DEF C
    <3>4. C \in Seq(Workers) /\ Once(C)
      BY <3>1, <3>2 DEF C
    <3>5. \A k \in 1 .. Len(C) : (\E m \in 1 .. Len(L) : L[m] = C[k]) /\ c # C[k]
      BY <3>2 DEF C
    <3> QED BY <3>3, <3>4, <3>5 DEF Once
  <2>3. /\ job' \in [Workers -> Jobs]
        /\ job'[c] = [job[c] EXCEPT !.state = "running"]
        /\ \A w \in Workers : w # c => job'[w] = S[w]
    <3>1. [S[c] EXCEPT !.state = "running"] \in Jobs
      BY <2>1, <1>3 DEF Jobs
    <3> QED BY <1>3, <1>5, <2>1, <3>1
  <2>4. /\ job'[c].state = "running" /\ job'[c].committed = job[c].committed
        /\ job'[c].authoring = job[c].authoring
    BY <1>0, <2>1, <2>3 DEF Jobs
  <2>5. \A k \in 1 .. Len(pending') :
          /\ \E m \in 1 .. Len(pending) : pending[m] = pending'[k]
          /\ job'[pending'[k]] = job[pending'[k]]
    <3> SUFFICES ASSUME NEW k \in 1 .. Len(pending')
                 PROVE  /\ \E m \in 1 .. Len(pending) : pending[m] = pending'[k]
                        /\ job'[pending'[k]] = job[pending'[k]]
      OBVIOUS
    <3>1. PICK j \in 1 .. Len(L) : L[j] = pending'[k]
      BY <2>2
    <3>2. pending'[k] # c /\ L[j] \in Workers /\ S[L[j]] = job[L[j]]
      BY <1>2, <1>3, <2>2
    <3>3. PICK m \in 1 .. Len(pending) : pending[m] = L[j]
      BY <1>2
    <3>4. job'[L[j]] = S[L[j]]
      BY <2>3, <3>1, <3>2
    <3> QED BY <3>1, <3>2, <3>3, <3>4
  <2>6. at' = "idle_task" => ~job'[completed'].authoring
    BY <1>5, <2>1, <2>4 DEF Claimable
  <2>7. \A w \in Workers :
          \/ job'[w] = job[w]
          \/ /\ job[w].state = "pending" /\ worker[w] = "waiting"
             /\ job'[w].state \in {"canceled", "running"}
             /\ job'[w].committed = job[w].committed
    <3> SUFFICES ASSUME NEW w \in Workers
                 PROVE  \/ job'[w] = job[w]
                        \/ /\ job[w].state = "pending" /\ worker[w] = "waiting"
                           /\ job'[w].state \in {"canceled", "running"}
                           /\ job'[w].committed = job[w].committed
      OBVIOUS
    <3>1. CASE w = c
      BY <2>1, <2>4, <3>1
    <3>2. CASE w # c
      <4>1. job'[w] = S[w]
        BY <2>3, <3>2
      <4> QED BY <1>3, <4>1
    <3> QED BY <3>1, <3>2
  <2>8. at' \notin {"poll", "idle", "drain", "stopped"}
    BY <1>5
  <2>9. /\ completed' \in Workers \cup {None} /\ completed' # None
        /\ worker[completed'] = "waiting" /\ job'[completed'].state = "running"
    BY <1>5, <2>1, <2>4
  <2> QED BY <2>2, <2>3, <2>5, <2>6, <2>7, <2>8, <2>9, Takes
<1> QED BY <1>1, <1>4, <1>5 DEF L, S

(***************************************************************************)
(* The claimed closure, after a tick's claim or an idle one.               *)
(***************************************************************************)
LEMMA TaskKeeps ==
  ASSUME IInv,
         \/ Task("tick_task", "publish")
         \/ Task("idle_task", "finish_idle")
  PROVE  IInv'
<1> DEFINE c == completed
<1>1. /\ c \in Workers /\ c # None /\ worker[c] = "waiting" /\ job[c].state = "running"
      /\ at = "idle_task" => ~job[c].authoring
      /\ at \in {"tick_task", "idle_task"}
  BY DEF IInv, Held, Task, Types
<1>2. PICK failure \in BOOLEAN, commits \in BOOLEAN :
        /\ commits => job[c].authoring /\ world < MaxRevision
        /\ world' = IF commits THEN world + 1 ELSE world
        /\ job' = [job EXCEPT ![c].failure = failure,
                              ![c].committed = IF commits THEN world' ELSE 0]
  BY DEF Task
<1>3. /\ at' \in {"publish", "finish_idle"} /\ (at = "tick_task" => at' = "publish")
      /\ completed' = c /\ pending' = pending /\ worker' = worker /\ published' = published
  BY DEF Task
<1>4. /\ world \in Nat /\ MaxRevision \in Nat /\ world <= MaxRevision
      /\ published.revision \in Nat /\ published.revision <= world
  BY OwnerLoopAssumption DEF IInv, Types, Owed
<1>5. world' \in 0 .. MaxRevision /\ published.revision <= world'
  <2>1. CASE commits
    BY <1>2, <1>4, <2>1
  <2>2. CASE ~commits
    BY <1>2, <1>4, <2>2
  <2> QED BY <2>1, <2>2
<1>6. (IF commits THEN world' ELSE 0) \in 0 .. MaxRevision
  BY <1>4, <1>5
<1> DEFINE amount == IF commits THEN world' ELSE 0
<1> HIDE DEF amount
<1>7. /\ job' \in [Workers -> Jobs]
      /\ \A w \in Workers : w # c => job'[w] = job[w]
      /\ job'[c] = [job[c] EXCEPT !.failure = failure, !.committed = amount]
  <2>1. job \in [Workers -> Jobs] /\ amount \in 0 .. MaxRevision
    BY <1>6 DEF amount, IInv, Types
  <2>2. job' = [job EXCEPT ![c] = [job[c] EXCEPT !.failure = failure, !.committed = amount]]
    BY <1>1, <1>2, <2>1 DEF amount
  <2>3. [job[c] EXCEPT !.failure = failure, !.committed = amount] \in Jobs
    BY <1>1, <2>1 DEF Jobs
  <2> QED BY <1>1, <2>1, <2>2, <2>3
<1>8. /\ job'[c].state = "running" /\ job'[c].authoring = job[c].authoring
      /\ job'[c].committed = amount
  BY <1>1, <1>7 DEF IInv, Types, Jobs
<1>9. Types'
  BY <1>3, <1>5, <1>7 DEF IInv, Types
<1>10. Queued'
  BY <1>1, <1>3, <1>7, ElementOfSeq DEF IInv, Types, Queued
<1>11. Held'
  BY <1>1, <1>3, <1>8 DEF Held
<1>12. Owed'
  <2>1. published.revision <= world'
    BY <1>5
  <2>2. ASSUME NEW w \in Workers, w # c
        PROVE  \/ job'[w].committed <= published.revision
               \/ job'[w].failure /\ job'[w].state = "completed"
    BY <1>1, <1>7, <2>2 DEF IInv, Owed
  <2>3. job'[c].committed <= published.revision \/ at' = "publish"
    <3>1. CASE at = "tick_task"
      BY <1>3, <3>1
    <3>2. CASE at = "idle_task"
      <4>1. ~commits
        BY <1>1, <1>2, <3>2
      <4> QED BY <1>4, <1>8, <4>1 DEF amount
    <3> QED BY <1>1, <3>1, <3>2
  <2>4. ASSUME NEW w \in Workers PROVE job'[w].committed <= world'
    <3>1. CASE w = c
      BY <1>4, <1>5, <1>8, <3>1 DEF amount
    <3>2. CASE w # c
      <4>1. job'[w].committed <= world /\ job[w].committed \in Nat
        BY <1>7, <3>2, OwnerLoopAssumption DEF IInv, Owed, Types, Jobs
      <4>2. world <= world' /\ world' \in Nat
        BY <1>2, <1>4, <1>5
      <4> QED BY <4>1, <4>2, <1>4, <1>7, <3>2
    <3> QED BY <3>1, <3>2
  <2> QED BY <1>3, <2>1, <2>2, <2>3, <2>4 DEF Owed
<1>13. Told'
  <2> SUFFICES ASSUME NEW w \in Workers
               PROVE  (/\ worker[w] = "served" => job[w].state = "completed" /\ ~job[w].failure
                       /\ worker[w] = "refused" => job[w].state \in {"none", "canceled"}
                       /\ worker[w] \in {"free", "accepted", "admitted"} => job[w] = NoJob
                       /\ job[w].state \in {"none", "pending", "canceled"} => job[w].committed = 0)'
    BY DEF Told
  <2>1. CASE w = c
    BY <1>1, <1>3, <1>8, <2>1
  <2>2. CASE w # c
    <3>1. job'[w] = job[w] /\ worker'[w] = worker[w]
      BY <1>3, <1>7, <2>2
    <3> QED BY <3>1 DEF IInv, Told
  <2> QED BY <2>1, <2>2
<1> QED BY <1>9, <1>10, <1>11, <1>12, <1>13 DEF IInv

\* The owner publishes a tick: the claimed job's commit is now covered.
LEMMA PublishKeeps ==
  ASSUME IInv, Publish
  PROVE  IInv'
<1>1. /\ published'.revision = world /\ at' \in {"finish", "tick"}
      /\ UNCHANGED <<pending, job, worker, completed, world>> /\ at = "publish"
  BY DEF Publish, Publication, requests
<1>2. Types' /\ Queued' /\ Held' /\ Told'
  BY <1>1 DEF IInv, Types, Queued, Held, Told
<1>3. world \in Nat /\ \A w \in Workers : job[w].committed \in Nat
  BY OwnerLoopAssumption DEF IInv, Types, Jobs
<1>4. \A w \in Workers : job[w].committed <= world
  BY DEF IInv, Owed
<1>5. Owed'
  BY <1>1, <1>3, <1>4 DEF Owed
<1> QED BY <1>2, <1>5 DEF IInv

(***************************************************************************)
(* Giving up a job with an answer: finish, and the notice of a failure.    *)
(***************************************************************************)
LEMMA Answers ==
  ASSUME IInv, UNCHANGED <<pending, worker, world, published>>, completed' = None,
         at' \in {"idle", "poll", "drain"},
         NEW r, completed = None => job' = job,
         completed # None =>
           /\ r \in Jobs /\ r.state = "completed"
           /\ r.committed = job[completed].committed
           /\ r.failure \/ r.committed <= published.revision
           /\ job' = [job EXCEPT ![completed] = r]
  PROVE  IInv'
<1>1. CASE completed = None
  BY <1>1, OwnerLoopAssumption DEF IInv, Types, Queued, Held, Owed, Told
<1>2. CASE completed # None
  <2> DEFINE c == completed
  <2>1. c \in Workers /\ worker[c] = "waiting" /\ job[c].state = "running"
    BY <1>2 DEF IInv, Types, Held
  <2>2. /\ job' \in [Workers -> Jobs] /\ job'[c] = r
        /\ \A w \in Workers : w # c => job'[w] = job[w]
    BY <1>2, <2>1 DEF IInv, Types
  <2>3. Types' /\ Held'
    BY <2>2 DEF IInv, Types, Held
  <2>4. Queued'
    BY <2>1, <2>2, ElementOfSeq DEF IInv, Types, Queued
  <2>5. Owed'
    BY <1>2, <2>1, <2>2 DEF IInv, Owed
  <2>6. Told'
    BY <1>2, <2>1, <2>2 DEF IInv, Told
  <2> QED BY <2>3, <2>4, <2>5, <2>6 DEF IInv
<1> QED BY <1>1, <1>2

\* finish after a batch, and after an idle claim.
LEMMA FinishKeeps ==
  ASSUME IInv, FinishTicks \/ FinishIdle
  PROVE  IInv'
<1> DEFINE r == [job[completed] EXCEPT !.state = "completed"]
<1>1. /\ UNCHANGED <<pending, worker, world, published>> /\ completed' = None
      /\ at' \in {"idle", "poll"} /\ at \in {"finish", "finish_idle"}
      /\ job' = IF completed = None THEN job ELSE [job EXCEPT ![completed].state = "completed"]
  BY DEF FinishTicks, FinishIdle, Finish
<1>2. ASSUME completed # None
      PROVE  /\ r \in Jobs /\ r.state = "completed"
             /\ r.committed = job[completed].committed
             /\ r.committed <= published.revision
             /\ job' = [job EXCEPT ![completed] = r]
  <2>1. completed \in Workers /\ job[completed].state = "running" /\ job[completed] \in Jobs
    BY <1>2 DEF IInv, Types, Held
  <2>2. job[completed].committed <= published.revision
    BY <1>1, <2>1 DEF IInv, Owed
  <2> QED BY <1>1, <1>2, <2>1, <2>2 DEF Jobs
<1> QED BY <1>1, <1>2, Answers

\* The claimed job of a failed publication is finished with a failure.
LEMMA NotifyKeeps ==
  ASSUME IInv, NotifyFailed
  PROVE  IInv'
<1> DEFINE r == [job[completed] EXCEPT !.state = "completed", !.failure = TRUE]
<1>1. /\ UNCHANGED <<pending, worker, world, published>> /\ completed' = None /\ at' = "drain"
      /\ job' = IF completed = None THEN job
                ELSE [job EXCEPT ![completed].state = "completed", ![completed].failure = TRUE]
  BY DEF NotifyFailed
<1>2. ASSUME completed # None
      PROVE  /\ r \in Jobs /\ r.state = "completed"
             /\ r.committed = job[completed].committed
             /\ r.failure
             /\ job' = [job EXCEPT ![completed] = r]
  <2>1. completed \in Workers /\ job[completed] \in Jobs /\ job \in [Workers -> Jobs]
    BY <1>2 DEF IInv, Types
  <2> QED BY <1>1, <1>2, <2>1 DEF Jobs
<1> QED BY <1>1, <1>2, Answers

\* cancel_pending: every queued job is canceled, none is left queued.
LEMMA DrainKeeps ==
  ASSUME IInv, Drain
  PROVE  IInv'
<1>1. /\ UNCHANGED <<world, worker, published>> /\ completed' = completed
      /\ pending' = <<>> /\ at = "drain" /\ at' = "stopped" /\ completed = None
      /\ job' = [w \in Workers |-> IF \E i \in 1 .. Len(pending) : pending[i] = w
                                   THEN [job[w] EXCEPT !.state = "canceled"] ELSE job[w]]
  BY DEF Drain, IInv, Held
<1>2. job \in [Workers -> Jobs]
  BY DEF IInv, Types
<1>3. \A w \in Workers :
        /\ [job[w] EXCEPT !.state = "canceled"] \in Jobs
        /\ [job[w] EXCEPT !.state = "canceled"].state = "canceled"
        /\ [job[w] EXCEPT !.state = "canceled"].committed = job[w].committed
  BY <1>2 DEF Jobs
<1>4. job' \in [Workers -> Jobs]
  BY <1>1, <1>2, <1>3
<1>5. ASSUME NEW w \in Workers
      PROVE  \/ job'[w] = job[w]
             \/ /\ job[w].state = "pending" /\ worker[w] = "waiting"
                /\ job'[w].state \in {"canceled", "running"}
                /\ job'[w].committed = job[w].committed
  <2>1. CASE \E i \in 1 .. Len(pending) : pending[i] = w
    <3>1. job[w].state = "pending" /\ worker[w] = "waiting"
      BY <2>1 DEF IInv, Queued
    <3> QED BY <1>1, <1>3, <2>1, <3>1
  <2>2. CASE ~ \E i \in 1 .. Len(pending) : pending[i] = w
    BY <1>1, <2>2
  <2> QED BY <2>1, <2>2
<1>6. <<>> \in Seq(Workers) /\ Once(<<>>) /\ Len(<<>>) = 0
  BY DEF Once
<1> QED BY <1>1, <1>4, <1>5, <1>6, Takes

(***************************************************************************)
(* A worker that is not waiting, and stays so, disturbs nobody.            *)
(***************************************************************************)
LEMMA Aside ==
  ASSUME IInv, UNCHANGED <<at, completed, world, published, pending>>,
         NEW w \in Workers, worker[w] # "waiting",
         \E phase \in {"free", "accepted", "admitted", "refused"} :
           worker' = [worker EXCEPT ![w] = phase],
         \/ job' = job /\ job[w] = NoJob
         \/ job' = [job EXCEPT ![w] = NoJob]
  PROVE  IInv'
<1>0. PICK phase \in {"free", "accepted", "admitted", "refused"} :
        worker' = [worker EXCEPT ![w] = phase]
  OBVIOUS
<1>1. /\ NoJob \in Jobs /\ NoJob.committed = 0 /\ NoJob.state = "none"
  BY OwnerLoopAssumption DEF NoJob, Jobs
<1>2. /\ job \in [Workers -> Jobs] /\ world \in Nat /\ published.revision \in Nat
      /\ job' \in [Workers -> Jobs]
  BY <1>1, OwnerLoopAssumption DEF IInv, Types
<1>3. /\ worker'[w] = phase /\ job'[w] = NoJob
      /\ \A v \in Workers : v # w => worker'[v] = worker[v] /\ job'[v] = job[v]
  BY <1>0, <1>2 DEF IInv, Types
<1>4. Types'
  BY <1>0, <1>2 DEF IInv, Types
<1>5. Queued'
  BY <1>3, ElementOfSeq DEF IInv, Types, Queued
<1>6. Held'
  BY <1>0, <1>3 DEF IInv, Types, Held
<1>7. Owed'
  BY <1>1, <1>2, <1>3 DEF IInv, Owed
<1>8. Told'
  BY <1>0, <1>1, <1>3 DEF IInv, Told
<1> QED BY <1>4, <1>5, <1>6, <1>7, <1>8 DEF IInv

\* dispatch queues a job of a worker that had none.
LEMMA DispatchKeeps ==
  ASSUME IInv, NEW w \in Workers, NEW authoring \in BOOLEAN, Dispatch(w, authoring)
  PROVE  IInv'
<1>1. /\ worker[w] = "admitted" /\ UNCHANGED <<at, completed, world, published>>
      /\ job[w] = NoJob
  BY DEF Dispatch, IInv, Told
<1>2. CASE worker' = [worker EXCEPT ![w] = "refused"] /\ UNCHANGED <<pending, job>>
  <2>1. job' = job /\ pending' = pending
    BY <1>2
  <2> QED BY <1>1, <1>2, <2>1, Aside
<1>3. CASE /\ worker' = [worker EXCEPT ![w] = "waiting"]
           /\ pending' = Append(pending, w)
           /\ job' = [job EXCEPT ![w] = [NoJob EXCEPT !.state = "pending", !.authoring = authoring]]
  <2> DEFINE j == [NoJob EXCEPT !.state = "pending", !.authoring = authoring]
  <2>1. j \in Jobs /\ j.state = "pending" /\ j.committed = 0
    <3> DEFINE a == authoring
    <3>1. a \in BOOLEAN /\ 0 \in 0 .. MaxRevision
      BY OwnerLoopAssumption
    <3>2. j = [NoJob EXCEPT !.state = "pending", !.authoring = a]
      OBVIOUS
    <3> HIDE DEF a, j
    <3>3. j = [state |-> "pending", authoring |-> a, failure |-> FALSE, committed |-> 0]
      BY <3>2 DEF NoJob
    <3> QED BY <3>1, <3>3 DEF Jobs
  <2>2. /\ pending \in Seq(Workers) /\ Len(pending) \in Nat
        /\ \A i \in 1 .. Len(pending) : pending[i] \in Workers
        /\ job \in [Workers -> Jobs] /\ world \in Nat /\ published.revision \in Nat
    BY LenProperties, ElementOfSeq, OwnerLoopAssumption DEF IInv, Types
  <2>3. /\ pending' \in Seq(Workers) /\ Len(pending') = Len(pending) + 1
        /\ \A i \in 1 .. Len(pending) : pending'[i] = pending[i]
        /\ pending'[Len(pending) + 1] = w
    BY <1>3, <2>2, AppendProperties
  <2> HIDE DEF j
  <2>4. /\ worker'[w] = "waiting" /\ job'[w] = j /\ job' \in [Workers -> Jobs]
        /\ \A v \in Workers : v # w => worker'[v] = worker[v] /\ job'[v] = job[v]
    BY <1>3, <2>1, <2>2 DEF IInv, Types, j
  <2>5. Types'
    BY <1>1, <1>3, <2>3, <2>4 DEF IInv, Types
  <2>6. \A i \in 1 .. Len(pending) : pending[i] # w
    BY <1>1 DEF IInv, Queued
  <2>7. Queued'
    <3> SUFFICES ASSUME NEW i \in 1 .. Len(pending')
                 PROVE  /\ worker'[pending'[i]] = "waiting"
                        /\ job'[pending'[i]].state = "pending"
                        /\ \A k \in 1 .. Len(pending') : pending'[k] = pending'[i] => k = i
      BY DEF Queued
    <3>1. CASE i = Len(pending) + 1
      <4>1. \A k \in 1 .. Len(pending') : k # i => k \in 1 .. Len(pending)
        BY <2>2, <2>3, <3>1
      <4> QED BY <2>1, <2>3, <2>4, <2>6, <3>1, <4>1
    <3>2. CASE i \in 1 .. Len(pending)
      <4>1. pending'[i] = pending[i] /\ pending[i] \in Workers /\ pending[i] # w
        BY <2>2, <2>3, <2>6, <3>2
      <4>2. worker[pending[i]] = "waiting" /\ job[pending[i]].state = "pending"
        BY <3>2 DEF IInv, Queued
      <4>3. ASSUME NEW k \in 1 .. Len(pending'), pending'[k] = pending'[i] PROVE k = i
        <5>1. k \in 1 .. Len(pending)
          BY <2>2, <2>3, <4>1, <4>3
        <5>2. pending[k] = pending[i]
          BY <2>3, <4>1, <4>3, <5>1
        <5> QED BY <3>2, <5>1, <5>2 DEF IInv, Queued
      <4> QED BY <2>4, <4>1, <4>2, <4>3
    <3> QED BY <2>2, <2>3, <3>1, <3>2
  <2>8. Held'
    BY <1>1, <2>4 DEF IInv, Types, Held
  <2>9. Owed'
    <3>1. j.committed <= world /\ j.committed <= published.revision
      BY <2>1, <2>2
    <3>2. \A v \in Workers :
            /\ job'[v].committed <= world
            /\ \/ job'[v].committed <= published.revision
               \/ completed = v /\ at \in {"publish", "failing", "notify"}
               \/ job'[v].failure /\ job'[v].state = "completed"
      <4> SUFFICES ASSUME NEW v \in Workers
                   PROVE  /\ job'[v].committed <= world
                          /\ \/ job'[v].committed <= published.revision
                             \/ completed = v /\ at \in {"publish", "failing", "notify"}
                             \/ job'[v].failure /\ job'[v].state = "completed"
        OBVIOUS
      <4>1. CASE v = w
        BY <2>4, <3>1, <4>1
      <4>2. CASE v # w
        BY <2>4, <4>2 DEF IInv, Owed
      <4> QED BY <4>1, <4>2
    <3> QED BY <1>1, <3>2 DEF IInv, Owed
  <2>10. Told'
    BY <1>1, <2>1, <2>4 DEF IInv, Told
  <2> QED BY <2>5, <2>7, <2>8, <2>9, <2>10 DEF IInv
<1> QED BY <1>2, <1>3 DEF Dispatch

\* A waiter gives up a job nobody claimed and takes it off the queue.
LEMMA TimeOutKeeps ==
  ASSUME IInv, NEW w \in Workers, TimeOut(w)
  PROVE  IInv'
<1>1. /\ worker[w] = "waiting" /\ job[w].state = "pending"
      /\ worker' = [worker EXCEPT ![w] = "refused"]
      /\ job' = [job EXCEPT ![w].state = "canceled"]
      /\ UNCHANGED <<at, completed, world, published>>
  BY DEF TimeOut
<1>2. PICK i \in 1 .. Len(pending) : pending[i] = w /\ pending' = Cut(pending, i)
  BY DEF TimeOut
<1>3. /\ pending \in Seq(Workers) /\ Once(pending) /\ job \in [Workers -> Jobs]
  BY DEF IInv, Types, Queued, Once
<1> DEFINE C == Cut(pending, i)
<1>4. /\ C \in Seq(Workers) /\ Once(C)
      /\ \A k \in 1 .. Len(C) : (\E m \in 1 .. Len(pending) : pending[m] = C[k]) /\ C[k] # w
  <2>1. Cut(pending, i) \in Seq(Workers)
    BY <1>3, CutProperties
  <2>2. /\ Once(Cut(pending, i))
        /\ \A k \in 1 .. Len(Cut(pending, i)) :
             /\ \E m \in 1 .. Len(pending) : pending[m] = Cut(pending, i)[k]
             /\ pending[i] # Cut(pending, i)[k]
    BY <1>3, CutOnce
  <2> QED BY <1>2, <2>1, <2>2
<1> HIDE DEF C
<1>5. pending' = C
  BY <1>2 DEF C
<1>6. /\ [job[w] EXCEPT !.state = "canceled"] \in Jobs
      /\ [job[w] EXCEPT !.state = "canceled"].committed = job[w].committed
  BY <1>3 DEF Jobs
<1>7. /\ job' \in [Workers -> Jobs] /\ worker'[w] = "refused"
      /\ job'[w].state = "canceled" /\ job'[w].committed = job[w].committed
      /\ \A v \in Workers : v # w => worker'[v] = worker[v] /\ job'[v] = job[v]
  BY <1>1, <1>3, <1>6 DEF IInv, Types, Jobs
<1>8. Types'
  BY <1>1, <1>4, <1>5, <1>7 DEF IInv, Types
<1>9. Queued'
  <2> SUFFICES ASSUME NEW k \in 1 .. Len(C)
               PROVE  /\ worker'[C[k]] = "waiting"
                      /\ job'[C[k]].state = "pending"
                      /\ \A m \in 1 .. Len(C) : C[m] = C[k] => m = k
    BY <1>5 DEF Queued
  <2>1. PICK m \in 1 .. Len(pending) : pending[m] = C[k]
    BY <1>4
  <2>2. C[k] \in Workers /\ C[k] # w
    BY <1>4, ElementOfSeq
  <2>3. worker[C[k]] = "waiting" /\ job[C[k]].state = "pending"
    BY <2>1 DEF IInv, Queued
  <2> QED BY <1>4, <1>7, <2>2, <2>3 DEF Once
<1>10. Held'
  BY <1>1, <1>7 DEF IInv, Types, Held
<1>11. Owed'
  BY <1>1, <1>7 DEF IInv, Owed
<1>12. Told'
  BY <1>1, <1>7 DEF IInv, Told
<1> QED BY <1>8, <1>9, <1>10, <1>11, <1>12 DEF IInv

\* A waiter hears that its job was finished or canceled.
LEMMA ReturnKeeps ==
  ASSUME IInv, NEW w \in Workers, Return(w)
  PROVE  IInv'
<1>1. /\ worker[w] = "waiting" /\ job[w].state \in {"completed", "canceled"}
      /\ worker' = [worker EXCEPT ![w] =
           IF job[w].state = "canceled" THEN "refused"
           ELSE IF job[w].failure THEN "threw" ELSE "served"]
      /\ UNCHANGED <<at, completed, world, published, pending, job>>
  BY DEF Return
<1> DEFINE p == IF job[w].state = "canceled" THEN "refused"
                ELSE IF job[w].failure THEN "threw" ELSE "served"
<1>2. /\ p \in {"refused", "threw", "served"}
      /\ p = "refused" => job[w].state = "canceled"
      /\ p = "served" => job[w].state = "completed" /\ ~job[w].failure
  BY <1>1
<1>3. worker' = [worker EXCEPT ![w] = p]
  BY <1>1
<1> HIDE DEF p
<1>4. worker'[w] = p /\ \A v \in Workers : v # w => worker'[v] = worker[v]
  BY <1>3 DEF IInv, Types
<1>5. Types'
  BY <1>1, <1>2, <1>3 DEF IInv, Types
<1>6. Queued'
  BY <1>1, <1>4, ElementOfSeq DEF IInv, Types, Queued
<1>7. Held'
  BY <1>1, <1>4 DEF IInv, Types, Held
<1>8. Owed'
  BY <1>1 DEF IInv, Owed
<1>9. Told'
  BY <1>1, <1>2, <1>4 DEF IInv, Told
<1> QED BY <1>5, <1>6, <1>7, <1>8, <1>9 DEF IInv

\* Every step of a connection.
LEMMA WorkerKeeps ==
  ASSUME IInv, NEW w \in Workers, Accept(w) \/ WorkerStep(w) \/ RequestDeadline(w)
  PROVE  IInv'
<1>1. CASE Accept(w)
  <2>1. job[w] = NoJob
    BY <1>1 DEF Accept, IInv, Told
  <2>2. /\ worker[w] # "waiting" /\ worker' = [worker EXCEPT ![w] = "accepted"]
        /\ UNCHANGED <<at, completed, world, published, pending>> /\ job' = job
    BY <1>1 DEF Accept
  <2> QED BY <2>1, <2>2, Aside
<1>2. ASSUME NEW p \in Principals, Admit(w, p) PROVE IInv'
  <2>1. job[w] = NoJob
    BY <1>2 DEF Admit, IInv, Told
  <2>2. /\ worker[w] # "waiting" /\ worker' = [worker EXCEPT ![w] = "admitted"]
        /\ UNCHANGED <<at, completed, world, published, pending>> /\ job' = job
    BY <1>2 DEF Admit
  <2> QED BY <2>1, <2>2, Aside
<1>3. CASE Decline(w)
  <2>1. job[w] = NoJob
    BY <1>3 DEF Decline, IInv, Told
  <2>2. /\ worker[w] # "waiting" /\ worker' = [worker EXCEPT ![w] = "free"]
        /\ UNCHANGED <<at, completed, world, published, pending>> /\ job' = job
    BY <1>3 DEF Decline
  <2> QED BY <2>1, <2>2, Aside
<1>4. CASE Leave(w)
  BY <1>4, Aside DEF Leave
<1>5. CASE RequestDeadline(w)
  BY <1>5, Moves DEF RequestDeadline
<1> QED BY <1>1, <1>2, <1>3, <1>4, <1>5, DispatchKeeps, TimeOutKeeps, ReturnKeeps DEF WorkerStep

(***************************************************************************)
(* Every step keeps the invariant.                                         *)
(***************************************************************************)
LEMMA NextKeeps == IInv /\ [Next]_vars => IInv'
<1> SUFFICES ASSUME IInv, [Next]_vars PROVE IInv'
  OBVIOUS
<1>1. CASE UNCHANGED vars \/ Exited
  BY <1>1, Moves DEF vars, Exited, requests
<1>2. CASE LeaveLoop
  BY <1>2, Moves DEF LeaveLoop, IInv, Held
<1>3. ASSUME NEW e \in Elapsed, Poll(e) PROVE IInv'
  BY <1>3, Moves DEF Poll
<1>4. CASE Tick
  <2>1. /\ UNCHANGED <<world, worker, published>> /\ at = "tick"
    BY <1>4 DEF Tick
  <2>2. CASE completed = None /\ ExecuteJob(batch.overload = 0, "tick_task", "publish")
    <3>1. (batch.overload = 0) \in BOOLEAN
      OBVIOUS
    <3> QED BY <2>1, <2>2, <3>1, ExecuteKeeps
  <2>3. CASE at' = "publish" /\ UNCHANGED <<pending, job, completed>>
    BY <2>1, <2>3, Moves DEF requests
  <2> QED BY <1>4, <2>2, <2>3 DEF Tick
<1>5. CASE Idle
  <2>1. /\ UNCHANGED <<world, worker, published>> /\ completed = None
        /\ ExecuteJob(FALSE, "idle_task", "poll")
    BY <1>5 DEF Idle, IInv, Held
  <2> QED BY <2>1, ExecuteKeeps
<1>6. CASE TickTask \/ IdleTask
  BY <1>6, TaskKeeps DEF TickTask, IdleTask
<1>7. CASE Publish
  BY <1>7, PublishKeeps
<1>8. CASE PublishFails \/ Fail
  BY <1>8, Moves DEF PublishFails, Fail
<1>9. CASE FinishTicks \/ FinishIdle
  BY <1>9, FinishKeeps
<1>10. CASE NotifyFailed \/ Drain
  BY <1>10, NotifyKeeps, DrainKeeps
<1>11. ASSUME NEW w \in Workers, Accept(w) \/ WorkerStep(w) \/ RequestDeadline(w)
       PROVE IInv'
  BY <1>11, WorkerKeeps
<1>12. CASE ProcessDeadline \/ CloseGateway \/ GatewayDone \/ MainStops \/ MainExits
  BY <1>12, Moves DEF ProcessDeadline, CloseGateway, GatewayDone, MainStops, MainExits
<1> QED BY <1>1, <1>2, <1>3, <1>4, <1>5, <1>6, <1>7, <1>8, <1>9, <1>10, <1>11, <1>12
        DEF Next, OwnerStep

(***************************************************************************)
(* The invariant of the owner loop the theorems below are read from.       *)
(***************************************************************************)
THEOREM Invariance == Spec => []IInv
<1> QED BY InitIInv, NextKeeps, PTL DEF Spec

(***************************************************************************)
(* No claimed closure outlives its waiter's stack.                         *)
(***************************************************************************)
THEOREM ClosuresAreSafe == Spec => []CapturesAlive
<1>1. IInv => CapturesAlive
  BY DEF IInv, Held, CapturesAlive
<1> QED BY <1>1, Invariance, PTL

(***************************************************************************)
(* A dispatch that gave up executed nothing.                               *)
(***************************************************************************)
THEOREM FalseMeansNothing == Spec => []RefusedNeverRan
<1>1. IInv => RefusedNeverRan
  BY OwnerLoopAssumption DEF IInv, Told, Held, RefusedNeverRan
<1> QED BY <1>1, Invariance, PTL

(***************************************************************************)
(* An acknowledged commit is in the publication readers see.               *)
(***************************************************************************)
THEOREM PublishedBeforeAck == Spec => []AckedIsPublished
<1>1. IInv => AckedIsPublished
  BY OwnerLoopAssumption DEF IInv, Told, Held, Owed, AckedIsPublished
<1> QED BY <1>1, Invariance, PTL
-----------------------------------------------------------------------------
(* Overtaking                                                              *)

(***************************************************************************)
(* Between ticks the owner leaves no read in the queue: of the reads there *)
(* the first could be claimed, whatever authoring jobs are before it.      *)
(***************************************************************************)
LEMMA IdleTakesReads ==
  ASSUME IInv, Idle, at' = "poll"
  PROVE  \A i \in 1 .. Len(pending') : job'[pending'[i]].authoring
<1> DEFINE live(m) == SubSeq(pending, m + 1, Len(pending))
           swept(m) == [w \in Workers |-> IF \E i \in 1 .. m : pending[i] = w
                                          THEN [job[w] EXCEPT !.state = "canceled"] ELSE job[w]]
<1>1. PICK n \in 0 .. Len(pending) :
        /\ pending' = live(n) /\ job' = swept(n)
        /\ \A i \in 1 .. Len(live(n)) : ~Claimable(live(n), FALSE, i)
  BY DEF Idle, ExecuteJob
<1>2. /\ job \in [Workers -> Jobs] /\ live(n) \in Seq(Workers) /\ Len(live(n)) \in Nat
  BY <1>1, Suffix, LenProperties DEF IInv, Types
<1> DEFINE L == live(n)
<1>3. \A i \in 1 .. Len(L) : L[i] \in Workers
  BY <1>2, ElementOfSeq
<1>4. \A w \in Workers : job'[w].authoring = job[w].authoring
  <2>1. ASSUME NEW w \in Workers PROVE [job[w] EXCEPT !.state = "canceled"].authoring = job[w].authoring
    BY <1>2 DEF Jobs
  <2> QED BY <1>1, <2>1
<1> DEFINE T == {i \in 1 .. Len(L) : ~job[L[i]].authoring}
<1>5. pending' = L /\ \A i \in 1 .. Len(L) : ~Claimable(L, FALSE, i)
  BY <1>1
<1> HIDE DEF L
<1>6. T = {}
  <2> SUFFICES ASSUME T # {} PROVE FALSE
    OBVIOUS
  <2>1. T \in SUBSET Nat
    BY <1>2
  <2>2. PICK i \in T : \A k \in T : i <= k
    BY <2>1, First
  <2>3. i \in 1 .. Len(L) /\ ~job[L[i]].authoring
    OBVIOUS
  <2>4. ASSUME NEW k \in 1 .. i - 1 PROVE job[L[k]].authoring
    <3>1. i \in Nat /\ Len(L) \in Nat
      BY <1>2, <2>3 DEF L
    <3>2. k \in 1 .. Len(L) /\ ~(i <= k)
      BY <2>3, <3>1
    <3> QED BY <2>2, <3>2
  <2> QED BY <1>5, <2>3, <2>4 DEF Claimable
<1> QED BY <1>3, <1>4, <1>5, <1>6

(***************************************************************************)
(* Only the idle owner goes from idle to poll.                             *)
(***************************************************************************)
LEMMA OnlyIdlePolls ==
  ASSUME [Next]_vars, at = "idle", at' = "poll"
  PROVE  Idle
<1>1. ASSUME NEW w \in Workers, Accept(w) \/ WorkerStep(w) \/ RequestDeadline(w) PROVE at' = at
  BY <1>1 DEF Accept, WorkerStep, Admit, Decline, Dispatch, TimeOut, Return, Leave, RequestDeadline
<1>2. CASE OwnerStep
  BY <1>2 DEF OwnerStep, LeaveLoop, Poll, Tick, TickTask, IdleTask, Task, Publish, PublishFails,
              FinishTicks, FinishIdle, Fail, NotifyFailed, Drain
<1> QED BY <1>1, <1>2 DEF Next, vars, Exited, ProcessDeadline, CloseGateway, GatewayDone,
                          MainStops, MainExits

(***************************************************************************)
(* A read does not wait for the next tick behind an authoring job: the     *)
(* owner takes the first read of the queue, for any queue.                 *)
(***************************************************************************)
THEOREM ReadsComeFirst == Spec => ReadsOvertake
<1>1. ASSUME IInv, [Next]_vars, at = "idle", at' = "poll"
      PROVE  \A i \in 1 .. Len(pending') : job'[pending'[i]].authoring
  BY <1>1, OnlyIdlePolls, IdleTakesReads
<1>2. IInv /\ [Next]_vars =>
        [at = "idle" /\ at' = "poll" =>
           \A i \in 1 .. Len(pending') : job'[pending'[i]].authoring]_vars
  BY <1>1
<1> QED BY <1>2, Invariance, PTL DEF Spec, ReadsOvertake
=============================================================================
