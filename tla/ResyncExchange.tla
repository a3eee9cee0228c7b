--------------------------- MODULE ResyncExchange ---------------------------
(***************************************************************************)
(* One session of the resync_only protocol: SDK clients that share its     *)
(* credentials, a host that serves one connection after the other and      *)
(* keeps no receipts, requests abandoned by their callers, renewal and the *)
(* end of the process.  Source: Host and run in src/src/control.cpp,       *)
(* src/sdk/python/omniweft_sdk/client.py and session.py.                   *)
(*                                                                         *)
(* backlog holds the connections not yet served, oldest first: the kernel  *)
(* hands them over in the order in which they were made, whether or not    *)
(* their caller still waits.  Malformed requests, which the host refuses   *)
(* before it looks at the session, are left out, and so is every reply the *)
(* SDK rejects as malformed: to a caller it is a lost one.                 *)
(***************************************************************************)
EXTENDS Exchange, Sequences, SequencesExt

CONSTANT Backlog  \* of listen()

(* None is no Client: a caller that does not use the SDK. *)
ASSUME ResyncAssumption ==
  /\ {MaxSequence, MaxEpoch, Backlog} \subseteq Nat \ {0}
  /\ None \notin Clients

Requests == {"capabilities", "observe", "transaction"}
Goals == {"capabilities", "observe", "resync", "transact"}

VARIABLES
  expired,  \* of Host
  running,  \* the host's process
  backlog,
  unaware   \* history: Clients with a commit that no receipt and no snapshot showed them

session == <<epoch, next, exhausted, expired, running>>
resyncVars == <<session, backlog, client, unaware>>

NewClient(e) ==
  [epoch |-> e,           \* _info
   next |-> 0,            \* _next, 0 for None
   negotiated |-> FALSE,  \* _caps is there
   uncertain |-> FALSE,
   goal |-> "none",       \* the public method that is executing
   request |-> "none",    \* the request it makes
   sent |-> FALSE]        \* and waits for

ResyncInit ==
  /\ epoch = 1 /\ next = 1 /\ exhausted = FALSE /\ expired = FALSE /\ running = TRUE
  /\ backlog = <<>> /\ unaware = {}
  /\ client = [c \in Clients |-> NewClient(1)]

-----------------------------------------------------------------------------
(* The caller's side.                                                      *)

Idle(k) == [k EXCEPT !.goal = "none", !.request = "none", !.sent = FALSE]

(* Seeded fault: a transaction whose answer is lost leaves no doubt. *)
MissedQuietly(k) == Idle(k)

(* No answer, or one that comes too late: OutcomeUnknown for a transaction, *)
(* ProtocolError for a read.                                                *)
Missed(k) == [Idle(k) EXCEPT !.uncertain = @ \/ k.request = "transaction"]

(* ApiError. *)
Refused(k, code) == [Idle(k) EXCEPT !.uncertain = @ \/ code = "REQUIRES_RESYNC"]

(* capabilities alone, or before the request it was needed for. *)
Negotiated(k) ==
  IF next < k.next THEN Missed(k)
  ELSE LET known == [k EXCEPT !.next = next, !.negotiated = TRUE, !.sent = FALSE] IN
       CASE k.goal = "capabilities" -> Idle(known)
         [] k.goal = "transact" -> [known EXCEPT !.request = "transaction"]
         [] OTHER -> [known EXCEPT !.request = "observe"]

Observed(k) ==
  IF next < k.next THEN Missed(k)
  ELSE [Idle(k) EXCEPT !.next = next, !.uncertain = @ /\ k.goal # "resync"]

(* Seeded fault: resync takes the doubt away before it has asked. *)
CallClearing(c, goal) ==
  /\ client[c].goal = "none"
  /\ goal = "transact" => ~client[c].uncertain
  /\ client' = [client EXCEPT ![c].goal = goal,
       ![c].uncertain = @ /\ goal # "resync",
       ![c].request = IF goal \in {"capabilities", "resync"} \/ ~client[c].negotiated
                        THEN "capabilities"
                        ELSE IF goal = "observe" THEN "observe" ELSE "transaction"]
  /\ UNCHANGED <<session, backlog, unaware>>

(* A public method, under the client's lock.  transact raises at once while *)
(* the client is uncertain.                                                 *)
Call(c, goal) ==
  /\ client[c].goal = "none"
  /\ goal = "transact" => ~client[c].uncertain
  /\ client' = [client EXCEPT ![c].goal = goal,
       ![c].request = IF goal \in {"capabilities", "resync"} \/ ~client[c].negotiated
                        THEN "capabilities"
                        ELSE IF goal = "observe" THEN "observe" ELSE "transaction"]
  /\ UNCHANGED <<session, backlog, unaware>>

(* No transaction is sent under the last sequence. *)
Exhaust(c) ==
  /\ client[c].request = "transaction" /\ ~client[c].sent
  /\ client[c].next >= MaxSequence
  /\ client' = [client EXCEPT ![c] = [Idle(@) EXCEPT !.uncertain = TRUE]]
  /\ UNCHANGED <<session, backlog, unaware>>

Send(c) ==
  LET k == client[c] IN
  /\ k.request # "none" /\ ~k.sent
  /\ k.request = "transaction" => k.next < MaxSequence
  /\ running /\ Len(backlog) < Backlog
  /\ backlog' = Append(backlog, [client |-> c, epoch |-> k.epoch, request |-> k.request,
                                 sequence |-> k.next, open |-> TRUE])
  /\ client' = [client EXCEPT ![c].sent = TRUE]
  /\ UNCHANGED <<session, unaware>>

Awaited(c, i) == backlog[i].client = c /\ backlog[i].open

(* The timer fires or the connection breaks, before it is made, while the  *)
(* request is written, or afterwards: then the host may still execute a    *)
(* transaction (an abandoned read has no effect and is forgotten).         *)
Abandon(c) ==
  /\ client[c].request # "none"
  /\ client' = [client EXCEPT ![c] = Missed(@)]
  /\ \/ \E i \in DOMAIN backlog : Awaited(c, i) /\ backlog' = RemoveAt(backlog, i)
     \/ (\A i \in DOMAIN backlog : ~Awaited(c, i)) /\ UNCHANGED backlog
     \/ /\ client[c].request = "transaction"
        /\ backlog' = [i \in DOMAIN backlog |->
             IF backlog[i].client = c THEN [backlog[i] EXCEPT !.open = FALSE] ELSE backlog[i]]
  /\ UNCHANGED <<session, unaware>>

-----------------------------------------------------------------------------
(* The host: one connection at a time.                                     *)

Authorized(q) == q.epoch = epoch /\ ~expired

Admissible(q) == ~exhausted /\ q.sequence = next

(* The connection at the head is done; what its caller makes of the answer *)
(* when it still waits and the answer arrives in time.                     *)
Heard(q, k) ==
  /\ backlog' = Tail(backlog)
  /\ client' = IF q.open THEN [client EXCEPT ![q.client] = k] ELSE client

Lost(q) ==
  /\ backlog' = Tail(backlog)
  /\ client' = IF q.open THEN [client EXCEPT ![q.client] = Missed(@)] ELSE client

(* The deadline passes, or the peer is gone: Closed, nothing happens. *)
Close ==
  /\ running /\ backlog # <<>>
  /\ Lost(Head(backlog))
  /\ UNCHANGED <<session, unaware>>

RefuseHead ==
  /\ running /\ backlog # <<>>
  /\ LET q == Head(backlog) IN
     \/ /\ ~Authorized(q)
        /\ \/ Lost(q)
           \/ q.open /\ Heard(q, Refused(client[q.client], "SESSION_EXPIRED"))
     \/ /\ Authorized(q) /\ q.request = "transaction" /\ ~Admissible(q)
        /\ \/ Lost(q)
           \/ q.open /\ Heard(q, Refused(client[q.client], "REQUIRES_RESYNC"))
  /\ UNCHANGED <<session, unaware>>

Read ==
  /\ running /\ backlog # <<>>
  /\ LET q == Head(backlog) IN
     /\ Authorized(q)
     /\ \/ /\ q.request = "capabilities"
           /\ Heard(q, Negotiated(client[q.client])) /\ UNCHANGED unaware
        \/ /\ q.request = "observe"
           /\ Heard(q, Observed(client[q.client])) /\ unaware' = unaware \ {q.client}
  /\ UNCHANGED session

(* The Client that made the request is still there. *)
Holds(q) == q.client # None /\ client[q.client].epoch = q.epoch

Received(k) == [Idle(k) EXCEPT !.next = next']

(* The key is consumed and the coordinator commits or rejects; the receipt *)
(* reaches the caller or not.                                              *)
Admit(committed) ==
  /\ running /\ backlog # <<>>
  /\ LET q == Head(backlog) IN
     /\ q.request = "transaction" /\ Authorized(q) /\ Admissible(q)
     /\ Consume
     /\ \/ /\ Lost(q)
           /\ unaware' = IF committed /\ Holds(q) THEN unaware \cup {q.client} ELSE unaware
        \/ q.open /\ Heard(q, Received(client[q.client])) /\ UNCHANGED unaware
  /\ UNCHANGED <<epoch, expired, running>>

ExpireSession ==
  /\ running /\ expired' = TRUE
  /\ UNCHANGED <<epoch, next, exhausted, running, backlog, client, unaware>>

(* The process ends, by its deadline, by stop or by being terminated. *)
Stop ==
  /\ running /\ running' = FALSE /\ backlog' = <<>>
  /\ UNCHANGED <<epoch, next, exhausted, expired, client, unaware>>

-----------------------------------------------------------------------------
(* The session and other callers.                                          *)

(* NativeSession.renew: new credentials, and a new Client that has them. *)
RenewSession(c) ==
  /\ running /\ epoch < MaxEpoch
  /\ client[c].goal = "none"
  /\ epoch' = epoch + 1 /\ next' = 1 /\ exhausted' = FALSE /\ expired' = FALSE
  /\ client' = [client EXCEPT ![c] = NewClient(epoch')]
  /\ unaware' = unaware \ {c}
  /\ UNCHANGED <<running, backlog>>

(* NativeSession.client in place of a Client of retired credentials. *)
Replace(c) ==
  /\ running /\ client[c].epoch < epoch
  /\ client[c].goal = "none"
  /\ client' = [client EXCEPT ![c] = NewClient(epoch)]
  /\ unaware' = unaware \ {c}
  /\ UNCHANGED <<session, backlog>>

(* A transaction from elsewhere under the session's credentials. *)
Post(sequence) ==
  /\ running /\ Len(backlog) < Backlog
  /\ backlog' = Append(backlog, [client |-> None, epoch |-> epoch, request |-> "transaction",
                                 sequence |-> sequence, open |-> FALSE])
  /\ UNCHANGED <<session, client, unaware>>

ResyncNext ==
  \/ \E c \in Clients :
       \/ \E goal \in Goals : Call(c, goal)
       \/ Exhaust(c) \/ Send(c) \/ Abandon(c) \/ RenewSession(c) \/ Replace(c)
  \/ Close \/ RefuseHead \/ Read \/ ExpireSession \/ Stop
  \/ \E committed \in BOOLEAN : Admit(committed)
  \/ \E s \in 1 .. MaxSequence : Post(s)

ResyncSpec == ResyncInit /\ [][ResyncNext]_resyncVars

-----------------------------------------------------------------------------

(* The types of the variables. *)
ResyncTypes ==
  /\ epoch \in 1 .. MaxEpoch /\ next \in 1 .. MaxSequence
  /\ exhausted \in BOOLEAN /\ expired \in BOOLEAN /\ running \in BOOLEAN
  /\ backlog \in Seq([client : Clients \cup {None}, epoch : 1 .. MaxEpoch,
                      request : Requests, sequence : 0 .. MaxSequence, open : BOOLEAN])
  /\ Len(backlog) <= Backlog
  /\ client \in [Clients -> [epoch : 1 .. MaxEpoch, next : 0 .. MaxSequence,
                             negotiated : BOOLEAN, uncertain : BOOLEAN,
                             goal : Goals \cup {"none"}, request : Requests \cup {"none"},
                             sent : BOOLEAN]]
  /\ unaware \subseteq Clients

(***************************************************************************)
(* A client that is certain has no abandoned transaction that could still  *)
(* be executed: a resync whose answers arrive comes after everything the   *)
(* client had sent before.                                                 *)
(***************************************************************************)
ResyncSettles ==
  \A i \in DOMAIN backlog : LET q == backlog[i] IN
    q.request = "transaction" /\ q.client # None /\ ~q.open =>
      client[q.client].uncertain \/ client[q.client].epoch # q.epoch

(***************************************************************************)
(* A client that is certain knows every commit of its own: it has the      *)
(* receipt, or a snapshot observed since then shows the effect.            *)
(***************************************************************************)
KnowsItsCommits == \A c \in unaware : client[c].uncertain
=============================================================================
