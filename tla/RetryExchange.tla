---------------------------- MODULE RetryExchange ----------------------------
(***************************************************************************)
(* One principal's mutations under policy.retry.v1: SDK clients prepare    *)
(* and submit transactions, the host admits each sequence of the session's *)
(* epoch once and keeps the receipts of the last few in a window, requests *)
(* and responses are delayed or lost, and credentials are renewed.         *)
(* Source: src/src/retry.cpp, PolicyHost in src/src/control.cpp,           *)
(* src/sdk/python/omniweft_sdk/retry.py and client.py.                     *)
(*                                                                         *)
(* Data abstractions.  A canonical payload is the transaction it carries:  *)
(* two are equal only for the same prepared request, and a receipt is      *)
(* named after the transaction whose application produced it, whether that *)
(* was committed or rejected.  A request whose caller                      *)
(* gave up is counted in stale while it can still reach the host.  Refused *)
(* stands for every answer given before the window is consulted (retired   *)
(* credentials, lease in use, malformed body).                             *)
(***************************************************************************)
EXTENDS Exchange

CONSTANTS
  Transactions,   \* transaction_ids
  WindowSize,     \* window_size
  MaxStale        \* bound on abandoned copies of one request in transit

Slots == 0 .. WindowSize - 1
Entries == [sequence : 0 .. MaxSequence, payload : Transactions \cup {None},
            receipt : Transactions \cup {None}]
NoEntry == [sequence |-> 0, payload |-> None, receipt |-> None]

\* "OK" is a reply that carries a receipt or a read, no error code.
Codes == {"OK", "REQUIRES_RESYNC", "IDEMPOTENCY_MISMATCH", "REFUSED"}
Replies == [code : Codes, receipt : Transactions \cup {None}, next : 0 .. MaxSequence]
Keys == [owner : Clients \cup {None}, epoch : 1 .. MaxEpoch, sequence : 0 .. MaxSequence]

(* None is neither a caller, a request, a call, a reply nor a key. *)
ASSUME RetryExchangeAssumption ==
  /\ WindowSize \in Nat \ {0}
  /\ MaxSequence \in Nat \ {0}
  /\ MaxEpoch \in Nat \ {0}
  /\ MaxStale \in Nat
  /\ None \notin Clients \cup Transactions \cup {"submit", "capabilities", "observe"}
  /\ None \notin Replies \cup Keys

VARIABLES
  window,       \* the receipts the host's session retains
  prepared,     \* the key each transaction was prepared under, or None
  stale,        \* abandoned copies of each transaction's request in transit
  executions,   \* history: how often the host applied the transaction
  outcome,      \* history: the receipt its application produced, or None
  replied       \* history: the receipts the host returned for each transaction

host == <<epoch, next, exhausted, window>>
history == <<executions, outcome, replied>>
vars == <<epoch, next, exhausted, window, client, prepared, stale, executions, outcome, replied>>

FreshClient(e) ==
  [epoch |-> e, next |-> 0, uncertain |-> FALSE, pending |-> None,
   call |-> None, reply |-> None]

Init ==
  /\ epoch = 1 /\ next = 1 /\ exhausted = FALSE
  /\ window = [i \in Slots |-> NoEntry]
  /\ client = [c \in Clients |-> FreshClient(1)]
  /\ prepared = [t \in Transactions |-> None]
  /\ stale = [t \in Transactions |-> 0]
  /\ executions = [t \in Transactions |-> 0]
  /\ outcome = [t \in Transactions |-> None]
  /\ replied = [t \in Transactions |-> {}]

-----------------------------------------------------------------------------
(* The host: Window::execute under the owner's boundary.                   *)

Sequence(t) == prepared[t].sequence
Current(t) == prepared[t].epoch = epoch

Kept(s) == {window[i] : i \in {j \in Slots : window[j].sequence = s}}

(* Seeded fault: a consumed key without a retained receipt is fresh again. *)
FreshWhenForgotten(t) ==
  \/ ~exhausted /\ Sequence(t) = next
  \/ Sequence(t) \in 1 .. next - 1 /\ Kept(Sequence(t)) = {}

(* The key is the next one: the transaction is to be executed. *)
Fresh(t) == ~exhausted /\ Sequence(t) = next

Answer(code, receipt) == [code |-> code, receipt |-> receipt, next |-> next']

(* The reply to a key already consumed, skipped, or zero. *)
RetainedReply(t) ==
  IF \/ Sequence(t) = 0
     \/ Kept(Sequence(t)) = {}
     \/ [sequence |-> Sequence(t), payload |-> t, receipt |-> None] \in Kept(Sequence(t))
  THEN Answer("REQUIRES_RESYNC", None)
  ELSE LET entry == CHOOSE e \in Kept(Sequence(t)) : TRUE IN
       IF entry.payload # t THEN Answer("IDEMPOTENCY_MISMATCH", None)
                            ELSE Answer("OK", entry.receipt)

(* Seeded fault: the reserved slot keeps its last occupant's receipt. *)
ReserveKeepingReceipt(t, receipt) ==
  LET slot == (next - 1) % WindowSize IN
  /\ window' = [window EXCEPT ![slot] =
       [sequence |-> next, payload |-> t,
        receipt |-> IF receipt = None THEN @.receipt ELSE receipt]]
  /\ Consume

(* The key is consumed and its slot taken before the transaction is applied; *)
(* receipt is None when the application threw.                               *)
Reserve(t, receipt) ==
  LET slot == (next - 1) % WindowSize IN
  /\ window' = [window EXCEPT ![slot] = [sequence |-> next, payload |-> t, receipt |-> receipt]]
  /\ Consume

(* What applying a fresh transaction returns: its receipt, or an exception. *)
Verdicts(t) == IF Fresh(t) THEN {t, None} ELSE {None}

HostReply(t, verdict) ==
  IF ~Fresh(t) THEN RetainedReply(t)
  ELSE IF verdict = None THEN Answer("REQUIRES_RESYNC", None)
  ELSE Answer("OK", verdict)

(* One request at the boundary. *)
Execute(t, verdict) ==
  /\ Current(t)
  /\ IF Fresh(t)
     THEN /\ Reserve(t, verdict)
          /\ executions' = [executions EXCEPT ![t] = @ + 1]
          /\ outcome' = [outcome EXCEPT ![t] = verdict]
     ELSE UNCHANGED <<next, exhausted, window, executions, outcome>>
  /\ replied' = IF HostReply(t, verdict).code # "OK" THEN replied
                ELSE [replied EXCEPT ![t] = @ \cup {HostReply(t, verdict).receipt}]
  /\ UNCHANGED <<epoch, prepared>>

(* An entry's two seconds are over (noticed by the next execute).  All      *)
(* entries live equally long, so the oldest goes first.                     *)
Expire(i) ==
  /\ window[i].sequence # 0
  /\ \A j \in Slots : window[j].sequence \in {0} \cup (window[i].sequence .. MaxSequence)
  /\ window' = [window EXCEPT ![i] = NoEntry]
  /\ UNCHANGED <<epoch, next, exhausted, client, prepared, stale, history>>

(* Seeded fault: renewal keeps the epoch. *)
RenewKeepingEpoch ==
  /\ epoch < MaxEpoch
  /\ next' = 1 /\ exhausted' = FALSE
  /\ window' = [i \in Slots |-> NoEntry]
  /\ UNCHANGED <<epoch, client, prepared, stale, history>>

(* PolicyHost::renew: new token and epoch, sequences restart. *)
Renew ==
  /\ epoch < MaxEpoch
  /\ epoch' = epoch + 1
  /\ next' = 1 /\ exhausted' = FALSE
  /\ window' = [i \in Slots |-> NoEntry]
  /\ UNCHANGED <<client, prepared, stale, history>>

-----------------------------------------------------------------------------
(* The client object.  Its lock admits one call at a time.                 *)

Ready(c) == client[c].call = None
Waiting(c) == client[c].call # None /\ client[c].reply = None
Answered(c) == client[c].reply # None

(* session.client() after a renewal. *)
Connect(c) ==
  /\ Ready(c)
  /\ client[c].epoch # epoch
  /\ client' = [client EXCEPT ![c] = FreshClient(epoch)]
  /\ UNCHANGED <<host, prepared, stale, history>>

(* prepare(): blocked by uncertainty or a pending request; the last sequence *)
(* is never used.                                                            *)
Prepare(c, t) ==
  /\ Ready(c)
  /\ prepared[t] = None
  /\ ~client[c].uncertain /\ client[c].pending = None
  /\ client[c].next # 0
  /\ IF client[c].next >= MaxSequence
     THEN /\ client' = [client EXCEPT ![c].uncertain = TRUE]
          /\ UNCHANGED prepared
     ELSE /\ client' = [client EXCEPT ![c].pending = t]
          /\ prepared' = [prepared EXCEPT ![t] =
               [owner |-> c, epoch |-> client[c].epoch, sequence |-> client[c].next]]
  /\ UNCHANGED <<host, stale, history>>

(* submit() of any handle this client prepared, also one already settled or *)
(* abandoned, unless another one is pending.                                *)
Submit(c, t) ==
  /\ Ready(c)
  /\ prepared[t] # None
  /\ prepared[t].owner = c /\ prepared[t].epoch = client[c].epoch
  /\ client[c].pending \in {None, t}
  /\ client[c].next # 0
  /\ client' = [client EXCEPT ![c].pending = t, ![c].call = "submit"]
  /\ UNCHANGED <<host, prepared, stale, history>>

(* resync() and resync_policy(): capabilities, then a second read. *)
Resync(c) ==
  /\ Ready(c)
  /\ client' = [client EXCEPT ![c].call = "capabilities"]
  /\ UNCHANGED <<host, prepared, stale, history>>

(* The host answers the awaited call. *)
ServeSubmit(c) ==
  /\ Waiting(c) /\ client[c].call = "submit"
  /\ LET t == client[c].pending IN
     \E verdict \in Verdicts(t) :
       /\ Execute(t, verdict)
       /\ client' = [client EXCEPT ![c].reply = HostReply(t, verdict)]
  /\ UNCHANGED stale

ServeRead(c) ==
  /\ Waiting(c) /\ client[c].call \in {"capabilities", "observe"}
  /\ client[c].epoch = epoch
  /\ client' = [client EXCEPT ![c].reply = [code |-> "OK", receipt |-> None, next |-> next]]
  /\ UNCHANGED <<host, prepared, stale, history>>

Refuse(c) ==
  /\ Waiting(c)
  /\ client' = [client EXCEPT ![c].reply = [code |-> "REFUSED", receipt |-> None, next |-> 0]]
  /\ UNCHANGED <<host, prepared, stale, history>>

(* The response to submit() arrives: accepted, or the outcome is unknown, or *)
(* an error code, of which REQUIRES_RESYNC makes the client uncertain.       *)
Settles(c, reply) ==
  /\ reply.code = "OK"
  /\ reply.next >= client[c].next
  /\ reply.next >= Sequence(client[c].pending) + 1
  /\ reply.receipt = client[c].pending

ReceiveSubmit(c) ==
  LET reply == client[c].reply
      idle == [client[c] EXCEPT !.call = None, !.reply = None]
  IN
  /\ client[c].call = "submit" /\ Answered(c)
  /\ client' = [client EXCEPT ![c] =
       IF Settles(c, reply)
         THEN [idle EXCEPT !.next = reply.next, !.pending = None, !.uncertain = FALSE]
       ELSE IF reply.code \in {"OK", "REQUIRES_RESYNC"}
         THEN [idle EXCEPT !.uncertain = TRUE]
       ELSE idle]
  /\ UNCHANGED <<host, prepared, stale, history>>

(* The response to a read arrives; the second one ends the resync. *)
ReceiveRead(c) ==
  LET reply == client[c].reply
      read == [client[c] EXCEPT !.next = reply.next, !.reply = None]
  IN
  /\ client[c].call \in {"capabilities", "observe"} /\ Answered(c)
  /\ client' = [client EXCEPT ![c] =
       IF reply.code # "OK" \/ reply.next < client[c].next
         THEN [client[c] EXCEPT !.call = None, !.reply = None]
       ELSE IF client[c].call = "capabilities"
         THEN [read EXCEPT !.call = "observe"]
       ELSE [read EXCEPT !.call = None, !.uncertain = FALSE, !.pending = None]]
  /\ UNCHANGED <<host, prepared, stale, history>>

(* The call times out or its connection breaks: a request not yet answered *)
(* may still be on its way to the host.                                    *)
GiveUp(c) ==
  LET t == client[c].pending IN
  /\ client[c].call # None
  /\ client' = [client EXCEPT ![c].call = None, ![c].reply = None,
                              ![c].uncertain = @ \/ client[c].call = "submit"]
  /\ \/ UNCHANGED stale
     \/ /\ Waiting(c) /\ client[c].call = "submit"
        /\ stale[t] < MaxStale
        /\ stale' = [stale EXCEPT ![t] = @ + 1]
  /\ UNCHANGED <<host, prepared, history>>

-----------------------------------------------------------------------------
(* Requests nobody waits for.                                              *)

(* Another client of the principal's credentials, not the SDK, posts a      *)
(* transaction under any sequence of the current epoch, once or repeatedly. *)
PostRaw(t, s) ==
  LET key == [owner |-> None, epoch |-> epoch, sequence |-> s] IN
  /\ prepared[t] \in {None, key}
  /\ stale[t] < MaxStale
  /\ prepared' = [prepared EXCEPT ![t] = key]
  /\ stale' = [stale EXCEPT ![t] = @ + 1]
  /\ UNCHANGED <<host, client, history>>

ServeStale(t) ==
  /\ stale[t] > 0
  /\ \E verdict \in Verdicts(t) : Execute(t, verdict)
  /\ stale' = [stale EXCEPT ![t] = @ - 1]
  /\ UNCHANGED client

(* It is lost, refused, or canceled at its deadline in the owner's queue. *)
LoseStale(t) ==
  /\ stale[t] > 0
  /\ stale' = [stale EXCEPT ![t] = @ - 1]
  /\ UNCHANGED <<host, client, prepared, history>>

Next ==
  \/ \E i \in Slots : Expire(i)
  \/ Renew
  \/ \E c \in Clients : \/ Connect(c) \/ Resync(c)
                        \/ ServeSubmit(c) \/ ServeRead(c) \/ Refuse(c)
                        \/ ReceiveSubmit(c) \/ ReceiveRead(c) \/ GiveUp(c)
  \/ \E c \in Clients, t \in Transactions : Prepare(c, t) \/ Submit(c, t)
  \/ \E t \in Transactions, s \in 0 .. MaxSequence : PostRaw(t, s)
  \/ \E t \in Transactions : ServeStale(t) \/ LoseStale(t)

Spec == Init /\ [][Next]_vars

-----------------------------------------------------------------------------
(* Properties.                                                             *)

(* Every variable has its type; entries sit in the slot of their sequence. *)
TypeOK ==
  /\ epoch \in 1 .. MaxEpoch /\ next \in 1 .. MaxSequence /\ exhausted \in BOOLEAN
  /\ window \in [Slots -> Entries]
  /\ \A i \in Slots : window[i].sequence # 0 => i = (window[i].sequence - 1) % WindowSize
  /\ client \in [Clients -> [epoch : 1 .. MaxEpoch, next : 0 .. MaxSequence,
                             uncertain : BOOLEAN, pending : Transactions \cup {None},
                             call : {None, "submit", "capabilities", "observe"},
                             reply : Replies \cup {None}]]
  /\ prepared \in [Transactions -> Keys \cup {None}]
  /\ stale \in [Transactions -> 0 .. MaxStale]
  /\ executions \in [Transactions -> Nat]
  /\ outcome \in [Transactions -> Transactions \cup {None}]
  /\ replied \in [Transactions -> SUBSET Transactions]

(* No transaction is applied twice and no key is used for two, whatever is  *)
(* retried, delayed past a resync, evicted, expired or renewed: a key that  *)
(* left the window is refused, never treated as new.                        *)
Executed(t) == executions[t] > 0

ExecutedOnce ==
  /\ \A t \in Transactions : executions[t] <= 1
  /\ \A t, u \in Transactions :
       Executed(t) /\ Executed(u) /\ t # u =>
         <<prepared[t].epoch, Sequence(t)>> # <<prepared[u].epoch, Sequence(u)>>

(* Every receipt the host returns for a transaction, at once or as a replay *)
(* long after, is the one its only application produced.                    *)
RepliesAreOriginal ==
  \A t \in Transactions : replied[t] \subseteq {outcome[t]}

(* A client that has seen next_sequence n may rely on it: nothing below n   *)
(* is applied any more in that epoch, so what its reads show of those keys  *)
(* is final.  (A resync that saw its own abandoned key as the next one may  *)
(* still see that request applied; see ExecutedOnce.)                       *)
SettledBelowWatermark ==
  [][\A t \in Transactions, c \in Clients :
       executions'[t] # executions[t] /\ client[c].epoch = prepared[t].epoch
         => client[c].next <= Sequence(t)]_vars

=============================================================================
