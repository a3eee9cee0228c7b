--------------------------- MODULE ExchangeProofs ---------------------------
(***************************************************************************)
(* Proofs about the two exchanges of the SDK with its hosts.               *)
(*                                                                         *)
(* The retained-receipt exchange, for every number of clients and          *)
(* transactions, every window and every last sequence.  The argument: an   *)
(* executed key lies below the host's next one in its epoch, or is the     *)
(* exhausted last, so it is never fresh again; an entry of the window is   *)
(* the outcome of an executed transaction; and nothing a client has read   *)
(* of its epoch is ahead of the host.                                      *)
(*                                                                         *)
(* The resync_only exchange, for every number of clients, backlog and last *)
(* sequence.  The argument: connections are served in order, and a client  *)
(* that waits for one has sent nothing after it.                           *)
(***************************************************************************)
EXTENDS RetryExchange, ResyncExchange, SequenceTheorems, TLAPS

\* Sequences of the current epoch that the host has consumed.
Consumed(s) == s < next \/ (exhausted /\ s = next)

\* An executed transaction has a key, consumed if of this epoch, and its own.
KeysConsumed ==
  /\ exhausted => next = MaxSequence
  /\ \A t \in Transactions : Executed(t) =>
       prepared[t] # None /\ (Current(t) => Consumed(Sequence(t)))
  /\ ExecutedOnce

HoldsOutcome(entry) ==
  LET t == entry.payload IN
  /\ t \in Transactions /\ Executed(t) /\ Current(t)
  /\ Sequence(t) = entry.sequence
  /\ entry.receipt = outcome[t]

\* The window holds outcomes, and only what was executed has been answered.
EntriesAreOutcomes ==
  /\ \A i \in Slots : window[i].sequence # 0 => HoldsOutcome(window[i])
  /\ \A t \in Transactions : ~Executed(t) => replied[t] = {}
  /\ RepliesAreOriginal

\* A request in transit has a key; keys are of this epoch or an earlier one.
RequestsHaveKeys ==
  /\ \A c \in Clients :
       /\ client[c].call = "submit" => client[c].pending # None
       /\ client[c].pending # None => prepared[client[c].pending] # None
  /\ \A t \in Transactions :
       /\ stale[t] > 0 => prepared[t] # None
       /\ prepared[t] # None => prepared[t].epoch <= epoch

\* What a client knows of the current epoch, or is being told, the host has reached.
ClientsBehind ==
  \A c \in Clients :
    /\ client[c].epoch <= epoch
    /\ client[c].epoch = epoch =>
         client[c].next <= next /\ (client[c].reply # None => client[c].reply.next <= next)

IInv == TypeOK /\ KeysConsumed /\ EntriesAreOutcomes /\ RequestsHaveKeys /\ ClientsBehind

-----------------------------------------------------------------------------
(* The host.                                                               *)

HostTypes ==
  /\ next \in 1 .. MaxSequence /\ exhausted \in BOOLEAN
  /\ window \in [Slots -> Entries]
  /\ \A i \in Slots : window[i].sequence # 0 => i = (window[i].sequence - 1) % WindowSize
  /\ executions \in [Transactions -> Nat]
  /\ outcome \in [Transactions -> Transactions \cup {None}]
  /\ replied \in [Transactions -> SUBSET Transactions]

(***************************************************************************)
(* A fresh key is executed: next moves on or the epoch is exhausted, and   *)
(* the reserved slot holds the outcome.                                    *)
(***************************************************************************)
LEMMA FreshKeeps ==
  ASSUME IInv, NEW t \in Transactions, prepared[t] # None, NEW verdict \in Verdicts(t),
         Execute(t, verdict), Fresh(t)
  PROVE  /\ HostTypes' /\ KeysConsumed' /\ EntriesAreOutcomes'
         /\ next <= next' /\ HostReply(t, verdict) \in Replies
         /\ HostReply(t, verdict).next = next'
<1> DEFINE slot == (next - 1) % WindowSize
           entry == [sequence |-> next, payload |-> t, receipt |-> verdict]
<1>0. TypeOK /\ KeysConsumed /\ EntriesAreOutcomes /\ prepared[t].epoch = epoch
      /\ Sequence(t) = next /\ verdict \in {t, None} /\ prepared[t] \in Keys
  BY DEF IInv, Fresh, Execute, Current, Verdicts, TypeOK
<1>1. ~Executed(t) /\ executions[t] = 0
  BY <1>0 DEF KeysConsumed, Consumed, Current, Executed, TypeOK, Fresh
<1>2. slot \in Slots /\ entry \in Entries
  <2>1. next \in 1 .. MaxSequence /\ WindowSize \in Nat \ {0} /\ MaxSequence \in Nat
    BY <1>0, RetryExchangeAssumption DEF TypeOK
  <2>2. slot \in Slots
    BY <2>1 DEF Slots
  <2>3. entry \in Entries
    BY <1>0, <2>1 DEF Entries
  <2> QED BY <2>2, <2>3
<1>3. /\ window' = [window EXCEPT ![slot] = entry]
      /\ executions' = [executions EXCEPT ![t] = @ + 1]
      /\ outcome' = [outcome EXCEPT ![t] = verdict]
      /\ epoch' = epoch /\ prepared' = prepared
      /\ \/ next = MaxSequence /\ exhausted' = TRUE /\ next' = next
         \/ next # MaxSequence /\ next' = next + 1 /\ exhausted' = exhausted
  BY DEF Execute, Reserve, Consume
<1>4. /\ HostReply(t, verdict) \in Replies /\ HostReply(t, verdict).next = next'
      /\ HostReply(t, verdict).code = "OK" => HostReply(t, verdict).receipt = verdict /\ verdict = t
  <2>1. next' \in 0 .. MaxSequence /\ "OK" \in Codes /\ "REQUIRES_RESYNC" \in Codes
    <3> HIDE DEF slot, entry
    <3>1. next \in 1 .. MaxSequence /\ MaxSequence \in Nat
      BY <1>0, RetryExchangeAssumption DEF TypeOK
    <3>2. next' = next \/ (next # MaxSequence /\ next' = next + 1)
      BY <1>3
    <3>3. next' \in 0 .. MaxSequence
      BY ONLY <3>1, <3>2
    <3> QED BY <3>3 DEF Codes
  <2>2. HostReply(t, verdict) =
          IF verdict = None THEN [code |-> "REQUIRES_RESYNC", receipt |-> None, next |-> next']
                            ELSE [code |-> "OK", receipt |-> verdict, next |-> next']
    BY DEF HostReply, Answer
  <2>3. CASE verdict = None
    <3>1. HostReply(t, verdict) \in Replies
      BY <2>1, <2>2, <2>3 DEF Replies
    <3> QED BY <2>2, <2>3, <3>1
  <2>4. CASE verdict # None
    <3>1. HostReply(t, verdict) \in Replies /\ verdict = t
      BY <1>0, <2>1, <2>2, <2>4 DEF Replies
    <3> QED BY <2>2, <2>4, <3>1
  <2> QED BY <2>3, <2>4
<1>5. replied' \in [Transactions -> SUBSET Transactions] /\ replied'[t] \subseteq {verdict}
      /\ \A u \in Transactions \ {t} : replied'[u] = replied[u]
  <2>1. replied[t] = {} /\ replied \in [Transactions -> SUBSET Transactions]
    BY <1>0, <1>1 DEF EntriesAreOutcomes, TypeOK
  <2>2. \/ replied' = replied
        \/ replied' = [replied EXCEPT ![t] = @ \cup {t}] /\ verdict = t
    BY <1>4 DEF Execute
  <2> QED BY <2>1, <2>2
<1>6. HostTypes'
  <2>1. next' \in 1 .. MaxSequence
    <3> HIDE DEF slot, entry
    <3>1. next \in 1 .. MaxSequence /\ MaxSequence \in Nat
      BY <1>0, RetryExchangeAssumption DEF TypeOK
    <3>2. next' = next \/ (next # MaxSequence /\ next' = next + 1)
      BY <1>3
    <3> QED BY ONLY <3>1, <3>2
  <2>6. exhausted' \in BOOLEAN
    BY <1>0, <1>3 DEF TypeOK
  <2>2. window' \in [Slots -> Entries]
    <3> HIDE DEF slot, entry
    <3> QED BY <1>0, <1>2, <1>3 DEF TypeOK
  <2>3. executions' \in [Transactions -> Nat]
    BY <1>0, <1>3 DEF TypeOK
  <2>4. outcome' \in [Transactions -> Transactions \cup {None}]
    BY <1>0, <1>3 DEF TypeOK
  <2>5. \A i \in Slots : window'[i].sequence # 0 => i = (window'[i].sequence - 1) % WindowSize
    BY <1>0, <1>2, <1>3 DEF TypeOK
  <2> QED
    BY <1>5, <2>1, <2>2, <2>3, <2>4, <2>5, <2>6 DEF HostTypes
<1>7. KeysConsumed'
  <2>1. \A u \in Transactions : Executed(u)' <=> Executed(u) \/ u = t
    BY <1>0, <1>1, <1>3 DEF Executed, TypeOK
  <2>2. (exhausted => next = MaxSequence)' /\ Consumed(Sequence(t))'
        /\ \A s \in 0 .. MaxSequence : Consumed(s) => Consumed(s)'
    BY <1>0, <1>3 DEF KeysConsumed, Consumed, TypeOK, Sequence
  <2>3. \A u \in Transactions : Executed(u)' =>
          prepared'[u] # None /\ (Current(u)' => Consumed(Sequence(u))')
    <3> SUFFICES ASSUME NEW u \in Transactions, Executed(u)'
                 PROVE  prepared'[u] # None /\ (Current(u)' => Consumed(Sequence(u))')
      OBVIOUS
    <3>1. prepared[u] # None /\ prepared[u] \in Keys /\ prepared'[u] = prepared[u]
      BY <1>0, <1>3, <2>1 DEF KeysConsumed, TypeOK
    <3>2. Sequence(u)' = Sequence(u) /\ Sequence(u) \in 0 .. MaxSequence
      BY <3>1 DEF Sequence, Keys
    <3>3. CASE u = t
      BY <3>1, <3>3, <2>2
    <3>4. CASE u # t
      BY <1>0, <1>3, <2>1, <2>2, <3>1, <3>2, <3>4 DEF KeysConsumed, Current, Consumed
    <3> QED BY <3>3, <3>4
  <2>4. \A u \in Transactions : executions'[u] <= 1
    BY <1>0, <1>1, <1>3 DEF KeysConsumed, ExecutedOnce, TypeOK
  <2>5. \A u \in Transactions : Executed(u) =>
          <<prepared[t].epoch, Sequence(t)>> # <<prepared[u].epoch, Sequence(u)>>
    BY <1>0 DEF KeysConsumed, Consumed, Current, TypeOK, Fresh
  <2>6. \A u, v \in Transactions : Executed(u)' /\ Executed(v)' /\ u # v =>
          <<prepared[u].epoch, Sequence(u)>> # <<prepared[v].epoch, Sequence(v)>>
    BY <1>0, <2>1, <2>5 DEF KeysConsumed, ExecutedOnce
  <2>7. ExecutedOnce'
    BY <1>3, <2>4, <2>6 DEF ExecutedOnce, Sequence
  <2> QED
    BY <2>2, <2>3, <2>7 DEF KeysConsumed
<1>8. EntriesAreOutcomes'
  <2>1. \A u \in Transactions : Executed(u)' <=> Executed(u) \/ u = t
    BY <1>0, <1>1, <1>3 DEF Executed, TypeOK
  <2>2. ASSUME NEW i \in Slots, window'[i].sequence # 0
        PROVE  HoldsOutcome(window[i])'
    <3>1. CASE i = slot
      <4>1. window'[i] = entry /\ outcome'[t] = verdict /\ Executed(t)'
        BY <1>0, <1>2, <1>3, <2>1, <3>1 DEF TypeOK
      <4>2. prepared'[t].epoch = epoch' /\ prepared'[t].sequence = next
        BY <1>0, <1>3 DEF Sequence
      <4> QED
        BY <4>1, <4>2 DEF HoldsOutcome, Executed, Current, Sequence
    <3>2. CASE i # slot
      <4>1. window'[i] = window[i]
        BY <1>0, <1>3, <3>2 DEF TypeOK
      <4>2. HoldsOutcome(window[i]) /\ window[i].payload # t
        BY <1>0, <1>1, <2>2, <4>1 DEF EntriesAreOutcomes, HoldsOutcome
      <4>3. /\ outcome'[window[i].payload] = outcome[window[i].payload]
            /\ executions'[window[i].payload] = executions[window[i].payload]
        BY <1>0, <1>3, <4>2 DEF HoldsOutcome, TypeOK
      <4> QED
        BY <1>3, <4>1, <4>2, <4>3 DEF HoldsOutcome, Executed, Current, Sequence
    <3> QED BY <3>1, <3>2
  <2>3. \A u \in Transactions : ~Executed(u)' => replied'[u] = {}
    BY <1>0, <1>5, <2>1 DEF EntriesAreOutcomes
  <2>4. \A u \in Transactions : replied'[u] \subseteq {outcome'[u]}
    BY <1>0, <1>3, <1>5 DEF EntriesAreOutcomes, RepliesAreOriginal, TypeOK
  <2> QED
    BY <2>2, <2>3, <2>4 DEF EntriesAreOutcomes, RepliesAreOriginal
<1>9. next <= next'
  BY <1>0, <1>3 DEF TypeOK
<1> QED
  BY <1>4, <1>6, <1>7, <1>8, <1>9

(***************************************************************************)
(* Any other key is answered from the window, with the outcome or with a   *)
(* refusal, and nothing is executed.                                       *)
(***************************************************************************)
LEMMA RetainedKeeps ==
  ASSUME IInv, NEW t \in Transactions, prepared[t] # None, NEW verdict \in Verdicts(t),
         Execute(t, verdict), ~Fresh(t)
  PROVE  /\ HostTypes' /\ KeysConsumed' /\ EntriesAreOutcomes'
         /\ next <= next' /\ HostReply(t, verdict) \in Replies
         /\ HostReply(t, verdict).next = next'
<1> DEFINE reply == HostReply(t, verdict)
<1>0. TypeOK /\ KeysConsumed /\ EntriesAreOutcomes /\ prepared[t] \in Keys
  BY DEF IInv, TypeOK
<1>1. /\ UNCHANGED <<next, exhausted, window, executions, outcome, epoch, prepared>>
      /\ reply = RetainedReply(t)
  BY DEF Execute, HostReply
<1>2. /\ reply \in Replies /\ reply.next = next'
      /\ reply.code = "OK" => Executed(t) /\ reply.receipt = outcome[t] /\ reply.receipt \in Transactions
  <2>1. CASE reply = Answer("REQUIRES_RESYNC", None) \/ reply = Answer("IDEMPOTENCY_MISMATCH", None)
    <3>1. next' \in 0 .. MaxSequence /\ "REQUIRES_RESYNC" \in Codes /\ "IDEMPOTENCY_MISMATCH" \in Codes
      BY <1>0, <1>1 DEF TypeOK, Codes
    <3> HIDE DEF reply
    <3> QED BY <2>1, <3>1 DEF Answer, Replies
  <2>2. CASE ~(reply = Answer("REQUIRES_RESYNC", None) \/ reply = Answer("IDEMPOTENCY_MISMATCH", None))
    <3> DEFINE entry == CHOOSE e \in Kept(Sequence(t)) : TRUE
    <3>1. /\ Sequence(t) # 0 /\ Kept(Sequence(t)) # {}
          /\ [sequence |-> Sequence(t), payload |-> t, receipt |-> None] \notin Kept(Sequence(t))
          /\ entry.payload = t /\ reply = Answer("OK", entry.receipt)
      BY <1>1, <2>2 DEF RetainedReply
    <3>2. PICK i \in Slots : entry = window[i] /\ window[i].sequence = Sequence(t)
      BY <3>1 DEF Kept
    <3>3. Executed(t) /\ entry.receipt = outcome[t]
      BY <1>0, <3>1, <3>2 DEF EntriesAreOutcomes, HoldsOutcome
    <3>4. entry \in Entries /\ entry \in Kept(Sequence(t))
      <4>1. entry \in Kept(Sequence(t))
        BY <3>1
      <4>2. window[i] \in Entries
        BY <1>0 DEF TypeOK
      <4> QED BY <3>2, <4>1, <4>2
    <3>5. entry.receipt # None
      BY <3>1, <3>2, <3>4 DEF Entries
    <3>6. next' \in 0 .. MaxSequence /\ "OK" \in Codes /\ entry.receipt \in Transactions
      BY <1>0, <1>1, <3>4, <3>5 DEF TypeOK, Entries, Codes
    <3> HIDE DEF entry
    <3> QED
      BY <3>1, <3>3, <3>6 DEF Answer, Replies
  <2> QED BY <2>1, <2>2
<1>3. /\ replied' \in [Transactions -> SUBSET Transactions]
      /\ \A u \in Transactions : replied'[u] = replied[u] \/ (Executed(u) /\ replied'[u] = replied[u] \cup {outcome[u]})
  BY <1>0, <1>2 DEF Execute, TypeOK
<1>4. HostTypes'
  BY <1>0, <1>1, <1>3 DEF HostTypes, TypeOK
<1>5. KeysConsumed'
  BY <1>0, <1>1 DEF KeysConsumed, Consumed, Executed, ExecutedOnce, Current, Sequence
<1>6. EntriesAreOutcomes'
  <2>1. \A i \in Slots : HoldsOutcome(window[i])' <=> HoldsOutcome(window[i])
    BY <1>1 DEF HoldsOutcome, Executed, Current, Sequence
  <2>2. \A u \in Transactions : Executed(u)' <=> Executed(u)
    BY <1>1 DEF Executed
  <2>3. \A u \in Transactions : ~Executed(u) => replied'[u] = {}
    BY <1>0, <1>3 DEF EntriesAreOutcomes
  <2>4. RepliesAreOriginal'
    BY <1>0, <1>1, <1>3 DEF EntriesAreOutcomes, RepliesAreOriginal
  <2> QED BY <1>0, <1>1, <2>1, <2>2, <2>3, <2>4 DEF EntriesAreOutcomes
<1> QED
  <2>1. next <= next'
    BY <1>0, <1>1 DEF TypeOK
  <2> HIDE DEF reply
  <2>2. reply = HostReply(t, verdict)
    BY DEF reply
  <2> QED BY <1>2, <1>4, <1>5, <1>6, <2>1, <2>2

(* A request at the boundary keeps what is the host's, and the session. *)
LEMMA ExecuteKeeps ==
  ASSUME IInv, NEW t \in Transactions, prepared[t] # None, NEW verdict \in Verdicts(t),
         Execute(t, verdict)
  PROVE  /\ HostTypes' /\ KeysConsumed' /\ EntriesAreOutcomes'
         /\ next <= next' /\ HostReply(t, verdict) \in Replies
         /\ HostReply(t, verdict).next = next'
         /\ epoch' = epoch /\ prepared' = prepared
<1>1. epoch' = epoch /\ prepared' = prepared
  BY DEF Execute
<1> QED
  BY <1>1, FreshKeeps, RetainedKeeps

-----------------------------------------------------------------------------
(* The clients and the requests in transit.                                *)

Client == [epoch : 1 .. MaxEpoch, next : 0 .. MaxSequence,
           uncertain : BOOLEAN, pending : Transactions \cup {None},
           call : {None, "submit", "capabilities", "observe"},
           reply : Replies \cup {None}]

\* What the invariant says of a client object k, given the keys.
Sound(k, keys) ==
  /\ k \in Client
  /\ k.call = "submit" => k.pending # None
  /\ k.pending # None => keys[k.pending] # None
  /\ k.epoch <= epoch
  /\ k.epoch = epoch => k.next <= next /\ (k.reply # None => k.reply.next <= next)

\* Keys are only added, and what is in transit has one.
KeysGrow ==
  /\ prepared' \in [Transactions -> Keys \cup {None}]
  /\ stale' \in [Transactions -> 0 .. MaxStale]
  /\ \A t \in Transactions :
       /\ prepared[t] # None => prepared'[t] = prepared[t]
       /\ prepared'[t] # None => prepared'[t].epoch <= epoch
       /\ stale'[t] > 0 => prepared'[t] # None

(***************************************************************************)
(* A step that leaves the host alone and only adds keys keeps the          *)
(* invariant when the client objects stay sound.                           *)
(***************************************************************************)
LEMMA OutsideKeeps ==
  ASSUME IInv, UNCHANGED <<host, history>>, KeysGrow,
         client' \in [Clients -> Client],
         \A c \in Clients : Sound(client'[c], prepared')
  PROVE  IInv'
<1>1. TypeOK /\ KeysConsumed /\ EntriesAreOutcomes
  BY DEF IInv
<1>2. UNCHANGED <<epoch, next, exhausted, window, executions, outcome, replied>>
  BY DEF host, history
<1>3. TypeOK'
  BY <1>1, <1>2 DEF TypeOK, Client, KeysGrow
<1>4. \A t \in Transactions : Executed(t)' <=> Executed(t)
  BY <1>2 DEF Executed
<1>5. \A t \in Transactions : Executed(t) => prepared[t] # None /\ prepared'[t] = prepared[t]
  BY <1>1 DEF KeysConsumed, KeysGrow
<1>6. KeysConsumed'
  <2>1. ExecutedOnce'
    BY <1>1, <1>2, <1>4, <1>5 DEF KeysConsumed, ExecutedOnce, Sequence
  <2>2. \A t \in Transactions : Executed(t)' =>
          prepared'[t] # None /\ (Current(t)' => Consumed(Sequence(t))')
    BY <1>1, <1>2, <1>4, <1>5 DEF KeysConsumed, Consumed, Current, Sequence
  <2> QED BY <1>1, <1>2, <2>1, <2>2 DEF KeysConsumed
<1>7. EntriesAreOutcomes'
  <2>1. ASSUME NEW i \in Slots, window[i].sequence # 0
        PROVE  HoldsOutcome(window[i])'
    <3>1. HoldsOutcome(window[i]) /\ window[i].payload \in Transactions /\ Executed(window[i].payload)
      BY <1>1, <2>1 DEF EntriesAreOutcomes, HoldsOutcome
    <3>2. prepared'[window[i].payload] = prepared[window[i].payload]
      BY <1>5, <3>1
    <3> QED BY <1>2, <3>1, <3>2 DEF HoldsOutcome, Executed, Current, Sequence
  <2> QED BY <1>1, <1>2, <1>4, <2>1 DEF EntriesAreOutcomes, RepliesAreOriginal
<1>8. RequestsHaveKeys' /\ ClientsBehind'
  BY <1>2 DEF RequestsHaveKeys, ClientsBehind, Sound, KeysGrow
<1> QED
  BY <1>3, <1>6, <1>7, <1>8 DEF IInv

(* The invariant says that every client object is sound. *)
LEMMA ClientsSound ==
  ASSUME IInv
  PROVE  /\ client \in [Clients -> Client]
         /\ \A c \in Clients : Sound(client[c], prepared)
BY DEF IInv, TypeOK, RequestsHaveKeys, ClientsBehind, Sound, Client

LEMMA KeysUnchanged ==
  ASSUME IInv, UNCHANGED <<prepared, stale>>
  PROVE  KeysGrow
BY DEF IInv, TypeOK, RequestsHaveKeys, KeysGrow

(* One client object changes and stays sound. *)
LEMMA ClientStepKeeps ==
  ASSUME IInv, UNCHANGED <<host, history>>, KeysGrow,
         NEW c \in Clients, NEW k, client' = [client EXCEPT ![c] = k], Sound(k, prepared')
  PROVE  IInv'
<1>1. client \in [Clients -> Client] /\ k \in Client
  BY ClientsSound DEF Sound
<1>2. client' \in [Clients -> Client]
  BY <1>1
<1>3. \A d \in Clients : Sound(client'[d], prepared')
  <2> SUFFICES ASSUME NEW d \in Clients PROVE Sound(client'[d], prepared')
    OBVIOUS
  <2>1. CASE client'[d] = k
    BY <2>1 DEF Sound
  <2>2. CASE client'[d] = client[d]
    BY <2>2, ClientsSound DEF Sound, KeysGrow, Client
  <2> QED BY <1>1, <2>1, <2>2
<1> QED
  BY <1>2, <1>3, OutsideKeeps

-----------------------------------------------------------------------------
(* The actions.                                                            *)

LEMMA ConnectKeeps == ASSUME IInv, NEW c \in Clients, Connect(c) PROVE IInv'
<1>1. KeysGrow /\ UNCHANGED <<host, history>>
  BY KeysUnchanged DEF Connect
<1>2. FreshClient(epoch) \in Client
  BY RetryExchangeAssumption DEF IInv, TypeOK, FreshClient, Client
<1>3. Sound(FreshClient(epoch), prepared')
  BY <1>1, <1>2, RetryExchangeAssumption DEF IInv, TypeOK, Sound, FreshClient, host, Client
<1> QED
  BY <1>1, <1>3, ClientStepKeeps DEF Connect

(* Both outcomes of prepare(): the last sequence, or a key for t. *)
LEMMA PrepareKeeps ==
  ASSUME IInv, NEW c \in Clients, NEW t \in Transactions, Prepare(c, t) PROVE IInv'
<1>1. UNCHANGED <<host, stale, history>> /\ Sound(client[c], prepared) /\ client \in [Clients -> Client]
  BY ClientsSound DEF Prepare
<1>2. CASE client[c].next >= MaxSequence
  <2> DEFINE k == [client[c] EXCEPT !.uncertain = TRUE]
  <2>1. client' = [client EXCEPT ![c] = k] /\ KeysGrow
    BY <1>1, <1>2, KeysUnchanged DEF Prepare
  <2>2. Sound(k, prepared')
    BY <1>1, <2>1 DEF Sound, Client, KeysGrow
  <2> QED BY <1>1, <2>1, <2>2, ClientStepKeeps
<1>3. CASE ~(client[c].next >= MaxSequence)
  <2> DEFINE key == [owner |-> c, epoch |-> client[c].epoch, sequence |-> client[c].next]
             k == [client[c] EXCEPT !.pending = t]
  <2>1. /\ client' = [client EXCEPT ![c] = k]
        /\ prepared' = [prepared EXCEPT ![t] = key] /\ prepared[t] = None
    BY <1>1, <1>3 DEF Prepare
  <2>2. key \in Keys /\ key # None /\ key.epoch <= epoch
    BY <1>1, RetryExchangeAssumption DEF Sound, Client, Keys
  <2>3. KeysGrow
    <3> HIDE DEF key
    <3> QED BY <1>1, <2>1, <2>2 DEF KeysGrow, IInv, TypeOK, RequestsHaveKeys
  <2>4. prepared'[t] # None
    BY <2>1, <2>2 DEF IInv, TypeOK
  <2>5. Sound(k, prepared')
    BY <1>1, <2>3, <2>4, RetryExchangeAssumption DEF Sound, Client, KeysGrow
  <2> QED BY <1>1, <2>1, <2>3, <2>5, ClientStepKeeps
<1> QED BY <1>2, <1>3

LEMMA SubmitKeeps ==
  ASSUME IInv, NEW c \in Clients, NEW t \in Transactions, Submit(c, t) PROVE IInv'
<1> DEFINE k == [client[c] EXCEPT !.pending = t, !.call = "submit"]
<1>1. UNCHANGED <<host, prepared, stale, history>> /\ Sound(client[c], prepared) /\ KeysGrow
  BY ClientsSound, KeysUnchanged DEF Submit
<1>2. client' = [client EXCEPT ![c] = k] /\ prepared[t] # None
  BY ClientsSound DEF Submit
<1>3. Sound(k, prepared')
  BY <1>1, <1>2, RetryExchangeAssumption DEF Sound, Client
<1> QED BY <1>1, <1>2, <1>3, ClientStepKeeps

LEMMA ResyncKeeps == ASSUME IInv, NEW c \in Clients, Resync(c) PROVE IInv'
<1> DEFINE k == [client[c] EXCEPT !.call = "capabilities"]
<1>1. UNCHANGED <<host, prepared, stale, history>> /\ Sound(client[c], prepared) /\ KeysGrow
  BY ClientsSound, KeysUnchanged DEF Resync
<1>2. client' = [client EXCEPT ![c] = k]
  BY ClientsSound DEF Resync
<1>3. Sound(k, prepared')
  BY <1>1 DEF Sound, Client
<1> QED BY <1>1, <1>2, <1>3, ClientStepKeeps

LEMMA ServeReadKeeps == ASSUME IInv, NEW c \in Clients, ServeRead(c) PROVE IInv'
<1> DEFINE reply == [code |-> "OK", receipt |-> None, next |-> next]
           k == [client[c] EXCEPT !.reply = reply]
<1>1. UNCHANGED <<host, prepared, stale, history>> /\ Sound(client[c], prepared) /\ KeysGrow
  BY ClientsSound, KeysUnchanged DEF ServeRead
<1>2. client' = [client EXCEPT ![c] = k]
  BY ClientsSound DEF ServeRead
<1>3. reply \in Replies /\ reply.next <= next
  BY RetryExchangeAssumption DEF Replies, Codes, IInv, TypeOK
<1>4. Sound(k, prepared')
  <2> HIDE DEF reply
  <2> QED BY <1>1, <1>3 DEF Sound, Client
<1> QED BY <1>1, <1>2, <1>4, ClientStepKeeps

LEMMA RefuseKeeps == ASSUME IInv, NEW c \in Clients, Refuse(c) PROVE IInv'
<1> DEFINE reply == [code |-> "REFUSED", receipt |-> None, next |-> 0]
           k == [client[c] EXCEPT !.reply = reply]
<1>1. UNCHANGED <<host, prepared, stale, history>> /\ Sound(client[c], prepared) /\ KeysGrow
  BY ClientsSound, KeysUnchanged DEF Refuse
<1>2. client' = [client EXCEPT ![c] = k]
  BY ClientsSound DEF Refuse
<1>3. reply \in Replies /\ reply.next <= next
  BY RetryExchangeAssumption DEF Replies, Codes, IInv, TypeOK
<1>4. Sound(k, prepared')
  <2> HIDE DEF reply
  <2> QED BY <1>1, <1>3 DEF Sound, Client
<1> QED BY <1>1, <1>2, <1>4, ClientStepKeeps

(* Whatever the client makes of a reply, next is the reply's or stays. *)
LEMMA ReceiveSubmitKeeps == ASSUME IInv, NEW c \in Clients, ReceiveSubmit(c) PROVE IInv'
<1> DEFINE reply == client[c].reply
           idle == [client[c] EXCEPT !.call = None, !.reply = None]
           k == IF Settles(c, reply)
                  THEN [idle EXCEPT !.next = reply.next, !.pending = None, !.uncertain = FALSE]
                ELSE IF reply.code \in {"OK", "REQUIRES_RESYNC"}
                  THEN [idle EXCEPT !.uncertain = TRUE]
                ELSE idle
<1>1. UNCHANGED <<host, prepared, stale, history>> /\ Sound(client[c], prepared) /\ KeysGrow
  BY ClientsSound, KeysUnchanged DEF ReceiveSubmit
<1>2. client' = [client EXCEPT ![c] = k] /\ reply # None
  BY DEF ReceiveSubmit, Answered
<1>3. reply \in Replies /\ reply.next \in 0 .. MaxSequence
  BY <1>1, <1>2 DEF Sound, Client, Replies
<1>4. Sound(k, prepared')
  <2>1. CASE k = [idle EXCEPT !.next = reply.next, !.pending = None, !.uncertain = FALSE]
    BY <1>1, <1>2, <1>3, <2>1, RetryExchangeAssumption DEF Sound, Client
  <2>2. CASE k = [idle EXCEPT !.uncertain = TRUE]
    BY <1>1, <2>2, RetryExchangeAssumption DEF Sound, Client
  <2>3. CASE k = idle
    BY <1>1, <2>3, RetryExchangeAssumption DEF Sound, Client
  <2> QED BY <2>1, <2>2, <2>3
<1> QED BY <1>1, <1>2, <1>4, ClientStepKeeps

LEMMA ReceiveReadKeeps == ASSUME IInv, NEW c \in Clients, ReceiveRead(c) PROVE IInv'
<1> DEFINE reply == client[c].reply
           read == [client[c] EXCEPT !.next = reply.next, !.reply = None]
           k == IF reply.code # "OK" \/ reply.next < client[c].next
                  THEN [client[c] EXCEPT !.call = None, !.reply = None]
                ELSE IF client[c].call = "capabilities"
                  THEN [read EXCEPT !.call = "observe"]
                ELSE [read EXCEPT !.call = None, !.uncertain = FALSE, !.pending = None]
<1>1. UNCHANGED <<host, prepared, stale, history>> /\ Sound(client[c], prepared) /\ KeysGrow
  BY ClientsSound, KeysUnchanged DEF ReceiveRead
<1>2. client' = [client EXCEPT ![c] = k] /\ reply # None
  BY DEF ReceiveRead, Answered
<1>3. reply \in Replies /\ reply.next \in 0 .. MaxSequence
  BY <1>1, <1>2 DEF Sound, Client, Replies
<1>4. Sound(k, prepared')
  <2>1. CASE k = [client[c] EXCEPT !.call = None, !.reply = None]
    BY <1>1, <2>1, RetryExchangeAssumption DEF Sound, Client
  <2>2. CASE k = [read EXCEPT !.call = "observe"]
    BY <1>1, <1>2, <1>3, <2>2, RetryExchangeAssumption DEF Sound, Client
  <2>3. CASE k = [read EXCEPT !.call = None, !.uncertain = FALSE, !.pending = None]
    BY <1>1, <1>2, <1>3, <2>3, RetryExchangeAssumption DEF Sound, Client
  <2> QED BY <2>1, <2>2, <2>3
<1> QED BY <1>1, <1>2, <1>4, ClientStepKeeps

(* The abandoned copy has the key of the client's pending request. *)
LEMMA GiveUpKeeps == ASSUME IInv, NEW c \in Clients, GiveUp(c) PROVE IInv'
<1> DEFINE t == client[c].pending
           k == [client[c] EXCEPT !.call = None, !.reply = None,
                                  !.uncertain = @ \/ client[c].call = "submit"]
<1>1. UNCHANGED <<host, prepared, history>> /\ Sound(client[c], prepared)
  BY ClientsSound DEF GiveUp
<1>2. client' = [client EXCEPT ![c] = k]
  BY ClientsSound DEF GiveUp
<1>3. KeysGrow
  <2>1. CASE UNCHANGED stale
    BY <1>1, <2>1, KeysUnchanged
  <2>2. CASE ~(UNCHANGED stale)
    <3>1. /\ client[c].call = "submit" /\ stale[t] < MaxStale
          /\ stale' = [stale EXCEPT ![t] = @ + 1]
      BY <2>2 DEF GiveUp
    <3>2. t \in Transactions /\ prepared[t] # None
      BY <1>1, <3>1 DEF Sound, Client
    <3>3. stale' \in [Transactions -> 0 .. MaxStale]
      BY <3>1, <3>2, RetryExchangeAssumption DEF IInv, TypeOK
    <3>4. \A u \in Transactions : stale'[u] > 0 => prepared'[u] # None
      BY <1>1, <3>1, <3>2 DEF IInv, TypeOK, RequestsHaveKeys
    <3> QED BY <1>1, <3>3, <3>4 DEF IInv, TypeOK, RequestsHaveKeys, KeysGrow
  <2> QED BY <2>1, <2>2
<1>4. Sound(k, prepared')
  BY <1>1, RetryExchangeAssumption DEF Sound, Client
<1> QED BY <1>1, <1>2, <1>3, <1>4, ClientStepKeeps

(* A request at the boundary, and what became of its caller. *)
LEMMA ServedKeeps ==
  ASSUME IInv, NEW t \in Transactions, prepared[t] # None, NEW verdict \in Verdicts(t),
         Execute(t, verdict),
         stale' \in [Transactions -> 0 .. MaxStale],
         \A u \in Transactions : stale'[u] > 0 => prepared[u] # None,
         client' \in [Clients -> Client],
         \A d \in Clients :
           \/ client'[d] = client[d]
           \/ client'[d] = [client[d] EXCEPT !.reply = HostReply(t, verdict)]
  PROVE  IInv'
<1>1. PICK reply : reply = HostReply(t, verdict)
  OBVIOUS
<1>2. /\ HostTypes' /\ KeysConsumed' /\ EntriesAreOutcomes'
      /\ next <= next' /\ reply \in Replies /\ reply.next = next'
      /\ epoch' = epoch /\ prepared' = prepared
  BY <1>1, ExecuteKeeps
<1>3. TypeOK /\ RequestsHaveKeys /\ ClientsBehind
  BY DEF IInv
<1>4. TypeOK'
  BY <1>2, <1>3 DEF TypeOK, HostTypes, Client
<1>5. \A d \in Clients :
        /\ client[d] \in Client
        /\ client'[d] = client[d] \/ client'[d] = [client[d] EXCEPT !.reply = reply]
  BY <1>1, <1>3 DEF TypeOK, Client
<1>6. RequestsHaveKeys'
  BY <1>2, <1>3, <1>5 DEF RequestsHaveKeys, Client
<1>7. ClientsBehind'
  <2> SUFFICES ASSUME NEW d \in Clients
               PROVE  /\ client'[d].epoch <= epoch
                      /\ client'[d].epoch = epoch =>
                           /\ client'[d].next <= next'
                           /\ client'[d].reply # None => client'[d].reply.next <= next'
    BY <1>2 DEF ClientsBehind
  <2>1. /\ client[d].epoch <= epoch /\ next \in Nat /\ next' \in Nat /\ client[d].next \in Nat
        /\ client[d].epoch = epoch => client[d].next <= next'
    BY <1>2, <1>3, <1>5 DEF ClientsBehind, TypeOK, HostTypes, Client
  <2>2. CASE client'[d] = [client[d] EXCEPT !.reply = reply]
    BY <1>2, <1>5, <2>1, <2>2 DEF Client
  <2>3. CASE client'[d] = client[d]
    <3>1. client[d].reply # None => client[d].reply.next \in Nat
      BY <1>5 DEF Client, Replies
    <3> QED BY <1>2, <1>3, <2>1, <2>3, <3>1 DEF ClientsBehind
  <2> QED BY <1>5, <2>2, <2>3
<1> QED
  BY <1>2, <1>4, <1>6, <1>7 DEF IInv

LEMMA ServeSubmitKeeps == ASSUME IInv, NEW c \in Clients, ServeSubmit(c) PROVE IInv'
<1> DEFINE t == client[c].pending
<1>1. Sound(client[c], prepared) /\ client[c].call = "submit" /\ UNCHANGED stale
  BY ClientsSound DEF ServeSubmit
<1>2. t \in Transactions /\ prepared[t] # None
  BY <1>1 DEF Sound, Client
<1>3. PICK verdict \in Verdicts(t) :
        Execute(t, verdict) /\ client' = [client EXCEPT ![c].reply = HostReply(t, verdict)]
  BY DEF ServeSubmit
<1>4. PICK reply : reply = HostReply(t, verdict)
  OBVIOUS
<1>5. reply \in Replies
  BY <1>2, <1>3, <1>4, ExecuteKeeps
<1>6. client' = [client EXCEPT ![c] = [client[c] EXCEPT !.reply = reply]]
  BY <1>3, <1>4
<1>7. /\ client' \in [Clients -> Client]
      /\ \A d \in Clients : \/ client'[d] = client[d]
                           \/ client'[d] = [client[d] EXCEPT !.reply = reply]
  BY <1>5, <1>6, ClientsSound DEF Client
<1>8. /\ stale' \in [Transactions -> 0 .. MaxStale]
      /\ \A u \in Transactions : stale'[u] > 0 => prepared[u] # None
  BY <1>1 DEF IInv, TypeOK, RequestsHaveKeys
<1> QED
  BY <1>2, <1>3, <1>4, <1>7, <1>8, ServedKeeps

LEMMA ServeStaleKeeps == ASSUME IInv, NEW t \in Transactions, ServeStale(t) PROVE IInv'
<1>1. PICK verdict \in Verdicts(t) : Execute(t, verdict)
  BY DEF ServeStale
<1>2. stale[t] > 0 /\ stale' = [stale EXCEPT ![t] = @ - 1] /\ UNCHANGED client
  BY DEF ServeStale
<1>3. stale \in [Transactions -> 0 .. MaxStale] /\ prepared[t] # None
  BY <1>2 DEF IInv, TypeOK, RequestsHaveKeys
<1>4. stale' \in [Transactions -> 0 .. MaxStale]
  BY <1>2, <1>3, RetryExchangeAssumption
<1>5. \A u \in Transactions : stale'[u] > 0 => prepared[u] # None
  BY <1>2, <1>3 DEF IInv, RequestsHaveKeys
<1>6. client' \in [Clients -> Client]
  BY <1>2, ClientsSound
<1> QED
  BY <1>1, <1>2, <1>3, <1>4, <1>5, <1>6, ServedKeeps

LEMMA LoseStaleKeeps == ASSUME IInv, NEW t \in Transactions, LoseStale(t) PROVE IInv'
<1>1. stale[t] > 0 /\ stale' = [stale EXCEPT ![t] = @ - 1] /\ UNCHANGED <<host, client, prepared, history>>
  BY DEF LoseStale
<1>2. KeysGrow
  BY <1>1, RetryExchangeAssumption DEF IInv, TypeOK, RequestsHaveKeys, KeysGrow
<1> QED
  BY <1>1, <1>2, ClientsSound, OutsideKeeps

(* A raw poster names any sequence of the current epoch. *)
LEMMA PostRawKeeps ==
  ASSUME IInv, NEW t \in Transactions, NEW s \in 0 .. MaxSequence, PostRaw(t, s) PROVE IInv'
<1> DEFINE key == [owner |-> None, epoch |-> epoch, sequence |-> s]
<1>1. /\ prepared[t] \in {None, key} /\ stale[t] < MaxStale
      /\ prepared' = [prepared EXCEPT ![t] = key]
      /\ stale' = [stale EXCEPT ![t] = @ + 1]
      /\ UNCHANGED <<host, client, history>>
  BY DEF PostRaw
<1>2. key \in Keys /\ key # None /\ key.epoch <= epoch
  BY RetryExchangeAssumption DEF IInv, TypeOK, Keys
<1>3. prepared' \in [Transactions -> Keys \cup {None}] /\ stale' \in [Transactions -> 0 .. MaxStale]
  <2> HIDE DEF key
  <2> QED BY <1>1, <1>2, RetryExchangeAssumption DEF IInv, TypeOK
<1>4. KeysGrow
  <2> HIDE DEF key
  <2> QED BY <1>1, <1>2, <1>3 DEF IInv, TypeOK, RequestsHaveKeys, KeysGrow
<1>5. \A c \in Clients : Sound(client'[c], prepared')
  BY <1>1, <1>4, ClientsSound DEF Sound, Client, KeysGrow
<1> QED
  BY <1>1, <1>4, <1>5, ClientsSound, OutsideKeeps

(* An expired entry only leaves the window. *)
LEMMA ExpireKeeps == ASSUME IInv, NEW i \in Slots, Expire(i) PROVE IInv'
<1>1. /\ window' = [window EXCEPT ![i] = NoEntry]
      /\ UNCHANGED <<epoch, next, exhausted, client, prepared, stale, executions, outcome, replied>>
  BY DEF Expire, history
<1>2. TypeOK /\ KeysConsumed /\ EntriesAreOutcomes /\ RequestsHaveKeys /\ ClientsBehind
  BY DEF IInv
<1>3. NoEntry \in Entries /\ NoEntry.sequence = 0
  BY RetryExchangeAssumption DEF NoEntry, Entries
<1>4. /\ window' \in [Slots -> Entries]
      /\ \A j \in Slots : window'[j].sequence # 0 => window'[j] = window[j]
  BY <1>1, <1>2, <1>3 DEF TypeOK
<1>5. TypeOK'
  BY <1>1, <1>2, <1>4 DEF TypeOK
<1>6. KeysConsumed'
  BY <1>1, <1>2 DEF KeysConsumed, Consumed, Executed, ExecutedOnce, Current, Sequence
<1>7. EntriesAreOutcomes'
  <2>1. ASSUME NEW j \in Slots, window'[j].sequence # 0 PROVE HoldsOutcome(window[j])'
    <3>1. window'[j] = window[j] /\ HoldsOutcome(window[j])
      BY <1>2, <1>4, <2>1 DEF EntriesAreOutcomes
    <3> QED BY <1>1, <3>1 DEF HoldsOutcome, Executed, Current, Sequence
  <2> QED BY <1>1, <1>2, <2>1 DEF EntriesAreOutcomes, RepliesAreOriginal, Executed
<1>8. RequestsHaveKeys' /\ ClientsBehind'
  BY <1>1, <1>2 DEF RequestsHaveKeys, ClientsBehind
<1> QED
  BY <1>5, <1>6, <1>7, <1>8 DEF IInv

(* No key and no client object is of the epoch a renewal starts. *)
LEMMA RenewKeeps == ASSUME IInv, Renew PROVE IInv'
<1>1. /\ epoch < MaxEpoch /\ epoch' = epoch + 1 /\ next' = 1 /\ exhausted' = FALSE
      /\ window' = [i \in Slots |-> NoEntry]
      /\ UNCHANGED <<client, prepared, stale, executions, outcome, replied>>
  BY DEF Renew, history
<1>2. TypeOK /\ KeysConsumed /\ EntriesAreOutcomes /\ RequestsHaveKeys /\ ClientsBehind
  BY DEF IInv
<1>3. NoEntry \in Entries /\ NoEntry.sequence = 0
  BY RetryExchangeAssumption DEF NoEntry, Entries
<1>4. epoch \in Nat /\ epoch' \in 1 .. MaxEpoch /\ next' \in 1 .. MaxSequence
  BY <1>1, <1>2, RetryExchangeAssumption DEF TypeOK
<1>5. window' \in [Slots -> Entries] /\ \A i \in Slots : window'[i].sequence = 0
  BY <1>1, <1>3
<1>6. TypeOK'
  BY <1>1, <1>2, <1>4, <1>5 DEF TypeOK
<1>7. \A t \in Transactions : prepared[t] # None => prepared[t].epoch \in Nat /\ prepared[t].epoch < epoch'
  <2>1. \A t \in Transactions : prepared[t] # None => prepared[t].epoch \in Nat
    BY <1>2, RetryExchangeAssumption DEF TypeOK, Keys
  <2> QED BY <1>1, <1>2, <1>4, <2>1 DEF RequestsHaveKeys
<1>8. KeysConsumed'
  <2>1. \A t \in Transactions : Executed(t)' => prepared'[t] # None /\ ~Current(t)'
    BY <1>1, <1>2, <1>7 DEF KeysConsumed, Executed, Current
  <2>2. ExecutedOnce'
    BY <1>1, <1>2 DEF KeysConsumed, ExecutedOnce, Executed, Sequence
  <2> QED BY <1>1, <2>1, <2>2 DEF KeysConsumed
<1>9. EntriesAreOutcomes'
  BY <1>1, <1>2, <1>5 DEF EntriesAreOutcomes, RepliesAreOriginal, Executed
<1>10. RequestsHaveKeys'
  BY <1>1, <1>2, <1>7 DEF RequestsHaveKeys
<1>11. ClientsBehind'
  <2> SUFFICES ASSUME NEW c \in Clients PROVE client[c].epoch < epoch'
    BY <1>1, <1>4, <1>2 DEF ClientsBehind, TypeOK
  <2>1. client[c].epoch \in Nat
    BY <1>2, RetryExchangeAssumption DEF TypeOK
  <2> QED BY <1>1, <1>2, <1>4, <2>1 DEF ClientsBehind
<1> QED
  BY <1>6, <1>8, <1>9, <1>10, <1>11 DEF IInv

LEMMA InitHolds == Init => IInv
<1> SUFFICES ASSUME Init PROVE IInv
  OBVIOUS
<1>1. NoEntry \in Entries /\ NoEntry.sequence = 0
  BY RetryExchangeAssumption DEF NoEntry, Entries
<1>2. FreshClient(1) \in Client
  BY RetryExchangeAssumption DEF FreshClient, Client
<1>3. TypeOK
  <2>1. epoch \in 1 .. MaxEpoch /\ next \in 1 .. MaxSequence
    BY RetryExchangeAssumption DEF Init
  <2>2. exhausted \in BOOLEAN
    BY DEF Init
  <2>3. window \in [Slots -> Entries] /\ \A i \in Slots : window[i].sequence = 0
    BY <1>1 DEF Init
  <2>4. client \in [Clients -> Client]
    BY <1>2 DEF Init
  <2>5. /\ prepared \in [Transactions -> Keys \cup {None}]
        /\ stale \in [Transactions -> 0 .. MaxStale] /\ executions \in [Transactions -> Nat]
        /\ outcome \in [Transactions -> Transactions \cup {None}]
        /\ replied \in [Transactions -> SUBSET Transactions]
    BY RetryExchangeAssumption DEF Init
  <2> QED BY <2>1, <2>2, <2>3, <2>4, <2>5 DEF TypeOK, Client
<1>4. KeysConsumed
  BY DEF Init, KeysConsumed, ExecutedOnce, Executed
<1>5. EntriesAreOutcomes
  BY <1>1 DEF Init, EntriesAreOutcomes, RepliesAreOriginal
<1>6. RequestsHaveKeys /\ ClientsBehind
  <2>1. /\ \A t \in Transactions : stale[t] = 0 /\ prepared[t] = None
        /\ epoch = 1 /\ next = 1
    BY DEF Init
  <2>2. \A c \in Clients :
          /\ client[c].call = None /\ client[c].pending = None /\ client[c].reply = None
          /\ client[c].epoch = 1 /\ client[c].next = 0
    BY DEF Init, FreshClient
  <2> QED
    BY <2>1, <2>2, RetryExchangeAssumption DEF RequestsHaveKeys, ClientsBehind
<1> QED
  BY <1>3, <1>4, <1>5, <1>6 DEF IInv

LEMMA StepKeeps == ASSUME IInv, [Next]_vars PROVE IInv'
<1>1. CASE \E i \in Slots : Expire(i)
  BY <1>1, ExpireKeeps
<1>2. CASE Renew
  BY <1>2, RenewKeeps
<1>3. CASE \E c \in Clients : Connect(c) \/ Resync(c) \/ ServeSubmit(c) \/ ServeRead(c)
  BY <1>3, ConnectKeeps, ResyncKeeps, ServeSubmitKeeps, ServeReadKeeps
<1>4. CASE \E c \in Clients : Refuse(c) \/ ReceiveSubmit(c) \/ ReceiveRead(c) \/ GiveUp(c)
  BY <1>4, RefuseKeeps, ReceiveSubmitKeeps, ReceiveReadKeeps, GiveUpKeeps
<1>5. CASE \E c \in Clients, t \in Transactions : Prepare(c, t) \/ Submit(c, t)
  BY <1>5, PrepareKeeps, SubmitKeeps
<1>6. CASE \E t \in Transactions, s \in 0 .. MaxSequence : PostRaw(t, s)
  BY <1>6, PostRawKeeps
<1>7. CASE \E t \in Transactions : ServeStale(t) \/ LoseStale(t)
  BY <1>7, ServeStaleKeeps, LoseStaleKeeps
<1>8. CASE UNCHANGED vars
  <2>1. UNCHANGED <<host, history, client, prepared, stale>>
    BY <1>8 DEF vars, host, history
  <2>2. KeysGrow
    BY <2>1, KeysUnchanged
  <2>3. \A c \in Clients : Sound(client'[c], prepared')
    BY <2>1, ClientsSound
  <2> QED BY <2>1, <2>2, <2>3, ClientsSound, OutsideKeeps
<1> QED
  BY <1>1, <1>2, <1>3, <1>4, <1>5, <1>6, <1>7, <1>8 DEF Next

-----------------------------------------------------------------------------
(* What holds for every number of clients, window and last sequence.       *)

(* The invariant of the exchange: renewals, expiry, raw posters, abandoned *)
(* copies and resyncs included.                                            *)
THEOREM Invariant == Spec => []IInv
<1>1. IInv /\ [Next]_vars => IInv'
  BY StepKeeps
<1> QED
  BY InitHolds, <1>1, PTL DEF Spec

(* PolicyHost types: counters, window slots, client objects and keys. *)
THEOREM TypesHold == Spec => []TypeOK
<1>1. IInv => TypeOK
  BY DEF IInv
<1> QED
  BY Invariant, <1>1, PTL

(* Window::execute applies no transaction twice and no key for two. *)
THEOREM ExecutedAtMostOnce == Spec => []ExecutedOnce
<1>1. IInv => ExecutedOnce
  BY DEF IInv, KeysConsumed
<1> QED
  BY Invariant, <1>1, PTL

(* Every receipt returned is the one of the only application. *)
THEOREM ReceiptsOriginal == Spec => []RepliesAreOriginal
<1>1. IInv => RepliesAreOriginal
  BY DEF IInv, EntriesAreOutcomes
<1> QED
  BY Invariant, <1>1, PTL

(* What is executed has the host's next key, which no client has read past. *)
LEMMA ExecutedIsNext ==
  ASSUME IInv, [Next]_vars, NEW t \in Transactions, executions'[t] # executions[t],
         NEW c \in Clients, client[c].epoch = prepared[t].epoch
  PROVE  client[c].next <= Sequence(t)
<1>1. PICK u \in Transactions : \E verdict \in Verdicts(u) : Execute(u, verdict)
  <2>1. \/ \E d \in Clients : ServeSubmit(d)
        \/ \E u \in Transactions : ServeStale(u)
    BY DEF Next, vars, Expire, Renew, Connect, Resync, ServeRead, Refuse, ReceiveSubmit,
           ReceiveRead, GiveUp, Prepare, Submit, PostRaw, LoseStale, history
  <2>2. CASE \E d \in Clients : ServeSubmit(d)
    <3>1. PICK d \in Clients : ServeSubmit(d)
      BY <2>2
    <3>2. client[d].pending \in Transactions
      BY <3>1, ClientsSound DEF ServeSubmit, Sound, Client
    <3> QED BY <3>1, <3>2 DEF ServeSubmit
  <2>3. CASE \E u \in Transactions : ServeStale(u)
    BY <2>3 DEF ServeStale
  <2> QED BY <2>1, <2>2, <2>3
<1>2. Fresh(u) /\ executions' = [executions EXCEPT ![u] = @ + 1] /\ Current(u)
  BY <1>1 DEF Execute
<1>3. u = t
  BY <1>2 DEF IInv, TypeOK
<1> QED
  BY <1>2, <1>3 DEF IInv, ClientsBehind, Fresh, Current

(* next_sequence is a watermark: below what a client has read of its epoch *)
(* nothing is executed any more.                                           *)
THEOREM WatermarkHolds == Spec => SettledBelowWatermark
<1>1. IInv /\ [Next]_vars =>
        [\A t \in Transactions, c \in Clients :
           executions'[t] # executions[t] /\ client[c].epoch = prepared[t].epoch
             => client[c].next <= Sequence(t)]_vars
  BY ExecutedIsNext
<1> QED
  BY Invariant, <1>1, PTL DEF Spec, SettledBelowWatermark
-----------------------------------------------------------------------------
(* The resync_only protocol.  The order of the connections is the argument: *)
(* whatever a client sent before the reads of its resync is ahead of them   *)
(* in the backlog.                                                          *)

Sdks == [epoch : Nat, next : Nat, negotiated : BOOLEAN, uncertain : BOOLEAN,
         goal : Goals \cup {"none"}, request : Requests \cup {"none"},
         sent : BOOLEAN]

Connections == [client : Clients \cup {None}, epoch : Nat, request : Requests,
                sequence : Nat, open : BOOLEAN]

ExchangeTypes ==
  /\ epoch \in Nat /\ next \in Nat
  /\ client \in [Clients -> Sdks]
  /\ backlog \in Seq(Connections)
  /\ unaware \subseteq Clients

\* A client that makes no call waits for nothing.
Quiet == \A c \in Clients : client[c].goal = "none" => client[c].request = "none" /\ ~client[c].sent

\* A connection somebody waits for is the one its client has sent, of the
\* client's credentials and the last of its own.
Waited(i) ==
  LET q == backlog[i] IN
  q.open => /\ q.client \in Clients
            /\ client[q.client].sent /\ client[q.client].request = q.request

InOrder ==
  \A i, j \in 1 .. Len(backlog) :
    i < j /\ backlog[i].client = backlog[j].client /\ backlog[i].client # None => ~backlog[i].open

\* Credentials only get newer.
Dated(i) ==
  LET q == backlog[i] IN
  q.epoch <= epoch /\ (q.client \in Clients => q.epoch <= client[q.client].epoch)

Lined ==
  /\ \A i \in 1 .. Len(backlog) : Waited(i) /\ Dated(i)
  /\ \A c \in Clients : client[c].epoch <= epoch
  /\ InOrder

ExchangeInv ==
  ExchangeTypes /\ Quiet /\ Lined /\ ResyncSettles /\ KnowsItsCommits

(* What the clients make of what happens to them. *)
LEMMA SdkSteps ==
  ASSUME NEW k \in Sdks, next \in Nat
  PROVE  /\ Missed(k) \in Sdks
         /\ Missed(k).epoch = k.epoch
         /\ Missed(k).goal = "none" /\ Missed(k).request = "none"
         /\ ~Missed(k).sent
         /\ Missed(k).uncertain = (k.uncertain \/ k.request = "transaction")
  BY DEF Sdks, Missed, Idle

LEMMA RefusedSdk ==
  ASSUME NEW k \in Sdks, NEW code
  PROVE  /\ Refused(k, code) \in Sdks
         /\ Refused(k, code).epoch = k.epoch
         /\ Refused(k, code).goal = "none" /\ Refused(k, code).request = "none"
         /\ ~Refused(k, code).sent
         /\ k.uncertain => Refused(k, code).uncertain
  BY DEF Sdks, Refused, Idle

LEMMA NegotiatedSdk ==
  ASSUME NEW k \in Sdks, k.goal # "none", next \in Nat
  PROVE  /\ Negotiated(k) \in Sdks
         /\ Negotiated(k).epoch = k.epoch
         /\ Negotiated(k).goal = "none" => Negotiated(k).request = "none"
         /\ ~Negotiated(k).sent
         /\ k.uncertain => Negotiated(k).uncertain
  <1> DEFINE known == [k EXCEPT !.next = next, !.negotiated = TRUE, !.sent = FALSE]
  <1>1. /\ known \in Sdks /\ known.epoch = k.epoch /\ known.goal = k.goal
        /\ ~known.sent /\ known.uncertain = k.uncertain
    BY DEF Sdks
  <1> DEFINE alone == Idle(known)
             first(r) == [known EXCEPT !.request = r]
  <1>2. \/ Negotiated(k) = Missed(k) \/ Negotiated(k) = alone
        \/ Negotiated(k) = first("transaction")
        \/ Negotiated(k) = first("observe")
    BY DEF Negotiated
  <1> HIDE DEF known
  <1>3. /\ alone \in Sdks /\ alone.epoch = k.epoch /\ ~alone.sent
        /\ alone.request = "none" /\ alone.uncertain = k.uncertain
    BY <1>1 DEF Sdks, Idle
  <1>4. ASSUME NEW r \in Requests
        PROVE  /\ first(r) \in Sdks /\ first(r).epoch = k.epoch /\ ~first(r).sent
               /\ first(r).goal = k.goal /\ first(r).uncertain = k.uncertain
    BY <1>1, <1>4 DEF Sdks
  <1> HIDE DEF alone, first
  <1>5. CASE Negotiated(k) = Missed(k)
    BY <1>5, SdkSteps
  <1>6. CASE Negotiated(k) = alone
    BY <1>3, <1>6
  <1>7. ASSUME NEW r \in Requests, Negotiated(k) = first(r)
        PROVE  /\ Negotiated(k) \in Sdks /\ Negotiated(k).epoch = k.epoch
               /\ Negotiated(k).goal # "none" /\ ~Negotiated(k).sent
               /\ Negotiated(k).uncertain = k.uncertain
    BY <1>4, <1>7
  <1>8. "transaction" \in Requests /\ "observe" \in Requests
    BY DEF Requests
  <1> QED BY <1>2, <1>5, <1>6, <1>7, <1>8

LEMMA ObservedSdk ==
  ASSUME NEW k \in Sdks, next \in Nat
  PROVE  /\ Observed(k) \in Sdks
         /\ Observed(k).epoch = k.epoch
         /\ Observed(k).goal = "none" /\ Observed(k).request = "none"
         /\ ~Observed(k).sent
  BY SdkSteps DEF Sdks, Observed, Idle

LEMMA ReceivedSdk ==
  ASSUME NEW k \in Sdks, next' \in Nat
  PROVE  /\ Received(k) \in Sdks
         /\ Received(k).epoch = k.epoch
         /\ Received(k).goal = "none" /\ Received(k).request = "none"
         /\ ~Received(k).sent
         /\ k.uncertain => Received(k).uncertain
  BY DEF Sdks, Received, Idle

LEMMA FreshSdk ==
  ASSUME NEW e \in Nat
  PROVE  /\ NewClient(e) \in Sdks
         /\ NewClient(e).epoch = e /\ ~NewClient(e).sent
         /\ NewClient(e).goal = "none" /\ NewClient(e).request = "none"
  BY DEF Sdks, NewClient

(* The connections that are left when the head is done. *)
LEMMA TailOf ==
  ASSUME ExchangeTypes, backlog # <<>>
  PROVE  /\ Head(backlog) = backlog[1] /\ Head(backlog) \in Connections
         /\ Len(backlog) \in Nat /\ 1 \in 1 .. Len(backlog)
         /\ Tail(backlog) \in Seq(Connections) /\ Len(Tail(backlog)) = Len(backlog) - 1
         /\ \A i \in 1 .. Len(backlog) - 1 : Tail(backlog)[i] = backlog[i + 1]
         /\ \A i \in 1 .. Len(backlog) : backlog[i] \in Connections
  BY DEF ExchangeTypes

(* The connection at the head is done: whoever waited for it had sent no    *)
(* other, so that nothing of theirs is left behind it.                      *)
LEMMA NobodyIsNoClient == None \notin Clients
  BY ResyncAssumption

LEMMA HeadLeaves ==
  ASSUME ExchangeTypes, Quiet, Lined, ResyncSettles, backlog # <<>>, NEW k,
         LET q == Head(backlog) IN
         /\ backlog' = Tail(backlog)
         /\ client' = IF q.open THEN [client EXCEPT ![q.client] = k] ELSE client
         /\ q.open => /\ k \in Sdks /\ k.epoch = client[q.client].epoch
                      /\ k.goal = "none" => k.request = "none" /\ ~k.sent,
         epoch' = epoch, next' \in Nat, unaware' \subseteq Clients
  PROVE  ExchangeTypes' /\ Quiet' /\ Lined' /\ ResyncSettles'
  <1> DEFINE q == Head(backlog)
             n == Len(backlog)
  <1>1. /\ q = backlog[1] /\ q \in Connections /\ n \in Nat /\ 1 \in 1 .. n
        /\ backlog' \in Seq(Connections) /\ Len(backlog') = n - 1
        /\ \A i \in 1 .. n - 1 : backlog'[i] = backlog[i + 1]
        /\ \A i \in 1 .. n : backlog[i] \in Connections
    BY TailOf
  <1>2. /\ client' = IF q.open THEN [client EXCEPT ![q.client] = k] ELSE client
        /\ q.open => /\ k \in Sdks /\ k.epoch = client[q.client].epoch
                     /\ k.goal = "none" => k.request = "none" /\ ~k.sent
        /\ q.open => q.client \in Clients
    BY <1>1 DEF Lined, Waited
  <1> HIDE DEF q, n
  <1>3. /\ client \in [Clients -> Sdks] /\ client' \in [Clients -> Sdks]
        /\ \A c \in Clients : client'[c].epoch = client[c].epoch
        /\ \A c \in Clients : client'[c] = client[c] \/ (q.open /\ c = q.client)
    BY <1>2 DEF ExchangeTypes
  <1>4. ExchangeTypes'
    BY <1>1, <1>3 DEF ExchangeTypes
  <1>5. Quiet'
    <2>1. ASSUME NEW c \in Clients, q.open, c = q.client PROVE client'[c] = k
      BY <1>2, <1>3, <2>1
    <2> QED BY <1>2, <1>3, <2>1 DEF Quiet
  <1>6. ASSUME NEW i \in 1 .. n - 1
        PROVE  /\ i + 1 \in 1 .. n /\ backlog'[i] = backlog[i + 1]
               /\ backlog[i + 1].client \in Clients \cup {None}
               /\ backlog[i + 1].client # None =>
                    client'[backlog[i + 1].client] = client[backlog[i + 1].client]
    <2>1. i + 1 \in 1 .. n /\ 1 < i + 1
      BY <1>1
    <2>2. backlog[i + 1].client \in Clients \cup {None}
      BY <1>1, <2>1 DEF Connections
    <2>3. backlog[1].client = backlog[i + 1].client /\ backlog[1].client # None => ~backlog[1].open
      BY <1>1, <2>1 DEF Lined, InOrder, n
    <2> QED BY <1>1, <1>3, <2>1, <2>2, <2>3
  <1>7. \A i \in 1 .. n : Waited(i) /\ Dated(i)
    BY DEF Lined, n
  <1>8. ASSUME NEW i \in 1 .. n - 1 PROVE Waited(i)' /\ Dated(i)'
    <2>1. Waited(i + 1) /\ Dated(i + 1)
      BY <1>6, <1>7
    <2>2. PICK r : r = backlog[i + 1]
      OBVIOUS
    <2>3. backlog'[i] = r /\ (r.client # None => client'[r.client] = client[r.client])
      BY <1>6, <2>2
    <2>4. epoch' = epoch
      OBVIOUS
    <2>5. Waited(i)'
      BY <2>1, <2>2, <2>3, NobodyIsNoClient DEF Waited
    <2>6. Dated(i)'
      BY <1>3, <2>1, <2>2, <2>3, <2>4 DEF Dated
    <2> QED BY <2>5, <2>6
  <1>9. InOrder'
    <2> SUFFICES ASSUME NEW i \in 1 .. n - 1, NEW j \in 1 .. n - 1, i < j,
                        backlog'[i].client = backlog'[j].client, backlog'[i].client # None
                 PROVE  ~backlog'[i].open
      BY <1>1 DEF InOrder
    <2>1. i + 1 < j + 1 /\ i + 1 \in 1 .. n /\ j + 1 \in 1 .. n
      BY <1>1
    <2> QED BY <1>6, <2>1 DEF Lined, InOrder, n
  <1>10. Lined'
    BY <1>1, <1>3, <1>8, <1>9 DEF Lined
  <1>11. ResyncSettles'
    <2>1. DOMAIN backlog' = 1 .. n - 1 /\ DOMAIN backlog = 1 .. n
      <3>1. DOMAIN backlog' = 1 .. Len(backlog') /\ DOMAIN backlog = 1 .. Len(backlog)
        BY <1>4 DEF ExchangeTypes
      <3> QED BY <1>1, <3>1 DEF n
    <2> SUFFICES ASSUME NEW i \in 1 .. n - 1, backlog'[i].request = "transaction",
                        backlog'[i].client # None, ~backlog'[i].open
                 PROVE  client'[backlog'[i].client].uncertain
                          \/ client'[backlog'[i].client].epoch # backlog'[i].epoch
      BY <2>1 DEF ResyncSettles
    <2>2. PICK r : r = backlog[i + 1]
      OBVIOUS
    <2>3. backlog'[i] = r /\ client'[r.client] = client[r.client] /\ i + 1 \in DOMAIN backlog
      BY <1>6, <2>1, <2>2
    <2> QED BY <2>2, <2>3 DEF ResyncSettles
  <1> QED BY <1>4, <1>5, <1>10, <1>11

(* The head is done and whoever waited is no more certain than before. *)
LEMMA HeadKeeps ==
  ASSUME ExchangeInv, backlog # <<>>, NEW k,
         LET q == Head(backlog) IN
         /\ backlog' = Tail(backlog)
         /\ client' = IF q.open THEN [client EXCEPT ![q.client] = k] ELSE client
         /\ q.open => /\ k \in Sdks /\ k.epoch = client[q.client].epoch
                      /\ k.goal = "none" => k.request = "none" /\ ~k.sent
                      /\ client[q.client].uncertain => k.uncertain,
         epoch' = epoch, next' \in Nat, unaware' = unaware
  PROVE  ExchangeInv'
  <1> DEFINE q == Head(backlog)
  <1>1. unaware \subseteq Clients /\ client \in [Clients -> Sdks]
    BY DEF ExchangeInv, ExchangeTypes
  <1>2. ExchangeTypes' /\ Quiet' /\ Lined' /\ ResyncSettles'
    BY <1>1, HeadLeaves DEF ExchangeInv
  <1>3. /\ client' = IF q.open THEN [client EXCEPT ![q.client] = k] ELSE client
        /\ q.open => (client[q.client].uncertain => k.uncertain)
    OBVIOUS
  <1> HIDE DEF q
  <1>4. KnowsItsCommits'
    BY <1>1, <1>3 DEF ExchangeInv, KnowsItsCommits
  <1> QED BY <1>2, <1>4 DEF ExchangeInv

(* An answer nobody hears: what a waiting transaction did is in doubt. *)
LEMMA LostKeeps ==
  ASSUME ExchangeInv, backlog # <<>>, Lost(Head(backlog)),
         epoch' = epoch, next' \in Nat, unaware' = unaware
  PROVE  ExchangeInv'
  <1> DEFINE q == Head(backlog)
  <1>1. PICK k : k = Missed(client[q.client])
    OBVIOUS
  <1>2. /\ backlog' = Tail(backlog)
        /\ client' = IF q.open THEN [client EXCEPT ![q.client] = k] ELSE client
    BY <1>1 DEF Lost
  <1>3. q.open => q.client \in Clients
    BY TailOf DEF ExchangeInv, Lined, Waited
  <1>4. q.open => client[q.client] \in Sdks /\ next \in Nat
    BY <1>3 DEF ExchangeInv, ExchangeTypes
  <1>5. q.open => /\ k \in Sdks /\ k.epoch = client[q.client].epoch
                  /\ k.goal = "none" => k.request = "none" /\ ~k.sent
                  /\ client[q.client].uncertain => k.uncertain
    BY <1>1, <1>4, SdkSteps
  <1> QED BY <1>2, <1>5, HeadKeeps

LEMMA RefusalKeeps == ASSUME ExchangeInv, RefuseHead PROVE ExchangeInv'
  <1> DEFINE q == Head(backlog)
  <1>1. /\ backlog # <<>> /\ epoch' = epoch /\ next' = next /\ unaware' = unaware
        /\ \/ Lost(q)
           \/ \E code \in {"SESSION_EXPIRED", "REQUIRES_RESYNC"} :
                q.open /\ Heard(q, Refused(client[q.client], code))
    BY DEF RefuseHead, session
  <1>2. next' \in Nat
    BY <1>1 DEF ExchangeInv, ExchangeTypes
  <1>3. CASE Lost(q)
    BY <1>1, <1>2, <1>3, LostKeeps
  <1>4. ASSUME NEW code, q.open,
               Heard(q, Refused(client[q.client], code))
        PROVE  ExchangeInv'
    <2>1. PICK k : k = Refused(client[q.client], code)
      OBVIOUS
    <2>2. /\ backlog' = Tail(backlog)
          /\ client' = IF q.open THEN [client EXCEPT ![q.client] = k] ELSE client
      BY <1>4, <2>1 DEF Heard
    <2>3. q.client \in Clients
      BY <1>1, <1>4, TailOf DEF ExchangeInv, Lined, Waited
    <2>4. client[q.client] \in Sdks
      BY <2>3 DEF ExchangeInv, ExchangeTypes
    <2>5. /\ k \in Sdks /\ k.epoch = client[q.client].epoch
          /\ k.goal = "none" => k.request = "none" /\ ~k.sent
          /\ client[q.client].uncertain => k.uncertain
      BY <2>1, <2>4, RefusedSdk
    <2> QED BY <1>1, <1>2, <2>2, <2>5, HeadKeeps
  <1> QED BY <1>1, <1>3, <1>4

(* Only what answers a resync takes doubt away, and it answers an observe   *)
(* that also shows the client all its commits.                              *)
LEMMA ReadKeeps == ASSUME ExchangeInv, Read PROVE ExchangeInv'
  <1> DEFINE q == Head(backlog)
  <1>1. /\ backlog # <<>> /\ epoch' = epoch /\ next' = next
        /\ \/ Heard(q, Negotiated(client[q.client])) /\ unaware' = unaware
           \/ Heard(q, Observed(client[q.client]))
              /\ unaware' = unaware \ {q.client}
    BY DEF Read, session
  <1>2. next' \in Nat /\ next \in Nat
    BY <1>1 DEF ExchangeInv, ExchangeTypes
  <1>3. q.open => q.client \in Clients
    BY <1>1, TailOf DEF ExchangeInv, Lined, Waited
  <1>4. q.open => client[q.client] \in Sdks
    BY <1>3 DEF ExchangeInv, ExchangeTypes
  <1>5. CASE Heard(q, Negotiated(client[q.client])) /\ unaware' = unaware
    <2>1. PICK k : k = Negotiated(client[q.client])
      OBVIOUS
    <2>2. /\ backlog' = Tail(backlog)
          /\ client' = IF q.open THEN [client EXCEPT ![q.client] = k] ELSE client
      BY <1>5, <2>1 DEF Heard
    <2>3. q.open => client[q.client].goal # "none"
      BY <1>1, <1>3, TailOf DEF ExchangeInv, Quiet, Lined, Waited
    <2>4. q.open => /\ k \in Sdks /\ k.epoch = client[q.client].epoch
                    /\ k.goal = "none" => k.request = "none" /\ ~k.sent
                    /\ client[q.client].uncertain => k.uncertain
      BY <1>2, <1>4, <2>1, <2>3, NegotiatedSdk
    <2> QED BY <1>1, <1>2, <1>5, <2>2, <2>4, HeadKeeps
  <1>6. CASE /\ Heard(q, Observed(client[q.client]))
             /\ unaware' = unaware \ {q.client}
    <2>1. PICK k : k = Observed(client[q.client])
      OBVIOUS
    <2>2. /\ backlog' = Tail(backlog)
          /\ client' = IF q.open THEN [client EXCEPT ![q.client] = k] ELSE client
      BY <1>6, <2>1 DEF Heard
    <2>3. q.open => /\ k \in Sdks /\ k.epoch = client[q.client].epoch
                    /\ k.goal = "none" => k.request = "none" /\ ~k.sent
      BY <1>2, <1>4, <2>1, ObservedSdk
    <2>4. unaware' \subseteq Clients
      BY <1>6 DEF ExchangeInv, ExchangeTypes
    <2>5. ExchangeTypes' /\ Quiet' /\ Lined' /\ ResyncSettles'
      BY <1>1, <1>2, <2>2, <2>3, <2>4, HeadLeaves DEF ExchangeInv
    <2> HIDE DEF q
    <2>6. client \in [Clients -> Sdks] /\ unaware \subseteq Clients
      BY DEF ExchangeInv, ExchangeTypes
    <2>7. KnowsItsCommits'
      BY <1>6, <2>2, <2>6 DEF ExchangeInv, KnowsItsCommits
    <2> QED BY <2>5, <2>7 DEF ExchangeInv
  <1> QED BY <1>1, <1>5, <1>6

(* A transaction is executed.  Its client hears so, or is in doubt already, *)
(* or is from now on.                                                       *)
LEMMA AdmitKeeps ==
  ASSUME ExchangeInv, NEW committed \in BOOLEAN, Admit(committed)
  PROVE  ExchangeInv'
  <1> DEFINE q == Head(backlog)
  <1>1. /\ backlog # <<>> /\ epoch' = epoch /\ Consume
        /\ q.request = "transaction"
        /\ \/ /\ Lost(q)
              /\ unaware' = IF committed /\ Holds(q) THEN unaware \cup {q.client}
                            ELSE unaware
           \/ q.open /\ Heard(q, Received(client[q.client]))
              /\ unaware' = unaware
    BY DEF Admit
  <1>2. next' \in Nat /\ next \in Nat
    BY <1>1 DEF Consume, ExchangeInv, ExchangeTypes
  <1>3. q.open => q.client \in Clients /\ client[q.client].request = q.request
    BY <1>1, TailOf DEF ExchangeInv, Lined, Waited
  <1>4. q.open => client[q.client] \in Sdks
    BY <1>3 DEF ExchangeInv, ExchangeTypes
  <1>5. CASE q.open /\ Heard(q, Received(client[q.client]))
             /\ unaware' = unaware
    <2>1. PICK k : k = Received(client[q.client])
      OBVIOUS
    <2>2. /\ backlog' = Tail(backlog)
          /\ client' = IF q.open THEN [client EXCEPT ![q.client] = k] ELSE client
      BY <1>5, <2>1 DEF Heard
    <2>3. client[q.client] \in Sdks
      BY <1>4, <1>5
    <2>4. /\ k \in Sdks /\ k.epoch = client[q.client].epoch
          /\ k.goal = "none" => k.request = "none" /\ ~k.sent
          /\ client[q.client].uncertain => k.uncertain
      BY <1>2, <2>1, <2>3, ReceivedSdk
    <2> QED BY <1>1, <1>2, <1>5, <2>2, <2>4, HeadKeeps
  <1>6. CASE Lost(q) /\ unaware' = unaware
    BY <1>1, <1>2, <1>6, LostKeeps
  <1>7. CASE Lost(q) /\ Holds(q) /\ unaware' = unaware \cup {q.client}
    <2>1. PICK k : k = Missed(client[q.client])
      OBVIOUS
    <2>2. /\ backlog' = Tail(backlog)
          /\ client' = IF q.open THEN [client EXCEPT ![q.client] = k] ELSE client
      BY <1>7, <2>1 DEF Lost
    <2>3. q.open => /\ k \in Sdks /\ k.epoch = client[q.client].epoch
                    /\ k.goal = "none" => k.request = "none" /\ ~k.sent
                    /\ k.uncertain
      <3>1. q.open => client[q.client].request = "transaction"
        BY <1>1, <1>3
      <3> QED BY <1>2, <1>4, <2>1, <3>1, SdkSteps
    <2>4. q \in Connections /\ q = backlog[1] /\ 1 \in DOMAIN backlog
      <3>1. q \in Connections /\ q = backlog[1] /\ 1 \in 1 .. Len(backlog)
        BY <1>1, TailOf DEF ExchangeInv
      <3>2. DOMAIN backlog = 1 .. Len(backlog)
        BY DEF ExchangeInv, ExchangeTypes
      <3> QED BY <3>1, <3>2
    <2>5. q.client \in Clients /\ q.client # None /\ client[q.client].epoch = q.epoch
      BY <1>7, <2>4 DEF Holds, Connections
    <2>6. q.open \/ client[q.client].uncertain
      BY <1>1, <2>4, <2>5 DEF ExchangeInv, ResyncSettles, Connections
    <2>7. unaware' \subseteq Clients
      BY <1>7, <2>5 DEF ExchangeInv, ExchangeTypes
    <2>8. ExchangeTypes' /\ Quiet' /\ Lined' /\ ResyncSettles'
      BY <1>1, <1>2, <2>2, <2>3, <2>7, HeadLeaves DEF ExchangeInv
    <2> HIDE DEF q
    <2>9. client \in [Clients -> Sdks] /\ unaware \subseteq Clients
      BY DEF ExchangeInv, ExchangeTypes
    <2>10. KnowsItsCommits'
      BY <1>7, <2>2, <2>3, <2>5, <2>6, <2>9 DEF ExchangeInv, KnowsItsCommits
    <2> QED BY <2>8, <2>10 DEF ExchangeInv
  <1> QED BY <1>1, <1>5, <1>6, <1>7

(* A client's record changes, and of its connections some go and some are   *)
(* waited for no longer.                                                    *)
LEMMA Thins ==
  ASSUME ExchangeInv, NEW c \in Clients, NEW k \in Sdks, NEW m,
         client' = [client EXCEPT ![c] = k], k.epoch = client[c].epoch,
         client[c].uncertain => k.uncertain,
         k.goal = "none" => k.request = "none" /\ ~k.sent,
         UNCHANGED <<epoch, next, unaware>>,
         backlog' \in Seq(Connections),
         \A j \in 1 .. Len(backlog') :
           /\ m[j] \in 1 .. Len(backlog)
           /\ backlog'[j].client = backlog[m[j]].client
           /\ backlog'[j].epoch = backlog[m[j]].epoch
           /\ backlog'[j].request = backlog[m[j]].request
           /\ backlog'[j].open => backlog[m[j]].open /\ backlog'[j].client # c
           /\ ~backlog'[j].open => ~backlog[m[j]].open \/ (backlog'[j].client = c /\ k.uncertain),
         \A i, j \in 1 .. Len(backlog') : i < j => m[i] < m[j]
  PROVE  ExchangeInv'
  <1>1. /\ client \in [Clients -> Sdks] /\ client' \in [Clients -> Sdks]
        /\ \A d \in Clients : client'[d].epoch = client[d].epoch
        /\ \A d \in Clients : client[d].uncertain => client'[d].uncertain
        /\ \A d \in Clients : d # c => client'[d] = client[d]
        /\ client'[c] = k
    BY DEF ExchangeInv, ExchangeTypes
  <1>2. ExchangeTypes'
    BY <1>1 DEF ExchangeInv, ExchangeTypes
  <1>3. Quiet'
    BY <1>1 DEF ExchangeInv, Quiet
  <1>4. DOMAIN backlog' = 1 .. Len(backlog') /\ DOMAIN backlog = 1 .. Len(backlog)
    BY <1>2 DEF ExchangeInv, ExchangeTypes
  <1>5. ASSUME NEW j \in 1 .. Len(backlog')
        PROVE  /\ Waited(j)' /\ Dated(j)'
               /\ backlog'[j].request = "transaction" /\ backlog'[j].client # None
                    /\ ~backlog'[j].open =>
                    client'[backlog'[j].client].uncertain
                      \/ client'[backlog'[j].client].epoch # backlog'[j].epoch
    <2>1. PICK i, p, q : i = m[j] /\ p = backlog[i] /\ q = backlog'[j]
      OBVIOUS
    <2>2. /\ i \in 1 .. Len(backlog)
          /\ q.client = p.client /\ q.epoch = p.epoch /\ q.request = p.request
          /\ q.open => p.open /\ q.client # c
          /\ ~q.open => ~p.open \/ (q.client = c /\ k.uncertain)
      BY <2>1
    <2>3. Waited(i) /\ Dated(i)
      BY <2>2 DEF ExchangeInv, Lined
    <2>4. q \in Connections
      BY <1>2, <1>5, <2>1 DEF ExchangeTypes
    <2>5. Waited(j)'
      BY <1>1, <2>1, <2>2, <2>3 DEF Waited
    <2>6. Dated(j)'
      BY <1>1, <2>1, <2>2, <2>3 DEF Dated
    <2>7. ASSUME q.request = "transaction", q.client # None, ~q.open
          PROVE  client'[q.client].uncertain \/ client'[q.client].epoch # q.epoch
      <3>1. q.client \in Clients
        BY <2>4, <2>7 DEF Connections
      <3>2. CASE q.client = c /\ k.uncertain
        BY <1>1, <3>2
      <3>3. CASE ~p.open
        <4>1. client[p.client].uncertain \/ client[p.client].epoch # p.epoch
          BY <1>4, <2>1, <2>2, <2>7, <3>3 DEF ExchangeInv, ResyncSettles
        <4> QED BY <1>1, <2>2, <3>1, <4>1
      <3> QED BY <2>2, <2>7, <3>2, <3>3
    <2> QED BY <2>1, <2>5, <2>6, <2>7
  <1>6. InOrder'
    <2> SUFFICES ASSUME NEW i \in 1 .. Len(backlog'), NEW j \in 1 .. Len(backlog'), i < j,
                        backlog'[i].client = backlog'[j].client, backlog'[i].client # None
                 PROVE  ~backlog'[i].open
      BY DEF InOrder
    <2>1. m[i] < m[j] /\ m[i] \in 1 .. Len(backlog) /\ m[j] \in 1 .. Len(backlog)
      OBVIOUS
    <2>2. ~backlog[m[i]].open
      BY <2>1 DEF ExchangeInv, Lined, InOrder
    <2> QED BY <2>2
  <1>7. Lined'
    BY <1>1, <1>5, <1>6 DEF ExchangeInv, Lined
  <1>8. ResyncSettles'
    BY <1>4, <1>5 DEF ResyncSettles
  <1>9. KnowsItsCommits'
    BY <1>1 DEF ExchangeInv, ExchangeTypes, KnowsItsCommits
  <1> QED BY <1>2, <1>3, <1>7, <1>8, <1>9 DEF ExchangeInv

(* What a client that has sent nothing does with its own record. *)
LEMMA AsideKeeps ==
  ASSUME ExchangeInv, NEW c \in Clients, NEW k \in Sdks,
         client' = [client EXCEPT ![c] = k], k.epoch = client[c].epoch,
         client[c].uncertain => k.uncertain,
         k.goal = "none" => k.request = "none" /\ ~k.sent,
         \A i \in 1 .. Len(backlog) : ~Awaited(c, i),
         UNCHANGED <<epoch, next, unaware, backlog>>
  PROVE  ExchangeInv'
  <1> DEFINE m == [i \in 1 .. Len(backlog) |-> i]
  <1>1. /\ backlog' = backlog /\ backlog \in Seq(Connections)
        /\ \A i \in 1 .. Len(backlog) : m[i] = i
    BY DEF ExchangeInv, ExchangeTypes
  <1>2. ~(\E i \in 1 .. Len(backlog) : backlog[i].client = c /\ backlog[i].open)
    BY DEF Awaited
  <1> HIDE DEF m
  <1>3. /\ backlog' \in Seq(Connections) /\ Len(backlog') = Len(backlog)
        /\ UNCHANGED <<epoch, next, unaware>>
    BY <1>1
  <1>4. ASSUME NEW j \in 1 .. Len(backlog')
        PROVE  /\ m[j] \in 1 .. Len(backlog) /\ backlog'[j] = backlog[m[j]]
               /\ backlog'[j].open => backlog'[j].client # c
    BY <1>1, <1>2, <1>3
  <1>5. \A j, h \in 1 .. Len(backlog') : j < h => m[j] < m[h]
    BY <1>1, <1>3
  <1>6. \A j \in 1 .. Len(backlog') :
           /\ m[j] \in 1 .. Len(backlog)
           /\ backlog'[j].client = backlog[m[j]].client
           /\ backlog'[j].epoch = backlog[m[j]].epoch
           /\ backlog'[j].request = backlog[m[j]].request
           /\ backlog'[j].open => backlog[m[j]].open /\ backlog'[j].client # c
           /\ ~backlog'[j].open => ~backlog[m[j]].open \/ (backlog'[j].client = c /\ k.uncertain)
    BY <1>4
  <1> QED BY <1>3, <1>5, <1>6, Thins

LEMMA NothingSent ==
  ASSUME ExchangeInv, NEW c \in Clients, ~client[c].sent
  PROVE  \A i \in 1 .. Len(backlog) : ~Awaited(c, i)
  BY DEF ExchangeInv, Lined, Waited, Awaited

LEMMA CallKeeps ==
  ASSUME ExchangeInv, NEW c \in Clients, NEW goal \in Goals, Call(c, goal)
  PROVE  ExchangeInv'
  <1>1. client \in [Clients -> Sdks] /\ client[c] \in Sdks
    BY DEF ExchangeInv, ExchangeTypes
  <1>2. ~client[c].sent
    BY DEF Call, ExchangeInv, Quiet
  <1>3. PICK r \in Requests :
          client' = [client EXCEPT ![c].goal = goal, ![c].request = r]
    BY DEF Call, Requests
  <1> DEFINE k == [client[c] EXCEPT !.goal = goal, !.request = r]
  <1>4. client' = [client EXCEPT ![c] = k]
    BY <1>1, <1>3
  <1>5. k \in Sdks /\ k.epoch = client[c].epoch /\ k.uncertain = client[c].uncertain /\ k.goal # "none"
    BY <1>1 DEF Sdks, Goals
  <1>6. UNCHANGED <<epoch, next, unaware, backlog>>
    BY DEF Call, session
  <1> HIDE DEF k
  <1> QED BY <1>2, <1>4, <1>5, <1>6, NothingSent, AsideKeeps

LEMMA ExhaustKeeps ==
  ASSUME ExchangeInv, NEW c \in Clients, Exhaust(c)
  PROVE  ExchangeInv'
  <1>1. client \in [Clients -> Sdks] /\ client[c] \in Sdks
    BY DEF ExchangeInv, ExchangeTypes
  <1> DEFINE k == [Idle(client[c]) EXCEPT !.uncertain = TRUE]
  <1>2. client' = [client EXCEPT ![c] = k]
    BY <1>1 DEF Exhaust
  <1>3. k \in Sdks /\ k.epoch = client[c].epoch /\ k.uncertain /\ k.request = "none" /\ ~k.sent
    BY <1>1 DEF Sdks, Idle
  <1>4. UNCHANGED <<epoch, next, unaware, backlog>> /\ ~client[c].sent
    BY DEF Exhaust, session
  <1> HIDE DEF k
  <1> QED BY <1>2, <1>3, <1>4, NothingSent, AsideKeeps

(* What is left of the backlog without its i-th connection. *)
LEMMA WithoutOne ==
  ASSUME NEW q \in Seq(Connections), NEW i \in 1 .. Len(q)
  PROVE  LET r == RemoveAt(q, i) IN
         /\ r \in Seq(Connections) /\ Len(r) = Len(q) - 1
         /\ \A j \in 1 .. Len(q) - 1 : r[j] = q[IF j < i THEN j ELSE j + 1]
  <1> DEFINE a == SubSeq(q, 1, i - 1)
             b == SubSeq(q, i + 1, Len(q))
  <1>1. Len(q) \in Nat /\ i \in Nat /\ i <= Len(q) /\ 1 <= i
    BY LenProperties
  <1>2. /\ a \in Seq(Connections) /\ Len(a) = i - 1
        /\ \A j \in 1 .. i - 1 : a[j] = q[j]
    BY <1>1
  <1>3. /\ b \in Seq(Connections) /\ Len(b) = Len(q) - i
        /\ \A j \in 1 .. Len(q) - i : b[j] = q[i + j]
    BY <1>1
  <1>4. RemoveAt(q, i) = a \o b
    BY DEF RemoveAt
  <1> HIDE DEF a, b
  <1>5. /\ a \o b \in Seq(Connections) /\ Len(a \o b) = Len(a) + Len(b)
        /\ \A j \in 1 .. Len(a) + Len(b) :
             (a \o b)[j] = IF j <= Len(a) THEN a[j] ELSE b[j - Len(a)]
    BY <1>2, <1>3, ConcatProperties
  <1>6. Len(a \o b) = Len(q) - 1
    BY <1>1, <1>2, <1>3, <1>5
  <1>7. ASSUME NEW j \in 1 .. Len(q) - 1
        PROVE  (a \o b)[j] = q[IF j < i THEN j ELSE j + 1]
    <2>1. CASE j < i
      BY <1>1, <1>2, <1>3, <1>5, <1>7, <2>1
    <2>2. CASE ~(j < i)
      <3>1. ~(j <= Len(a)) /\ j \in 1 .. Len(a) + Len(b) /\ j - Len(a) \in 1 .. Len(q) - i
        BY <1>1, <1>2, <1>3, <1>7, <2>2
      <3>2. i + (j - Len(a)) = j + 1
        BY <1>1, <1>2, <1>7
      <3> QED BY <1>3, <1>5, <2>2, <3>1, <3>2
    <2> QED BY <2>1, <2>2
  <1> QED BY <1>4, <1>5, <1>6, <1>7

(* The caller of a request is gone; the host may not have seen it go.  Only  *)
(* a transaction is left behind, and the client knows.                      *)
LEMMA AbandonKeeps ==
  ASSUME ExchangeInv, NEW c \in Clients, Abandon(c)
  PROVE  ExchangeInv'
  <1>1. /\ client \in [Clients -> Sdks] /\ client[c] \in Sdks /\ next \in Nat
        /\ backlog \in Seq(Connections) /\ Len(backlog) \in Nat
        /\ \A i \in 1 .. Len(backlog) : backlog[i] \in Connections
        /\ DOMAIN backlog = 1 .. Len(backlog)
    BY DEF ExchangeInv, ExchangeTypes
  <1>2. PICK k : k = Missed(client[c])
    OBVIOUS
  <1>3. client' = [client EXCEPT ![c] = k] /\ UNCHANGED <<epoch, next, unaware>>
    BY <1>1, <1>2 DEF Abandon, session
  <1>4. /\ k \in Sdks /\ k.epoch = client[c].epoch
        /\ client[c].uncertain => k.uncertain
        /\ k.goal = "none" => k.request = "none" /\ ~k.sent
        /\ client[c].request = "transaction" => k.uncertain
    BY <1>1, <1>2, SdkSteps
  <1>5. CASE (\A i \in DOMAIN backlog : ~Awaited(c, i)) /\ UNCHANGED backlog
    BY <1>1, <1>3, <1>4, <1>5, AsideKeeps
  <1>6. ASSUME NEW i \in 1 .. Len(backlog), Awaited(c, i),
               backlog' = RemoveAt(backlog, i)
        PROVE  ExchangeInv'
    <2> DEFINE m == [j \in 1 .. Len(backlog) - 1 |-> IF j < i THEN j ELSE j + 1]
    <2>1. /\ backlog' \in Seq(Connections) /\ Len(backlog') = Len(backlog) - 1
          /\ \A j \in 1 .. Len(backlog) - 1 : backlog'[j] = backlog[IF j < i THEN j ELSE j + 1]
      BY <1>1, <1>6, WithoutOne
    <2>2. \A j \in 1 .. Len(backlog) - 1 :
            /\ m[j] \in 1 .. Len(backlog) /\ m[j] # i
            /\ backlog'[j] = backlog[m[j]]
      BY <1>1, <2>1
    <2>3. \A j, h \in 1 .. Len(backlog) - 1 : j < h => m[j] < m[h]
      BY <1>1
    <2>4. backlog[i].client = c /\ backlog[i].open /\ c # None
      BY <1>6, NobodyIsNoClient DEF Awaited
    <2> HIDE DEF m
    <2>5. ASSUME NEW h \in 1 .. Len(backlog), h # i, backlog[h].open PROVE backlog[h].client # c
      <3>1. h < i \/ i < h
        BY <1>1, <2>5
      <3> QED BY <2>4, <2>5, <3>1 DEF ExchangeInv, Lined, InOrder
    <2>6. \A j \in 1 .. Len(backlog') :
            /\ m[j] \in 1 .. Len(backlog)
            /\ backlog'[j].client = backlog[m[j]].client
            /\ backlog'[j].epoch = backlog[m[j]].epoch
            /\ backlog'[j].request = backlog[m[j]].request
            /\ backlog'[j].open => backlog[m[j]].open /\ backlog'[j].client # c
            /\ ~backlog'[j].open => ~backlog[m[j]].open \/ (backlog'[j].client = c /\ k.uncertain)
      BY <2>1, <2>2, <2>5
    <2>7. \A j, h \in 1 .. Len(backlog') : j < h => m[j] < m[h]
      BY <2>1, <2>3
    <2> QED BY <1>3, <1>4, <2>1, <2>6, <2>7, Thins
  <1>7. CASE /\ client[c].request = "transaction"
             /\ backlog' = [i \in DOMAIN backlog |->
                  IF backlog[i].client = c THEN [backlog[i] EXCEPT !.open = FALSE] ELSE backlog[i]]
    <2> DEFINE m == [i \in 1 .. Len(backlog) |-> i]
    <2>1. \A i \in 1 .. Len(backlog) :
            /\ [backlog[i] EXCEPT !.open = FALSE] \in Connections
            /\ [backlog[i] EXCEPT !.open = FALSE].client = backlog[i].client
            /\ [backlog[i] EXCEPT !.open = FALSE].epoch = backlog[i].epoch
            /\ [backlog[i] EXCEPT !.open = FALSE].request = backlog[i].request
            /\ ~[backlog[i] EXCEPT !.open = FALSE].open
      BY <1>1 DEF Connections
    <2>2. backlog' \in [1 .. Len(backlog) -> Connections]
      BY <1>1, <1>7, <2>1
    <2>3. backlog' \in Seq(Connections) /\ Len(backlog') = Len(backlog)
      BY <1>1, <2>2
    <2>4. \A i \in 1 .. Len(backlog) :
            /\ backlog'[i].client = backlog[i].client /\ backlog'[i].epoch = backlog[i].epoch
            /\ backlog'[i].request = backlog[i].request
            /\ backlog'[i].open => backlog[i].open /\ backlog'[i].client # c
            /\ ~backlog'[i].open => ~backlog[i].open \/ backlog'[i].client = c
      BY <1>1, <1>7, <2>1
    <2>5. \A i \in 1 .. Len(backlog) : m[i] = i
      OBVIOUS
    <2> HIDE DEF m
    <2>6. \A j \in 1 .. Len(backlog') :
            /\ m[j] \in 1 .. Len(backlog)
            /\ backlog'[j].client = backlog[m[j]].client
            /\ backlog'[j].epoch = backlog[m[j]].epoch
            /\ backlog'[j].request = backlog[m[j]].request
            /\ backlog'[j].open => backlog[m[j]].open /\ backlog'[j].client # c
            /\ ~backlog'[j].open => ~backlog[m[j]].open \/ (backlog'[j].client = c /\ k.uncertain)
      BY <1>4, <1>7, <2>3, <2>4, <2>5
    <2>7. \A j, h \in 1 .. Len(backlog') : j < h => m[j] < m[h]
      BY <2>3, <2>5
    <2> QED BY <1>3, <1>4, <2>3, <2>6, <2>7, Thins
  <1> QED BY <1>1, <1>5, <1>6, <1>7 DEF Abandon

(* A connection joins the backlog: of a client that had none there that it  *)
(* waits for, or of nobody.                                                 *)
LEMMA JoinKeeps ==
  ASSUME ExchangeInv, NEW q \in Connections, backlog' = Append(backlog, q),
         UNCHANGED <<epoch, next, unaware>>, client' \in [Clients -> Sdks],
         \A c \in Clients : /\ client'[c].epoch = client[c].epoch
                            /\ client'[c].uncertain = client[c].uncertain
                            /\ client'[c] = client[c] \/ ~client[c].sent,
         Quiet', q.epoch <= epoch,
         q.client \in Clients => ~client[q.client].sent /\ q.epoch <= client[q.client].epoch,
         q.open => /\ q.client \in Clients
                   /\ client'[q.client].sent /\ client'[q.client].request = q.request,
         q.open \/ q.client = None
  PROVE  ExchangeInv'
  <1> DEFINE n == Len(backlog)
  <1>1. /\ backlog' \in Seq(Connections) /\ n \in Nat /\ Len(backlog') = n + 1
        /\ \A i \in 1 .. n : backlog'[i] = backlog[i]
        /\ backlog'[n + 1] = q
        /\ DOMAIN backlog = 1 .. n /\ DOMAIN backlog' = 1 .. n + 1
        /\ \A i \in 1 .. n : backlog[i] \in Connections
        /\ client \in [Clients -> Sdks] /\ unaware \subseteq Clients
    BY DEF ExchangeInv, ExchangeTypes
  <1>2. ExchangeTypes'
    BY <1>1 DEF ExchangeInv, ExchangeTypes
  <1>3. \A i \in 1 .. n : Waited(i) /\ Dated(i)
    BY DEF ExchangeInv, Lined
  <1>4. ASSUME NEW i \in 1 .. n PROVE Waited(i)' /\ Dated(i)'
    <2>1. PICK p : p = backlog[i]
      OBVIOUS
    <2>2. backlog'[i] = p
      BY <1>1, <2>1
    <2> QED BY <1>3, <2>1, <2>2 DEF Waited, Dated
  <1>5. ASSUME NEW i, i = n + 1 PROVE Waited(i)' /\ Dated(i)'
    <2>1. backlog'[i] = q
      BY <1>1, <1>5
    <2> QED BY <2>1 DEF Waited, Dated
  <1>6. ASSUME NEW i \in 1 .. n, backlog[i].client \in Clients, ~client[backlog[i].client].sent
        PROVE  ~backlog[i].open
    BY <1>3, <1>6 DEF Waited
  <1>7. InOrder'
    <2> SUFFICES ASSUME NEW i \in 1 .. n + 1, NEW j \in 1 .. n + 1, i < j,
                        backlog'[i].client = backlog'[j].client, backlog'[i].client # None
                 PROVE  ~backlog'[i].open
      BY <1>1 DEF InOrder
    <2>1. i \in 1 .. n /\ backlog'[i] = backlog[i]
      BY <1>1
    <2>2. CASE j \in 1 .. n
      BY <1>1, <2>1, <2>2 DEF ExchangeInv, Lined, InOrder
    <2>3. CASE j = n + 1
      <3>1. backlog[i].client = q.client /\ q.client \in Clients
        BY <1>1, <2>1, <2>3 DEF Connections
      <3> QED BY <1>6, <2>1, <3>1
    <2>4. n \in Nat
      BY <1>1
    <2>5. j \in 1 .. n \/ j = n + 1
      BY <2>4
    <2> QED BY <2>2, <2>3, <2>5
  <1>8. Lined'
    <2>1. \A c \in Clients : client'[c].epoch <= epoch'
      BY DEF ExchangeInv, Lined
    <2>2. \A i \in 1 .. Len(backlog') : i \in 1 .. n \/ i = n + 1
      BY <1>1
    <2>3. \A i \in 1 .. Len(backlog') : Waited(i)' /\ Dated(i)'
      BY <1>4, <1>5, <2>2
    <2> QED BY <1>7, <2>1, <2>3 DEF Lined
  <1>9. ResyncSettles'
    <2> SUFFICES ASSUME NEW i \in 1 .. n + 1, backlog'[i].request = "transaction",
                        backlog'[i].client # None, ~backlog'[i].open
                 PROVE  client'[backlog'[i].client].uncertain
                          \/ client'[backlog'[i].client].epoch # backlog'[i].epoch
      BY <1>1 DEF ResyncSettles
    <2>1. i \in 1 .. n /\ backlog'[i] = backlog[i]
      BY <1>1
    <2>2. PICK p : p = backlog[i]
      OBVIOUS
    <2>3. p.client \in Clients
      BY <1>1, <2>1, <2>2 DEF Connections
    <2>4. client[p.client].uncertain \/ client[p.client].epoch # p.epoch
      BY <1>1, <2>1, <2>2 DEF ExchangeInv, ResyncSettles
    <2> QED BY <2>1, <2>2, <2>3, <2>4
  <1>10. KnowsItsCommits'
    BY <1>1 DEF ExchangeInv, KnowsItsCommits
  <1> QED BY <1>2, <1>8, <1>9, <1>10 DEF ExchangeInv

LEMMA SendKeeps ==
  ASSUME ExchangeInv, NEW c \in Clients, Send(c)
  PROVE  ExchangeInv'
  <1>1. /\ client \in [Clients -> Sdks] /\ client[c] \in Sdks
        /\ epoch \in Nat /\ client[c].epoch <= epoch
    BY DEF ExchangeInv, ExchangeTypes, Lined
  <1> DEFINE q == [client |-> c, epoch |-> client[c].epoch, request |-> client[c].request,
                   sequence |-> client[c].next, open |-> TRUE]
             k == [client[c] EXCEPT !.sent = TRUE]
  <1>2. /\ backlog' = Append(backlog, q) /\ client' = [client EXCEPT ![c] = k]
        /\ UNCHANGED <<epoch, next, unaware>>
        /\ client[c].request # "none" /\ ~client[c].sent
    BY <1>1 DEF Send, session
  <1>3. /\ k \in Sdks /\ k.sent /\ k.goal = client[c].goal /\ k.request = client[c].request
        /\ k.epoch = client[c].epoch /\ k.uncertain = client[c].uncertain
    BY <1>1 DEF Sdks
  <1>4. q \in Connections /\ q.client = c /\ q.epoch = client[c].epoch /\ q.open
        /\ q.request = client[c].request
    BY <1>1, <1>2 DEF Connections, Sdks
  <1>5. client[c].goal # "none"
    BY <1>2 DEF ExchangeInv, Quiet
  <1> HIDE DEF k, q
  <1>6. client' \in [Clients -> Sdks] /\ client'[c] = k /\ \A d \in Clients : d # c => client'[d] = client[d]
    BY <1>1, <1>2, <1>3
  <1>7. Quiet'
    BY <1>3, <1>5, <1>6 DEF ExchangeInv, Quiet
  <1>8. \A d \in Clients : /\ client'[d].epoch = client[d].epoch
                           /\ client'[d].uncertain = client[d].uncertain
                           /\ client'[d] = client[d] \/ ~client[d].sent
    BY <1>2, <1>3, <1>6
  <1>9. q.client \in Clients => ~client[q.client].sent /\ q.epoch <= client[q.client].epoch
    <2>1. client[c].epoch \in Nat
      BY <1>1 DEF Sdks
    <2> QED BY <1>2, <1>4, <2>1
  <1> QED BY <1>1, <1>2, <1>3, <1>4, <1>6, <1>7, <1>8, <1>9, JoinKeeps

LEMMA PostKeeps ==
  ASSUME ExchangeInv, NEW s \in Nat, Post(s)
  PROVE  ExchangeInv'
  <1> DEFINE q == [client |-> None, epoch |-> epoch, request |-> "transaction",
                   sequence |-> s, open |-> FALSE]
  <1>1. /\ backlog' = Append(backlog, q)
        /\ UNCHANGED <<epoch, next, unaware, client>>
    BY DEF Post, session
  <1>2. epoch \in Nat /\ client' \in [Clients -> Sdks]
    BY <1>1 DEF ExchangeInv, ExchangeTypes
  <1>3. q \in Connections /\ q.client = None /\ q.epoch <= epoch /\ ~q.open
    BY <1>2 DEF Connections, Requests
  <1>4. Quiet'
    BY <1>1 DEF ExchangeInv, Quiet
  <1> HIDE DEF q
  <1> QED BY <1>1, <1>2, <1>3, <1>4, NobodyIsNoClient, JoinKeeps

(* A new Client has newer credentials than every connection of its         *)
(* predecessor.                                                             *)
LEMMA NewClientKeeps ==
  ASSUME ExchangeInv, NEW c \in Clients, client[c].goal = "none", NEW e \in Nat,
         e = epoch', epoch <= e, client[c].epoch < e,
         client' = [client EXCEPT ![c] = NewClient(e)],
         unaware' = unaware \ {c}, next' \in Nat, UNCHANGED backlog
  PROVE  ExchangeInv'
  <1>1. PICK k : k = NewClient(e)
    OBVIOUS
  <1>2. /\ k \in Sdks /\ k.epoch = e /\ ~k.sent /\ k.goal = "none" /\ k.request = "none"
    BY <1>1, FreshSdk
  <1>3. /\ client \in [Clients -> Sdks] /\ epoch \in Nat /\ unaware \subseteq Clients
        /\ DOMAIN backlog = 1 .. Len(backlog)
        /\ \A i \in 1 .. Len(backlog) : backlog[i] \in Connections
    BY DEF ExchangeInv, ExchangeTypes
  <1>4. /\ client' \in [Clients -> Sdks] /\ client'[c] = k
        /\ \A d \in Clients : d # c => client'[d] = client[d]
    BY <1>1, <1>2, <1>3
  <1>5. ExchangeTypes'
    BY <1>4 DEF ExchangeInv, ExchangeTypes
  <1>6. Quiet'
    BY <1>2, <1>4 DEF ExchangeInv, Quiet
  <1>7. ~client[c].sent
    BY DEF ExchangeInv, Quiet
  <1>8. ASSUME NEW i \in 1 .. Len(backlog)
        PROVE  /\ Waited(i)' /\ Dated(i)'
               /\ backlog[i].client = c => backlog[i].epoch < e
    <2>1. Waited(i) /\ Dated(i)
      BY DEF ExchangeInv, Lined
    <2>2. PICK q : q = backlog[i] /\ q = backlog'[i]
      OBVIOUS
    <2>3. q.epoch \in Nat /\ \A d \in Clients : client[d].epoch \in Nat
      BY <1>3, <2>2 DEF Connections, Sdks
    <2>4. q.client = c => q.epoch < e
      BY <2>1, <2>2, <2>3 DEF Dated
    <2>5. Waited(i)'
      BY <1>4, <1>7, <2>1, <2>2 DEF Waited
    <2>6. q.epoch <= epoch'
      BY <1>3, <2>1, <2>2, <2>3 DEF Dated
    <2>7. q.client \in Clients => q.epoch <= client'[q.client].epoch
      BY <1>2, <1>4, <2>1, <2>2, <2>3, <2>4 DEF Dated
    <2>8. Dated(i)'
      BY <2>2, <2>6, <2>7 DEF Dated
    <2> QED BY <2>2, <2>4, <2>5, <2>8
  <1>9. \A d \in Clients : client'[d].epoch <= epoch'
    <2>1. \A d \in Clients : client[d].epoch <= epoch /\ client[d].epoch \in Nat
      BY <1>3 DEF ExchangeInv, Lined, Sdks
    <2> QED BY <1>2, <1>3, <1>4, <2>1
  <1>10. Lined'
    <2>1. InOrder'
      BY DEF ExchangeInv, Lined, InOrder
    <2> QED BY <1>8, <1>9, <2>1 DEF Lined
  <1>11. ResyncSettles'
    <2> SUFFICES ASSUME NEW i \in 1 .. Len(backlog), backlog[i].request = "transaction",
                        backlog[i].client # None, ~backlog[i].open
                 PROVE  client'[backlog[i].client].uncertain
                          \/ client'[backlog[i].client].epoch # backlog[i].epoch
      BY <1>3 DEF ResyncSettles
    <2>1. backlog[i] \in Connections /\ backlog[i].client \in Clients
      BY <1>3 DEF Connections
    <2>2. CASE backlog[i].client = c
      <3>1. backlog[i].epoch < e /\ backlog[i].epoch \in Nat
        BY <1>8, <2>1, <2>2 DEF Connections
      <3> QED BY <1>2, <1>4, <2>2, <3>1
    <2>3. CASE backlog[i].client # c
      BY <1>3, <1>4, <2>1, <2>3 DEF ExchangeInv, ResyncSettles
    <2> QED BY <2>2, <2>3
  <1>12. KnowsItsCommits'
    BY <1>3, <1>4 DEF ExchangeInv, KnowsItsCommits
  <1> QED BY <1>5, <1>6, <1>10, <1>11, <1>12 DEF ExchangeInv

LEMMA ExchangeInit == ResyncInit => ExchangeInv
  <1> SUFFICES ASSUME ResyncInit PROVE ExchangeInv
    OBVIOUS
  <1>1. /\ epoch = 1 /\ next = 1 /\ backlog = <<>> /\ unaware = {}
        /\ client = [c \in Clients |-> NewClient(1)]
    BY DEF ResyncInit
  <1>2. PICK k : k = NewClient(1)
    OBVIOUS
  <1>3. /\ k \in Sdks /\ k.epoch = 1 /\ ~k.sent /\ k.goal = "none" /\ k.request = "none"
        /\ \A c \in Clients : client[c] = k
    BY <1>1, <1>2, FreshSdk
  <1>4. Len(backlog) = 0 /\ backlog \in Seq(Connections) /\ DOMAIN backlog = {}
    BY <1>1
  <1>5. client \in [Clients -> Sdks]
    BY <1>1, <1>2, <1>3
  <1> QED BY <1>1, <1>3, <1>4, <1>5
        DEF ExchangeInv, ExchangeTypes, Quiet, Lined, InOrder, ResyncSettles,
            KnowsItsCommits

LEMMA ExchangeStep == ExchangeInv /\ [ResyncNext]_resyncVars => ExchangeInv'
  <1> SUFFICES ASSUME ExchangeInv, [ResyncNext]_resyncVars PROVE ExchangeInv'
    OBVIOUS
  <1>1. ASSUME UNCHANGED <<epoch, next, backlog, client, unaware>> PROVE ExchangeInv'
    BY <1>1 DEF ExchangeInv, ExchangeTypes, Quiet, Lined, Waited, Dated, InOrder,
                ResyncSettles, KnowsItsCommits
  <1>2. CASE ExpireSession \/ UNCHANGED resyncVars
    BY <1>1, <1>2 DEF ExpireSession, resyncVars, session
  <1>3. CASE Stop
    <2>1. backlog' = <<>> /\ UNCHANGED <<epoch, next, client, unaware>>
      BY <1>3 DEF Stop
    <2>2. backlog' \in Seq(Connections) /\ Len(backlog') = 0 /\ DOMAIN backlog' = {}
      BY <2>1
    <2> QED BY <2>1, <2>2 DEF ExchangeInv, ExchangeTypes, Quiet, Lined, InOrder,
                              ResyncSettles, KnowsItsCommits
  <1>4. CASE Close
    <2>1. backlog # <<>> /\ Lost(Head(backlog)) /\ UNCHANGED <<epoch, next, unaware>>
      BY <1>4 DEF Close, session
    <2>2. next' \in Nat
      BY <2>1 DEF ExchangeInv, ExchangeTypes
    <2> QED BY <2>1, <2>2, LostKeeps
  <1>5. CASE RefuseHead \/ Read \/ \E committed \in BOOLEAN : Admit(committed)
    BY <1>5, RefusalKeeps, ReadKeeps, AdmitKeeps
  <1>6. ASSUME NEW s \in 1 .. MaxSequence, Post(s) PROVE ExchangeInv'
    <2>1. s \in Nat
      BY ResyncAssumption
    <2> QED BY <1>6, <2>1, PostKeeps
  <1>7. ASSUME NEW c \in Clients, RenewSession(c) PROVE ExchangeInv'
    <2>1. epoch \in Nat /\ client[c].epoch \in Nat /\ client[c].epoch <= epoch
      BY DEF ExchangeInv, ExchangeTypes, Lined, Sdks
    <2>2. PICK e : e = epoch + 1
      OBVIOUS
    <2>3. /\ e \in Nat /\ e = epoch' /\ epoch <= e /\ client[c].epoch < e
          /\ next' = 1 /\ client[c].goal = "none"
          /\ client' = [client EXCEPT ![c] = NewClient(e)]
          /\ unaware' = unaware \ {c} /\ UNCHANGED backlog
      BY <1>7, <2>1, <2>2 DEF RenewSession
    <2> QED BY <2>3, NewClientKeeps
  <1>8. ASSUME NEW c \in Clients, Replace(c) PROVE ExchangeInv'
    <2>1. epoch \in Nat /\ next \in Nat
      BY DEF ExchangeInv, ExchangeTypes
    <2>2. PICK e : e = epoch
      OBVIOUS
    <2>3. /\ e \in Nat /\ e = epoch' /\ epoch <= e /\ client[c].epoch < e
          /\ next' = next /\ client[c].goal = "none"
          /\ client' = [client EXCEPT ![c] = NewClient(e)]
          /\ unaware' = unaware \ {c} /\ UNCHANGED backlog
      BY <1>8, <2>1, <2>2 DEF Replace, session
    <2> QED BY <2>1, <2>3, NewClientKeeps
  <1>9. ASSUME NEW c \in Clients,
               \/ \E goal \in Goals : Call(c, goal)
               \/ Exhaust(c) \/ Send(c) \/ Abandon(c)
        PROVE  ExchangeInv'
    BY <1>9, CallKeeps, ExhaustKeeps, SendKeeps, AbandonKeeps
  <1> QED BY <1>2, <1>3, <1>4, <1>5, <1>6, <1>7, <1>8, <1>9 DEF ResyncNext

THEOREM ExchangeInvariant == ResyncSpec => []ExchangeInv
  <1> QED BY ExchangeInit, ExchangeStep, PTL DEF ResyncSpec

(***************************************************************************)
(* A client that is certain has nothing in transit that may still be       *)
(* executed, for every backlog and number of callers, renewals and         *)
(* restarts of the session.                                                *)
(***************************************************************************)
THEOREM NothingAfterResync == ResyncSpec => []ResyncSettles
  <1>1. ExchangeInv => ResyncSettles
    BY DEF ExchangeInv
  <1> QED BY <1>1, ExchangeInvariant, PTL

(***************************************************************************)
(* And it has seen each of its commits, in a receipt or in a snapshot.     *)
(***************************************************************************)
THEOREM CertainMeansSeen == ResyncSpec => []KnowsItsCommits
  <1>1. ExchangeInv => KnowsItsCommits
    BY DEF ExchangeInv
  <1> QED BY <1>1, ExchangeInvariant, PTL
=============================================================================
