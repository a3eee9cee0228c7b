------------------------- MODULE DurableStoreProofs -------------------------
(***************************************************************************)
(* Proofs about the crash-recoverable store, for every limit, quota and    *)
(* set of requests.  The argument: what open() would restore is the top of *)
(* a chain, of which the checkpoint and every whole frame are prefixes,    *)
(* with highs that end at the top and leave no gap after the checkpoint's. *)
(* Every I/O call keeps the chain; only the footer of a frame raises its   *)
(* top, by the one entry prepared, and memory says by its place in the     *)
(* call which of package and prepared the top is.                          *)
(***************************************************************************)
EXTENDS DurableStore, SequenceTheorems, SumTheorems, TLAPS

(* A package encode() may write and decode() accepts. *)
Good(p) == p \in Packages /\ Decodes(p)

(* The entries of p come first in q. *)
Below(p, q) ==
  /\ High(p) <= High(q)
  /\ \A i \in 1 .. High(p) : p.entries[i] = q.entries[i]

(* The frames of a journal that count: all but a torn last one. *)
WholeCount(frames) == IF Torn(frames) THEN Len(frames) - 1 ELSE Len(frames)

(* The checkpoint's package and the first n frames lead up to top. *)
Chain(frames, n, base, top) ==
  /\ Good(base) /\ Good(top) /\ Below(base, top)
  /\ High(top) - n <= High(base)
  /\ \A i \in 1 .. n :
       /\ Complete(frames[i]) /\ Good(frames[i].package) /\ Below(frames[i].package, top)
       /\ High(frames[i].package) > 0
       /\ High(frames[i].package) = High(top) - n + i

\* The files, once create() has put a checkpoint in place.
Files ==
  checkpoint # Absent =>
    /\ directory /\ checkpoint \in Frames /\ Complete(checkpoint)
    /\ journal \in Seq(Frames)
    /\ Chain(journal, WholeCount(journal), checkpoint.package, Restored)

\* Before that only create() has been at work.
Creating ==
  /\ checkpoint = Absent =>
       pc = "down" \/ task = "create"
  /\ task = "create" =>
       /\ directory /\ package = EmptyPackage
       /\ pc # "create_journal" => journal = <<>>
       /\ pc # "replaced" => checkpoint = Absent

Applying == {"write_body", "flush_body", "write_footer", "flush_footer", "publish"}
Replacing == {"open_scratch", "write_scratch", "flush_scratch", "replace", "replaced"}

\* Where each call may stand.
Places ==
  /\ pc \in {"down", "idle", "sealed"} => task = None
  /\ pc = "create_journal" => task = "create"
  /\ pc \in Replacing => task \in {"create", "compact"}
  /\ pc = "reclaimed" => task = "compact"
  /\ pc \in Applying \cup {"before_ack"} => task = "apply"
  /\ pc \in {"truncate", "remove_scratch"} => task = "open"
  /\ pc \in {"write_scratch", "flush_scratch", "replace"} =>
       scratch # Absent /\ scratch.package = package

\* What the owner's memory says of the files.
Memory ==
  /\ Good(package) /\ Good(prepared)
  /\ checkpoint # Absent /\ pc \notin {"down", "sealed", "flush_footer", "publish"} =>
       Restored = package
  /\ pc \in {"flush_footer", "publish"} => Restored = prepared
  /\ pc \in Applying => High(prepared) = High(package) + 1 /\ Below(package, prepared)
  /\ pc \in {"replaced", "reclaimed"} => checkpoint # Absent /\ checkpoint.package = package
  /\ pc = "reclaimed" => journal = <<>>
  /\ pc = "sealed" => Below(package, Restored) /\ High(Restored) <= High(package) + 1

\* When the journal's tail is torn: only in an append, or where a kill or a failure left it.
TornTail ==
  /\ pc \notin {"down", "sealed", "truncate", "create_journal", "write_body", "flush_body", "write_footer"}
       => ~Torn(journal)
  /\ pc \in {"flush_body", "write_footer"} =>
       Torn(journal) /\ Last(journal).package = prepared /\ Last(journal).bytes = BodySize(prepared)

\* A reply about to be returned reports the entry at its sequence.
Answering ==
  pc = "before_ack" => \E n \in 1 .. High(package) :
    answer = [asked |-> n, receipt |-> [sequence |-> n, payload |-> package.entries[n].payload]]

\* What is written of a frame still without its footer.
TailBytes == IF Torn(journal) THEN Last(journal).bytes ELSE 0
JournalBytes == IF journal = Absent THEN 0 ELSE Written(journal)

\* What the files hold, and what the call in progress may still write, is within
\* the quota; a checkpoint being replaced and its successor both count.
Room ==
  /\ ~directory \/ pc = "create_journal" => journal = Absent
  /\ checkpoint # Absent => WithinQuota(0)
  /\ pc \in {"open_scratch", "write_scratch", "flush_scratch", "replace"} =>
       Bytes(checkpoint) + JournalBytes + FrameSize(package) <= Quota
  /\ pc \in {"write_scratch", "flush_scratch", "replace"} => Bytes(scratch) <= FrameSize(package)
  /\ pc \in {"write_body", "flush_body", "write_footer"} =>
       /\ WithinQuota(FrameSize(prepared) - TailBytes)
       /\ TailBytes <= FrameSize(prepared)

IInv == TypeOK /\ Files /\ Creating /\ Places /\ Memory /\ TornTail /\ Answering

-----------------------------------------------------------------------------
(* Packages.                                                               *)

LEMMA PackageParts ==
  ASSUME NEW p \in Packages
  PROVE  /\ p = [entries |-> p.entries, receipts |-> p.receipts]
         /\ p.entries \in Seq(Entries) /\ High(p) \in 0 .. CommitLimit /\ High(p) \in Nat
         /\ p.receipts \in Seq(Receipts) /\ Len(p.receipts) <= ReceiptLimit
BY DurableStoreAssumption DEF Packages, SeqOf, High

LEMMA LowRange ==
  ASSUME NEW p \in Packages
  PROVE  Low(p) \in Nat \ {0} /\ Low(p) <= High(p) + 1
BY PackageParts, DurableStoreAssumption DEF Low, LowMark

LEMMA EmptyGood == Good(EmptyPackage) /\ High(EmptyPackage) = 0
<1>1. EmptyPackage \in Packages /\ High(EmptyPackage) = 0
  <2>1. CommitLimit \in Nat /\ ReceiptLimit \in Nat
    BY DurableStoreAssumption
  <2>2. <<>> \in SeqOf(Entries, CommitLimit) /\ <<>> \in SeqOf(Receipts, ReceiptLimit)
    BY ONLY <2>1 DEF SeqOf
  <2>3. EmptyPackage \in Packages
    BY <2>2 DEF EmptyPackage, Packages
  <2>4. Len(EmptyPackage.entries) = 0
    BY DEF EmptyPackage
  <2> QED BY <2>3, <2>4 DEF High
<1>2. Low(EmptyPackage) = 1
  BY <1>1, DurableStoreAssumption DEF Low, LowMark
<1>3. Decodes(EmptyPackage)
  BY <1>1, <1>2, DurableStoreAssumption DEF Decodes, EmptyPackage
<1> QED BY <1>1, <1>3 DEF Good

(* A package is determined by its entries. *)
LEMMA SamePackage ==
  ASSUME NEW p, NEW q, Good(p), Good(q), Below(p, q), High(p) = High(q)
  PROVE  p = q
<1>1. p \in Packages /\ q \in Packages /\ Decodes(p) /\ Decodes(q)
  BY DEF Good
<1>2. p.entries = q.entries
  BY <1>1, PackageParts DEF Below, High
<1>3. p.receipts = q.receipts
  BY <1>1, <1>2 DEF Decodes, Low
<1> QED BY <1>1, <1>2, <1>3, PackageParts

LEMMA BelowSelf ==
  ASSUME NEW p, Good(p)
  PROVE  Below(p, p)
BY PackageParts DEF Below, Good

LEMMA BelowTransitive ==
  ASSUME NEW p, NEW q, NEW r, Good(p), Good(q), Good(r), Below(p, q), Below(q, r)
  PROVE  Below(p, r)
BY PackageParts DEF Below, Good

(* Two prefixes of one package are prefixes of each other. *)
LEMMA BelowCompare ==
  ASSUME NEW p, NEW q, NEW r, Good(p), Good(q), Good(r), Below(p, r), Below(q, r),
         High(p) <= High(q)
  PROVE  Below(p, q)
BY PackageParts DEF Below, Good

LEMMA BelowIsPrefix ==
  ASSUME NEW p, NEW q, Good(p), Good(q), Below(p, q)
  PROVE  IsPrefix(p.entries, q.entries)
<1>1. p.entries \in Seq(Entries) /\ q.entries \in Seq(Entries)
  BY PackageParts DEF Good
<1>2. /\ Len(p.entries) <= Len(q.entries)
      /\ \A i \in 1 .. Len(p.entries) : p.entries[i] = q.entries[i]
  BY <1>1 DEF Below, High
<1> QED BY <1>1, <1>2 DEF IsPrefix

(* What prepare() makes of an admitted request. *)
LEMMA ExtendedGood ==
  ASSUME NEW p, Good(p), NEW payload \in Payloads, NEW tick \in Ticks,
         High(p) < CommitLimit,
         p.entries # <<>> => tick >= Last(p.entries).tick
  PROVE  LET q == Extended(p, payload, tick) IN
         /\ Good(q) /\ High(q) = High(p) + 1 /\ Below(p, q)
         /\ q.entries = Append(p.entries, [payload |-> payload, tick |-> tick])
<1> DEFINE q == Extended(p, payload, tick)
           e == [payload |-> payload, tick |-> tick]
           r == [sequence |-> High(p) + 1, payload |-> payload]
           all == Append(p.receipts, r)
<1>1. p \in Packages /\ Decodes(p) /\ e \in Entries /\ r \in Receipts
  BY PackageParts, DurableStoreAssumption DEF Good, Entries, Receipts
<1>2. /\ p.entries \in Seq(Entries) /\ High(p) \in Nat /\ Len(p.entries) = High(p)
      /\ p.receipts \in Seq(Receipts) /\ Len(p.receipts) <= ReceiptLimit
      /\ Low(p) \in Nat \ {0}
  BY <1>1, PackageParts, LowRange DEF High
<1>3. q.entries = Append(p.entries, e)
      /\ q.receipts = (IF Len(all) > ReceiptLimit THEN Tail(all) ELSE all)
  BY DEF Extended
<1>4. /\ q.entries \in Seq(Entries) /\ Len(q.entries) = High(p) + 1
      /\ \A i \in 1 .. High(p) : q.entries[i] = p.entries[i]
      /\ q.entries[High(p) + 1] = e
  <2> HIDE DEF e
  <2> QED BY <1>1, <1>2, <1>3
<1>5. High(q) = High(p) + 1 /\ Below(p, q)
  BY <1>2, <1>4 DEF High, Below
<1>6. /\ Len(p.receipts) = High(p) - Low(p) + 1
      /\ \A i \in 1 .. Len(p.receipts) :
           p.receipts[i] = [sequence |-> Low(p) + i - 1, payload |-> p.entries[Low(p) + i - 1].payload]
  BY <1>1, <1>2, LowRange DEF Decodes
<1>7. /\ all \in Seq(Receipts) /\ Len(all) = Len(p.receipts) + 1
      /\ all[Len(p.receipts) + 1] = r
      /\ \A i \in 1 .. Len(p.receipts) : all[i] = p.receipts[i]
  <2> HIDE DEF r
  <2> QED BY <1>1, <1>2
<1>8. /\ q.receipts \in Seq(Receipts) /\ Len(q.receipts) <= ReceiptLimit
      /\ Len(q.receipts) = High(q) - Low(q) + 1
      /\ \A i \in 1 .. Len(q.receipts) :
           q.receipts[i] = [sequence |-> Low(q) + i - 1, payload |-> q.entries[Low(q) + i - 1].payload]
  <2> HIDE DEF q, all
  <2>1. CASE High(p) < ReceiptLimit
    <3>1. Low(p) = 1 /\ Low(q) = 1 /\ Len(p.receipts) = High(p) /\ q.receipts = all
      BY <1>2, <1>3, <1>5, <1>6, <1>7, <2>1, DurableStoreAssumption DEF Low, LowMark
    <3>2. ASSUME NEW i \in 1 .. High(p) + 1
          PROVE  all[i] = [sequence |-> i, payload |-> q.entries[i].payload]
      <4>1. CASE i = High(p) + 1
        BY <1>4, <1>7, <3>1, <4>1
      <4>2. CASE i # High(p) + 1
        <5>1. i \in 1 .. High(p) /\ 1 + i - 1 = i
          BY <1>2, <4>2
        <5>2. all[i] = p.receipts[i] /\ q.entries[i] = p.entries[i]
          BY <1>4, <1>7, <3>1, <5>1
        <5> QED BY <1>6, <3>1, <5>1, <5>2
      <4> QED BY <4>1, <4>2
    <3>3. \A i \in 1 .. High(p) + 1 : Low(q) + i - 1 = i
      BY <1>2, <3>1
    <3>4. Len(q.receipts) = High(p) + 1 /\ Len(q.receipts) = High(q) - Low(q) + 1
      BY <1>2, <1>5, <1>7, <3>1
    <3>5. q.receipts \in Seq(Receipts) /\ Len(q.receipts) <= ReceiptLimit
      BY <1>2, <1>7, <2>1, <3>1, <3>4, DurableStoreAssumption
    <3> QED BY <3>1, <3>2, <3>3, <3>4, <3>5
  <2>2. CASE High(p) >= ReceiptLimit
    <3>a. /\ High(p) \in Nat /\ High(q) = High(p) + 1 /\ ReceiptLimit \in Nat \ {0}
      BY <1>2, <1>3, <1>5, DurableStoreAssumption
    <3>b. Low(p) = High(p) - ReceiptLimit + 1 /\ Low(q) = High(p) - ReceiptLimit + 2
      BY <2>2, <3>a DEF Low, LowMark
    <3>c. Len(p.receipts) = ReceiptLimit
      BY <1>6, <3>a, <3>b
    <3>d. q.receipts = Tail(all)
      BY <1>3, <1>7, <3>a, <3>c
    <3>1. /\ Low(p) = High(p) - ReceiptLimit + 1 /\ Low(q) = High(p) - ReceiptLimit + 2
          /\ Len(p.receipts) = ReceiptLimit /\ q.receipts = Tail(all)
      BY <3>b, <3>c, <3>d
    <3>2. /\ Tail(all) \in Seq(Receipts) /\ Len(Tail(all)) = ReceiptLimit
          /\ \A i \in 1 .. ReceiptLimit : Tail(all)[i] = all[i + 1]
      BY <1>7, <3>1, DurableStoreAssumption
    <3>3. ASSUME NEW i \in 2 .. ReceiptLimit
          PROVE  all[i] = [sequence |-> Low(p) + i - 1, payload |-> q.entries[Low(p) + i - 1].payload]
      <4>1. i \in 1 .. Len(p.receipts) /\ Low(p) + i - 1 \in 1 .. High(p)
        BY <1>2, <2>2, <3>1, DurableStoreAssumption
      <4>2. all[i] = p.receipts[i] /\ q.entries[Low(p) + i - 1] = p.entries[Low(p) + i - 1]
        BY <1>4, <1>7, <4>1
      <4> QED BY <1>6, <4>1, <4>2
    <3>4. all[ReceiptLimit + 1] = [sequence |-> High(p) + 1, payload |-> q.entries[High(p) + 1].payload]
      BY <1>4, <1>7, <3>1
    <3>5. \A i \in 1 .. ReceiptLimit :
            all[i + 1] = [sequence |-> Low(q) + i - 1, payload |-> q.entries[Low(q) + i - 1].payload]
      <4> SUFFICES ASSUME NEW i \in 1 .. ReceiptLimit
                   PROVE  all[i + 1] = [sequence |-> Low(q) + i - 1,
                                        payload |-> q.entries[Low(q) + i - 1].payload]
        OBVIOUS
      <4>1. CASE i = ReceiptLimit
        <5>1. Low(q) + i - 1 = High(p) + 1
          BY <1>2, <3>1, <4>1, DurableStoreAssumption
        <5> QED BY <3>4, <4>1, <5>1
      <4>2. CASE i # ReceiptLimit
        <5>1. i + 1 \in 2 .. ReceiptLimit /\ Low(p) + (i + 1) - 1 = Low(q) + i - 1
          BY <1>2, <3>1, <4>2, DurableStoreAssumption
        <5> QED BY <3>3, <5>1
      <4> QED BY <4>1, <4>2
    <3>6. Len(q.receipts) = ReceiptLimit /\ Len(q.receipts) = High(q) - Low(q) + 1
      BY <1>2, <1>5, <3>1, <3>2, DurableStoreAssumption
    <3>7. q.receipts \in Seq(Receipts) /\ Len(q.receipts) <= ReceiptLimit
      BY <3>1, <3>2, <3>6, DurableStoreAssumption
    <3> QED BY <3>1, <3>2, <3>5, <3>6, <3>7
  <2> QED BY <1>2, <2>1, <2>2, DurableStoreAssumption
<1>9. q \in Packages
  <2>1. q.entries \in SeqOf(Entries, CommitLimit)
    BY <1>2, <1>4, DurableStoreAssumption DEF SeqOf
  <2>2. q.receipts \in SeqOf(Receipts, ReceiptLimit)
    BY <1>8, DurableStoreAssumption DEF SeqOf
  <2> QED BY <2>1, <2>2 DEF Packages, Extended
<1>10. Decodes(q)
  <2> HIDE DEF q
  <2>1. High(q) <= CommitLimit
    BY <1>2, <1>5, DurableStoreAssumption
  <2>2. \A i \in 2 .. High(q) : q.entries[i].tick >= q.entries[i - 1].tick
    <3> SUFFICES ASSUME NEW i \in 2 .. High(q) PROVE q.entries[i].tick >= q.entries[i - 1].tick
      OBVIOUS
    <3>1. CASE i = High(p) + 1
      <4>1. /\ i - 1 = High(p) /\ High(p) \in 1 .. High(p) /\ p.entries # <<>>
        BY <1>2, <1>5, <3>1
      <4>2. q.entries[i] = e /\ q.entries[i - 1] = p.entries[High(p)] /\ Last(p.entries) = p.entries[High(p)]
        BY <1>2, <1>4, <3>1, <4>1 DEF Last
      <4> QED BY <4>1, <4>2
    <3>2. CASE i # High(p) + 1
      <4>1. i \in 2 .. High(p) /\ i - 1 \in 1 .. High(p)
        BY <1>2, <1>5, <3>2
      <4>2. p.entries[i].tick >= p.entries[i - 1].tick
        BY <1>1, <4>1 DEF Decodes
      <4>3. q.entries[i] = p.entries[i] /\ q.entries[i - 1] = p.entries[i - 1]
        <5>1. i \in 1 .. High(p)
          BY <1>2, <4>1
        <5> QED BY <1>4, <4>1, <5>1
      <4> QED BY <4>2, <4>3
    <3> QED BY <3>1, <3>2
  <2>3. q.receipts = [i \in 1 .. High(q) - Low(q) + 1 |->
                        [sequence |-> Low(q) + i - 1, payload |-> q.entries[Low(q) + i - 1].payload]]
    BY <1>8
  <2> QED BY <2>1, <2>2, <2>3 DEF Decodes
<1> QED
  BY <1>3, <1>5, <1>9, <1>10 DEF Good

(* The receipt kept for a sequence of the window reports that entry. *)
LEMMA RetainedReports ==
  ASSUME NEW p, Good(p), NEW s \in Nat, Low(p) <= s, s <= High(p)
  PROVE  p.receipts[s - Low(p) + 1] = [sequence |-> s, payload |-> p.entries[s].payload]
<1>1. p \in Packages /\ Decodes(p)
  BY DEF Good
<1>2. Low(p) \in Nat \ {0} /\ High(p) \in Nat
  BY <1>1, LowRange, PackageParts
<1>3. s - Low(p) + 1 \in 1 .. High(p) - Low(p) + 1 /\ Low(p) + (s - Low(p) + 1) - 1 = s
  BY <1>2
<1> QED BY <1>1, <1>3 DEF Decodes

LEMMA LastReports ==
  ASSUME NEW p, Good(p), High(p) > 0
  PROVE  Last(p.receipts) = [sequence |-> High(p), payload |-> p.entries[High(p)].payload]
<1>1. p \in Packages /\ Decodes(p)
  BY DEF Good
<1>2. Low(p) \in Nat \ {0} /\ High(p) \in Nat /\ Low(p) <= High(p)
  BY <1>1, LowRange, PackageParts, DurableStoreAssumption DEF Low, LowMark
<1>3. Len(p.receipts) = High(p) - Low(p) + 1
  BY <1>1, <1>2 DEF Decodes
<1> QED BY <1>2, <1>3, RetainedReports DEF Last

-----------------------------------------------------------------------------
(* Journals and chains.                                                    *)

LEMMA FrameParts ==
  ASSUME NEW frame \in Frames
  PROVE  /\ frame.package \in Packages
         /\ frame.bytes \in 0 .. CommitLimit + 2 /\ frame.flushed \in 0 .. CommitLimit + 2
BY DEF Frames

LEMMA WholeFramesAre ==
  ASSUME NEW frames \in Seq(Frames)
  PROVE  /\ WholeFrames(frames) \in Seq(Frames) /\ WholeCount(frames) \in Nat
         /\ Len(WholeFrames(frames)) = WholeCount(frames)
         /\ WholeCount(frames) <= Len(frames) /\ Len(frames) <= WholeCount(frames) + 1
         /\ \A i \in 1 .. WholeCount(frames) : WholeFrames(frames)[i] = frames[i]
<1>1. CASE Torn(frames)
  <2>1. frames # <<>> /\ Len(frames) - 1 \in Nat
    BY <1>1 DEF Torn
  <2>2. /\ Front(frames) \in Seq(Frames) /\ Len(Front(frames)) = Len(frames) - 1
        /\ \A i \in 1 .. Len(frames) - 1 : Front(frames)[i] = frames[i]
    <3>1. Len(frames) \in Nat \ {0} /\ frames \in [1 .. Len(frames) -> Frames]
      BY <2>1, LenProperties, EmptySeq
    <3>2. Front(frames) = [i \in 1 .. Len(frames) - 1 |-> frames[i]]
      BY <3>1 DEF Front
    <3> QED BY <3>1, <3>2
  <2> QED BY <1>1, <2>1, <2>2 DEF WholeFrames, WholeCount
<1>2. CASE ~Torn(frames)
  BY <1>2 DEF WholeFrames, WholeCount
<1> QED BY <1>1, <1>2

(* What open() adopts from a journal and a checkpoint with package base. *)
Adopted(frames, base) ==
  LET whole == WholeFrames(frames) IN
  IF whole # <<>> /\ High(Last(whole).package) > High(base) THEN Last(whole).package ELSE base

LEMMA RestoredIsAdopted ==
  /\ Restored = Adopted(journal, checkpoint.package)
  /\ Restored' = Adopted(journal', checkpoint'.package)
BY DEF Restored, Adopted

LEMMA AdoptedIsTop ==
  ASSUME NEW frames \in Seq(Frames), NEW base, NEW top,
         Chain(frames, WholeCount(frames), base, top)
  PROVE  Adopted(frames, base) = top
<1> DEFINE n == WholeCount(frames)
           whole == WholeFrames(frames)
<1>1. /\ whole \in Seq(Frames) /\ n \in Nat /\ Len(whole) = n
      /\ \A i \in 1 .. n : whole[i] = frames[i]
  BY WholeFramesAre
<1>2. Good(base) /\ Good(top) /\ Below(base, top) /\ High(base) \in Nat /\ High(top) \in Nat
  BY PackageParts DEF Chain, Good
<1>3. CASE n = 0
  <2>1. High(base) = High(top)
    BY <1>2, <1>3 DEF Chain, Below
  <2> QED BY <1>1, <1>2, <1>3, <2>1, SamePackage DEF Adopted
<1>4. CASE n # 0
  <2>1. n \in 1 .. n /\ Last(whole) = frames[n] /\ whole # <<>>
    BY <1>1, <1>4 DEF Last
  <2>2. /\ Good(frames[n].package) /\ Below(frames[n].package, top)
        /\ High(frames[n].package) = High(top)
    BY <1>2, <2>1 DEF Chain
  <2>3. frames[n].package = top
    BY <1>2, <2>2, SamePackage
  <2>4. CASE High(top) > High(base)
    BY <2>1, <2>3, <2>4 DEF Adopted
  <2>5. CASE ~(High(top) > High(base))
    <3>1. High(base) = High(top)
      BY <1>2, <2>5 DEF Below
    <3> QED BY <1>2, <2>1, <2>3, <3>1, SamePackage DEF Adopted
  <2> QED BY <2>4, <2>5
<1> QED BY <1>3, <1>4

(* An empty journal after a checkpoint. *)
LEMMA ChainOfCheckpoint ==
  ASSUME NEW frames, NEW top, Good(top)
  PROVE  Chain(frames, 0, top, top)
BY BelowSelf, PackageParts DEF Chain, Good

(* A checkpoint of the top. *)
LEMMA ChainRebased ==
  ASSUME NEW frames, NEW n \in Nat, NEW base, NEW top, Chain(frames, n, base, top)
  PROVE  Chain(frames, n, top, top)
BY BelowSelf, PackageParts DEF Chain, Good

(* A chain depends on the packages and lengths of its frames only. *)
LEMMA ChainOfSame ==
  ASSUME NEW frames, NEW others, NEW n \in Nat, NEW base, NEW top, Chain(frames, n, base, top),
         \A i \in 1 .. n : others[i].package = frames[i].package /\ others[i].bytes = frames[i].bytes
  PROVE  Chain(others, n, base, top)
BY DEF Chain, Complete

(* One more whole frame, a package with one more entry than the top. *)
LEMMA ChainGrows ==
  ASSUME NEW frames, NEW others, NEW n \in Nat, NEW base, NEW top, Chain(frames, n, base, top),
         NEW next, Good(next), Below(top, next), High(next) = High(top) + 1,
         \A i \in 1 .. n : others[i].package = frames[i].package /\ others[i].bytes = frames[i].bytes,
         others[n + 1].package = next, Complete(others[n + 1])
  PROVE  Chain(others, n + 1, base, next)
<1>1. /\ Good(base) /\ Good(top) /\ Below(base, top) /\ High(top) - n <= High(base)
      /\ High(base) \in Nat /\ High(top) \in Nat
  BY PackageParts DEF Chain, Good
<1>2. Below(base, next) /\ High(next) - (n + 1) <= High(base)
  BY <1>1, BelowTransitive
<1>3. ASSUME NEW i \in 1 .. n + 1
      PROVE  /\ Complete(others[i]) /\ Good(others[i].package) /\ Below(others[i].package, next)
             /\ High(others[i].package) > 0
             /\ High(others[i].package) = High(next) - (n + 1) + i
  <2>1. CASE i = n + 1
    BY <1>1, <2>1, BelowSelf
  <2>2. CASE i # n + 1
    <3>1. i \in 1 .. n
      BY <2>2
    <3>2. /\ Complete(frames[i]) /\ Good(frames[i].package) /\ Below(frames[i].package, top)
          /\ High(frames[i].package) > 0 /\ High(frames[i].package) = High(top) - n + i
      BY <3>1 DEF Chain
    <3>3. others[i].package = frames[i].package /\ Complete(others[i])
      BY <3>1, <3>2 DEF Complete
    <3> QED BY <1>1, <3>1, <3>2, <3>3, BelowTransitive
  <2> QED BY <2>1, <2>2
<1> QED BY <1>1, <1>2, <1>3 DEF Chain

(* Store::open refuses no file of a chain. *)
LEMMA ChainReadable ==
  ASSUME Files, checkpoint # Absent
  PROVE  Readable
<1> DEFINE n == WholeCount(journal)
           whole == WholeFrames(journal)
           base == checkpoint.package
           top == Restored
<1>1. /\ directory /\ Complete(checkpoint) /\ journal \in Seq(Frames)
      /\ Chain(journal, n, base, top)
  BY DEF Files
<1>2. journal # Absent
  BY <1>1, DurableStoreAssumption
<1>3. /\ whole \in Seq(Frames) /\ n \in Nat /\ Len(whole) = n /\ Len(journal) <= n + 1
      /\ \A i \in 1 .. n : whole[i] = journal[i]
  BY <1>1, WholeFramesAre
<1>4. /\ Good(base) /\ Good(top) /\ Below(base, top)
      /\ High(base) \in Nat /\ High(top) \in Nat /\ High(top) - n <= High(base)
  BY <1>1, PackageParts DEF Chain, Good
<1>5. ASSUME NEW i \in 1 .. n
      PROVE  /\ Complete(whole[i]) /\ Good(whole[i].package) /\ Below(whole[i].package, top)
             /\ High(whole[i].package) > 0 /\ High(whole[i].package) = High(top) - n + i
  BY <1>1, <1>3 DEF Chain
<1>6. \A i \in 1 .. Len(journal) - 1 : Complete(journal[i])
  BY <1>1, <1>3, <1>5
<1> HIDE DEF n, whole, base, top
<1>7. ASSUME NEW i \in 1 .. n
      PROVE  LET found == whole[i].package IN
             /\ Decodes(found) /\ High(found) > 0
             /\ IF i = 1 THEN High(found) <= High(base) + 1
                ELSE /\ High(found) = High(whole[i - 1].package) + 1
                     /\ IsPrefix(whole[i - 1].package.entries, found.entries)
             /\ IF High(found) <= High(base) THEN IsPrefix(found.entries, base.entries)
                                             ELSE IsPrefix(base.entries, found.entries)
  <2> DEFINE found == whole[i].package
  <2>1. Good(found) /\ Below(found, top) /\ High(found) > 0 /\ High(found) = High(top) - n + i
    BY <1>5
  <2>2. i = 1 => High(found) <= High(base) + 1
    BY <1>3, <1>4, <2>1
  <2>3. ASSUME i # 1
        PROVE  High(found) = High(whole[i - 1].package) + 1
               /\ IsPrefix(whole[i - 1].package.entries, found.entries)
    <3>1. i - 1 \in 1 .. n
      BY <1>3, <2>3
    <3>2. /\ Good(whole[i - 1].package) /\ Below(whole[i - 1].package, top)
          /\ High(whole[i - 1].package) = High(top) - n + (i - 1)
      BY <1>5, <3>1
    <3>3. High(found) = High(whole[i - 1].package) + 1
      BY <1>3, <1>4, <2>1, <3>2
    <3>4. Below(whole[i - 1].package, found)
      BY <1>3, <1>4, <2>1, <3>2, <3>3, BelowCompare
    <3> QED BY <2>1, <3>2, <3>3, <3>4, BelowIsPrefix
  <2>4. High(found) <= High(base) => IsPrefix(found.entries, base.entries)
    BY <1>4, <2>1, BelowCompare, BelowIsPrefix
  <2>5. ~(High(found) <= High(base)) => IsPrefix(base.entries, found.entries)
    <3>1. High(found) \in Nat
      BY <2>1, PackageParts DEF Good
    <3> QED BY <1>4, <2>1, <3>1, BelowCompare, BelowIsPrefix
  <2> QED BY <2>1, <2>2, <2>3, <2>4, <2>5 DEF Good
<1> QED
  BY <1>1, <1>2, <1>3, <1>4, <1>6, <1>7 DEF Readable, Good, n, whole, base

-----------------------------------------------------------------------------
(* Steps that write neither the checkpoint nor the journal.                *)

LEMMA FilesStay ==
  ASSUME Files, UNCHANGED <<directory, checkpoint, journal>>
  PROVE  Files' /\ Restored' = Restored /\ Torn(journal)' = Torn(journal)
BY DEF Files, Restored, Torn

LEMMA CompactKeeps == ASSUME IInv, Compact PROVE IInv'
<1>1. /\ pc = "idle" /\ task' = "compact" /\ pc' = "open_scratch"
      /\ UNCHANGED <<directory, checkpoint, scratch, journal, package, prepared, answer, acked>>
  BY DEF Compact, Idle, disk, memory
<1>2. TypeOK /\ Files /\ Creating /\ Places /\ Memory /\ TornTail
  BY DEF IInv
<1>3. TypeOK'
  BY <1>1, <1>2 DEF TypeOK
<1>4. Files' /\ Restored' = Restored /\ Torn(journal)' = Torn(journal)
  BY <1>1, <1>2, FilesStay
<1>5. Creating' /\ Places'
  BY <1>1, <1>2, DurableStoreAssumption DEF Creating, Places, Replacing, Applying
<1>6. Memory'
  BY <1>1, <1>2, <1>4 DEF Memory, Applying
<1>7. TornTail' /\ Answering'
  BY <1>1, <1>2, <1>4 DEF TornTail, Answering
<1> QED BY <1>3, <1>4, <1>5, <1>6, <1>7 DEF IInv

LEMMA FinishKeeps == ASSUME IInv, FinishCreate \/ FinishCompact PROVE IInv'
<1>1. /\ (pc = "replaced" /\ task = "create") \/ pc = "reclaimed"
      /\ task' = None /\ pc' = "idle"
      /\ UNCHANGED <<directory, checkpoint, scratch, journal, package, prepared, answer, acked>>
  BY DEF FinishCreate, FinishCompact, Return, disk, memory
<1>2. TypeOK /\ Files /\ Creating /\ Places /\ Memory /\ TornTail
  BY DEF IInv
<1>3. TypeOK'
  BY <1>1, <1>2 DEF TypeOK
<1>4. Files' /\ Restored' = Restored /\ Torn(journal)' = Torn(journal)
  BY <1>1, <1>2, FilesStay
<1>5. Creating' /\ Places'
  BY <1>1, <1>2, DurableStoreAssumption DEF Creating, Places, Memory, Replacing, Applying
<1>6. Memory'
  BY <1>1, <1>2, <1>4 DEF Memory, Applying
<1>7. TornTail' /\ Answering'
  BY <1>1, <1>2, <1>4 DEF TornTail, Answering
<1> QED BY <1>3, <1>4, <1>5, <1>6, <1>7 DEF IInv

(* The scratch file, and its removal by open(). *)
LEMMA OpenScratchKeeps == ASSUME IInv, OpenScratch PROVE IInv'
<1>1. /\ pc = "open_scratch" /\ pc' = "write_scratch" /\ scratch' = NewFrame(package)
      /\ UNCHANGED <<directory, checkpoint, journal, task, package, prepared, answer, acked>>
  BY DEF OpenScratch, memory
<1>2. TypeOK /\ Files /\ Creating /\ Places /\ Memory /\ TornTail
  BY DEF IInv
<1>3. scratch' \in Frames /\ scratch' # Absent /\ scratch'.package = package
  BY <1>1, <1>2, DurableStoreAssumption DEF TypeOK, NewFrame, Frames
<1>4. TypeOK'
  BY <1>1, <1>2, <1>3 DEF TypeOK
<1>5. Files' /\ Restored' = Restored /\ Torn(journal)' = Torn(journal)
  BY <1>1, <1>2, FilesStay
<1>6. Creating' /\ Places'
  BY <1>1, <1>2, <1>3, DurableStoreAssumption DEF Creating, Places, Replacing, Applying
<1>7. Memory'
  BY <1>1, <1>2, <1>5 DEF Memory, Applying
<1>8. TornTail' /\ Answering'
  BY <1>1, <1>2, <1>5 DEF TornTail, Answering
<1> QED BY <1>4, <1>5, <1>6, <1>7, <1>8 DEF IInv

LEMMA WriteScratchKeeps ==
  ASSUME IInv, NEW n \in 1 .. CommitLimit + 2, WriteScratch(n) PROVE IInv'
<1>1. /\ pc = "write_scratch" /\ pc' \in {"write_scratch", "flush_scratch"}
      /\ scratch' = [scratch EXCEPT !.bytes = n]
      /\ UNCHANGED <<directory, checkpoint, journal, task, package, prepared, answer, acked>>
  BY DEF WriteScratch, memory
<1>2. TypeOK /\ Files /\ Creating /\ Places /\ Memory /\ TornTail
  BY DEF IInv
<1>3. scratch \in Frames /\ scratch.package = package
  BY <1>1, <1>2 DEF TypeOK, Places
<1>4. scratch' \in Frames /\ scratch' # Absent /\ scratch'.package = package
  BY <1>1, <1>3, DurableStoreAssumption DEF Frames
<1>5. TypeOK'
  BY <1>1, <1>2, <1>4 DEF TypeOK
<1>6. Files' /\ Restored' = Restored /\ Torn(journal)' = Torn(journal)
  BY <1>1, <1>2, FilesStay
<1>7. Creating' /\ Places'
  BY <1>1, <1>2, <1>4, DurableStoreAssumption DEF Creating, Places, Replacing, Applying
<1>8. Memory'
  BY <1>1, <1>2, <1>6 DEF Memory, Applying
<1>9. TornTail' /\ Answering'
  BY <1>1, <1>2, <1>6 DEF TornTail, Answering
<1> QED BY <1>5, <1>6, <1>7, <1>8, <1>9 DEF IInv

LEMMA FlushScratchKeeps == ASSUME IInv, FlushScratch PROVE IInv'
<1>1. /\ pc = "flush_scratch" /\ pc' = "replace"
      /\ scratch' = [scratch EXCEPT !.flushed = scratch.bytes]
      /\ UNCHANGED <<directory, checkpoint, journal, task, package, prepared, answer, acked>>
  BY DEF FlushScratch, memory
<1>2. TypeOK /\ Files /\ Creating /\ Places /\ Memory /\ TornTail
  BY DEF IInv
<1>3. scratch \in Frames /\ scratch.package = package
  BY <1>1, <1>2 DEF TypeOK, Places
<1>4. scratch' \in Frames /\ scratch' # Absent /\ scratch'.package = package
  BY <1>1, <1>3, DurableStoreAssumption DEF Frames
<1>5. TypeOK'
  BY <1>1, <1>2, <1>4 DEF TypeOK
<1>6. Files' /\ Restored' = Restored /\ Torn(journal)' = Torn(journal)
  BY <1>1, <1>2, FilesStay
<1>7. Creating' /\ Places'
  BY <1>1, <1>2, <1>4, DurableStoreAssumption DEF Creating, Places, Replacing, Applying
<1>8. Memory'
  BY <1>1, <1>2, <1>6 DEF Memory, Applying
<1>9. TornTail' /\ Answering'
  BY <1>1, <1>2, <1>6 DEF TornTail, Answering
<1> QED BY <1>5, <1>6, <1>7, <1>8, <1>9 DEF IInv

LEMMA RemoveScratchKeeps == ASSUME IInv, RemoveScratch PROVE IInv'
<1>1. /\ pc = "remove_scratch" /\ task' = None /\ pc' = "idle" /\ scratch' = Absent
      /\ UNCHANGED <<directory, checkpoint, journal, package, prepared, answer, acked>>
  BY DEF RemoveScratch, Return, memory
<1>2. TypeOK /\ Files /\ Creating /\ Places /\ Memory /\ TornTail
  BY DEF IInv
<1>3. TypeOK'
  BY <1>1, <1>2 DEF TypeOK
<1>4. Files' /\ Restored' = Restored /\ Torn(journal)' = Torn(journal)
  BY <1>1, <1>2, FilesStay
<1>5. Creating' /\ Places'
  BY <1>1, <1>2, DurableStoreAssumption DEF Creating, Places, Replacing, Applying
<1>6. Memory'
  BY <1>1, <1>2, <1>4 DEF Memory, Applying
<1>7. TornTail' /\ Answering'
  BY <1>1, <1>2, <1>4 DEF TornTail, Answering
<1> QED BY <1>3, <1>4, <1>5, <1>6, <1>7 DEF IInv

LEMMA ReportTyped ==
  ASSUME NEW p, Good(p), NEW n \in 1 .. High(p)
  PROVE  /\ p.entries[n].payload \in Payloads
         /\ [asked |-> n, receipt |-> [sequence |-> n, payload |-> p.entries[n].payload]] \in Replies
<1>1. p.entries \in Seq(Entries) /\ High(p) \in 0 .. CommitLimit /\ Len(p.entries) = High(p)
  BY PackageParts DEF Good, High
<1>2. n \in 1 .. CommitLimit /\ p.entries[n] \in Entries
  BY <1>1, DurableStoreAssumption
<1> QED BY <1>2 DEF Replies, Receipts, Entries

(* The window's replies are reports. *)
LEMMA RetainedIsReport ==
  ASSUME Good(package), NEW s \in Nat, InWindow(s)
  PROVE  /\ s \in 1 .. High(package)
         /\ Reply(s, Retained(s)) =
              [asked |-> s, receipt |-> [sequence |-> s, payload |-> package.entries[s].payload]]
<1>1. Low(package) \in Nat \ {0} /\ High(package) \in Nat /\ Low(package) <= s /\ s <= High(package)
  BY LowRange, PackageParts DEF Good, InWindow
<1> QED BY <1>1, RetainedReports DEF Reply, Retained

LEMMA ApplyKeeps ==
  ASSUME IInv, NEW s \in 1 .. CommitLimit, NEW payload \in Payloads, NEW tick \in Ticks,
         Apply(s, payload, tick)
  PROVE  IInv'
<1>1. /\ pc = "idle" /\ task' = "apply" /\ pc' = "write_body"
      /\ prepared' = Extended(package, payload, tick)
      /\ High(package) < CommitLimit
      /\ package.entries # <<>> => tick >= Last(package.entries).tick
      /\ UNCHANGED <<directory, checkpoint, scratch, journal, package, answer, acked>>
  BY DEF Apply, Idle, Admits, disk
<1>2. TypeOK /\ Files /\ Creating /\ Places /\ Memory /\ TornTail
  BY DEF IInv
<1>3. Good(prepared') /\ High(prepared') = High(package) + 1 /\ Below(package, prepared')
  BY <1>1, <1>2, ExtendedGood DEF Memory
<1>4. TypeOK'
  BY <1>1, <1>2, <1>3 DEF TypeOK, Good
<1>5. Files' /\ Restored' = Restored /\ Torn(journal)' = Torn(journal)
  BY <1>1, <1>2, FilesStay
<1>6. Creating' /\ Places'
  BY <1>1, <1>2, DurableStoreAssumption DEF Creating, Places, Replacing, Applying
<1>7. Memory'
  BY <1>1, <1>2, <1>3, <1>5 DEF Memory, Applying
<1>8. TornTail' /\ Answering'
  BY <1>1, <1>2, <1>5 DEF TornTail, Answering
<1> QED BY <1>4, <1>5, <1>6, <1>7, <1>8 DEF IInv

LEMMA PublishKeeps == ASSUME IInv, Publish PROVE IInv'
<1>1. /\ pc = "publish" /\ pc' = "before_ack" /\ package' = prepared /\ prepared' = EmptyPackage
      /\ answer' = [asked |-> High(prepared), receipt |-> Last(prepared.receipts)]
      /\ UNCHANGED <<directory, checkpoint, scratch, journal, task, acked>>
  BY DEF Publish, Reply, disk
<1>2. TypeOK /\ Files /\ Creating /\ Places /\ Memory /\ TornTail
  BY DEF IInv
<1>3. /\ Good(prepared) /\ Good(EmptyPackage) /\ Restored = prepared
      /\ High(prepared) \in 1 .. High(prepared) /\ High(prepared) > 0
  BY <1>1, <1>2, EmptyGood, PackageParts DEF Memory, Applying, Good
<1>4. answer' = [asked |-> High(prepared),
                 receipt |-> [sequence |-> High(prepared),
                              payload |-> prepared.entries[High(prepared)].payload]]
  BY <1>1, <1>3, LastReports
<1>5. answer' \in Replies
  BY <1>3, <1>4, ReportTyped
<1>6. TypeOK'
  BY <1>1, <1>2, <1>3, <1>5 DEF TypeOK, Good
<1>7. Files' /\ Restored' = Restored /\ Torn(journal)' = Torn(journal)
  BY <1>1, <1>2, FilesStay
<1>8. Creating' /\ Places'
  BY <1>1, <1>2, DurableStoreAssumption DEF Creating, Places, Replacing, Applying
<1>9. Memory'
  BY <1>1, <1>3, <1>7 DEF Memory, Applying
<1>10. TornTail'
  BY <1>1, <1>2, <1>7 DEF TornTail
<1>11. Answering'
  BY <1>1, <1>3, <1>4 DEF Answering
<1> QED BY <1>6, <1>7, <1>8, <1>9, <1>10, <1>11 DEF IInv

LEMMA RetryKeeps ==
  ASSUME IInv, NEW s \in 1 .. CommitLimit, NEW payload \in Payloads, Retry(s, payload) PROVE IInv'
<1>1. /\ pc = "idle" /\ task' = "apply" /\ pc' = "before_ack"
      /\ InWindow(s) /\ answer' = Reply(s, Retained(s))
      /\ UNCHANGED <<directory, checkpoint, scratch, journal, package, prepared, acked>>
  BY DEF Retry, Idle, disk
<1>2. TypeOK /\ Files /\ Creating /\ Places /\ Memory /\ TornTail
  BY DEF IInv
<1>3. /\ s \in 1 .. High(package)
      /\ answer' = [asked |-> s, receipt |-> [sequence |-> s, payload |-> package.entries[s].payload]]
  BY <1>1, <1>2, RetainedIsReport, DurableStoreAssumption DEF Memory
<1>4. answer' \in Replies
  BY <1>2, <1>3, ReportTyped DEF Memory
<1>5. TypeOK'
  BY <1>1, <1>2, <1>4 DEF TypeOK
<1>6. Files' /\ Restored' = Restored /\ Torn(journal)' = Torn(journal)
  BY <1>1, <1>2, FilesStay
<1>7. Creating' /\ Places'
  BY <1>1, <1>2, DurableStoreAssumption DEF Creating, Places, Replacing, Applying
<1>8. Memory'
  BY <1>1, <1>2, <1>6 DEF Memory, Applying
<1>9. TornTail'
  BY <1>1, <1>2, <1>6 DEF TornTail
<1>10. Answering'
  BY <1>1, <1>3 DEF Answering
<1> QED BY <1>5, <1>6, <1>7, <1>8, <1>9, <1>10 DEF IInv

LEMMA AcknowledgeKeeps == ASSUME IInv, Acknowledge PROVE IInv'
<1>1. /\ pc = "before_ack" /\ task' = None /\ pc' = "idle" /\ answer' = None
      /\ acked' = acked \cup {answer}
      /\ UNCHANGED <<directory, checkpoint, scratch, journal, package, prepared>>
  BY DEF Acknowledge, Return, disk
<1>2. TypeOK /\ Files /\ Creating /\ Places /\ Memory /\ TornTail /\ Answering
  BY DEF IInv
<1>3. answer \in Replies
  BY <1>1, <1>2, ReportTyped DEF Answering, Memory
<1>4. TypeOK'
  BY <1>1, <1>2, <1>3 DEF TypeOK
<1>5. Files' /\ Restored' = Restored /\ Torn(journal)' = Torn(journal)
  BY <1>1, <1>2, FilesStay
<1>6. Creating' /\ Places'
  BY <1>1, <1>2, DurableStoreAssumption DEF Creating, Places, Replacing, Applying
<1>7. Memory'
  BY <1>1, <1>2, <1>5 DEF Memory, Applying
<1>8. TornTail' /\ Answering'
  BY <1>1, <1>2, <1>5 DEF TornTail, Answering
<1> QED BY <1>4, <1>5, <1>6, <1>7, <1>8 DEF IInv

LEMMA LookupKeeps == ASSUME IInv, NEW s \in 1 .. CommitLimit, Lookup(s) PROVE IInv'
<1>1. /\ pc = "idle" /\ InWindow(s) /\ acked' = acked \cup {Reply(s, Retained(s))}
      /\ UNCHANGED <<directory, checkpoint, scratch, journal, package, prepared, answer, task, pc>>
  BY DEF Lookup, Idle, disk, memory
<1>2. TypeOK /\ Files /\ Creating /\ Places /\ Memory /\ TornTail
  BY DEF IInv
<1>3. Reply(s, Retained(s)) \in Replies
  BY <1>1, <1>2, RetainedIsReport, ReportTyped, DurableStoreAssumption DEF Memory
<1>4. TypeOK'
  BY <1>1, <1>2, <1>3 DEF TypeOK
<1>5. Files' /\ Restored' = Restored /\ Torn(journal)' = Torn(journal)
  BY <1>1, <1>2, FilesStay
<1>6. Creating' /\ Places'
  BY <1>1, <1>2, DurableStoreAssumption DEF Creating, Places, Replacing, Applying
<1>7. Memory'
  BY <1>1, <1>2, <1>5 DEF Memory, Applying
<1>8. TornTail' /\ Answering'
  BY <1>1, <1>2, <1>5 DEF TornTail, Answering
<1> QED BY <1>4, <1>5, <1>6, <1>7, <1>8 DEF IInv

(* A sealed store has what it had, or one entry less than the files. *)
LEMMA FailKeeps == ASSUME IInv, Fail PROVE IInv'
<1>1. /\ task \in {"apply", "compact"} \/ pc = "idle"
      /\ task' = None /\ pc' = "sealed" /\ prepared' = EmptyPackage /\ answer' = None
      /\ UNCHANGED <<directory, checkpoint, scratch, journal, package, acked>>
  BY DEF Fail, Idle, disk
<1>2. TypeOK /\ Files /\ Creating /\ Places /\ Memory /\ TornTail
  BY DEF IInv
<1>3. Good(EmptyPackage)
  BY EmptyGood
<1>4. TypeOK'
  BY <1>1, <1>2, <1>3 DEF TypeOK, Good
<1>5. Files' /\ Restored' = Restored /\ Torn(journal)' = Torn(journal)
  BY <1>1, <1>2, FilesStay
<1>6. checkpoint # Absent /\ pc \notin {"down", "sealed"}
  BY <1>1, <1>2, DurableStoreAssumption DEF Creating, Places
<1>7. Creating' /\ Places'
  BY <1>1, <1>2, <1>6, DurableStoreAssumption DEF Creating, Places, Replacing, Applying
<1>8. Below(package, Restored) /\ High(Restored) <= High(package) + 1
  <2>1. CASE pc \in {"flush_footer", "publish"}
    BY <1>2, <2>1, PackageParts DEF Memory, Applying, Good
  <2>2. CASE pc \notin {"flush_footer", "publish"}
    BY <1>2, <1>6, <2>2, BelowSelf, PackageParts DEF Memory, Good
  <2> QED BY <2>1, <2>2
<1>9. Memory'
  BY <1>1, <1>2, <1>3, <1>5, <1>8 DEF Memory, Applying
<1>10. TornTail' /\ Answering'
  BY <1>1, <1>2, <1>5 DEF TornTail, Answering
<1> QED BY <1>4, <1>5, <1>7, <1>9, <1>10 DEF IInv

LEMMA StopKeeps == ASSUME IInv, Stop PROVE IInv'
<1>1. /\ task' = None /\ pc' = "down"
      /\ package' = EmptyPackage /\ prepared' = EmptyPackage /\ answer' = None
      /\ UNCHANGED <<directory, checkpoint, scratch, journal, acked>>
  BY DEF Stop, disk
<1>2. TypeOK /\ Files
  BY DEF IInv
<1>3. Good(EmptyPackage)
  BY EmptyGood
<1>4. TypeOK'
  BY <1>1, <1>2, <1>3 DEF TypeOK, Good
<1>5. Files' /\ Restored' = Restored
  BY <1>1, <1>2, FilesStay
<1>6. Creating' /\ Places'
  BY <1>1, DurableStoreAssumption DEF Creating, Places, Replacing, Applying
<1>7. Memory'
  BY <1>1, <1>3 DEF Memory, Applying
<1>8. TornTail' /\ Answering'
  BY <1>1 DEF TornTail, Answering
<1> QED BY <1>4, <1>5, <1>6, <1>7, <1>8 DEF IInv

LEMMA OpenKeeps == ASSUME IInv, Open PROVE IInv'
<1>1. /\ pc = "down" /\ checkpoint # Absent
      /\ package' = Restored /\ task' = "open" /\ pc' = "truncate"
      /\ UNCHANGED <<directory, checkpoint, scratch, journal, prepared, answer, acked>>
  BY DEF Open, Readable, disk
<1>2. TypeOK /\ Files /\ Memory
  BY DEF IInv
<1>3. Good(Restored)
  BY <1>1, <1>2 DEF Files, Chain
<1>4. TypeOK'
  BY <1>1, <1>2, <1>3 DEF TypeOK, Good
<1>5. Files' /\ Restored' = Restored
  BY <1>1, <1>2, FilesStay
<1>6. Creating' /\ Places'
  BY <1>1, DurableStoreAssumption DEF Creating, Places, Replacing, Applying
<1>7. Memory'
  BY <1>1, <1>2, <1>3, <1>5 DEF Memory, Applying
<1>8. TornTail' /\ Answering'
  BY <1>1 DEF TornTail, Answering
<1> QED BY <1>4, <1>5, <1>6, <1>7, <1>8 DEF IInv

LEMMA StutterKeeps == ASSUME IInv, UNCHANGED vars PROVE IInv'
<1>1. UNCHANGED <<directory, checkpoint, scratch, journal, task, pc, package, prepared, answer, acked>>
  BY DEF vars
<1>2. TypeOK /\ Files /\ Creating /\ Places /\ Memory /\ TornTail /\ Answering
  BY DEF IInv
<1>3. Files' /\ Restored' = Restored /\ Torn(journal)' = Torn(journal)
  BY <1>1, <1>2, FilesStay
<1>4. TypeOK' /\ Creating' /\ Places'
  BY <1>1, <1>2 DEF TypeOK, Creating, Places
<1>5. Memory'
  BY <1>1, <1>2, <1>3 DEF Memory
<1>6. TornTail' /\ Answering'
  BY <1>1, <1>2, <1>3 DEF TornTail, Answering
<1> QED BY <1>3, <1>4, <1>5, <1>6 DEF IInv

-----------------------------------------------------------------------------
(* Steps that write the directory, the checkpoint or the journal.          *)

LEMMA CreateDirectoryKeeps == ASSUME IInv, CreateDirectory PROVE IInv'
<1>1. /\ pc = "down" /\ ~directory /\ directory' = TRUE /\ task' = "create" /\ pc' = "create_journal"
      /\ package' = EmptyPackage
      /\ UNCHANGED <<checkpoint, scratch, journal, prepared, answer, acked>>
  BY DEF CreateDirectory
<1>2. TypeOK /\ Files /\ Memory
  BY DEF IInv
<1>3. checkpoint' = Absent
  BY <1>1, <1>2 DEF Files
<1>4. TypeOK' /\ Good(EmptyPackage)
  BY <1>1, <1>2, EmptyGood DEF TypeOK, Good
<1>5. Files'
  BY <1>3 DEF Files
<1>6. Creating' /\ Places'
  BY <1>1, <1>3, DurableStoreAssumption DEF Creating, Places, Replacing, Applying
<1>7. Memory'
  BY <1>1, <1>2, <1>3, <1>4 DEF Memory, Applying
<1>8. TornTail' /\ Answering'
  BY <1>1 DEF TornTail, Answering
<1> QED BY <1>4, <1>5, <1>6, <1>7, <1>8 DEF IInv

LEMMA CreateJournalKeeps == ASSUME IInv, CreateJournal PROVE IInv'
<1>1. /\ pc = "create_journal" /\ pc' = "open_scratch" /\ journal' = <<>>
      /\ UNCHANGED <<directory, checkpoint, scratch, task, package, prepared, answer, acked>>
  BY DEF CreateJournal, memory
<1>2. TypeOK /\ Creating /\ Places /\ Memory
  BY DEF IInv
<1>3. task = "create" /\ checkpoint' = Absent
  BY <1>1, <1>2 DEF Creating, Places
<1>4. TypeOK'
  BY <1>1, <1>2 DEF TypeOK
<1>5. Files'
  BY <1>3 DEF Files
<1>6. Creating' /\ Places'
  BY <1>1, <1>2, <1>3, DurableStoreAssumption DEF Creating, Places, Replacing, Applying
<1>7. Memory'
  BY <1>1, <1>2, <1>3 DEF Memory, Applying
<1>8. TornTail' /\ Answering'
  BY <1>1 DEF TornTail, Answering, Torn
<1> QED BY <1>4, <1>5, <1>6, <1>7, <1>8 DEF IInv

(* The new checkpoint is the owner's package, which is the chain's top. *)
LEMMA ReplaceCheckpointKeeps == ASSUME IInv, ReplaceCheckpoint PROVE IInv' /\ Restored' = package
<1>1. /\ pc = "replace" /\ pc' = "replaced" /\ scratch.package = package /\ Complete(scratch)
      /\ checkpoint' = scratch /\ scratch' = Absent
      /\ UNCHANGED <<directory, journal, task, package, prepared, answer, acked>>
  BY DEF ReplaceCheckpoint, memory
<1>2. TypeOK /\ Files /\ Creating /\ Places /\ Memory /\ TornTail
  BY DEF IInv
<1>3. /\ checkpoint' \in Frames /\ checkpoint' # Absent /\ Complete(checkpoint)' /\ checkpoint'.package = package
      /\ Good(package)
  BY <1>1, <1>2 DEF TypeOK, Places, Memory, Complete
<1>4. /\ directory /\ journal \in Seq(Frames)
      /\ Chain(journal, WholeCount(journal), package, package)
  <2>1. CASE checkpoint = Absent
    <3>1. directory /\ journal = <<>>
      BY <1>1, <1>2, <2>1 DEF Creating
    <3>2. WholeCount(journal) = 0 /\ journal \in Seq(Frames)
      BY <3>1 DEF WholeCount, Torn
    <3> QED BY <1>3, <3>1, <3>2, ChainOfCheckpoint
  <2>2. CASE checkpoint # Absent
    <3>1. /\ directory /\ journal \in Seq(Frames) /\ Restored = package
          /\ Chain(journal, WholeCount(journal), checkpoint.package, package)
      BY <1>1, <1>2, <2>2 DEF Files, Memory
    <3> QED BY <3>1, WholeFramesAre, ChainRebased
  <2> QED BY <2>1, <2>2
<1>5. Restored' = package
  BY <1>1, <1>3, <1>4, AdoptedIsTop, RestoredIsAdopted
<1>6. Torn(journal)' = Torn(journal) /\ WholeCount(journal)' = WholeCount(journal)
  BY <1>1 DEF Torn, WholeCount
<1>7. Files'
  BY <1>1, <1>3, <1>4, <1>5, <1>6 DEF Files
<1>8. TypeOK'
  BY <1>1, <1>2, <1>3 DEF TypeOK
<1>9. Creating' /\ Places'
  BY <1>1, <1>2, <1>3, DurableStoreAssumption DEF Creating, Places, Replacing, Applying
<1>10. Memory'
  BY <1>1, <1>2, <1>3, <1>5 DEF Memory, Applying
<1>11. TornTail' /\ Answering'
  BY <1>1, <1>2, <1>6 DEF TornTail, Answering
<1> QED BY <1>5, <1>7, <1>8, <1>9, <1>10, <1>11 DEF IInv

LEMMA ReclaimJournalKeeps == ASSUME IInv, ReclaimJournal PROVE IInv' /\ Restored' = package
<1>1. /\ pc = "replaced" /\ pc' = "reclaimed" /\ task = "compact" /\ journal' = <<>>
      /\ UNCHANGED <<directory, checkpoint, scratch, task, package, prepared, answer, acked>>
  BY DEF ReclaimJournal, memory
<1>2. TypeOK /\ Files /\ Creating /\ Places /\ Memory
  BY DEF IInv
<1>3. /\ directory /\ checkpoint \in Frames /\ checkpoint # Absent /\ Complete(checkpoint)
      /\ checkpoint.package = package /\ Good(package)
  BY <1>1, <1>2 DEF Files, Memory
<1>4. /\ journal' \in Seq(Frames) /\ ~Torn(journal') /\ WholeCount(journal') = 0
      /\ Chain(journal', WholeCount(journal'), package, package)
  <2>1. journal' \in Seq(Frames) /\ ~Torn(journal') /\ WholeCount(journal') = 0
    BY <1>1 DEF Torn, WholeCount
  <2> QED BY <1>3, <2>1, ChainOfCheckpoint
<1>5. Restored' = package
  BY <1>1, <1>3, <1>4, AdoptedIsTop, RestoredIsAdopted
<1>6. Files'
  <2>1. Chain(journal', WholeCount(journal'), checkpoint'.package, Restored')
    BY <1>1, <1>3, <1>4, <1>5
  <2> QED BY <1>1, <1>3, <1>4, <2>1 DEF Files, Complete, WholeCount, Torn
<1>7. TypeOK'
  BY <1>1, <1>2 DEF TypeOK
<1>8. Creating' /\ Places'
  BY <1>1, <1>2, <1>3, DurableStoreAssumption DEF Creating, Places, Replacing, Applying
<1>9. Memory'
  BY <1>1, <1>2, <1>3, <1>5 DEF Memory, Applying
<1>10. TornTail' /\ Answering'
  BY <1>1, <1>4 DEF TornTail, Answering
<1> QED BY <1>5, <1>6, <1>7, <1>8, <1>9, <1>10 DEF IInv

(* A body is written where the last torn body was, or after the whole frames. *)
LEMMA WriteBodyKeeps ==
  ASSUME IInv, NEW n \in 1 .. CommitLimit + 2, WriteBody(n)
  PROVE  IInv' /\ Restored' = Restored /\ checkpoint # Absent
<1> DEFINE whole == WholeFrames(journal)
           k == WholeCount(journal)
           frame == [NewFrame(prepared) EXCEPT !.bytes = n]
<1>1. /\ pc = "write_body" /\ n <= BodySize(prepared)
      /\ journal' = Append(whole, frame)
      /\ pc' = IF n = BodySize(prepared) THEN "flush_body" ELSE pc
      /\ UNCHANGED <<directory, checkpoint, scratch, task, package, prepared, answer, acked>>
  BY DEF WriteBody, memory
<1>2. TypeOK /\ Files /\ Creating /\ Places /\ Memory /\ TornTail
  BY DEF IInv
<1>3. /\ checkpoint # Absent /\ directory /\ checkpoint \in Frames /\ Complete(checkpoint)
      /\ journal \in Seq(Frames) /\ Chain(journal, k, checkpoint.package, Restored)
      /\ Good(prepared) /\ prepared \in Packages
  BY <1>1, <1>2, DurableStoreAssumption DEF Creating, Places, Applying, Files, Memory, Good
<1>4. /\ whole \in Seq(Frames) /\ k \in Nat /\ Len(whole) = k
      /\ \A i \in 1 .. k : whole[i] = journal[i]
  BY <1>3, WholeFramesAre
<1>5. /\ frame \in Frames /\ frame.package = prepared /\ frame.bytes = n /\ ~Complete(frame)
      /\ High(prepared) \in Nat
  <2>1. /\ High(prepared) \in Nat /\ High(prepared) <= CommitLimit
        /\ FrameSize(prepared) = High(prepared) + 2 /\ BodySize(prepared) = High(prepared) + 1
    BY <1>3, PackageParts, DurableStoreAssumption DEF BodySize, FrameSize, FooterSize
  <2>2. frame = [package |-> prepared, bytes |-> n, flushed |-> 0]
    BY DEF NewFrame
  <2>3. frame \in Frames
    BY <1>3, <2>2, DurableStoreAssumption DEF Frames
  <2> QED BY <1>1, <2>1, <2>2, <2>3 DEF Complete
<1> HIDE DEF whole, k, frame
<1>6. /\ journal' \in Seq(Frames) /\ Len(journal') = k + 1 /\ journal'[k + 1] = frame
      /\ \A i \in 1 .. k : journal'[i] = journal[i]
  BY <1>1, <1>4, <1>5
<1>7. Torn(journal') /\ WholeCount(journal') = k /\ Last(journal') = frame
  BY <1>4, <1>5, <1>6 DEF Torn, WholeCount, Last
<1>8. Chain(journal', k, checkpoint.package, Restored)
  BY <1>3, <1>4, <1>6, ChainOfSame
<1>9. Restored' = Restored
  BY <1>1, <1>6, <1>7, <1>8, AdoptedIsTop, RestoredIsAdopted
<1>10. Files'
  BY <1>1, <1>3, <1>6, <1>7, <1>8, <1>9 DEF Files, Complete, WholeCount, Torn
<1>11. TypeOK'
  BY <1>1, <1>2, <1>6 DEF TypeOK
<1>12. Creating' /\ Places'
  BY <1>1, <1>2, <1>3, DurableStoreAssumption DEF Creating, Places, Replacing, Applying
<1>13. Memory'
  BY <1>1, <1>2, <1>9 DEF Memory, Applying
<1>14. TornTail' /\ Answering'
  BY <1>1, <1>5, <1>7 DEF TornTail, Answering
<1> QED BY <1>3, <1>9, <1>10, <1>11, <1>12, <1>13, <1>14 DEF IInv

(* A flush of the journal changes what is known flushed and nothing else. *)
LEMMA FlushedSame ==
  ASSUME NEW frames \in Seq(Frames)
  PROVE  /\ Flushed(frames) \in Seq(Frames) /\ Len(Flushed(frames)) = Len(frames)
         /\ \A i \in 1 .. Len(frames) :
              /\ Flushed(frames)[i].package = frames[i].package
              /\ Flushed(frames)[i].bytes = frames[i].bytes
<1>1. \A i \in 1 .. Len(frames) :
        /\ [frames[i] EXCEPT !.flushed = frames[i].bytes] \in Frames
        /\ [frames[i] EXCEPT !.flushed = frames[i].bytes].package = frames[i].package
        /\ [frames[i] EXCEPT !.flushed = frames[i].bytes].bytes = frames[i].bytes
  <2> SUFFICES ASSUME NEW i \in 1 .. Len(frames), NEW frame, frame = frames[i]
               PROVE  /\ [frame EXCEPT !.flushed = frame.bytes] \in Frames
                      /\ [frame EXCEPT !.flushed = frame.bytes].package = frame.package
                      /\ [frame EXCEPT !.flushed = frame.bytes].bytes = frame.bytes
    OBVIOUS
  <2>1. frame \in Frames
    OBVIOUS
  <2> QED BY <2>1 DEF Frames
<1>2. Len(frames) \in Nat
  OBVIOUS
<1>3. \A i \in 1 .. Len(frames) : Flushed(frames)[i] = [frames[i] EXCEPT !.flushed = frames[i].bytes]
  BY <1>2 DEF Flushed
<1>4. Flushed(frames) \in [1 .. Len(frames) -> Frames]
  BY <1>1, <1>2 DEF Flushed
<1>5. Flushed(frames) \in Seq(Frames) /\ Len(Flushed(frames)) = Len(frames)
  BY <1>2, <1>4
<1> QED BY <1>1, <1>3, <1>5

LEMMA SameFramesSameTail ==
  ASSUME NEW frames \in Seq(Frames), NEW others \in Seq(Frames), Len(others) = Len(frames),
         \A i \in 1 .. Len(frames) :
           others[i].package = frames[i].package /\ others[i].bytes = frames[i].bytes
  PROVE  Torn(others) = Torn(frames) /\ WholeCount(others) = WholeCount(frames)
<1>1. CASE frames = <<>>
  BY <1>1 DEF Torn, WholeCount
<1>2. CASE frames # <<>>
  <2>1. Len(frames) \in 1 .. Len(frames) /\ others # <<>>
    BY <1>2
  <2>2. Complete(Last(others)) = Complete(Last(frames))
    BY <2>1 DEF Complete, Last
  <2> QED BY <1>2, <2>1, <2>2 DEF Torn, WholeCount
<1> QED BY <1>1, <1>2

(* Rewriting the journal with the same packages and lengths. *)
LEMMA FilesSame ==
  ASSUME Files, checkpoint # Absent, UNCHANGED <<directory, checkpoint>>,
         journal' \in Seq(Frames), Len(journal') = Len(journal),
         \A i \in 1 .. Len(journal) :
           journal'[i].package = journal[i].package /\ journal'[i].bytes = journal[i].bytes
  PROVE  Files' /\ Restored' = Restored /\ Torn(journal') = Torn(journal)
<1>1. /\ directory /\ checkpoint \in Frames /\ Complete(checkpoint) /\ journal \in Seq(Frames)
      /\ Chain(journal, WholeCount(journal), checkpoint.package, Restored)
  BY DEF Files
<1>2. Torn(journal') = Torn(journal) /\ WholeCount(journal') = WholeCount(journal)
  BY <1>1, SameFramesSameTail
<1>3. Chain(journal', WholeCount(journal'), checkpoint.package, Restored)
  <2>1. WholeCount(journal) \in Nat /\ WholeCount(journal) <= Len(journal) /\ Len(journal) \in Nat
    BY <1>1, WholeFramesAre
  <2>2. \A i \in 1 .. WholeCount(journal) :
          journal'[i].package = journal[i].package /\ journal'[i].bytes = journal[i].bytes
    BY <2>1
  <2> QED BY <1>1, <1>2, <2>1, <2>2, ChainOfSame
<1>4. Restored' = Restored
  BY <1>3, AdoptedIsTop, RestoredIsAdopted
<1> QED BY <1>1, <1>2, <1>3, <1>4 DEF Files, Complete, WholeCount, Torn

LEMMA FlushBodyKeeps == ASSUME IInv, FlushBody PROVE IInv' /\ Restored' = Restored /\ checkpoint # Absent
<1>1. /\ pc = "flush_body" /\ pc' = "write_footer" /\ journal' = Flushed(journal)
      /\ UNCHANGED <<directory, checkpoint, scratch, task, package, prepared, answer, acked>>
  BY DEF FlushBody, memory
<1>2. TypeOK /\ Files /\ Creating /\ Places /\ Memory /\ TornTail
  BY DEF IInv
<1>3. checkpoint # Absent /\ journal \in Seq(Frames)
  BY <1>1, <1>2, DurableStoreAssumption DEF Creating, Places, Applying, Files
<1>4. /\ journal' \in Seq(Frames) /\ Len(journal') = Len(journal)
      /\ \A i \in 1 .. Len(journal) :
           journal'[i].package = journal[i].package /\ journal'[i].bytes = journal[i].bytes
  BY <1>1, <1>3, FlushedSame
<1>5. Files' /\ Restored' = Restored /\ Torn(journal') = Torn(journal)
  BY <1>1, <1>2, <1>3, <1>4, FilesSame
<1>6. /\ Torn(journal') /\ Last(journal').package = prepared /\ Last(journal').bytes = BodySize(prepared)
  <2>1. Torn(journal) /\ Last(journal).package = prepared /\ Last(journal).bytes = BodySize(prepared)
    BY <1>1, <1>2 DEF TornTail
  <2>2. Len(journal) \in 1 .. Len(journal)
    BY <1>3, <2>1 DEF Torn
  <2> QED BY <1>4, <1>5, <2>1, <2>2 DEF Last
<1>7. TypeOK'
  BY <1>1, <1>2, <1>4 DEF TypeOK
<1>8. Creating' /\ Places'
  BY <1>1, <1>2, <1>3, DurableStoreAssumption DEF Creating, Places, Replacing, Applying
<1>9. Memory'
  BY <1>1, <1>2, <1>5 DEF Memory, Applying
<1>10. TornTail' /\ Answering'
  BY <1>1, <1>6 DEF TornTail, Answering
<1> QED BY <1>3, <1>5, <1>7, <1>8, <1>9, <1>10 DEF IInv

LEMMA FlushFooterKeeps == ASSUME IInv, FlushFooter PROVE IInv' /\ Restored' = Restored /\ checkpoint # Absent
<1>1. /\ pc = "flush_footer" /\ pc' = "publish" /\ journal' = Flushed(journal)
      /\ UNCHANGED <<directory, checkpoint, scratch, task, package, prepared, answer, acked>>
  BY DEF FlushFooter, memory
<1>2. TypeOK /\ Files /\ Creating /\ Places /\ Memory /\ TornTail
  BY DEF IInv
<1>3. checkpoint # Absent /\ journal \in Seq(Frames)
  BY <1>1, <1>2, DurableStoreAssumption DEF Creating, Places, Applying, Files
<1>4. /\ journal' \in Seq(Frames) /\ Len(journal') = Len(journal)
      /\ \A i \in 1 .. Len(journal) :
           journal'[i].package = journal[i].package /\ journal'[i].bytes = journal[i].bytes
  BY <1>1, <1>3, FlushedSame
<1>5. Files' /\ Restored' = Restored /\ Torn(journal') = Torn(journal)
  BY <1>1, <1>2, <1>3, <1>4, FilesSame
<1>6. TypeOK'
  BY <1>1, <1>2, <1>4 DEF TypeOK
<1>7. Creating' /\ Places'
  BY <1>1, <1>2, <1>3, DurableStoreAssumption DEF Creating, Places, Replacing, Applying
<1>8. Memory'
  BY <1>1, <1>2, <1>5 DEF Memory, Applying
<1>9. TornTail' /\ Answering'
  BY <1>1, <1>2, <1>5 DEF TornTail, Answering
<1> QED BY <1>3, <1>5, <1>6, <1>7, <1>8, <1>9 DEF IInv

(* The footer completes the frame: the prepared package is the top. *)
LEMMA WriteFooterKeeps ==
  ASSUME IInv, WriteFooter
  PROVE  /\ IInv' /\ checkpoint # Absent /\ Restored = package /\ Restored' = prepared
         /\ High(prepared) = High(package) + 1 /\ Below(package, prepared)
<1> DEFINE k == WholeCount(journal)
<1>1. /\ pc = "write_footer" /\ pc' = "flush_footer"
      /\ journal' = [journal EXCEPT ![Len(journal)].bytes = FrameSize(prepared)]
      /\ UNCHANGED <<directory, checkpoint, scratch, task, package, prepared, answer, acked>>
  BY DEF WriteFooter, memory
<1>2. TypeOK /\ Files /\ Creating /\ Places /\ Memory /\ TornTail
  BY DEF IInv
<1>3. checkpoint # Absent
  BY <1>1, <1>2, DurableStoreAssumption DEF Creating, Places, Applying
<1>4. /\ directory /\ checkpoint \in Frames /\ Complete(checkpoint) /\ journal \in Seq(Frames)
      /\ Chain(journal, k, checkpoint.package, package) /\ Restored = package
      /\ Good(prepared) /\ High(prepared) = High(package) + 1 /\ Below(package, prepared)
  BY <1>1, <1>2, <1>3 DEF Files, Memory, Applying
<1>5. Torn(journal) /\ Last(journal).package = prepared
  BY <1>1, <1>2 DEF TornTail
<1>6. k \in Nat /\ Len(journal) = k + 1 /\ Len(journal) \in 1 .. Len(journal)
  BY <1>4, <1>5 DEF WholeCount, Torn
<1> DEFINE last == [journal[k + 1] EXCEPT !.bytes = FrameSize(prepared)]
<1>7. journal[k + 1] \in Frames /\ journal[k + 1].package = prepared
  BY <1>4, <1>5, <1>6 DEF Last
<1>8. last \in Frames /\ last.package = prepared /\ Complete(last)
  <2>1. FrameSize(prepared) \in 0 .. CommitLimit + 2
    BY <1>4, PackageParts, DurableStoreAssumption DEF Good, FrameSize, FooterSize
  <2>2. last.bytes = FrameSize(prepared)
    BY <1>7 DEF Frames
  <2> QED BY <1>7, <2>1, <2>2 DEF Frames, Complete
<1> HIDE DEF last, k
<1>9. journal' = [journal EXCEPT ![k + 1] = last]
  BY <1>1, <1>6 DEF last
<1>10. /\ journal' \in Seq(Frames) /\ Len(journal') = k + 1 /\ journal'[k + 1] = last
       /\ \A i \in 1 .. k : journal'[i] = journal[i]
  BY <1>4, <1>6, <1>8, <1>9
<1>11. ~Torn(journal') /\ WholeCount(journal') = k + 1
  BY <1>8, <1>10 DEF Torn, WholeCount, Last
<1>12. Chain(journal', k + 1, checkpoint.package, prepared)
  BY <1>4, <1>6, <1>8, <1>10, ChainGrows
<1>13. Restored' = prepared
  BY <1>1, <1>10, <1>11, <1>12, AdoptedIsTop, RestoredIsAdopted
<1>14. Files'
  BY <1>1, <1>4, <1>10, <1>11, <1>12, <1>13 DEF Files, Complete, WholeCount, Torn
<1>15. TypeOK'
  BY <1>1, <1>2, <1>10 DEF TypeOK
<1>16. Creating' /\ Places'
  BY <1>1, <1>2, <1>3, DurableStoreAssumption DEF Creating, Places, Replacing, Applying
<1>17. Memory'
  BY <1>1, <1>2, <1>13 DEF Memory, Applying
<1>18. TornTail' /\ Answering'
  BY <1>1, <1>11 DEF TornTail, Answering
<1> QED BY <1>3, <1>4, <1>13, <1>14, <1>15, <1>16, <1>17, <1>18 DEF IInv

(* open() drops a torn tail, which no whole frame depended on. *)
LEMMA TruncateTailKeeps ==
  ASSUME IInv, TruncateTail
  PROVE  IInv' /\ Restored' = Restored /\ checkpoint # Absent
<1> DEFINE k == WholeCount(journal)
<1>1. /\ pc = "truncate" /\ pc' = "remove_scratch"
      /\ journal' = (IF Torn(journal) THEN Flushed(Front(journal)) ELSE journal)
      /\ UNCHANGED <<directory, checkpoint, scratch, task, package, prepared, answer, acked>>
  BY DEF TruncateTail, memory
<1>2. TypeOK /\ Files /\ Creating /\ Places /\ Memory /\ TornTail
  BY DEF IInv
<1>3. checkpoint # Absent
  BY <1>1, <1>2, DurableStoreAssumption DEF Creating, Places
<1>4. /\ directory /\ checkpoint \in Frames /\ Complete(checkpoint) /\ journal \in Seq(Frames)
      /\ Chain(journal, k, checkpoint.package, Restored)
  BY <1>2, <1>3 DEF Files
<1>5. k \in Nat /\ k <= Len(journal)
  BY <1>4, WholeFramesAre
<1>6. /\ journal' \in Seq(Frames) /\ Len(journal') = k
      /\ \A i \in 1 .. k :
           journal'[i].package = journal[i].package /\ journal'[i].bytes = journal[i].bytes
  <2>1. CASE Torn(journal)
    <3>1. /\ Front(journal) \in Seq(Frames) /\ Len(Front(journal)) = k
          /\ \A i \in 1 .. k : Front(journal)[i] = journal[i]
      BY <1>4, <2>1, WholeFramesAre DEF WholeFrames
    <3> QED BY <1>1, <2>1, <3>1, FlushedSame
  <2>2. CASE ~Torn(journal)
    BY <1>1, <1>4, <2>2 DEF WholeCount
  <2> QED BY <2>1, <2>2
<1> HIDE DEF k
<1>7. ~Torn(journal')
  <2>1. CASE k = 0
    BY <1>6, <2>1 DEF Torn
  <2>2. CASE k # 0
    <3>1. k \in 1 .. k /\ Last(journal') = journal'[k]
      BY <1>5, <1>6, <2>2 DEF Last
    <3>2. Complete(journal[k])
      BY <1>4, <3>1 DEF Chain
    <3> QED BY <1>6, <3>1, <3>2 DEF Torn, Complete
  <2> QED BY <2>1, <2>2
<1>8. WholeCount(journal') = k /\ Chain(journal', k, checkpoint.package, Restored)
  BY <1>4, <1>5, <1>6, <1>7, ChainOfSame DEF WholeCount
<1>9. Restored' = Restored
  BY <1>1, <1>6, <1>8, AdoptedIsTop, RestoredIsAdopted
<1>10. Files'
  BY <1>1, <1>4, <1>6, <1>8, <1>9 DEF Files, Complete, WholeCount, Torn
<1>11. TypeOK'
  BY <1>1, <1>2, <1>6 DEF TypeOK
<1>12. Creating' /\ Places'
  BY <1>1, <1>2, <1>3, DurableStoreAssumption DEF Creating, Places, Replacing, Applying
<1>13. Memory'
  BY <1>1, <1>2, <1>9 DEF Memory, Applying
<1>14. TornTail' /\ Answering'
  BY <1>1, <1>7 DEF TornTail, Answering
<1> QED BY <1>3, <1>9, <1>10, <1>11, <1>12, <1>13, <1>14 DEF IInv

-----------------------------------------------------------------------------
LEMMA InitHolds == Init => IInv
<1> SUFFICES ASSUME Init PROVE IInv
  OBVIOUS
<1>1. Good(EmptyPackage) /\ package = EmptyPackage /\ prepared = EmptyPackage
  BY EmptyGood DEF Init
<1>2. TypeOK
  BY <1>1 DEF Init, TypeOK, Good
<1>3. Files /\ Creating /\ Places
  BY DurableStoreAssumption DEF Init, Files, Creating, Places, Replacing, Applying
<1>4. Memory /\ TornTail /\ Answering
  BY <1>1 DEF Init, Memory, TornTail, Answering, Applying
<1> QED BY <1>2, <1>3, <1>4 DEF IInv

LEMMA StepKeeps == ASSUME IInv, [Next]_vars PROVE IInv'
<1>1. CASE CreateDirectory \/ CreateJournal \/ FinishCreate
  BY <1>1, CreateDirectoryKeeps, CreateJournalKeeps, FinishKeeps
<1>2. CASE OpenScratch \/ FlushScratch \/ ReplaceCheckpoint
  BY <1>2, OpenScratchKeeps, FlushScratchKeeps, ReplaceCheckpointKeeps
<1>3. CASE \E n \in 1 .. CommitLimit + 2 : WriteScratch(n) \/ WriteBody(n)
  BY <1>3, WriteScratchKeeps, WriteBodyKeeps
<1>4. CASE Compact \/ ReclaimJournal \/ FinishCompact
  BY <1>4, CompactKeeps, ReclaimJournalKeeps, FinishKeeps
<1>5. CASE \E s \in 1 .. CommitLimit, p \in Payloads, t \in Ticks : Apply(s, p, t)
  BY <1>5, ApplyKeeps
<1>6. CASE FlushBody \/ WriteFooter \/ FlushFooter \/ Publish
  BY <1>6, FlushBodyKeeps, WriteFooterKeeps, FlushFooterKeeps, PublishKeeps
<1>7. CASE \E s \in 1 .. CommitLimit, p \in Payloads : Retry(s, p)
  BY <1>7, RetryKeeps
<1>8. CASE Acknowledge \/ \E s \in 1 .. CommitLimit : Lookup(s)
  BY <1>8, AcknowledgeKeeps, LookupKeeps
<1>9. CASE Fail \/ Stop
  BY <1>9, FailKeeps, StopKeeps
<1>10. CASE Open \/ TruncateTail \/ RemoveScratch
  BY <1>10, OpenKeeps, TruncateTailKeeps, RemoveScratchKeeps
<1>11. CASE UNCHANGED vars
  BY <1>11, StutterKeeps
<1> QED
  BY <1>1, <1>2, <1>3, <1>4, <1>5, <1>6, <1>7, <1>8, <1>9, <1>10, <1>11 DEF Next

-----------------------------------------------------------------------------
(* The sizes of the files.                                                 *)

\* The sizes that Written sums.
SizesOf(frames) == [i \in 1 .. Len(frames) |-> frames[i].bytes]

LEMMA WrittenSums ==
  ASSUME NEW f \in Seq(Frames)
  PROVE  /\ Written(f) = SumFunctionOnSet(SizesOf(f), 1 .. Len(f))
         /\ Len(f) \in Nat /\ IsFiniteSet(1 .. Len(f))
         /\ \A i \in 1 .. Len(f) : SizesOf(f)[i] = f[i].bytes /\ SizesOf(f)[i] \in Nat
<1>1. Len(f) \in Nat
  OBVIOUS
<1>2. IsFiniteSet(1 .. Len(f))
  BY <1>1, FS_Interval
<1>3. ASSUME NEW i \in 1 .. Len(f)
      PROVE  SizesOf(f)[i] = f[i].bytes /\ SizesOf(f)[i] \in Nat
  <2>1. f[i] \in Frames
    BY ElementOfSeq
  <2>2. f[i].bytes \in Nat
    BY <2>1, DurableStoreAssumption DEF Frames
  <2> QED BY <2>2 DEF SizesOf
<1> QED BY <1>1, <1>2, <1>3 DEF Written, SizesOf

LEMMA WrittenNat ==
  ASSUME NEW f \in Seq(Frames)
  PROVE  Written(f) \in Nat
  BY WrittenSums, SumNat

LEMMA WrittenNone == Written(<<>>) = 0
<1>1. 1 .. Len(<<>>) = {}
  OBVIOUS
<1> QED BY <1>1, SumEmpty DEF Written

(* The journal's size depends on the sizes of its frames only, and grows by *)
(* that of the frame appended.                                              *)
LEMMA WrittenSame ==
  ASSUME NEW f \in Seq(Frames), NEW g \in Seq(Frames), Len(f) = Len(g),
         \A i \in 1 .. Len(f) : f[i].bytes = g[i].bytes
  PROVE  Written(f) = Written(g)
<1>1. \A i \in 1 .. Len(f) : SizesOf(f)[i] = SizesOf(g)[i]
  BY WrittenSums
<1>2. SumFunctionOnSet(SizesOf(f), 1 .. Len(f)) = SumFunctionOnSet(SizesOf(g), 1 .. Len(f))
  BY <1>1, WrittenSums, SumAgree
<1> QED BY <1>2, WrittenSums

LEMMA WrittenAppend ==
  ASSUME NEW f \in Seq(Frames), NEW g \in Seq(Frames), Len(g) = Len(f) + 1,
         \A i \in 1 .. Len(f) : f[i].bytes = g[i].bytes
  PROVE  Written(g) = Written(f) + g[Len(g)].bytes
<1> DEFINE n == Len(g)
<1>1. /\ Len(f) \in Nat /\ n \in Nat /\ n \in 1 .. n /\ 1 .. Len(f) = (1 .. n) \ {n}
      /\ \A i \in 1 .. Len(f) : i \in 1 .. n
  OBVIOUS
<1>2. /\ Written(g) = SumFunctionOnSet(SizesOf(g), 1 .. n) /\ IsFiniteSet(1 .. n)
      /\ \A i \in 1 .. n : SizesOf(g)[i] = g[i].bytes /\ SizesOf(g)[i] \in Nat
  BY WrittenSums
<1>3. /\ Written(f) = SumFunctionOnSet(SizesOf(f), 1 .. Len(f)) /\ IsFiniteSet(1 .. Len(f))
      /\ \A i \in 1 .. Len(f) : SizesOf(f)[i] = f[i].bytes
  BY WrittenSums
<1> HIDE DEF n
<1>4. Written(g) = SizesOf(g)[n] + SumFunctionOnSet(SizesOf(g), (1 .. n) \ {n})
  BY <1>1, <1>2, SumRemove
<1>5. \A i \in 1 .. Len(f) : SizesOf(f)[i] = SizesOf(g)[i]
  BY <1>1, <1>2, <1>3
<1>6. SumFunctionOnSet(SizesOf(g), 1 .. Len(f)) = Written(f)
  BY <1>3, <1>5, SumAgree
<1>7. SizesOf(g)[n] = g[n].bytes /\ g[n].bytes \in Nat /\ Written(f) \in Nat
  BY <1>1, <1>2, WrittenNat
<1>8. Written(g) = g[n].bytes + Written(f)
  BY <1>1, <1>4, <1>6, <1>7
<1> QED BY <1>7, <1>8 DEF n

(* A journal is its whole frames and the torn one, if there is one. *)
LEMMA WrittenTail ==
  ASSUME NEW f \in Seq(Frames)
  PROVE  /\ WholeFrames(f) \in Seq(Frames)
         /\ Written(f) = Written(WholeFrames(f)) + (IF Torn(f) THEN Last(f).bytes ELSE 0)
<1>1. /\ WholeFrames(f) \in Seq(Frames) /\ Len(WholeFrames(f)) = WholeCount(f)
      /\ \A i \in 1 .. WholeCount(f) : WholeFrames(f)[i] = f[i]
  BY WholeFramesAre
<1>2. CASE Torn(f)
  <2>1. Len(f) \in Nat \ {0} /\ WholeCount(f) = Len(f) - 1
    BY <1>2 DEF Torn, WholeCount
  <2>2. Written(f) = Written(WholeFrames(f)) + f[Len(f)].bytes
    BY <1>1, <2>1, WrittenAppend
  <2> QED BY <1>1, <1>2, <2>2 DEF Last
<1>3. CASE ~Torn(f)
  BY <1>1, <1>3, WrittenNat DEF WholeFrames
<1> QED BY <1>2, <1>3

LEMMA Sizes ==
  ASSUME IInv
  PROVE  /\ Bytes(checkpoint) \in Nat /\ Bytes(scratch) \in Nat /\ Quota \in Nat
         /\ FrameSize(package) \in Nat /\ FrameSize(prepared) \in Nat
         /\ FrameSize(prepared) = BodySize(prepared) + 1
         /\ checkpoint # Absent => journal \in Seq(Frames) /\ journal # Absent /\ JournalBytes \in Nat
<1>1. TypeOK /\ Files /\ Good(package) /\ Good(prepared)
  BY DEF IInv, Memory
<1>2. ASSUME NEW file, file = Absent \/ file \in Frames
      PROVE  Bytes(file) \in Nat
  BY <1>2, DurableStoreAssumption DEF Bytes, Frames
<1>3. Bytes(checkpoint) \in Nat /\ Bytes(scratch) \in Nat
  BY <1>1, <1>2 DEF TypeOK
<1>4. FrameSize(package) \in Nat /\ FrameSize(prepared) \in Nat /\ FrameSize(prepared) = BodySize(prepared) + 1
  BY <1>1, PackageParts DEF Good, FrameSize, BodySize, FooterSize
<1>5. checkpoint # Absent => journal \in Seq(Frames) /\ journal # Absent
  BY <1>1, DurableStoreAssumption DEF Files
<1> QED BY <1>3, <1>4, <1>5, WrittenNat, DurableStoreAssumption DEF JournalBytes

LEMMA Used == BytesUsed = Bytes(checkpoint) + Bytes(scratch) + JournalBytes
  BY DEF BytesUsed, JournalBytes

LEMMA FileBytes ==
  ASSUME NEW file \in Frames
  PROVE  file # Absent /\ Bytes(file) = file.bytes /\ file.bytes \in Nat
  BY DurableStoreAssumption DEF Bytes, Frames

(* Room is about the files, and at these places about the packages. *)
Writing == {"create_journal", "open_scratch", "write_scratch", "flush_scratch", "replace",
            "write_body", "flush_body", "write_footer"}

LEMMA RoomStays ==
  ASSUME Room, UNCHANGED disk, pc' \notin Writing
  PROVE  Room'
<1>1. BytesUsed' = BytesUsed
  BY DEF BytesUsed, Bytes, disk
<1> QED BY <1>1 DEF Room, WithinQuota, Writing, disk

LEMMA CreateDirectoryRoom == ASSUME IInv, Room, CreateDirectory PROVE Room'
<1>1. /\ ~directory /\ pc' = "create_journal" /\ UNCHANGED <<checkpoint, journal>>
  BY DEF CreateDirectory
<1>2. checkpoint = Absent /\ journal = Absent
  BY <1>1 DEF IInv, Files, Room
<1> QED BY <1>1, <1>2 DEF Room

LEMMA CreateJournalRoom == ASSUME IInv, Room, CreateJournal PROVE Room'
<1>1. /\ pc = "create_journal" /\ pc' = "open_scratch" /\ journal' = <<>>
      /\ BytesUsed + FrameSize(package) <= Quota
      /\ UNCHANGED <<directory, checkpoint, scratch, package>>
  BY DEF CreateJournal, WithinQuota, memory
<1>2. journal = Absent /\ checkpoint = Absent /\ directory
  BY <1>1 DEF Room, IInv, Places, Creating
<1>3. JournalBytes = 0 /\ JournalBytes' = 0
  BY <1>1, <1>2, WrittenNone DEF JournalBytes
<1>4. Bytes(checkpoint) + JournalBytes + FrameSize(package) <= Quota
  BY <1>1, <1>3, Sizes, Used
<1>5. Bytes(checkpoint') + JournalBytes' + FrameSize(package') <= Quota
  BY <1>1, <1>3, <1>4
<1> QED BY <1>1, <1>2, <1>5 DEF Room

(* A checkpoint being written, beside the one it will replace. *)
LEMMA CompactRoom == ASSUME IInv, Room, Compact PROVE Room'
<1>1. /\ pc = "idle" /\ pc' = "open_scratch" /\ BytesUsed + FrameSize(package) <= Quota
      /\ UNCHANGED <<directory, checkpoint, scratch, journal, package, prepared>>
  BY DEF Compact, Idle, WithinQuota, disk, memory
<1>2. checkpoint # Absent /\ directory
  BY <1>1, DurableStoreAssumption DEF IInv, Creating, Places, Files
<1>3. Bytes(checkpoint) + JournalBytes + FrameSize(package) <= Quota
  BY <1>1, <1>2, Sizes, Used
<1>4. BytesUsed' = BytesUsed /\ JournalBytes' = JournalBytes
  BY <1>1 DEF BytesUsed, JournalBytes
<1> QED BY <1>1, <1>2, <1>3, <1>4 DEF Room, WithinQuota

\* While a checkpoint is written the journal has a size, with or without one to replace.
LEMMA ReplacingSizes ==
  ASSUME IInv, pc \in Replacing
  PROVE  JournalBytes \in Nat /\ directory
<1>1. CASE checkpoint # Absent
  BY <1>1, Sizes DEF IInv, Files
<1>2. CASE checkpoint = Absent
  <2>1. task = "create" /\ pc # "create_journal"
    BY <1>2 DEF IInv, Creating, Places, Replacing
  <2>2. journal = <<>> /\ directory
    BY <2>1 DEF IInv, Creating
  <2> QED BY <2>2, WrittenNone DEF JournalBytes
<1> QED BY <1>1, <1>2

LEMMA ScratchRoom ==
  ASSUME IInv, Room, NEW n \in 1 .. CommitLimit + 2,
         OpenScratch \/ WriteScratch(n) \/ FlushScratch
  PROVE  Room'
<1>1. /\ pc \in {"open_scratch", "write_scratch", "flush_scratch"}
      /\ pc' \in {"write_scratch", "flush_scratch", "replace"}
      /\ UNCHANGED <<directory, checkpoint, journal, package, prepared>>
  BY DEF OpenScratch, WriteScratch, FlushScratch, memory
<1>2. package \in Packages /\ Bytes(scratch') <= FrameSize(package) /\ Bytes(scratch') \in Nat
  <2>1. package \in Packages /\ FrameSize(package) \in Nat
    BY Sizes DEF IInv, TypeOK
  <2>2. CASE OpenScratch
    <3>1. scratch' \in Frames /\ scratch'.bytes = 0
      BY <2>1, <2>2, DurableStoreAssumption DEF OpenScratch, NewFrame, Frames
    <3> QED BY <2>1, <3>1, FileBytes
  <2>3. CASE WriteScratch(n)
    <3>1. scratch \in Frames
      BY <2>3 DEF IInv, TypeOK, Places, WriteScratch
    <3>2. scratch' = [scratch EXCEPT !.bytes = n] /\ n <= FrameSize(package)
      BY <2>3 DEF WriteScratch
    <3>3. scratch' \in Frames /\ scratch'.bytes = n
      BY <3>1, <3>2, DurableStoreAssumption DEF Frames
    <3> QED BY <2>1, <3>2, <3>3, FileBytes
  <2>4. CASE FlushScratch
    <3>1. scratch \in Frames /\ Bytes(scratch) <= FrameSize(package)
      BY <2>4 DEF IInv, TypeOK, Places, FlushScratch, Room
    <3>2. scratch' = [scratch EXCEPT !.flushed = scratch.bytes]
      BY <2>4 DEF FlushScratch
    <3>3. scratch' \in Frames /\ scratch'.bytes = scratch.bytes
      BY <3>1, <3>2, DurableStoreAssumption DEF Frames
    <3> QED BY <2>1, <3>1, <3>3, FileBytes
  <2> QED BY <2>1, <2>2, <2>3, <2>4
<1>3. JournalBytes \in Nat /\ directory
  BY <1>1, ReplacingSizes DEF Replacing
<1>4. Bytes(checkpoint) + JournalBytes + FrameSize(package) <= Quota
  BY <1>1 DEF Room
<1>5. BytesUsed' = Bytes(checkpoint) + Bytes(scratch') + JournalBytes
  BY <1>1 DEF BytesUsed, JournalBytes
<1>6. BytesUsed' <= Quota /\ BytesUsed' + 0 <= Quota
  BY <1>2, <1>3, <1>4, <1>5, Sizes
<1>7. JournalBytes' = JournalBytes
  BY <1>1 DEF JournalBytes
<1> QED BY <1>1, <1>2, <1>3, <1>4, <1>6, <1>7 DEF Room, WithinQuota

(* The checkpoint replaced gives back at least what the rename brings. *)
LEMMA ReplaceCheckpointRoom == ASSUME IInv, Room, ReplaceCheckpoint PROVE Room'
<1>1. /\ pc = "replace" /\ pc' = "replaced" /\ checkpoint' = scratch /\ scratch' = Absent
      /\ scratch.package = package /\ scratch.bytes = FrameSize(package)
      /\ UNCHANGED <<directory, journal>>
  BY DEF ReplaceCheckpoint, Complete
<1>2. scratch \in Frames
  BY <1>1 DEF IInv, TypeOK, Places
<1>3. Bytes(checkpoint') = FrameSize(package) /\ Bytes(scratch') = 0 /\ JournalBytes' = JournalBytes
  BY <1>1, <1>2, FileBytes DEF Bytes, JournalBytes
<1>4. JournalBytes \in Nat /\ directory /\ Bytes(checkpoint) + JournalBytes + FrameSize(package) <= Quota
  BY <1>1, ReplacingSizes DEF Replacing, Room
<1>5. BytesUsed' = FrameSize(package) + 0 + JournalBytes
  BY <1>3 DEF BytesUsed, JournalBytes
<1>6. BytesUsed' + 0 <= Quota
  BY <1>4, <1>5, Sizes
<1> QED BY <1>1, <1>4, <1>6 DEF Room, WithinQuota

(* Files removed or emptied. *)
LEMMA ReclaimRoom == ASSUME IInv, Room, ReclaimJournal \/ RemoveScratch PROVE Room'
<1>1. /\ pc \in {"replaced", "remove_scratch"} /\ pc' \in {"reclaimed", "idle"}
      /\ UNCHANGED <<directory, checkpoint>>
      /\ \/ journal' = <<>> /\ scratch' = scratch
         \/ journal' = journal /\ scratch' = Absent
  BY DEF ReclaimJournal, RemoveScratch, Return
<1>2. checkpoint # Absent /\ directory
  <2>1. CASE pc = "replaced"
    BY <2>1 DEF IInv, Memory, Files
  <2>2. CASE pc = "remove_scratch"
    BY <2>2, DurableStoreAssumption DEF IInv, Creating, Places, Files
  <2> QED BY <1>1, <2>1, <2>2
<1>3. /\ Bytes(scratch') \in Nat /\ Bytes(scratch') <= Bytes(scratch)
      /\ JournalBytes' \in Nat /\ JournalBytes' <= JournalBytes
  <2>1. JournalBytes \in Nat /\ Bytes(scratch) \in Nat
    BY <1>2, Sizes
  <2>2. CASE journal' = <<>> /\ scratch' = scratch
    BY <2>1, <2>2, WrittenNone DEF JournalBytes
  <2>3. CASE journal' = journal /\ scratch' = Absent
    BY <2>1, <2>3 DEF JournalBytes, Bytes
  <2> QED BY <1>1, <2>2, <2>3
<1>4. BytesUsed + 0 <= Quota /\ BytesUsed' = Bytes(checkpoint) + Bytes(scratch') + JournalBytes'
  BY <1>1, <1>2 DEF Room, WithinQuota, BytesUsed, JournalBytes
<1>5. BytesUsed' + 0 <= Quota
  BY <1>2, <1>3, <1>4, Sizes, Used
<1> QED BY <1>1, <1>2, <1>5 DEF Room, WithinQuota

(* A record being appended: what it will come to was within the quota when *)
(* apply() asked, and a torn tail is written over.                         *)
LEMMA ApplyRoom ==
  ASSUME IInv, Room, NEW s \in 1 .. CommitLimit, NEW p \in Payloads, NEW t \in Ticks, Apply(s, p, t)
  PROVE  Room'
<1>1. /\ pc = "idle" /\ pc' = "write_body" /\ BytesUsed + FrameSize(prepared') <= Quota
      /\ UNCHANGED <<directory, checkpoint, scratch, journal>>
  BY DEF Apply, Idle, WithinQuota, disk
<1>2. checkpoint # Absent /\ directory /\ ~Torn(journal)
  BY <1>1, DurableStoreAssumption DEF IInv, Creating, Places, Files, TornTail
<1>3. BytesUsed' = BytesUsed /\ TailBytes' = 0
  BY <1>1, <1>2 DEF BytesUsed, TailBytes, Torn
<1>4. FrameSize(prepared') \in Nat
  <2>1. IInv'
    BY ApplyKeeps
  <2>2. prepared' \in Packages
    BY <2>1 DEF IInv, TypeOK
  <2> QED BY <2>2, PackageParts DEF FrameSize, FooterSize
<1>5. BytesUsed + (FrameSize(prepared') - 0) <= Quota /\ 0 <= FrameSize(prepared')
  BY <1>1, <1>2, <1>4, Sizes, Used
<1> QED BY <1>1, <1>2, <1>3, <1>5 DEF Room, WithinQuota

LEMMA WriteBodyRoom ==
  ASSUME IInv, Room, NEW n \in 1 .. CommitLimit + 2, WriteBody(n) PROVE Room'
<1> DEFINE e == [NewFrame(prepared) EXCEPT !.bytes = n]
           whole == WholeFrames(journal)
<1>1. /\ pc = "write_body" /\ pc' \in {"write_body", "flush_body"} /\ n <= BodySize(prepared)
      /\ journal' = Append(whole, e)
      /\ UNCHANGED <<directory, checkpoint, scratch, prepared>>
  BY DEF WriteBody, memory
<1>0. n \in Nat /\ n < FrameSize(prepared)
  <2>1. n \in Nat /\ FrameSize(prepared) \in Nat /\ BodySize(prepared) = FrameSize(prepared) - 1
    BY Sizes, DurableStoreAssumption DEF BodySize, FooterSize
  <2> QED BY <1>1, <2>1
<1>2. checkpoint # Absent /\ directory
  BY <1>1, DurableStoreAssumption DEF IInv, Creating, Places, Applying, Files
<1>3. /\ e \in Frames /\ e.bytes = n /\ e.package = prepared
  <2>1. prepared \in Packages
    BY DEF IInv, TypeOK
  <2> QED BY <2>1, DurableStoreAssumption DEF NewFrame, Frames
<1>4. journal \in Seq(Frames) /\ whole \in Seq(Frames) /\ Written(journal) = Written(whole) + TailBytes
  BY <1>2, Sizes, WrittenTail DEF TailBytes
<1> HIDE DEF e, whole
<1>5. /\ journal' \in Seq(Frames) /\ Len(journal') = Len(whole) + 1 /\ Last(journal') = e
      /\ journal'[Len(journal')] = e /\ journal' # <<>>
      /\ \A i \in 1 .. Len(whole) : whole[i].bytes = journal'[i].bytes
  BY <1>1, <1>3, <1>4 DEF Last
<1>6. Written(journal') = Written(whole) + n
  BY <1>3, <1>4, <1>5, WrittenAppend
<1>7. Torn(journal') /\ TailBytes' = n
  <2>1. n # FrameSize(prepared)
    BY <1>0, Sizes
  <2> QED BY <1>3, <1>5, <2>1 DEF Torn, Complete, TailBytes
<1>8. journal' # Absent /\ journal # Absent
  BY <1>4, <1>5, DurableStoreAssumption
<1>9. BytesUsed' = Bytes(checkpoint) + Bytes(scratch) + (Written(whole) + n)
  BY <1>1, <1>6, <1>8 DEF BytesUsed
<1>10. BytesUsed = Bytes(checkpoint) + Bytes(scratch) + (Written(whole) + TailBytes)
  BY <1>4, <1>8 DEF BytesUsed
<1>11. BytesUsed + (FrameSize(prepared) - TailBytes) <= Quota
  BY <1>1 DEF Room, WithinQuota
<1>12. Written(whole) \in Nat /\ TailBytes \in Nat
  <2>1. Torn(journal) => Len(journal) \in 1 .. Len(journal) /\ Last(journal) = journal[Len(journal)]
    BY <1>4 DEF Torn, Last
  <2>2. TailBytes \in Nat
    BY <1>4, <2>1, FileBytes, ElementOfSeq DEF TailBytes
  <2> QED BY <1>4, <2>2, WrittenNat
<1>13. BytesUsed' + (FrameSize(prepared) - n) <= Quota /\ n <= FrameSize(prepared)
  <2>1. \A c, x, w, tail, size, m, q \in Nat :
          c + x + (w + tail) + (size - tail) <= q => c + x + (w + m) + (size - m) <= q
    OBVIOUS
  <2>2. /\ Bytes(checkpoint) \in Nat /\ Bytes(scratch) \in Nat /\ Quota \in Nat
        /\ FrameSize(prepared) \in Nat
    BY Sizes
  <2>3. Bytes(checkpoint) + Bytes(scratch) + (Written(whole) + TailBytes)
          + (FrameSize(prepared) - TailBytes) <= Quota
    BY <1>10, <1>11
  <2>4. Bytes(checkpoint) + Bytes(scratch) + (Written(whole) + n) + (FrameSize(prepared) - n) <= Quota
    BY <1>0, <1>12, <2>1, <2>2, <2>3
  <2> QED BY <1>0, <1>9, <2>2, <2>4
<1>14. BytesUsed' + 0 <= Quota
  BY <1>0, <1>9, <1>12, <1>13, Sizes
<1> QED BY <1>1, <1>2, <1>7, <1>13, <1>14 DEF Room, WithinQuota

LEMMA FlushRoom == ASSUME IInv, Room, FlushBody \/ FlushFooter PROVE Room'
<1>1. /\ pc \in {"flush_body", "flush_footer"} /\ journal' = Flushed(journal)
      /\ pc' = (IF pc = "flush_body" THEN "write_footer" ELSE "publish")
      /\ UNCHANGED <<directory, checkpoint, scratch, prepared>>
  BY DEF FlushBody, FlushFooter, memory
<1>2. checkpoint # Absent /\ directory
  BY <1>1, DurableStoreAssumption DEF IInv, Creating, Places, Applying, Files
<1>3. journal \in Seq(Frames) /\ journal # Absent
  BY <1>2, Sizes
<1>4. /\ journal' \in Seq(Frames) /\ Len(journal') = Len(journal)
      /\ \A i \in 1 .. Len(journal) :
           journal'[i].package = journal[i].package /\ journal'[i].bytes = journal[i].bytes
  BY <1>1, <1>3, FlushedSame
<1>5. Written(journal') = Written(journal) /\ journal' # Absent
  BY <1>3, <1>4, WrittenSame, DurableStoreAssumption
<1>6. BytesUsed' = BytesUsed
  BY <1>1, <1>3, <1>5 DEF BytesUsed
<1>7. TailBytes' = TailBytes
  <2>1. Torn(journal') = Torn(journal)
    BY <1>3, <1>4, SameFramesSameTail
  <2>2. Torn(journal) => Len(journal) \in 1 .. Len(journal)
    BY <1>3 DEF Torn
  <2> QED BY <1>4, <2>1, <2>2 DEF TailBytes, Last
<1> QED BY <1>1, <1>2, <1>6, <1>7 DEF Room, WithinQuota

LEMMA WriteFooterRoom == ASSUME IInv, Room, WriteFooter PROVE Room'
<1> DEFINE whole == WholeFrames(journal)
<1>1. /\ pc = "write_footer" /\ pc' = "flush_footer"
      /\ journal' = [journal EXCEPT ![Len(journal)].bytes = FrameSize(prepared)]
      /\ UNCHANGED <<directory, checkpoint, scratch, prepared>>
  BY DEF WriteFooter, memory
<1>2. checkpoint # Absent /\ directory /\ Torn(journal) /\ Last(journal).package = prepared
  BY <1>1, DurableStoreAssumption DEF IInv, Creating, Places, Applying, Files, TornTail
<1>3. journal \in Seq(Frames) /\ journal # Absent /\ Len(journal) \in 1 .. Len(journal)
  BY <1>2, Sizes DEF Torn
<1>4. /\ whole \in Seq(Frames) /\ Len(whole) = Len(journal) - 1 /\ Written(journal) = Written(whole) + TailBytes
      /\ \A i \in 1 .. Len(whole) : whole[i] = journal[i]
  BY <1>2, <1>3, WrittenTail, WholeFramesAre DEF TailBytes, WholeCount
<1> HIDE DEF whole
<1>5. /\ journal' \in Seq(Frames) /\ Len(journal') = Len(journal)
      /\ journal'[Len(journal')].bytes = FrameSize(prepared)
      /\ \A i \in 1 .. Len(whole) : whole[i].bytes = journal'[i].bytes
  <2>1. journal[Len(journal)] \in Frames
    BY <1>3, ElementOfSeq
  <2>2. FrameSize(prepared) \in 0 .. CommitLimit + 2
    BY PackageParts, DurableStoreAssumption DEF IInv, TypeOK, FrameSize, FooterSize
  <2>3. [journal[Len(journal)] EXCEPT !.bytes = FrameSize(prepared)] \in Frames
    BY <2>1, <2>2 DEF Frames
  <2> DEFINE e == [journal[Len(journal)] EXCEPT !.bytes = FrameSize(prepared)]
  <2>4. e.bytes = FrameSize(prepared)
    BY <2>1 DEF Frames
  <2> HIDE DEF e
  <2>5. journal' = [journal EXCEPT ![Len(journal)] = e]
    BY <1>1 DEF e
  <2> QED BY <1>3, <1>4, <2>3, <2>4, <2>5 DEF e
<1>6. Written(journal') = Written(whole) + FrameSize(prepared)
  BY <1>4, <1>5, WrittenAppend
<1>7. journal' # Absent
  BY <1>5, DurableStoreAssumption
<1>8. BytesUsed' = Bytes(checkpoint) + Bytes(scratch) + (Written(whole) + FrameSize(prepared))
  BY <1>1, <1>6, <1>7 DEF BytesUsed
<1>9. BytesUsed = Bytes(checkpoint) + Bytes(scratch) + (Written(whole) + TailBytes)
  BY <1>3, <1>4 DEF BytesUsed
<1>10. BytesUsed + (FrameSize(prepared) - TailBytes) <= Quota
  BY <1>1 DEF Room, WithinQuota
<1>11. Written(whole) \in Nat /\ TailBytes \in Nat
  <2>1. TailBytes = journal[Len(journal)].bytes /\ journal[Len(journal)] \in Frames
    BY <1>2, <1>3, ElementOfSeq DEF TailBytes, Last
  <2> QED BY <1>4, <2>1, FileBytes, WrittenNat
<1>12. BytesUsed' + 0 <= Quota
  BY <1>8, <1>9, <1>10, <1>11, Sizes
<1> QED BY <1>1, <1>2, <1>12 DEF Room, WithinQuota

(* open() drops the torn tail. *)
LEMMA TruncateTailRoom == ASSUME IInv, Room, TruncateTail PROVE Room'
<1>1. /\ pc = "truncate" /\ pc' = "remove_scratch"
      /\ journal' = (IF Torn(journal) THEN Flushed(Front(journal)) ELSE journal)
      /\ UNCHANGED <<directory, checkpoint, scratch>>
  BY DEF TruncateTail
<1>2. checkpoint # Absent /\ directory
  BY <1>1, DurableStoreAssumption DEF IInv, Creating, Places, Files
<1>3. journal \in Seq(Frames) /\ journal # Absent
  BY <1>2, Sizes
<1>4. journal' # Absent /\ Written(journal') <= Written(journal) /\ Written(journal') \in Nat /\ Written(journal) \in Nat
  <2>1. CASE Torn(journal)
    <3>1. /\ Front(journal) \in Seq(Frames) /\ Written(journal) = Written(Front(journal)) + Last(journal).bytes
      BY <1>3, <2>1, WrittenTail DEF WholeFrames
    <3>2. /\ journal' \in Seq(Frames) /\ Len(journal') = Len(Front(journal))
          /\ \A i \in 1 .. Len(Front(journal)) : journal'[i].bytes = Front(journal)[i].bytes
      BY <1>1, <2>1, <3>1, FlushedSame
    <3>3. Written(journal') = Written(Front(journal)) /\ Written(Front(journal)) \in Nat
      BY <3>1, <3>2, WrittenSame, WrittenNat
    <3>4. Last(journal).bytes \in Nat
      <4>1. Len(journal) \in 1 .. Len(journal)
        BY <1>3, <2>1 DEF Torn
      <4> QED BY <1>3, <4>1, ElementOfSeq, FileBytes DEF Last
    <3> QED BY <3>1, <3>2, <3>3, <3>4, DurableStoreAssumption
  <2>2. CASE ~Torn(journal)
    BY <1>1, <1>3, <2>2, WrittenNat
  <2> QED BY <2>1, <2>2
<1>5. /\ BytesUsed = Bytes(checkpoint) + Bytes(scratch) + Written(journal)
      /\ BytesUsed' = Bytes(checkpoint) + Bytes(scratch) + Written(journal')
  BY <1>1, <1>3, <1>4 DEF BytesUsed
<1>6. BytesUsed + 0 <= Quota
  BY <1>2 DEF Room, WithinQuota
<1>7. BytesUsed' + 0 <= Quota
  BY <1>4, <1>5, <1>6, Sizes
<1> QED BY <1>1, <1>2, <1>7 DEF Room, WithinQuota

LEMMA InitRoom == Init => Room
  BY DEF Init, Room

LEMMA StepRoom == ASSUME IInv, Room, [Next]_vars PROVE Room'
<1>1. CASE CreateDirectory \/ CreateJournal
  BY <1>1, CreateDirectoryRoom, CreateJournalRoom
<1>2. CASE OpenScratch \/ FlushScratch \/ \E n \in 1 .. CommitLimit + 2 : WriteScratch(n)
  <2>1. 1 \in 1 .. CommitLimit + 2
    BY DurableStoreAssumption
  <2> QED BY <1>2, <2>1, ScratchRoom
<1>3. CASE ReplaceCheckpoint \/ Compact \/ ReclaimJournal \/ RemoveScratch
  BY <1>3, ReplaceCheckpointRoom, CompactRoom, ReclaimRoom
<1>4. CASE \E s \in 1 .. CommitLimit, p \in Payloads, t \in Ticks : Apply(s, p, t)
  BY <1>4, ApplyRoom
<1>5. CASE \E n \in 1 .. CommitLimit + 2 : WriteBody(n)
  BY <1>5, WriteBodyRoom
<1>6. CASE FlushBody \/ WriteFooter \/ FlushFooter \/ TruncateTail
  BY <1>6, FlushRoom, WriteFooterRoom, TruncateTailRoom
<1>7. CASE \/ FinishCreate \/ FinishCompact \/ Publish \/ Acknowledge \/ Fail \/ Stop \/ Open
           \/ \E s \in 1 .. CommitLimit, p \in Payloads : Retry(s, p)
           \/ \E s \in 1 .. CommitLimit : Lookup(s)
  <2>1. UNCHANGED disk /\ pc' \notin Writing
    BY <1>7 DEF FinishCreate, FinishCompact, Publish, Acknowledge, Fail, Stop, Open, Retry, Lookup,
         Return, Idle, Writing
  <2> QED BY <2>1, RoomStays
<1>8. CASE UNCHANGED vars
  <2>1. BytesUsed' = BytesUsed /\ TailBytes' = TailBytes /\ JournalBytes' = JournalBytes
    BY <1>8 DEF vars, BytesUsed, TailBytes, JournalBytes, Bytes, Torn
  <2> QED BY <1>8, <2>1 DEF vars, Room, WithinQuota, Bytes
<1> QED BY <1>1, <1>2, <1>3, <1>4, <1>5, <1>6, <1>7, <1>8 DEF Next

-----------------------------------------------------------------------------
(* What holds for every limit, quota and set of requests.                  *)

(* The files are a chain whatever calls, kills and failures leave behind. *)
THEOREM Invariant == Spec => []IInv
<1>1. IInv /\ [Next]_vars => IInv'
  BY StepKeeps
<1> QED
  BY InitHolds, <1>1, PTL DEF Spec

(* Every package is one encode() may write; the window keeps receipt_limit. *)
THEOREM TypesHold == Spec => []TypeOK
<1>1. IInv => TypeOK
  BY DEF IInv
<1> QED
  BY Invariant, <1>1, PTL

(* After create() open() refuses the files neither as corrupt nor for its  *)
(* quota: what a kill or a failed call leaves at any byte can be read, and *)
(* its sizes, scratch file and torn tail included, sum to no more than the *)
(* call in progress had asked for.                                         *)
THEOREM StoreRecoverable == Spec => []AlwaysRecoverable
<1>1. IInv /\ Room /\ [Next]_vars => Room'
  BY StepRoom
<1>2. IInv /\ Room => AlwaysRecoverable
  BY ChainReadable DEF IInv, Room, AlwaysRecoverable
<1> QED
  BY Invariant, InitRoom, <1>1, <1>2, PTL DEF Spec

(* world-crash_recovery: before the footer the earlier prefix, then the *)
(* prepared one.                                                        *)
THEOREM OracleHolds == Spec => []CrashOracle
<1>1. IInv => CrashOracle
  <2> SUFFICES ASSUME IInv PROVE CrashOracle
    OBVIOUS
  <2>1. Files /\ Creating /\ Places /\ Memory
    BY DEF IInv
  <2>2. task \in {"create", "compact", "open"} \/ Idle \/ pc = "before_ack"
          => checkpoint = Absent \/ Restored = package
    BY <2>1, DurableStoreAssumption DEF Idle, Places, Memory, Replacing, Applying
  <2>3. pc \in {"write_body", "flush_body", "write_footer"} => checkpoint # Absent /\ Restored = package
    BY <2>1, DurableStoreAssumption DEF Creating, Places, Memory, Replacing, Applying
  <2>4. pc \in {"flush_footer", "publish"} => checkpoint # Absent /\ Restored = prepared
    BY <2>1, DurableStoreAssumption DEF Creating, Places, Memory, Replacing, Applying
  <2>5. pc = "sealed" => /\ checkpoint # Absent /\ IsPrefix(package.entries, Restored.entries)
                         /\ Len(Restored.entries) <= High(package) + 1
    <3> SUFFICES ASSUME pc = "sealed"
                 PROVE  /\ checkpoint # Absent /\ IsPrefix(package.entries, Restored.entries)
                        /\ Len(Restored.entries) <= High(package) + 1
      OBVIOUS
    <3>1. checkpoint # Absent
      BY <2>1, DurableStoreAssumption DEF Creating, Places
    <3>2. Good(package) /\ Good(Restored) /\ Below(package, Restored) /\ High(Restored) <= High(package) + 1
      BY <2>1, <3>1 DEF Files, Chain, Memory
    <3> QED BY <3>1, <3>2, BelowIsPrefix DEF High
  <2> QED BY <2>2, <2>3, <2>4, <2>5 DEF CrashOracle, Durable
<1> QED
  BY Invariant, <1>1, PTL

-----------------------------------------------------------------------------
(* The store implements the log.                                           *)

LEMMA UnchangedFiles ==
  ASSUME UNCHANGED <<checkpoint, journal>>
  PROVE  Durable' = Durable
BY DEF Durable, Restored

(* A step is the one entry of a footer, one more reply, or a stutter. *)
LEMMA FooterPersists == ASSUME IInv, WriteFooter PROVE Log!Persist
<1>1. /\ checkpoint # Absent /\ checkpoint' = checkpoint /\ UNCHANGED acked
      /\ Restored = package /\ Restored' = prepared
      /\ High(prepared) = High(package) + 1 /\ Below(package, prepared)
  BY WriteFooterKeeps DEF WriteFooter
<1>2. Durable = package.entries /\ Durable' = prepared.entries
  BY <1>1 DEF Durable
<1>3. /\ package.entries \in Seq(Entries) /\ prepared.entries \in Seq(Entries)
      /\ Len(package.entries) = High(package) /\ Len(prepared.entries) = High(prepared)
  BY PackageParts DEF IInv, Memory, Good, High
<1> DEFINE e == prepared.entries[High(prepared)]
<1>4. e \in Entries /\ prepared.entries = Append(package.entries, e)
  BY <1>1, <1>3 DEF Below
<1>5. Entries = Log!Entries
  BY DEF Entries, Log!Entries
<1> QED BY <1>1, <1>2, <1>4, <1>5 DEF Log!Persist

LEMMA ReplyReports ==
  ASSUME IInv, pc \in {"idle", "before_ack"}, NEW n \in 1 .. High(package),
         acked' = acked \cup
           {[asked |-> n, receipt |-> [sequence |-> n, payload |-> package.entries[n].payload]]},
         UNCHANGED <<checkpoint, journal>>
  PROVE  Log!Report
<1>1. Restored = package /\ checkpoint # Absent
  BY DurableStoreAssumption DEF IInv, Creating, Places, Memory
<1>2. Durable = package.entries /\ Durable' = Durable
  BY <1>1, UnchangedFiles DEF Durable
<1>3. n \in 1 .. Len(Durable)
  BY <1>2 DEF High
<1> QED BY <1>2, <1>3 DEF Log!Report, Log!Reply

LEMMA AcknowledgeReports == ASSUME IInv, Acknowledge PROVE Log!Report
<1>1. PICK n \in 1 .. High(package) :
        answer = [asked |-> n, receipt |-> [sequence |-> n, payload |-> package.entries[n].payload]]
  BY DEF Acknowledge, IInv, Answering
<1> QED BY <1>1, ReplyReports DEF Acknowledge, disk

LEMMA LookupReports == ASSUME IInv, NEW s \in 1 .. CommitLimit, Lookup(s) PROVE Log!Report
<1>1. Good(package) /\ s \in Nat /\ InWindow(s)
  BY DurableStoreAssumption DEF IInv, Memory, Lookup
<1> QED BY <1>1, RetainedIsReport, ReplyReports DEF Lookup, Idle, disk

(* The other steps that write files leave what they say alone. *)
LEMMA CheckpointStutters == ASSUME IInv, ReplaceCheckpoint PROVE UNCHANGED <<Durable, acked>>
<1>1. /\ pc = "replace" /\ checkpoint' = scratch /\ UNCHANGED acked
      /\ Restored' = package /\ scratch # Absent
  BY ReplaceCheckpointKeeps DEF ReplaceCheckpoint, IInv, Places
<1>2. Durable' = package.entries
  BY <1>1 DEF Durable
<1>3. CASE checkpoint = Absent
  <2>1. package = EmptyPackage
    BY <1>1, <1>3 DEF IInv, Creating
  <2> QED BY <1>1, <1>2, <1>3, <2>1 DEF Durable, EmptyPackage
<1>4. CASE checkpoint # Absent
  BY <1>1, <1>2, <1>4 DEF IInv, Memory, Durable
<1> QED BY <1>3, <1>4

LEMMA JournalStutters ==
  ASSUME IInv,
         \/ ReclaimJournal \/ FlushBody \/ FlushFooter \/ TruncateTail
         \/ \E n \in 1 .. CommitLimit + 2 : WriteBody(n)
  PROVE  UNCHANGED <<Durable, acked>>
<1>1. checkpoint' = checkpoint /\ UNCHANGED acked
  BY DEF ReclaimJournal, FlushBody, FlushFooter, TruncateTail, WriteBody
<1>2. checkpoint # Absent /\ Restored' = Restored
  <2>1. CASE ReclaimJournal
    <3>1. Restored' = package /\ pc = "replaced"
      BY <2>1, ReclaimJournalKeeps DEF ReclaimJournal
    <3> QED BY <3>1 DEF IInv, Memory
  <2>2. CASE ~ReclaimJournal
    BY <2>2, FlushBodyKeeps, FlushFooterKeeps, TruncateTailKeeps, WriteBodyKeeps
  <2> QED BY <2>1, <2>2
<1> QED BY <1>1, <1>2 DEF Durable

LEMMA StepImplements == ASSUME IInv, [Next]_vars PROVE [Log!Next]_<<Durable, acked>>
<1>1. CASE WriteFooter
  BY <1>1, FooterPersists DEF Log!Next
<1>2. CASE Acknowledge \/ \E s \in 1 .. CommitLimit : Lookup(s)
  BY <1>2, AcknowledgeReports, LookupReports DEF Log!Next
<1>3. CASE ReplaceCheckpoint
  BY <1>3, CheckpointStutters
<1>4. CASE ReclaimJournal \/ FlushBody \/ FlushFooter \/ TruncateTail
           \/ \E n \in 1 .. CommitLimit + 2 : WriteBody(n)
  BY <1>4, JournalStutters
<1>5. CASE CreateJournal
  <2>1. checkpoint = Absent /\ checkpoint' = Absent /\ UNCHANGED acked
    BY <1>5 DEF CreateJournal, IInv, Places, Creating
  <2> QED BY <2>1 DEF Durable
<1>6. CASE \/ CreateDirectory \/ FinishCreate \/ OpenScratch \/ FlushScratch
           \/ \E n \in 1 .. CommitLimit + 2 : WriteScratch(n)
           \/ Compact \/ FinishCompact
           \/ \E s \in 1 .. CommitLimit, p \in Payloads, t \in Ticks : Apply(s, p, t)
           \/ Publish \/ \E s \in 1 .. CommitLimit, p \in Payloads : Retry(s, p)
           \/ Fail \/ Stop \/ Open \/ RemoveScratch \/ UNCHANGED vars
  <2>1. UNCHANGED <<checkpoint, journal, acked>>
    BY <1>6 DEF CreateDirectory, FinishCreate, OpenScratch, FlushScratch, WriteScratch, Compact,
         FinishCompact, Apply, Publish, Retry, Fail, Stop, Open, RemoveScratch, disk, vars
  <2> QED BY <2>1, UnchangedFiles
<1> QED
  BY <1>1, <1>2, <1>3, <1>4, <1>5, <1>6 DEF Next

(* world-crash_recovery and persistence.hpp: the files, as open() reads      *)
(* them, are a log that only grows by the entry being applied, and each      *)
(* receipt ever returned is the one of the entry the log has at that place.  *)
THEOREM StoreImplementsLog == Spec => ImplementsLog
<1>1. Init => Log!Init
  BY DEF Init, Log!Init, Durable
<1>2. IInv /\ [Next]_vars => [Log!Next]_<<Durable, acked>>
  BY StepImplements
<1> QED
  BY Invariant, <1>1, <1>2, PTL DEF Spec, ImplementsLog, Log!Spec
=============================================================================
