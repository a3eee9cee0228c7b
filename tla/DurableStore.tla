---------------------------- MODULE DurableStore ----------------------------
(***************************************************************************)
(* The crash-recoverable store: a checkpoint file, a scratch file for its  *)
(* successor and a journal of full-prefix frames, driven by one owner that *)
(* creates, opens, applies, looks up and compacts.  The owner's process    *)
(* may be killed between any two I/O calls and inside a write, and any I/O *)
(* call may fail.  A kill keeps what was written (the store's contract is  *)
(* process termination, not power loss).                                   *)
(* Source: src/src/persistence.cpp, src/src/persistence_io.cpp.            *)
(*                                                                         *)
(* Data abstractions.  A request is a member of Payloads; the Coordinator  *)
(* may refuse any of them, which changes nothing.  A frame of n entries is *)
(* n + 2 units long, the last of them its footer (digest and end magic).   *)
(* The World is the function of the entries that decode() rebuilds.        *)
(***************************************************************************)
EXTENDS Integers, Sequences, FiniteSets, SequencesExt

CONSTANTS
  CommitLimit,    \* commit_limit
  ReceiptLimit,   \* receipt_limit
  Quota,          \* Config::byte_quota, in units
  Payloads,       \* canonical commands
  Ticks,          \* boundary ticks
  Absent,         \* a file that does not exist
  None            \* no call, no receipt

Entries == [payload : Payloads, tick : Ticks]
Receipts == [sequence : 1 .. CommitLimit, payload : Payloads]
Replies == [asked : 1 .. CommitLimit, receipt : Receipts]
Packages == [entries : SeqOf(Entries, CommitLimit), receipts : SeqOf(Receipts, ReceiptLimit)]
EmptyPackage == [entries |-> <<>>, receipts |-> <<>>]

High(package) == Len(package.entries)
LowMark(high) == IF high > ReceiptLimit THEN high - ReceiptLimit + 1 ELSE 1
Low(package) == LowMark(High(package))

FooterSize == 1
FrameSize(package) == High(package) + 1 + FooterSize
BodySize(package) == FrameSize(package) - FooterSize

(* A file's image of a frame: the bytes written, and those known flushed. *)
Frames == [package : Packages, bytes : 0 .. CommitLimit + 2, flushed : 0 .. CommitLimit + 2]
NewFrame(package) == [package |-> package, bytes |-> 0, flushed |-> 0]
Complete(frame) == frame.bytes = FrameSize(frame.package)

(* Absent is no file's contents and None no call's name. *)
ASSUME DurableStoreAssumption ==
  /\ CommitLimit \in Nat
  /\ ReceiptLimit \in Nat \ {0}
  /\ Quota \in Nat
  /\ Ticks \subseteq Nat
  /\ Absent \notin Frames \cup Seq(Frames)
  /\ None \notin {"create", "open", "apply", "compact"}

VARIABLES
  directory,     \* the store's directory exists
  checkpoint,    \* checkpoint.bin: Absent or a frame
  scratch,       \* checkpoint.tmp: Absent or a frame
  journal,       \* journal.bin: Absent or a sequence of frames
  task,          \* the call in progress
  pc,            \* where it stands
  package,       \* Impl::package, in memory
  prepared,      \* Observer::prepared_
  answer,        \* the reply about to be returned
  acked          \* history: every reply with a receipt, over all processes

disk == <<directory, checkpoint, scratch, journal>>
memory == <<package, prepared, answer>>
vars == <<directory, checkpoint, scratch, journal, task, pc, package, prepared, answer, acked>>

-----------------------------------------------------------------------------
(* Packages: what encode() writes and decode() accepts.                    *)

Extended(base, payload, tick) ==
  LET receipts == Append(base.receipts, [sequence |-> High(base) + 1, payload |-> payload]) IN
  [entries  |-> Append(base.entries, [payload |-> payload, tick |-> tick]),
   receipts |-> IF Len(receipts) > ReceiptLimit THEN Tail(receipts) ELSE receipts]

Decodes(p) ==
  /\ High(p) <= CommitLimit
  /\ \A i \in 2 .. High(p) : p.entries[i].tick >= p.entries[i - 1].tick
  /\ p.receipts = [i \in 1 .. High(p) - Low(p) + 1 |->
                     [sequence |-> Low(p) + i - 1,
                      payload  |-> p.entries[Low(p) + i - 1].payload]]

-----------------------------------------------------------------------------
(* What Store::open makes of the files.                                    *)

(* The frames left of a journal when its torn tail is dropped. *)
Torn(frames) == frames # <<>> /\ ~Complete(Last(frames))
WholeFrames(frames) == IF Torn(frames) THEN Front(frames) ELSE frames

(* File::flush of the journal. *)
Flushed(frames) ==
  [i \in 1 .. Len(frames) |-> [frames[i] EXCEPT !.flushed = frames[i].bytes]]

(* No check of open() fails: a torn frame only at the tail, every frame     *)
(* decodable, highs consecutive from at most one past the checkpoint's,     *)
(* every package a prefix of the later ones.                                *)
Readable ==
  /\ directory
  /\ checkpoint # Absent /\ Complete(checkpoint) /\ Decodes(checkpoint.package)
  /\ journal # Absent
  /\ \A i \in 1 .. Len(journal) - 1 : Complete(journal[i])
  /\ LET whole == WholeFrames(journal)
         selected == checkpoint.package
     IN /\ \A i \in 1 .. Len(whole) :
             LET found == whole[i].package IN
             /\ Decodes(found)
             /\ High(found) > 0
             /\ IF i = 1 THEN High(found) <= High(selected) + 1
                ELSE /\ High(found) = High(whole[i - 1].package) + 1
                     /\ IsPrefix(whole[i - 1].package.entries, found.entries)
             /\ IF High(found) <= High(selected) THEN IsPrefix(found.entries, selected.entries)
                                                 ELSE IsPrefix(selected.entries, found.entries)

(* The package adopted: the last whole frame's when it is ahead of the      *)
(* checkpoint, else the checkpoint's.                                       *)
Restored ==
  LET whole == WholeFrames(journal) IN
  IF whole # <<>> /\ High(Last(whole).package) > High(checkpoint.package)
  THEN Last(whole).package
  ELSE checkpoint.package

Bytes(file) == IF file = Absent THEN 0 ELSE file.bytes
Written(frames) ==
  LET sizes == [i \in 1 .. Len(frames) |-> frames[i].bytes]
  IN SumFunctionOnSet(sizes, 1 .. Len(frames))
BytesUsed ==
  Bytes(checkpoint) + Bytes(scratch) + (IF journal = Absent THEN 0 ELSE Written(journal))

WithinQuota(added) == BytesUsed + added <= Quota

-----------------------------------------------------------------------------
Init ==
  /\ directory = FALSE
  /\ checkpoint = Absent /\ scratch = Absent /\ journal = Absent
  /\ task = None /\ pc = "down"
  /\ package = EmptyPackage /\ prepared = EmptyPackage /\ answer = None
  /\ acked = {}

Idle == pc = "idle"
Return == task' = None /\ pc' = "idle"

(* Store::create, up to the checkpoint it shares with compact. *)
CreateDirectory ==
  /\ pc = "down" /\ ~directory
  /\ directory' = TRUE
  /\ task' = "create" /\ pc' = "create_journal"
  /\ package' = EmptyPackage
  /\ UNCHANGED <<checkpoint, scratch, journal, prepared, answer, acked>>

CreateJournal ==
  /\ pc = "create_journal"
  /\ WithinQuota(FrameSize(package))
  /\ journal' = <<>>
  /\ pc' = "open_scratch"
  /\ UNCHANGED <<directory, checkpoint, scratch, task, memory, acked>>

FinishCreate ==
  /\ task = "create" /\ pc = "replaced"
  /\ Return
  /\ UNCHANGED <<disk, memory, acked>>

-----------------------------------------------------------------------------
(* Impl::checkpoint: write, flush and verify the scratch file, rename it.   *)

OpenScratch ==
  /\ pc = "open_scratch"
  /\ scratch' = NewFrame(package)
  /\ pc' = "write_scratch"
  /\ UNCHANGED <<directory, checkpoint, journal, task, memory, acked>>

WriteScratch(n) ==
  /\ pc = "write_scratch"
  /\ n > scratch.bytes /\ n <= FrameSize(package)
  /\ scratch' = [scratch EXCEPT !.bytes = n]
  /\ pc' = IF n = FrameSize(package) THEN "flush_scratch" ELSE pc
  /\ UNCHANGED <<directory, checkpoint, journal, task, memory, acked>>

FlushScratch ==
  /\ pc = "flush_scratch"
  /\ scratch' = [scratch EXCEPT !.flushed = scratch.bytes]
  /\ pc' = "replace"
  /\ UNCHANGED <<directory, checkpoint, journal, task, memory, acked>>

(* Seeded fault: the scratch file is dropped instead of renamed. *)
ReplaceCheckpointDropping ==
  /\ pc = "replace"
  /\ scratch.package = package /\ Complete(scratch)
  /\ scratch' = Absent
  /\ pc' = "replaced"
  /\ UNCHANGED <<directory, checkpoint, journal, task, memory, acked>>

ReplaceCheckpoint ==
  /\ pc = "replace"
  /\ scratch.package = package /\ Complete(scratch)
  /\ checkpoint' = scratch
  /\ scratch' = Absent
  /\ pc' = "replaced"
  /\ UNCHANGED <<directory, journal, task, memory, acked>>

(* Seeded fault: the quota is not checked before the scratch file. *)
CompactUnchecked ==
  /\ Idle
  /\ task' = "compact" /\ pc' = "open_scratch"
  /\ UNCHANGED <<disk, memory, acked>>

(* Store::compact. *)
Compact ==
  /\ Idle
  /\ WithinQuota(FrameSize(package))
  /\ task' = "compact" /\ pc' = "open_scratch"
  /\ UNCHANGED <<disk, memory, acked>>

ReclaimJournal ==
  /\ task = "compact" /\ pc = "replaced"
  /\ journal' = <<>>
  /\ pc' = "reclaimed"
  /\ UNCHANGED <<directory, checkpoint, scratch, task, memory, acked>>

FinishCompact ==
  /\ pc = "reclaimed"
  /\ Return
  /\ UNCHANGED <<disk, memory, acked>>

-----------------------------------------------------------------------------
(* Store::apply_await_durable.                                             *)

(* The request is the next one and may be executed. *)
Admits(sequence, tick) ==
  /\ sequence = High(package) + 1
  /\ High(package) < CommitLimit
  /\ package.entries # <<>> => tick >= Last(package.entries).tick

(* Admitted, staged by the Coordinator, prepared and within quota: the      *)
(* journal is about to be appended to.                                      *)
Apply(sequence, payload, tick) ==
  /\ Idle
  /\ Admits(sequence, tick)
  /\ prepared' = Extended(package, payload, tick)
  /\ WithinQuota(FrameSize(prepared'))
  /\ task' = "apply" /\ pc' = "write_body"
  /\ UNCHANGED <<disk, package, answer, acked>>

Reply(sequence, receipt) == [asked |-> sequence, receipt |-> receipt]


WriteBody(n) ==
  LET written == IF Torn(journal) THEN Last(journal).bytes ELSE 0 IN
  /\ pc = "write_body"
  /\ n > written /\ n <= BodySize(prepared)
  /\ journal' = Append(WholeFrames(journal), [NewFrame(prepared) EXCEPT !.bytes = n])
  /\ pc' = IF n = BodySize(prepared) THEN "flush_body" ELSE pc
  /\ UNCHANGED <<directory, checkpoint, scratch, task, memory, acked>>

FlushBody ==
  /\ pc = "flush_body"
  /\ journal' = Flushed(journal)
  /\ pc' = "write_footer"
  /\ UNCHANGED <<directory, checkpoint, scratch, task, memory, acked>>

WriteFooter ==
  /\ pc = "write_footer"
  /\ journal' = [journal EXCEPT ![Len(journal)].bytes = FrameSize(prepared)]
  /\ pc' = "flush_footer"
  /\ UNCHANGED <<directory, checkpoint, scratch, task, memory, acked>>

FlushFooter ==
  /\ pc = "flush_footer"
  /\ journal' = Flushed(journal)
  /\ pc' = "publish"
  /\ UNCHANGED <<directory, checkpoint, scratch, task, memory, acked>>

(* The World is swapped and Observer::publish swaps the packages; the       *)
(* receipt was built by prepare.                                            *)
Publish ==
  /\ pc = "publish"
  /\ package' = prepared
  /\ prepared' = EmptyPackage
  /\ answer' = Reply(High(prepared), Last(prepared.receipts))
  /\ pc' = "before_ack"
  /\ UNCHANGED <<disk, task, acked>>

Retained(sequence) == package.receipts[sequence - Low(package) + 1]
InWindow(sequence) == Low(package) <= sequence /\ sequence <= High(package)

(* A retry of an executed request, found by its payload in the entries. *)
Retry(sequence, payload) ==
  /\ Idle
  /\ InWindow(sequence)
  /\ package.entries[sequence].payload = payload
  /\ answer' = Reply(sequence, Retained(sequence))
  /\ task' = "apply" /\ pc' = "before_ack"
  /\ UNCHANGED <<disk, package, prepared, acked>>

Acknowledge ==
  /\ pc = "before_ack"
  /\ acked' = acked \cup {answer}
  /\ answer' = None
  /\ Return
  /\ UNCHANGED <<disk, package, prepared>>

(* Store::lookup. *)
Lookup(sequence) ==
  /\ Idle
  /\ InWindow(sequence)
  /\ acked' = acked \cup {Reply(sequence, Retained(sequence))}
  /\ UNCHANGED <<disk, memory, task, pc>>

-----------------------------------------------------------------------------
(* Failures, kills and recovery.                                           *)

(* An I/O call (or the hook) failed after the files were touched: the store *)
(* is sealed and the call reports OUTCOME_UNKNOWN.  In an idle store it is  *)
(* notify_acknowledged that failed.                                         *)
Fail ==
  /\ task \in {"apply", "compact"} \/ Idle
  /\ task' = None /\ pc' = "sealed"
  /\ prepared' = EmptyPackage /\ answer' = None
  /\ UNCHANGED <<disk, package, acked>>

(* The process ends, or the Store is destroyed, or create() or open()      *)
(* throws: memory and the lock are gone, the files stay as they are.       *)
Stop ==
  /\ pc # "down"
  /\ task' = None /\ pc' = "down"
  /\ package' = EmptyPackage /\ prepared' = EmptyPackage /\ answer' = None
  /\ UNCHANGED <<disk, acked>>

(* Seeded fault: the journal is never consulted. *)
OpenCheckpointOnly ==
  /\ pc = "down"
  /\ Readable
  /\ WithinQuota(0)
  /\ package' = checkpoint.package
  /\ task' = "open" /\ pc' = "truncate"
  /\ UNCHANGED <<disk, prepared, answer, acked>>

(* Store::open: validate everything, then repair. *)
Open ==
  /\ pc = "down"
  /\ Readable
  /\ WithinQuota(0)
  /\ package' = Restored
  /\ task' = "open" /\ pc' = "truncate"
  /\ UNCHANGED <<disk, prepared, answer, acked>>

TruncateTail ==
  /\ pc = "truncate"
  /\ journal' = IF Torn(journal) THEN Flushed(Front(journal)) ELSE journal
  /\ pc' = "remove_scratch"
  /\ UNCHANGED <<directory, checkpoint, scratch, task, memory, acked>>

RemoveScratch ==
  /\ pc = "remove_scratch"
  /\ scratch' = Absent
  /\ Return
  /\ UNCHANGED <<directory, checkpoint, journal, memory, acked>>

-----------------------------------------------------------------------------
Next ==
  \/ CreateDirectory \/ CreateJournal \/ FinishCreate
  \/ OpenScratch \/ FlushScratch \/ ReplaceCheckpoint
  \/ \E n \in 1 .. CommitLimit + 2 : WriteScratch(n) \/ WriteBody(n)
  \/ Compact \/ ReclaimJournal \/ FinishCompact
  \/ \E s \in 1 .. CommitLimit, p \in Payloads, t \in Ticks : Apply(s, p, t)
  \/ FlushBody \/ WriteFooter \/ FlushFooter \/ Publish
  \/ \E s \in 1 .. CommitLimit, p \in Payloads : Retry(s, p)
  \/ Acknowledge
  \/ \E s \in 1 .. CommitLimit : Lookup(s)
  \/ Fail \/ Stop
  \/ Open \/ TruncateTail \/ RemoveScratch

Spec == Init /\ [][Next]_vars

-----------------------------------------------------------------------------
(* Properties.                                                             *)

(* Every variable has its type; the window never exceeds receipt_limit. *)
TypeOK ==
  /\ directory \in BOOLEAN
  /\ \A file \in {checkpoint, scratch} : file = Absent \/ file \in Frames
  /\ journal = Absent \/ \A i \in 1 .. Len(journal) : journal[i] \in Frames
  /\ task \in {None, "create", "open", "apply", "compact"}
  /\ pc \in {"down", "idle", "sealed", "create_journal", "open_scratch", "write_scratch",
             "flush_scratch", "replace", "replaced", "reclaimed", "write_body", "flush_body",
             "write_footer", "flush_footer", "publish", "before_ack", "truncate",
             "remove_scratch"}
  /\ package \in Packages /\ prepared \in Packages
  /\ answer \in Replies \cup {None}
  /\ acked \subseteq Replies

(* What a recovery would find: nothing before create() made a checkpoint. *)
Durable == IF checkpoint = Absent THEN <<>> ELSE Restored.entries

(* The store implements the log: the files, read as open() reads them, only *)
(* ever gain the one entry being applied (at the byte that completes its    *)
(* frame), through every compaction, crash and repair, and each receipt     *)
(* returned for a sequence, fresh, retried or looked up, before or after a  *)
(* restart, is the one of the entry the log has at that sequence.           *)
Log == INSTANCE DurableLog WITH log <- Durable
ImplementsLog == Log!Spec

(* Once create() has put a checkpoint in place, no state that calls, kills  *)
(* and failures leave behind is refused by open(), neither as corrupt nor   *)
(* for its quota (which counts the scratch file and the torn tail).         *)
AlwaysRecoverable == checkpoint # Absent => Readable /\ WithinQuota(0)

(* A kill at any point of a call is recovered as the oracle of              *)
(* world-crash_recovery says: the earlier prefix until the footer is        *)
(* written, the prepared one from then on; outside apply the owner's view   *)
(* is what the files hold.  A sealed store's view may be one entry short.   *)
CrashOracle ==
  /\ (task \in {"create", "compact", "open"} \/ Idle \/ pc = "before_ack")
       => checkpoint = Absent \/ Durable = package.entries
  /\ pc \in {"write_body", "flush_body", "write_footer"} => Durable = package.entries
  /\ pc \in {"flush_footer", "publish"} => Durable = prepared.entries
  /\ pc = "sealed" => /\ IsPrefix(package.entries, Durable)
                      /\ Len(Durable) <= High(package) + 1

(* WORLD_MODEL.md line 69: durable_revision is reported only once the       *)
(* record of that commit has been flushed.                                  *)
RecordFlushed(n) ==
  \/ High(checkpoint.package) >= n
  \/ \E i \in 1 .. Len(journal) :
       High(journal[i].package) = n /\ journal[i].flushed = FrameSize(journal[i].package)

ReportedIsFlushed == Idle => \A n \in 1 .. High(package) : RecordFlushed(n)

=============================================================================
