--------------------------- MODULE FileEventStore ---------------------------
(***************************************************************************)
(* `FileEventStore` (src/src/store/file.rs) and its frames (frame.rs): an  *)
(* in-memory store backed by a journal that several processes may try to   *)
(* open.  Any read, write, truncation or sync may fail, a process may die  *)
(* between any two of them, and the machine may lose power.                *)
(*                                                                         *)
(* The journal is a sequence of items: the file header, whole batch frames *)
(* and, at the end, what an interrupted write leaves.  A length counts     *)
(* items.  A frame's payload size is its number of events.                 *)
(***************************************************************************)
EXTENDS InMemoryStore, FiniteSetsExt

CONSTANTS
    Processes,
    Options,    \* the FileStoreOptions a process may open the journal with
    MaxBatch    \* bound: events of a batch

ASSUME FileAssumption ==
    /\ MaxBatch \in Nat \ {0}
    /\ None \notin Processes
    /\ Options \subseteq [recovery: {"Strict", "TruncatePartialTail"},
                          durability: {"Flush", "SyncData", "SyncAll"},
                          max_frame: Nat]

VARIABLES
    file,         \* the journal as processes see it (the operating system's cache)
    disk,         \* the journal a loss of power would leave
    lock,         \* the process that holds the advisory file lock, or None
    pc,           \* pc[p]: where process p is
    options,      \* options[p]: FileStoreOptions of p's open store
    inner,        \* inner[p]: p's InMemoryStore
    durable_len,  \* durable_len[p]: the length p believes the journal has
    pending,      \* pending[p]: the batch p has prepared and is writing
    acked,        \* history: the batches at the latest append that returned Ok
    secured,      \* history: the batches at the latest such append that synced
    lost_power    \* history: has power been lost yet?

process == <<pc, options, inner, durable_len, pending>>
history == <<acked, secured, lost_power>>
vars == <<file, disk, lock, process, history>>

-----------------------------------------------------------------------------
\* Items of a journal.
Header == [kind |-> "header", events |-> <<>>, size |-> 0]
Batch(events) == [kind |-> "batch", events |-> events, size |-> Len(events)]

\* A frame cut short; its length field is readable (size) or itself cut (0).
Torn(size) == [kind |-> "torn", events |-> <<>>, size |-> size]

\* Bytes that are no frame: a wrong marker, or a payload that fails the CRC.
Junk == [kind |-> "junk", events |-> <<>>, size |-> 1]

\* write_all at an offset: what lay behind it is overwritten, and stays
\* behind as rubble if it was longer.
WriteAt(f, len, item) ==
    LET replaced == {f[k].size : k \in (len + 1)..Len(f)}
    IN  SubSeq(f, 1, len) \o <<item>> \o
            (IF \E size \in replaced : size > item.size THEN <<Junk>> ELSE <<>>)

\* What a write that stops half-way can leave of an item.
Remains(item) == {Torn(0), Torn(item.size)}

\* The longest readable beginning of a journal for a frame limit.
ReadableLen(f, max_frame) ==
    Max({n \in 0..Len(f) :
            \A k \in 1..n : IF k = 1 THEN f[k] = Header
                            ELSE f[k].kind = "batch" /\ f[k].size <= max_frame})

\* The batches of the first n items, header excluded.
BatchesUpTo(f, n) ==
    LET frames == SubSeq(f, 2, n)
    IN  [k \in DOMAIN frames |-> frames[k].events]

\* All batches of a readable journal.
BatchesOf(f) == BatchesUpTo(f, ReadableLen(f, MaxBatch))

\* Mutant: a frame above the limit is taken for a partial tail.
ScanOversizePartial(f, max_frame) ==
    LET n == ReadableLen(f, max_frame)
    IN  [durable_len |-> n,
         events |-> FlattenSeq(BatchesUpTo(f, n)),
         outcome |-> IF n = 0 THEN "Err"
                     ELSE IF n = Len(f) THEN "Complete"
                     ELSE IF f[n + 1].kind \in {"torn", "batch"} THEN "PartialTail"
                     ELSE "Err"]

\* scan: the events of all frames up to the end of the file or a frame that
\* is cut short.  A frame above the limit, a wrong marker and a failed
\* checksum are errors, and so is a file header that is short or wrong.
Scan(f, max_frame) ==
    LET n == ReadableLen(f, max_frame)
    IN  [durable_len |-> n,
         events |-> FlattenSeq(BatchesUpTo(f, n)),
         outcome |-> IF n = 0 THEN "Err"
                     ELSE IF n = Len(f) THEN "Complete"
                     ELSE IF f[n + 1].kind = "torn" /\ f[n + 1].size <= max_frame
                     THEN "PartialTail"
                     ELSE "Err"]

-----------------------------------------------------------------------------
\* The operating system: a disk that trails the file.

CommonLen(d, f) == Max({n \in 0..Len(d) : n <= Len(f) /\ SubSeq(d, 1, n) = SubSeq(f, 1, n)})

\* What may be on disk after some of the changes since the last sync reached
\* it: everything both agree on, then part of the old or of the new content.
DiskImages(d, f) ==
    LET c == CommonLen(d, f)
        Cut(x) == {SubSeq(x, 1, n) : n \in c..Len(x)}
        Damaged(x) == UNION {{SubSeq(x, 1, n - 1) \o <<rest>> : rest \in Remains(x[n]) \cup {Junk}} :
                                n \in (c + 1)..Len(x)}
    IN  UNION {Cut(x) \cup Damaged(x) : x \in {d, f}}

\* Mutant: no durability setting syncs.
SyncedNever(p, f) == disk

\* sync: what is on disk once it returned Ok.
Synced(p, f) == IF options[p].durability = "Flush" THEN disk ELSE f

CanFailSync(p) == options[p].durability # "Flush"

NoOptions == [recovery |-> "Strict", durability |-> "SyncAll", max_frame |-> 0]

\* The file handle is dropped, by an error of open, a drop of the store or
\* the end of the process; the lock goes with it.
Close(p) ==
    /\ lock' = None
    /\ pc' = [pc EXCEPT ![p] = "closed"]
    /\ options' = [options EXCEPT ![p] = NoOptions]
    /\ inner' = [inner EXCEPT ![p] = EmptyStore]
    /\ durable_len' = [durable_len EXCEPT ![p] = 0]
    /\ pending' = [pending EXCEPT ![p] = <<>>]

Goto(p, place) == pc' = [pc EXCEPT ![p] = place]

-----------------------------------------------------------------------------
Init ==
    /\ file = <<>> /\ disk = <<>>
    /\ lock = None
    /\ pc = [p \in Processes |-> "closed"]
    /\ options = [p \in Processes |-> NoOptions]
    /\ inner = [p \in Processes |-> EmptyStore]
    /\ durable_len = [p \in Processes |-> 0]
    /\ pending = [p \in Processes |-> <<>>]
    /\ acked = <<>> /\ secured = <<>>
    /\ lost_power = FALSE

\* Mutant: open ignores the outcome of try_lock.
OpenNoLock(p, o) ==
    /\ pc[p] = "closed"
    /\ lock' = p
    /\ options' = [options EXCEPT ![p] = o]
    /\ Goto(p, IF file = <<>> THEN "new" ELSE "scan")
    /\ UNCHANGED <<file, disk, inner, durable_len, pending, history>>

\* open, to the test of the length.  With the lock taken it returns
\* ExternalModification before it looks at the file.
Open(p, o) ==
    /\ pc[p] = "closed"
    /\ lock = None
    /\ lock' = p
    /\ options' = [options EXCEPT ![p] = o]
    /\ Goto(p, IF file = <<>> THEN "new" ELSE "scan")
    /\ UNCHANGED <<file, disk, inner, durable_len, pending, history>>

\* An empty file gets its header, which is synced.
WriteHeader(p) ==
    /\ pc[p] = "new"
    /\ \/ /\ file' = <<Header>>
          /\ disk' = Synced(p, file')
          /\ Goto(p, "scan")
          /\ UNCHANGED <<lock, options, inner, durable_len, pending>>
       \/ /\ file' \in {<<>>, <<Torn(0)>>}
          /\ UNCHANGED disk
          /\ Close(p)
       \/ /\ CanFailSync(p)
          /\ file' = <<Header>>
          /\ UNCHANGED disk
          /\ Close(p)
    /\ UNCHANGED history

\* scan, and restore of what it read; or the errors of scan.
ScanJournal(p) ==
    LET scan == Scan(file, options[p].max_frame)
        restored == Restore(scan.events)
    IN  /\ pc[p] = "scan"
        /\ IF scan.outcome = "Complete" /\ restored # None
           THEN /\ inner' = [inner EXCEPT ![p] = restored]
                /\ durable_len' = [durable_len EXCEPT ![p] = scan.durable_len]
                /\ Goto(p, "open")
                /\ UNCHANGED <<lock, options, pending>>
           ELSE /\ ~(scan.outcome = "PartialTail" /\ options[p].recovery = "TruncatePartialTail")
                /\ Close(p)
        /\ UNCHANGED <<file, disk, history>>

\* TruncatePartialTail: set_len and sync, then restore; any of them can fail.
TruncatePartialTail(p) ==
    LET scan == Scan(file, options[p].max_frame)
        restored == Restore(scan.events)
    IN  /\ pc[p] = "scan"
        /\ scan.outcome = "PartialTail"
        /\ options[p].recovery = "TruncatePartialTail"
        /\ \/ /\ file' = SubSeq(file, 1, scan.durable_len)
              /\ disk' = Synced(p, file')
              /\ IF restored # None
                 THEN /\ inner' = [inner EXCEPT ![p] = restored]
                      /\ durable_len' = [durable_len EXCEPT ![p] = scan.durable_len]
                      /\ Goto(p, "open")
                      /\ UNCHANGED <<lock, options, pending>>
                 ELSE Close(p)
           \/ /\ CanFailSync(p)
              /\ file' = SubSeq(file, 1, scan.durable_len)
              /\ UNCHANGED disk
              /\ Close(p)
           \/ /\ UNCHANGED <<file, disk>>
              /\ Close(p)
        /\ UNCHANGED history

Batches == UNION {[1..n -> EventIds] : n \in 1..MaxBatch}

\* Mutant: no length guard.
CanPersistNoGuard(p, s, expected, ids) ==
    /\ CanPrepare(inner[p], s, expected, ids)
    /\ Len(ids) <= options[p].max_frame

\* What append and persist require before the first byte is written.  A call
\* that fails one of the tests returns an error and changes nothing; an empty
\* batch returns Ok and changes nothing.
CanPersist(p, s, expected, ids) ==
    /\ CanPrepare(inner[p], s, expected, ids)
    /\ Len(file) = durable_len[p]
    /\ Len(ids) <= options[p].max_frame

\* append (all three forms) and persist, to the end of write_all.
WriteBatch(p, s, expected, ids) ==
    LET committed == PrepareAppend(inner[p], s, ids)
        item == Batch(committed)
    IN  /\ pc[p] = "open"
        /\ CanPersist(p, s, expected, ids)
        /\ \/ /\ file' = WriteAt(file, durable_len[p], item)
              /\ pending' = [pending EXCEPT ![p] = committed]
              /\ Goto(p, "written")
           \/ /\ file' \in {file} \cup {WriteAt(file, durable_len[p], rest) : rest \in Remains(item)}
              /\ Goto(p, "rollback")
              /\ UNCHANGED pending
        /\ UNCHANGED <<disk, lock, options, inner, durable_len, history>>

\* Mutant: the length of the journal is not advanced.
CommitBatchStaleLen(p) ==
    /\ pc[p] = "written"
    /\ disk' = Synced(p, file)
    /\ inner' = [inner EXCEPT ![p] = CommitPrepared(@, pending[p])]
    /\ pending' = [pending EXCEPT ![p] = <<>>]
    /\ Goto(p, "open")
    /\ acked' = Append(BatchesUpTo(file, durable_len[p]), pending[p])
    /\ secured' = IF options[p].durability = "Flush" THEN secured ELSE acked'
    /\ UNCHANGED <<file, lock, options, durable_len, lost_power>>

\* sync returned Ok: the length advances, the in-memory store commits, and
\* the caller is told.
CommitBatch(p) ==
    /\ pc[p] = "written"
    /\ disk' = Synced(p, file)
    /\ durable_len' = [durable_len EXCEPT ![p] = @ + 1]
    /\ inner' = [inner EXCEPT ![p] = CommitPrepared(@, pending[p])]
    /\ pending' = [pending EXCEPT ![p] = <<>>]
    /\ Goto(p, "open")
    /\ acked' = Append(BatchesUpTo(file, durable_len[p]), pending[p])
    /\ secured' = IF options[p].durability = "Flush" THEN secured ELSE acked'
    /\ UNCHANGED <<file, lock, options, lost_power>>

\* Mutant: the in-memory store commits before the sync, and stays so.
SyncFailsCommitted(p) ==
    /\ pc[p] = "written"
    /\ CanFailSync(p)
    /\ inner' = [inner EXCEPT ![p] = CommitPrepared(@, pending[p])]
    /\ pending' = [pending EXCEPT ![p] = <<>>]
    /\ Goto(p, "rollback")
    /\ UNCHANGED <<file, disk, lock, options, durable_len, history>>

SyncFails(p) ==
    /\ pc[p] = "written"
    /\ CanFailSync(p)
    /\ pending' = [pending EXCEPT ![p] = <<>>]
    /\ Goto(p, "rollback")
    /\ UNCHANGED <<file, disk, lock, options, inner, durable_len, history>>

\* rollback_tail: set_len and sync, either of which may fail.  The append
\* returns an error in every case and the store stays usable.
RollbackTail(p) ==
    /\ pc[p] = "rollback"
    /\ \/ /\ file' = SubSeq(file, 1, durable_len[p])
          /\ disk' = Synced(p, file')
       \/ /\ CanFailSync(p)
          /\ file' = SubSeq(file, 1, durable_len[p])
          /\ UNCHANGED disk
       \/ UNCHANGED <<file, disk>>
    /\ Goto(p, "open")
    /\ UNCHANGED <<lock, options, inner, durable_len, pending, history>>

\* The process ends, or drops the store.
Kill(p) ==
    /\ pc[p] # "closed"
    /\ Close(p)
    /\ UNCHANGED <<file, disk, history>>

\* Cached changes reach the disk, in part, in their own time.
Writeback ==
    /\ disk # file
    /\ disk' \in DiskImages(disk, file)
    /\ UNCHANGED <<file, lock, process, history>>

\* The machine stops: processes end, the cache is gone.
LosePower ==
    /\ file' = disk
    /\ lock' = None
    /\ pc' = [p \in Processes |-> "closed"]
    /\ options' = [p \in Processes |-> NoOptions]
    /\ inner' = [p \in Processes |-> EmptyStore]
    /\ durable_len' = [p \in Processes |-> 0]
    /\ pending' = [p \in Processes |-> <<>>]
    /\ acked' = secured
    /\ lost_power' = TRUE
    /\ UNCHANGED <<disk, secured>>

ProcessStep(p) ==
    \/ \E o \in Options : Open(p, o)
    \/ WriteHeader(p)
    \/ ScanJournal(p)
    \/ TruncatePartialTail(p)
    \/ \E s \in Streams, ids \in Batches : WriteBatch(p, s, AnyVersion, ids)
    \/ CommitBatch(p)
    \/ SyncFails(p)
    \/ RollbackTail(p)
    \/ Kill(p)

Next ==
    \/ \E p \in Processes : ProcessStep(p)
    \/ Writeback
    \/ LosePower

Spec == Init /\ [][Next]_vars

-----------------------------------------------------------------------------
Item == [kind: {"header", "batch", "torn", "junk"}, events: Seq(StoredEvent), size: 0..MaxBatch]

Running == {"open", "written", "rollback"}

\* Types of the file, of every process and of the histories; the events of a
\* frame are numbered as the store numbers them.
TypeOK ==
    /\ file \in Seq(Item) /\ disk \in Seq(Item)
    /\ lock \in Processes \cup {None}
    /\ pc \in [Processes -> Running \cup {"closed", "new", "scan"}]
    /\ options \in [Processes -> Options \cup {NoOptions}]
    /\ inner \in [Processes -> Store]
    /\ durable_len \in [Processes -> Nat]
    /\ pending \in [Processes -> Seq(StoredEvent)]
    /\ acked \in Seq(Seq(StoredEvent)) /\ secured \in Seq(Seq(StoredEvent))
    /\ lost_power \in BOOLEAN

\* The memory of a running store is what the journal says: the beginning of
\* the file that its writer accounts for is a header and whole frames, and
\* restoring their events gives exactly the in-memory store, after every
\* append, failed append, rollback and recovery.
MemoryMatchesJournal ==
    \A p \in Processes : pc[p] \in Running =>
        /\ durable_len[p] <= ReadableLen(file, MaxBatch)
        /\ inner[p] = Restore(FlattenSeq(BatchesUpTo(file, durable_len[p])))

\* Nothing acknowledged is lost: the acknowledged batches head the journal in
\* order, whatever fails afterwards; and after SyncData or SyncAll they head
\* every image a loss of power could leave.
AcknowledgedKept ==
    /\ IsPrefix(acked, BatchesOf(file))
    /\ IsPrefix(secured, BatchesOf(disk))

\* What is readable also restores: no crash, rollback or lost suffix leaves
\* complete frames with a gap, a repeated identifier or a wrong version.
JournalRestores ==
    \A f \in {file, disk} : Restore(FlattenSeq(BatchesOf(f))) # None

\* Failures of processes and of single calls never damage the journal: until
\* power is lost, TruncatePartialTail opens it, unless the file header itself
\* was never completed.
ReopensUnlessPowerLost ==
    lost_power \/ file \in {<<>>, <<Torn(0)>>} \/ Scan(file, MaxBatch).outcome # "Err"

Abstract == INSTANCE DurableLog WITH log <- BatchesOf(file)

\* The file store implements the durable log: batches appear whole, failed
\* appends take back only their own batch, power loss takes only what was
\* never synced.
ImplementsDurableLog == Abstract!Spec

=============================================================================
