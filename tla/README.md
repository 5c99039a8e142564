# A TLA+ model of weavatrix-memory

`weavatrix-memory` is an event-sourced temporal memory: events are appended to a
store, a projection is built by replaying them, snapshots of the projection are
saved so that a restart needs only the tail, and subscriptions follow the log.
This project models the parts that write state or that must agree with each
other after failures, checks them with TLC on small instances and proves the
safety properties with TLAPS for instances of any size: those of stores,
subscriptions, the projection, replay, snapshots and their recovery, and those of
extraction and of the contexts compiled from what it records.

Paths such as `store/file.rs` below are relative to `src/src/`. PROJECT.json maps
every definition to the lines it models.

## The system

| Component | State | Operations | Interacts with | Hard behaviour | Correct when |
| --- | --- | --- | --- | --- | --- |
| In-memory store (`store/in_memory`) | events, stream index, identifier set | append (3 forms), load_stream, load_all, stream_version, restore | every other part reads it; the file store embeds it | optimistic concurrency; incremental indexes | positions and versions gapless, ids unique, no lost update, restore accepts what append wrote |
| File store (`store/file.rs`, `frame.rs`) | journal file, lock, cached length, in-memory store | open (lock, header, scan, recovery), append, rollback | operating system; other processes | torn writes, failing sync, failing rollback, death, power loss | memory equals journal, acknowledged batches survive, batches whole |
| Subscription (`store/subscription.rs`) | checkpoint, delivered bound | new, poll, acknowledge | a store; the host that saves the checkpoint | stale acknowledgements, restarts | nothing skipped, everything acknowledged in the end |
| Projection (`projection/memory`) | nodes with revisions, facts, supersessions, retractions, lookups, incident index | apply, view_ref, rebuild_indexes | replay, snapshots, context compiler | index kept in two parts; two time axes | indexes exact, views closed, the past stable |
| Identifier index (`projection/memory/index.rs`) | entries, collision buckets | get, insert | projection | fingerprint collisions | it is a map |
| Replay (`projection/replay.rs`) | cursor | replay, replay_owned, replay_tracked, resume | store, projection, snapshots | wrong or overlapping tails | resume equals replay, only exact tails accepted |
| Snapshot stores (`snapshot`) | directory of generations, temporary files | save, load_latest | replay; other stores on the directory | races of stores, failing clean-up, death, power loss, process-id reuse | generations whole and immutable, latest never older, retries not obstructed |
| Compact codec (`snapshot/compact`) | - | encode, decode | snapshot store | rebuilds indexes and re-validates | decode accepts every replayed projection |
| Bulk projection (`projection/memory/parts.rs`) | as projection | try_from_parts | host | threads | equals the projection of the same facts |
| Context (`context`) | - | compile, fuse_retrieval, compile_with_retrieval | projection | depth and budget bounds, scope, ties | complete within depth and scope, within budget, independent of the order of answers |
| Extraction (`extraction`) | entity catalog of a linker | link, plan, plan_with_linker | projection, store | ambiguity, repeated extraction, an outdated catalog | links never guessed, plans replay, no entity created twice |
| Codecs, analytics, graph projection, evaluation, ids, errors | - | pure functions | - | - | - |

All rows but the last are modelled, the codec in part; PROJECT.json gives the
reason for what is not. "hazards" there lists what is hard to
test in this code, at the line where it bites, with the property that covers it.

## Modules

| Module | Models |
| --- | --- |
| `Optional`, `Iterators` | `Option` and its order; `filter` |
| `InMemoryStore` | the store as a record and its pure steps, shared by everything that embeds it |
| `EventStore` | clients that share an in-memory store |
| `CatchUpSubscription` | a subscription, its producer and its host |
| `DurableLog` | what a durable log promises (abstract) |
| `FileEventStore` | journal, lock, processes, operating system; implements `DurableLog` |
| `MemoryProjection` | the projection as a record: apply, decode, queries |
| `ReplayCursor` | the cursor and which event it takes next |
| `ProjectionReplay` | a host that records, resumes and reloads |
| `SnapshotGenerations` | what a snapshot store promises; also `InMemorySnapshotStore` |
| `FileSnapshotStore` | stores on one directory; implements `SnapshotGenerations` |
| `ProjectionParts` | the bulk construction and its threads |
| `IdIndex` | the fingerprint index |
| `Recovery` | composes `FileEventStore`, `CatchUpSubscription` and `ReplayCursor`: one host and what it keeps outside the journal |
| `Ordering` | sets as sorted sequences; the stable sort |
| `EntityLinker`, `Extraction` | the decision for a mention; the plan for a source |
| `Retrieval`, `ContextCompiler` | rank fusion; the bundle for a request |
| `AgentMemory` | composes `InMemoryStore`, `MemoryProjection`, `Extraction` and `ContextCompiler`: sources go in, contexts come out |
| `InMemoryStoreProofs` | induction over the natural numbers; lemmas about the store's steps, `Filtered`, `FlattenSeq` and `Restore` |
| `MemoryProjectionProofs` | lemmas about the projection's steps, its queries and the rebuilt indexes |
| `EventStoreProofs`, `CatchUpSubscriptionProofs`, `FileEventStoreProofs` (with `Recovery`), `FileSnapshotStoreProofs` | theorems of the modules they are named for |
| `ProjectionProofs` | theorems of `ProjectionReplay`, `ProjectionParts` and `IdIndex` |
| `AgentMemoryProofs` | theorems of `AgentMemory`, with lemmas about linker, plan, neighbourhood, selection and fusion |
| `MC*` | constants for TLC |

### State and actions against the code

*EventStore.* `store` is the struct with its three fields, zero-based positions
included. `AppendEvents` is the whole of `append`: the expectation and identifier
checks, the numbering of the batch and the commit. The three append forms differ
only in what they clone. `Refresh` is `load_stream` after the last version a
client has seen. `writes` and `bases` are histories for the properties. A
rejected call changes nothing and is a stutter.

*FileEventStore.* The journal is a sequence of items: header, whole frame, cut
frame, rubble. `file` is what processes see, `disk` what a loss of power leaves.
The calls of `open` and `append` are split at the operating system's calls:
`Open` (lock, length), `WriteHeader`, `ScanJournal`, `TruncatePartialTail`, then
`WriteBatch` (guards, write_all), `CommitBatch` (sync Ok, length, memory, answer)
or `SyncFails`, and `RollbackTail`. Every one of these calls may fail, `Kill`
may happen between any two, `Writeback` lets cached changes reach the disk in
part, `LosePower` drops the cache. The frame size is the number of events, so
`max_frame` limits it as `max_frame_bytes` does.

*CatchUpSubscription.* `Poll`, `Acknowledge` and `Restart` are `poll`,
`acknowledge` and `new`. The host may acknowledge every position; `Accepts` is
the code's range. `Save` is the host's own persistence of `checkpoint()`.

*MemoryProjection and ProjectionReplay.* The projection has the fields of the
struct, with the compressed part and the delta of the incident index kept apart.
Maps are total functions with None. The content of a node is the position of the
event that wrote it. `Record` appends an event and resumes with it; `Reload`
passes the projection through the codec, which keeps the canonical fields and
rebuilds the rest with all checks of `rebuild_indexes` and `validate_changes`.
The test of `require_zero_start` in `validate_next` never decides anything: an
empty cursor expects position 0 either way; it is part of `ValidNext` in that
sense.

*FileSnapshotStore.* `Begin`, `Create`, `Write`, `Rename` are `save` split at its
file operations; `Fail` is any error with the drop of `TempGuard`. `Create` on a
name that exists is an error whose guard removes that file, as in the code. The
guard ignores the error of its removal, so `DropGuard` may leave the file, which
is then marked `stuck`. `FoundFree` is `final_path.exists()`, which is also false
when the metadata of a generation cannot be read; `blind` counts those cases.
The directory is never synced. A file is whole or not and synced or not;
`earlier[p]` holds what the renames to a position replaced, and `unsettled` the
temporary names that were created or removed, since the last loss of power.
`LosePower` may bring any of them back. Process ids are reused after a death.
`SnapshotGenerations` says what remains: a published generation is replaced only
by a save that did not see it (`SaveBlind`), and taken away, or exchanged for one
it had replaced, only by a loss of power.

*ProjectionParts.* `Call` is `try_from_parts` up to the start of the threads,
`Prepare(c)` the whole of one thread (threads share nothing they write), `Join`
the ordered join and all that follows. With one worker the code prepares in line;
that is the case of one chunk. `ChunkFacts` stands for 16 384 facts.

*IdIndex.* The fingerprint function is a constant, so every pattern of collisions
is covered; the real 64-bit function is one of its values.

*Recovery.* One process over the file store of `FileEventStore`, all its failures
included. `Poll`, `Acknowledge` and `Save` are those of `CatchUpSubscription`
over the store's memory. `CatchUp` is `load_latest`, `load_all` behind the cursor
and `resume`; `SaveSnapshot` is `save`. `Forget` is what a death or an error of
the store takes: afterwards the subscription starts from the saved checkpoint and
the projection from the latest snapshot. A projection is the sequence of events
applied to it, which is enough to tell whether it belongs to the journal.
A loss of power may take snapshots with it (their directory is never synced); the
checkpoint is the host's and is taken as safe, the harder case for the property.

*EntityLinker and Extraction.* A linker is the nodes of a view. `Matches` lists
what `collect_candidates` looks up, in its order, with the code's scores in basis
points; `AddCandidate` keeps the best per entity. `Buildable` is the error of
`from_view` for a malformed alias. `BuildPlan` is `build_plan` with
the merge of mentions that create the same entity. None is an error of the whole
plan. A hash is the tuple of what is hashed, so hashes do not collide; a text has
its normal form as its only structure, and is malformed or not (`Malformed`). Of
the free attributes of a mention those that a linker reads are kept: external
identifiers and the attributes `alias.i`, which a listed alias with the same
number overwrites. That two mentions which would be merged differ in another
attribute, an error of the plan, is left out.

*Retrieval and ContextCompiler.* Pure functions of the projection. `SortBy` is
`sort_by`, which is stable; the providers' names are checked where
`validate_providers` is called. `Neighborhood`
runs the queue of the code, one `VisitNode` per turn; `SelectFact` is one turn of
the selection. What a text costs is a parameter, the sums and surcharges of
`node_tokens` and `fact_tokens` are the code's.

*AgentMemory.* `BuildLinker` is `EntityLinker::from_view` on the current view; if
that is an error the host keeps the linker it has.
`Extract` is `plan_with_linker` and, in `Commit`, `append` of the plan as one
batch and `apply` of its events. As a linker is rebuilt only by `BuildLinker`,
plans of a batch run share one that is outdated from the second plan on. The
content of a node stands in the log at the position the projection keeps.

## Runs

| Run | Shows | Bounds | States |
| --- | --- | --- | --- |
| `event_store` | StoreWellFormed, RestoreRoundTrip, ViewsArePrefixes, NoLostUpdate, BatchesStayCommitted | 2 clients, 2 streams, 3 ids, 3 appends, batches of 0-2 | 4 643 |
| `subscription` | NothingSkipped, SavedCheckpointMonotone, EverythingAcknowledged | 5 events, polls of 2, 2 restarts | 11 391 |
| `file_store` | MemoryMatchesJournal, AcknowledgedKept, JournalRestores, ReopensUnlessPowerLost, ImplementsDurableLog | 2 processes, 3 ids, batches of 1-2, 3 sets of options | 20 520 |
| `projection` | SnapshotsTransparent, ResumeIsExact, IndexesExact, ReplacementHidesPrior, ViewsAreClosed, PastViewsStable | 2 nodes, 3 facts, 5 events, 2 times | 37 213 |
| `snapshot_store` | GenerationsWhole, OnlyFaultsLeaveTemps, RetriesUnobstructed, LatestNeverOlder, ImplementsGenerations | 3 stores in 2 processes, 2 positions, 2 snapshots, 3 saves, 2 deaths or losses, 1 generation not seen | 360 632 |
| `bulk_projection` | BulkEqualsReload, BulkAgreesWithReplay, BulkReplacementHidesPrior, IndexIsMap | 2 nodes, lists of up to 3 facts, 1-3 threads; 4 identifiers, 3 of which collide, 3 values | 59 766 |
| `recovery` | CheckpointBacked, SnapshotsBacked | 1 host, 2 events, batches of 1-2, polls of 1, with sync and with Flush | 185 223 |
| `agent_memory` | CommittedPlansReplay, NoEntityCreatedTwice, LinksUnambiguous, ContextComplete, BudgetHonoured, RetrievalStable | 4 sources in 5 extractions, 6 entities, 7 events, 3 policies, 2 times, 9 requests, 2 queries, 5 answers | 2 693 |
| `bulk_cycles` | BulkAcceptsOnlyChains is violated | as `bulk_projection` | - |
| `projection_past` | CorrectionsKeepThePast is violated | as `projection` | - |
| `snapshot_race` | NeverOverwritten is violated | 2 stores, 1 position | - |
| `linker_alias` | LinkersCanBeBuilt is violated | 2 sources, one with a padded alias attribute | - |

The modules with several pieces of state also have a type invariant; that of the
subscription is proved and not checked by its run. Every property of a passing run has a mutant in PROJECT.json: a plausible bug in the
code (a dropped guard, an off by one, a wrong order) with which the property
fails.

Why the bounds are enough to be of use:

- *event_store*: a lost update needs two clients and one stream, an index error a
  second stream and a batch of two behind an earlier event; a third append checks
  that what the second one left is a good starting point.
- *subscription*: five events give two full polls and a rest; two restarts give a
  restart after a restart with different saved checkpoints.
- *file_store*: behaviours are not bounded in length. A process may fail, roll
  back, die, reopen with other options and lose power again and again; only the
  number of distinct identifiers limits the log, to three events in one to three
  frames. One process that holds the lock and one that wants it are all the lock
  distinguishes. The options include the strict default, recovery with sync and
  recovery with Flush and a smaller frame limit than the journal was written with.
- *projection*: two nodes and five events allow a revision, a self-loop, a
  supersession of a supersession, two retractions, facts recorded before their
  time and times that run backwards, with a reload anywhere between.
- *snapshot_store*: two stores of one process share its counter, the third has
  its own. Three saves (`MaxSaves`) are enough for two that race for a position,
  or one that replaces a generation it does not see, with a third behind them;
  two deaths or losses of power (`MaxKills`) for a save that meets a reused name
  and then loses power; a save fails, and its removal, as often as it likes. One
  generation that is not seen (`MaxBlind`) is already followed by all of that.
- *bulk_projection*: three facts in chunks of one to three give uneven chunks and
  every order of three threads; the facts contain a chain, a fork, a cycle and a
  prior that comes after its replacement; the node lists an absent and a repeated
  node. The identifier index runs beside the construction in the same module,
  one of the two at a time; three identifiers with one fingerprint reach the
  entry, the bucket and a second place in the bucket.
- *recovery*: two events are enough for a checkpoint or a snapshot that lies ahead
  of the journal, over it, or behind it; failures, deaths and losses of power are
  not bounded. States in which the exception has happened are not continued
  (the constraint `Claimed`), as both properties claim nothing there.
- *agent_memory*: the sources are chosen so that every kind of link occurs, and
  ambiguity, both errors of the linker, merged mentions, rejected relations, an
  entity written twice with different kinds and a relation that turns into a
  self-loop; the policies with a margin and with none, so that equals tie; the
  requests so that facts are excluded by scope, omitted for the
  budget with a cheaper one taken behind them, and found two steps away; the
  answers with entities tied in score, unknown ones and a provider named twice,
  one of them in three orders of providers and hits and on three scales.

`snapshot_store` and `agent_memory` run without deadlock check because the number
of names and the length of the log are bounded. All others are checked for
deadlock and have none.

### Checkpoints and snapshots against the journal

Nothing in the code compares a checkpoint or a snapshot cursor with the journal.
`CheckpointBacked` and `SnapshotsBacked` show when that is safe: always, except
after a loss of power at a time when the store showed events that were not on
disk. There are two such times: after a commit with `Durability::Flush`, and,
with every durability, after a restart that restored a whole frame which the
process before it had written and not synced, because `open` syncs only what it
truncates itself. After such a loss `poll` and `resume` take the new events at
the old positions for ones they have seen.

### Repeated extraction

`plan` promises an "idempotent event plan". What holds is `NoEntityCreatedTwice`
and `CommittedPlansReplay`: a retry with a fresh linker creates no entity and
whatever is committed replays. A retry need not be the same plan, though. It
fails with a collision of the generated identifier if a mention is too uncertain
to be linked to the entity it has created itself, and it may add a fact under a
new identifier if a mention is now linked elsewhere, by a hint or by an entity
that the first plan created. Plans of one reused linker do not see each other: the
second one to create an entity writes a new revision of it, with its own kind,
label and aliases, and the catalog of the next linker knows only those.

### Ambiguous links

The margin a link must keep may be zero in a policy. Then two entities that
deserve the same score are both within the margin, and the smaller identifier is
linked, in whatever order the indexes list them. `LinksUnambiguous` says so; with
a positive margin equals are never linked.

### Linkers and alias attributes

Validation of what a provider returns reads the listed aliases and the values of
the external identifiers. The value of an attribute such as `alias.1` is read by
nobody until a linker is built of the view that shows the node, and then a
malformed one is an error of `from_view`, for that view and all later ones. So
`NoEntityCreatedTwice` speaks of a retry only where linkers can be built, and the
main run has alias attributes but no malformed ones; `linker_alias` has one.

### Contexts

`BudgetHonoured` is exact except for self-loops: the code lists both endpoints
of a fact as missing, so a self-loop on a node that is not selected is charged
for that node twice. The budget still holds, but `estimated_tokens` of the
receipt is then more than the bundle costs, and a fact may be left out that
would have fitted. The property therefore measures what would still fit by the
receipt. A retrieved entity that is visible but out of scope fails the whole
call as a missing entity, while one that is not visible is dropped.

### Fairness

Only `EverythingAcknowledged` is a liveness property. It assumes a host that
keeps polling (weak fairness of `Poll`) and among whose acknowledgements is again
and again one for the last event it was handed (strong fairness, as every empty
poll or acknowledgement disables it for a while). That is the loop the API is
made for: poll, handle, acknowledge. The producer, the saves and the restarts
are under no obligation. The other components only react to calls, so there is
nothing the code's own scheduling would guarantee.

### What the four violations mean

- `projection_past`: the code keeps one retraction per fact. A second retraction
  replaces the first together with its recording time, so a view with a `known_at`
  between the two shows the fact as valid again, although the README of the
  repository says that a correction does not rewrite what was known. With at
  most one retraction per fact and times in order, `PastViewsStable` holds.
- `snapshot_race`: `save` tests whether the generation exists and renames later.
  Two stores can pass the test for one position, and the later rename replaces a
  generation that was already visible, although the README says generations are
  never overwritten. `ImplementsGenerations` shows what does hold: once no save
  of a position is in flight, its generation stays while power stays on and its
  metadata can be read. The second condition is another way to the same
  violation, without a race: `Path::exists` is false on an error, so a store that
  cannot read the metadata of a generation writes its own over it.
- `linker_alias`: a mention with the attribute `alias.1` set to a padded text is
  planned, stored and applied without an error. Every later `from_view` of a view
  with that node fails, and with it `plan` for every source, although `plan`
  documents that it rejects invalid provider output.
- `bulk_cycles`: `try_from_parts` looks priors up among all facts of the call, so
  two facts may replace each other, and both disappear from the views. Replay
  accepts no order of such facts, and the doc comment of the function says that
  invalid supersession chains are rejected. What replay accepts, the bulk
  construction accepts with the same facts, supersessions and nodes
  (`BulkAgreesWithReplay`, which does not compare indexes; that those are the ones
  a decode builds, in the order of the facts, is `BulkEqualsReload`).

## Proofs

| Theorem | Says | Rests on |
| --- | --- | --- |
| `EventStoreProofs!TypeCorrect` | `[]TypeOK` | the invariant of the module: a typed, well-formed store; every write readable where it was placed and directly behind what its author had loaded; every client's view a beginning of its stream |
| `EventStoreProofs!StoreAlwaysWellFormed` | `[]StoreWellFormed` | the same; positions, stream index sound and complete, identifiers unique |
| `EventStoreProofs!RestoreRoundTrips` | `[]RestoreRoundTrip` | `RestoreIdentity`: a well-formed store is the restoration of its events |
| `EventStoreProofs!ViewsAlwaysPrefixes` | `[]ViewsArePrefixes` | `LoadStreamRest`: a load after a cursor is the rest of the stream |
| `EventStoreProofs!NoUpdateLost` | `[]NoLostUpdate` | `Grounded`: an append with an expectation lies directly behind its author's view |
| `EventStoreProofs!CommittedBatchesStay` | `[]BatchesStayCommitted` | `WriteReadable` |
| `CatchUpSubscriptionProofs!TypeCorrect`, `NoEventSkipped` | `[]TypeOK`, `[]NothingSkipped` | delivered positions cover everything up to the delivered bound, every checkpoint and every saved checkpoint |
| `CatchUpSubscriptionProofs!SavedNeverMovesBack` | `SavedCheckpointMonotone` | the saved checkpoint is at most the checkpoint |
| `FileEventStoreProofs!InvHolds`, `TypeCorrect` | the inductive invariant and `[]TypeOK` | see below |
| `FileEventStoreProofs!OneWriter` | at most one process is past `open` | whoever is not closed holds the lock |
| `FileEventStoreProofs!MemoryAlwaysMatchesJournal` | `[]MemoryMatchesJournal` | memory is the restore of the first `durable_len` items, which are readable |
| `FileEventStoreProofs!AcknowledgedAlwaysKept` | `[]AcknowledgedKept` | acknowledged frames head the file, secured ones the disk |
| `FileEventStoreProofs!JournalAlwaysRestores` | `[]JournalRestores` | what a restorable journal is cut to is restorable, and so is what a prepared batch extends it to |
| `FileEventStoreProofs!AlwaysReopensUnlessPowerLost` | `[]ReopensUnlessPowerLost` | until power is lost, only the last item of the file can be torn |
| `FileEventStoreProofs!FileImplementsDurableLog` | `ImplementsDurableLog` | every step of the invariant's states maps to a step of the log or to none |
| `ProjectionProofs!IndexAlwaysMap` | `[]IndexIsMap` | an identifier is in its fingerprint's entry or at exactly one place of the bucket, never in both, and a bucket is empty while its entry is |
| `FileSnapshotStoreProofs!SnapshotTypeAlwaysOK` | `[]TypeOK` | saves in flight have a position, bytes and a name |
| `FileSnapshotStoreProofs!GenerationsAlwaysWhole` | `[]GenerationsWhole` | names in flight are distinct and a temporary file past its sync is whole |
| `FileSnapshotStoreProofs!TempsLeftOnlyByFaults` | `[]OnlyFaultsLeaveTemps` | before any death or loss, a temporary file is stuck or its save is in flight |
| `FileSnapshotStoreProofs!RetriesNeverObstructed` | `[]RetriesUnobstructed` | before any death or loss, every temporary file has a number below the counter of its process, and no two saves in flight have one name |
| `FileSnapshotStoreProofs!LatestIsNeverOlder` | `LatestNeverOlder` | generations are bounded, so the latest exists, and without a loss of power none disappears |
| `FileSnapshotStoreProofs!DirectoryImplementsGenerations` | `ImplementsGenerations` | a rename publishes the bytes of a save in flight and remembers what it replaces; a torn generation has none in flight, and what may come back is what was there before |
| `ProjectionProofs!ReplayInvariant`, `TypeCorrect` | `[]ReplayInv`, `[]TypeOK` | see below |
| `ProjectionProofs!SnapshotsAreTransparent` | `[]SnapshotsTransparent` | `apply` asks only for what the codec keeps (`AlikeStep`), so two projections with the same content stay alike |
| `ProjectionProofs!ResumesOnlyTheContinuation` | `[]ResumeIsExact` | the cursor after k events expects position k |
| `ProjectionProofs!IndexesAreExact` | `[]IndexesExact` | `Listed`: rebuilt part and delta of a node together are its facts in order |
| `ProjectionProofs!ReplacementHides` | `[]ReplacementHidesPrior` | a supersession carries the times of the fact that made it |
| `ProjectionProofs!ViewsClosed` | `[]ViewsAreClosed` | as many visible nodes as nodes means that none is hidden |
| `ProjectionProofs!PastViewsAreStable` | `[]PastViewsStable` | what comes later in a log with times in order changes nothing a view of an earlier time reads |
| `FileEventStoreProofs!HostInvariant` | `[]HostInv` | `InvHolds` of the file store, see below |
| `FileEventStoreProofs!CheckpointsAreBacked` | `[]CheckpointBacked` | the part of the journal the host rests on covers every checkpoint |
| `FileEventStoreProofs!SnapshotsAreBacked` | `[]SnapshotsBacked` | that part begins with every snapshot and the host's projection |
| `ProjectionProofs!PartsInvariant` | `[]PartsInv` | what a finished call returns is a function of its arguments, see below |
| `ProjectionProofs!BulkReloads` | `[]BulkEqualsReload` | the checks of a decode hold of what the bulk construction accepts, and both build the same lookups and the same index |
| `ProjectionProofs!BulkReplacementHides` | `[]BulkReplacementHidesPrior` | every supersession carries the times of the one fact of the list that made it |
| `ProjectionProofs!BulkFollowsReplay` | `[]BulkAgreesWithReplay` | a replay of the list reaches, fact by fact, the fields the bulk construction computes at once |
| `AgentMemoryProofs!AgentInvariant` | `[]AgentInv` | see below |
| `AgentMemoryProofs!CommittedPlansAlwaysReplay` | `[]CommittedPlansReplay` | `AgentInv` says it: every event of a plan is accepted in its turn |
| `AgentMemoryProofs!EntitiesNeverCreatedTwice` | `[]NoEntityCreatedTwice` | what a plan of the current catalog creates is not in the catalog; after the commit it is (`CommitCarries`), so a retry creates nothing (`RetryCreatesNothing`) |
| `AgentMemoryProofs!LinksAlwaysUnambiguous` | `[]LinksUnambiguous` | the best match of every node has the score the node deserves, and the decision compares exactly those |
| `AgentMemoryProofs!ContextsAlwaysComplete` | `[]ContextComplete` | the invariant of the breadth-first search |
| `AgentMemoryProofs!BudgetAlwaysHonoured` | `[]BudgetHonoured` | `Chosen`: the sums of what is chosen so far |
| `AgentMemoryProofs!RetrievalAlwaysStable` | `[]RetrievalStable` | a sorted list is determined by its elements (`ListsEqual`), and an increasing change of scores by what it does to single hits (`SameHitsMapped`) |

Every line starts with `Spec =>` (`RecoverySpec =>` for the host, `PartsSpec =>`
for the bulk construction, `IndexSpec =>` for the identifier index) and holds
for every value of the constants that satisfies the assumptions below.

*Induction over data.* The library's induction theorems take the property as an
operator, which the provers cannot instantiate. `InMemoryStoreProofs` states
induction for sets of numbers instead: a property is the set of the numbers that
have it. With it the module shows that the recursive functions behind `Restore` and
`Filtered` exist and what they compute (`FilteredEnumerates`, `RestoreSound`,
`RestoreIdentity`, `EventsDetermineStore`), for logs of any length. For this the
two are recursive functions and not folds with an operator argument, and so are
the queue and the selection of the compiler.

*Event store.* `StoreWellFormed` is nearly inductive once it is typed: the
version `prepare_append` gives a batch is read from the last event of the stream,
so one has to know that the index entry at k is the event with version k - 1
(`NextVersionIsLength`), and for that the index must be sound and complete at the
same time. `PreparedBatch`, `CommittedStore` and `CommitWellFormed` are stated for
any well-formed store record; the subscription and the file store use them too.

*File store.* None of its properties is inductive alone. The invariant says of
the file and of the disk that each is a journal (frames as the writer builds
them, of which the readable ones restore) and that the acknowledged and the
secured batches head them (`FileOK`); of the lock that whoever is not closed
holds it (`Locked`); and of the process behind it that the part of the file up to
its length is readable, holds what was acknowledged and restores to its memory,
and that a batch between write and sync is the last item and restores to what a
commit would leave (`ProcessOK`). The hard steps are those where the two images
differ: a write-back of part of a change, a loss of power, and a rollback whose
truncation reached the file and not the disk. Each of them is a cut or an
extension of a journal, and `CutTo` shows that a cut journal restores to a
beginning of what it did before. The refinement maps the log to the readable
batches of the file.

*Identifier index.* `IndexIsMap` needs the third part of its invariant for the
last case of `insert`: with no entry for the fingerprint the code still looks
into the bucket, and the proof shows that it can find nothing there.

*Snapshot directory.* `GenerationsWhole` is not inductive because a rename
publishes whatever has the temporary name, and a loss of power brings back what
had the name before. The invariant says the same of every file of `earlier`,
and adds that a temporary file belongs to a save in flight or is one whose
removal failed (`stuck`), and that its name carries a counter value below the
current one of its process: a retry takes a later name, which is why
a failed removal never stands in the way (`RetriesUnobstructed`). Both hold up
to the first death: the next process may get the same id and starts to count
from zero again, so that it can meet what the dead one left. `GenerationsWhole`
does not depend on it, because `create_new` refuses a name that is taken and all
saves of a process end with it.

*Projection and replay.* A projection is `Sound` if it is typed, its two lookups
find every node and fact at its place and nothing else, every fact's endpoints
exist, and every supersession and retraction belongs to a fact with the times the
code copied. That is what `Consistent` tests at a decode, so the codec rejects no
sound projection. It is `Listed` if the rebuilt part and the delta of the incident
index together hold exactly the facts of every node, in order. `apply` keeps both
(`ApplySound`); a decode produces both, which is the correctness of the counting
sort: by induction over the facts placed so far, the cursor of a node stands at
its offset plus the number of its facts among them, so no two nodes share a cell
and the ranges between the offsets are filled in order. `ReplayInv` says that the
store is well-formed (`LogSound`, with the lemmas of `InMemoryStoreProofs`), that
every prefix of the log replays to a sound projection whose cursor fits the prefix
(`Replayed`), and that
the host's projection is sound, listed and has the content of the whole replay
(`LiveSound`). The last part cannot be an equation: after a reload the two differ
in how the incident index is divided, so the proofs compare what
`Canonical` keeps. The theorem about the past compares the replay of a prefix with
the replay of the whole log, node by node, fact by fact and change by change:
later revisions are not known yet, later facts are not recorded yet, and a
supersession or retraction that the prefix has is never replaced. The last holds
for retractions only if no fact is retracted twice, which is where
`projection_past` finds its counterexample.

*Recovery.* Neither property is inductive: the journal does not say how much of it
the host has seen, and a rollback or a loss of power may take the rest. `HostInv`
adds to the file store's invariant that there is a number of items the host rests
on (`Rests`). The running store accounts for them and shows exactly their events,
so a rollback keeps them; unless `unsynced`, disk and file agree on them, so a
write-back and a loss of power keep them; and their events cover the checkpoint,
the delivered bound and the saved checkpoint, and begin with every projection.
`HostAdvances` goes through the steps of the store once and shows what they have
in common: they keep those items, and where they publish events they leave them
on disk or are noted as unsynced. A poll returns what directly follows the
checkpoint and `CatchUp` what directly follows the cursor, which is where
`LoadAllRest` is used again.

*Bulk construction.* The properties speak of finished calls only, so `PartsInv`
has to carry the threads' work to the join: the chunks, joined, are the facts of
the call (the arithmetic of `div_ceil` and of the last, shorter chunk), a thread
that has ended has prepared exactly its chunk, and a finished call has returned
`Built`, which mentions neither chunks nor threads. The rest is about `Built`. If
it is no error the call is `Buildable`: distinct nodes, distinct facts that can
be prepared, priors that are facts of the list, no prior twice. `SupersedeAll` is
followed by induction over the facts (`Linking`: the supersessions so far are
those of the facts so far and carry their times). Then `BuiltFields` gives every
field in closed form, `BuiltReloads` shows that a decode computes the same ones,
with the correctness of the counting sort from `MemoryProjectionProofs`, and
`ReplayIsBuilt` that a replay of acceptable facts has reached after k facts what
the closed form says of the first k. A replay accepts less, since a prior has to
come before its replacement; the converse of `BulkAgreesWithReplay` is what
`bulk_cycles` refutes.

*Extraction.* `AgentInv` says that the projection tracks the log: it is sound,
listed and what a replay of the log gives; that the log holds only events as plans
make them, with typed content and identifiers the store knows (`Recorded`); that
the linker, however old, has only nodes that the projection knows, each once; and
that no entity was created twice while no outdated linker was used. That a linker
is a catalog is not part of it, as nothing keeps a host from using an old one.
The work is in the lemmas. `BestMatches` keeps per node the maximum of
what its lookups say, so the order of the lookups does not matter, and `Decide`
reads the lead of the first off that. `BuildPlan` creates the entities it links to
and nothing else, its node events come before the facts, and the facts'
identifiers tell sources, relations and endpoints apart. So `Accepts` holds for
each event of a batch that `CanPrepare` takes: the endpoints are nodes of an old
catalog, which no step removes, or created by the plan, and a fact recorded before
would have had an event identifier that the store rejects. For a retry, the lemmas
follow each created mention to the new catalog (`CommitCarries`): its node has its
label and kind and deserves at least the score a label gives, or the mention is
too uncertain for any link and its identifier exists.

*Contexts.* The code's queue is compared with `Within`, which knows no queue.
`Searched` says that what is known is in scope, at a distance within which the
reference reaches it; `Ordered` that the queue goes from near to far and spans two
depths at most; `Examined` that of every node that has left the queue every
incident fact was looked at, with what follows for its other end. An entity
enters the queue once, so it is empty after as many turns as there are entities,
and then the three give the equalities of `ContextComplete`: by induction over the
depth, whatever the reference reaches is known at no greater distance.

*Budget.* The sums are `SumFunction` over sets that grow one element at a time,
which do not depend on the order they are added in (induction over the
cardinality). `Chosen` says what the first k candidates have
led to: what was taken costs no more than `used`, exactly that without self-loops,
and what was left out would not fit: it may cost less later, when one of its
nodes has been taken, but by no more than `used` has grown.

*Retrieval.* Two answers are compared if there is any pairing of their providers
and of these providers' hits that keeps names, entities, channels and which of two
scores is greater. `SortBy` arranges a sequence whatever the order of equal
elements (`SortedArranges`), and two lists of one set in one strict order are equal
(`ListsEqual`). Deduplication leaves, of a provider's hits, the set `Best`, which
does not mention their order. A pairing of hits is a map between the sets of hits,
repeated hits or not, and the map keeps `HitBefore` (`SameHitsMapped`). So the
other provider gives the same entities at the same ranks, and its contributions
differ in `raw_score` at most (`Alike`). Valid providers have different names, so
sorting puts any list of them in the same order; the flattened contributions are
alike, and the ranking reads nothing in which they differ.

Assumptions of the proofs: `None` is no integer, no store, no process, no pair
of the index, no file, no fact identifier, no list of endpoints and no part of a
projection; there are finitely many entities; the host of a recovery is one of
the processes and the only one that runs; the calls of the bulk construction are
lists of nodes and facts, chunks hold at least one fact and there is at least
one thread; the inputs of the host are memory events; positions and bounds are
natural numbers, a poll returns at least one event and a batch may hold one;
options have the fields of `FileStoreOptions`; fingerprints are a function of
the identifier; the identifiers of entities are numbers, those of an
extraction's facts and entities are among the identifiers, and no link decision
is `None`; confidences and policies are in basis points; there is a latest of
finitely many recording times; the estimator knows every text of the extractions
and gives natural numbers, and facts have different places in the order of their
hashes; requests and queries are typed and the answers of providers are
sequences of hits. TLC evaluates them in the runs.

Only model-checked: `EverythingAcknowledged`, which is liveness and out of the
prover's reach; and the three violations, which need a counterexample and no
proof. Every other property of a run is a theorem.

## What is assumed and left out

- A sync that returns Ok makes the whole file durable; what an operating system
  does with cached pages after a failed sync is not modelled beyond "any part may
  or may not be on disk". `SyncData` and `SyncAll` are the same for the journal.
  The directory entry of the journal itself is taken as durable.
- Writers that ignore the advisory lock are outside the model, so the length
  guard is exercised by failed rollbacks only.
- Live processes have different process ids.
- A loss of power undoes any of the changes to the snapshot directory, each name
  for itself; that a file system orders them is not assumed. An error of
  `exists()` is the only way a save misses a generation, and a removal that fails
  leaves the file as it is.
- Events that `apply` rejects for what these modules leave out are not inputs: an
  `event_type` that is not the payload's, a fact whose agent or session is not its
  event's, a fact observed after it was recorded. The extraction plans none.
- The projection's modules leave out text, evidence and attributes; a fact carries
  its relation and confidence. `AgentMemory` adds what linking and contexts read of
  a node: label, kind, aliases, external identifiers, repository and branch. Inputs that
  the validation of texts rejects are not inputs of the models. The equality of a
  fact's `recorded_at` with its event's is kept.
- The hosts of `ProjectionReplay` commit only events their projection accepts.
  The store itself takes any payload, and a rejected one stops every later
  replay; `CommittedPlansReplay` shows that the extraction engine never plans one.
- 64-bit hashes of the extraction do not collide. A collision of two generated
  entity identifiers is an error in the code, one of two facts makes the log
  unreplayable.
- Extraction and retrieval providers are external: any answer from a small set,
  the same source twice with different results. A provider that fails fails the
  call, which changes nothing.
- A fact hides the one it supersedes, not the one before that, as in the code: if
  the middle fact is not valid at a time, the first hides by its own supersession
  only from the middle one's valid_from on.
- Overflow of 64-bit positions and versions ends in `CapacityOverflow` and is
  beyond every bound.

## Not modelled

- Storage codecs (`codec`): framing around LZ4 and XChaCha20-Poly1305; what could
  go wrong is in the libraries or in byte arithmetic.
- The byte level of the compact codec: varints, zigzag and string lengths are
  sequential code over 64-bit words, outside TLC's integers and well within reach
  of round-trip tests.
- Analytics (`analytics`): four read-only reports, each a filter, a grouping and a
  score over one projection; nothing depends on them.
- Graph projection and evaluation: a conversion into a type of another crate and
  a benchmark harness.
- Identifiers, errors and validation of texts.

## Plan

1. Done: store, subscription, file store, projection, replay, bulk construction,
   snapshots, index; the recovery composition; linker, extraction, retrieval,
   contexts and their composition.
2. Done: theorems for the store, the subscription, the file store with its
   refinement, the identifier index, the snapshot directory with its refinement,
   the projection, its replay and its snapshots, the bulk construction, the
   recovery composition, and extraction, contexts and retrieval.
3. Open: the codec below the canonical fields, and failing providers.
