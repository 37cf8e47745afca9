# A TLA+ verification project for Yuclase

Yuclase is a message queue server in Go: topics are append-only logs on disk,
consumers have offsets, clients speak a line protocol over TCP. This directory
holds TLA+ models of its core, TLC configurations that check them on small
instances, and TLAPS proofs of the results that matter most. Paths below are
relative to `src/`.

## 1. Inventory

| Part | Source | State | Operations | Correct means |
|---|---|---|---|---|
| Log | `pkg/storage/log.go` | segment files; `segmentIndex`, `currentSize`, `file`, `writer` | Append, Read, ReadFrom, Sync, Close, rotation, ListSegments, DeleteSegment | an acknowledged message stays whole, at its offset, and can be read from there |
| Index | `pkg/storage/index.go` | sorted `entries`, `dirty`, `index.idx` | AddEntry, three lookups, Sync, Close, load, Rebuild | sorted; a map; lookups agree with a scan; clean implies saved |
| Catalog | `pkg/storage/catalog.go` | `consumers`, `dirty`, `consumers.json` | Update/Get/CommitOffset, removal, Sync, Close, Reset, Import, load | a replacement of the file that is interrupted leaves the old map or the new one; clean implies saved |
| Topic | `pkg/queue/topic.go` | one of each of the above, `mu`, `closed` | Enqueue, Dequeue, UpdateConsumerOffset, Sync, Close, Delete, CleanupOldMessages | each consumer gets every message once, in order, also over restarts |
| Queue | `pkg/queue/queue.go` | `topics`, `mu`, `closed`, cleanup goroutine | operations by topic name, CreateTopic, DeleteTopic, Sync, Close, Reset, periodic cleanup | one Topic per name; no use after Close; every call returns |
| PollingConsumer | `pkg/queue/consumer.go` | its own `offset`, two channels, a goroutine | Start, Stop, CommitOffset, SetOffset, seeks, polling | passes on every message once, whatever the application does during a poll; Stop ends the goroutine |
| Server | `internal/network/server.go`, `cmd/main.go` | `clients`, a WaitGroup, a context | accept, one handler per connection, Stop | one answer per command; the queue is closed after the last handler; Stop ends |
| Go client, CLI | `internal/network/client.go`, `cmd/cli` | one socket | Connect, a command and its answer, Disconnect | the answer of a command is returned for it |
| TypeScript client | `clients/typescript/src` | socket, flags, pending commands, timers | connect, disconnect, commands, reconnection | a reply settles its own command; one socket at a time; a lost connection is made again, one that was closed is not |
| Config | `internal/config/config.go` | parsed values | load, validate | sizes are what was written; validated settings can be run on |

How they interact: the server calls the queue from one goroutine per connection;
the queue looks a topic up under `q.mu` and calls it; the topic runs under `t.mu`
and calls log, index and catalog, each with a lock of its own that is never
contended while `t.mu` is held in write mode. The cleanup goroutine calls
`CleanupOldMessages` of each topic without holding `q.mu`. The directory of a
topic is what one process leaves to the next. A polling consumer is a goroutine in
the same process that dequeues from the queue. A Go client and the server's handler
of its connection exchange lines over a socket either side may cut; the TypeScript
client does the same from callbacks.

Hard behaviour: failed, torn and half-done writes; crashes between and within
operations; retention that deletes files which are open, and which offsets refer
to; two levels of reader/writer locks with a background goroutine; offsets in
memory, in the log and in a file that are saved at different times; a poll that
lets go of its lock between reading the offset, dequeuing, passing on and noting
where it is; handlers that register while Stop runs; late answers, timers and
close events of sockets that are no longer the current one. The full list, line
by line, is `hazards` in `PROJECT.json`.

## 2. Modules

| Module | Models | Correspondence |
|---|---|---|
| `SegmentLog` | the log | `dir` is the directory: segment number to sequence of frames, each with its position and the number of its bytes that reached the file. `LogAppend`, `LogWriteFails`, `LogSyncFails`, `LogRotateFails`, `LogAppendShut`, `LogDiesInAppend` are the outcomes of `Append`; `ReadFrom` is the set of results the reading loop can have |
| `OffsetIndex` | the index | same names as the code; a write of the file stops before truncation or after any number of entries; a scan fails anywhere |
| `OffsetCatalog` | the catalog | same names; `CatalogSync` saves in one step |
| `CatalogPersist` | how the catalog replaces its file: EXTENDS `Stores` | `catalogTemp` is `consumers.json.tmp`, `saving` how far `persist` is; errors and ends of the process come in anywhere. It implements the catalog of `Stores` (`SavesAtomically`), which is what allows one step in `OffsetCatalog` |
| `Config` | settings from defaults, file and environment, `parseSize` with the width of int64, validation, the ticker made of them | a text is a number or not, a size a number and a unit; `Files` and `Ports` are what a start may find; `process` is how far `main` is |
| `Topic` | the topic: EXTENDS log, index and catalog | each action is the whole operation, made of the parts' actions; `Crash` ends the process, `Load` is `LoadTopic`/`initialize` |
| `Stream` | abstract specification of a topic: one sequence and a cursor per reader | `Topic` implements it (`AsStream`, `ImplementsStream`) |
| `PollingConsumer` | the polling consumer, over `Stream` (EXTENDS) | `loop` is where `consumeLoop`/`pollMessages` is; a step is what `c.mu` leaves atomic. The application's calls, the producers and the end of the process come in between |
| `RWMutex` | Go's `sync.RWMutex` (external): announced writer, readers that wait for it | used by `QueueLocks` |
| `QueueLocks` | the queue: locks, topic map, cleanup goroutine, `Close`, `Reset` | a process is a program counter `at` over the places where an operation locks, works or unlocks |
| `Server` | accepting goroutine, one handler per connection, `Stop` | `acceptor` and `handler` are where `acceptConnections` and `handleConnection` are: accepted, counted, registered, reading, executing, stuck in the queue, unregistered, done; `wg` is the WaitGroup, `stop` how far `Stop` is; `queue` says whether a call that never ends holds the queue's lock |
| `GoClient` | the Go client and CLI at the other end: EXTENDS `Server` | `client` is where an operation of the client is; `inbox`/`outbox` are the lines on their way |
| `TsClient` | the TypeScript client, with what it sees of a server | one action per callback and per call of the application, a data event being one for each line it brings; timers and due close events are state. A line is a command and a number: a line cut over two data events counts as two |
| `Stores` | index and catalog on their own, with callers that need not be a topic: EXTENDS both | any offsets in any order, logs of any number of segments, in `IndexNext` and `CatalogNext` |
| `StorageProofs`, `TopicProofs`, `StreamProofs`, `QueueProofs`, `ConsumerProofs`, `NetworkProofs`, `TsClientProofs`, `ConfigProofs` | theorems and proofs | section 5 |
| `MCStores` | `CatalogPersist`, the index of `Stores`, and the settings, for TLC | they share nothing, so they take turns at running alone: one moves only while the others are new |
| `MCTopic`, `MCQueueLocks`, `MCNetwork` | instances for TLC | model values, what each client or user calls or sends |

Operations of log, index, catalog and topic run under a mutex that is held to
their end, so each is one action. `QueueLocks` is where that is questioned: it
splits operations at every lock and checks that the writers of a topic are alone
(`WriterAlone`), which is what makes the actions of `Topic` atomic. `Topic` then
implements `Stream`, and `Stream` is the topic `PollingConsumer` polls. `Topic` takes
the replacement of consumers.json for one step, which is `SavesAtomically` of
`CatalogPersist`. That the queue's operations return but for two deadlocks is
`EveryCallReturns` of `QueueLocks`; these two are steps of `Server` (`QueueBlocks`,
`CloseHangs`), after which every command that reaches the queue hangs. That
commands are answered once and in order, which `TsClient` assumes of its server, is
`OwnAnswer` of `GoClient`.

Abstractions. A message is its number and its length; timestamps are left out.
`HeaderSize` is 12 in the code and 2 in the runs. The bytes of a frame that are
not a message are modelled by what a reader could take them for: `Garbage` of any
length that fits, or an error. A write leaves a prefix of what was written; fsync
makes it durable; a process that ends loses nothing the operating system has
(every Append syncs before it returns). Modification times are abstracted to the
set `aged` of segments last written before the retention period. On the network
a command is its number and its kind (one that takes a message, DELETE of an open
topic, another that reaches the queue, QUIT, one that does not reach the queue, a
blank line, a line too long), an answer is the number of its command,
and a connection keeps the order of its lines until either side cuts it. A
message of the stream has its position as offset in `PollingConsumer`.

Definitions that begin with "Variant:" are one plausible mistake each, next to
the definition they replace; nothing uses them. Each property is shown to notice
one of them (`mutants` in `PROJECT.json`).

## 3. Runs

Bounds are named constants. Passing runs:

| Run | States | Bounds | Shows |
|---|---|---|---|
| `Stores` | 160,324 | offsets and positions 0-3, 3 entries, failing scans and writes; 2 consumers; int64 as 128 values, 1024 as 4, files that override up to two settings | the index: `AddEntryUpdatesMap`, `LookupsMatchScan`; the catalog: `CatalogCleanIsSaved`, and `SavesAtomically` with errors and restarts within a save; the settings: `SizesAsWritten` |
| `TopicSafe` | 474,171 | 1 consumer with seeks, 3 appends of lengths 1-2, batches of 2, an index entry at every other position, 2 restarts | `AckedInPlace`, `AckedReadable`: acknowledged messages stay whole, in place and readable; `OffsetsOnFrames`, `DeliveredExactly`, `NothingSkipped`: what consumers get; `IndexPointsAtFrames`; `ImplementsStream` |
| `TopicLive` | 6,027 | 2 consumers, 2 appends, batches of 1, 1 restart | `EventuallyDelivered` |
| `TopicRetention` | 438,530 | 1 consumer, 3 appends of lengths 1-2, rotation after two messages, 1 restart, every message indexed, torn writes, retention | `LogConsistent`: counter and files agree; `OffsetsTruthful`: no message at another offset than the one returned; `LinkedAppendIsReadable`: readable at the moment it is acknowledged, unless its file was deleted before; `IndexSorted`, `IndexCleanIsSaved` while the log starts over below indexed offsets |
| `Queue` | 92,458 | 2 clients on 1 topic: one calls each operation that names it, the other ENQUEUE, DEQUEUE, Sync, statistics and Reset; cleanup, Close | `OneTopicPerName`, `WriterAlone`, `NoUseAfterClose`; `EveryCallReturns`: but for the two deadlocks in `Hung`, whatever is called returns |
| `Consumer` | 255,613 | batches of 2, a channel for 1 message (100 in the code), 4 messages; commits, seeks, Stop, restarts at any moment | `NeverTwice`, `PassedOrDropped`, `OffsetIsLastPassed`, `StopEndsLoop`; `KeepsToStream`: polls and commits move the catalog's offset only as `Stream` allows |
| `Network` | 175,056 | 2 clients with 2 commands each, one sending LISTEN and QUIT, the other LISTEN, DELETE, blank and overlong lines; cut connections; Stop; the queue's two deadlocks | `WaitGroupRules`, `QueueClosesLast`, `OwnAnswer`, `OneBatchAtRisk`; `StopEndsOrHangs`, `CommandReturns`: what Stop and commands can hang on, and nothing else |
| `TsClient` | 474,287 | 2 sockets, 2 attempts, 2 timers, 2 commands, answers and welcome of 1 or 2 lines | `TsTypeOK`, `OneSocket`, `OwnReply`, `NoneLeftWaiting`, `ReconnectsOrGivesUp` |

Why these bounds are enough to be interesting: three messages of two lengths give
files in which a position may or may not be the start of a frame, with a rotation
between; two restarts let an old file of offsets meet a newer log twice; two
clients, the cleaner and the closer are the least that queue up behind each other
on two locks. A channel for one message is full half of the time, and four
messages are two batches, so a commit, seek or Stop can fall into a poll that
follows another. Two connections are what a Stop can find in two different
states. A second socket is what an old socket's callbacks can be confused with,
two commands are what an answer can be credited to wrongly, and two lines are an
array, or a line that is cut. With 128 values and
units up to 4^3 a product of a size wraps to negative numbers and past them. The
proofs of section 5 remove the bounds for every safety property of these runs.

Runs that find a disagreement between the code and what it says of itself
(`findings` in `PROJECT.json` quotes the lines; section 6 has those that no run is
spent on):

| Run | Property | What happens |
|---|---|---|
| `TopicRotates` | `SegmentsAreBounded` | a rotation opens the same segment again, which grows without bound |
| `TopicRetentionSkips` | `NothingSkipped` | the log starts over at 0 after retention, consumers keep old offsets and never get the new messages below them |
| `QueueDelete` | `DeleteReturns` | `Topic.Delete` calls `Topic.Close` with the lock held that it takes |
| `ConsumerSkips` | `SkipsOnlyProcessed` | a polling consumer takes the first message it dequeues for one it has processed, and never passes it on |

A passing run whose property excepts a case shows that the case is the only one:
`PassedOrDropped` begins behind the message that `ConsumerSkips` loses and counts
those for which the channel is full, `StopEndsLoop` counts a panic as an end,
`EveryCallReturns` excepts `Hung`, `OwnReply` and `OneSocket` what `noisy` and
`rushed` name. That the case happens is a run of its own, or said in section 6.

Deadlock is checked except in four runs. `Queue` and `QueueDelete` do stop: DELETE
and Close block everybody (`Hung`). `Network` stops when the server has stopped,
or hangs, and every connection has been used; `ConsumerSkips`, which has no
restarts, when a panic has ended the process.

The type invariants `LogTypeOK`, `TopicTypeOK`, `QueueTypeOK`, `ConsumerTypeOK` and
`NetworkTypeOK` are proved (section 5) and not spent a run on.

## 4. Fairness

- `TopicLive`: weak fairness of each consumer's `Dequeue` (consumers poll:
  `consumeLoop`, or a client that repeats LISTEN; a Dequeue with messages stays
  possible until it is done) and of `Load` (a server that ended is started again).
  Nothing is assumed of producers, Sync or Close.
- `Queue`, `QueueDelete`: strong fairness of each goroutine's steps. A step
  that locks may be disabled again and again by others; Go's mutex hands itself to
  a waiter after a millisecond (starvation mode), so one that is enabled again and
  again is taken. Weak fairness of the cleaner's wake-up and of its hand-over to
  Close. No caller has to call and no tick has to come.
- `Consumer`: weak fairness of the polling goroutine, and strong fairness of
  taking the stop signal: a `select` with several cases ready chooses at random,
  so a signal that stays in the channel is taken in the end. Nothing is assumed of
  the application or of producers.
- `Network`: weak fairness of the accepting goroutine, of each handler,
  of Stop once it has begun, and of each operation a client has begun. A handler
  that is stuck in the queue has no step left and fairness asks nothing of it, nor
  of a Close that hangs. A client need not connect, send, disconnect or end, and
  nobody need call Stop. Here a client that stays connected for ever is a legal
  behaviour, and it is the one that keeps a Stop that overlooked it waiting.
- `TsClient`: weak fairness of a close event that is due; strong fairness of the
  end of dialing (connected, refused, or timed out) and of the reconnection
  timers, which other callbacks may precede again and again. The application may
  do anything or nothing.

## 5. Proofs

Each proof has the same shape: an inductive invariant stronger than the
properties, one lemma per action or group of actions, and the properties as
consequences. All assumptions are the named ASSUMEs of the modules, which TLC
evaluates in the runs.

**The log** (`StorageProofs`), from `LogAssumption` (a header has at least one
byte, lengths and sizes are natural numbers, `SegSpan` is positive), for every
number of messages, all lengths, all sizes, with or without torn writes and
retention:

- `LogTypeCorrect`, `LogIsConsistent`: the invariants `LogTypeOK`, `LogConsistent`;
- `AckedStaysInPlace`: durability, `AckedInPlace`;
- `OffsetsStayTruthful`: `OffsetsTruthful`.

None of these is inductive alone. `LogInv` adds that the directory is well formed
and holds only segment 0 (section 6), that the counter of a linked, working writer is the size
of its file (what makes the next frame land at the offset that will be returned),
that a writer whose file was closed by a failed rotation is broken, and that
without retention no open file is unlinked. Its step is proved action by action;
the core is `WriteEffect`, that a write extends the directory by at most one frame
at the counter's position, and `AppendFrame`, that such a frame keeps a file well
formed. `DurableInv` is then proved relative to `LogInv`: `ExtendKeeps` shows that
adding a frame of another message neither moves nor removes an acknowledged one.

- `AckedCanBeRead`: `AckedReadable` where no write is torn, no segment is removed,
  and the file ends below `SegSpan` (`InSpan`; section 6 says what happens beyond).
  Without torn writes all frames are whole (`WholeInv`); a read from a frame of such
  a file returns the frame and all behind it (`WholeRead`), since positions increase
  and the bytes between two frames are none; an acknowledged offset is the position
  of a frame (`DurableInv`).
- `AppendIsReadable`: `LinkedAppendIsReadable`, in span, with torn writes and
  retention. The frame that was acknowledged is the last of a linked file
  (`AckedIsLast`), and a read that starts at it meets nothing else
  (`LastFrameRead`).

**Index and catalog** (`StorageProofs`), from `StoresAssumption`: callers pass any
natural numbers in any order, and the logs a Rebuild may scan are in order, the
positions of a segment's frames increasing and within its span. For any consumers,
any bound on the entries, with failing scans and writes:

- `StoredIndexInvariant`, the index and its file are sorted; from it
  `AddEntryIsAnUpdate` (`AddEntryUpdatesMap`) and `LookupsAreScans`
  (`LookupsMatchScan`);
- `StoredIndexIsSaved` (`IndexCleanIsSaved`), where no scan fails;
- `StoredCatalogIsSaved` (`CatalogCleanIsSaved`);
- `SavesAreAtomic` (`SavesAtomically`): `CatalogPersist` implements the catalog that
  saves in one step. Its invariant is that a temporary file which is about to be
  renamed holds the whole map; of one that an earlier process left behind nothing is
  known, and nothing is needed, since the next save truncates it.

`IndexInv` says that the entries are sorted, and says it of the file too, because a
restart reads it back. The cases are `InsertedIs` (what AddEntry makes of a sorted
slice, from `FirstAtLeastIs` about the binary search and `InsertAtIs` about the
shift), `PrefixIs` (a file or a scan cut anywhere) and `ScannedSorted` (the entries
of several segments behind each other). The assumption is used in the last: with
positions past the span of a segment the scan would not be sorted.

Two definitions loop: GetRange, and the concatenation of segments
(`FlattenSeq`). What a loop has found is a recursively defined function, and both
its existence and what it computes are proved here with a least counterexample in
place of induction: `RecursiveFunction` says that the function is what its
equations say (`Recursive` is the set of functions that satisfy them up to a bound),
`HoldsUpTo` that a set that holds 0, and i + 1 with i, holds all numbers up to a
bound. `RangeKept` and `ConcatSorted` are the invariants of the two loops.

**The topic** (`TopicProofs`), for any consumers, batch, index interval, number of
restarts, with all the faults of the model:

- `TopicRunsLog`: each step of a topic is a step of the log or leaves it alone, so
  that the theorems above hold of a topic: `EnqueuedStaysInPlace`,
  `EnqueuedCanBeRead`, `EnqueuedReadableAtOnce`;
- `IndexNeverSkipsWrite` (`IndexCleanIsSaved`, unless the scan of a Rebuild fails)
  and `CatalogNeverSkipsWrite` (`CatalogCleanIsSaved`): Sync and Close, which
  write only what is marked, leave nothing out. Both are inductive alone;
- `IndexStaysSorted`: `IndexSorted`, by `IndexInv` again. That retention leaves no
  segment to rebuild from (`NothingScanned`) is the one case of its own;
- `IndexIsAMap`, `SearchFindsEntries`: what `Stores` checks of AddEntry and the
  lookups on small slices (`EntryReplaced`, `PositionFound`, `ClosestFound`,
  `RangeFound`), for any offset in every state of a topic;
- `TopicTypeCorrect`: `TopicTypeOK`. Its substance is what a read may return from
  any offset and past any torn frame, garbage in any number included:
  `WholeFromType` and `ReadType` follow the reading loop, `BatchType` the batch that a Dequeue cuts from it.

**Delivery** (`TopicProofs`, second part), under the conditions of `AckedCanBeRead`, and
where no seek takes the counter of a broken writer for the end (`~BlindSeeks`):

- `OffsetsStayOnFrames`: `OffsetsOnFrames`;
- `NoneSkipped`: `NothingSkipped`;
- `TopicImplementsStream`: `ImplementsStream`, the refinement of `Stream`;
- `ExactlyDelivered`: `DeliveredExactly`;
- `IndexLeadsToFrames`: `IndexPointsAtFrames`, with torn writes too.

`DeliveryInv` states both for the offsets in memory of an open topic and those on
disk together, because a restart turns the second into the first. All steps but
two only take away from this set of offsets while the file grows: `GrowingFile`
shows that boundaries stay and new frames begin behind all offsets. A Dequeue
moves to the end of the last frame it returns (`BehindFrame`), over exactly the
frames whose messages it returns (`BatchOfFrames`, from `WholeRead` and the cut to
`Batch`); a seek goes to a boundary (`SeekTargetsOnFrames`, from `DurableInv` and
the writer's counter). The condition `InSpan` is preserved backwards: the file
grows, so what is in span now always was. The refinement is stated for behaviours
that stay in span, an invariant for the states up to which they did.

The refinement maps an offset to the number of frames before it (`CountBefore`) and
the file to the sequence of its messages (`Stored`). `CursorInv` makes this a map to
cursors: every offset lies on a boundary of the file. Then one lemma per kind of
step: `FileStep` and `StepPublishes` (a frame more is a message published, also one
whose Append failed after the write), `DequeueDelivers`, `UpdateSeeks`, `SyncSaves`
(Sync, and Close, which saves as well), `LoadRestarts`, and `StepStutters` for what
the stream does not see: rotation, syncs of the log, the index. `ExactlyDelivered`
uses it: `GivenInv` says that what a consumer was given is what the stream gave it,
whose invariant, `StreamInv`, is cited through the same instance.

`LeadInv` is about the index and the file together: each entry, in memory or in the
file of the index, is the position of a frame. AddEntry is called with the offset
just acknowledged (`EnqueuedStarts`), frames stay where they are, and retention is
what would break it.

**The stream** (`StreamProofs`): for every set of readers and messages and every
batch size, what a reader has been given is an interval of the stream that ends at
its cursor (`DeliveredInOrder`), by the invariant `StreamInv` (`StreamInvariant`).

**The queue's locks** (`QueueProofs`), from `QueueAssumption` (the cleaner, the
closer and the clients are different), for any number of clients and topics, any
operations, with or without Close:

- `QueueTypeCorrect`: `QueueTypeOK`, which includes that a goroutine between two
  operations holds no lock;
- `OneObjectPerName`: `OneTopicPerName`;
- `FilesOutliveUsers`: `NoUseAfterClose`;
- `WritersAreAlone`: `WriterAlone`, which justifies that the operations of `Topic`
  are single actions.

`LockedBy` says of one lock how its state is determined by who asked for it and
who is inside; six lemmas show what announcing, entering and unlocking do to it,
and `LockExclusive` that a writer inside is alone. `MutexInv` applies it to `q.mu`
and each `t.mu`, with the sets of those who asked read off the program counters.
From exclusion follow the rest: `CloseInv` orders Close, the end of the cleanup
and the two flags; `FileInv` says that files are open once, for the topics of the
map, until Close has begun to close them; `UseInv` what an operation on its way to
a topic may rely on, which others cannot take away since they would need `q.mu` in
write mode (`UseGrown`, `CloserAlone`). That a DELETE is stuck forever at its
second lock is part of it (`DeleteIsStuck`).

**The polling consumer** (`ConsumerProofs`), from `ConsumerAssumption`, for any
batch size, channel capacity and number of messages, with seeks and restarts:

- `ConsumerTypeCorrect`: `ConsumerTypeOK`;
- `NoneTwice`: `NeverTwice`; `NoneForgotten`: `PassedOrDropped`;
- `CommitsLastPassed`: `OffsetIsLastPassed`;
- `ConsumerKeepsToStream`: `KeepsToStream`, and from it, citing `DeliveredInOrder`,
  `ConsumerGivenInOrder`.

The catalog's offset moves in both directions during a poll (Dequeue forward, a
commit back), so nothing can be said about it alone. `OffsetInv` bounds what must
not be passed on again by the offset of the last message and by the one the poll
began with; `SettledInv` says up to where every message was passed on or dropped:
up to the last one passed, up to the batch, and up to the catalog's offset but for
the batch. `KeepsToStream` needs `PositionInv` besides: a commit writes an offset that
was read some steps ago, noted from a batch or taken over at a restart, and it is a
seek of the stream only because all of these are offsets the topic has
(`PositionsExist`). So the consumer asks nothing of a topic but what `Topic` is
proved to implement.

**The server** (`NetworkProofs`), from `ServerAssumption` and `ClientAssumption`,
for any finite set of connections:

- `WaitGroupKeepsRules`: `WaitGroupRules`; `QueueIsClosedLast`: `QueueClosesLast`;
- `NetworkTypeCorrect`: `NetworkTypeOK`;
- `AnswersMatch`: `OwnAnswer`; `OneBatchLost`: `OneBatchAtRisk`, for any number of
  commands.

`ServerInv` says that the WaitGroup counts the handlers that run, those stuck in the
queue included, and the accepting goroutine; where registered and cut connections
are; and that one connection is accepted and not counted only while that goroutine
is about to count it. A handler may be counted when Stop waits already, but then the
accepting goroutine is still counted itself: that is why the count never rises
from zero, and why zero means that nobody will come.

`Dialog` says of each connection where its one command is: on its way, being
executed, or settled, with at most one answer under way, as long as the connection
is up; and what can be left of it when it is cut: answers that had arrived, or one
command that the handler may still run. `unread` is determined by that, which is
why no more than one batch can be lost (`CutAnywhere`).

**The TypeScript client** (`TsClientProofs`), from `TsAssumption`, for any number of
sockets, commands, attempts and timers:

- `ClientTypeCorrect`: `TsTypeOK`; `OneSocketAtATime`: `OneSocket`;
- `NoneIsLeftWaiting`: `NoneLeftWaiting`; `RepliesAreOwn`: `OwnReply`.

`TsTypes` holds whatever the application does; its part `PendingInv` says that the
map holds the waiting commands, each once and in the order they were sent, although
answers, timers and close events all take from it. The rest is about clients that
were not `rushed`. `SocketInv`: at most one socket is not closed, an attempt or a
connection shows in the flags, and a connected client, or one with pending commands,
has a socket that is open or about to report its end; this is what makes the guard
of `connect` enough. `OrderInv`: everything that waits was sent on the one open
socket, and where nothing got out of step on it, `InStep` says that the lines on
their way are in the order of the commands, that the first line of each pending
command's answer is among them, and that there is no first line of any other: only
further lines of answers that settled their command already. A line that arrives
is either such a line, and finds nobody waiting, or the first line for the first
pending command (`LineKeepsStep`); a command sent adds its lines behind the others
(`SendKeepsStep`).

**The settings** (`ConfigProofs`), from `ConfigAssumption` and `SettingsAssumption`
(what may stand in a file for each setting), for every even width of the integers of
at least 4 values, any factor between units, any files and any environment:

- `SizesAreAsWritten`: `SizesAsWritten`.

`ConfigInv` ties the loaded settings to the ones given as texts. `WrappedIs` says
that a product in the range of the integers is its own value and one just above it
becomes negative, from which `AcceptedSize` follows: what passes the check for a
negative product either did not wrap, or wrapped past the negative numbers.

Only model-checked: liveness (`EventuallyDelivered`, `EveryCallReturns`,
`CommandReturns`, `StopEndsLoop`, `StopEndsOrHangs`, `ReconnectsOrGivesUp`), since
fairness and ENABLED are out of the prover's reach. Every invariant, action property
and refinement that a passing run checks is proved.

## 6. Limits of the model, and what it leaves out

Four disagreements between the code and what it says of itself have a run
(section 3). The others are in the models too, as steps the code can take, and the
properties say what holds in spite of them or except for them; they are listed here
with the constants, properties and histories concerned.

Log, index and topic

- There is never a second segment (`TopicRotates`), so the topic's properties are
  about one file (`File`), and that the directory holds no other is part of `LogInv`.
- A write that fails half-way leaves a torn frame, and nothing truncates it. A read
  that meets it returns its error instead of the entries before it, or takes what
  follows for a header (`pkg/storage/log.go:148`; "ReadFrom reads all messages
  starting from a global offset", `:139`): with `TornWrites = TRUE`, `AckedReadable`
  is violated. `LogConsistent`, `OffsetsTruthful`, `AckedInPlace` and
  `LinkedAppendIsReadable` hold with torn writes.
- Retention may delete the segment the writer has open (`pkg/queue/topic.go:341`).
  Later messages are acknowledged into an unlinked file and cannot be read
  ("ensure data is available for reading", `log.go:90`): `LinkedAppendIsReadable`
  holds of all others.
- After a write that failed in Flush the counter is ahead of the file
  (`log.go:205`), and SeekToEnd takes it for the end (`pkg/queue/consumer.go:259`):
  once the topic was opened again, messages are stored below that offset, and
  between frames it is no boundary. With `BlindSeeks = TRUE`, `NothingSkipped` and
  `OffsetsOnFrames` are violated; runs and theorems about deliveries are without it.
- Positions may reach 2^32 and be taken for another segment (`log.go:290`). The
  runs keep positions below `SegSpan`; with `SegSpan = 8`, `AckedReadable` fails.
  Index entries of such positions would not be in order either, which is what
  `StoresAssumption` excludes.
- `GetClosestPosition` returns the first entry when all entries lie above the
  target (`pkg/storage/index.go:110`), against "the largest offset <= target offset"
  (`:96`). `LookupsMatchScan` asks for the last entry not above the target where
  there is one, and nothing otherwise. Nothing calls the function.
- A Rebuild whose scan fails has emptied the index without setting `dirty`
  (`pkg/storage/index.go:284`), and no Sync writes it: with `ScanFails = TRUE`,
  `IndexCleanIsSaved` is violated.
- Importing the JSON text `null` leaves the catalog without a map, and the next
  update panics (`pkg/storage/catalog.go:321`). Nothing calls Import.

Queue and consumer

- `Close` waits for the cleanup with `q.mu` held (`pkg/queue/queue.go:275`), and a
  cleanup whose tick came first waits for `q.mu`: neither ends. It is the second
  deadlock of `Hung`. `Reset` hangs as DELETE does, on a topic that is open.
- Nothing in the server program saves consumer offsets: `Queue.Sync` has no
  caller, and `cmd/main.go` never calls `Server.Stop`. `Sync` and `Close` are
  actions because programs that use the packages may call them, and nothing
  assumes that they do.
- `Stop` of a consumer closes its channels while a poll may be about to send on one
  of them (`pkg/queue/consumer.go:104`), which panics and ends the process, also in
  a select with a default: the place "panicked" of `loop`.
- When the channel is full a poll gives up ("stop processing for now",
  `consumer.go:237`), but the topic's offset is behind the whole batch, so the rest
  is not dequeued again: `dropped`.
- A seek that runs into a poll is overwritten by it (`consumer.go:229-234`);
  the consumer's properties are about seeks that do not (`raced`).

Server and clients

- A connection accepted and not yet registered when Stop closes the clients is not
  closed (`internal/network/server.go:91`, against "Close all client connections",
  `:89`): Stop waits until its client leaves (`Overlooked`).
- QUIT is answered twice and does not disconnect (`server.go:410`, against
  "Disconnect from server", `:427`): on a connection whose user sent it, answers are
  one late from then on for every QUIT, and as many answers to LISTEN can be
  unread. `OwnAnswer` and `OneBatchAtRisk` leave such connections out (`quitted`).
  `Disconnect` of the client closes its end after the first answer.
- A blank line is never answered (`server.go:161`), and the client has no deadline:
  `CommandReturns` excepts it.
- `Start` returns when Stop begins, not when it ends (`server.go:76`), so a `main`
  that called Stop could exit before the queue is closed. Not modelled: `main`
  does not.
- `Accept` may return an error other than that of a closed listener; the accepting
  goroutine tries again at once (`server.go:114`), which is no step of the model.
- `MaxConnections` is read and never used.
- The TypeScript client settles its first pending command with every line
  (`clients/typescript/src/index.ts:194`): with the welcome, with the further lines
  of an array, with the answer to a command that timed out, and with each half of a
  line cut over two data events. `OwnReply` names these (`noisy`) and shows that
  there is no other way.
- After `disconnect` the close event plans a reconnection all the same
  (`index.ts:110`), and `ReconnectsOrGivesUp` counts it as one.
- The timer of a connect destroys whatever socket is the current one by then
  (`index.ts:75`), also the connection of a later attempt.
- `connect` called between the end of a socket and its close event makes a second
  socket beside the first, and commands may be left waiting (`index.ts:98-118`):
  `rushed` excepts it.

Settings

- A size whose product wraps past the negative numbers is accepted as another
  (`internal/config/config.go:221`, "Check for overflow"): the second case of
  `SizesAsWritten`.
- `cleanup_interval` is not validated (`config.go:173`), and `NewTicker` panics
  unless it is positive (`pkg/queue/queue.go:345`): `StartCleanup` has this end of
  the process, and no property is about it.
- A missing file is an error although `config.go:69` says "Load from file if
  exists".
- Retention hours are multiplied without a check (`config.go:251`); not modelled.

Not modelled: `main`
  does not.
- `Accept` may return an error other than that of a closed listener; the accepting
  goroutine tries again at once (`server.go:114`), which is no step of the model.
- `MaxConnections` is read and never used.
- In the TypeScript client, `connect` called between the end of a socket and its
  close event makes a second socket beside the first, and commands may be left
  waiting (`index.ts:98-118`): `rushed` excepts it.

Settings

- A missing file is an error although `internal/config/config.go:69` says "Load
  from file if exists".
- Retention hours are multiplied without a check (`config.go:251`); not modelled.

Not modelled:

- Formatting and parsing of the protocol's lines. An answer is one element to the Go
  client, which reads it line by line from a buffer, and its lines to the TypeScript
  client; what the lines say is left out.
- Statistics (an estimate by design), `metadata.json` (an empty stub), the cluster
  settings, which nothing uses.
- Offsets that no producer was told: `UpdateConsumerOffset` accepts any number and
  nothing says what it should do.
- Memory order within Go: locks and channels are the only synchronisation modelled,
  and the code uses no other for this state.
- The tests under `test/` call an interface the packages do not have; they and the
  demo script are no components of the system.

## 7. Plan

Done: every component of section 1 has a module, a run, properties and theorems, and
every safety property that a passing run checks is proved.

What is left is one specification of a polling consumer that calls a `Topic`, and
that it implements `PollingConsumer`. Both halves are there: `TopicImplementsStream`
for the topic, `ConsumerKeepsToStream` for the consumer.
