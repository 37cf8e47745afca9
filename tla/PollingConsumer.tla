--------------------------- MODULE PollingConsumer ---------------------------
(***************************************************************************)
(* The polling consumer of pkg/queue/consumer.go over the topic that module*)
(* Stream promises: a goroutine dequeues a batch every tick and passes the *)
(* messages on through a channel, while the application receives from the  *)
(* channel, commits, seeks and stops.  The message at position i of the    *)
(* stream has offset i - 1, and the consumer's offset in the catalog is    *)
(* its cursor.  c.mu is held for single assignments, or for an assignment  *)
(* and the catalog update with it, so the steps below are what it leaves   *)
(* atomic.                                                                 *)
(***************************************************************************)
EXTENDS Stream

CONSTANTS
  Me,            \* the consumer's id, a reader
  ChanCap,       \* capacity of messageChan, 100 in the code
  MaxPublished,  \* bound on the messages of the topic
  Seeks,         \* whether the application seeks
  Restarts       \* whether the process may end and start again

ASSUME ConsumerAssumption ==
  /\ Me \in Readers
  /\ Batch \in Nat \ {0}
  /\ ChanCap \in Nat \ {0}
  /\ MaxPublished \in Nat
  /\ {Seeks, Restarts} \subseteq BOOLEAN

VARIABLES
  offset,    \* c.offset
  life,      \* "new", "active", or "stopped" (its two channels are closed)
  stopChan,  \* a stop signal is in c.stopChan
  waiting,   \* number of messages in c.messageChan
  loop,      \* where consumeLoop is
  current,   \* currentOffset of pollMessages
  batch,     \* offsets of the messages of this poll still to be looked at
  start,     \* history: the offset at the last seek, or as created
  passed,    \* history: offsets sent to the channel since then
  dropped,   \* history: offsets dropped since then because the channel was full
  raced      \* history: that seek ran into a poll

goVars == <<offset, life, stopChan, waiting, loop, current, batch>>
passedVars == <<start, passed, dropped, raced>>
consumerVars == <<streamVars, goVars, passedVars>>

\* A panic in the goroutine ends the process.
Alive == loop # "panicked"
Polling == loop \in {"dequeue", "pass", "note"}

\* NewConsumer, which takes the offset o from the catalog.
NewConsumer(o) ==
  /\ offset' = o
  /\ life' = "new"
  /\ stopChan' = FALSE
  /\ waiting' = 0
  /\ loop' = "off"
  /\ current' = 0
  /\ batch' = <<>>
  /\ start' = o
  /\ passed' = <<>>
  /\ dropped' = {}
  /\ raced' = FALSE

ConsumerInit ==
  /\ StreamInit
  /\ offset = 0
  /\ life = "new"
  /\ stopChan = FALSE
  /\ waiting = 0
  /\ loop = "off"
  /\ current = 0
  /\ batch = <<>>
  /\ start = 0
  /\ passed = <<>>
  /\ dropped = {}
  /\ raced = FALSE

-----------------------------------------------------------------------------
(* The application *)

Start ==
  /\ life = "new"
  /\ life' = "active"
  /\ loop' = "select"
  /\ UNCHANGED <<streamVars, offset, stopChan, waiting, current, batch, passedVars>>

\* Variant: a stop channel without a buffer, so that the signal is lost
\* unless the loop is waiting for it.
StopUnbuffered ==
  /\ Alive
  /\ life = "active"
  /\ life' = "stopped"
  /\ stopChan' = (loop = "select")
  /\ UNCHANGED <<streamVars, offset, waiting, loop, current, batch, passedVars>>

\* Stop signals the loop and closes both channels without waiting for it.
Stop ==
  /\ Alive
  /\ life = "active"
  /\ life' = "stopped"
  /\ stopChan' = TRUE
  /\ UNCHANGED <<streamVars, offset, waiting, loop, current, batch, passedVars>>

\* The application replaces a consumer whose loop has ended.
Renew ==
  /\ loop = "exited"
  /\ NewConsumer(cursor[Me])
  /\ UNCHANGED streamVars

\* UpdateConsumerOffset, the catalog's part of a commit or seek.
SetCursor(o) ==
  /\ cursor' = [cursor EXCEPT ![Me] = o]
  /\ got' = [got EXCEPT ![Me] = <<>>]
  /\ UNCHANGED <<stream, saved>>

\* CommitOffset moves the catalog back to the last message passed on.
CommitOffset ==
  /\ Alive
  /\ cursor[Me] # offset
  /\ SetCursor(offset)
  /\ UNCHANGED <<goVars, passedVars>>

\* SetOffset, also as Reset (0), SeekToEnd and SeekToTimestamp (0 or the end).
SetOffset(o) ==
  /\ Seeks
  /\ Alive
  /\ offset' = o
  /\ SetCursor(o)
  /\ start' = o
  /\ passed' = <<>>
  /\ dropped' = {}
  /\ raced' = Polling
  /\ UNCHANGED <<life, stopChan, waiting, loop, current, batch>>

Receive ==
  /\ Alive
  /\ waiting > 0
  /\ waiting' = waiting - 1
  /\ UNCHANGED <<streamVars, offset, life, stopChan, loop, current, batch, passedVars>>

-----------------------------------------------------------------------------
(* consumeLoop and pollMessages *)

\* The select takes the stop signal, or a tick, as it likes when both are there.
LoopStops ==
  /\ loop = "select"
  /\ stopChan
  /\ stopChan' = FALSE
  /\ loop' = "exited"
  /\ UNCHANGED <<streamVars, offset, life, waiting, current, batch, passedVars>>

PollBegins ==
  /\ loop = "select"
  /\ current' = offset
  /\ loop' = "dequeue"
  /\ UNCHANGED <<streamVars, offset, life, stopChan, waiting, batch, passedVars>>

\* Variant: the catalog's offset moves by the limit, however many messages came.
PollDequeuesByLimit ==
  /\ loop = "dequeue"
  /\ cursor[Me] < Len(stream)
  /\ cursor' = [cursor EXCEPT ![Me] = @ + Batch]
  /\ got' = [got EXCEPT ![Me] = @ \o SubSeq(stream, cursor[Me] + 1, Len(stream))]
  /\ batch' = [i \in 1 .. Len(stream) - cursor[Me] |-> cursor[Me] + i - 1]
  /\ loop' = "pass"
  /\ UNCHANGED <<stream, saved, offset, life, stopChan, waiting, current, passedVars>>

\* DequeueWithLimit: the catalog's offset moves behind the whole batch.
PollDequeues ==
  /\ loop = "dequeue"
  /\ Deliver(Me)
  /\ batch' = [i \in 1 .. cursor'[Me] - cursor[Me] |-> cursor[Me] + i - 1]
  /\ loop' = "pass"
  /\ UNCHANGED <<offset, life, stopChan, waiting, current, passedVars>>

\* It returns nothing, or an error, which consumeLoop sends to errorChan if
\* there is room; Stop has closed that channel too.
PollEndsEmpty ==
  /\ loop = "dequeue"
  /\ \/ cursor[Me] = Len(stream) /\ loop' = "select"
     \/ loop' = IF life = "stopped" THEN "panicked" ELSE "select"
  /\ UNCHANGED <<streamVars, offset, life, stopChan, waiting, current, batch, passedVars>>

\* Variant: only messages before the current offset count as processed.
ProcessedBefore == batch[1] < current

Processed == batch[1] <= current

Skip ==
  /\ loop = "pass"
  /\ batch # <<>>
  /\ Processed
  /\ batch' = Tail(batch)
  /\ UNCHANGED <<streamVars, offset, life, stopChan, waiting, loop, current, passedVars>>

HasRoom == waiting < ChanCap

\* Sending on a closed channel panics, in a select with a default too; if the
\* channel is full the poll gives the rest of the batch up.
Send ==
  /\ loop = "pass"
  /\ batch # <<>>
  /\ ~Processed
  /\ \/ /\ life = "stopped"
        /\ loop' = "panicked"
        /\ UNCHANGED <<waiting, batch, passed, dropped>>
     \/ /\ life # "stopped"
        /\ HasRoom
        /\ waiting' = waiting + 1
        /\ passed' = Append(passed, batch[1])
        /\ loop' = "note"
        /\ UNCHANGED <<batch, dropped>>
     \/ /\ life # "stopped"
        /\ ~HasRoom
        /\ dropped' = dropped \cup {batch[i] : i \in DOMAIN batch}
        /\ batch' = <<>>
        /\ loop' = "select"
        /\ UNCHANGED <<waiting, passed>>
  /\ UNCHANGED <<streamVars, offset, life, stopChan, current, start, raced>>

\* Variant: the offset of the next message is noted, as Dequeue does.
NoteNext ==
  /\ loop = "note"
  /\ offset' = batch[1] + 1
  /\ batch' = Tail(batch)
  /\ loop' = "pass"
  /\ UNCHANGED <<streamVars, life, stopChan, waiting, current, passedVars>>

\* The offset follows in a step of its own, under c.mu again.
Note ==
  /\ loop = "note"
  /\ offset' = batch[1]
  /\ batch' = Tail(batch)
  /\ loop' = "pass"
  /\ UNCHANGED <<streamVars, life, stopChan, waiting, current, passedVars>>

PollEnds ==
  /\ loop = "pass"
  /\ batch = <<>>
  /\ loop' = "select"
  /\ UNCHANGED <<streamVars, offset, life, stopChan, waiting, current, batch, passedVars>>

-----------------------------------------------------------------------------
(* Producers, and the life of the process *)

Produce ==
  /\ Alive
  /\ Len(stream) < MaxPublished
  /\ Publish
  /\ UNCHANGED <<goVars, passedVars>>

\* Something calls Sync, which saves the catalog.
SaveOffsets ==
  /\ Restarts
  /\ Alive
  /\ Save
  /\ UNCHANGED <<goVars, passedVars>>

\* The process ends, at any point, and starts again with a new consumer.
ProcessRestarts ==
  /\ Restarts
  /\ Restart
  /\ NewConsumer(saved[Me])

Loop ==
  \/ LoopStops
  \/ PollBegins
  \/ PollDequeues
  \/ PollEndsEmpty
  \/ Skip
  \/ Send
  \/ Note
  \/ PollEnds

ConsumerNext ==
  \/ Start
  \/ Stop
  \/ Renew
  \/ CommitOffset
  \/ \E o \in 0 .. Len(stream) : SetOffset(o)
  \/ Receive
  \/ Loop
  \/ Produce
  \/ SaveOffsets
  \/ ProcessRestarts

ConsumerSpec == ConsumerInit /\ [][ConsumerNext]_consumerVars

\* The goroutine is scheduled, and a select that finds the stop signal at every
\* turn takes it in the end (it chooses at random).
FairConsumerSpec ==
  /\ ConsumerSpec
  /\ WF_consumerVars(Loop)
  /\ SF_consumerVars(LoopStops)

-----------------------------------------------------------------------------
(* Properties *)

Offsets == 0 .. MaxPublished
Elements(s) == {s[i] : i \in DOMAIN s}

ConsumerTypeOK ==
  /\ Len(stream) <= MaxPublished
  /\ offset \in Offsets /\ current \in Offsets /\ start \in Offsets
  /\ cursor[Me] \in Offsets /\ saved[Me] \in Offsets
  /\ life \in {"new", "active", "stopped"}
  /\ stopChan \in BOOLEAN
  /\ waiting \in 0 .. ChanCap
  /\ loop \in {"off", "select", "dequeue", "pass", "note", "exited", "panicked"}
  /\ batch \in Seq(Offsets)
  /\ passed \in Seq(Offsets)
  /\ dropped \subseteq Offsets
  /\ raced \in BOOLEAN
  /\ loop = "note" => batch # <<>>

\* Between two seeks that do not run into a poll, no message is passed on
\* twice and none before an earlier one, although CommitOffset makes the next
\* Dequeue return the last one again (consumer.go:122-132, 222-225).
NeverTwice ==
  ~raced => \A i, j \in DOMAIN passed : i < j => passed[i] < passed[j]

\* Behind the one the consumer started from, every message that the catalog's
\* offset has moved past was passed on, is about to be, or was dropped because
\* the channel was full (consumer.go:214-240); commits at any moment included.
PassedOrDropped ==
  ~raced =>
    start + 1 .. cursor[Me] - 1 \subseteq Elements(passed) \cup Elements(batch) \cup dropped

\* What CommitOffset writes is the offset of the last message passed on (or
\* the start), but for the moment between the send and the assignment
\* (consumer.go:229-234): committing neither loses nor repeats a message.
OffsetIsLastPassed ==
  ~raced /\ loop # "note" =>
    offset = IF passed = <<>> THEN start ELSE passed[Len(passed)]

\* However polls, commits, seeks and restarts interleave, the catalog's offset
\* and what DequeueWithLimit returns follow the topic's protocol: every offset
\* that a commit writes from c.offset (consumer.go:122-132) is one the topic has,
\* and each reader is given a stretch of the stream between two such moves.
KeepsToStream == StreamSpec

\* A consumer that was stopped ends its loop, or the panic of a send on a
\* closed channel ends the process (consumer.go:86-108).
StopEndsLoop == life = "stopped" ~> loop \in {"exited", "panicked", "off"}

\* consumer.go:222, "Skip messages we've already processed": a message that is
\* skipped was passed on before (in runs without seeks and restarts).
SkipsOnlyProcessed ==
  loop = "pass" /\ batch # <<>> /\ Processed =>
    batch[1] \in Elements(passed)
=============================================================================
