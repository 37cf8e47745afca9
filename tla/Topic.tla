------------------------------- MODULE Topic -------------------------------
(***************************************************************************)
(* A topic: pkg/queue/topic.go, with the log, the index and the catalog it *)
(* owns.  Its operations run under t.mu, held in write mode by all those   *)
(* that change state, so each is one action; it is made of actions of the  *)
(* parts.  A topic is loaded, used by producers and consumers, synced,     *)
(* cleaned and closed; its process may end at any point, also within an    *)
(* operation, and start again from what is on disk.                        *)
(***************************************************************************)
EXTENDS SegmentLog, OffsetIndex, OffsetCatalog

CONSTANTS
  Batch,          \* maxMessages of a Dequeue, 10 from the server
  IndexInterval,  \* index_interval, in the offsets that shouldIndex divides
  Seeks,          \* whether consumers move their offset themselves
  BlindSeeks,     \* whether also to the end that a broken writer believes in
  MaxRestarts     \* bound on the number of times the process ends

ASSUME TopicAssumption ==
  /\ Batch \in Nat \ {0}
  /\ IndexInterval \in Nat \ {0}
  /\ {Seeks, BlindSeeks} \subseteq BOOLEAN
  /\ MaxRestarts \in Nat

VARIABLES
  restarts,  \* how often the process ended
  got,       \* history: messages dequeued since the last seek or restart
  from,      \* history: the offset the consumer had then
  seen       \* history: messages the consumer ever dequeued, or skipped itself

historyVars == <<got, from, seen>>
topicVars ==
  <<logVars, indexVars, catalogVars, restarts, historyVars>>

\* t.closed, and also a topic that no process has loaded.
Closed == fd = "closed"

TopicInit ==
  /\ LogInit
  /\ IndexInit
  /\ CatalogInit
  /\ restarts = 0
  /\ got = [c \in Consumers |-> <<>>]
  /\ from = [c \in Consumers |-> 0]
  /\ seen = [c \in Consumers |-> {}]

-----------------------------------------------------------------------------
(* Operations of producers and consumers *)

ShouldIndex(offset) == offset % IndexInterval = 0

\* Enqueue that returns an offset: append, then index every message whose
\* offset the interval divides, under its offset as its position.
Enqueue(len) ==
  /\ LogAppend(len)
  /\ LET offset == acked'[sent']
     IN  IF ShouldIndex(offset) THEN AddEntry(offset, offset)
                                ELSE UNCHANGED indexVars
  /\ UNCHANGED <<catalogVars, restarts, historyVars>>

\* Variant: the index entry is added before the append.
EnqueueFailsIndexed(len) ==
  /\ \E have \in 0 .. FrameSize(len), counted \in BOOLEAN :
       LogWriteFails(len, have, counted)
  /\ AddEntry(GetSize, GetSize)
  /\ UNCHANGED <<catalogVars, restarts, historyVars>>

\* Enqueue that returns the error of the append.
EnqueueFails(len) ==
  /\ \/ \E have \in 0 .. FrameSize(len), counted \in BOOLEAN :
          LogWriteFails(len, have, counted)
     \/ LogSyncFails(len)
     \/ LogRotateFails(len)
     \/ LogAppendShut(len)
  /\ UNCHANGED <<indexVars, catalogVars, restarts, historyVars>>

\* readFromOffset: the whole rest of the log is read, then cut.
Limited(entries) ==
  IF Len(entries) > Batch THEN SubSeq(entries, 1, Batch) ELSE entries

\* Variant: the header is forgotten in the next offset.
DequeueWithoutHeader(c) ==
  /\ ~Closed
  /\ \E r \in ReadFrom(GetOffset(c)) :
       /\ r.ok
       /\ r.entries # <<>>
       /\ LET batch == Limited(r.entries)
              end   == batch[Len(batch)]
              msgs  == [i \in DOMAIN batch |-> batch[i].msg]
          IN  /\ UpdateOffset(c, end.offset + end.len)
              /\ got' = [got EXCEPT ![c] = @ \o msgs]
              /\ seen' = [seen EXCEPT ![c] = @ \cup ToSet(msgs)]
  /\ UNCHANGED <<logVars, indexVars, restarts, from>>

\* Variant: the offset is taken from all entries read, before the cut.
DequeueBeforeCut(c) ==
  /\ ~Closed
  /\ \E r \in ReadFrom(GetOffset(c)) :
       /\ r.ok
       /\ r.entries # <<>>
       /\ LET batch == Limited(r.entries)
              end   == r.entries[Len(r.entries)]
              msgs  == [i \in DOMAIN batch |-> batch[i].msg]
          IN  /\ UpdateOffset(c, end.offset + FrameSize(end.len))
              /\ got' = [got EXCEPT ![c] = @ \o msgs]
              /\ seen' = [seen EXCEPT ![c] = @ \cup ToSet(msgs)]
  /\ UNCHANGED <<logVars, indexVars, restarts, from>>

\* Dequeue that returns messages.  The consumer's offset moves behind them
\* before the reply is sent.  (One that returns none, or an error, changes
\* nothing.)
Dequeue(c) ==
  /\ ~Closed
  /\ \E r \in ReadFrom(GetOffset(c)) :
       /\ r.ok
       /\ r.entries # <<>>
       /\ LET batch == Limited(r.entries)
              end   == batch[Len(batch)]
              msgs  == [i \in DOMAIN batch |-> batch[i].msg]
          IN  /\ UpdateOffset(c, end.offset + FrameSize(end.len))
              /\ got' = [got EXCEPT ![c] = @ \o msgs]
              /\ seen' = [seen EXCEPT ![c] = @ \cup ToSet(msgs)]
  /\ UNCHANGED <<logVars, indexVars, restarts, from>>

\* Offsets a client may know: the beginning, those its producers were told,
\* and the end that SeekToEnd takes from the statistics (consumer.go:251-259).
\* After a failed write that is not the end of the file; most runs leave such
\* seeks out (BlindSeeks).
SeekTargets ==
  IF Seeks
  THEN {0} \cup Range(acked) \cup {o \in {GetSize} : writerErr => BlindSeeks}
  ELSE {}

\* The frames of the only segment.
File == IF 0 \in DOMAIN dir THEN dir[0] ELSE <<>>

\* UpdateConsumerOffset refuses no offset.  What lies before it now is skipped
\* by the consumer's own choice.
UpdateConsumerOffset(c, offset) ==
  /\ ~Closed
  /\ UpdateOffset(c, offset)
  /\ got' = [got EXCEPT ![c] = <<>>]
  /\ from' = [from EXCEPT ![c] = offset]
  /\ seen' = [seen EXCEPT ![c] =
                @ \cup {File[i].msg : i \in {k \in DOMAIN File : File[k].at < offset}}]
  /\ UNCHANGED <<logVars, indexVars, restarts>>

-----------------------------------------------------------------------------
(* Persistence, retention, the life of the process *)

\* Sync: log, index, catalog, in this order; an error ends it.
Sync ==
  /\ ~Closed
  /\ \/ ~writerErr /\ IndexSync /\ CatalogSync
     \/ ~writerErr /\ IndexSync /\ UNCHANGED catalogVars
     \/ /\ ~writerErr
        /\ \E n \in 0 .. Len(indexEntries) : IndexSyncFails(n)
        /\ UNCHANGED catalogVars
     \/ UNCHANGED <<indexVars, catalogVars>>
  /\ UNCHANGED <<logVars, restarts, historyVars>>

\* Close closes every part whatever the others answer; a part that fails
\* keeps what it had on disk, or in the case of the index a prefix.
Close ==
  /\ restarts < MaxRestarts
  /\ LogClose
  /\ IndexSync \/ \E n \in 0 .. Len(indexEntries) : IndexSyncFails(n)
  /\ CatalogSync \/ UNCHANGED catalogVars
  /\ restarts' = restarts + 1
  /\ UNCHANGED historyVars

\* The process ends: between operations, within an append, or while the
\* index is being written by a Sync.
Crash ==
  /\ restarts < MaxRestarts
  /\ \/ LogClose /\ UNCHANGED indexVars
     \/ /\ \E len \in Lens : \E have \in 0 .. FrameSize(len) :
             LogDiesInAppend(len, have)
        /\ UNCHANGED indexVars
     \/ LogClose /\ \E n \in 0 .. Len(indexEntries) : IndexSyncFails(n)
  /\ restarts' = restarts + 1
  /\ UNCHANGED <<catalogVars, historyVars>>

\* LoadTopic (or NewTopic on an empty directory): initialize opens the parts.
Load ==
  /\ LogOpen
  /\ IndexLoad
  /\ CatalogLoad
  /\ got' = [c \in Consumers |-> <<>>]
  /\ from' = [c \in Consumers |-> OffsetIn(catalogFile, c)]
  /\ UNCHANGED <<restarts, seen>>

\* The numbers in T, from the lowest to the highest.
InOrder(T) ==
  CHOOSE f \in [1 .. Cardinality(T) -> T] : \A i, j \in DOMAIN f : i < j => f[i] < f[j]

\* The segments a Rebuild finds when those in S are gone, in directory order.
SegmentsWithout(S) ==
  LET left == InOrder(DOMAIN dir \ S)
  IN  [k \in DOMAIN left |->
         [base      |-> GlobalOffset(k - 1, 0),
          positions |-> [i \in DOMAIN dir[left[k]] |-> dir[left[k]][i].at]]]

\* CleanupOldMessages with something to delete: every segment that was last
\* modified before the retention period, the open one included, read or not;
\* then the index is rebuilt from what is left.
CleanupOldMessages ==
  /\ aged # {}
  /\ DeleteSegments(aged)
  /\ LET left == SegmentsWithout(aged)
     IN  \/ Rebuild(left)
         \/ \E n \in 0 .. Len(Scanned(left)) :
              RebuildFails(left, n) \/ RebuildScanFails(left, n)
  /\ UNCHANGED <<catalogVars, restarts, historyVars>>

Age(s) ==
  /\ LogAge(s)
  /\ UNCHANGED <<indexVars, catalogVars, restarts, historyVars>>

TopicNext ==
  \/ \E len \in Lens : Enqueue(len) \/ EnqueueFails(len)
  \/ \E c \in Consumers : Dequeue(c)
  \/ \E c \in Consumers : \E offset \in SeekTargets : UpdateConsumerOffset(c, offset)
  \/ Sync
  \/ Close
  \/ Crash
  \/ Load
  \/ CleanupOldMessages
  \/ \E s \in DOMAIN dir : Age(s)

TopicSpec == TopicInit /\ [][TopicNext]_topicVars

-----------------------------------------------------------------------------
(* Properties *)

TopicTypeOK ==
  /\ LogTypeOK
  /\ DOMAIN consumers \subseteq Consumers
  /\ DOMAIN catalogFile \subseteq Consumers
  /\ \A c \in Consumers : got[c] \in Seq(0 .. sent) /\ seen[c] \subseteq 0 .. sent

\* The places a read may start from.
Boundaries == {File[i].at : i \in DOMAIN File} \cup {EndOf(File)}

\* Every offset a consumer has, in memory or in consumers.json, is the start
\* of a message or the end of the log: what Dequeue computes from the last
\* entry (topic.go:171), what a crash brings back from disk, and what a seek
\* to a known offset sets.
OffsetsOnFrames ==
  \A c \in Consumers :
    /\ ~Closed => GetOffset(c) \in Boundaries
    /\ OffsetIn(catalogFile, c) \in Boundaries

\* The number of frames that start before an offset.
Before(offset) == Cardinality({i \in DOMAIN File : File[i].at < offset})

\* The messages of the log, and those whose frames start in start .. end-1.
Stored == [i \in DOMAIN File |-> File[i].msg]
Stretch(start, end) == SubSeq(Stored, Before(start) + 1, Before(end))

\* A consumer has been given exactly the messages between the offset it
\* started from and the one it has now: none lost, repeated or reordered,
\* however Dequeue calls, appends, restarts and seeks interleave
\* (topic.go:149-180).
DeliveredExactly ==
  ~Closed => \A c \in Consumers : got[c] = Stretch(from[c], GetOffset(c))

\* No restart makes a consumer skip a message: whatever lies before an offset
\* in memory or on disk has been dequeued by that consumer, or was skipped by a
\* seek of its own (topic.go:149-192 and load).
NothingSkipped ==
  \A c \in Consumers : \A i \in DOMAIN File :
    \/ File[i].msg \in seen[c]
    \/ /\ ~Closed => File[i].at >= GetOffset(c)
       /\ File[i].at >= OffsetIn(catalogFile, c)

\* The index, in memory and on disk, sends no reader astray: offsets sorted,
\* each the start of a message, each its own position.  It may lack entries
\* (a crash, a cut file), it may not have wrong ones (topic.go:137-142).
IndexPointsAtFrames ==
  \A entries \in {indexEntries, indexFile} :
    /\ \A i \in DOMAIN entries :
         /\ entries[i].offset = entries[i].position
         /\ entries[i].offset \in {File[k].at : k \in DOMAIN File}
    /\ \A i, j \in DOMAIN entries : i < j => entries[i].offset < entries[j].offset

\* The topic as a Stream: messages are the frames, a cursor counts the frames
\* before an offset.
AsStream ==
  INSTANCE Stream WITH
    Readers <- Consumers,
    Messages <- 1 .. MaxMessages,
    stream  <- Stored,
    cursor  <- [c \in Consumers |-> Before(GetOffset(c))],
    saved   <- [c \in Consumers |-> Before(OffsetIn(catalogFile, c))]

\* A topic does what Stream promises (no torn writes, no retention, and seeks
\* to known offsets only).
ImplementsStream == AsStream!StreamSpec

\* Consumers poll (consumer.go consumeLoop, or a client that repeats LISTEN),
\* and a server that ended is started again.
TopicFairness ==
  /\ \A c \in Consumers : WF_topicVars(Dequeue(c))
  /\ WF_topicVars(Load)

FairTopicSpec == TopicSpec /\ TopicFairness

\* Every message that was acknowledged is in the end dequeued by every
\* consumer, through failed appends, crashes and restarts.
EventuallyDelivered ==
  \A c \in Consumers : \A m \in 1 .. MaxMessages :
    m \in DOMAIN acked ~> m \in seen[c]
=============================================================================
