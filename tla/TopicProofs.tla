----------------------------- MODULE TopicProofs -----------------------------
(***************************************************************************)
(* Proofs about topics, for every value of the constants.                  *)
(*                                                                         *)
(* What a topic keeps on disk.  The invariants of index and catalog are    *)
(* inductive by themselves: each operation that changes a map also marks   *)
(* it, and each write that stops half-way leaves it marked.  The log of a  *)
(* topic takes no step that SegmentLog does not have, so what is proved of *)
(* it holds of the topic.  That the index is sorted (IndexInv) has to be   *)
(* said of its file too, since a restart reads it back; that consumers are *)
(* given messages that were sent (TypeInv) rests on the types of whatever  *)
(* a read can return.                                                      *)
(*                                                                         *)
(* The offsets of its consumers, where no write is torn, no segment is     *)
(* removed and the log is within its span (see InSpan): however enqueues,  *)
(* their failures, reads, seeks to known offsets, syncs, crashes and       *)
(* restarts interleave, every offset is the start of a message or the end  *)
(* of the log, and no message lies before the offset of a consumer that    *)
(* has not seen it.  The file only grows, so what was a boundary remains   *)
(* one, and what is new lies behind all offsets; an offset moves only to a *)
(* boundary, over messages that are seen in the same step.                 *)
(*                                                                         *)
(* Counting the frames before an offset turns offsets into cursors and the *)
(* file into a sequence of messages: under this mapping each step of the   *)
(* topic is a step of Stream, or none, so that what is proved of a stream  *)
(* holds of the topic.  An index entry is one more kind of offset: it      *)
(* points at the start of a message of a file that only grows.             *)
(***************************************************************************)
EXTENDS Topic, StorageProofs

\* Every step of a topic, for the index.  A scan that fails is the exception.
LEMMA IndexStep ==
  ASSUME IndexCleanIsSaved, ~ScanFails, [TopicNext]_topicVars
  PROVE  IndexCleanIsSaved'
  <1>1. CASE \E len \in Lens : Enqueue(len)
    BY <1>1, IndexFrame DEF Enqueue, AddEntry, IndexCleanIsSaved
  <1>2. CASE \E len \in Lens : EnqueueFails(len)
    BY <1>2, IndexFrame DEF EnqueueFails
  <1>3. CASE \E c \in Consumers : Dequeue(c)
    BY <1>3, IndexFrame DEF Dequeue
  <1>4. CASE \E c \in Consumers : \E offset \in SeekTargets : UpdateConsumerOffset(c, offset)
    BY <1>4, IndexFrame DEF UpdateConsumerOffset
  <1>5. CASE Sync
    BY <1>5, IndexFrame, IndexSyncKeeps DEF Sync
  <1>6. CASE Close
    BY <1>6, IndexSyncKeeps DEF Close
  <1>7. CASE Crash
    BY <1>7, IndexFrame, IndexSyncKeeps DEF Crash
  <1>8. CASE Load
    BY <1>8 DEF Load, IndexLoad, IndexCleanIsSaved
  <1>9. CASE CleanupOldMessages
    BY <1>9 DEF CleanupOldMessages, Rebuild, RebuildFails, RebuildScanFails, IndexPersist,
                IndexPersistStops, IndexCleanIsSaved
  <1>10. CASE \E s \in DOMAIN dir : Age(s)
    BY <1>10, IndexFrame DEF Age
  <1>11. CASE UNCHANGED topicVars
    BY <1>11, IndexFrame DEF topicVars
  <1>12. QED
    BY <1>1, <1>2, <1>3, <1>4, <1>5, <1>6, <1>7, <1>8, <1>9, <1>10, <1>11 DEF TopicNext

\* Every step of a topic, for the catalog.
LEMMA CatalogStep ==
  ASSUME CatalogCleanIsSaved, [TopicNext]_topicVars
  PROVE  CatalogCleanIsSaved'
  <1>1. CASE \E len \in Lens : Enqueue(len) \/ EnqueueFails(len)
    BY <1>1, CatalogFrame DEF Enqueue, EnqueueFails
  <1>2. CASE \E c \in Consumers : Dequeue(c)
    BY <1>2 DEF Dequeue, UpdateOffset, CatalogCleanIsSaved
  <1>3. CASE \E c \in Consumers : \E offset \in SeekTargets : UpdateConsumerOffset(c, offset)
    BY <1>3 DEF UpdateConsumerOffset, UpdateOffset, CatalogCleanIsSaved
  <1>4. CASE Sync
    BY <1>4, CatalogFrame, CatalogSyncKeeps DEF Sync
  <1>5. CASE Close
    BY <1>5, CatalogFrame, CatalogSyncKeeps DEF Close
  <1>6. CASE Crash
    BY <1>6, CatalogFrame DEF Crash
  <1>7. CASE Load
    BY <1>7 DEF Load, CatalogLoad, CatalogCleanIsSaved
  <1>8. CASE CleanupOldMessages
    BY <1>8, CatalogFrame DEF CleanupOldMessages
  <1>9. CASE \E s \in DOMAIN dir : Age(s)
    BY <1>9, CatalogFrame DEF Age
  <1>10. CASE UNCHANGED topicVars
    BY <1>10, CatalogFrame DEF topicVars
  <1>11. QED
    BY <1>1, <1>2, <1>3, <1>4, <1>5, <1>6, <1>7, <1>8, <1>9, <1>10 DEF TopicNext

\* An index that Sync and Close would not write is the one in the file, through
\* failed writes, retention and restarts, unless the scan of a Rebuild fails
\* (index.go:139-170).
THEOREM IndexNeverSkipsWrite == ~ScanFails /\ TopicSpec => []IndexCleanIsSaved
  <1> SUFFICES ASSUME ~ScanFails PROVE TopicSpec => []IndexCleanIsSaved
    OBVIOUS
  <1>1. TopicInit => IndexCleanIsSaved
    BY DEF TopicInit, IndexInit, IndexCleanIsSaved
  <1>2. IndexCleanIsSaved /\ [TopicNext]_topicVars => IndexCleanIsSaved'
    BY IndexStep
  <1>3. QED
    BY <1>1, <1>2, PTL DEF TopicSpec

\* A catalog that Sync and Close would not write is the one in consumers.json
\* (catalog.go:180-201).
THEOREM CatalogNeverSkipsWrite == TopicSpec => []CatalogCleanIsSaved
  <1>1. TopicInit => CatalogCleanIsSaved
    BY DEF TopicInit, CatalogInit, CatalogCleanIsSaved
  <1>2. CatalogCleanIsSaved /\ [TopicNext]_topicVars => CatalogCleanIsSaved'
    BY CatalogStep
  <1>3. QED
    BY <1>1, <1>2, PTL DEF TopicSpec

-----------------------------------------------------------------------------
(* The log within the topic *)

LEMMA TopicStepOfLog ==
  ASSUME [TopicNext]_topicVars
  PROVE  [LogNext]_logVars
  <1>1. CASE \E len \in Lens : Enqueue(len)
    BY <1>1 DEF Enqueue, LogNext
  <1>2. CASE \E len \in Lens : EnqueueFails(len)
    BY <1>2 DEF EnqueueFails, LogNext
  <1>3. CASE \/ \E c \in Consumers : Dequeue(c)
             \/ \E c \in Consumers : \E offset \in SeekTargets : UpdateConsumerOffset(c, offset)
             \/ Sync
    BY <1>3 DEF Dequeue, UpdateConsumerOffset, Sync
  <1>4. CASE Close \/ Crash
    BY <1>4 DEF Close, Crash, LogNext
  <1>5. CASE Load
    BY <1>5 DEF Load, LogNext
  <1>6. CASE CleanupOldMessages
    BY <1>6 DEF CleanupOldMessages, LogNext
  <1>7. CASE \E s \in DOMAIN dir : Age(s)
    BY <1>7 DEF Age, LogNext
  <1>8. CASE UNCHANGED topicVars
    BY <1>8 DEF topicVars
  <1>9. QED
    BY <1>1, <1>2, <1>3, <1>4, <1>5, <1>6, <1>7, <1>8 DEF TopicNext

\* A topic implements the log: opening, appending, retention, closing and dying
\* act on it as SegmentLog says, whatever else of the topic they change.
THEOREM TopicRunsLog == TopicSpec => LogSpec
  <1>1. TopicInit => LogInit
    BY DEF TopicInit
  <1>2. [TopicNext]_topicVars => [LogNext]_logVars
    BY TopicStepOfLog
  <1>3. QED
    BY <1>1, <1>2, PTL DEF TopicSpec, LogSpec

\* A message whose Enqueue returned an offset stays whole and at that offset,
\* through every operation, crash and restart of its topic (topic.go:122-147).
THEOREM EnqueuedStaysInPlace == TopicSpec => []AckedInPlace
  BY TopicRunsLog, AckedStaysInPlace, PTL

\* A read of the topic from the offset of an enqueued message returns it and
\* all enqueued ones after it (topic.go:375-388).
THEOREM EnqueuedCanBeRead ==
  ~TornWrites /\ ~Retention /\ TopicSpec => [](InSpan => AckedReadable)
  BY TopicRunsLog, AckedCanBeRead, PTL

\* When an Enqueue returns an offset, a read from it returns the message at
\* once, whatever torn frames the file has before it (topic.go:122-147).
THEOREM EnqueuedReadableAtOnce == TopicSpec /\ []InSpan => LinkedAppendIsReadable
  BY TopicRunsLog, AppendIsReadable, PTL

-----------------------------------------------------------------------------
(* The offsets of the index are sorted *)

\* Retention removes the only segment, so a Rebuild finds nothing.
LEMMA NothingInOrder == DOMAIN InOrder({}) = {}
  <1> DEFINE Increasing(f) == \A i, j \in DOMAIN f : i < j => f[i] < f[j]
             None == [1 .. 0 -> {}]
  <1>1. Cardinality({}) = 0
    BY FS_EmptySet
  <1>2. [k \in {} |-> 0] \in None /\ Increasing([k \in {} |-> 0])
    OBVIOUS
  <1>3. InOrder({}) = CHOOSE f \in None : Increasing(f)
    BY <1>1 DEF InOrder
  <1>4. InOrder({}) \in None
    BY <1>2, <1>3
  <1>5. QED
    BY <1>4

LEMMA NothingScanned ==
  ASSUME LogInv, aged # {}
  PROVE  Scanned(SegmentsWithout(aged)) = <<>>
  <1> DEFINE left == SegmentsWithout(aged)
             lists == [k \in DOMAIN left |-> ScanSegment(left[k].base, left[k].positions)]
  <1>1. DOMAIN dir \ aged = {}
    BY DEF LogInv, LogTypeOK, DirOK
  <1>2. DOMAIN left = {}
    BY <1>1, NothingInOrder DEF SegmentsWithout
  <1>3. lists = <<>>
    BY <1>2
  <1>4. Scanned(left) = FlattenSeq(lists)
    BY DEF Scanned
  <1> HIDE DEF lists
  <1>5. FlattenSeq(lists) = lists
    BY <1>3 DEF FlattenSeq
  <1>6. QED
    BY <1>3, <1>4, <1>5

LEMMA IndexInvStep ==
  ASSUME IndexInv, LogInv, LogInv', [TopicNext]_topicVars
  PROVE  IndexInv'
  <1>1. ASSUME UNCHANGED indexVars PROVE IndexInv'
    BY <1>1 DEF IndexInv, indexVars
  <1>2. ASSUME NEW len \in Lens, Enqueue(len) PROVE IndexInv'
    <2> DEFINE offset == acked'[sent']
    <2>1. LogAppend(len) /\ (AddEntry(offset, offset) \/ UNCHANGED indexVars)
      BY <1>2 DEF Enqueue
    <2>2. offset \in Nat
      <3>1. sent' \in DOMAIN acked'
        BY <2>1 DEF LogAppend, Write, Put
      <3>2. QED
        BY <3>1 DEF LogInv, LogTypeOK
    <2> HIDE DEF offset
    <2>3. CASE AddEntry(offset, offset)
      BY <2>2, <2>3, InsertedIs DEF IndexInv, AddEntry
    <2>4. QED
      BY <1>1, <2>1, <2>3
  <1>3. CASE Sync \/ Close \/ Crash
    <2>1. ASSUME IndexSync PROVE IndexInv'
      BY <2>1 DEF IndexInv, IndexSync, IndexPersist
    <2>2. QED
      BY <1>1, <1>3, <2>1, StoppedPersist DEF Sync, Close, Crash
  <1>4. CASE Load
    BY <1>4 DEF Load, IndexLoad, IndexInv
  <1>5. CASE CleanupOldMessages
    <2> DEFINE left == SegmentsWithout(aged)
    <2>1. aged # {}
          /\ \/ Rebuild(left)
             \/ \E n \in 0 .. Len(Scanned(left)) : RebuildFails(left, n) \/ RebuildScanFails(left, n)
      BY <1>5 DEF CleanupOldMessages
    <2>2. Scanned(left) = <<>>
      BY <2>1, NothingScanned
    <2> HIDE DEF left
    <2>3. \A n \in 0 .. 0 : SubSeq(<<>>, 1, n) = <<>>
      OBVIOUS
    <2>4. Len(<<>>) = 0
      OBVIOUS
    <2>5. indexEntries' = <<>> /\ indexFile' \in {<<>>, indexFile}
      BY <2>1, <2>2, <2>3, <2>4 DEF Rebuild, RebuildFails, RebuildScanFails, IndexPersist, IndexPersistStops
    <2>6. QED
      BY <2>5, NoEntries DEF IndexInv
  <1>6. CASE \/ \E len \in Lens : EnqueueFails(len)
             \/ \E c \in Consumers : Dequeue(c)
             \/ \E c \in Consumers : \E offset \in SeekTargets : UpdateConsumerOffset(c, offset)
             \/ \E s \in DOMAIN dir : Age(s)
             \/ UNCHANGED topicVars
    BY <1>1, <1>6 DEF EnqueueFails, Dequeue, UpdateConsumerOffset, Age, topicVars
  <1>7. QED
    BY <1>2, <1>3, <1>4, <1>5, <1>6 DEF TopicNext

\* The index is sorted, in memory and in its file, in every reachable state.
THEOREM IndexInvariant == TopicSpec => []IndexInv
  <1>1. TopicInit => IndexInv
    BY NoEntries DEF TopicInit, IndexInit, IndexInv
  <1>2. IndexInv /\ LogInv /\ LogInv' /\ [TopicNext]_topicVars => IndexInv'
    BY IndexInvStep
  <1>3. TopicSpec => []LogInv
    BY TopicRunsLog, LogInvariant, PTL
  <1>4. QED
    BY <1>1, <1>2, <1>3, PTL DEF TopicSpec

\* The offsets of the index are strictly increasing, through failed and cut
\* writes of its file, retention, crashes and restarts: what every binary
\* search of it relies on (index.go:50-118, 191-330).
THEOREM IndexStaysSorted == TopicSpec => []IndexSorted
  <1>1. IndexInv => IndexSorted
    BY DEF IndexInv, Sorted, IndexSorted
  <1>2. QED
    BY <1>1, IndexInvariant, PTL

\* In every state of a topic, AddEntry at any offset replaces what the index has
\* there and nothing else (index.go:50-76).
THEOREM IndexIsAMap == TopicSpec => [](\A o, p \in Nat : EntryReplaced(o, p))
  <1>1. IndexInv => \A o, p \in Nat : EntryReplaced(o, p)
    BY AddEntryReplaces
  <1>2. QED
    BY <1>1, IndexInvariant, PTL

\* In every state of a topic, the lookups of the index at any offsets find what
\* a scan of it would (index.go:79-137).
THEOREM SearchFindsEntries ==
  TopicSpec =>
    [](\A o, last \in Nat : PositionFound(o) /\ ClosestFound(o) /\ RangeFound(o, last))
  <1>1. IndexInv => \A o, last \in Nat : PositionFound(o) /\ ClosestFound(o) /\ RangeFound(o, last)
    BY SearchesFind, RangeIsFound
  <1>2. QED
    BY <1>1, IndexInvariant, PTL

-----------------------------------------------------------------------------
(* Types: what a read returns, whatever offset it starts from *)

\* WholeFrom returns frames of its file.
LEMMA WholeFromType ==
  ASSUME NEW file \in Seq(Frame), Contiguous(file), NEW local
  PROVE  WholeFrom(file, local) \in Seq({file[i] : i \in DOMAIN file})
  <1> DEFINE S == {file[i] : i \in DOMAIN file}
             first == {i \in DOMAIN file : file[i].at = local}
             broken(i) == {j \in i .. Len(file) : ~IsWhole(file[j])}
             end(i) == IF broken(i) = {} THEN Len(file) ELSE Min(broken(i)) - 1
  <1>1. Len(file) \in Nat /\ DOMAIN file = 1 .. Len(file)
    OBVIOUS
  <1>2. CASE first = {}
    BY <1>2 DEF WholeFrom
  <1>3. CASE first # {}
    <2>1. PICK i \in first : TRUE
      BY <1>3
    <2>2. \A j \in first : j = i
      <3>1. ASSUME NEW j \in DOMAIN file, NEW k \in DOMAIN file, j < k
            PROVE  file[j].at # file[k].at
        <4>1. /\ file[j].at \in Nat /\ file[j].have \in Nat /\ file[j].have > 0
              /\ file[j].at + file[j].have <= file[k].at
          BY <3>1, FrameOrder
        <4>2. file[k].at \in Nat
          BY FrameOrder
        <4>3. QED
          BY <4>1, <4>2
      <3>2. QED
        BY <1>1, <2>1, <3>1
    <2>3. first = {i} /\ i \in Nat
      BY <1>1, <2>1, <2>2
    <2>4. Max(first) = i
      BY <2>3 DEF Max
    <2>5. end(i) \in Int /\ end(i) <= Len(file)
      <3>1. CASE broken(i) = {}
        BY <1>1, <3>1
      <3>2. CASE broken(i) # {}
        <4>1. broken(i) \subseteq Nat
          BY <1>1, <2>3
        <4>2. Min(broken(i)) \in broken(i)
          BY <3>2, <4>1, LeastOfNat
        <4>3. Min(broken(i)) \in Nat /\ Min(broken(i)) <= Len(file)
          BY <1>1, <4>1, <4>2
        <4>4. QED
          BY <1>1, <3>2, <4>3
      <3>3. QED
        BY <3>1, <3>2
    <2>6. WholeFrom(file, local) = SubSeq(file, i, end(i))
      BY <1>3, <2>4 DEF WholeFrom
    <2> DEFINE last == end(i)
    <2>5a. last \in Int /\ last <= Len(file)
      BY <2>5
    <2> HIDE DEF last
    <2>7. last \in Int /\ i \in Int /\ \A k \in i .. last : file[k] \in S
      BY <1>1, <2>1, <2>3, <2>5a
    <2> HIDE DEF S
    <2>8. SubSeq(file, i, last) \in Seq(S)
      BY <2>7, SubSeqProperties
    <2>9. QED
      BY <2>6, <2>8 DEF last, S
  <1>4. QED
    BY <1>2, <1>3

\* A list of n entries, each of a message sent so far or of garbage.
EntryList(entries, n) ==
  /\ n \in Nat
  /\ DOMAIN entries = 1 .. n
  /\ Len(entries) = n
  /\ \A k \in 1 .. n : entries[k].msg \in 0 .. sent

\* One list behind another.
LEMMA EntryListsJoin ==
  ASSUME NEW x, NEW m \in Nat, EntryList(x, m), NEW T, x \in Seq(T), NEW y, NEW t \in Nat,
         DOMAIN y = 1 .. t, \A k \in 1 .. t : y[k].msg \in 0 .. sent,
         y = [k \in 1 .. t |-> y[k]]
  PROVE  EntryList(x \o y, m + t)
  <1> DEFINE U == T \cup {y[k] : k \in 1 .. t}
  <1>1. y \in Seq(U) /\ Len(y) = t
    <2>1. \A k \in 1 .. t : y[k] \in U
      OBVIOUS
    <2> HIDE DEF U
    <2>2. y \in [1 .. t -> U]
      BY <2>1
    <2>3. QED
      BY <2>2
  <1>2. x \in Seq(U) /\ Len(x) = m
    BY SeqMonotonic DEF EntryList
  <1> HIDE DEF U
  <1>3. /\ Len(x \o y) = m + t
        /\ x \o y \in Seq(U)
        /\ \A i \in 1 .. m + t : (x \o y)[i] = IF i <= m THEN x[i] ELSE y[i - m]
    BY <1>1, <1>2, ConcatProperties
  <1>4. DOMAIN (x \o y) = 1 .. m + t
    BY <1>3, LenProperties
  <1>5. ASSUME NEW i \in 1 .. m + t PROVE (x \o y)[i].msg \in 0 .. sent
    <2>1. CASE i <= m
      BY <1>3, <2>1 DEF EntryList
    <2>2. CASE ~(i <= m)
      <3>1. i - m \in 1 .. t
        BY <2>2
      <3>2. QED
        BY <1>3, <2>2, <3>1
    <2>3. QED
      BY <2>1, <2>2
  <1>6. QED
    BY <1>3, <1>4, <1>5 DEF EntryList

\* What the loop takes for headers is one of finitely many places of the file.
LEMMA PlacesFinite ==
  ASSUME NEW file \in Seq(Frame), NEW start, NEW P \in HeaderPlaces(file, start)
  PROVE  Cardinality(P) \in Nat
  <1>1. EndOf(file) \in Nat
    BY EndOfType
  <1>2. P \in SUBSET (0 .. EndOf(file) - 1)
    BY DEF HeaderPlaces
  <1>3. IsFiniteSet(0 .. EndOf(file) - 1)
    BY <1>1, FS_Interval
  <1>4. QED
    BY <1>2, <1>3, FS_Subset, FS_CardinalityType

\* What stands at a place is a message of the file, or garbage.
LEMMA EntryAtType ==
  ASSUME NEW seg, NEW file, NEW p, NEW next, sent \in Nat,
         \A i \in DOMAIN file : file[i].msg \in 0 .. sent
  PROVE  EntryAt(seg, file, p, next).msg \in 0 .. sent
  <1> DEFINE frames == {i \in DOMAIN file : file[i].at = p /\ IsWhole(file[i])}
             i == CHOOSE i \in frames : TRUE
  <1>1. CASE frames = {}
    BY <1>1 DEF EntryAt, Garbage
  <1>2. CASE frames # {}
    <2>1. i \in DOMAIN file
      BY <1>2
    <2>2. EntryAt(seg, file, p, next).msg = file[i].msg
      BY <1>2 DEF EntryAt, Entry
    <2>3. QED
      BY <2>1, <2>2
  <1>3. QED
    BY <1>1, <1>2

LEMMA EntriesAtType ==
  ASSUME NEW seg, NEW file, NEW P, sent \in Nat, \A i \in DOMAIN file : file[i].msg \in 0 .. sent
  PROVE  /\ DOMAIN EntriesAt(seg, file, P) = 1 .. Cardinality(P)
         /\ EntriesAt(seg, file, P) = [k \in 1 .. Cardinality(P) |-> EntriesAt(seg, file, P)[k]]
         /\ \A k \in 1 .. Cardinality(P) : EntriesAt(seg, file, P)[k].msg \in 0 .. sent
  <1> DEFINE place(k) == CHOOSE p \in P : Cardinality({q \in P : q < p}) = k - 1
             next(p)  == Min({q \in P : q > p} \cup {EndOf(file)})
  <1> HIDE DEF place, next
  <1>1. EntriesAt(seg, file, P) =
          [k \in 1 .. Cardinality(P) |-> EntryAt(seg, file, place(k), next(place(k)))]
    BY DEF EntriesAt, place, next
  <1>2. \A k \in 1 .. Cardinality(P) : EntryAt(seg, file, place(k), next(place(k))).msg \in 0 .. sent
    BY EntryAtType
  <1>3. QED
    BY <1>1, <1>2

LEMMA ReadType ==
  ASSUME LogInv, NEW o, NEW r \in ReadFrom(o), r.ok
  PROVE  \E n \in Nat : EntryList(r.entries, n)
  <1> DEFINE seg == SegOf(o)
             file == dir[seg]
             good == WholeFrom(file, LocalOf(o))
             list == [i \in DOMAIN good |-> Entry(seg, good[i])]
             m == Len(good)
  <1>1. CASE r.entries = <<>>
    <2>1. EntryList(<<>>, 0)
      BY DEF EntryList
    <2>2. QED
      BY <1>1, <2>1
  <1>2. CASE r.entries # <<>>
    <2>1. seg \in DOMAIN dir
      BY <1>2 DEF ReadFrom, ReadError
    <2>2. file \in Seq(Frame) /\ Contiguous(file) /\ \A i \in DOMAIN file : file[i].msg \in 0 .. sent
      <3>1. /\ sent \in Nat
            /\ \A i \in DOMAIN file : file[i] \in Frame /\ file[i].msg <= sent
            /\ file \in Seq(Frame) /\ Contiguous(file)
        BY <2>1 DEF LogInv, LogTypeOK, DirOK
      <3>2. QED
        BY <3>1 DEF Frame
    <2> DEFINE S == {file[i] : i \in DOMAIN file}
    <2>3. good \in Seq(S)
      BY <2>2, WholeFromType
    <2>4. m \in Nat /\ DOMAIN good = 1 .. m /\ \A i \in 1 .. m : good[i] \in S
      <3> HIDE DEF good, S
      <3>1. QED
        BY <2>3
    <2>5. \A i \in 1 .. m : good[i].msg \in 0 .. sent
      BY <2>2, <2>4
    <2> DEFINE T == {Entry(seg, good[i]) : i \in 1 .. m}
    <2>6. list \in Seq(T) /\ Len(list) = m /\ DOMAIN list = 1 .. m
      <3> HIDE DEF good
      <3>1. list \in [1 .. m -> T]
        BY <2>4
      <3>2. QED
        BY <2>4, <3>1
    <2>7. EntryList(list, m)
      BY <2>4, <2>5, <2>6 DEF EntryList, Entry
    <2>8. CASE r.entries = list
      BY <2>4, <2>7, <2>8
    <2>9. ASSUME NEW P \in HeaderPlaces(file, IF good = <<>> THEN LocalOf(o) ELSE EndOf(good)),
                 r.entries = list \o EntriesAt(seg, file, P)
          PROVE  \E n \in Nat : EntryList(r.entries, n)
      <3> DEFINE tail == EntriesAt(seg, file, P)
                 t == Cardinality(P)
      <3>1. t \in Nat
        BY <2>2, <2>9, PlacesFinite
      <3>2. /\ DOMAIN tail = 1 .. t /\ tail = [k \in 1 .. t |-> tail[k]]
            /\ \A k \in 1 .. t : tail[k].msg \in 0 .. sent
        <4>1. sent \in Nat
          BY DEF LogInv, LogTypeOK
        <4>2. QED
          BY <2>2, <4>1, EntriesAtType
      <3> HIDE DEF tail, t, list, m
      <3>3. EntryList(list \o tail, m + t)
        BY <2>4, <2>6, <2>7, <3>1, <3>2, EntryListsJoin
      <3>4. m + t \in Nat
        BY <2>4, <3>1
      <3>5. QED
        BY <2>9, <3>3, <3>4 DEF tail
    <2>10. \/ r.entries = list
           \/ \E P \in HeaderPlaces(file, IF good = <<>> THEN LocalOf(o) ELSE EndOf(good)) :
                r.entries = list \o EntriesAt(seg, file, P)
      <3> DEFINE Ps == HeaderPlaces(file, IF good = <<>> THEN LocalOf(o) ELSE EndOf(good))
      <3>1. \/ r \in {ReadError, ReadOk(<<>>), ReadOk(list)}
            \/ \E P \in Ps : r = ReadOk(list \o EntriesAt(seg, file, P))
        <4> HIDE DEF list, Ps
        <4>1. QED
          BY <2>1 DEF ReadFrom, list, Ps
      <3> HIDE DEF list, Ps
      <3>2. CASE r \in {ReadError, ReadOk(<<>>), ReadOk(list)}
        BY <1>2, <3>2 DEF ReadError, ReadOk
      <3>3. ASSUME NEW P \in Ps, r = ReadOk(list \o EntriesAt(seg, file, P))
            PROVE  r.entries = list \o EntriesAt(seg, file, P)
        BY <3>3 DEF ReadOk
      <3>4. QED
        BY <3>1, <3>2, <3>3 DEF Ps
    <2>11. QED
      BY <2>4, <2>8, <2>9, <2>10
  <1>3. QED
    BY <1>1, <1>2

\* The messages that a Dequeue returns.
LEMMA BatchType ==
  ASSUME LogInv, NEW o, NEW r \in ReadFrom(o), r.ok
  PROVE  [i \in DOMAIN Limited(r.entries) |-> Limited(r.entries)[i].msg] \in Seq(0 .. sent)
  <1> DEFINE batch == Limited(r.entries)
  <1>1. PICK n \in Nat : EntryList(r.entries, n)
    BY ReadType
  <1>2. \E m \in Nat : DOMAIN batch = 1 .. m /\ \A k \in 1 .. m : batch[k].msg \in 0 .. sent
    <2>1. CASE n > Batch
      <3> DEFINE T == {r.entries[k] : k \in 1 .. Batch}
      <3>0. Batch \in Nat /\ Batch >= 1 /\ Batch - 1 + 1 = Batch /\ \A k \in 1 .. Batch : 1 + k - 1 = k
        BY TopicAssumption
      <3>1. batch = SubSeq(r.entries, 1, Batch)
        BY <1>1, <2>1 DEF Limited, EntryList
      <3>2. 1 \in Int /\ Batch \in Int /\ \A k \in 1 .. Batch : r.entries[k] \in T
        BY <3>0
      <3> HIDE DEF T
      <3>3. /\ SubSeq(r.entries, 1, Batch) \in Seq(T)
            /\ Len(SubSeq(r.entries, 1, Batch)) = IF 1 <= Batch THEN Batch - 1 + 1 ELSE 0
            /\ \A k \in 1 .. Batch - 1 + 1 : SubSeq(r.entries, 1, Batch)[k] = r.entries[1 + k - 1]
        BY <3>2, SubSeqProperties
      <3>4. DOMAIN batch = 1 .. Batch /\ \A k \in 1 .. Batch : batch[k] = r.entries[k]
        BY <3>0, <3>1, <3>3, LenProperties
      <3>5. \A k \in 1 .. Batch : k \in 1 .. n
        BY <2>1, <3>0
      <3> HIDE DEF batch
      <3>6. QED
        BY <1>1, <3>0, <3>4, <3>5 DEF EntryList
    <2>2. CASE ~(n > Batch)
      BY <1>1, <2>2 DEF Limited, EntryList
    <2>3. QED
      BY <2>1, <2>2
  <1> HIDE DEF batch
  <1>3. [i \in DOMAIN batch |-> batch[i].msg] \in Seq(0 .. sent)
    BY <1>2
  <1>4. QED
    BY <1>3 DEF batch

\* TopicTypeOK, and that the histories know every consumer.
TypeInv ==
  /\ DOMAIN consumers \subseteq Consumers
  /\ DOMAIN catalogFile \subseteq Consumers
  /\ got \in [Consumers -> Seq(0 .. sent)]
  /\ seen \in [Consumers -> SUBSET (0 .. sent)]

LEMMA SentGrows ==
  ASSUME LogInv, [LogNext]_logVars
  PROVE  0 .. sent \subseteq 0 .. sent'
  <1>1. sent \in Nat
    BY DEF LogInv, LogTypeOK
  <1>2. sent' = sent \/ sent' = sent + 1
    BY DEF LogNext, LogOpen, LogAppend, LogWriteFails, LogSyncFails, LogRotateFails,
           LogAppendShut, LogDiesInAppend, LogClose, LogAge, DeleteSegments, Write, logVars
  <1>3. QED
    BY <1>1, <1>2

LEMMA TypeStep ==
  ASSUME TypeInv, LogInv, LogInv', [TopicNext]_topicVars
  PROVE  TypeInv'
  <1>1. 0 .. sent \subseteq 0 .. sent' /\ sent \in Nat
    BY SentGrows, TopicStepOfLog DEF LogInv, LogTypeOK
  <1>2. /\ got \in [Consumers -> Seq(0 .. sent')]
        /\ seen \in [Consumers -> SUBSET (0 .. sent')]
    <2>1. \A s \in Seq(0 .. sent) : s \in Seq(0 .. sent')
      BY <1>1, SeqMonotonic
    <2>2. QED
      BY <1>1, <2>1 DEF TypeInv
  <1>3. ASSUME UNCHANGED <<consumers, catalogFile>>, UNCHANGED <<got, seen>> PROVE TypeInv'
    BY <1>2, <1>3 DEF TypeInv
  <1>4. ASSUME NEW c \in Consumers, Dequeue(c) PROVE TypeInv'
    <2>1. PICK r \in ReadFrom(GetOffset(c)) :
            /\ r.ok
            /\ LET batch == Limited(r.entries)
                   end   == batch[Len(batch)]
                   msgs  == [i \in DOMAIN batch |-> batch[i].msg]
               IN  /\ UpdateOffset(c, end.offset + FrameSize(end.len))
                   /\ got' = [got EXCEPT ![c] = @ \o msgs]
                   /\ seen' = [seen EXCEPT ![c] = @ \cup ToSet(msgs)]
      BY <1>4 DEF Dequeue
    <2> DEFINE msgs == [i \in DOMAIN Limited(r.entries) |-> Limited(r.entries)[i].msg]
    <2>2. msgs \in Seq(0 .. sent)
      BY <2>1, BatchType
    <2>3. got' = [got EXCEPT ![c] = got[c] \o msgs] /\ seen' = [seen EXCEPT ![c] = seen[c] \cup ToSet(msgs)]
      BY <2>1
    <2>4. DOMAIN consumers' \subseteq Consumers /\ catalogFile' = catalogFile
      BY <2>1 DEF TypeInv, UpdateOffset
    <2>5. sent' = sent
      BY <1>4 DEF Dequeue, logVars
    <2> HIDE DEF msgs
    <2>6. ToSet(msgs) \subseteq 0 .. sent
      <3>1. DOMAIN msgs = 1 .. Len(msgs) /\ \A i \in 1 .. Len(msgs) : msgs[i] \in 0 .. sent
        BY <2>2, LenProperties, ElementOfSeq
      <3>2. QED
        BY <3>1 DEF ToSet
    <2>7. got[c] \o msgs \in Seq(0 .. sent)
      <3>1. got[c] \in Seq(0 .. sent)
        BY DEF TypeInv
      <3>2. QED
        BY <2>2, <3>1, ConcatProperties
    <2>8. got' \in [Consumers -> Seq(0 .. sent)] /\ seen' \in [Consumers -> SUBSET (0 .. sent)]
      BY <2>3, <2>6, <2>7 DEF TypeInv
    <2>9. QED
      BY <2>4, <2>5, <2>8 DEF TypeInv
  <1>5. ASSUME NEW c \in Consumers, NEW o \in SeekTargets, UpdateConsumerOffset(c, o) PROVE TypeInv'
    <2>1. /\ got' = [got EXCEPT ![c] = <<>>]
          /\ seen' = [seen EXCEPT ![c] =
                        @ \cup {File[i].msg : i \in {k \in DOMAIN File : File[k].at < o}}]
          /\ sent' = sent
          /\ DOMAIN consumers' \subseteq Consumers /\ catalogFile' = catalogFile
      BY <1>5 DEF UpdateConsumerOffset, UpdateOffset, logVars, TypeInv
    <2>2. \A k \in DOMAIN File : File[k].msg \in 0 .. sent
      <3>1. 0 \in DOMAIN dir => \A k \in DOMAIN dir[0] : dir[0][k] \in Frame /\ dir[0][k].msg <= sent
        BY DEF LogInv, DirOK
      <3>2. QED
        BY <1>1, <3>1 DEF File, Frame
    <2>3. <<>> \in Seq(0 .. sent)
      OBVIOUS
    <2>4. seen' \in [Consumers -> SUBSET (0 .. sent)]
      BY <2>1, <2>2 DEF TypeInv
    <2>5. got' \in [Consumers -> Seq(0 .. sent)]
      BY <2>1, <2>3 DEF TypeInv
    <2>6. QED
      BY <2>1, <2>4, <2>5 DEF TypeInv
  <1>6. CASE Load
    <2>1. /\ consumers' = catalogFile /\ catalogFile' = catalogFile
          /\ got' = [c \in Consumers |-> <<>>] /\ seen' = seen
      BY <1>6 DEF Load, CatalogLoad
    <2>2. <<>> \in Seq(0 .. sent')
      OBVIOUS
    <2>3. QED
      BY <1>2, <2>1, <2>2 DEF TypeInv
  <1>7. CASE Sync \/ Close
    <2>1. UNCHANGED <<got, seen>> /\ (CatalogSync \/ UNCHANGED catalogVars)
      BY <1>7 DEF Sync, Close, historyVars
    <2>2. QED
      BY <1>2, <2>1 DEF TypeInv, CatalogSync, catalogVars
  <1>8. CASE \/ \E len \in Lens : Enqueue(len) \/ EnqueueFails(len)
             \/ Crash \/ CleanupOldMessages
             \/ \E s \in DOMAIN dir : Age(s)
             \/ UNCHANGED topicVars
    BY <1>3, <1>8 DEF Enqueue, EnqueueFails, Crash, CleanupOldMessages, Age, topicVars,
                      catalogVars, historyVars
  <1>9. QED
    BY <1>4, <1>5, <1>6, <1>7, <1>8 DEF TopicNext

\* Type correctness: whatever a consumer reads, also from an offset that is no
\* start of a message or behind a torn frame, is a message sent or garbage.
THEOREM TopicTypeCorrect == TopicSpec => []TopicTypeOK
  <1>1. TopicInit => TypeInv
    <2> SUFFICES ASSUME TopicInit PROVE TypeInv
      OBVIOUS
    <2>1. <<>> \in Seq(0 .. sent)
      OBVIOUS
    <2>2. QED
      BY <2>1 DEF TopicInit, CatalogInit, NoConsumers, TypeInv
  <1>2. TypeInv /\ LogInv /\ LogInv' /\ [TopicNext]_topicVars => TypeInv'
    BY TypeStep
  <1>3. TopicSpec => []LogInv
    BY TopicRunsLog, LogInvariant, PTL
  <1>4. TypeInv /\ LogInv => TopicTypeOK
    BY DEF TypeInv, LogInv, TopicTypeOK
  <1>5. QED
    BY <1>1, <1>2, <1>3, <1>4, PTL DEF TopicSpec

-----------------------------------------------------------------------------
(* Boundaries of a file that grows *)

\* One file is another with frames added.
Grows(f, g) ==
  /\ Len(f) <= Len(g)
  /\ \A i \in DOMAIN f : g[i] = f[i]

BoundariesOf(f) == {f[i].at : i \in DOMAIN f} \cup {EndOf(f)}

LEMMA BoundaryOrder ==
  ASSUME NEW f \in Seq(Frame), Contiguous(f), NEW b \in BoundariesOf(f)
  PROVE  b \in Nat /\ b <= EndOf(f)
  <1>1. EndOf(f) \in Nat
    BY EndOfType
  <1>2. CASE b = EndOf(f)
    BY <1>1, <1>2
  <1>3. ASSUME NEW i \in DOMAIN f, b = f[i].at PROVE b \in Nat /\ b <= EndOf(f)
    BY <1>3, FrameOrder
  <1>4. QED
    BY <1>2, <1>3 DEF BoundariesOf

\* A file that grows keeps its boundaries, and what is new begins at its end.
LEMMA GrowingFile ==
  ASSUME NEW f \in Seq(Frame), NEW g \in Seq(Frame), Contiguous(f), Contiguous(g), Grows(f, g)
  PROVE  /\ BoundariesOf(f) \subseteq BoundariesOf(g)
         /\ EndOf(f) <= EndOf(g)
         /\ \A k \in DOMAIN g : k \in DOMAIN f \/ g[k].at >= EndOf(f)
  <1>1. /\ Len(f) \in Nat /\ Len(g) \in Nat /\ DOMAIN f = 1 .. Len(f) /\ DOMAIN g = 1 .. Len(g)
        /\ EndOf(f) \in Nat /\ EndOf(g) \in Nat
    BY EndOfType
  <1>2. \A i \in DOMAIN f : i \in DOMAIN g /\ g[i] = f[i]
    BY <1>1 DEF Grows
  <1>3. CASE f = <<>>
    <2>1. EndOf(f) = 0 /\ DOMAIN f = {}
      BY <1>3 DEF EndOf
    <2>2. 0 \in BoundariesOf(g)
      <3>1. CASE g = <<>>
        BY <3>1 DEF EndOf, BoundariesOf
      <3>2. CASE g # <<>>
        <4>1. 1 \in DOMAIN g
          BY <3>2
        <4>2. g[1].at = 0
          BY <4>1 DEF Contiguous
        <4>3. QED
          BY <4>1, <4>2 DEF BoundariesOf
      <3>3. QED
        BY <3>1, <3>2
    <2>3. \A k \in DOMAIN g : g[k].at >= 0
      BY FrameOrder
    <2>4. QED
      BY <1>1, <2>1, <2>2, <2>3 DEF BoundariesOf
  <1>4. CASE f # <<>>
    <2> DEFINE n == Len(f)
    <2>1. n \in DOMAIN f /\ n \in DOMAIN g /\ g[n] = f[n] /\ n \in Nat
      BY <1>1, <1>2, <1>4
    <2>2. EndOf(f) = g[n].at + g[n].have
      BY <1>4, <2>1 DEF EndOf
    <2> HIDE DEF n
    <2>3. EndOf(f) <= EndOf(g) /\ EndOf(f) \in BoundariesOf(g)
      <3>1. EndOf(f) <= EndOf(g)
        BY <2>1, <2>2, FrameOrder
      <3>2. CASE n = Len(g)
        BY <2>1, <2>2, <3>2, FrameOrder DEF BoundariesOf
      <3>3. CASE n # Len(g)
        <4>1. n + 1 \in DOMAIN g
          BY <1>1, <2>1, <3>3
        <4>2. g[n + 1].at = EndOf(f)
          BY <2>1, <2>2, <3>3, FrameOrder
        <4>3. QED
          BY <3>1, <4>1, <4>2 DEF BoundariesOf
      <3>4. QED
        BY <3>1, <3>2, <3>3
    <2>4. ASSUME NEW k \in DOMAIN g, k \notin DOMAIN f PROVE g[k].at >= EndOf(f)
      <3>1. n < k
        BY <1>1, <2>1, <2>4 DEF n
      <3>2. g[n].at + g[n].have <= g[k].at
        BY <2>1, <3>1, FrameOrder
      <3>3. g[k].at \in Nat
        BY FrameOrder
      <3>4. QED
        BY <1>1, <2>2, <3>2, <3>3
    <2>5. BoundariesOf(f) \subseteq BoundariesOf(g)
      BY <1>2, <2>3 DEF BoundariesOf
    <2>6. QED
      BY <2>3, <2>4, <2>5
  <1>5. QED
    BY <1>3, <1>4

-----------------------------------------------------------------------------
(* The topic's file *)

LEMMA FileType ==
  ASSUME LogInv
  PROVE  /\ File \in Seq(Frame) /\ Contiguous(File)
         /\ Boundaries = BoundariesOf(File)
         /\ InSpan <=> EndOf(File) < SegSpan
  <1>1. CASE 0 \in DOMAIN dir
    BY <1>1 DEF LogInv, DirOK, File, Boundaries, BoundariesOf, InSpan
  <1>2. CASE 0 \notin DOMAIN dir
    <2>1. File = <<>> /\ DOMAIN dir = {}
      BY <1>2 DEF LogInv, DirOK, File
    <2>2. <<>> \in Seq(Frame) /\ Contiguous(<<>>)
      BY DEF Contiguous
    <2>3. EndOf(<<>>) = 0 /\ 0 < SegSpan
      BY LogAssumption DEF EndOf
    <2>4. QED
      BY <2>1, <2>2, <2>3 DEF Boundaries, BoundariesOf, InSpan
  <1>3. QED
    BY <1>1, <1>2

LEMMA FileTypeNext ==
  ASSUME LogInv'
  PROVE  /\ File' \in Seq(Frame) /\ Contiguous(File')
         /\ Boundaries' = BoundariesOf(File')
         /\ InSpan' <=> EndOf(File') < SegSpan
  <1>1. CASE 0 \in DOMAIN dir'
    BY <1>1 DEF LogInv, DirOK, File, Boundaries, BoundariesOf, InSpan
  <1>2. CASE 0 \notin DOMAIN dir'
    <2>1. File' = <<>> /\ DOMAIN dir' = {}
      BY <1>2 DEF LogInv, DirOK, File
    <2>2. <<>> \in Seq(Frame) /\ Contiguous(<<>>)
      BY DEF Contiguous
    <2>3. EndOf(<<>>) = 0 /\ 0 < SegSpan
      BY LogAssumption DEF EndOf
    <2>4. QED
      BY <2>1, <2>2, <2>3 DEF Boundaries, BoundariesOf, InSpan
  <1>3. QED
    BY <1>1, <1>2

\* Without retention no step takes a frame away.
LEMMA DirGrowing ==
  ASSUME LogInv, ~Retention, [LogNext]_logVars
  PROVE  \A s \in DOMAIN dir :
           /\ s \in DOMAIN dir'
           /\ \A i \in DOMAIN dir[s] : i \in DOMAIN dir'[s] /\ dir'[s][i] = dir[s][i]
  <1>1. ASSUME NEW len \in Lens, NEW have \in 0 .. FrameSize(len), fd # "closed", ~writerErr,
               dir' = Written(WriterFor(len), sent + 1, len, have)
        PROVE  Extends(dir, dir', NewFrame(len, have))
    BY <1>1, WriteEffect
  <1>0. ASSUME NEW len \in Lens PROVE FrameSize(len) \in 0 .. FrameSize(len)
    BY LogAssumption DEF FrameSize
  <1>2. CASE LogOpen
    <2>1. Extends(dir, OpenCurrentSegment(dir).dir, NoFrame)
      BY OpenSegment DEF LogInv, LogTypeOK
    <2>2. QED
      BY <1>2, <2>1 DEF LogOpen, Extends
  <1>3. ASSUME NEW len \in Lens, LogAppend(len) \/ LogSyncFails(len)
        PROVE  Extends(dir, dir', NewFrame(len, FrameSize(len)))
    BY <1>0, <1>1, <1>3 DEF LogAppend, LogSyncFails, Write
  <1>4. ASSUME NEW len \in Lens, NEW have \in 0 .. FrameSize(len), NEW counted \in BOOLEAN,
               LogWriteFails(len, have, counted) \/ LogDiesInAppend(len, have)
        PROVE  Extends(dir, dir', NewFrame(len, have))
    BY <1>1, <1>4 DEF LogWriteFails, LogDiesInAppend, Write
  <1>5. ~(aged # {} /\ DeleteSegments(aged))
    BY DEF LogInv
  <1>6. CASE \/ \E len \in Lens : LogRotateFails(len) \/ LogAppendShut(len)
             \/ LogClose
             \/ \E s \in DOMAIN dir : LogAge(s)
             \/ UNCHANGED logVars
    BY <1>6 DEF LogRotateFails, LogAppendShut, LogClose, LogAge, logVars
  <1>7. TRUE \in BOOLEAN
    OBVIOUS
  <1>8. QED
    BY <1>2, <1>3, <1>4, <1>5, <1>6, <1>7 DEF LogNext, Extends

LEMMA FileGrowing ==
  ASSUME LogInv, LogInv', ~Retention, [LogNext]_logVars
  PROVE  /\ Boundaries \subseteq Boundaries'
         /\ InSpan' => InSpan
         /\ \A i \in DOMAIN File : i \in DOMAIN File' /\ File'[i] = File[i]
         /\ \A k \in DOMAIN File' : k \in DOMAIN File \/ File'[k].at >= EndOf(File)
  <1>1. /\ File \in Seq(Frame) /\ Contiguous(File) /\ Boundaries = BoundariesOf(File)
        /\ InSpan <=> EndOf(File) < SegSpan
    BY FileType
  <1>2. /\ File' \in Seq(Frame) /\ Contiguous(File') /\ Boundaries' = BoundariesOf(File')
        /\ InSpan' <=> EndOf(File') < SegSpan
    BY FileTypeNext
  <1>3. \A i \in DOMAIN File : i \in DOMAIN File' /\ File'[i] = File[i]
    BY DirGrowing DEF File
  <1>4. Grows(File, File')
    <2>1. Len(File) \in Nat /\ Len(File') \in Nat
            /\ DOMAIN File = 1 .. Len(File) /\ DOMAIN File' = 1 .. Len(File')
      BY <1>1, <1>2
    <2>2. Len(File) <= Len(File')
      BY <1>3, <2>1
    <2>3. QED
      BY <1>3, <2>2 DEF Grows
  <1>5. /\ BoundariesOf(File) \subseteq BoundariesOf(File')
        /\ EndOf(File) <= EndOf(File')
        /\ \A k \in DOMAIN File' : k \in DOMAIN File \/ File'[k].at >= EndOf(File)
    BY <1>1, <1>2, <1>4, GrowingFile
  <1>6. EndOf(File) \in Nat /\ EndOf(File') \in Nat /\ SegSpan \in Nat
    BY <1>1, <1>2, EndOfType, LogAssumption
  <1>7. QED
    BY <1>1, <1>2, <1>3, <1>5, <1>6

-----------------------------------------------------------------------------
(* What a Dequeue reads, and where a seek goes *)

\* The messages of a Dequeue are those of consecutive frames, from the one at
\* the offset it reads from, and at most Batch; fewer only if no more follow.
LEMMA BatchOfFrames ==
  ASSUME LogInv, WholeInv, ~TornWrites, InSpan,
         NEW o \in Boundaries, NEW r \in ReadFrom(o), r.ok, r.entries # <<>>
  PROVE  \E i, last \in DOMAIN File :
           /\ i <= last
           /\ o = File[i].at
           /\ last - i + 1 <= Batch
           /\ last - i + 1 < Batch => last = Len(File)
           /\ Len(Limited(r.entries)) = last - i + 1
           /\ DOMAIN Limited(r.entries) = 1 .. last - i + 1
           /\ \A k \in 1 .. last - i + 1 :
                Limited(r.entries)[k] = Entry(0, File[k + i - 1])
  <1>1. /\ File \in Seq(Frame) /\ Contiguous(File) /\ Boundaries = BoundariesOf(File)
        /\ EndOf(File) < SegSpan
    BY FileType
  <1>2. o \in Nat /\ o <= EndOf(File) /\ EndOf(File) \in Nat
    BY <1>1, BoundaryOrder, EndOfType
  <1>3. SegOf(o) = 0 /\ LocalOf(o) = o
    <2>1. SegSpan \in Nat /\ o < SegSpan
      BY <1>1, <1>2, LogAssumption
    <2>2. QED
      BY <1>2, <2>1 DEF SegOf, LocalOf
  <1>4. 0 \in DOMAIN dir /\ File = dir[0]
    <2>1. 0 \in DOMAIN dir
      <3>1. 0 \notin DOMAIN dir => ReadFrom(o) = {ReadError}
        BY <1>3 DEF ReadFrom
      <3>2. QED
        BY <3>1 DEF ReadError
    <2>2. QED
      BY <2>1 DEF File
  <1>5. o # EndOf(File)
    <2>1. o >= EndOf(File) => ReadFrom(o) = {ReadOk(<<>>)}
      BY <1>3, <1>4 DEF ReadFrom
    <2>2. o = EndOf(File) => r.entries = <<>>
      BY <1>2, <2>1 DEF ReadOk
    <2>3. QED
      BY <2>2
  <1>6. PICK i \in DOMAIN File : o = File[i].at
    BY <1>1, <1>5 DEF BoundariesOf
  <1> DEFINE n == Len(File) - i + 1
  <1>7. /\ Len(r.entries) = n
        /\ DOMAIN r.entries = 1 .. n
        /\ \A k \in 1 .. n : r.entries[k] = Entry(0, File[k + i - 1])
    <2>1. sent \in Nat /\ DirOK(dir, sent) /\ AllWhole(dir) /\ EndOf(dir[0]) < SegSpan
      BY <1>1, <1>4 DEF LogInv, LogTypeOK, WholeInv
    <2>2. i \in DOMAIN dir[0] /\ r \in ReadFrom(dir[0][i].at)
      BY <1>4, <1>6
    <2>3. \A j \in i .. Len(dir[0]) : IsWhole(dir[0][j])
      <3>1. i \in 1 .. Len(dir[0]) /\ DOMAIN dir[0] = 1 .. Len(dir[0])
        BY <1>1, <1>4, <2>2
      <3>2. QED
        BY <1>4, <2>1, <3>1 DEF AllWhole
    <2>4. QED
      BY <1>4, <2>1, <2>2, <2>3, WholeRead
  <1>8. i \in 1 .. Len(File) /\ Len(File) \in Nat /\ n \in Nat /\ n >= 1
    BY <1>1
  <1> DEFINE size == IF n > Batch THEN Batch ELSE n
             batch == Limited(r.entries)
             last == size + i - 1
  <1>9. size \in 1 .. n /\ Batch \in Nat /\ Batch >= 1
    BY <1>8, TopicAssumption
  <1>10. /\ Len(batch) = size
         /\ DOMAIN batch = 1 .. size
         /\ \A k \in 1 .. size : batch[k] = r.entries[k]
    <2>1. CASE n > Batch
      <3> DEFINE S == {r.entries[k] : k \in 1 .. Batch}
      <3>1. batch = SubSeq(r.entries, 1, Batch)
        BY <1>7, <2>1 DEF Limited
      <3>2. 1 \in Int /\ Batch \in Int /\ \A k \in 1 .. Batch : r.entries[k] \in S
        BY <1>9
      <3>3. /\ SubSeq(r.entries, 1, Batch) \in Seq(S)
            /\ Len(SubSeq(r.entries, 1, Batch)) = IF 1 <= Batch THEN Batch - 1 + 1 ELSE 0
            /\ \A k \in 1 .. Batch - 1 + 1 :
                 SubSeq(r.entries, 1, Batch)[k] = r.entries[1 + k - 1]
        BY <3>2, SubSeqProperties
      <3> HIDE DEF S
      <3>4. Batch - 1 + 1 = Batch /\ size = Batch
        BY <1>9, <2>1
      <3>5. \A k \in 1 .. Batch : 1 + k - 1 = k
        BY <1>9
      <3>6. Len(batch) = Batch /\ \A k \in 1 .. Batch : batch[k] = r.entries[k]
        BY <1>9, <3>1, <3>3, <3>4, <3>5
      <3>7. DOMAIN batch = 1 .. Len(batch)
        BY <3>1, <3>3, LenProperties
      <3>8. QED
        BY <3>4, <3>6, <3>7
    <2>2. CASE ~(n > Batch)
      BY <1>7, <1>8, <1>9, <2>2 DEF Limited
    <2>3. QED
      BY <2>1, <2>2
  <1>10a. size <= Batch /\ (size < Batch => size = n)
    BY <1>8, <1>9
  <1> HIDE DEF batch, size
  <1>11. last \in DOMAIN File /\ i <= last /\ last - i + 1 = size
    <2>1. size \in Int /\ 1 <= size /\ size <= Len(File) - i + 1 /\ i \in Int
      BY <1>8, <1>9
    <2>2. last \in Int /\ i <= last /\ last <= Len(File) /\ last - i + 1 = size
      BY <1>8, <2>1
    <2>3. QED
      BY <1>1, <1>8, <2>2
  <1>12. ASSUME NEW k \in 1 .. size PROVE batch[k] = Entry(0, File[k + i - 1])
    <2> HIDE DEF n
    <2>1. k \in 1 .. n
      BY <1>8, <1>9
    <2>2. QED
      BY <1>7, <1>10, <2>1
  <1>13. size = n => last = Len(File)
    BY <1>8
  <1>14. QED
    BY <1>6, <1>10, <1>10a, <1>11, <1>12, <1>13 DEF batch

\* The offset behind a frame is a boundary, and the frames before it are those
\* before the frame, and the frame.
LEMMA BehindFrame ==
  ASSUME LogInv, WholeInv, ~TornWrites, NEW last \in DOMAIN File
  PROVE  LET e == Entry(0, File[last]).offset + FrameSize(Entry(0, File[last]).len)
         IN  /\ e \in Boundaries
             /\ \A k \in DOMAIN File : k <= last \/ File[k].at >= e
  <1> DEFINE e == Entry(0, File[last]).offset + FrameSize(Entry(0, File[last]).len)
  <1>1. File \in Seq(Frame) /\ Contiguous(File) /\ Boundaries = BoundariesOf(File)
    BY FileType
  <1>2. IsWhole(File[last]) /\ File[last] \in Frame
    BY <1>1 DEF File, WholeInv, AllWhole
  <1>3. e = File[last].at + File[last].have
    BY <1>2, LogAssumption DEF Entry, GlobalOffset, IsWhole, Frame
  <1> HIDE DEF e
  <1>4. /\ e = IF last = Len(File) THEN EndOf(File) ELSE File[last + 1].at
        /\ \A k \in DOMAIN File : last < k => e <= File[k].at
        /\ e \in Nat
    BY <1>1, <1>3, FrameOrder
  <1>5. last \in 1 .. Len(File) /\ Len(File) \in Nat /\ DOMAIN File = 1 .. Len(File)
    BY <1>1
  <1>6. e \in BoundariesOf(File)
    <2>1. CASE last = Len(File)
      BY <1>4, <2>1 DEF BoundariesOf
    <2>2. CASE last # Len(File)
      BY <1>4, <1>5, <2>2 DEF BoundariesOf
    <2>3. QED
      BY <2>1, <2>2
  <1>7. ASSUME NEW k \in DOMAIN File PROVE k <= last \/ File[k].at >= e
    <2>1. File[k].at \in Nat
      BY <1>1, FrameOrder
    <2>2. QED
      BY <1>4, <1>5, <2>1
  <1>8. QED
    BY <1>1, <1>6, <1>7 DEF e

\* The beginning, an acknowledged offset and the end the writer counts are
\* boundaries.
LEMMA SeekTargetsOnFrames ==
  ASSUME LogInv, DurableInv, ~Retention, ~BlindSeeks, ~Closed
  PROVE  SeekTargets \subseteq Boundaries
  <1>1. 0 \in Boundaries
    <2>1. CASE File = <<>>
      BY <2>1 DEF Boundaries, EndOf
    <2>2. CASE File # <<>>
      <3>1. 1 \in DOMAIN File /\ Contiguous(File)
        BY <2>2, FileType
      <3>2. File[1].at = 0
        BY <3>1 DEF Contiguous
      <3>3. QED
        BY <3>1, <3>2 DEF Boundaries
    <2>3. QED
      BY <2>1, <2>2
  <1>2. Range(acked) \subseteq Boundaries
    BY DEF DurableInv, InPlace, Range, Boundaries, File
  <1>3. ~writerErr => GetSize \in Boundaries
    <2>1. ASSUME ~writerErr PROVE fd = "linked"
      BY <2>1 DEF LogInv, LogTypeOK, Closed
    <2>2. ASSUME ~writerErr PROVE currentSize = EndOf(File) /\ currentSize \in Nat /\ segmentIndex = 0
      BY <2>1, <2>2 DEF LogInv, LogTypeOK, File
    <2>3. QED
      BY <2>2, LogAssumption DEF GetSize, GlobalOffset, Boundaries
  <1>4. QED
    BY <1>1, <1>2, <1>3 DEF SeekTargets

-----------------------------------------------------------------------------
(* The invariant *)

\* The offsets of consumer c, in the memory of an open topic and on disk.
OffsetsOf(c) ==
  {o \in {GetOffset(c)} : ~Closed} \cup {OffsetIn(catalogFile, c)}

\* No message that c has not seen lies before one of its offsets.
AllSeen(c) ==
  \A i \in DOMAIN File : File[i].msg \in seen[c] \/ \A o \in OffsetsOf(c) : File[i].at >= o

DeliveryInv ==
  /\ DOMAIN seen = Consumers
  /\ InSpan => \A c \in Consumers : OffsetsOf(c) \subseteq Boundaries /\ AllSeen(c)

\* What all steps of a topic share.
LEMMA OffsetsStay ==
  ASSUME LogInv, LogInv', ~Retention, [LogNext]_logVars, NEW c \in Consumers,
         OffsetsOf(c) \subseteq Boundaries, AllSeen(c),
         OffsetsOf(c)' \subseteq OffsetsOf(c), seen[c] \subseteq seen'[c]
  PROVE  OffsetsOf(c)' \subseteq Boundaries' /\ AllSeen(c)'
  <1>1. /\ File \in Seq(Frame) /\ Contiguous(File) /\ Boundaries = BoundariesOf(File)
        /\ File' \in Seq(Frame) /\ Contiguous(File')
    BY FileType, FileTypeNext
  <1>2. /\ Boundaries \subseteq Boundaries'
        /\ \A i \in DOMAIN File : i \in DOMAIN File' /\ File'[i] = File[i]
        /\ \A k \in DOMAIN File' : k \in DOMAIN File \/ File'[k].at >= EndOf(File)
    BY FileGrowing
  <1>3. ASSUME NEW k \in DOMAIN File', File'[k].msg \notin seen'[c], NEW o \in OffsetsOf(c)'
        PROVE  File'[k].at >= o
    <2>1. o \in OffsetsOf(c)
      BY <1>3
    <2>2. CASE k \in DOMAIN File
      BY <1>2, <1>3, <2>1, <2>2 DEF AllSeen
    <2>3. CASE k \notin DOMAIN File
      <3>1. o \in Nat /\ o <= EndOf(File) /\ EndOf(File) \in Nat
        BY <1>1, <2>1, BoundaryOrder, EndOfType
      <3>2. File'[k].at \in Nat
        BY <1>1, FrameOrder
      <3>3. File'[k].at >= EndOf(File)
        BY <1>2, <2>3
      <3>4. QED
        BY <3>1, <3>2, <3>3
    <2>4. QED
      BY <2>2, <2>3
  <1>4. AllSeen(c)'
    BY <1>3 DEF AllSeen
  <1>5. QED
    BY <1>2, <1>4

\* The step of consumer c to another boundary, over messages it has then seen.
LEMMA OffsetMoves ==
  ASSUME NEW c \in Consumers, NEW o \in Boundaries,
         OffsetsOf(c) \subseteq Boundaries, AllSeen(c), UNCHANGED logVars,
         OffsetsOf(c)' \subseteq OffsetsOf(c) \cup {o}, seen[c] \subseteq seen'[c],
         \A k \in DOMAIN File : File[k].msg \in seen'[c] \/ File[k].at >= o
  PROVE  OffsetsOf(c)' \subseteq Boundaries' /\ AllSeen(c)'
  <1>1. UNCHANGED <<File, Boundaries>>
    BY DEF logVars, File, Boundaries
  <1>2. QED
    BY <1>1 DEF AllSeen

\* UpdateOffset moves one consumer.
LEMMA UpdateOffsetMoves ==
  ASSUME NEW c \in Consumers, NEW o, UpdateOffset(c, o), ~Closed, UNCHANGED fd
  PROVE  /\ OffsetsOf(c)' \subseteq OffsetsOf(c) \cup {o}
         /\ \A d \in Consumers \ {c} : OffsetsOf(d)' = OffsetsOf(d)
  <1>1. GetOffset(c)' = o /\ \A d \in Consumers \ {c} : GetOffset(d)' = GetOffset(d)
    BY DEF UpdateOffset, GetOffset, OffsetIn
  <1>2. \A d \in Consumers : OffsetIn(catalogFile, d)' = OffsetIn(catalogFile, d)
    BY DEF UpdateOffset, OffsetIn
  <1>3. Closed' <=> Closed
    BY DEF Closed
  <1>4. QED
    BY <1>1, <1>2, <1>3 DEF OffsetsOf

LEMMA DequeueKeeps ==
  ASSUME DeliveryInv, InSpan, LogInv, LogInv', WholeInv, ~TornWrites, ~Retention,
         NEW c \in Consumers, Dequeue(c), NEW d \in Consumers
  PROVE  OffsetsOf(d)' \subseteq Boundaries' /\ AllSeen(d)'
  <1>0. /\ \A e \in Consumers : OffsetsOf(e) \subseteq Boundaries /\ AllSeen(e)
        /\ DOMAIN seen = Consumers
    BY DEF DeliveryInv
  <1>1. PICK r \in ReadFrom(GetOffset(c)) :
          /\ r.ok
          /\ r.entries # <<>>
          /\ LET batch == Limited(r.entries)
                 end   == batch[Len(batch)]
                 msgs  == [i \in DOMAIN batch |-> batch[i].msg]
             IN  /\ UpdateOffset(c, end.offset + FrameSize(end.len))
                 /\ seen' = [seen EXCEPT ![c] = @ \cup ToSet(msgs)]
    BY DEF Dequeue
  <1>2. ~Closed /\ UNCHANGED logVars
    BY DEF Dequeue
  <1>3. UNCHANGED fd
    BY <1>2 DEF logVars
  <1> DEFINE batch == Limited(r.entries)
             msgs == [i \in DOMAIN batch |-> batch[i].msg]
  <1>4. GetOffset(c) \in Boundaries
    BY <1>0, <1>2 DEF OffsetsOf
  <1>5. PICK i, last \in DOMAIN File :
          /\ i <= last
          /\ GetOffset(c) = File[i].at
          /\ Len(batch) = last - i + 1
          /\ DOMAIN batch = 1 .. last - i + 1
          /\ \A k \in 1 .. last - i + 1 : batch[k] = Entry(0, File[k + i - 1])
    BY <1>1, <1>4, BatchOfFrames
  <1>6. /\ File \in Seq(Frame) /\ Contiguous(File)
        /\ DOMAIN File = 1 .. Len(File) /\ Len(File) \in Nat
    BY FileType
  <1>7. batch[Len(batch)] = Entry(0, File[last])
    <2>1. last - i + 1 \in 1 .. last - i + 1 /\ (last - i + 1) + i - 1 = last
      BY <1>5, <1>6
    <2>2. QED
      BY <1>5, <2>1
  <1> DEFINE o == Entry(0, File[last]).offset + FrameSize(Entry(0, File[last]).len)
  <1>8. o \in Boundaries /\ \A k \in DOMAIN File : k <= last \/ File[k].at >= o
    BY BehindFrame
  <1>9. UpdateOffset(c, o) /\ seen' = [seen EXCEPT ![c] = @ \cup ToSet(msgs)]
    BY <1>1, <1>7
  <1> HIDE DEF o
  <1>10. \A k \in i .. last : File[k].msg \in ToSet(msgs)
    <2> SUFFICES ASSUME NEW k \in i .. last PROVE File[k].msg \in ToSet(msgs)
      OBVIOUS
    <2>1. k - i + 1 \in 1 .. last - i + 1 /\ (k - i + 1) + i - 1 = k
      BY <1>5, <1>6
    <2>2. k - i + 1 \in DOMAIN msgs /\ msgs[k - i + 1] = batch[k - i + 1].msg
      BY <1>5, <2>1
    <2>3. batch[k - i + 1].msg = File[k].msg
      <3>1. batch[k - i + 1] = Entry(0, File[(k - i + 1) + i - 1])
        BY <1>5, <2>1
      <3>2. batch[k - i + 1] = Entry(0, File[k])
        BY <2>1, <3>1
      <3>3. QED
        BY <3>2 DEF Entry
    <2>4. QED
      BY <2>2, <2>3 DEF ToSet
  <1> HIDE DEF msgs, batch
  <1>11. CASE d = c
    <2>1. seen'[c] = seen[c] \cup ToSet(msgs)
      BY <1>0, <1>9
    <2>2. ASSUME NEW k \in DOMAIN File PROVE File[k].msg \in seen'[c] \/ File[k].at >= o
      <3>1. CASE k < i
        <4>1. File[k].at + File[k].have <= File[i].at /\ File[k].have > 0
                /\ File[k].at \in Nat /\ File[k].have \in Nat /\ File[i].at \in Nat
          BY <1>6, <3>1, FrameOrder
        <4>2. ~(File[k].at >= GetOffset(c))
          BY <1>5, <4>1
        <4>3. GetOffset(c) \in OffsetsOf(c)
          BY <1>2 DEF OffsetsOf
        <4>4. File[k].msg \in seen[c]
          BY <1>0, <4>2, <4>3 DEF AllSeen
        <4>5. QED
          BY <2>1, <4>4
      <3>2. CASE k \in i .. last
        BY <1>10, <2>1, <3>2
      <3>3. CASE ~(k <= last)
        BY <1>8, <3>3
      <3>4. QED
        BY <1>6, <3>1, <3>2, <3>3
    <2>3. OffsetsOf(c)' \subseteq OffsetsOf(c) \cup {o}
      BY <1>2, <1>3, <1>9, UpdateOffsetMoves
    <2>4. OffsetsOf(c)' \subseteq Boundaries' /\ AllSeen(c)'
      BY <1>0, <1>2, <1>8, <2>1, <2>2, <2>3, OffsetMoves
    <2>5. QED
      BY <1>11, <2>4
  <1>12. CASE d # c
    <2>1. OffsetsOf(d)' = OffsetsOf(d) /\ seen'[d] = seen[d]
      BY <1>0, <1>2, <1>3, <1>9, <1>12, UpdateOffsetMoves
    <2>2. [LogNext]_logVars
      BY <1>2
    <2>3. QED
      BY <1>0, <2>1, <2>2, OffsetsStay
  <1>13. QED
    BY <1>11, <1>12

LEMMA SeekKeeps ==
  ASSUME DeliveryInv, InSpan, LogInv, LogInv', DurableInv, ~Retention, ~BlindSeeks,
         NEW c \in Consumers, NEW o \in SeekTargets, UpdateConsumerOffset(c, o),
         NEW d \in Consumers
  PROVE  OffsetsOf(d)' \subseteq Boundaries' /\ AllSeen(d)'
  <1>0. /\ \A e \in Consumers : OffsetsOf(e) \subseteq Boundaries /\ AllSeen(e)
        /\ DOMAIN seen = Consumers
    BY DEF DeliveryInv
  <1>1. /\ ~Closed /\ UNCHANGED logVars /\ UpdateOffset(c, o)
        /\ seen' = [seen EXCEPT ![c] =
                      @ \cup {File[i].msg : i \in {k \in DOMAIN File : File[k].at < o}}]
    BY DEF UpdateConsumerOffset
  <1>2. UNCHANGED fd
    BY <1>1 DEF logVars
  <1>3. o \in Boundaries
    BY <1>1, SeekTargetsOnFrames
  <1>4. CASE d = c
    <2>1. seen'[c] = seen[c] \cup {File[i].msg : i \in {k \in DOMAIN File : File[k].at < o}}
      BY <1>0, <1>1
    <2>2. ASSUME NEW k \in DOMAIN File PROVE File[k].msg \in seen'[c] \/ File[k].at >= o
      <3>1. File[k].at \in Nat /\ o \in Nat
        BY <1>3, FileType, FrameOrder, BoundaryOrder
      <3>2. CASE File[k].at < o
        BY <2>1, <3>2
      <3>3. QED
        BY <3>1, <3>2
    <2>3. OffsetsOf(c)' \subseteq OffsetsOf(c) \cup {o}
      BY <1>1, <1>2, UpdateOffsetMoves
    <2>4. OffsetsOf(c)' \subseteq Boundaries' /\ AllSeen(c)'
      BY <1>0, <1>1, <1>3, <2>1, <2>2, <2>3, OffsetMoves
    <2>5. QED
      BY <1>4, <2>4
  <1>5. CASE d # c
    <2>1. OffsetsOf(d)' = OffsetsOf(d) /\ seen'[d] = seen[d]
      BY <1>0, <1>1, <1>2, <1>5, UpdateOffsetMoves
    <2>2. [LogNext]_logVars
      BY <1>1
    <2>3. QED
      BY <1>0, <2>1, <2>2, OffsetsStay
  <1>6. QED
    BY <1>4, <1>5

\* All other steps: offsets stay, are saved, or come back from the file.
LEMMA OtherStepOffsets ==
  ASSUME \/ \E len \in Lens : Enqueue(len) \/ EnqueueFails(len)
         \/ Sync \/ Close \/ Crash \/ Load \/ CleanupOldMessages
         \/ \E s \in DOMAIN dir : Age(s)
         \/ UNCHANGED topicVars,
         NEW c \in Consumers
  PROVE  OffsetsOf(c)' \subseteq OffsetsOf(c) /\ seen' = seen
  <1>1. CASE \E len \in Lens : Enqueue(len) \/ EnqueueFails(len)
    <2>1. UNCHANGED <<catalogVars, historyVars>>
      BY <1>1 DEF Enqueue, EnqueueFails
    <2>2. ~Closed
      BY <1>1 DEF Enqueue, EnqueueFails, Closed, LogAppend, LogWriteFails, LogSyncFails,
                  LogRotateFails, LogAppendShut, Write
    <2>3. QED
      BY <2>1, <2>2 DEF OffsetsOf, GetOffset, OffsetIn, catalogVars, historyVars
  <1>2. CASE Sync \/ Close
    <2>1. /\ ~Closed /\ seen' = seen
          /\ CatalogSync \/ UNCHANGED catalogVars
      BY <1>2 DEF Sync, Close, LogClose, Closed, historyVars
    <2>2. consumers' = consumers /\ catalogFile' \in {consumers, catalogFile}
      BY <2>1 DEF CatalogSync, catalogVars
    <2>3. QED
      BY <2>1, <2>2 DEF OffsetsOf, GetOffset, OffsetIn
  <1>3. CASE Crash
    <2>1. Closed' /\ UNCHANGED <<catalogVars, historyVars>>
      BY <1>3 DEF Crash, LogClose, LogDiesInAppend, Closed
    <2>2. QED
      BY <2>1 DEF OffsetsOf, GetOffset, OffsetIn, catalogVars, historyVars
  <1>4. CASE Load
    <2>1. consumers' = catalogFile /\ catalogFile' = catalogFile /\ seen' = seen
      BY <1>4 DEF Load, CatalogLoad
    <2>2. QED
      BY <2>1 DEF OffsetsOf, GetOffset, OffsetIn
  <1>5. CASE CleanupOldMessages
    <2>1. ~Closed /\ UNCHANGED <<catalogVars, historyVars>>
      BY <1>5 DEF CleanupOldMessages, DeleteSegments, Closed
    <2>2. QED
      BY <2>1 DEF OffsetsOf, GetOffset, OffsetIn, catalogVars, historyVars
  <1>6. CASE (\E s \in DOMAIN dir : Age(s)) \/ UNCHANGED topicVars
    <2>1. UNCHANGED <<fd, catalogVars, historyVars>>
      BY <1>6 DEF Age, LogAge, topicVars, logVars
    <2>2. QED
      BY <2>1 DEF OffsetsOf, GetOffset, OffsetIn, Closed, catalogVars, historyVars
  <1>7. QED
    BY <1>1, <1>2, <1>3, <1>4, <1>5, <1>6

LEMMA DeliveryStep ==
  ASSUME DeliveryInv, LogInv, LogInv', DurableInv, WholeInv, ~TornWrites, ~Retention, ~BlindSeeks,
         [TopicNext]_topicVars
  PROVE  DeliveryInv'
  <1>1. [LogNext]_logVars
    BY TopicStepOfLog
  <1>2. DOMAIN seen' = Consumers
    <2>1. CASE \/ \E c \in Consumers : Dequeue(c)
               \/ \E c \in Consumers : \E o \in SeekTargets : UpdateConsumerOffset(c, o)
      BY <2>1 DEF DeliveryInv, Dequeue, UpdateConsumerOffset
    <2>2. CASE ~(\/ \E c \in Consumers : Dequeue(c)
                 \/ \E c \in Consumers : \E o \in SeekTargets : UpdateConsumerOffset(c, o))
      <3>1. seen' = seen
        BY <2>2 DEF TopicNext, Enqueue, EnqueueFails, Sync, Close, Crash, Load,
                    CleanupOldMessages, Age, topicVars, historyVars
      <3>2. QED
        BY <3>1 DEF DeliveryInv
    <2>3. QED
      BY <2>1, <2>2
  <1>3. ASSUME InSpan', NEW d \in Consumers
        PROVE  OffsetsOf(d)' \subseteq Boundaries' /\ AllSeen(d)'
    <2>1. InSpan
      BY <1>1, <1>3, FileGrowing
    <2>2. OffsetsOf(d) \subseteq Boundaries /\ AllSeen(d)
      BY <2>1 DEF DeliveryInv
    <2>3. CASE \E c \in Consumers : Dequeue(c)
      BY <2>1, <2>3, DequeueKeeps
    <2>4. CASE \E c \in Consumers : \E o \in SeekTargets : UpdateConsumerOffset(c, o)
      BY <2>1, <2>4, SeekKeeps
    <2>5. CASE \/ \E len \in Lens : Enqueue(len) \/ EnqueueFails(len)
               \/ Sync \/ Close \/ Crash \/ Load \/ CleanupOldMessages
               \/ \E s \in DOMAIN dir : Age(s)
               \/ UNCHANGED topicVars
      <3>1. OffsetsOf(d)' \subseteq OffsetsOf(d) /\ seen' = seen
        BY <2>5, OtherStepOffsets
      <3>2. QED
        BY <1>1, <2>2, <3>1, OffsetsStay
    <2>6. QED
      BY <2>3, <2>4, <2>5 DEF TopicNext
  <1>4. QED
    BY <1>2, <1>3 DEF DeliveryInv

LEMMA DeliveryInit ==
  ASSUME TopicInit
  PROVE  DeliveryInv
  <1>1. File = <<>> /\ Boundaries = {0} /\ Closed
    BY DEF TopicInit, LogInit, NoFiles, File, Boundaries, EndOf, Closed
  <1>2. \A c \in Consumers : OffsetsOf(c) = {0}
    BY <1>1 DEF TopicInit, CatalogInit, NoConsumers, OffsetsOf, OffsetIn
  <1>3. \A c \in Consumers : AllSeen(c)
    BY <1>1 DEF AllSeen
  <1>4. QED
    BY <1>1, <1>2, <1>3 DEF DeliveryInv, TopicInit

\* The offsets of consumers and what they have seen agree with the file, in
\* every reachable state.
THEOREM DeliveryInvariant == ~TornWrites /\ ~Retention /\ ~BlindSeeks /\ TopicSpec => []DeliveryInv
  <1> SUFFICES ASSUME ~TornWrites, ~Retention, ~BlindSeeks PROVE TopicSpec => []DeliveryInv
    OBVIOUS
  <1>1. TopicInit => DeliveryInv
    BY DeliveryInit
  <1>2. DeliveryInv /\ LogInv /\ LogInv' /\ DurableInv /\ WholeInv /\ [TopicNext]_topicVars
          => DeliveryInv'
    BY DeliveryStep
  <1>3. TopicSpec => []LogInv /\ []DurableInv /\ []WholeInv
    BY TopicRunsLog, LogInvariant, Durable, Whole, PTL
  <1>4. QED
    BY <1>1, <1>2, <1>3, PTL DEF TopicSpec

\* Every offset of a consumer, in memory or saved, is the start of a message or
\* the end of the log (topic.go:149-192 and load).
THEOREM OffsetsStayOnFrames ==
  ~TornWrites /\ ~Retention /\ ~BlindSeeks /\ TopicSpec => [](InSpan => OffsetsOnFrames)
  <1>1. DeliveryInv => (InSpan => OffsetsOnFrames)
    BY DEF DeliveryInv, OffsetsOf, OffsetsOnFrames
  <1>2. QED
    BY <1>1, DeliveryInvariant, PTL

\* No crash, restart, failed enqueue or seek makes a consumer skip a message it
\* has not seen, unless by its own choice (topic.go:149-192 and load).
THEOREM NoneSkipped ==
  ~TornWrites /\ ~Retention /\ ~BlindSeeks /\ TopicSpec => [](InSpan => NothingSkipped)
  <1>1. DeliveryInv => (InSpan => NothingSkipped)
    BY DEF DeliveryInv, OffsetsOf, AllSeen, NothingSkipped
  <1>2. QED
    BY <1>1, DeliveryInvariant, PTL

-----------------------------------------------------------------------------
(* Counting the frames before an offset *)

CountBefore(f, o) == Cardinality({k \in DOMAIN f : f[k].at < o})

LEMMA BeforeIsCount == \A o : Before(o) = CountBefore(File, o)
  BY DEF Before, CountBefore

\* Before frame i are the i - 1 frames in front of it.
LEMMA CountToFrame ==
  ASSUME NEW f \in Seq(Frame), Contiguous(f), NEW i \in DOMAIN f
  PROVE  CountBefore(f, f[i].at) = i - 1
  <1>1. i \in 1 .. Len(f) /\ Len(f) \in Nat /\ DOMAIN f = 1 .. Len(f)
    OBVIOUS
  <1>2. ASSUME NEW k \in DOMAIN f PROVE f[k].at < f[i].at <=> k < i
    <2>1. /\ f[k].at \in Nat /\ f[k].have \in Nat /\ f[k].have > 0
          /\ k < i => f[k].at + f[k].have <= f[i].at
      BY FrameOrder
    <2>2. /\ f[i].at \in Nat /\ f[i].have \in Nat /\ f[i].have > 0
          /\ i < k => f[i].at + f[i].have <= f[k].at
      BY FrameOrder
    <2>3. k \in Int /\ i \in Int
      BY <1>1
    <2>4. QED
      BY <2>1, <2>2, <2>3
  <1>3. {k \in DOMAIN f : f[k].at < f[i].at} = 1 .. i - 1
    BY <1>1, <1>2
  <1>4. Cardinality(1 .. i - 1) = i - 1
    BY <1>1, FS_Interval
  <1>5. QED
    BY <1>3, <1>4 DEF CountBefore

\* Before the end are all frames.
LEMMA CountToEnd ==
  ASSUME NEW f \in Seq(Frame), Contiguous(f)
  PROVE  CountBefore(f, EndOf(f)) = Len(f)
  <1>1. Len(f) \in Nat /\ DOMAIN f = 1 .. Len(f)
    OBVIOUS
  <1>2. ASSUME NEW k \in DOMAIN f PROVE f[k].at < EndOf(f)
    <2>1. /\ f[k].at \in Nat /\ f[k].have \in Nat /\ f[k].have > 0 /\ EndOf(f) \in Nat
          /\ f[k].at + f[k].have <= EndOf(f)
      BY FrameOrder
    <2>2. QED
      BY <2>1
  <1>3. {k \in DOMAIN f : f[k].at < EndOf(f)} = 1 .. Len(f)
    BY <1>1, <1>2
  <1>4. Cardinality(1 .. Len(f)) = Len(f)
    BY <1>1, FS_Interval
  <1>5. QED
    BY <1>3, <1>4 DEF CountBefore

LEMMA CountType ==
  ASSUME NEW f \in Seq(Frame), Contiguous(f), NEW o \in BoundariesOf(f)
  PROVE  CountBefore(f, o) \in 0 .. Len(f)
  <1>1. Len(f) \in Nat /\ DOMAIN f = 1 .. Len(f)
    OBVIOUS
  <1>2. CASE o = EndOf(f)
    BY <1>1, <1>2, CountToEnd
  <1>3. ASSUME NEW i \in DOMAIN f, o = f[i].at PROVE CountBefore(f, o) \in 0 .. Len(f)
    <2>1. CountBefore(f, o) = i - 1
      BY <1>3, CountToFrame
    <2>2. QED
      BY <1>1, <2>1
  <1>4. QED
    BY <1>2, <1>3 DEF BoundariesOf

\* What is added to a file starts behind all its boundaries.
LEMMA CountKept ==
  ASSUME NEW f \in Seq(Frame), NEW g \in Seq(Frame), Contiguous(f), Contiguous(g), Grows(f, g),
         NEW o \in BoundariesOf(f)
  PROVE  CountBefore(g, o) = CountBefore(f, o)
  <1>1. o \in Nat /\ o <= EndOf(f) /\ EndOf(f) \in Nat
    BY BoundaryOrder, EndOfType
  <1>2. ASSUME NEW k \in DOMAIN g, g[k].at < o PROVE k \in DOMAIN f
    <2>1. k \in DOMAIN f \/ g[k].at >= EndOf(f)
      BY GrowingFile
    <2>2. g[k].at \in Nat
      BY FrameOrder
    <2>3. QED
      BY <1>1, <1>2, <2>1, <2>2
  <1>3. \A k \in DOMAIN f : k \in DOMAIN g /\ g[k] = f[k]
    <2>1. Len(f) \in Nat /\ Len(g) \in Nat /\ DOMAIN f = 1 .. Len(f) /\ DOMAIN g = 1 .. Len(g)
      OBVIOUS
    <2>2. QED
      BY <2>1 DEF Grows
  <1>4. {k \in DOMAIN g : g[k].at < o} = {k \in DOMAIN f : f[k].at < o}
    BY <1>2, <1>3
  <1>5. QED
    BY <1>4 DEF CountBefore

-----------------------------------------------------------------------------
(* The file as a stream *)

\* A step leaves the file alone or adds one frame, of the next message, at its
\* end.
LEMMA FileStep ==
  ASSUME LogInv, ~Retention, [LogNext]_logVars
  PROVE  \/ File' = File
         \/ \E frame \in Frame : /\ File' = Append(File, frame)
                                 /\ frame.msg \in 1 .. MaxMessages
  <1>0. ASSUME NEW len \in Lens PROVE FrameSize(len) \in 0 .. FrameSize(len) /\ len \in Nat
    BY LogAssumption DEF FrameSize
  <1>1. ASSUME NEW len \in Lens, NEW have \in 0 .. FrameSize(len),
               fd # "closed", ~writerErr, sent < MaxMessages,
               dir' = Written(WriterFor(len), sent + 1, len, have)
        PROVE  \/ File' = File
               \/ \E frame \in Frame : /\ File' = Append(File, frame)
                                       /\ frame.msg \in 1 .. MaxMessages
    <2> DEFINE w == WriterFor(len)
               wFile == w.dir[0]
    <2>1. /\ w.seg = 0
          /\ w.fd = "linked"
          /\ 0 \in DOMAIN w.dir
          /\ wFile = File
      <3>1. CASE currentSize + FrameSize(len) > MaxSize
        <4>1. w = OpenCurrentSegment(dir)
          BY <3>1 DEF WriterFor, RotateSegment
        <4>2. FindLatestSegment(dir) = 0
          BY LatestIsZero DEF LogInv, DirOK
        <4>3. QED
          BY <4>1, <4>2 DEF OpenCurrentSegment, Put, File
      <3>2. CASE ~(currentSize + FrameSize(len) > MaxSize)
        <4>1. w = [dir |-> dir, seg |-> segmentIndex, size |-> currentSize, fd |-> fd]
          BY <3>2 DEF WriterFor
        <4>2. fd = "linked"
          BY <1>1 DEF LogInv, LogTypeOK
        <4>3. QED
          BY <4>1, <4>2 DEF LogInv, File
      <3>3. QED
        BY <3>1, <3>2
    <2> HIDE DEF w
    <2>2. CASE have = 0
      <3>1. dir' = w.dir
        BY <1>1, <2>2 DEF Written, w
      <3>2. QED
        BY <2>1, <3>1 DEF File
    <2>3. CASE have # 0
      <3> DEFINE frame == [msg |-> sent + 1, len |-> len, at |-> EndOf(File), have |-> have]
      <3>1. have > 0
        BY <1>0, <2>3
      <3>2. dir' = Put(w.dir, 0, Append(File, frame))
        BY <1>1, <2>1, <3>1 DEF Written, w
      <3>3. File' = Append(File, frame)
        BY <3>2 DEF File, Put
      <3>4. frame \in Frame
        <4>1. File \in Seq(Frame) /\ sent \in Nat
          BY FileType DEF LogInv, LogTypeOK
        <4>2. EndOf(File) \in Nat
          BY <4>1, EndOfType
        <4>3. have \in Nat
          BY <1>0
        <4>4. QED
          BY <1>0, <4>1, <4>2, <4>3 DEF Frame
      <3>5. frame.msg \in 1 .. MaxMessages
        BY <1>1, LogAssumption DEF LogInv, LogTypeOK
      <3>6. QED
        BY <3>3, <3>4, <3>5
    <2>4. QED
      BY <2>2, <2>3
  <1>2. CASE LogOpen
    <2>1. FindLatestSegment(dir) = 0
      BY LatestIsZero DEF LogInv, DirOK
    <2>2. dir' = Put(dir, 0, File)
      BY <1>2, <2>1 DEF LogOpen, OpenCurrentSegment, File
    <2>3. QED
      BY <2>2 DEF Put, File
  <1>3. ASSUME NEW len \in Lens, LogAppend(len) \/ LogSyncFails(len)
        PROVE  \/ File' = File
               \/ \E frame \in Frame : /\ File' = Append(File, frame)
                                       /\ frame.msg \in 1 .. MaxMessages
    BY <1>0, <1>1, <1>3 DEF LogAppend, LogSyncFails, Write
  <1>4. ASSUME NEW len \in Lens, NEW have \in 0 .. FrameSize(len), NEW counted \in BOOLEAN,
               LogWriteFails(len, have, counted) \/ LogDiesInAppend(len, have)
        PROVE  \/ File' = File
               \/ \E frame \in Frame : /\ File' = Append(File, frame)
                                       /\ frame.msg \in 1 .. MaxMessages
    BY <1>1, <1>4 DEF LogWriteFails, LogDiesInAppend, Write
  <1>5. ~(aged # {} /\ DeleteSegments(aged))
    BY DEF LogInv
  <1>6. CASE \/ \E len \in Lens : LogRotateFails(len) \/ LogAppendShut(len)
             \/ LogClose
             \/ \E s \in DOMAIN dir : LogAge(s)
             \/ UNCHANGED logVars
    <2>1. dir' = dir
      BY <1>6 DEF LogRotateFails, LogAppendShut, LogClose, LogAge, logVars
    <2>2. QED
      BY <2>1 DEF File
  <1>7. TRUE \in BOOLEAN
    OBVIOUS
  <1>8. QED
    BY <1>2, <1>3, <1>4, <1>5, <1>6, <1>7 DEF LogNext

-----------------------------------------------------------------------------
(* Offsets as cursors *)

\* In memory too, also when the topic is closed: a cursor is read from what a
\* process left there until the next one loads the catalog.
CursorInv == InSpan => \A c \in Consumers : GetOffset(c) \in Boundaries

LEMMA CursorInit ==
  ASSUME TopicInit
  PROVE  CursorInv
  <1>1. Boundaries = {0}
    BY DEF TopicInit, LogInit, NoFiles, File, Boundaries, EndOf
  <1>2. \A c \in Consumers : GetOffset(c) = 0
    BY DEF TopicInit, CatalogInit, NoConsumers, GetOffset, OffsetIn
  <1>3. QED
    BY <1>1, <1>2 DEF CursorInv

LEMMA CursorStep ==
  ASSUME CursorInv, DeliveryInv', LogInv, LogInv', ~Retention, [TopicNext]_topicVars
  PROVE  CursorInv'
  <1>1. [LogNext]_logVars
    BY TopicStepOfLog
  <1>2. Boundaries \subseteq Boundaries' /\ (InSpan' => InSpan)
    BY <1>1, FileGrowing
  <1>3. CASE ~Closed'
    BY <1>3 DEF DeliveryInv, OffsetsOf, CursorInv
  <1>4. CASE Closed'
    <2>1. ~\E c \in Consumers : Dequeue(c)
      BY <1>4 DEF Dequeue, Closed, logVars
    <2>2. ~\E c \in Consumers : \E o \in SeekTargets : UpdateConsumerOffset(c, o)
      BY <1>4 DEF UpdateConsumerOffset, Closed, logVars
    <2>3. ~Load
      BY <1>4 DEF Load, LogOpen, OpenCurrentSegment, Closed
    <2>4. consumers' = consumers
      BY <2>1, <2>2, <2>3 DEF TopicNext, Enqueue, EnqueueFails, Sync, Close, Crash,
             CleanupOldMessages, Age, topicVars, catalogVars, CatalogSync
    <2>5. \A c \in Consumers : GetOffset(c)' = GetOffset(c)
      BY <2>4 DEF GetOffset, OffsetIn
    <2>6. QED
      BY <1>2, <2>5 DEF CursorInv
  <1>5. QED
    BY <1>3, <1>4

\* All offsets of a consumer lie on boundaries.
LEMMA OnBoundaries ==
  ASSUME DeliveryInv, CursorInv, InSpan, NEW c \in Consumers
  PROVE  GetOffset(c) \in Boundaries /\ OffsetIn(catalogFile, c) \in Boundaries
  BY DEF DeliveryInv, CursorInv, OffsetsOf

-----------------------------------------------------------------------------
(* Each step of a topic is a step of the stream, or none *)

LEMMA StoredType ==
  ASSUME File \in Seq(Frame)
  PROVE  Len(Stored) = Len(File) /\ DOMAIN Stored = 1 .. Len(File)
  <1>1. Stored \in [1 .. Len(File) -> {File[i].msg : i \in DOMAIN File}]
    BY DEF Stored
  <1>2. QED
    BY <1>1

\* A step that leaves all offsets alone publishes the message it stores, if any.
LEMMA StepPublishes ==
  ASSUME LogInv, LogInv', ~Retention, [LogNext]_logVars,
         \A c \in Consumers :
           GetOffset(c) \in Boundaries /\ OffsetIn(catalogFile, c) \in Boundaries,
         UNCHANGED <<consumers, catalogFile, got>>
  PROVE  AsStream!Publish \/ UNCHANGED AsStream!streamVars
  <1>1. /\ File \in Seq(Frame) /\ Contiguous(File) /\ Boundaries = BoundariesOf(File)
        /\ File' \in Seq(Frame) /\ Contiguous(File')
    BY FileType, FileTypeNext
  <1>2. Grows(File, File')
    <2>1. \A i \in DOMAIN File : i \in DOMAIN File' /\ File'[i] = File[i]
      BY FileGrowing
    <2>2. Len(File) \in Nat /\ Len(File') \in Nat
            /\ DOMAIN File = 1 .. Len(File) /\ DOMAIN File' = 1 .. Len(File')
      BY <1>1
    <2>3. QED
      BY <2>1, <2>2 DEF Grows
  <1>3. ASSUME NEW c \in Consumers
        PROVE  /\ Before(GetOffset(c))' = Before(GetOffset(c))
               /\ Before(OffsetIn(catalogFile, c))' = Before(OffsetIn(catalogFile, c))
    <2>1. /\ GetOffset(c) \in BoundariesOf(File)
          /\ OffsetIn(catalogFile, c) \in BoundariesOf(File)
          /\ GetOffset(c)' = GetOffset(c)
          /\ OffsetIn(catalogFile, c)' = OffsetIn(catalogFile, c)
      BY <1>1 DEF GetOffset, OffsetIn
    <2>2. CountBefore(File', GetOffset(c)) = CountBefore(File, GetOffset(c))
      BY <1>1, <1>2, <2>1, CountKept
    <2>3. CountBefore(File', OffsetIn(catalogFile, c)) = CountBefore(File, OffsetIn(catalogFile, c))
      BY <1>1, <1>2, <2>1, CountKept
    <2>4. QED
      BY <2>1, <2>2, <2>3 DEF Before, CountBefore
  <1>4. UNCHANGED <<[c \in Consumers |-> Before(GetOffset(c))],
                    [c \in Consumers |-> Before(OffsetIn(catalogFile, c))], got>>
    BY <1>3
  <1>5. CASE File' = File
    <2>1. Stored' = Stored
      BY <1>5 DEF Stored
    <2>2. QED
      BY <1>4, <2>1 DEF AsStream!streamVars
  <1>6. ASSUME NEW frame \in Frame, File' = Append(File, frame), frame.msg \in 1 .. MaxMessages
        PROVE  AsStream!Publish
    <2>1. Stored' = Append(Stored, frame.msg)
      <3>1. DOMAIN File' = 1 .. Len(File) + 1 /\ DOMAIN File = 1 .. Len(File) /\ Len(File) \in Nat
            /\ \A i \in 1 .. Len(File) + 1 :
                 File'[i] = IF i = Len(File) + 1 THEN frame ELSE File[i]
        BY <1>1, <1>6
      <3>2. Stored' = [i \in 1 .. Len(File) + 1 |->
                         IF i = Len(File) + 1 THEN frame.msg ELSE File[i].msg]
        BY <3>1 DEF Stored
      <3>3. Append(Stored, frame.msg)
              = [i \in 1 .. Len(Stored) + 1 |->
                   IF i = Len(Stored) + 1 THEN frame.msg ELSE Stored[i]]
        BY DEF Append
      <3>4. Len(Stored) = Len(File) /\ \A i \in 1 .. Len(File) : Stored[i] = File[i].msg
        BY <1>1, <3>1, StoredType DEF Stored
      <3>5. QED
        BY <3>1, <3>2, <3>3, <3>4
    <2>2. QED
      BY <1>4, <1>6, <2>1 DEF AsStream!Publish
  <1>7. QED
    BY <1>5, <1>6, FileStep

\* A Dequeue delivers the next messages at its consumer's cursor.
LEMMA DequeueDelivers ==
  ASSUME LogInv, WholeInv, ~TornWrites, InSpan, NEW c \in Consumers,
         GetOffset(c) \in Boundaries, Dequeue(c)
  PROVE  AsStream!Deliver(c)
  <1>1. PICK r \in ReadFrom(GetOffset(c)) :
          /\ r.ok
          /\ r.entries # <<>>
          /\ LET batch == Limited(r.entries)
                 end   == batch[Len(batch)]
                 msgs  == [i \in DOMAIN batch |-> batch[i].msg]
             IN  /\ UpdateOffset(c, end.offset + FrameSize(end.len))
                 /\ got' = [got EXCEPT ![c] = @ \o msgs]
    BY DEF Dequeue
  <1> DEFINE batch == Limited(r.entries)
             msgs == [i \in DOMAIN batch |-> batch[i].msg]
  <1>2. PICK i, last \in DOMAIN File :
          /\ i <= last
          /\ GetOffset(c) = File[i].at
          /\ last - i + 1 <= Batch
          /\ last - i + 1 < Batch => last = Len(File)
          /\ Len(batch) = last - i + 1
          /\ DOMAIN batch = 1 .. last - i + 1
          /\ \A k \in 1 .. last - i + 1 : batch[k] = Entry(0, File[k + i - 1])
    BY <1>1, BatchOfFrames
  <1>3. /\ File \in Seq(Frame) /\ Contiguous(File) /\ Boundaries = BoundariesOf(File)
        /\ DOMAIN File = 1 .. Len(File) /\ Len(File) \in Nat
        /\ Len(Stored) = Len(File) /\ DOMAIN Stored = 1 .. Len(File)
    BY FileType, StoredType
  <1> DEFINE n == last - i + 1
             o == Entry(0, File[last]).offset + FrameSize(Entry(0, File[last]).len)
  <1>4. n \in 1 .. Len(Stored) /\ n <= Batch /\ i - 1 + n = last
    BY <1>2, <1>3
  <1>5. batch[Len(batch)] = Entry(0, File[last])
    <2>1. n \in 1 .. last - i + 1 /\ n + i - 1 = last
      BY <1>2, <1>3
    <2>2. QED
      BY <1>2, <2>1
  <1>6. UpdateOffset(c, o) /\ got' = [got EXCEPT ![c] = got[c] \o msgs]
    BY <1>1, <1>5
  <1>7. CountBefore(File, GetOffset(c)) = i - 1
    BY <1>2, <1>3, CountToFrame
  <1>8. CountBefore(File, o) = last
    <2>1. /\ IsWhole(File[last]) /\ File[last] \in Frame
          /\ o = File[last].at + File[last].have
      <3>1. IsWhole(File[last]) /\ File[last] \in Frame
        BY <1>3 DEF File, WholeInv, AllWhole
      <3>2. QED
        BY <3>1, LogAssumption DEF Entry, GlobalOffset, IsWhole, Frame
    <2> HIDE DEF o
    <2>2. o = IF last = Len(File) THEN EndOf(File) ELSE File[last + 1].at
      BY <1>3, <2>1, FrameOrder
    <2>3. CASE last = Len(File)
      BY <1>3, <2>2, <2>3, CountToEnd
    <2>4. CASE last # Len(File)
      <3>1. last + 1 \in DOMAIN File /\ (last + 1) - 1 = last
        BY <1>3, <2>4
      <3>2. QED
        BY <1>3, <2>2, <2>4, <3>1, CountToFrame
    <2>5. QED
      BY <2>3, <2>4
  <1>9. msgs = SubSeq(Stored, i, last)
    <2> DEFINE S == {File[k].msg : k \in DOMAIN File}
    <2>1. i \in Int /\ last \in Int /\ \A k \in i .. last : k \in DOMAIN File /\ Stored[k] \in S
      BY <1>3 DEF Stored
    <2> HIDE DEF S
    <2>2. /\ SubSeq(Stored, i, last) \in Seq(S)
          /\ Len(SubSeq(Stored, i, last)) = last - i + 1
          /\ \A k \in 1 .. last - i + 1 : SubSeq(Stored, i, last)[k] = Stored[i + k - 1]
      BY <1>2, <2>1, SubSeqProperties
    <2>3. ASSUME NEW k \in 1 .. last - i + 1
          PROVE  msgs[k] = Stored[i + k - 1] /\ Stored[i + k - 1] \in S
      <3>1. k + i - 1 = i + k - 1 /\ i + k - 1 \in i .. last /\ i + k - 1 \in DOMAIN File
        BY <1>3
      <3>2. batch[k] = Entry(0, File[i + k - 1])
        BY <1>2, <3>1
      <3>3. batch[k].msg = File[i + k - 1].msg
        BY <3>2 DEF Entry
      <3>4. Stored[i + k - 1] = File[i + k - 1].msg /\ Stored[i + k - 1] \in S
        BY <2>1, <3>1 DEF Stored
      <3>5. k \in DOMAIN batch
        BY <1>2
      <3> HIDE DEF batch
      <3>6. msgs[k] = batch[k].msg
        BY <3>5
      <3>7. QED
        BY <3>3, <3>4, <3>6
    <2>4. DOMAIN msgs = 1 .. last - i + 1 /\ msgs = [k \in DOMAIN msgs |-> msgs[k]]
      BY <1>2
    <2>5. DOMAIN SubSeq(Stored, i, last) = 1 .. last - i + 1
      BY <2>2, LenProperties
    <2>6. SubSeq(Stored, i, last) = [k \in 1 .. last - i + 1 |-> SubSeq(Stored, i, last)[k]]
      BY <2>2, <2>5, LenProperties
    <2> HIDE DEF msgs, batch
    <2>7. QED
      BY <2>2, <2>3, <2>4, <2>6
  <1> HIDE DEF msgs, batch, o
  <1> DEFINE bar == [d \in Consumers |-> Before(GetOffset(d))]
  <1>10. bar[c] = i - 1 /\ bar[c] + 1 = i
    BY <1>3, <1>7, BeforeIsCount
  <1>11. UNCHANGED <<File, catalogFile>>
    BY DEF Dequeue, logVars, File, UpdateOffset
  <1>12. bar' = [bar EXCEPT ![c] = bar[c] + n]
    <2>1. GetOffset(c)' = o /\ \A d \in Consumers \ {c} : GetOffset(d)' = GetOffset(d)
      BY <1>6 DEF UpdateOffset, GetOffset, OffsetIn
    <2>2. Before(GetOffset(c))' = CountBefore(File, o)
      BY <1>11, <2>1 DEF Before, CountBefore
    <2>3. \A d \in Consumers \ {c} : Before(GetOffset(d))' = Before(GetOffset(d))
      BY <1>11, <2>1 DEF Before
    <2>4. bar[c] + n = last
      BY <1>4, <1>10
    <2>5. QED
      BY <1>8, <2>2, <2>3, <2>4
  <1>13. UNCHANGED <<Stored, [d \in Consumers |-> Before(OffsetIn(catalogFile, d))]>>
    BY <1>11 DEF Stored, Before, OffsetIn
  <1>14. /\ bar[c] + n = last
         /\ n < Batch => last = Len(Stored)
         /\ last <= Len(Stored)
    BY <1>2, <1>3, <1>4, <1>10
  <1>15. got' = [got EXCEPT ![c] = got[c] \o SubSeq(Stored, bar[c] + 1, bar[c] + n)]
    BY <1>6, <1>9, <1>10, <1>14
  <1> HIDE DEF n
  <1>16. QED
    BY <1>4, <1>12, <1>13, <1>14, <1>15 DEF AsStream!Deliver

\* A seek to a known offset puts the cursor between two messages.
LEMMA UpdateSeeks ==
  ASSUME LogInv, DurableInv, ~Retention, ~BlindSeeks, NEW c \in Consumers, NEW o \in SeekTargets,
         UpdateConsumerOffset(c, o)
  PROVE  AsStream!Seek(c)
  <1>1. /\ File \in Seq(Frame) /\ Contiguous(File) /\ Boundaries = BoundariesOf(File)
        /\ Len(Stored) = Len(File)
    BY FileType, StoredType
  <1>2. ~Closed /\ UpdateOffset(c, o) /\ UNCHANGED <<File, catalogFile>>
        /\ got' = [got EXCEPT ![c] = <<>>]
    BY DEF UpdateConsumerOffset, logVars, File, UpdateOffset
  <1>3. CountBefore(File, o) \in 0 .. Len(Stored)
    <2>1. o \in BoundariesOf(File)
      BY <1>1, <1>2, SeekTargetsOnFrames
    <2>2. QED
      BY <1>1, <2>1, CountType
  <1> DEFINE bar == [d \in Consumers |-> Before(GetOffset(d))]
  <1>4. bar' = [bar EXCEPT ![c] = CountBefore(File, o)]
    <2>1. GetOffset(c)' = o /\ \A d \in Consumers \ {c} : GetOffset(d)' = GetOffset(d)
      BY <1>2 DEF UpdateOffset, GetOffset, OffsetIn
    <2>2. Before(GetOffset(c))' = CountBefore(File, o)
      BY <1>2, <2>1 DEF Before, CountBefore
    <2>3. \A d \in Consumers \ {c} : Before(GetOffset(d))' = Before(GetOffset(d))
      BY <1>2, <2>1 DEF Before
    <2>4. QED
      BY <2>2, <2>3
  <1>5. UNCHANGED <<Stored, [d \in Consumers |-> Before(OffsetIn(catalogFile, d))]>>
    BY <1>2 DEF Stored, Before, OffsetIn
  <1>6. QED
    BY <1>2, <1>3, <1>4, <1>5 DEF AsStream!Seek

\* A Sync or Close that gets as far as the catalog saves all cursors.
LEMMA SyncSaves ==
  ASSUME CatalogSync, UNCHANGED <<dir, got>>
  PROVE  AsStream!Save \/ UNCHANGED AsStream!streamVars
  <1>1. UNCHANGED <<File, consumers>>
    BY DEF File, CatalogSync
  <1>2. UNCHANGED <<Stored, [c \in Consumers |-> Before(GetOffset(c))]>>
    BY <1>1 DEF Stored, Before, GetOffset, OffsetIn
  <1>3. CASE catalogDirty
    <2>1. catalogFile' = consumers
      BY <1>3 DEF CatalogSync
    <2>2. [c \in Consumers |-> Before(OffsetIn(catalogFile, c))]'
            = [c \in Consumers |-> Before(GetOffset(c))]
      BY <1>1, <2>1 DEF Before, GetOffset, OffsetIn
    <2>3. QED
      BY <1>2, <2>2 DEF AsStream!Save
  <1>4. CASE ~catalogDirty
    <2>1. catalogFile' = catalogFile
      BY <1>4 DEF CatalogSync
    <2>2. UNCHANGED [c \in Consumers |-> Before(OffsetIn(catalogFile, c))]
      BY <1>1, <2>1 DEF Before, OffsetIn
    <2>3. QED
      BY <1>2, <2>2 DEF AsStream!streamVars
  <1>5. QED
    BY <1>3, <1>4

\* Loading a topic restarts the stream: no message is added or lost, and every
\* cursor is where it was saved.
LEMMA LoadRestarts ==
  ASSUME LogInv, Load
  PROVE  AsStream!Restart
  <1>1. File' = File
    <2>1. FindLatestSegment(dir) = 0
      BY LatestIsZero DEF LogInv, DirOK
    <2>2. dir' = Put(dir, 0, File)
      BY <2>1 DEF Load, LogOpen, OpenCurrentSegment, File
    <2>3. QED
      BY <2>2 DEF Put, File
  <1>2. consumers' = catalogFile /\ catalogFile' = catalogFile
        /\ got' = [c \in Consumers |-> <<>>]
    BY DEF Load, CatalogLoad
  <1>3. [c \in Consumers |-> Before(GetOffset(c))]'
          = [c \in Consumers |-> Before(OffsetIn(catalogFile, c))]
    BY <1>1, <1>2 DEF Before, GetOffset, OffsetIn
  <1>4. UNCHANGED <<Stored, [c \in Consumers |-> Before(OffsetIn(catalogFile, c))]>>
    BY <1>1, <1>2 DEF Stored, Before, OffsetIn
  <1>5. QED
    BY <1>2, <1>3, <1>4 DEF AsStream!Restart

\* A step that touches neither directory nor offsets is none of the stream.
LEMMA StepStutters ==
  ASSUME UNCHANGED <<dir, consumers, catalogFile, got>>
  PROVE  UNCHANGED AsStream!streamVars
  BY DEF File, Stored, Before, GetOffset, OffsetIn, AsStream!streamVars

LEMMA TopicStepOfStream ==
  ASSUME LogInv, LogInv', DurableInv, WholeInv, DeliveryInv, CursorInv,
         ~TornWrites, ~Retention, ~BlindSeeks, InSpan, [TopicNext]_topicVars
  PROVE  [AsStream!StreamNext]_AsStream!streamVars
  <1>1. [LogNext]_logVars
    BY TopicStepOfLog
  <1>2. \A c \in Consumers :
          GetOffset(c) \in Boundaries /\ OffsetIn(catalogFile, c) \in Boundaries
    BY OnBoundaries
  <1>3. UNCHANGED <<consumers, catalogFile, got>>
          => AsStream!Publish \/ UNCHANGED AsStream!streamVars
    BY <1>1, <1>2, StepPublishes
  <1>4. CASE (\E len \in Lens : Enqueue(len) \/ EnqueueFails(len)) \/ Crash
    BY <1>3, <1>4 DEF Enqueue, EnqueueFails, Crash, catalogVars, historyVars, AsStream!StreamNext
  <1>5. ASSUME NEW c \in Consumers, Dequeue(c) PROVE AsStream!Deliver(c)
    BY <1>2, <1>5, DequeueDelivers
  <1>6. ASSUME NEW c \in Consumers, NEW o \in SeekTargets, UpdateConsumerOffset(c, o)
        PROVE  AsStream!Seek(c)
    BY <1>6, UpdateSeeks
  <1>7. CASE Sync \/ Close
    <2>1. UNCHANGED <<dir, got>> /\ (CatalogSync \/ UNCHANGED catalogVars)
      BY <1>7 DEF Sync, Close, LogClose, logVars, historyVars
    <2>2. CASE CatalogSync
      BY <2>1, <2>2, SyncSaves DEF AsStream!StreamNext
    <2>3. CASE UNCHANGED catalogVars
      BY <2>1, <2>3, StepStutters DEF catalogVars
    <2>4. QED
      BY <2>1, <2>2, <2>3
  <1>8. CASE Load
    BY <1>8, LoadRestarts DEF AsStream!StreamNext
  <1>9. ~CleanupOldMessages
    BY DEF CleanupOldMessages, LogInv
  <1>10. CASE (\E s \in DOMAIN dir : Age(s)) \/ UNCHANGED topicVars
    BY <1>10, StepStutters DEF Age, LogAge, topicVars, logVars, catalogVars, historyVars
  <1>11. QED
    BY <1>4, <1>5, <1>6, <1>7, <1>8, <1>9, <1>10 DEF TopicNext, AsStream!StreamNext

LEMMA TopicInitOfStream ==
  ASSUME TopicInit
  PROVE  AsStream!StreamInit
  <1>1. File = <<>>
    BY DEF TopicInit, LogInit, NoFiles, File
  <1>2. Stored = <<>>
    BY <1>1 DEF Stored
  <1>3. \A o : Before(o) = 0
    <2>1. \A o : {i \in DOMAIN File : File[i].at < o} = {}
      BY <1>1
    <2>2. Cardinality({}) = 0
      BY FS_EmptySet
    <2>3. QED
      BY <2>1, <2>2 DEF Before
  <1>4. /\ \A c \in Consumers : Before(GetOffset(c)) = 0
        /\ \A c \in Consumers : Before(OffsetIn(catalogFile, c)) = 0
    BY <1>3 DEF TopicInit, CatalogInit, NoConsumers, GetOffset, OffsetIn
  <1>5. QED
    BY <1>2, <1>4 DEF TopicInit, AsStream!StreamInit

LEMMA CursorsOnFrames == ~TornWrites /\ ~Retention /\ ~BlindSeeks /\ TopicSpec => []CursorInv
  <1> SUFFICES ASSUME ~TornWrites, ~Retention, ~BlindSeeks PROVE TopicSpec => []CursorInv
    OBVIOUS
  <1>1. TopicInit => CursorInv
    BY CursorInit
  <1>2. CursorInv /\ LogInv /\ LogInv' /\ DeliveryInv' /\ [TopicNext]_topicVars => CursorInv'
    BY CursorStep
  <1>3. TopicSpec => []LogInv /\ []DeliveryInv
    BY TopicRunsLog, LogInvariant, DeliveryInvariant, PTL
  <1>4. QED
    BY <1>1, <1>2, <1>3, PTL DEF TopicSpec

\* A topic, with its files, failed appends, syncs, crashes and restarts, does
\* nothing that a Stream does not: each step is a publication, a delivery, a
\* seek, a save or a restart of it, or no step at all (topic.go:122-225).
THEOREM TopicImplementsStream ==
  ~TornWrites /\ ~Retention /\ ~BlindSeeks /\ TopicSpec /\ []InSpan => ImplementsStream
  <1> SUFFICES ASSUME ~TornWrites, ~Retention, ~BlindSeeks PROVE TopicSpec /\ []InSpan => ImplementsStream
    OBVIOUS
  <1>1. TopicInit => AsStream!StreamInit
    BY TopicInitOfStream
  <1>2. LogInv /\ LogInv' /\ DurableInv /\ WholeInv /\ DeliveryInv /\ CursorInv /\ InSpan
          /\ [TopicNext]_topicVars => [AsStream!StreamNext]_AsStream!streamVars
    BY TopicStepOfStream
  <1>3. TopicSpec => []LogInv /\ []DurableInv /\ []WholeInv /\ []DeliveryInv /\ []CursorInv
    BY TopicRunsLog, LogInvariant, Durable, Whole, DeliveryInvariant, CursorsOnFrames, PTL
  <1>4. QED
    BY <1>1, <1>2, <1>3, PTL DEF TopicSpec, ImplementsStream, AsStream!StreamSpec

-----------------------------------------------------------------------------
(* What has been delivered *)

\* What is proved of every Stream, for the one that a topic is.
S == INSTANCE StreamProofs WITH
       Readers  <- Consumers,
       Messages <- 1 .. MaxMessages,
       stream   <- Stored,
       cursor   <- [c \in Consumers |-> Before(GetOffset(c))],
       saved    <- [c \in Consumers |-> Before(OffsetIn(catalogFile, c))]

\* What c has been given begins at the offset it started from.
GivenFrom(c) ==
  /\ from[c] \in Boundaries
  /\ Before(from[c]) + Len(got[c]) = Before(GetOffset(c))

GivenInv ==
  /\ DOMAIN from = Consumers
  /\ InSpan => /\ S!StreamInv
               /\ ~Closed => \A c \in Consumers : GivenFrom(c)

LEMMA SameStream ==
  /\ AsStream!StreamInit => S!StreamInit
  /\ [AsStream!StreamNext]_AsStream!streamVars => [S!StreamNext]_S!streamVars
  BY DEF AsStream!StreamInit, AsStream!StreamNext, AsStream!streamVars, AsStream!Publish,
         AsStream!Deliver, AsStream!Seek, AsStream!Save, AsStream!Restart,
         S!StreamInit, S!StreamNext, S!streamVars, S!Publish, S!Deliver, S!Seek, S!Save, S!Restart

LEMMA GivenInit ==
  ASSUME TopicInit
  PROVE  GivenInv
  <1>1. S!StreamInv
    BY TopicInitOfStream, SameStream, S!StreamInitInv
  <1>2. Closed /\ DOMAIN from = Consumers
    BY DEF TopicInit, LogInit, Closed
  <1>3. QED
    BY <1>1, <1>2 DEF GivenInv

\* A step that leaves an open topic's offsets alone, and what it has delivered.
LEMMA GivenStays ==
  ASSUME LogInv, LogInv', ~Retention, [LogNext]_logVars, NEW c \in Consumers,
         GetOffset(c) \in Boundaries, GivenFrom(c),
         UNCHANGED <<GetOffset(c), got[c], from[c]>>
  PROVE  GivenFrom(c)'
  <1>1. /\ File \in Seq(Frame) /\ Contiguous(File) /\ Boundaries = BoundariesOf(File)
        /\ File' \in Seq(Frame) /\ Contiguous(File')
    BY FileType, FileTypeNext
  <1>2. Boundaries \subseteq Boundaries' /\ Grows(File, File')
    <2>1. /\ \A i \in DOMAIN File : i \in DOMAIN File' /\ File'[i] = File[i]
          /\ Boundaries \subseteq Boundaries'
      BY FileGrowing
    <2>2. Len(File) \in Nat /\ Len(File') \in Nat
            /\ DOMAIN File = 1 .. Len(File) /\ DOMAIN File' = 1 .. Len(File')
      BY <1>1
    <2>3. QED
      BY <2>1, <2>2 DEF Grows
  <1>3. \A o \in Boundaries : CountBefore(File', o) = CountBefore(File, o)
    BY <1>1, <1>2, CountKept
  <1>4. /\ Before(GetOffset(c))' = CountBefore(File', GetOffset(c)')
        /\ Before(from[c])' = CountBefore(File', from'[c])
        /\ Before(GetOffset(c)) = CountBefore(File, GetOffset(c))
        /\ Before(from[c]) = CountBefore(File, from[c])
    BY DEF Before, CountBefore
  <1>5. /\ Before(GetOffset(c))' = Before(GetOffset(c))
        /\ Before(from[c])' = Before(from[c])
    BY <1>3, <1>4 DEF GivenFrom
  <1>6. QED
    BY <1>2, <1>5 DEF GivenFrom

\* A Dequeue moves the cursor by as many messages as it returns.
LEMMA DequeueGives ==
  ASSUME LogInv, WholeInv, ~TornWrites, InSpan, S!StreamInv, NEW c \in Consumers,
         GetOffset(c) \in Boundaries, GivenFrom(c), Dequeue(c)
  PROVE  GivenFrom(c)'
  <1> DEFINE k == Before(GetOffset(c))
  <1>1. PICK n \in 1 .. Len(Stored) :
          /\ k + n <= Len(Stored)
          /\ Before(GetOffset(c))' = k + n
          /\ got' = [got EXCEPT ![c] = got[c] \o SubSeq(Stored, k + 1, k + n)]
    <2>1. AsStream!Deliver(c)
      BY DequeueDelivers
    <2>2. PICK n \in 1 .. Len(Stored) :
            /\ k + n <= Len(Stored)
            /\ [d \in Consumers |-> Before(GetOffset(d))]'
                 = [[d \in Consumers |-> Before(GetOffset(d))] EXCEPT ![c] = k + n]
            /\ got' = [got EXCEPT ![c] = got[c] \o SubSeq(Stored, k + 1, k + n)]
      BY <2>1 DEF AsStream!Deliver
    <2>3. QED
      BY <2>2
  <1>2. /\ Stored \in Seq(1 .. MaxMessages)
        /\ got \in [Consumers -> Seq(1 .. MaxMessages)]
        /\ k \in 0 .. Len(Stored)
    BY DEF S!StreamInv
  <1> DEFINE next == SubSeq(Stored, k + 1, k + n)
  <1>3. next \in Seq(1 .. MaxMessages) /\ Len(next) = n
    <2> HIDE DEF k
    <2>1. k \in Nat /\ n \in Nat /\ k + n \in k .. Len(Stored) /\ (k + n) - k = n
      BY <1>1, <1>2
    <2>2. QED
      BY <1>2, <2>1, S!IntervalType
  <1> HIDE DEF k, next
  <1>4. got'[c] = got[c] \o next
    BY <1>1, <1>2 DEF next
  <1>5. Len(got'[c]) = Len(got[c]) + n /\ Len(got[c]) \in Nat
    <2>1. got[c] \in Seq(1 .. MaxMessages)
      BY <1>2
    <2>2. Len(got[c] \o next) = Len(got[c]) + Len(next)
      BY <1>3, <2>1, ConcatProperties
    <2>3. QED
      BY <1>3, <1>4, <2>1, <2>2
  <1>6. UNCHANGED <<File, Boundaries, from>>
    BY DEF Dequeue, logVars, File, Boundaries
  <1>7. Before(from[c])' = Before(from[c]) /\ from'[c] \in Boundaries'
    BY <1>6 DEF Before, GivenFrom
  <1>8. Before(from[c]) \in Nat
    <2>1. Before(from[c]) = CountBefore(File, from[c])
      BY DEF Before, CountBefore
    <2>2. QED
      BY <2>1, FileType, CountType DEF GivenFrom
  <1>9. Before(from[c]) + Len(got[c]) = k
    BY DEF GivenFrom, k
  <1>10. QED
    BY <1>1, <1>5, <1>7, <1>8, <1>9 DEF GivenFrom

LEMMA GivenStep ==
  ASSUME GivenInv, LogInv, LogInv', DurableInv, WholeInv, DeliveryInv, DeliveryInv', CursorInv,
         ~TornWrites, ~Retention, ~BlindSeeks, [TopicNext]_topicVars
  PROVE  GivenInv'
  <1>1. [LogNext]_logVars
    BY TopicStepOfLog
  <1>2. DOMAIN from' = Consumers
    BY DEF GivenInv, TopicNext, Enqueue, EnqueueFails, Dequeue, UpdateConsumerOffset, Sync,
           Close, Crash, Load, CleanupOldMessages, Age, topicVars, historyVars
  <1> SUFFICES ASSUME InSpan'
               PROVE  S!StreamInv' /\ (~Closed' => \A c \in Consumers : GivenFrom(c)')
    BY <1>2 DEF GivenInv
  <1>3. InSpan
    BY <1>1, FileGrowing
  <1>4. S!StreamInv'
    <2>1. [S!StreamNext]_S!streamVars
      BY <1>3, TopicStepOfStream, SameStream
    <2>2. S!StreamInv
      BY <1>3 DEF GivenInv
    <2>3. QED
      BY <2>1, <2>2, S!StreamStepInv
  <1>5. ASSUME ~Closed', NEW d \in Consumers
        PROVE  GivenFrom(d)'
    <2>1. /\ S!StreamInv
          /\ ~Closed => GivenFrom(d)
          /\ GetOffset(d) \in Boundaries
          /\ DOMAIN from = Consumers
      BY <1>3, OnBoundaries DEF GivenInv
    <2>2. got \in [Consumers -> Seq(1 .. MaxMessages)]
      BY <2>1 DEF S!StreamInv
    <2>3. ~Closed /\ UNCHANGED <<GetOffset(d), got[d], from[d]>> => GivenFrom(d)'
      BY <1>1, <2>1, GivenStays
    <2>4. ASSUME NEW c \in Consumers, Dequeue(c) PROVE GivenFrom(d)'
      <3>1. CASE d = c
        BY <1>3, <2>1, <2>4, <3>1, DequeueGives DEF Dequeue
      <3>2. CASE d # c
        <4>1. ~Closed /\ UNCHANGED <<GetOffset(d), got[d], from[d]>>
          BY <2>2, <2>4, <3>2 DEF Dequeue, UpdateOffset, GetOffset, OffsetIn
        <4>2. QED
          BY <2>3, <4>1
      <3>3. QED
        BY <3>1, <3>2
    <2>5. ASSUME NEW c \in Consumers, NEW o \in SeekTargets, UpdateConsumerOffset(c, o)
          PROVE  GivenFrom(d)'
      <3>1. CASE d = c
        <4>1. /\ GetOffset(d)' = o /\ got'[d] = <<>> /\ from'[d] = o
              /\ UNCHANGED <<File, Boundaries>> /\ ~Closed
          BY <2>1, <2>2, <2>5, <3>1 DEF UpdateConsumerOffset, UpdateOffset, GetOffset, OffsetIn,
                                        logVars, File, Boundaries
        <4>2. o \in Boundaries
          BY <4>1, SeekTargetsOnFrames
        <4>3. Before(from[d])' = CountBefore(File, o) /\ Before(GetOffset(d))' = CountBefore(File, o)
          BY <4>1 DEF Before, CountBefore
        <4>4. CountBefore(File, o) \in Nat
          BY <4>2, FileType, CountType
        <4>5. QED
          BY <4>1, <4>2, <4>3, <4>4 DEF GivenFrom
      <3>2. CASE d # c
        <4>1. ~Closed /\ UNCHANGED <<GetOffset(d), got[d], from[d]>>
          BY <2>2, <2>5, <3>2 DEF UpdateConsumerOffset, UpdateOffset, GetOffset, OffsetIn
        <4>2. QED
          BY <2>3, <4>1
      <3>3. QED
        BY <3>1, <3>2
    <2>6. CASE Load
      <3>1. /\ GetOffset(d)' = OffsetIn(catalogFile, d)
            /\ from'[d] = OffsetIn(catalogFile, d)
            /\ got'[d] = <<>>
            /\ from[d]' = GetOffset(d)'
        BY <2>6 DEF Load, CatalogLoad, GetOffset, OffsetIn
      <3>2. GetOffset(d)' \in Boundaries'
        BY <1>5 DEF DeliveryInv, OffsetsOf
      <3>3. Before(GetOffset(d))' \in Nat
        <4>1. Before(GetOffset(d))' = CountBefore(File', GetOffset(d)')
          BY DEF Before, CountBefore
        <4>2. QED
          BY <3>2, <4>1, FileTypeNext, CountType
      <3>4. Before(from[d])' = Before(GetOffset(d))'
        BY <3>1 DEF Before
      <3>5. QED
        BY <3>1, <3>2, <3>3, <3>4 DEF GivenFrom
    <2>7. CASE \/ \E len \in Lens : Enqueue(len) \/ EnqueueFails(len)
               \/ Sync \/ \E s \in DOMAIN dir : Age(s)
               \/ UNCHANGED topicVars
      <3>1. UNCHANGED <<consumers, got, from>>
        BY <2>7 DEF Enqueue, EnqueueFails, Sync, Age, topicVars, catalogVars, historyVars, CatalogSync
      <3>2. ~Closed
        BY <1>5, <2>7 DEF Enqueue, EnqueueFails, Sync, Age, LogAge, topicVars, logVars, Closed,
             LogAppend, LogWriteFails, LogSyncFails, LogRotateFails, LogAppendShut, Write
      <3>3. QED
        BY <2>3, <3>1, <3>2 DEF GetOffset, OffsetIn
    <2>8. ~Close /\ ~Crash
      BY <1>5 DEF Close, Crash, LogClose, LogDiesInAppend, Closed
    <2>9. ~CleanupOldMessages
      BY DEF CleanupOldMessages, LogInv
    <2>10. QED
      BY <2>4, <2>5, <2>6, <2>7, <2>8, <2>9 DEF TopicNext
  <1>6. QED
    BY <1>4, <1>5

\* Through every interleaving of enqueues, failures, reads, seeks to known
\* offsets, syncs, crashes and restarts, a consumer has been given exactly the
\* messages between the offset it started from and the one it has: none lost,
\* repeated or reordered (topic.go:149-180).
THEOREM ExactlyDelivered ==
  ~TornWrites /\ ~Retention /\ ~BlindSeeks /\ TopicSpec => [](InSpan => DeliveredExactly)
  <1> SUFFICES ASSUME ~TornWrites, ~Retention, ~BlindSeeks
               PROVE  TopicSpec => [](InSpan => DeliveredExactly)
    OBVIOUS
  <1>1. TopicInit => GivenInv
    BY GivenInit
  <1>2. GivenInv /\ LogInv /\ LogInv' /\ DurableInv /\ WholeInv /\ DeliveryInv /\ DeliveryInv'
          /\ CursorInv /\ [TopicNext]_topicVars => GivenInv'
    BY GivenStep
  <1>3. TopicSpec => []LogInv /\ []DurableInv /\ []WholeInv /\ []DeliveryInv /\ []CursorInv
    BY TopicRunsLog, LogInvariant, Durable, Whole, DeliveryInvariant, CursorsOnFrames, PTL
  <1>4. LogInv /\ GivenInv => (InSpan => DeliveredExactly)
    <2> SUFFICES ASSUME LogInv, GivenInv, InSpan, ~Closed, NEW c \in Consumers
                 PROVE  got[c] = Stretch(from[c], GetOffset(c))
      BY DEF DeliveredExactly
    <2> DEFINE k == Before(GetOffset(c))
               j == Before(from[c])
    <2>1. GivenFrom(c) /\ S!StreamInv
      BY DEF GivenInv
    <2>2. got[c] = SubSeq(Stored, k - Len(got[c]) + 1, k) /\ Len(got[c]) \in Nat /\ k \in Nat
      BY <2>1 DEF S!StreamInv, S!GotTheStretch
    <2>3. j \in Nat
      <3>1. j = CountBefore(File, from[c])
        BY DEF Before, CountBefore
      <3>2. QED
        BY <2>1, <3>1, FileType, CountType DEF GivenFrom
    <2>4. j + Len(got[c]) = k
      BY <2>1 DEF GivenFrom
    <2> HIDE DEF j, k
    <2>5. k - Len(got[c]) + 1 = j + 1
      <3>1. \A x, y, z \in Nat : x + y = z => z - y + 1 = x + 1
        OBVIOUS
      <3>2. QED
        BY <2>2, <2>3, <2>4, <3>1
    <2>6. got[c] = SubSeq(Stored, j + 1, k)
      BY <2>2, <2>5
    <2>7. QED
      BY <2>6 DEF Stretch, j, k
  <1>5. QED
    BY <1>1, <1>2, <1>3, <1>4, PTL DEF TopicSpec

-----------------------------------------------------------------------------
(* The index leads to the starts of messages *)

Starts(f) == {f[k].at : k \in DOMAIN f}

LeadsInto(entries, f) ==
  \A i \in DOMAIN entries :
    entries[i].offset = entries[i].position /\ entries[i].offset \in Starts(f)

LeadInv == LeadsInto(indexEntries, File) /\ LeadsInto(indexFile, File)

\* The offset that an Enqueue returns is the start of its message.
LEMMA EnqueuedStarts ==
  ASSUME DurableInv', ~Retention, NEW len \in Lens, LogAppend(len)
  PROVE  acked'[sent'] \in Starts(File')
  <1>1. sent' \in DOMAIN acked'
    BY DEF LogAppend, Write, Put
  <1>2. 0 \in DOMAIN dir' /\ \E i \in DOMAIN dir'[0] : acked'[sent'] = dir'[0][i].at
    BY <1>1 DEF DurableInv, InPlace
  <1>3. QED
    BY <1>2 DEF Starts, File

LEMMA LeadStep ==
  ASSUME LeadInv, IndexInv, LogInv, LogInv', DurableInv', ~Retention, [TopicNext]_topicVars
  PROVE  LeadInv'
  <1>1. \A i \in DOMAIN File : i \in DOMAIN File' /\ File'[i] = File[i]
    BY TopicStepOfLog, FileGrowing
  <1>2. Starts(File) \subseteq Starts(File')
    BY <1>1 DEF Starts
  <1>3. LeadsInto(indexEntries, File') /\ LeadsInto(indexFile, File')
    BY <1>2 DEF LeadInv, LeadsInto
  <1>4. ASSUME UNCHANGED indexVars PROVE LeadInv'
    BY <1>3, <1>4 DEF LeadInv, LeadsInto, indexVars
  <1>5. ASSUME NEW len \in Lens, Enqueue(len) PROVE LeadInv'
    <2> DEFINE offset == acked'[sent']
    <2>1. LogAppend(len) /\ (AddEntry(offset, offset) \/ UNCHANGED indexVars)
      BY <1>5 DEF Enqueue
    <2>2. offset \in Starts(File')
      BY <2>1, EnqueuedStarts
    <2>3. offset \in Nat
      <3>1. sent' \in DOMAIN acked'
        BY <2>1 DEF LogAppend, Write, Put
      <3>2. QED
        BY <3>1 DEF LogInv, LogTypeOK
    <2> HIDE DEF offset
    <2>4. CASE AddEntry(offset, offset)
      <3>1. indexEntries' = Inserted(indexEntries, offset, offset) /\ indexFile' = indexFile
        BY <2>4 DEF AddEntry
      <3>2. \A k \in DOMAIN Inserted(indexEntries, offset, offset) :
              \/ Inserted(indexEntries, offset, offset)[k] = IndexEntry(offset, offset)
              \/ \E i \in DOMAIN indexEntries :
                   Inserted(indexEntries, offset, offset)[k] = indexEntries[i]
        BY <2>3, InsertedIs DEF IndexInv
      <3>3. LeadsInto(Inserted(indexEntries, offset, offset), File')
        BY <1>3, <2>2, <3>2 DEF LeadsInto, IndexEntry
      <3>4. QED
        BY <1>3, <3>1, <3>3 DEF LeadInv
    <2>5. QED
      BY <1>4, <2>1, <2>4
  <1>6. CASE Sync \/ Close \/ Crash
    <2>1. ASSUME IndexSync PROVE LeadInv'
      BY <1>3, <2>1 DEF LeadInv, IndexSync, IndexPersist
    <2>2. ASSUME NEW n \in 0 .. Len(indexEntries), IndexSyncFails(n) PROVE LeadInv'
      <3>1. indexEntries' = indexEntries
            /\ indexFile' \in {indexFile, SubSeq(indexEntries, 1, n)}
        BY <2>2 DEF IndexSyncFails, IndexPersistStops
      <3>2. LeadsInto(SubSeq(indexEntries, 1, n), File')
        BY <1>3, PrefixIs DEF IndexInv, LeadsInto
      <3>3. QED
        BY <1>3, <3>1, <3>2 DEF LeadInv
    <2>3. QED
      BY <1>4, <1>6, <2>1, <2>2 DEF Sync, Close, Crash
  <1>7. CASE Load
    BY <1>3, <1>7 DEF Load, IndexLoad, LeadInv
  <1>8. ~CleanupOldMessages
    BY DEF CleanupOldMessages, LogInv
  <1>9. CASE \/ \E len \in Lens : EnqueueFails(len)
             \/ \E c \in Consumers : Dequeue(c)
             \/ \E c \in Consumers : \E offset \in SeekTargets : UpdateConsumerOffset(c, offset)
             \/ \E s \in DOMAIN dir : Age(s)
             \/ UNCHANGED topicVars
    BY <1>4, <1>9 DEF EnqueueFails, Dequeue, UpdateConsumerOffset, Age, topicVars
  <1>10. QED
    BY <1>5, <1>6, <1>7, <1>8, <1>9 DEF TopicNext

\* The index of a topic, in memory and on disk, has no entry that is not the
\* start of a message and its own position, with torn writes too, through
\* failed and cut writes of its file, crashes and restarts (topic.go:137-142).
THEOREM IndexLeadsToFrames == ~Retention /\ TopicSpec => []IndexPointsAtFrames
  <1> SUFFICES ASSUME ~Retention PROVE TopicSpec => []IndexPointsAtFrames
    OBVIOUS
  <1>1. TopicInit => LeadInv
    BY DEF TopicInit, IndexInit, LeadInv, LeadsInto
  <1>2. LeadInv /\ IndexInv /\ LogInv /\ LogInv' /\ DurableInv' /\ [TopicNext]_topicVars => LeadInv'
    BY LeadStep
  <1>3. TopicSpec => []IndexInv /\ []LogInv /\ []DurableInv
    BY TopicRunsLog, LogInvariant, Durable, IndexInvariant, PTL
  <1>4. LeadInv /\ IndexInv => IndexPointsAtFrames
    <2> SUFFICES ASSUME LeadInv, IndexInv, NEW entries \in {indexEntries, indexFile}
                 PROVE  LeadsInto(entries, File) /\ Sorted(entries)
      BY DEF IndexPointsAtFrames, LeadsInto, Starts, Sorted
    <2>1. QED
      BY DEF LeadInv, IndexInv
  <1>5. QED
    BY <1>1, <1>2, <1>3, <1>4, PTL DEF TopicSpec
=============================================================================
