---------------------------- MODULE OffsetIndex ----------------------------
(***************************************************************************)
(* The sparse offset index of one topic: pkg/storage/index.go.             *)
(*                                                                         *)
(* The index is a sorted slice of <<offset, position>> entries in memory   *)
(* and a file of them that Sync, Close and Rebuild rewrite in place.  A    *)
(* write that stops half-way leaves a prefix of the entries in the file    *)
(* (a cut entry is dropped by the next load, which divides the size by 16).*)
(* The log it indexes is a parameter of Rebuild: this module stands alone. *)
(***************************************************************************)
EXTENDS Integers, Sequences, FiniteSets, SequencesExt

CONSTANT
  ScanFails  \* whether listing or reading the segments of a Rebuild may fail

ASSUME IndexAssumption == ScanFails \in BOOLEAN

VARIABLES
  indexEntries,  \* i.entries
  indexDirty,    \* i.dirty
  indexFile      \* the entries in index.idx

indexVars == <<indexEntries, indexDirty, indexFile>>

IndexEntry(offset, position) == [offset |-> offset, position |-> position]

-----------------------------------------------------------------------------
(* Search and lookup *)

\* sort.Search over a sorted slice: the first place with an offset of at
\* least (above) the target, or one past the end.
FirstAtLeast(entries, offset) ==
  Min({j \in DOMAIN entries : entries[j].offset >= offset} \cup {Len(entries) + 1})
FirstAbove(entries, offset) ==
  Min({j \in DOMAIN entries : entries[j].offset > offset} \cup {Len(entries) + 1})

\* Variant: entries are appended, as if offsets only grew.
InsertedLast(entries, offset, position) ==
  Append(entries, IndexEntry(offset, position))

\* Variant: an entry at the same offset is not replaced.
InsertedTwice(entries, offset, position) ==
  InsertAt(entries, FirstAtLeast(entries, offset), IndexEntry(offset, position))

\* The slice after AddEntry: replaced at its offset, or inserted in order.
Inserted(entries, offset, position) ==
  LET j == FirstAtLeast(entries, offset)
      e == IndexEntry(offset, position)
  IN  IF j \in DOMAIN entries /\ entries[j].offset = offset
      THEN [entries EXCEPT ![j] = e]
      ELSE InsertAt(entries, j, e)

\* The entries a lookup returns: at most one, none for its error.
GetPosition(entries, offset) ==
  LET j == FirstAtLeast(entries, offset)
  IN  IF j \in DOMAIN entries /\ entries[j].offset = offset THEN {entries[j]} ELSE {}

\* Variant: the search stops at the target itself.
ClosestBelow(entries, offset) ==
  LET j == FirstAtLeast(entries, offset)
  IN  IF entries = <<>> THEN {}
      ELSE IF j = 1 THEN {entries[1]}
      ELSE {entries[j - 1]}

GetClosestPosition(entries, offset) ==
  LET j == FirstAbove(entries, offset)
  IN  IF entries = <<>> THEN {}
      ELSE IF j = 1 THEN {entries[1]}
      ELSE {entries[j - 1]}

\* The loop of GetRange, which breaks behind the first entry above `last`:
\* result[i] is what it has found among the first i entries.
GetRange(entries, first, last) ==
  LET scanned == FirstAbove(entries, last) - 1
      result[i \in 0 .. scanned] ==
        IF i = 0 THEN <<>>
        ELSE IF entries[i].offset >= first THEN Append(result[i - 1], entries[i])
        ELSE result[i - 1]
  IN  result[scanned]

\* scanSegment: an entry for each frame, here the position of its header
\* (of a file without torn frames).
\* The number of a segment is its place in the list, not in its file name.
ScanSegment(base, positions) ==
  [i \in DOMAIN positions |-> IndexEntry(base + positions[i], positions[i])]

-----------------------------------------------------------------------------
(* The state machine *)

IndexInit ==
  /\ indexEntries = <<>>
  /\ indexDirty = FALSE
  /\ indexFile = <<>>

AddEntry(offset, position) ==
  /\ indexEntries' = Inserted(indexEntries, offset, position)
  /\ indexDirty' = TRUE
  /\ UNCHANGED indexFile

\* persist, to the end, of entries e.
IndexPersist(e) ==
  /\ indexFile' = e
  /\ indexDirty' = FALSE

\* Variant: dirty is cleared before the writing is done.
PersistStopsClean(e, n) ==
  /\ indexFile' \in {indexFile, SubSeq(e, 1, n)}
  /\ indexDirty' = FALSE

\* persist of e that stops before it truncates the file, or after n entries, or
\* whose fsync fails (n = Len(e)): dirty stays set.
IndexPersistStops(e, n) ==
  /\ indexFile' \in {indexFile, SubSeq(e, 1, n)}
  /\ indexDirty' = TRUE

\* Sync; Close does the same to these variables.
IndexSync ==
  /\ IF indexDirty THEN IndexPersist(indexEntries)
                   ELSE UNCHANGED <<indexFile, indexDirty>>
  /\ UNCHANGED indexEntries

IndexSyncFails(n) ==
  /\ indexDirty
  /\ IndexPersistStops(indexEntries, n)
  /\ UNCHANGED indexEntries

\* Rebuild from a sequence of segments, each the offset it starts at and the
\* positions of its frames; it persists what it found.
Scanned(segments) ==
  FlattenSeq([k \in DOMAIN segments |->
                ScanSegment(segments[k].base, segments[k].positions)])

Rebuild(segments) ==
  /\ indexEntries' = Scanned(segments)
  /\ IndexPersist(Scanned(segments))

RebuildFails(segments, n) ==
  /\ indexEntries' = Scanned(segments)
  /\ IndexPersistStops(Scanned(segments), n)

\* Rebuild whose scan fails: the entries are those found so far, and nothing
\* says that they are not the ones in the file.
RebuildScanFails(segments, n) ==
  /\ ScanFails
  /\ indexEntries' = SubSeq(Scanned(segments), 1, n)
  /\ UNCHANGED <<indexDirty, indexFile>>

\* NewIndex in a new process: memory is what the file holds.
IndexLoad ==
  /\ indexEntries' = indexFile
  /\ indexDirty' = FALSE
  /\ UNCHANGED indexFile

-----------------------------------------------------------------------------
(* Properties *)

\* Offsets are strictly increasing: what every binary search relies on, and
\* what AddEntry, Rebuild and the reload of a cut file must keep.
IndexSorted ==
  \A i, j \in DOMAIN indexEntries :
    i < j => indexEntries[i].offset < indexEntries[j].offset

\* index.go:139, "Sync persists the index to disk", and it skips the write when
\* dirty is not set: an index that is not dirty is the one in the file.
IndexCleanIsSaved == ~indexDirty => indexFile = indexEntries

Entries == ToSet(indexEntries)

\* What AddEntry makes of the entries, as a set and in order.
EntryReplaced(o, p) ==
  LET after == Inserted(indexEntries, o, p)
  IN  /\ ToSet(after) = {e \in Entries : e.offset # o} \cup {IndexEntry(o, p)}
      /\ \A i, j \in DOMAIN after : i < j => after[i].offset < after[j].offset

\* What GetPosition finds at an offset.
PositionFound(o) == GetPosition(indexEntries, o) = {e \in Entries : e.offset = o}

\* What GetClosestPosition finds for an offset: the last entry not above it,
\* where there is one.
ClosestFound(o) ==
  LET below == {e \in Entries : e.offset <= o}
  IN  below # {} => GetClosestPosition(indexEntries, o) =
                      {e \in below : \A f \in below : f.offset <= e.offset}

\* What GetRange finds from one offset to another, and in which order.
RangeFound(first, last) ==
  LET found == GetRange(indexEntries, first, last)
  IN  /\ ToSet(found) = {e \in Entries : e.offset \in first .. last}
      /\ \A i, j \in DOMAIN found : i < j => found[i].offset < found[j].offset
=============================================================================
