----------------------------- MODULE SegmentLog -----------------------------
(***************************************************************************)
(* The append-only log of one topic: pkg/storage/log.go.                   *)
(*                                                                         *)
(* A log is a directory of segment files and the in-memory state of the    *)
(* one that is open for writing.  Every operation runs under l.mu, so each *)
(* is one action.  A message is abstracted to its number in the order of   *)
(* the Append calls and the length of its data; a file is the sequence of  *)
(* the frames [timestamp:8][size:4][data:size] written to it, each with    *)
(* the position of its first byte and the number of its bytes that reached *)
(* the file, so that a write cut short leaves a torn frame.                *)
(***************************************************************************)
EXTENDS Integers, Sequences, FiniteSets, SequencesExt

CONSTANTS
  HeaderSize,   \* MessageHeaderSize, 12 in the code; smaller in the runs
  Lens,         \* the lengths of data that callers append
  MaxSize,      \* maxSize: log_segment_size
  SegSpan,      \* 2^32 in the code: positions one segment number can address
  MaxMessages,  \* bound on the number of Append calls
  TornWrites,   \* whether a write may stop half-way (full disk, kill, power)
  Retention     \* whether a segment may outlive the retention period

ASSUME LogAssumption ==
  /\ HeaderSize \in Nat \ {0}
  /\ Lens \subseteq Nat
  /\ MaxSize \in Nat
  /\ SegSpan \in Nat \ {0}
  /\ MaxMessages \in Nat
  /\ TornWrites \in BOOLEAN
  /\ Retention \in BOOLEAN

VARIABLES
  dir,           \* segment number -> its file, a sequence of frames
  segmentIndex,  \* l.segmentIndex
  currentSize,   \* l.currentSize
  fd,            \* l.file: "linked" to dir[segmentIndex], "orphan" (the file
                 \* was unlinked while open), "shut" (by a rotation that then
                 \* failed) or "closed" (no process has the log)
  writerErr,     \* l.writer holds a sticky error (bufio.Writer), or l.file is
                 \* shut: no write and no sync can succeed
  aged,          \* segments last modified before the retention period
  sent,          \* history: number of Append calls that reached the writer
  acked          \* history: message -> offset that its Append returned

logVars ==
  <<dir, segmentIndex, currentSize, fd, writerErr, aged, sent, acked>>

-----------------------------------------------------------------------------
(* Frames, files and offsets *)

FrameSize(len) == HeaderSize + len

Frame == [msg : Nat, len : Nat, at : Nat, have : Nat]

IsWhole(frame) == frame.have = FrameSize(frame.len)

\* The size of a file: one past the last byte written to it.
EndOf(file) ==
  IF file = <<>> THEN 0 ELSE file[Len(file)].at + file[Len(file)].have

\* The partial function f, with value v at key k.
Put(f, k, v) == [j \in DOMAIN f \cup {k} |-> IF j = k THEN v ELSE f[j]]

\* seg << 32 | local.  Addition is the same while local < SegSpan, and also
\* in segment 0, the only one there ever is: see RotateSegment.
GlobalOffset(seg, local) == seg * SegSpan + local
SegOf(offset)   == offset \div SegSpan
LocalOf(offset) == offset % SegSpan

FindLatestSegment(d) == Max(DOMAIN d \cup {0})

\* Variant: without the Stat, the counter of a reopened segment starts at 0.
OpenWithoutStat(d) ==
  LET s    == FindLatestSegment(d)
      file == IF s \in DOMAIN d THEN d[s] ELSE <<>>
  IN  [dir |-> Put(d, s, file), seg |-> s, size |-> 0, fd |-> "linked"]

\* What l.file, l.currentSize and the directory d become when the latest
\* segment is opened with O_CREATE|O_APPEND; its size comes from Stat.
OpenCurrentSegment(d) ==
  LET s    == FindLatestSegment(d)
      file == IF s \in DOMAIN d THEN d[s] ELSE <<>>
  IN  [dir |-> Put(d, s, file), seg |-> s, size |-> EndOf(file), fd |-> "linked"]

\* rotateSegment closes the file, counts segmentIndex up and resets
\* currentSize, and then opens the current segment, which assigns both again.
RotateSegment == OpenCurrentSegment(dir)

\* The writer an Append of len bytes of data ends up with.
WriterFor(len) ==
  IF currentSize + FrameSize(len) > MaxSize
  THEN RotateSegment
  ELSE [dir |-> dir, seg |-> segmentIndex, size |-> currentSize, fd |-> fd]

\* The directory after `have` bytes of the frame of message m reached the
\* file of writer w.  O_APPEND puts them at the end of the file, whatever
\* currentSize says.  Bytes written to an unlinked file are in no directory.
Written(w, m, len, have) ==
  IF w.fd = "linked" /\ have > 0
  THEN Put(w.dir, w.seg,
           Append(w.dir[w.seg],
                  [msg |-> m, len |-> len, at |-> EndOf(w.dir[w.seg]), have |-> have]))
  ELSE w.dir

-----------------------------------------------------------------------------
(* Reading.  ReadFrom opens segments by path, so it needs no open writer.  *)

\* An entry of a read; msg 0 stands for bytes that are no message.
Entry(seg, frame) ==
  [msg |-> frame.msg, offset |-> GlobalOffset(seg, frame.at), len |-> frame.len]
Garbage(offset, len) == [msg |-> 0, offset |-> offset, len |-> len]

ReadError    == [ok |-> FALSE, entries |-> <<>>]
ReadOk(list) == [ok |-> TRUE, entries |-> list]

\* The whole frames that follow one another from position `local` of a file.
WholeFrom(file, local) ==
  LET first == {i \in DOMAIN file : file[i].at = local}
      broken(i) == {j \in i .. Len(file) : ~IsWhole(file[j])}
  IN  IF first = {} THEN <<>>
      ELSE LET i == Max(first)
           IN  SubSeq(file, i, IF broken(i) = {} THEN Len(file) ELSE Min(broken(i)) - 1)

\* Where the loop may find headers from a position to the end of a file, taking
\* one from whatever bytes are there: each a header or more behind the last, and
\* one that a frame has there says where the next is.
HeaderPlaces(file, from) ==
  {P \in SUBSET {p \in 0 .. EndOf(file) - 1 : p >= from} :
     /\ from \in P
     /\ \A p \in P :
          LET next == Min({q \in P : q > p} \cup {EndOf(file)})
          IN  /\ next >= p + HeaderSize
              /\ \A i \in DOMAIN file :
                   file[i].at = p /\ file[i].have >= HeaderSize =>
                     next = p + FrameSize(file[i].len)}

\* What is read at a place, up to the next: a message if a frame is there, else
\* garbage.
EntryAt(seg, file, p, next) ==
  LET frames == {i \in DOMAIN file : file[i].at = p /\ IsWhole(file[i])}
  IN  IF frames # {} THEN Entry(seg, file[CHOOSE i \in frames : TRUE])
      ELSE Garbage(GlobalOffset(seg, p), next - p - HeaderSize)

EntriesAt(seg, file, P) ==
  LET place(k) == CHOOSE p \in P : Cardinality({q \in P : q < p}) = k - 1
      next(p)  == Min({q \in P : q > p} \cup {EndOf(file)})
  IN  [k \in 1 .. Cardinality(P) |-> EntryAt(seg, file, place(k), next(place(k)))]

\* The results ReadFrom can have.  It reads frame after frame until a header
\* read meets the end of the file; any other error drops the entries already
\* read.  From a position that is no frame, or behind a torn one, it goes on
\* with what it takes for headers, until an error or the end.
ReadFrom(offset) ==
  LET seg   == SegOf(offset)
      local == LocalOf(offset)
  IN  IF seg \notin DOMAIN dir THEN {ReadError}
      ELSE LET file == dir[seg]
               good == WholeFrom(file, local)
               list == [i \in DOMAIN good |-> Entry(seg, good[i])]
               stop == IF good = <<>> THEN local ELSE EndOf(good)
           IN  IF local >= EndOf(file) THEN {ReadOk(<<>>)}
               ELSE IF EndOf(file) >= SegSpan THEN {ReadError}  \* goes on in segment seg + 1
               ELSE IF stop = EndOf(file) THEN {ReadOk(list)}
               ELSE {ReadError} \cup
                    {ReadOk(list \o EntriesAt(seg, file, P)) : P \in HeaderPlaces(file, stop)}

\* GetSize: the global offset of the end of the log, as the writer counts it.
GetSize == GlobalOffset(segmentIndex, currentSize)

-----------------------------------------------------------------------------
(* The state machine *)

NoFiles == [s \in {} |-> <<>>]

LogInit ==
  /\ dir = NoFiles
  /\ segmentIndex = 0
  /\ currentSize = 0
  /\ fd = "closed"
  /\ writerErr = FALSE
  /\ aged = {}
  /\ sent = 0
  /\ acked = [m \in {} |-> 0]

\* NewLog: open the latest segment, creating the file if there is none.
LogOpen ==
  /\ fd = "closed"
  /\ LET o == OpenCurrentSegment(dir)
     IN  /\ dir' = o.dir
         /\ segmentIndex' = o.seg
         /\ currentSize' = o.size
         /\ fd' = o.fd
  /\ writerErr' = FALSE
  /\ UNCHANGED <<aged, sent, acked>>

\* The part of an Append that every outcome shares: the writer it uses, the
\* bytes that reach the file, and the new modification time of that file.
\* After a write error every Append fails before it changes anything.
Write(len, have, counted) ==
  /\ fd # "closed"
  /\ ~writerErr
  /\ sent < MaxMessages
  /\ LET w == WriterFor(len)
     IN  /\ dir' = Written(w, sent + 1, len, have)
         /\ segmentIndex' = w.seg
         /\ currentSize' = IF counted THEN w.size + FrameSize(len) ELSE w.size
         /\ fd' = w.fd
         /\ aged' = IF have > 0 THEN aged \ {w.seg} ELSE aged
  /\ sent' = sent + 1

\* Variant: the message stays in the writer's buffer.
AppendWithoutFlush(len) ==
  /\ Write(len, 0, TRUE)
  /\ acked' = Put(acked, sent + 1,
                  GlobalOffset(WriterFor(len).seg, WriterFor(len).size))
  /\ UNCHANGED writerErr

\* Append that succeeds: header and data are written, flushed and synced, and
\* the offset before the write is returned.
LogAppend(len) ==
  /\ Write(len, FrameSize(len), TRUE)
  /\ acked' = Put(acked, sent + 1,
                  GlobalOffset(WriterFor(len).seg, WriterFor(len).size))
  /\ UNCHANGED writerErr

\* Append whose write fails after `have` bytes: in Write of a long message,
\* before currentSize is advanced, or in the Flush of a short one, after it.
LogWriteFails(len, have, counted) ==
  /\ have < FrameSize(len)
  /\ have > 0 => TornWrites
  /\ Write(len, have, counted)
  /\ writerErr' = TRUE
  /\ UNCHANGED acked

\* Variant: currentSize is advanced only after the sync.
SyncFailsUncounted(len) ==
  /\ Write(len, FrameSize(len), FALSE)
  /\ UNCHANGED <<writerErr, acked>>

\* Append whose fsync fails: the frame is in the file and counted, and the
\* caller is told that the message was not stored.
LogSyncFails(len) ==
  /\ Write(len, FrameSize(len), TRUE)
  /\ UNCHANGED <<writerErr, acked>>

\* Append that has to rotate and cannot open the segment again: the old file
\* is closed, the writer still writes to it, the counter was reset.  The next
\* Append, if it is short, is buffered and counted before its Flush fails.
LogRotateFails(len) ==
  /\ fd # "closed"
  /\ ~writerErr
  /\ currentSize + FrameSize(len) > MaxSize
  /\ segmentIndex' = FindLatestSegment(dir)
  /\ currentSize' = 0
  /\ fd' = "shut"
  /\ writerErr' = TRUE
  /\ UNCHANGED <<dir, aged, sent, acked>>

LogAppendShut(len) ==
  /\ fd = "shut"
  /\ currentSize = 0
  /\ FrameSize(len) <= MaxSize
  /\ currentSize' = FrameSize(len)
  /\ UNCHANGED <<dir, segmentIndex, fd, writerErr, aged, sent, acked>>

\* The process ends within Append, after `have` bytes and before the reply.
LogDiesInAppend(len, have) ==
  /\ have \in 1 .. FrameSize(len) - 1 => TornWrites
  /\ fd # "closed"
  /\ ~writerErr
  /\ sent < MaxMessages
  /\ LET w == WriterFor(len)
     IN  /\ dir' = Written(w, sent + 1, len, have)
         /\ aged' = IF have > 0 THEN aged \ {w.seg} ELSE aged
  /\ sent' = sent + 1
  /\ fd' = "closed"
  /\ UNCHANGED <<segmentIndex, currentSize, writerErr, acked>>

\* Close, or the end of the process between two operations: every Append
\* flushes before it returns, so neither has anything left to write.
LogClose ==
  /\ fd # "closed"
  /\ fd' = "closed"
  /\ UNCHANGED <<dir, segmentIndex, currentSize, writerErr, aged, sent, acked>>

\* Time passes: segment s was last written longer ago than the retention.
LogAge(s) ==
  /\ Retention
  /\ s \in DOMAIN dir \ aged
  /\ aged' = aged \cup {s}
  /\ UNCHANGED <<dir, segmentIndex, currentSize, fd, writerErr, sent, acked>>

\* DeleteSegment on each of the files in S.  Nothing tells the writer.
DeleteSegments(S) ==
  /\ fd # "closed"
  /\ dir' = Restrict(dir, DOMAIN dir \ S)
  /\ fd' = IF fd = "linked" /\ segmentIndex \in S THEN "orphan" ELSE fd
  /\ aged' = aged \ S
  /\ UNCHANGED <<segmentIndex, currentSize, writerErr, sent, acked>>

LogNext ==
  \/ LogOpen
  \/ \E len \in Lens : LogAppend(len)
  \/ \E len \in Lens : \E have \in 0 .. FrameSize(len), counted \in BOOLEAN :
       LogWriteFails(len, have, counted)
  \/ \E len \in Lens : LogSyncFails(len)
  \/ \E len \in Lens : LogRotateFails(len) \/ LogAppendShut(len)
  \/ \E len \in Lens : \E have \in 0 .. FrameSize(len) : LogDiesInAppend(len, have)
  \/ LogClose
  \/ \E s \in DOMAIN dir : LogAge(s)
  \/ aged # {} /\ DeleteSegments(aged)

LogSpec == LogInit /\ [][LogNext]_logVars

-----------------------------------------------------------------------------
(* Properties *)

LogTypeOK ==
  /\ DOMAIN dir \subseteq Nat
  /\ \A s \in DOMAIN dir : dir[s] \in Seq(Frame)
  /\ segmentIndex \in Nat
  /\ currentSize \in Nat
  /\ fd \in {"linked", "orphan", "shut", "closed"}
  /\ writerErr \in BOOLEAN
  /\ aged \subseteq DOMAIN dir
  /\ sent \in 0 .. MaxMessages
  /\ DOMAIN acked \subseteq 1 .. sent
  /\ \A m \in DOMAIN acked : acked[m] \in Nat

\* The frames of a file follow one another without gap or overlap, and are
\* in the order of the Append calls.
Contiguous(file) ==
  /\ \A i \in DOMAIN file :
       /\ file[i].have \in 1 .. FrameSize(file[i].len)
       /\ file[i].at = IF i = 1 THEN 0 ELSE file[i-1].at + file[i-1].have
  /\ \A i, j \in DOMAIN file : i < j =>
       /\ file[i].msg < file[j].msg
       /\ file[i].at + file[i].have <= file[j].at

\* What the writer believes agrees with the directory: its counter is the
\* size of the file it appends to (log.go:71 takes the offset of a message
\* from the counter, O_APPEND takes its place from the file), files have no
\* gaps, and a closed or linked writer is never ahead of the directory.
LogConsistent ==
  /\ \A s \in DOMAIN dir : Contiguous(dir[s])
  /\ \A s \in DOMAIN dir : \A i \in DOMAIN dir[s] : dir[s][i].msg <= sent
  /\ fd = "linked" => segmentIndex \in DOMAIN dir
  /\ fd = "linked" /\ ~writerErr => currentSize = EndOf(dir[segmentIndex])

\* log.go:234, "rotateSegment creates a new log segment": no segment outgrows
\* log_segment_size, unless by its first message.
SegmentsAreBounded ==
  \A s \in DOMAIN dir : Len(dir[s]) > 1 => EndOf(dir[s]) <= MaxSize

IsMessage(frame, m) == frame.msg = m /\ IsWhole(frame)

\* Durability: every message whose Append returned an offset is in the log,
\* whole, and at that offset, through rotation, reopening, failed and torn
\* writes of other messages (Append and openCurrentSegment; retention aside).
AckedInPlace ==
  Retention \/
  \A m \in DOMAIN acked : \E s \in DOMAIN dir : \E i \in DOMAIN dir[s] :
    IsMessage(dir[s][i], m) /\ acked[m] = GlobalOffset(s, dir[s][i].at)

\* With retention too, an acknowledged message that is still in the log is at
\* no other offset than the one its producer was told.
OffsetsTruthful ==
  \A s \in DOMAIN dir : \A i \in DOMAIN dir[s] : \A m \in DOMAIN acked :
    IsMessage(dir[s][i], m) => acked[m] = GlobalOffset(s, dir[s][i].at)

\* log.go:139, "ReadFrom reads all messages starting from a global offset": a
\* read from the offset of an acknowledged message returns that message and
\* every acknowledged one after it, each at its own offset.
AckedReadable ==
  \A m \in DOMAIN acked : \A r \in ReadFrom(acked[m]) :
    /\ r.ok
    /\ \A n \in DOMAIN acked : n >= m =>
         \E k \in DOMAIN r.entries :
           r.entries[k].msg = n /\ r.entries[k].offset = acked[n]

StartsWith(m, results) ==
  \A r \in results : r.ok /\ r.entries # <<>> /\ r.entries[1].msg = m

\* log.go:90, "Always sync after write to ensure data is available for
\* reading": when Append returns an offset, ReadFrom that offset returns the
\* message, whatever torn frames the file has before it, unless the file was
\* deleted under the writer (log.go:71-95).
LinkedAppendIsReadable ==
  [][\A m \in DOMAIN acked' \ DOMAIN acked :
       fd' = "linked" => StartsWith(m, ReadFrom(acked[m])')]_logVars
=============================================================================
