---------------------------- MODULE StorageProofs ----------------------------
(***************************************************************************)
(* Proofs about the three parts of pkg/storage, for every value of their   *)
(* constants.                                                              *)
(*                                                                         *)
(* The log.  LogInv is inductive.  It adds to the type invariant that the  *)
(* directory is well formed (frames without gaps, in append order, of      *)
(* messages sent so far, in segment 0 only), that the writer's counter is  *)
(* the size of the file it appends to, and that without retention no open  *)
(* file is ever unlinked.  Durability is then a second invariant relative  *)
(* to it.  Reading: frames have no gaps and the file is in order, so that  *)
(* a read that starts at a frame from which on all are whole returns these *)
(* (WholeRead).  The offset an Append returned is the start of a frame,    *)
(* and without torn writes all frames are whole (WholeInv).                *)
(*                                                                         *)
(* The index, with callers and logs as in Stores.  It is sorted in memory  *)
(* and in its file (IndexInv), from which all its lookups follow.  What    *)
(* loops compute (GetRange, the concatenation of a Rebuild) is defined by  *)
(* recursive functions: RecursiveFunction shows that these exist, and      *)
(* HoldsUpTo, from the least number that would be an exception, what holds *)
(* of them.                                                                *)
(*                                                                         *)
(* The catalog, with callers as in Stores: saving it in one step, and in   *)
(* the steps of CatalogPersist, which implement that one (PersistInv).     *)
(***************************************************************************)
EXTENDS SegmentLog, CatalogPersist, SequenceTheorems, FiniteSetTheorems, WellFoundedInduction, TLAPS

-----------------------------------------------------------------------------
(* Files *)

\* A well-formed directory of messages numbered up to n.
DirOK(d, n) ==
  /\ DOMAIN d \subseteq {0}
  /\ \A s \in DOMAIN d :
       /\ d[s] \in Seq(Frame)
       /\ Contiguous(d[s])
       /\ \A i \in DOMAIN d[s] : d[s][i].msg <= n

\* Directory e is d with at most the frame `new` added.
Extends(d, e, new) ==
  /\ \A s \in DOMAIN d :
       /\ s \in DOMAIN e
       /\ \A i \in DOMAIN d[s] : i \in DOMAIN e[s] /\ e[s][i] = d[s][i]
  /\ \A s \in DOMAIN e : \A i \in DOMAIN e[s] :
       \/ s \in DOMAIN d /\ i \in DOMAIN d[s]
       \/ e[s][i] = new

\* The frame of an Append of len bytes of data, `have` bytes of it written.
NewFrame(len, have) ==
  [msg |-> sent + 1, len |-> len, at |-> WriterFor(len).size, have |-> have]
NoFrame == [msg |-> 0, len |-> 0, at |-> 0, have |-> 0]

LogInv ==
  /\ LogTypeOK
  /\ DirOK(dir, sent)
  /\ segmentIndex = 0
  /\ fd = "linked" => 0 \in DOMAIN dir
  /\ fd = "shut" => writerErr
  /\ fd = "linked" /\ ~writerErr => currentSize = EndOf(dir[0])
  /\ ~Retention => fd # "orphan" /\ aged = {}

\* The size of a file is a number of bytes.
LEMMA EndOfType ==
  ASSUME NEW file \in Seq(Frame)
  PROVE  EndOf(file) \in Nat
  <1>1. CASE file = <<>>
    BY <1>1 DEF EndOf
  <1>2. CASE file # <<>>
    <2>1. Len(file) \in DOMAIN file
      BY <1>2
    <2>2. file[Len(file)] \in Frame
      BY <2>1
    <2>3. file[Len(file)].at \in Nat /\ file[Len(file)].have \in Nat
      BY <2>2 DEF Frame
    <2>4. QED
      BY <1>2, <2>3 DEF EndOf
  <1>3. QED
    BY <1>1, <1>2

\* A frame appended at the end of a file keeps it well formed and makes it
\* longer by the bytes written.
LEMMA AppendFrame ==
  ASSUME NEW file \in Seq(Frame), Contiguous(file),
         NEW n \in Nat, \A i \in DOMAIN file : file[i].msg <= n,
         NEW len \in Nat, NEW have \in 1 .. FrameSize(len),
         NEW frame,
         frame = [msg |-> n + 1, len |-> len, at |-> EndOf(file), have |-> have]
  PROVE  /\ Append(file, frame) \in Seq(Frame)
         /\ Contiguous(Append(file, frame))
         /\ EndOf(Append(file, frame)) = EndOf(file) + have
         /\ \A i \in DOMAIN Append(file, frame) : Append(file, frame)[i].msg <= n + 1
  <1> DEFINE longer == Append(file, frame)
  <1>1. HeaderSize \in Nat /\ FrameSize(len) \in Nat
    BY LogAssumption DEF FrameSize
  <1>2. EndOf(file) \in Nat
    BY EndOfType
  <1>3. /\ frame \in Frame
        /\ frame.msg = n + 1
        /\ frame.at + frame.have = EndOf(file) + have
    BY <1>1, <1>2 DEF Frame
  <1>4. /\ longer \in Seq(Frame)
        /\ Len(longer) = Len(file) + 1
        /\ DOMAIN longer = 1 .. Len(file) + 1
        /\ DOMAIN file = 1 .. Len(file)
        /\ longer[Len(file) + 1] = frame
        /\ \A i \in 1 .. Len(file) : longer[i] = file[i]
    BY <1>3
  <1>5. EndOf(longer) = EndOf(file) + have
    <2>1. Len(file) \in Nat
      OBVIOUS
    <2>2. longer # <<>>
      BY <1>4, <2>1
    <2>3. longer[Len(longer)] = frame
      BY <1>4
    <2>4. EndOf(longer) = frame.at + frame.have
      BY <2>2, <2>3 DEF EndOf
    <2>5. QED
      BY <2>4, <1>3
  <1>6. \A i \in DOMAIN longer : longer[i].msg <= n + 1
    <2>1. ASSUME NEW i \in 1 .. Len(file)
          PROVE  file[i].msg \in Nat
      <3>1. file[i] \in Frame
        BY <1>4
      <3>2. QED
        BY <3>1 DEF Frame
    <2>2. QED
      BY <2>1, <1>3, <1>4
  <1>7. Contiguous(longer)
    <2>1. ASSUME NEW i \in DOMAIN longer
          PROVE  /\ longer[i].have \in 1 .. FrameSize(longer[i].len)
                 /\ longer[i].at = IF i = 1 THEN 0
                                   ELSE longer[i-1].at + longer[i-1].have
      <3>1. CASE i \in 1 .. Len(file)
        BY <3>1, <1>4 DEF Contiguous
      <3>2. CASE i = Len(file) + 1 /\ file = <<>>
        BY <3>2, <1>4 DEF EndOf
      <3>3. CASE i = Len(file) + 1 /\ file # <<>>
        <4>1. Len(file) \in 1 .. Len(file) /\ i # 1 /\ i - 1 = Len(file)
          BY <3>3
        <4>2. longer[i-1] = file[Len(file)]
          BY <4>1, <1>4
        <4>3. EndOf(file) = longer[i-1].at + longer[i-1].have
          BY <4>2, <3>3 DEF EndOf
        <4>4. QED
          BY <4>1, <4>3, <3>3, <1>4
      <3>4. QED
        BY <3>1, <3>2, <3>3, <1>4
    <2>2. ASSUME NEW i \in DOMAIN longer, NEW j \in DOMAIN longer, i < j
          PROVE  /\ longer[i].msg < longer[j].msg
                 /\ longer[i].at + longer[i].have <= longer[j].at
      <3>1. CASE j \in 1 .. Len(file)
        BY <3>1, <2>2, <1>4 DEF Contiguous
      <3>2. CASE j = Len(file) + 1
        <4>1. i \in 1 .. Len(file)
          BY <3>2, <2>2, <1>4
        <4>2. longer[i] = file[i] /\ file[i] \in Frame
          BY <4>1, <1>4
        <4>3. longer[i].msg \in Nat /\ longer[i].msg <= n
          BY <4>1, <4>2, <1>4 DEF Frame
        <4>4. file[i].at + file[i].have <= EndOf(file)
          <5>1. Len(file) \in 1 .. Len(file) /\ file # <<>>
            BY <4>1, <1>4
          <5>2. EndOf(file) = file[Len(file)].at + file[Len(file)].have
            BY <5>1 DEF EndOf
          <5>3. /\ file[Len(file)].at \in Nat /\ file[Len(file)].have \in Nat
                /\ file[i].at \in Nat /\ file[i].have \in Nat
            <6>1. file[Len(file)] \in Frame
              BY <5>1
            <6>2. QED
              BY <6>1, <4>2 DEF Frame
          <5>4. CASE i = Len(file)
            BY <5>2, <5>3, <5>4
          <5>5. CASE i < Len(file)
            <6>1. file[i].at + file[i].have <= file[Len(file)].at
              BY <4>1, <5>1, <5>5, <1>4 DEF Contiguous
            <6>2. \A v, w, x, y \in Nat : v + w <= x => v + w <= x + y
              OBVIOUS
            <6>3. QED
              BY ONLY <6>1, <6>2, <5>2, <5>3, Zenon
          <5>6. Len(file) \in Nat
            BY <1>4
          <5>7. QED
            BY <5>4, <5>5, <5>6, <4>1
        <4>5. longer[j] = frame /\ frame.at = EndOf(file)
          BY <3>2, <1>4
        <4>6. QED
          BY <4>2, <4>3, <4>4, <4>5, <1>3
      <3>3. QED
        BY <3>1, <3>2, <1>4
    <2>3. QED
      BY <2>1, <2>2 DEF Contiguous
  <1>8. QED
    BY <1>4, <1>5, <1>6, <1>7

\* A directory of messages up to n is one of messages up to n + 1.
LEMMA DirGrows ==
  ASSUME NEW d, NEW n \in Nat, DirOK(d, n)
  PROVE  DirOK(d, n + 1)
  <1>1. ASSUME NEW s \in DOMAIN d, NEW i \in DOMAIN d[s]
        PROVE  d[s][i].msg <= n + 1
    <2>1. d[s][i] \in Frame /\ d[s][i].msg <= n
      BY DEF DirOK
    <2>2. QED
      BY <2>1 DEF Frame
  <1>2. QED
    BY <1>1 DEF DirOK

-----------------------------------------------------------------------------
(* Opening and writing *)

\* The latest segment of a directory that has at most segment 0 is segment 0.
LEMMA LatestIsZero ==
  ASSUME NEW d, DOMAIN d \subseteq {0}
  PROVE  FindLatestSegment(d) = 0
  <1>1. DOMAIN d \cup {0} = {0}
    OBVIOUS
  <1>2. Max({0}) = 0
    BY DEF Max
  <1>3. QED
    BY <1>1, <1>2 DEF FindLatestSegment

\* Opening the latest segment adds no frame and finds the size of the file.
LEMMA OpenSegment ==
  ASSUME NEW d, NEW n \in Nat, DirOK(d, n), NEW new
  PROVE  LET o == OpenCurrentSegment(d)
         IN  /\ DirOK(o.dir, n)
             /\ Extends(d, o.dir, new)
             /\ o.seg = 0
             /\ o.fd = "linked"
             /\ 0 \in DOMAIN o.dir
             /\ o.size = EndOf(o.dir[0])
             /\ o.size \in Nat
  <1> DEFINE o == OpenCurrentSegment(d)
             file == IF 0 \in DOMAIN d THEN d[0] ELSE <<>>
  <1>1. FindLatestSegment(d) = 0
    BY LatestIsZero DEF DirOK
  <1>2. o = [dir |-> Put(d, 0, file), seg |-> 0, size |-> EndOf(file), fd |-> "linked"]
    BY <1>1 DEF OpenCurrentSegment
  <1>3. /\ file \in Seq(Frame)
        /\ Contiguous(file)
        /\ \A i \in DOMAIN file : file[i].msg <= n
    BY DEF DirOK, Contiguous
  <1>4. /\ DOMAIN o.dir = {0}
        /\ o.dir[0] = file
    BY <1>2 DEF Put, DirOK
  <1>5. DirOK(o.dir, n)
    BY <1>3, <1>4 DEF DirOK
  <1>6. Extends(d, o.dir, new)
    BY <1>4 DEF Extends, DirOK
  <1>7. EndOf(file) \in Nat
    BY <1>3, EndOfType
  <1>8. QED
    BY <1>2, <1>4, <1>5, <1>6, <1>7

\* What every kind of Append does to the directory: at most one frame is
\* added, of the next message, in the file the writer ends up with and at the
\* position the writer counted.
LEMMA WriteEffect ==
  ASSUME LogInv, fd # "closed", ~writerErr,
         NEW len \in Lens, NEW have \in 0 .. FrameSize(len)
  PROVE  LET w == WriterFor(len)
             e == Written(w, sent + 1, len, have)
             new == NewFrame(len, have)
         IN  /\ DirOK(e, sent + 1)
             /\ Extends(dir, e, new)
             /\ w.seg = 0
             /\ w.size \in Nat
             /\ w.fd \in {"linked", "orphan"}
             /\ ~Retention => w.fd = "linked"
             /\ w.fd = "linked" =>
                  /\ 0 \in DOMAIN e
                  /\ EndOf(e[0]) = w.size + have
                  /\ have > 0 =>
                       /\ Len(e[0]) \in DOMAIN e[0]
                       /\ e[0][Len(e[0])] = new
  <1> DEFINE w == WriterFor(len)
             e == Written(w, sent + 1, len, have)
             new == NewFrame(len, have)
  <1>1. sent \in Nat /\ len \in Nat /\ FrameSize(len) \in Nat
    BY LogAssumption DEF LogInv, LogTypeOK, FrameSize
  \* The writer: as it is, or reopened.
  <1>2. /\ DirOK(w.dir, sent)
        /\ Extends(dir, w.dir, new)
        /\ w.seg = 0
        /\ w.size \in Nat
        /\ w.fd \in {"linked", "orphan"}
        /\ ~Retention => w.fd = "linked"
        /\ w.fd = "linked" => 0 \in DOMAIN w.dir /\ w.size = EndOf(w.dir[0])
    <2>1. CASE currentSize + FrameSize(len) > MaxSize
      <3>1. w = OpenCurrentSegment(dir)
        BY <2>1 DEF WriterFor, RotateSegment
      <3>2. QED
        BY <3>1, <1>1, OpenSegment DEF LogInv
    <2>2. CASE ~(currentSize + FrameSize(len) > MaxSize)
      <3>1. w = [dir |-> dir, seg |-> segmentIndex, size |-> currentSize, fd |-> fd]
        BY <2>2 DEF WriterFor
      <3>2. Extends(dir, dir, new)
        BY DEF Extends
      <3>3. QED
        BY <3>1, <3>2 DEF LogInv, LogTypeOK
    <2>3. QED
      BY <2>1, <2>2
  <1>3. CASE ~(w.fd = "linked" /\ have > 0)
    <2>1. e = w.dir
      BY <1>3 DEF Written
    <2>2. DirOK(e, sent + 1)
      BY <2>1, <1>1, <1>2, DirGrows
    <2>3. w.fd = "linked" => have = 0
      BY <1>3
    <2>4. QED
      BY <2>1, <2>2, <2>3, <1>2
  <1>4. CASE w.fd = "linked" /\ have > 0
    <2> DEFINE file == w.dir[0]
    <2>1. /\ file \in Seq(Frame)
          /\ Contiguous(file)
          /\ \A i \in DOMAIN file : file[i].msg <= sent
          /\ w.size = EndOf(file)
          /\ DOMAIN w.dir = {0}
      BY <1>2, <1>4 DEF DirOK
    <2>2. e = [s \in {0} |-> Append(file, new)]
      BY <2>1, <1>2, <1>4 DEF Written, Put, NewFrame
    <2>3. /\ Append(file, new) \in Seq(Frame)
          /\ Contiguous(Append(file, new))
          /\ EndOf(Append(file, new)) = w.size + have
          /\ \A i \in DOMAIN Append(file, new) : Append(file, new)[i].msg <= sent + 1
      <3>1. have \in 1 .. FrameSize(len)
        BY <1>1, <1>4
      <3>2. new = [msg |-> sent + 1, len |-> len, at |-> EndOf(file), have |-> have]
        BY <2>1 DEF NewFrame
      <3>3. /\ file \in Seq(Frame)
            /\ Contiguous(file)
            /\ \A i \in DOMAIN file : file[i].msg <= sent
            /\ w.size = EndOf(file)
        BY <2>1
      <3>4. sent \in Nat /\ len \in Nat
        BY <1>1
      <3> HIDE DEF file, new, w, e
      <3>5. /\ Append(file, new) \in Seq(Frame)
            /\ Contiguous(Append(file, new))
            /\ EndOf(Append(file, new)) = EndOf(file) + have
            /\ \A i \in DOMAIN Append(file, new) : Append(file, new)[i].msg <= sent + 1
        BY <3>1, <3>2, <3>3, <3>4, AppendFrame, Zenon
      <3>6. QED
        BY <3>3, <3>5
    <2>4. DirOK(e, sent + 1)
      BY <2>2, <2>3 DEF DirOK
    <2>5. /\ Len(Append(file, new)) = Len(file) + 1
          /\ DOMAIN Append(file, new) = 1 .. Len(file) + 1
          /\ DOMAIN file = 1 .. Len(file)
          /\ Append(file, new)[Len(file) + 1] = new
          /\ \A i \in DOMAIN file : Append(file, new)[i] = file[i]
      BY <2>1
    <2>6. Extends(dir, e, new)
      <3>1. ASSUME NEW s \in DOMAIN dir
            PROVE  s \in DOMAIN e /\ \A i \in DOMAIN dir[s] : i \in DOMAIN e[s] /\ e[s][i] = dir[s][i]
        <4>1. s = 0 /\ \A i \in DOMAIN dir[0] : i \in DOMAIN file /\ file[i] = dir[0][i]
          BY <1>2, <2>1 DEF Extends
        <4>2. e[0] = Append(file, new) /\ DOMAIN e = {0}
          BY <2>2
        <4> HIDE DEF e, file, new
        <4>3. QED
          BY <4>1, <4>2, <2>5
      <3>2. ASSUME NEW s \in DOMAIN e, NEW i \in DOMAIN e[s]
            PROVE  (s \in DOMAIN dir /\ i \in DOMAIN dir[s]) \/ e[s][i] = new
        <4>1. CASE i \in DOMAIN file
          BY <4>1, <1>2, <2>1, <2>2, <2>5 DEF Extends
        <4>2. CASE i = Len(file) + 1
          BY <4>2, <2>2, <2>5
        <4>3. QED
          BY <4>1, <4>2, <2>2, <2>5
      <3>3. QED
        BY <3>1, <3>2 DEF Extends
    <2>7. /\ 0 \in DOMAIN e
          /\ EndOf(e[0]) = w.size + have
          /\ Len(e[0]) \in DOMAIN e[0]
          /\ e[0][Len(e[0])] = new
      <3>1. Len(file) \in Nat
        BY <2>1
      <3>2. e[0] = Append(file, new) /\ DOMAIN e = {0}
        BY <2>2
      <3> HIDE DEF e, file, new, w
      <3>3. QED
        BY <3>1, <3>2, <2>3, <2>5
    <2>8. QED
      BY <1>2, <2>4, <2>6, <2>7
  <1>5. QED
    BY <1>3, <1>4

-----------------------------------------------------------------------------
(* The invariant *)

LEMMA InitInv == LogInit => LogInv
  <1> SUFFICES ASSUME LogInit
               PROVE  LogInv
    OBVIOUS
  <1>1. DOMAIN dir = {} /\ DOMAIN acked = {}
    BY DEF LogInit, NoFiles
  <1>2. LogTypeOK
    <2>1. /\ segmentIndex = 0 /\ currentSize = 0 /\ fd = "closed"
          /\ writerErr = FALSE /\ aged = {} /\ sent = 0
      BY DEF LogInit
    <2>2. 0 \in 0 .. MaxMessages
      BY LogAssumption
    <2>3. QED
      BY <1>1, <2>1, <2>2 DEF LogTypeOK
  <1>3. DirOK(dir, sent)
    BY <1>1 DEF DirOK
  <1>4. QED
    BY <1>2, <1>3 DEF LogInit, LogInv

\* Every step that writes, whatever its outcome, keeps LogInv, provided the
\* reply adds to acked only the offset of the new message.
LEMMA WriteInv ==
  ASSUME LogInv, NEW len \in Lens, NEW have \in 0 .. FrameSize(len),
         NEW counted \in BOOLEAN, Write(len, have, counted),
         (have = FrameSize(len) /\ counted) \/ writerErr',
         writerErr' \in BOOLEAN,
         DOMAIN acked' \subseteq 1 .. sent + 1,
         \A m \in DOMAIN acked' : acked'[m] \in Nat
  PROVE  LogInv'
  <1> DEFINE w == WriterFor(len)
             e == Written(w, sent + 1, len, have)
  <1>1. /\ fd # "closed"
        /\ ~writerErr
        /\ sent < MaxMessages
        /\ dir' = e
        /\ segmentIndex' = w.seg
        /\ currentSize' = IF counted THEN w.size + FrameSize(len) ELSE w.size
        /\ fd' = w.fd
        /\ aged' = IF have > 0 THEN aged \ {w.seg} ELSE aged
        /\ sent' = sent + 1
    BY DEF Write
  <1>2. /\ DirOK(e, sent + 1)
        /\ Extends(dir, e, NewFrame(len, have))
        /\ w.seg = 0
        /\ w.size \in Nat
        /\ w.fd \in {"linked", "orphan"}
        /\ ~Retention => w.fd = "linked"
        /\ w.fd = "linked" => 0 \in DOMAIN e /\ EndOf(e[0]) = w.size + have
    BY <1>1, WriteEffect
  <1>3. sent \in Nat /\ MaxMessages \in Nat /\ FrameSize(len) \in Nat /\ aged \subseteq DOMAIN dir
    BY LogAssumption DEF LogInv, LogTypeOK, FrameSize
  <1> HIDE DEF w, e
  <1>4. currentSize' \in Nat
    BY <1>1, <1>2, <1>3
  <1>5. sent' \in 0 .. MaxMessages
    BY <1>1, <1>3 DEF LogInv, LogTypeOK
  <1>6. aged' \subseteq DOMAIN dir'
    BY <1>1, <1>2, <1>3 DEF Extends
  <1>7. /\ DOMAIN dir' \subseteq Nat
        /\ \A s \in DOMAIN dir' : dir'[s] \in Seq(Frame)
    BY <1>1, <1>2 DEF DirOK
  <1>8. LogTypeOK'
    BY <1>1, <1>2, <1>4, <1>5, <1>6, <1>7 DEF LogTypeOK
  <1>9. (fd = "linked" /\ ~writerErr => currentSize = EndOf(dir[0]))'
    BY <1>1, <1>2, <1>3
  <1>10. (~Retention => fd # "orphan" /\ aged = {})'
    BY <1>1, <1>2 DEF LogInv
  <1>11. QED
    BY <1>1, <1>2, <1>8, <1>9, <1>10 DEF LogInv

LEMMA StepInv == LogInv /\ [LogNext]_logVars => LogInv'
  <1> SUFFICES ASSUME LogInv, [LogNext]_logVars
               PROVE  LogInv'
    OBVIOUS
  <1> USE LogAssumption
  <1>0. /\ sent \in Nat
        /\ DOMAIN acked \subseteq 1 .. sent
        /\ DOMAIN acked \subseteq 1 .. sent + 1
        /\ \A m \in DOMAIN acked : acked[m] \in Nat
        /\ writerErr \in BOOLEAN
    BY DEF LogInv, LogTypeOK
  <1>1. CASE LogOpen
    <2> DEFINE o == OpenCurrentSegment(dir)
    <2>1. /\ DirOK(o.dir, sent)
          /\ Extends(dir, o.dir, NoFrame)
          /\ o.seg = 0
          /\ o.fd = "linked"
          /\ 0 \in DOMAIN o.dir
          /\ o.size = EndOf(o.dir[0])
          /\ o.size \in Nat
      BY <1>0, OpenSegment DEF LogInv
    <2>2. /\ dir' = o.dir
          /\ segmentIndex' = o.seg
          /\ currentSize' = o.size
          /\ fd' = o.fd
          /\ writerErr' = FALSE
          /\ UNCHANGED <<aged, sent, acked>>
      BY <1>1 DEF LogOpen
    <2> HIDE DEF o
    <2>3. aged' \subseteq DOMAIN dir'
      BY <2>1, <2>2 DEF LogInv, LogTypeOK, Extends
    <2>4. LogTypeOK'
      BY <2>1, <2>2, <2>3 DEF LogInv, LogTypeOK, DirOK
    <2>5. QED
      BY <2>1, <2>2, <2>4 DEF LogInv
  <1>2. ASSUME NEW len \in Lens, LogAppend(len)
        PROVE  LogInv'
    <2> DEFINE w == WriterFor(len)
    <2>1. /\ Write(len, FrameSize(len), TRUE)
          /\ acked' = Put(acked, sent + 1, GlobalOffset(w.seg, w.size))
          /\ writerErr' = writerErr
      BY <1>2 DEF LogAppend
    <2>2. FrameSize(len) \in 0 .. FrameSize(len)
      BY DEF FrameSize
    <2>3. w.seg = 0 /\ w.size \in Nat
      BY <2>1, <2>2, WriteEffect DEF Write
    <2>4. GlobalOffset(w.seg, w.size) \in Nat
      BY <2>3 DEF GlobalOffset
    <2> HIDE DEF w
    <2>5. /\ DOMAIN acked' \subseteq 1 .. sent + 1
          /\ \A m \in DOMAIN acked' : acked'[m] \in Nat
      BY <2>1, <2>4, <1>0 DEF Put
    <2>6. QED
      BY <2>1, <2>2, <2>5, <1>0, WriteInv
  <1>3. ASSUME NEW len \in Lens, NEW have \in 0 .. FrameSize(len),
               NEW counted \in BOOLEAN, LogWriteFails(len, have, counted)
        PROVE  LogInv'
    <2>1. Write(len, have, counted) /\ writerErr' = TRUE /\ acked' = acked
      BY <1>3 DEF LogWriteFails
    <2>2. QED
      BY <2>1, <1>0, WriteInv
  <1>4. ASSUME NEW len \in Lens, LogSyncFails(len)
        PROVE  LogInv'
    <2>1. Write(len, FrameSize(len), TRUE) /\ writerErr' = writerErr /\ acked' = acked
      BY <1>4 DEF LogSyncFails
    <2>2. FrameSize(len) \in 0 .. FrameSize(len)
      BY DEF FrameSize
    <2>3. QED
      BY <2>1, <2>2, <1>0, WriteInv
  <1>5. ASSUME NEW len \in Lens, LogRotateFails(len)
        PROVE  LogInv'
    <2>1. FindLatestSegment(dir) = 0
      BY LatestIsZero DEF LogInv, DirOK
    <2>2. QED
      BY <1>5, <2>1 DEF LogRotateFails, LogInv, LogTypeOK
  <1>5a. ASSUME NEW len \in Lens, LogAppendShut(len)
         PROVE  LogInv'
    <2>1. FrameSize(len) \in Nat
      BY DEF FrameSize
    <2>2. QED
      BY <1>5a, <2>1 DEF LogAppendShut, LogInv, LogTypeOK
  <1>6. ASSUME NEW len \in Lens, NEW have \in 0 .. FrameSize(len),
               LogDiesInAppend(len, have)
        PROVE  LogInv'
    <2> DEFINE w == WriterFor(len)
               e == Written(w, sent + 1, len, have)
    <2>1. /\ fd # "closed"
          /\ ~writerErr
          /\ sent < MaxMessages
          /\ dir' = e
          /\ aged' = IF have > 0 THEN aged \ {w.seg} ELSE aged
          /\ sent' = sent + 1
          /\ fd' = "closed"
          /\ UNCHANGED <<segmentIndex, currentSize, writerErr, acked>>
      BY <1>6 DEF LogDiesInAppend
    <2>2. DirOK(e, sent + 1) /\ Extends(dir, e, NewFrame(len, have))
      BY <2>1, WriteEffect
    <2> HIDE DEF w, e
    <2>3. aged' \subseteq DOMAIN dir'
      BY <2>1, <2>2 DEF LogInv, LogTypeOK, Extends
    <2>4. sent' \in 0 .. MaxMessages
      BY <2>1, <1>0
    <2>5. LogTypeOK'
      BY <2>1, <2>2, <2>3, <2>4, <1>0 DEF LogInv, LogTypeOK, DirOK
    <2>6. QED
      BY <2>1, <2>2, <2>5 DEF LogInv
  <1>7. CASE LogClose
    BY <1>7 DEF LogClose, LogInv, LogTypeOK
  <1>8. ASSUME NEW s \in DOMAIN dir, LogAge(s)
        PROVE  LogInv'
    BY <1>8 DEF LogAge, LogInv, LogTypeOK
  <1>9. CASE aged # {} /\ DeleteSegments(aged)
    <2>1. /\ dir' = [s \in DOMAIN dir \ aged |-> dir[s]]
          /\ fd' = IF fd = "linked" /\ segmentIndex \in aged THEN "orphan" ELSE fd
          /\ aged' = {}
          /\ UNCHANGED <<segmentIndex, currentSize, writerErr, sent, acked>>
      BY <1>9 DEF DeleteSegments, Restrict
    <2>2. Retention
      BY <1>9 DEF LogInv
    <2>3. DirOK(dir', sent')
      BY <2>1 DEF LogInv, DirOK
    <2>4. LogTypeOK'
      BY <2>1, <2>3 DEF LogInv, LogTypeOK, DirOK
    <2>5. fd' = "linked" => 0 \in DOMAIN dir' /\ dir'[0] = dir[0]
      BY <2>1 DEF LogInv
    <2>6. QED
      BY <2>1, <2>2, <2>3, <2>4, <2>5 DEF LogInv
  <1>10. CASE UNCHANGED logVars
    BY <1>10 DEF logVars, LogInv, LogTypeOK
  <1>11. QED
    BY <1>1, <1>2, <1>3, <1>4, <1>5, <1>5a, <1>6, <1>7, <1>8, <1>9, <1>10 DEF LogNext

\* Every reachable state satisfies the inductive invariant.
THEOREM LogInvariant == LogSpec => []LogInv
  BY InitInv, StepInv, PTL DEF LogSpec

\* Type correctness.
THEOREM LogTypeCorrect == LogSpec => []LogTypeOK
  <1>1. LogInv => LogTypeOK
    BY DEF LogInv
  <1>2. QED
    BY <1>1, LogInvariant, PTL

\* The writer's counter and the directory agree, and files have no gaps.
THEOREM LogIsConsistent == LogSpec => []LogConsistent
  <1>1. LogInv => LogConsistent
    BY DEF LogInv, LogConsistent, DirOK
  <1>2. QED
    BY <1>1, LogInvariant, PTL

-----------------------------------------------------------------------------
(* Durability *)

\* What AckedInPlace and OffsetsTruthful say, about segment 0, without the
\* arithmetic of GlobalOffset.
InPlace(d, a) ==
  \A m \in DOMAIN a : 0 \in DOMAIN d /\
    \E i \in DOMAIN d[0] : IsMessage(d[0][i], m) /\ a[m] = d[0][i].at

Truthful(d, a) ==
  \A s \in DOMAIN d : \A i \in DOMAIN d[s] : \A m \in DOMAIN a :
    IsMessage(d[s][i], m) => a[m] = d[s][i].at

DurableInv ==
  /\ ~Retention => InPlace(dir, acked)
  /\ Truthful(dir, acked)

\* Adding a frame of a message that has no offset yet changes neither.
LEMMA ExtendKeeps ==
  ASSUME NEW d, NEW e, NEW new, NEW a, Extends(d, e, new), new.msg \notin DOMAIN a
  PROVE  /\ InPlace(d, a) => InPlace(e, a)
         /\ Truthful(d, a) => Truthful(e, a)
  <1>1. ASSUME InPlace(d, a), NEW n \in DOMAIN a
        PROVE  0 \in DOMAIN e /\
               \E i \in DOMAIN e[0] : IsMessage(e[0][i], n) /\ a[n] = e[0][i].at
    <2>1. PICK i \in DOMAIN d[0] : IsMessage(d[0][i], n) /\ a[n] = d[0][i].at
      BY <1>1 DEF InPlace
    <2>2. 0 \in DOMAIN e /\ i \in DOMAIN e[0] /\ e[0][i] = d[0][i]
      BY <1>1, <2>1 DEF Extends, InPlace
    <2>3. QED
      BY <2>1, <2>2
  <1>2. ASSUME Truthful(d, a), NEW s \in DOMAIN e, NEW i \in DOMAIN e[s],
               NEW n \in DOMAIN a, IsMessage(e[s][i], n)
        PROVE  a[n] = e[s][i].at
    <2>1. CASE s \in DOMAIN d /\ i \in DOMAIN d[s]
      <3>1. e[s][i] = d[s][i]
        BY <2>1 DEF Extends
      <3>2. QED
        BY <1>2, <2>1, <3>1 DEF Truthful
    <2>2. CASE e[s][i] = new
      BY <1>2, <2>2 DEF IsMessage
    <2>3. QED
      BY <2>1, <2>2 DEF Extends
  <1>3. QED
    BY <1>1, <1>2 DEF InPlace, Truthful

LEMMA DurableInit == LogInit => DurableInv
  <1>1. LogInit => DOMAIN dir = {} /\ DOMAIN acked = {}
    BY DEF LogInit, NoFiles
  <1>2. QED
    BY <1>1 DEF DurableInv, InPlace, Truthful

\* A successful Append: its frame is the last one of the file, at the offset
\* that is returned.
LEMMA DurableAppend ==
  ASSUME LogInv, DurableInv, NEW len \in Lens, LogAppend(len)
  PROVE  DurableInv'
  <1> DEFINE w == WriterFor(len)
             e == Written(w, sent + 1, len, FrameSize(len))
             new == NewFrame(len, FrameSize(len))
  <1>1. FrameSize(len) \in 0 .. FrameSize(len) /\ FrameSize(len) > 0 /\ sent \in Nat
    BY LogAssumption DEF FrameSize, LogInv, LogTypeOK
  <1>2. fd # "closed" /\ ~writerErr /\ dir' = e
    BY DEF LogAppend, Write
  <1>3. /\ DirOK(e, sent + 1)
        /\ Extends(dir, e, new)
        /\ w.seg = 0
        /\ w.size \in Nat
        /\ w.fd \in {"linked", "orphan"}
        /\ ~Retention => w.fd = "linked"
        /\ w.fd = "linked" =>
             /\ 0 \in DOMAIN e
             /\ Len(e[0]) \in DOMAIN e[0]
             /\ e[0][Len(e[0])] = new
    BY <1>1, <1>2, WriteEffect
  <1>4. /\ DOMAIN acked' = DOMAIN acked \cup {sent + 1}
        /\ acked'[sent + 1] = w.size
        /\ \A m \in DOMAIN acked : m # sent + 1 => acked'[m] = acked[m]
    <2>1. acked' = Put(acked, sent + 1, GlobalOffset(w.seg, w.size))
      BY DEF LogAppend
    <2>2. GlobalOffset(w.seg, w.size) = w.size
      BY <1>3, LogAssumption DEF GlobalOffset
    <2> HIDE DEF w
    <2>3. QED
      BY <2>1, <2>2 DEF Put
  <1>5. sent + 1 \notin DOMAIN acked
    BY <1>1 DEF LogInv, LogTypeOK
  <1>6. new.msg = sent + 1 /\ new.at = w.size /\ IsMessage(new, sent + 1)
    BY DEF NewFrame, IsMessage, IsWhole
  <1>7. /\ InPlace(dir, acked) => InPlace(e, acked)
        /\ Truthful(dir, acked) => Truthful(e, acked)
    BY <1>3, <1>5, <1>6, ExtendKeeps
  <1>8. ASSUME NEW s \in DOMAIN e, NEW i \in DOMAIN e[s], IsMessage(e[s][i], sent + 1)
        PROVE  e[s][i].at = w.size
    \* Frames of earlier messages have smaller numbers, so this is the new one.
    <2>1. CASE s \in DOMAIN dir /\ i \in DOMAIN dir[s]
      <3>1. dir[s][i].msg = sent + 1
        BY <1>3, <1>8, <2>1 DEF Extends, IsMessage
      <3>2. dir[s][i].msg <= sent
        BY <2>1 DEF LogInv, DirOK
      <3>3. QED
        BY <3>1, <3>2, <1>1
    <2>2. CASE e[s][i] = new
      BY <2>2, <1>6
    <2>3. QED
      BY <2>1, <2>2, <1>3 DEF Extends
  <1> HIDE DEF w, e, new
  <1>9. Truthful(e, acked')
    BY <1>4, <1>5, <1>7, <1>8 DEF Truthful, DurableInv
  <1>10. ASSUME ~Retention
         PROVE  InPlace(e, acked')
    <2>1. InPlace(e, acked)
      BY <1>7, <1>10 DEF DurableInv
    <2>2. /\ 0 \in DOMAIN e
          /\ \E i \in DOMAIN e[0] : IsMessage(e[0][i], sent + 1)
                                    /\ acked'[sent + 1] = e[0][i].at
      BY <1>10, <1>3, <1>4, <1>6
    <2>3. QED
      BY <2>1, <2>2, <1>4, <1>5 DEF InPlace
  <1>11. QED
    BY <1>2, <1>9, <1>10 DEF DurableInv

\* A step that writes and is not acknowledged adds a frame of a new message.
LEMMA DurableUnacked ==
  ASSUME LogInv, DurableInv, NEW len \in Lens, NEW have \in 0 .. FrameSize(len),
         fd # "closed", ~writerErr,
         dir' = Written(WriterFor(len), sent + 1, len, have), acked' = acked
  PROVE  DurableInv'
  <1> DEFINE e == Written(WriterFor(len), sent + 1, len, have)
  <1>1. Extends(dir, e, NewFrame(len, have))
    BY WriteEffect
  <1>2. NewFrame(len, have).msg \notin DOMAIN acked
    BY DEF LogInv, LogTypeOK, NewFrame
  <1> HIDE DEF e
  <1>3. /\ InPlace(dir, acked) => InPlace(e, acked)
        /\ Truthful(dir, acked) => Truthful(e, acked)
    BY <1>1, <1>2, ExtendKeeps
  <1>4. dir' = e
    BY DEF e
  <1>5. QED
    BY <1>3, <1>4 DEF DurableInv

LEMMA DurableStep == LogInv /\ DurableInv /\ [LogNext]_logVars => DurableInv'
  <1> SUFFICES ASSUME LogInv, DurableInv, [LogNext]_logVars
               PROVE  DurableInv'
    OBVIOUS
  <1>1. CASE LogOpen
    <2> DEFINE o == OpenCurrentSegment(dir)
    <2>1. Extends(dir, o.dir, NoFrame)
      BY OpenSegment DEF LogInv, LogTypeOK
    <2>2. dir' = o.dir /\ acked' = acked
      BY <1>1 DEF LogOpen
    <2>3. NoFrame.msg \notin DOMAIN acked
      BY DEF LogInv, LogTypeOK, NoFrame
    <2> HIDE DEF o
    <2>4. /\ InPlace(dir, acked) => InPlace(o.dir, acked)
          /\ Truthful(dir, acked) => Truthful(o.dir, acked)
      BY <2>1, <2>3, ExtendKeeps
    <2>5. QED
      BY <2>2, <2>4 DEF DurableInv
  <1>2. ASSUME NEW len \in Lens, LogAppend(len)
        PROVE  DurableInv'
    BY <1>2, DurableAppend
  <1>3. ASSUME NEW len \in Lens, NEW have \in 0 .. FrameSize(len),
               NEW counted \in BOOLEAN, LogWriteFails(len, have, counted)
        PROVE  DurableInv'
    BY <1>3, DurableUnacked DEF LogWriteFails, Write
  <1>4. ASSUME NEW len \in Lens, LogSyncFails(len)
        PROVE  DurableInv'
    <2>1. FrameSize(len) \in 0 .. FrameSize(len)
      BY LogAssumption DEF FrameSize
    <2>2. QED
      BY <1>4, <2>1, DurableUnacked DEF LogSyncFails, Write
  <1>5. ASSUME NEW len \in Lens, LogRotateFails(len)
        PROVE  DurableInv'
    BY <1>5 DEF LogRotateFails, DurableInv
  <1>5a. ASSUME NEW len \in Lens, LogAppendShut(len)
         PROVE  DurableInv'
    BY <1>5a DEF LogAppendShut, DurableInv
  <1>6. ASSUME NEW len \in Lens, NEW have \in 0 .. FrameSize(len),
               LogDiesInAppend(len, have)
        PROVE  DurableInv'
    BY <1>6, DurableUnacked DEF LogDiesInAppend
  <1>7. CASE LogClose
    BY <1>7 DEF LogClose, DurableInv
  <1>8. ASSUME NEW s \in DOMAIN dir, LogAge(s)
        PROVE  DurableInv'
    BY <1>8 DEF LogAge, DurableInv
  <1>9. CASE aged # {} /\ DeleteSegments(aged)
    <2>1. dir' = [s \in DOMAIN dir \ aged |-> dir[s]] /\ acked' = acked
      BY <1>9 DEF DeleteSegments, Restrict
    <2>2. Retention
      BY <1>9 DEF LogInv
    <2>3. QED
      BY <2>1, <2>2 DEF DurableInv, Truthful
  <1>10. CASE UNCHANGED logVars
    BY <1>10 DEF logVars, DurableInv
  <1>11. QED
    BY <1>1, <1>2, <1>3, <1>4, <1>5, <1>5a, <1>6, <1>7, <1>8, <1>9, <1>10 DEF LogNext

LEMMA Durable == LogSpec => []DurableInv
  BY DurableInit, DurableStep, LogInvariant, PTL DEF LogSpec

\* Durability: unless retention removes it, a message whose Append returned an
\* offset is whole and at that offset in every later state.
THEOREM AckedStaysInPlace == LogSpec => []AckedInPlace
  <1>1. LogInv /\ DurableInv => AckedInPlace
    <2> SUFFICES ASSUME LogInv, DurableInv, ~Retention, NEW m \in DOMAIN acked
                 PROVE  \E s \in DOMAIN dir : \E i \in DOMAIN dir[s] :
                          IsMessage(dir[s][i], m) /\ acked[m] = GlobalOffset(s, dir[s][i].at)
      BY DEF AckedInPlace
    <2>1. 0 \in DOMAIN dir
      BY DEF DurableInv, InPlace
    <2>2. PICK i \in DOMAIN dir[0] : IsMessage(dir[0][i], m) /\ acked[m] = dir[0][i].at
      BY DEF DurableInv, InPlace
    <2>3. dir[0][i].at \in Nat
      <3>1. dir[0][i] \in Frame
        BY <2>1 DEF LogInv, DirOK
      <3>2. QED
        BY <3>1 DEF Frame
    <2>4. GlobalOffset(0, dir[0][i].at) = dir[0][i].at
      BY <2>3, LogAssumption DEF GlobalOffset
    <2>5. QED
      BY <2>1, <2>2, <2>4
  <1>2. QED
    BY <1>1, LogInvariant, Durable, PTL

\* With retention too, no acknowledged message is found at another offset.
THEOREM OffsetsStayTruthful == LogSpec => []OffsetsTruthful
  <1>1. LogInv /\ DurableInv => OffsetsTruthful
    <2> SUFFICES ASSUME LogInv, DurableInv, NEW s \in DOMAIN dir,
                        NEW i \in DOMAIN dir[s], NEW m \in DOMAIN acked,
                        IsMessage(dir[s][i], m)
                 PROVE  acked[m] = GlobalOffset(s, dir[s][i].at)
      BY DEF OffsetsTruthful
    <2>1. s = 0 /\ acked[m] = dir[s][i].at
      BY DEF LogInv, DirOK, DurableInv, Truthful
    <2>2. dir[s][i] \in Frame
      BY DEF LogInv, DirOK
    <2>3. QED
      BY <2>1, <2>2, LogAssumption DEF GlobalOffset, Frame
  <1>2. QED
    BY <1>1, LogInvariant, Durable, PTL

-----------------------------------------------------------------------------
(* Without torn writes, frames are whole. *)

AllWhole(d) == \A s \in DOMAIN d : \A i \in DOMAIN d[s] : IsWhole(d[s][i])

WholeInv == ~TornWrites => AllWhole(dir)

LEMMA WholeWrite ==
  ASSUME LogInv, AllWhole(dir), fd # "closed", ~writerErr,
         NEW len \in Lens, NEW have \in 0 .. FrameSize(len),
         have = 0 \/ have = FrameSize(len),
         dir' = Written(WriterFor(len), sent + 1, len, have)
  PROVE  AllWhole(dir')
  <1> DEFINE e == Written(WriterFor(len), sent + 1, len, have)
  <1>1. Extends(dir, e, NewFrame(len, have)) /\ DirOK(e, sent + 1)
    BY WriteEffect
  <1> HIDE DEF e
  <1>2. ASSUME NEW s \in DOMAIN e, NEW i \in DOMAIN e[s] PROVE IsWhole(e[s][i])
    <2>1. CASE s \in DOMAIN dir /\ i \in DOMAIN dir[s]
      BY <1>1, <2>1 DEF Extends, AllWhole
    <2>2. CASE e[s][i] = NewFrame(len, have)
      <3>1. e[s][i].have = have /\ e[s][i].len = len
        BY <2>2 DEF NewFrame
      <3>2. e[s][i].have # 0
        BY <1>1 DEF DirOK, Contiguous
      <3>3. QED
        BY <3>1, <3>2 DEF IsWhole
    <2>3. QED
      BY <1>1, <2>1, <2>2 DEF Extends
  <1>3. dir' = e
    BY DEF e
  <1>4. QED
    BY <1>2, <1>3 DEF AllWhole

LEMMA WholeStep == LogInv /\ WholeInv /\ [LogNext]_logVars => WholeInv'
  <1> SUFFICES ASSUME LogInv, ~TornWrites, AllWhole(dir), [LogNext]_logVars
               PROVE  AllWhole(dir')
    BY DEF WholeInv, AllWhole
  <1>0. ASSUME NEW len \in Lens PROVE FrameSize(len) \in 0 .. FrameSize(len)
    BY LogAssumption DEF FrameSize
  <1>1. CASE LogOpen
    <2> DEFINE o == OpenCurrentSegment(dir)
    <2>1. Extends(dir, o.dir, NoFrame) /\ DirOK(o.dir, sent)
      BY OpenSegment DEF LogInv, LogTypeOK
    <2>2. dir' = o.dir
      BY <1>1 DEF LogOpen
    <2> HIDE DEF o
    <2>3. ASSUME NEW s \in DOMAIN o.dir, NEW i \in DOMAIN o.dir[s]
          PROVE  s \in DOMAIN dir /\ i \in DOMAIN dir[s] /\ o.dir[s][i] = dir[s][i]
      <3>1. o.dir[s][i].have # 0
        BY <2>1 DEF DirOK, Contiguous
      <3>2. o.dir[s][i] # NoFrame
        BY <3>1 DEF NoFrame
      <3>3. QED
        BY <2>1, <3>2 DEF Extends
    <2>4. QED
      BY <2>2, <2>3 DEF AllWhole
  <1>2. ASSUME NEW len \in Lens, LogAppend(len) \/ LogSyncFails(len)
        PROVE  AllWhole(dir')
    BY <1>0, <1>2, WholeWrite DEF LogAppend, LogSyncFails, Write
  <1>3. ASSUME NEW len \in Lens, NEW have \in 0 .. FrameSize(len),
               NEW counted \in BOOLEAN, LogWriteFails(len, have, counted)
        PROVE  AllWhole(dir')
    <2>1. have = 0
      BY <1>3, LogAssumption DEF FrameSize, LogWriteFails
    <2>2. QED
      BY <1>3, <2>1, WholeWrite DEF LogWriteFails, Write
  <1>4. ASSUME NEW len \in Lens, NEW have \in 0 .. FrameSize(len),
               LogDiesInAppend(len, have)
        PROVE  AllWhole(dir')
    <2>1. have = 0 \/ have = FrameSize(len)
      BY <1>4, LogAssumption DEF FrameSize, LogDiesInAppend
    <2>2. QED
      BY <1>4, <2>1, WholeWrite DEF LogDiesInAppend
  <1>5. CASE aged # {} /\ DeleteSegments(aged)
    BY <1>5 DEF DeleteSegments, Restrict, AllWhole
  <1>6. CASE \/ \E len \in Lens : LogRotateFails(len) \/ LogAppendShut(len)
             \/ LogClose
             \/ \E s \in DOMAIN dir : LogAge(s)
             \/ UNCHANGED logVars
    BY <1>6 DEF LogRotateFails, LogAppendShut, LogClose, LogAge, logVars, AllWhole
  <1>7. QED
    BY <1>1, <1>2, <1>3, <1>4, <1>5, <1>6 DEF LogNext

LEMMA Whole == LogSpec => []WholeInv
  <1>1. LogInit => WholeInv
    BY DEF LogInit, NoFiles, WholeInv, AllWhole
  <1>2. QED
    BY <1>1, WholeStep, LogInvariant, PTL DEF LogSpec

-----------------------------------------------------------------------------
(* Reading *)

\* Frame after frame, a file goes up to its end.
LEMMA FrameOrder ==
  ASSUME NEW f \in Seq(Frame), Contiguous(f), NEW i \in DOMAIN f
  PROVE  /\ f[i].at \in Nat /\ f[i].have \in Nat /\ f[i].have > 0
         /\ EndOf(f) \in Nat
         /\ f[i].at + f[i].have <= EndOf(f)
         /\ f[i].at + f[i].have = IF i = Len(f) THEN EndOf(f) ELSE f[i + 1].at
         /\ \A j \in DOMAIN f : i < j => f[i].at + f[i].have <= f[j].at
  <1>1. Len(f) \in Nat /\ i \in 1 .. Len(f) /\ Len(f) \in DOMAIN f /\ f # <<>>
    OBVIOUS
  <1>2. \A j \in DOMAIN f : f[j].at \in Nat /\ f[j].have \in Nat
    <2>1. \A j \in DOMAIN f : f[j] \in Frame
      OBVIOUS
    <2>2. QED
      BY <2>1 DEF Frame
  <1>3. \A j \in DOMAIN f : f[j].have >= 1
    <2>1. \A j \in DOMAIN f : f[j].have \in 1 .. FrameSize(f[j].len)
      BY DEF Contiguous
    <2>2. QED
      BY <1>2, <2>1
  <1>4. EndOf(f) = f[Len(f)].at + f[Len(f)].have
    BY <1>1 DEF EndOf
  <1>5. \A j \in DOMAIN f : i < j => f[i].at + f[i].have <= f[j].at
    BY DEF Contiguous
  <1>6. CASE i = Len(f)
    BY <1>1, <1>2, <1>3, <1>4, <1>5, <1>6
  <1>7. CASE i # Len(f)
    <2>1. i + 1 \in DOMAIN f /\ i + 1 # 1 /\ (i + 1) - 1 = i /\ i < Len(f)
      BY <1>1, <1>7
    <2>2. f[i + 1].at = f[i].at + f[i].have
      BY <2>1 DEF Contiguous
    <2>3. f[i].at + f[i].have <= f[Len(f)].at
      BY <1>1, <1>5, <2>1
    <2>4. QED
      BY <1>1, <1>2, <1>3, <1>4, <1>5, <1>7, <2>2, <2>3
  <1>8. QED
    BY <1>6, <1>7

\* The frames from a position that is a frame are that frame and all behind
\* it, if these are whole.
LEMMA WholeFromFrame ==
  ASSUME NEW file \in Seq(Frame), Contiguous(file), NEW i \in DOMAIN file,
         \A j \in i .. Len(file) : IsWhole(file[j])
  PROVE  WholeFrom(file, file[i].at) = SubSeq(file, i, Len(file))
  <1> DEFINE first == {j \in DOMAIN file : file[j].at = file[i].at}
             broken(k) == {j \in k .. Len(file) : ~IsWhole(file[j])}
  <1>1. \A j \in DOMAIN file : file[j] \in Frame /\ j \in 1 .. Len(file)
    OBVIOUS
  <1>2. \A j, k \in DOMAIN file : j < k => file[j].at < file[k].at
    <2> SUFFICES ASSUME NEW j \in DOMAIN file, NEW k \in DOMAIN file, j < k
                 PROVE  file[j].at < file[k].at
      OBVIOUS
    <2>1. file[j].at + file[j].have <= file[k].at
      BY FrameOrder
    <2>2. /\ file[j].at \in Nat /\ file[j].have \in Nat /\ file[j].have > 0
          /\ file[k].at \in Nat
      BY FrameOrder
    <2>3. QED
      BY <2>1, <2>2
  <1>3. first = {i}
    <2>1. ASSUME NEW j \in DOMAIN file, file[j].at = file[i].at PROVE j = i
      <3>1. ~(j < i) /\ ~(i < j)
        <4>1. file[i].at \in Nat
          BY <1>1 DEF Frame
        <4>2. QED
          BY <1>2, <2>1, <4>1
      <3>2. j \in Int /\ i \in Int
        BY <1>1
      <3>3. QED
        BY <3>1, <3>2
    <2>2. QED
      BY <2>1
  <1>4. Max(first) = i
    <2>1. i >= i
      BY <1>1
    <2>2. QED
      BY <1>3, <2>1 DEF Max
  <1>5. broken(i) = {}
    BY <1>1
  <1> HIDE DEF first, broken
  <1>6. WholeFrom(file, file[i].at) =
          IF first = {} THEN <<>>
          ELSE LET k == Max(first)
               IN  SubSeq(file, k, IF broken(k) = {} THEN Len(file) ELSE Min(broken(k)) - 1)
    BY DEF WholeFrom, first, broken
  <1>7. QED
    BY <1>3, <1>4, <1>5, <1>6

\* A read from a frame, within one segment's span, returns that frame and all
\* behind it, if these are whole.
LEMMA WholeRead ==
  ASSUME NEW n \in Nat, DirOK(dir, n), 0 \in DOMAIN dir, EndOf(dir[0]) < SegSpan,
         NEW i \in DOMAIN dir[0], \A j \in i .. Len(dir[0]) : IsWhole(dir[0][j]),
         NEW r \in ReadFrom(dir[0][i].at)
  PROVE  /\ r.ok
         /\ Len(r.entries) = Len(dir[0]) - i + 1
         /\ DOMAIN r.entries = 1 .. Len(dir[0]) - i + 1
         /\ \A k \in DOMAIN r.entries : r.entries[k] = Entry(0, dir[0][k + i - 1])
  <1> DEFINE file == dir[0]
             good == SubSeq(file, i, Len(file))
  <1>1. file \in Seq(Frame) /\ Contiguous(file) /\ \A j \in i .. Len(file) : IsWhole(file[j])
    BY DEF DirOK
  <1>2. /\ Len(file) \in Nat /\ i \in 1 .. Len(file) /\ Len(file) \in DOMAIN file
        /\ file[i] \in Frame /\ file[Len(file)] \in Frame /\ file # <<>>
    BY <1>1
  <1>3. file[i].at \in Nat /\ EndOf(file) \in Nat /\ file[i].at < EndOf(file)
    <2>1. /\ file[i].at \in Nat /\ file[i].have \in Nat /\ file[i].have > 0
          /\ EndOf(file) \in Nat
          /\ file[i].at + file[i].have <= EndOf(file)
      BY <1>1, FrameOrder
    <2>2. QED
      BY <2>1
  <1>4. SegOf(file[i].at) = 0 /\ LocalOf(file[i].at) = file[i].at
    <2>1. SegSpan \in Nat /\ file[i].at < SegSpan
      BY <1>3, LogAssumption
    <2>2. \A x, y \in Nat : x < y => x \div y = 0 /\ x % y = x
      OBVIOUS
    <2>3. QED
      BY <1>3, <2>1, <2>2 DEF SegOf, LocalOf
  <1>5. WholeFrom(file, file[i].at) = good
    BY <1>1, WholeFromFrame
  <1>6. /\ Len(good) = Len(file) - i + 1
        /\ \A k \in 1 .. Len(good) : good[k] = file[k + i - 1]
        /\ DOMAIN good = 1 .. Len(file) - i + 1
    BY <1>1, <1>2
  <1>7. good # <<>> /\ EndOf(good) = EndOf(file)
    <2>1. good # <<>>
      <3>1. Len(good) # Len(<<>>)
        BY <1>2, <1>6
      <3>2. QED
        BY <3>1
    <2>2. good[Len(good)] = file[Len(file)]
      BY <1>2, <1>6
    <2>3. QED
      BY <1>2, <2>1, <2>2 DEF EndOf
  <1> HIDE DEF good
  <1>8. ReadFrom(file[i].at) = {ReadOk([k \in DOMAIN good |-> Entry(0, good[k])])}
    <2>1. ~(file[i].at >= EndOf(file)) /\ ~(EndOf(file) >= SegSpan)
      BY <1>3, LogAssumption
    <2>2. QED
      BY <1>4, <1>5, <1>7, <2>1, Zenon DEF ReadFrom
  <1>9. r.ok /\ r.entries = [k \in DOMAIN good |-> Entry(0, good[k])]
    BY <1>8 DEF ReadOk
  <1>10. Len(r.entries) = Len(good)
    <2>1. Len(good) \in Nat /\ DOMAIN r.entries = 1 .. Len(good)
      BY <1>2, <1>6, <1>9
    <2>2. Len([k \in DOMAIN good |-> Entry(0, good[k])]) = Len(good)
      BY <1>6, <2>1
    <2>3. QED
      BY <1>9, <2>2
  <1>11. QED
    BY <1>2, <1>6, <1>9, <1>10

\* Positions that the writer's segment numbers can address (see SegSpan).
InSpan == \A s \in DOMAIN dir : EndOf(dir[s]) < SegSpan

\* A read from the offset of an acknowledged message returns that message and
\* every acknowledged one after it, each at its offset, if no write was torn,
\* no segment was removed and the log is within its span (log.go:107-160).
THEOREM AckedCanBeRead ==
  ~TornWrites /\ ~Retention /\ LogSpec => [](InSpan => AckedReadable)
  <1>1. LogInv /\ DurableInv /\ WholeInv /\ ~TornWrites /\ ~Retention => (InSpan => AckedReadable)
    <2> SUFFICES ASSUME LogInv, DurableInv, WholeInv, ~TornWrites, ~Retention, InSpan,
                        NEW m \in DOMAIN acked, NEW r \in ReadFrom(acked[m])
                 PROVE  /\ r.ok
                        /\ \A n \in DOMAIN acked : n >= m =>
                             \E k \in DOMAIN r.entries :
                               r.entries[k].msg = n /\ r.entries[k].offset = acked[n]
      BY DEF AckedReadable
    <2> DEFINE file == dir[0]
    <2>1. /\ 0 \in DOMAIN dir
          /\ \A n \in DOMAIN acked :
               \E i \in DOMAIN file : file[i].msg = n /\ acked[n] = file[i].at
      BY DEF DurableInv, InPlace, IsMessage
    <2>2. PICK i \in DOMAIN file : file[i].msg = m /\ acked[m] = file[i].at
      BY <2>1
    <2>3. /\ sent \in Nat /\ DirOK(dir, sent) /\ AllWhole(dir) /\ EndOf(file) < SegSpan
          /\ DOMAIN acked \subseteq Nat
      BY <2>1, LogAssumption DEF LogInv, LogTypeOK, WholeInv, InSpan
    <2>4. /\ r.ok
          /\ DOMAIN r.entries = 1 .. Len(file) - i + 1
          /\ \A k \in DOMAIN r.entries : r.entries[k] = Entry(0, file[k + i - 1])
      <3>1. \A j \in i .. Len(file) : IsWhole(file[j])
        <4>1. file \in Seq(Frame) /\ \A j \in DOMAIN file : IsWhole(file[j])
          BY <2>1, <2>3 DEF DirOK, AllWhole
        <4>2. QED
          BY <4>1
      <3>2. QED
        BY <2>1, <2>2, <2>3, <3>1, WholeRead
    <2>5. ASSUME NEW n \in DOMAIN acked, n >= m
          PROVE  \E k \in DOMAIN r.entries :
                   r.entries[k].msg = n /\ r.entries[k].offset = acked[n]
      <3>1. PICK j \in DOMAIN file : file[j].msg = n /\ acked[n] = file[j].at
        BY <2>1
      <3>2. file \in Seq(Frame) /\ Contiguous(file)
        BY <2>1, <2>3 DEF DirOK
      <3>3. i \in 1 .. Len(file) /\ j \in 1 .. Len(file) /\ Len(file) \in Nat
              /\ file[j] \in Frame /\ m \in Nat /\ n \in Nat
        BY <2>3, <3>2
      <3>4. ~(j < i)
        \* Otherwise the message of frame j, which is n, would be less than m.
        BY <2>2, <2>5, <3>1, <3>2, <3>3 DEF Contiguous
      <3>5. j - i + 1 \in DOMAIN r.entries /\ (j - i + 1) + i - 1 = j
        <4>1. i \in Int /\ j \in Int /\ Len(file) \in Int /\ i <= j /\ j <= Len(file)
          BY <3>3, <3>4
        <4>2. j - i + 1 \in Int /\ 1 <= j - i + 1 /\ j - i + 1 <= Len(file) - i + 1
          BY <4>1
        <4>3. (j - i + 1) + i - 1 = j
          BY <4>1
        <4>4. QED
          BY <2>4, <4>1, <4>2, <4>3
      <3>6. r.entries[j - i + 1] = Entry(0, file[j])
        BY <2>4, <3>5
      <3>7. GlobalOffset(0, file[j].at) = file[j].at
        BY <3>3, LogAssumption DEF GlobalOffset, Frame
      <3>8. Entry(0, file[j]).msg = n /\ Entry(0, file[j]).offset = acked[n]
        BY <3>1, <3>7 DEF Entry
      <3>9. QED
        BY <3>5, <3>6, <3>8
    <2>6. QED
      BY <2>4, <2>5
  <1> SUFFICES ASSUME ~TornWrites, ~Retention PROVE LogSpec => [](InSpan => AckedReadable)
    OBVIOUS
  <1>2. QED
    BY <1>1, LogInvariant, Durable, Whole, PTL

-----------------------------------------------------------------------------
(* Reading at the moment of the acknowledgement *)

\* The last frame of the log, if it is whole, is what a read from its position
\* returns, whatever torn frames lie before it.
LEMMA LastFrameRead ==
  LogInv /\ InSpan =>
    \A m \in DOMAIN acked :
      /\ 0 \in DOMAIN dir
      /\ dir[0] # <<>>
      /\ IsMessage(dir[0][Len(dir[0])], m)
      /\ acked[m] = dir[0][Len(dir[0])].at
      => StartsWith(m, ReadFrom(acked[m]))
  <1> SUFFICES ASSUME LogInv, InSpan, NEW m \in DOMAIN acked,
                      0 \in DOMAIN dir,
                      dir[0] # <<>>,
                      IsMessage(dir[0][Len(dir[0])], m),
                      acked[m] = dir[0][Len(dir[0])].at,
                      NEW r \in ReadFrom(acked[m])
               PROVE  r.ok /\ r.entries # <<>> /\ r.entries[1].msg = m
    BY DEF StartsWith
  <1> DEFINE file == dir[0]
             last == Len(file)
  <1>1. sent \in Nat /\ DirOK(dir, sent) /\ EndOf(file) < SegSpan
    BY DEF LogInv, LogTypeOK, InSpan
  <1>2. last \in DOMAIN file /\ last \in Nat
    BY <1>1 DEF DirOK
  <1>3. \A j \in last .. Len(file) : IsWhole(file[j])
    BY <1>2 DEF IsMessage
  <1>4. /\ r.ok
        /\ Len(r.entries) = last - last + 1
        /\ DOMAIN r.entries = 1 .. last - last + 1
        /\ \A k \in DOMAIN r.entries : r.entries[k] = Entry(0, file[k + last - 1])
    BY <1>1, <1>2, <1>3, WholeRead
  <1>5. 1 \in DOMAIN r.entries /\ 1 + last - 1 = last /\ Len(r.entries) # 0
    BY <1>2, <1>4
  <1>6. r.entries[1] = Entry(0, file[last])
    BY <1>4, <1>5
  <1>7. QED
    BY <1>4, <1>5, <1>6 DEF Entry, IsMessage

\* Only Append acknowledges, one message, which is then the last frame of the
\* log, at the offset returned, if its file still has a name.
LEMMA AckedIsLast ==
  ASSUME LogInv, [LogNext]_logVars, NEW m \in DOMAIN acked' \ DOMAIN acked, fd' = "linked"
  PROVE  /\ 0 \in DOMAIN dir'
         /\ dir'[0] # <<>>
         /\ IsMessage(dir'[0][Len(dir'[0])], m)
         /\ acked'[m] = dir'[0][Len(dir'[0])].at
  <1>1. PICK len \in Lens : LogAppend(len)
    BY DEF LogNext, LogOpen, LogWriteFails, LogSyncFails, LogRotateFails, LogAppendShut,
           LogDiesInAppend, LogClose, LogAge, DeleteSegments, logVars
  <1> DEFINE w == WriterFor(len)
             e == Written(w, sent + 1, len, FrameSize(len))
             new == NewFrame(len, FrameSize(len))
  <1>2. FrameSize(len) \in 0 .. FrameSize(len) /\ FrameSize(len) > 0
    BY LogAssumption DEF FrameSize
  <1>3. fd # "closed" /\ ~writerErr /\ dir' = e /\ w.fd = "linked"
    BY <1>1 DEF LogAppend, Write
  <1>4. /\ w.seg = 0
        /\ w.size \in Nat
        /\ DirOK(e, sent + 1)
        /\ 0 \in DOMAIN e
        /\ Len(e[0]) \in DOMAIN e[0]
        /\ e[0][Len(e[0])] = new
    BY <1>2, <1>3, WriteEffect
  <1>5. m = sent + 1 /\ acked'[m] = w.size
    <2>1. acked' = Put(acked, sent + 1, GlobalOffset(w.seg, w.size))
      BY <1>1 DEF LogAppend
    <2>2. GlobalOffset(w.seg, w.size) = w.size
      BY <1>4, LogAssumption DEF GlobalOffset
    <2> HIDE DEF w
    <2>3. QED
      BY <2>1, <2>2 DEF Put
  <1>6. new.at = w.size /\ IsMessage(new, sent + 1)
    BY DEF NewFrame, IsMessage, IsWhole
  <1> HIDE DEF e, new
  <1>7. e[0] # <<>>
    BY <1>4
  <1>8. QED
    BY <1>3, <1>4, <1>5, <1>6, <1>7

\* When Append returns an offset, a read from it returns the message, whatever
\* torn frames the file has before it and whatever retention removed, unless
\* the file itself was deleted under the writer (log.go:71-95).
THEOREM AppendIsReadable == LogSpec /\ []InSpan => LinkedAppendIsReadable
  <1> DEFINE A == \A m \in DOMAIN acked' \ DOMAIN acked :
                    fd' = "linked" => StartsWith(m, ReadFrom(acked[m])')
  <1>1. (LogInv /\ InSpan =>
           \A m \in DOMAIN acked :
             /\ 0 \in DOMAIN dir
             /\ dir[0] # <<>>
             /\ IsMessage(dir[0][Len(dir[0])], m)
             /\ acked[m] = dir[0][Len(dir[0])].at
             => StartsWith(m, ReadFrom(acked[m])))'
    BY LastFrameRead, PTL
  <1>2. LogInv /\ LogInv' /\ InSpan' /\ [LogNext]_logVars => A
    <2> SUFFICES ASSUME LogInv, LogInv', InSpan', [LogNext]_logVars,
                        NEW m \in DOMAIN acked' \ DOMAIN acked, fd' = "linked"
                 PROVE  StartsWith(m, ReadFrom(acked[m])')
      OBVIOUS
    <2>1. /\ 0 \in DOMAIN dir'
          /\ dir'[0] # <<>>
          /\ IsMessage(dir'[0][Len(dir'[0])], m)
          /\ acked'[m] = dir'[0][Len(dir'[0])].at
      BY AckedIsLast
    <2>2. QED
      BY <1>1, <2>1 DEF StartsWith
  <1> HIDE DEF A
  <1>3. QED
    BY <1>2, LogInvariant, PTL DEF LogSpec, LinkedAppendIsReadable, A

-----------------------------------------------------------------------------
(* Sequences, and the search for a place in one *)

LEMMA LeastOfNat ==
  ASSUME NEW T, T \subseteq Nat, T # {}
  PROVE  Min(T) \in T /\ \A y \in T : Min(T) <= y
  <1>1. \E x \in T : \A y \in T : ~ (<<y, x>> \in OpToRel(<, Nat))
    BY NatLessThanWellFounded, WFMin
  <1>2. PICK x \in T : \A y \in T : ~ (<<y, x>> \in OpToRel(<, Nat))
    BY <1>1
  <1>3. \A y \in T : x <= y
    <2>1. \A y \in T : ~ (y < x)
      <3>1. ASSUME NEW y \in T, y < x PROVE <<y, x>> \in OpToRel(<, Nat)
        <4>1. <<y, x>> \in Nat \X Nat /\ <<y, x>>[1] = y /\ <<y, x>>[2] = x
          OBVIOUS
        <4>2. <<y, x>>[1] < <<y, x>>[2]
          BY <3>1, <4>1
        <4>3. QED
          BY <4>1, <4>2, Zenon DEF OpToRel
      <3>2. QED
        BY <1>2, <3>1, Zenon
    <2>2. QED
      BY <2>1
  <1>4. QED
    BY <1>3 DEF Min

\* Induction up to a bound, over a set: the least exception would be one.
LEMMA HoldsUpTo ==
  ASSUME NEW n \in Nat, NEW H, 0 \in H, \A k \in 0 .. n - 1 : k \in H => k + 1 \in H
  PROVE  0 .. n \subseteq H
  <1> DEFINE Bad == 0 .. n \ H
  <1>1. SUFFICES ASSUME Bad # {} PROVE FALSE
    OBVIOUS
  <1>2. Bad \subseteq Nat
    OBVIOUS
  <1>3. PICK m \in Bad : \A y \in Bad : m <= y
    BY <1>1, <1>2, LeastOfNat
  <1>4. m \in 1 .. n /\ m - 1 \in 0 .. n - 1 /\ (m - 1) + 1 = m
    BY <1>3
  <1>5. m - 1 \in H
    BY <1>3, <1>4
  <1>6. QED
    BY <1>3, <1>4, <1>5

\* The functions on 0 .. n whose value at 0 and whose steps are given.
Recursive(T, n, base, step) ==
  {f \in [0 .. n -> T] : f[0] = base /\ \A i \in 1 .. n : f[i] = step[<<i, f[i - 1]>>]}

\* There is such a function.
LEMMA RecursiveFunction ==
  ASSUME NEW T, NEW n \in Nat, NEW base \in T, NEW step \in [(1 .. n) \X T -> T]
  PROVE  Recursive(T, n, base, step) # {}
  <1> DEFINE Solves(f, k) == f[0] = base /\ \A i \in 1 .. k : f[i] = step[<<i, f[i - 1]>>]
             H == {k \in 0 .. n : \E f \in [0 .. k -> T] : Solves(f, k)}
  <1>1. 0 \in H
    <2>1. PICK f \in [0 .. 0 -> T] : f = [i \in 0 .. 0 |-> base]
      OBVIOUS
    <2>2. Solves(f, 0) /\ 0 \in 0 .. n
      BY <2>1
    <2>3. QED
      BY <2>2
  <1>2. ASSUME NEW k \in 0 .. n - 1, k \in H PROVE k + 1 \in H
    <2>1. PICK f \in [0 .. k -> T] : Solves(f, k)
      BY <1>2
    <2> DEFINE g == [i \in 0 .. k + 1 |-> IF i = k + 1 THEN step[<<k + 1, f[k]>>] ELSE f[i]]
    <2>2. step[<<k + 1, f[k]>>] \in T
      <3>1. <<k + 1, f[k]>> \in (1 .. n) \X T
        OBVIOUS
      <3>2. QED
        BY <3>1
    <2>3. /\ g \in [0 .. k + 1 -> T]
          /\ \A i \in 0 .. k + 1 : g[i] = IF i = k + 1 THEN step[<<k + 1, f[k]>>] ELSE f[i]
      BY <2>2
    <2> HIDE DEF g
    <2>4. g[0] = base
      BY <2>1, <2>3
    <2>5. ASSUME NEW i \in 1 .. k + 1 PROVE g[i] = step[<<i, g[i - 1]>>]
      <3>1. g[i - 1] = f[i - 1]
        BY <2>3
      <3>2. CASE i = k + 1
        <4>1. i - 1 = k /\ k + 1 \in 0 .. k + 1
          BY <3>2
        <4>2. g[i] = step[<<k + 1, f[k]>>]
          BY <2>3, <3>2, <4>1
        <4>3. g[i - 1] = f[k]
          BY <3>1, <4>1
        <4>4. QED
          BY <3>2, <4>2, <4>3
      <3>3. CASE i # k + 1
        <4>1. i \in 1 .. k /\ g[i] = f[i]
          BY <2>3, <3>3
        <4>2. QED
          BY <2>1, <3>1, <4>1
      <3>4. QED
        BY <3>2, <3>3
    <2>6. Solves(g, k + 1)
      BY <2>4, <2>5
    <2>7. QED
      BY <2>3, <2>6
  <1> HIDE DEF H
  <1>3. 0 .. n \subseteq H
    BY <1>1, <1>2, HoldsUpTo
  <1>4. n \in H
    BY <1>3
  <1>5. QED
    BY <1>4 DEF H, Recursive

\* InsertAt shifts what is behind the place.
LEMMA InsertAtIs ==
  ASSUME NEW T, NEW s \in Seq(T), NEW j \in 1 .. Len(s) + 1, NEW x \in T
  PROVE  /\ InsertAt(s, j, x) \in Seq(T)
         /\ Len(InsertAt(s, j, x)) = Len(s) + 1
         /\ \A k \in 1 .. Len(s) + 1 :
              InsertAt(s, j, x)[k] = IF k < j THEN s[k] ELSE IF k = j THEN x ELSE s[k - 1]
  <1> DEFINE a == SubSeq(s, 1, j - 1)
             b == SubSeq(s, j, Len(s))
             ax == a \o <<x>>
  <1>0. Len(s) \in Nat /\ j \in Nat /\ j >= 1 /\ j <= Len(s) + 1 /\ DOMAIN s = 1 .. Len(s)
        /\ \A k \in 1 .. Len(s) : s[k] \in T
    OBVIOUS
  <1>1. a \in Seq(T) /\ Len(a) = j - 1 /\ \A k \in 1 .. j - 1 : a[k] = s[k]
    <2>1. 1 \in Int /\ j - 1 \in Int /\ \A k \in 1 .. j - 1 : s[k] \in T
      BY <1>0
    <2>2. /\ SubSeq(s, 1, j - 1) \in Seq(T)
          /\ Len(SubSeq(s, 1, j - 1)) = IF 1 <= j - 1 THEN (j - 1) - 1 + 1 ELSE 0
          /\ \A k \in 1 .. (j - 1) - 1 + 1 : SubSeq(s, 1, j - 1)[k] = s[1 + k - 1]
      BY <2>1, SubSeqProperties
    <2>3. (j - 1) - 1 + 1 = j - 1 /\ \A k \in 1 .. j - 1 : 1 + k - 1 = k
      BY <1>0
    <2>4. QED
      BY <1>0, <2>2, <2>3
  <1>2. b \in Seq(T) /\ Len(b) = Len(s) - j + 1
        /\ \A k \in 1 .. Len(s) - j + 1 : b[k] = s[j + k - 1]
    <2>1. j \in Int /\ Len(s) \in Int /\ \A k \in j .. Len(s) : s[k] \in T
      BY <1>0
    <2>2. /\ SubSeq(s, j, Len(s)) \in Seq(T)
          /\ Len(SubSeq(s, j, Len(s))) = IF j <= Len(s) THEN Len(s) - j + 1 ELSE 0
          /\ \A k \in 1 .. Len(s) - j + 1 : SubSeq(s, j, Len(s))[k] = s[j + k - 1]
      BY <2>1, SubSeqProperties
    <2>3. QED
      BY <1>0, <2>2
  <1> HIDE DEF a, b
  <1>3. ax \in Seq(T) /\ Len(ax) = j
        /\ \A k \in 1 .. j : ax[k] = IF k < j THEN s[k] ELSE x
    <2>1. <<x>> \in Seq(T) /\ Len(<<x>>) = 1 /\ <<x>>[1] = x
      OBVIOUS
    <2>2. /\ ax \in Seq(T)
          /\ Len(ax) = Len(a) + 1
          /\ \A k \in 1 .. Len(a) + 1 : ax[k] = IF k <= Len(a) THEN a[k] ELSE <<x>>[k - Len(a)]
      BY <1>1, <2>1, ConcatProperties
    <2>3. QED
      BY <1>0, <1>1, <2>1, <2>2
  <1> HIDE DEF ax
  <1>4. /\ ax \o b \in Seq(T)
        /\ Len(ax \o b) = Len(ax) + Len(b)
        /\ \A k \in 1 .. Len(ax) + Len(b) : (ax \o b)[k] = IF k <= Len(ax) THEN ax[k] ELSE b[k - Len(ax)]
    BY <1>2, <1>3, ConcatProperties
  <1>5. InsertAt(s, j, x) = ax \o b
    BY DEF InsertAt, a, b, ax
  <1>6. Len(ax) + Len(b) = Len(s) + 1
    BY <1>0, <1>2, <1>3
  <1>7. ASSUME NEW k \in 1 .. Len(s) + 1
        PROVE  (ax \o b)[k] = IF k < j THEN s[k] ELSE IF k = j THEN x ELSE s[k - 1]
    <2>0. (ax \o b)[k] = IF k <= Len(ax) THEN ax[k] ELSE b[k - Len(ax)]
      BY <1>4, <1>6
    <2>1. CASE k <= j
      BY <1>0, <1>3, <2>0, <2>1
    <2>2. CASE k > j
      <3>1. k - j \in 1 .. Len(s) - j + 1 /\ j + (k - j) - 1 = k - 1
        BY <1>0, <2>2
      <3>2. b[k - j] = s[k - 1]
        BY <1>2, <3>1
      <3>3. QED
        <4>1. Len(ax) = j /\ ~(k <= j) /\ ~(k < j) /\ k # j
          BY <1>0, <1>3, <2>2
        <4>2. (ax \o b)[k] = b[k - j]
          BY <2>0, <4>1
        <4>3. QED
          BY <3>2, <4>1, <4>2
    <2>3. k <= j \/ k > j
      BY <1>0
    <2>4. QED
      BY <2>1, <2>2, <2>3, Zenon
  <1>8. QED
    BY <1>4, <1>5, <1>6, <1>7

-----------------------------------------------------------------------------
(* The offsets of the index are sorted *)

EntryType == [offset : Nat, position : Nat]

Sorted(entries) ==
  \A i, j \in DOMAIN entries : i < j => entries[i].offset < entries[j].offset

LEMMA FirstAtLeastIs ==
  ASSUME NEW e \in Seq(EntryType), NEW o \in Nat
  PROVE  /\ FirstAtLeast(e, o) \in 1 .. Len(e) + 1
         /\ FirstAtLeast(e, o) \in DOMAIN e => e[FirstAtLeast(e, o)].offset >= o
         /\ \A k \in DOMAIN e : k < FirstAtLeast(e, o) => e[k].offset < o
  <1> DEFINE T == {j \in DOMAIN e : e[j].offset >= o} \cup {Len(e) + 1}
  <1>1. Len(e) \in Nat /\ DOMAIN e = 1 .. Len(e) /\ \A k \in DOMAIN e : e[k].offset \in Nat
    <2>1. Len(e) \in Nat /\ DOMAIN e = 1 .. Len(e) /\ \A k \in DOMAIN e : e[k] \in EntryType
      OBVIOUS
    <2>2. QED
      BY <2>1 DEF EntryType
  <1>2. T \subseteq 1 .. Len(e) + 1 /\ T \subseteq Nat /\ T # {}
    BY <1>1
  <1>3. FirstAtLeast(e, o) \in T /\ \A y \in T : FirstAtLeast(e, o) <= y
    BY <1>2, LeastOfNat DEF FirstAtLeast
  <1>4. QED
    BY <1>1, <1>2, <1>3

\* AddEntry keeps a sorted slice sorted, with the new entry and no other.
LEMMA InsertedIs ==
  ASSUME NEW e \in Seq(EntryType), Sorted(e), NEW o \in Nat, NEW p \in Nat
  PROVE  /\ Inserted(e, o, p) \in Seq(EntryType)
         /\ Sorted(Inserted(e, o, p))
         /\ \A k \in DOMAIN Inserted(e, o, p) :
              \/ Inserted(e, o, p)[k] = IndexEntry(o, p)
              \/ \E i \in DOMAIN e : Inserted(e, o, p)[k] = e[i]
  <1> DEFINE j == FirstAtLeast(e, o)
             x == IndexEntry(o, p)
             r == Inserted(e, o, p)
  <1>1. /\ Len(e) \in Nat /\ DOMAIN e = 1 .. Len(e)
        /\ \A k \in DOMAIN e : e[k] \in EntryType /\ e[k].offset \in Nat
        /\ x \in EntryType /\ x.offset = o
    <2>1. Len(e) \in Nat /\ DOMAIN e = 1 .. Len(e) /\ \A k \in DOMAIN e : e[k] \in EntryType
      OBVIOUS
    <2>2. QED
      BY <2>1 DEF EntryType, IndexEntry
  <1>2. /\ j \in 1 .. Len(e) + 1
        /\ j \in DOMAIN e => e[j].offset >= o
        /\ \A k \in DOMAIN e : k < j => e[k].offset < o
    BY FirstAtLeastIs
  <1> HIDE DEF j, x
  <1>3. CASE j \in DOMAIN e /\ e[j].offset = o
    <2>1. r = [e EXCEPT ![j] = x]
      BY <1>3 DEF Inserted, j, x
    <2>2. /\ r \in Seq(EntryType) /\ DOMAIN r = DOMAIN e
          /\ \A k \in DOMAIN e : r[k] = IF k = j THEN x ELSE e[k]
      BY <1>1, <1>3, <2>1, ExceptSeq
    <2> HIDE DEF r
    <2>3. \A k \in DOMAIN e : r[k].offset = e[k].offset
      BY <1>1, <1>3, <2>2
    <2>4. Sorted(r)
      BY <2>2, <2>3 DEF Sorted
    <2>5. QED
      BY <2>2, <2>4 DEF r, x
  <1>4. CASE ~(j \in DOMAIN e /\ e[j].offset = o)
    <2>1. r = InsertAt(e, j, x)
      BY <1>4 DEF Inserted, j, x
    <2>2. /\ r \in Seq(EntryType) /\ Len(r) = Len(e) + 1 /\ DOMAIN r = 1 .. Len(e) + 1
          /\ \A k \in 1 .. Len(e) + 1 : r[k] = IF k < j THEN e[k] ELSE IF k = j THEN x ELSE e[k - 1]
      BY <1>1, <1>2, <2>1, InsertAtIs
    <2> HIDE DEF r
    <2>3. ASSUME NEW k \in DOMAIN e, k >= j PROVE e[k].offset > o
      <3>1. j \in DOMAIN e
        BY <1>1, <1>2, <2>3
      <3>2. e[j].offset > o
        BY <1>1, <1>2, <1>4, <3>1
      <3>3. k = j \/ e[j].offset < e[k].offset
        BY <1>1, <2>3, <3>1 DEF Sorted
      <3>4. QED
        BY <1>1, <3>1, <3>2, <3>3
    <2>4. ASSUME NEW k \in DOMAIN r, NEW l \in DOMAIN r, k < l
          PROVE  r[k].offset < r[l].offset
      <3>0. /\ k \in 1 .. Len(e) + 1 /\ l \in 1 .. Len(e) + 1
            /\ r[k] = IF k < j THEN e[k] ELSE IF k = j THEN x ELSE e[k - 1]
            /\ r[l] = IF l < j THEN e[l] ELSE IF l = j THEN x ELSE e[l - 1]
        BY <2>2
      <3>1. CASE l < j
        BY <1>1, <1>2, <2>4, <3>0, <3>1 DEF Sorted
      <3>2. CASE k < j /\ l = j
        BY <1>1, <1>2, <3>0, <3>2
      <3>3. CASE k < j /\ l > j
        <4>1. k \in DOMAIN e /\ l - 1 \in DOMAIN e /\ k < l - 1
          BY <1>1, <1>2, <3>0, <3>3
        <4>2. e[k].offset < e[l - 1].offset
          BY <4>1 DEF Sorted
        <4>3. QED
          BY <1>2, <3>0, <3>3, <4>2
      <3>4. CASE k = j
        <4>1. l - 1 \in DOMAIN e /\ l - 1 >= j
          BY <1>1, <1>2, <2>4, <3>0, <3>4
        <4>2. QED
          BY <1>1, <1>2, <2>3, <2>4, <3>0, <3>4, <4>1
      <3>5. CASE k > j
        <4>1. k - 1 \in DOMAIN e /\ l - 1 \in DOMAIN e /\ k - 1 < l - 1
          BY <1>1, <1>2, <2>4, <3>0, <3>5
        <4>2. e[k - 1].offset < e[l - 1].offset
          BY <4>1 DEF Sorted
        <4>3. QED
          BY <1>2, <2>4, <3>0, <3>5, <4>2
      <3>6. QED
        BY <1>2, <2>4, <3>0, <3>1, <3>2, <3>3, <3>4, <3>5
    <2>5. ASSUME NEW k \in DOMAIN r
          PROVE  r[k] = x \/ \E i \in DOMAIN e : r[k] = e[i]
      <3>1. CASE k < j
        BY <1>1, <1>2, <2>2, <3>1
      <3>2. CASE k = j
        BY <2>2, <3>2
      <3>3. CASE k > j
        <4>1. k - 1 \in DOMAIN e /\ r[k] = e[k - 1]
          BY <1>1, <1>2, <2>2, <3>3
        <4>2. QED
          BY <4>1
      <3>4. QED
        BY <1>2, <2>2, <3>1, <3>2, <3>3
    <2>6. QED
      BY <2>2, <2>4, <2>5 DEF Sorted, r, x
  <1>5. QED
    BY <1>3, <1>4

\* Nothing is lost: the new entry is there, and every other offset.
LEMMA InsertedHas ==
  ASSUME NEW e \in Seq(EntryType), NEW o \in Nat, NEW p \in Nat
  PROVE  /\ \E k \in DOMAIN Inserted(e, o, p) : Inserted(e, o, p)[k] = IndexEntry(o, p)
         /\ \A i \in DOMAIN e : e[i].offset # o =>
              \E k \in DOMAIN Inserted(e, o, p) : Inserted(e, o, p)[k] = e[i]
  <1> DEFINE j == FirstAtLeast(e, o)
             x == IndexEntry(o, p)
             r == Inserted(e, o, p)
  <1>1. Len(e) \in Nat /\ DOMAIN e = 1 .. Len(e) /\ x \in EntryType
    BY DEF EntryType, IndexEntry
  <1>2. j \in 1 .. Len(e) + 1
    BY FirstAtLeastIs
  <1> HIDE DEF j, x
  <1>3. CASE j \in DOMAIN e /\ e[j].offset = o
    <2>1. r = [e EXCEPT ![j] = x]
      BY <1>3 DEF Inserted, j, x
    <2>2. DOMAIN r = DOMAIN e /\ \A k \in DOMAIN e : r[k] = IF k = j THEN x ELSE e[k]
      BY <1>3, <2>1
    <2> HIDE DEF r
    <2>3. \A i \in DOMAIN e : e[i].offset # o => r[i] = e[i]
      BY <1>3, <2>2
    <2>4. QED
      BY <1>3, <2>2, <2>3 DEF r, x
  <1>4. CASE ~(j \in DOMAIN e /\ e[j].offset = o)
    <2>1. r = InsertAt(e, j, x)
      BY <1>4 DEF Inserted, j, x
    <2>2. /\ DOMAIN r = 1 .. Len(e) + 1
          /\ \A k \in 1 .. Len(e) + 1 : r[k] = IF k < j THEN e[k] ELSE IF k = j THEN x ELSE e[k - 1]
      BY <1>1, <1>2, <2>1, InsertAtIs
    <2> HIDE DEF r
    <2>3. j \in DOMAIN r /\ r[j] = x
      BY <1>2, <2>2
    <2>4. ASSUME NEW i \in DOMAIN e PROVE \E k \in DOMAIN r : r[k] = e[i]
      <3>1. CASE i < j
        BY <1>1, <2>2, <3>1
      <3>2. CASE ~(i < j)
        <4>1. i + 1 \in DOMAIN r /\ ~(i + 1 < j) /\ i + 1 # j /\ (i + 1) - 1 = i
          BY <1>1, <1>2, <2>2, <3>2
        <4>2. r[i + 1] = e[i]
          BY <2>2, <4>1
        <4>3. QED
          BY <4>1, <4>2
      <3>3. QED
        BY <3>1, <3>2
    <2>5. QED
      BY <2>3, <2>4 DEF r, x
  <1>5. QED
    BY <1>3, <1>4

LEMMA FirstAboveIs ==
  ASSUME NEW e \in Seq(EntryType), NEW o \in Nat
  PROVE  /\ FirstAbove(e, o) \in 1 .. Len(e) + 1
         /\ FirstAbove(e, o) \in DOMAIN e => e[FirstAbove(e, o)].offset > o
         /\ \A k \in DOMAIN e : k < FirstAbove(e, o) => e[k].offset <= o
  <1> DEFINE T == {j \in DOMAIN e : e[j].offset > o} \cup {Len(e) + 1}
  <1>1. Len(e) \in Nat /\ DOMAIN e = 1 .. Len(e) /\ \A k \in DOMAIN e : e[k].offset \in Nat
    <2>1. Len(e) \in Nat /\ DOMAIN e = 1 .. Len(e) /\ \A k \in DOMAIN e : e[k] \in EntryType
      OBVIOUS
    <2>2. QED
      BY <2>1 DEF EntryType
  <1>2. T \subseteq 1 .. Len(e) + 1 /\ T \subseteq Nat /\ T # {}
    BY <1>1
  <1>3. FirstAbove(e, o) \in T /\ \A y \in T : FirstAbove(e, o) <= y
    BY <1>2, LeastOfNat DEF FirstAbove
  <1>4. QED
    BY <1>1, <1>2, <1>3

LEMMA PrefixIs ==
  ASSUME NEW e \in Seq(EntryType), Sorted(e), NEW n \in 0 .. Len(e)
  PROVE  /\ SubSeq(e, 1, n) \in Seq(EntryType)
         /\ Sorted(SubSeq(e, 1, n))
         /\ \A k \in DOMAIN SubSeq(e, 1, n) : k \in DOMAIN e /\ SubSeq(e, 1, n)[k] = e[k]
  <1> DEFINE p == SubSeq(e, 1, n)
  <1>1. Len(e) \in Nat /\ DOMAIN e = 1 .. Len(e) /\ n \in Nat /\ n <= Len(e)
    OBVIOUS
  <1>2. p \in Seq(EntryType) /\ DOMAIN p = 1 .. n /\ \A k \in 1 .. n : p[k] = e[k]
    <2>1. 1 \in Int /\ n \in Int /\ \A k \in 1 .. n : e[k] \in EntryType
      BY <1>1
    <2>2. /\ SubSeq(e, 1, n) \in Seq(EntryType)
          /\ Len(SubSeq(e, 1, n)) = IF 1 <= n THEN n - 1 + 1 ELSE 0
          /\ \A k \in 1 .. n - 1 + 1 : SubSeq(e, 1, n)[k] = e[1 + k - 1]
      BY <2>1, SubSeqProperties
    <2>3. n - 1 + 1 = n /\ \A k \in 1 .. n : 1 + k - 1 = k
      BY <1>1
    <2>4. Len(SubSeq(e, 1, n)) = n /\ \A k \in 1 .. n : SubSeq(e, 1, n)[k] = e[k]
      BY <1>1, <2>2, <2>3
    <2>5. QED
      BY <2>2, <2>4, LenProperties
  <1> HIDE DEF p
  <1>3. \A k \in DOMAIN p : k \in DOMAIN e /\ p[k] = e[k]
    BY <1>1, <1>2
  <1>4. Sorted(p)
    BY <1>3 DEF Sorted
  <1>5. QED
    BY <1>2, <1>3, <1>4 DEF p

\* The loop of GetRange: it keeps the entries from `first` on, in their order.
LEMMA RangeLoop ==
  ASSUME NEW e \in Seq(EntryType), NEW first \in Nat, NEW last \in Nat
  PROVE  \E f \in [0 .. FirstAbove(e, last) - 1 -> Seq(EntryType)] :
           /\ GetRange(e, first, last) = f[FirstAbove(e, last) - 1]
           /\ f[0] = <<>>
           /\ \A i \in 1 .. FirstAbove(e, last) - 1 :
                f[i] = IF e[i].offset >= first THEN Append(f[i - 1], e[i]) ELSE f[i - 1]
  <1> DEFINE n == FirstAbove(e, last) - 1
             T == Seq(EntryType)
             base == <<>>
             next(i, s) == IF e[i].offset >= first THEN Append(s, e[i]) ELSE s
             step == [x \in (1 .. n) \X T |-> next(x[1], x[2])]
             Loop(f) == [i \in 0 .. n |->
                           IF i = 0 THEN base
                           ELSE IF e[i].offset >= first THEN Append(f[i - 1], e[i])
                           ELSE f[i - 1]]
  <1>1. n \in Nat /\ \A k \in 1 .. n : e[k] \in EntryType
    <2>1. Len(e) \in Nat /\ \A k \in 1 .. Len(e) : e[k] \in EntryType
      OBVIOUS
    <2>2. FirstAbove(e, last) \in 1 .. Len(e) + 1
      BY FirstAboveIs
    <2>3. n \in Nat /\ n <= Len(e)
      BY <2>1, <2>2
    <2> HIDE DEF n
    <2>4. QED
      BY <2>1, <2>3
  <1>2. GetRange(e, first, last) = (CHOOSE f : f = Loop(f))[n]
    BY DEF GetRange
  <1>3. ASSUME NEW f PROVE Loop(f) = [i \in 0 .. n |-> IF i = 0 THEN base ELSE next(i, f[i - 1])]
    OBVIOUS
  <1> HIDE DEF n, Loop
  <1>4. base \in T /\ \A k \in 1 .. n, s \in T : next(k, s) \in T
    BY <1>1, AppendProperties
  <1> HIDE DEF T, base, next
  <1>5. step \in [(1 .. n) \X T -> T]
    BY <1>4
  <1>6. \A k \in 1 .. n, s \in T : step[<<k, s>>] = next(k, s)
    OBVIOUS
  <1> HIDE DEF step
  <1>7. PICK f \in [0 .. n -> T] : f[0] = base /\ \A i \in 1 .. n : f[i] = step[<<i, f[i - 1]>>]
    <2>1. n \in Nat /\ base \in T
      BY <1>1, <1>4
    <2>2. Recursive(T, n, base, step) # {}
      BY <1>5, <2>1, RecursiveFunction
    <2>3. QED
      BY <2>2 DEF Recursive
  <1>8. \A i \in 1 .. n : i - 1 \in 0 .. n /\ f[i] = next(i, f[i - 1])
    BY <1>1, <1>6, <1>7
  <1>9. f = Loop(f)
    <2>1. \A i \in 0 .. n : f[i] = IF i = 0 THEN base ELSE next(i, f[i - 1])
      BY <1>1, <1>7, <1>8
    <2>2. QED
      BY <1>3, <1>7, <2>1
  <1> DEFINE r == CHOOSE g : g = Loop(g)
  <1>10. r = Loop(r)
    BY <1>9
  <1> HIDE DEF r
  <1>11. /\ r = [i \in 0 .. n |-> IF i = 0 THEN base ELSE next(i, r[i - 1])]
         /\ r[0] = base
         /\ \A i \in 1 .. n : r[i] = next(i, r[i - 1])
    <2>1. r = [i \in 0 .. n |-> IF i = 0 THEN base ELSE next(i, r[i - 1])]
      BY <1>3, <1>10
    <2>2. QED
      BY <1>1, <2>1
  <1>12. r \in [0 .. n -> T]
    <2> DEFINE H == {i \in 0 .. n : r[i] \in T}
    <2>1. 0 \in H
      BY <1>1, <1>4, <1>11
    <2>2. ASSUME NEW k \in 0 .. n - 1, k \in H PROVE k + 1 \in H
      <3>1. k + 1 \in 1 .. n /\ (k + 1) - 1 = k
        BY <1>1
      <3>2. r[k + 1] \in T
        BY <1>4, <1>11, <2>2, <3>1
      <3>3. QED
        BY <3>1, <3>2
    <2> HIDE DEF H
    <2>3. 0 .. n \subseteq H
      BY <1>1, <2>1, <2>2, HoldsUpTo
    <2>4. \A i \in 0 .. n : r[i] \in T
      BY <2>3 DEF H
    <2>5. QED
      BY <1>11, <2>4
  <1>13. GetRange(e, first, last) = r[n]
    BY <1>2 DEF r
  <1>14. QED
    BY <1>11, <1>12, <1>13 DEF n, T, base, next

\* What it has kept after i entries of a sorted index.
Kept(s, e, i, first) ==
  /\ Sorted(s)
  /\ \A m \in DOMAIN s : \E k \in 1 .. i : s[m] = e[k] /\ e[k].offset >= first
  /\ \A k \in 1 .. i : e[k].offset >= first => \E m \in DOMAIN s : s[m] = e[k]

LEMMA KeptOneMore ==
  ASSUME NEW e \in Seq(EntryType), Sorted(e), NEW i \in Nat, i < Len(e), NEW first \in Nat,
         NEW s \in Seq(EntryType), Kept(s, e, i, first), e[i + 1].offset >= first
  PROVE  Kept(Append(s, e[i + 1]), e, i + 1, first)
  <1> DEFINE x == e[i + 1]
             r == Append(s, x)
             n == Len(s)
  <1>1. /\ Len(e) \in Nat /\ DOMAIN e = 1 .. Len(e) /\ i + 1 \in DOMAIN e
        /\ \A k \in DOMAIN e : e[k] \in EntryType
    OBVIOUS
  <1>2. \A k \in 1 .. i + 1 : k \in 1 .. i \/ k = i + 1
    OBVIOUS
  <1>3. /\ n \in Nat /\ DOMAIN s = 1 .. n /\ DOMAIN r = 1 .. n + 1
        /\ r[n + 1] = x /\ \A m \in 1 .. n : r[m] = s[m]
    <2>1. /\ r \in Seq(EntryType) /\ Len(r) = Len(s) + 1
          /\ \A m \in 1 .. Len(s) : r[m] = s[m]
          /\ r[Len(s) + 1] = x
      BY <1>1, AppendProperties
    <2> HIDE DEF r
    <2>2. QED
      BY <2>1, LenProperties
  <1> HIDE DEF r, n
  <1>4. n + 1 \in DOMAIN r /\ \A m \in DOMAIN r : m \in 1 .. n \/ m = n + 1
    BY <1>3
  <1>5. ASSUME NEW m \in 1 .. n PROVE s[m].offset < x.offset
    <2>1. PICK k \in 1 .. i : s[m] = e[k]
      BY <1>3 DEF Kept
    <2>2. k \in DOMAIN e /\ k < i + 1
      BY <1>1
    <2>3. QED
      BY <1>1, <2>1, <2>2 DEF Sorted
  <1>6. Sorted(r)
    <2>1. \A m, l \in 1 .. n : m < l => r[m].offset < r[l].offset
      BY <1>3 DEF Kept, Sorted
    <2>2. \A m \in 1 .. n : r[m].offset < r[n + 1].offset
      BY <1>3, <1>5
    <2>3. \A m, l \in DOMAIN r : m < l => m \in 1 .. n
      BY <1>3
    <2> HIDE DEF x
    <2>4. QED
      BY <1>4, <2>1, <2>2, <2>3 DEF Sorted
  <1>7. ASSUME NEW m \in DOMAIN r PROVE \E k \in 1 .. i + 1 : r[m] = e[k] /\ e[k].offset >= first
    <2>1. CASE m \in 1 .. n
      <3>1. PICK k \in 1 .. i : s[m] = e[k] /\ e[k].offset >= first
        BY <1>3, <2>1 DEF Kept
      <3>2. k \in 1 .. i + 1 /\ r[m] = e[k]
        BY <1>3, <2>1, <3>1
      <3>3. QED
        BY <3>1, <3>2
    <2>2. CASE m = n + 1
      <3>1. i + 1 \in 1 .. i + 1 /\ r[m] = e[i + 1]
        BY <1>3, <2>2
      <3>2. QED
        BY <3>1
    <2>3. QED
      BY <1>4, <2>1, <2>2
  <1>8. ASSUME NEW k \in 1 .. i + 1, e[k].offset >= first PROVE \E m \in DOMAIN r : r[m] = e[k]
    <2>1. CASE k \in 1 .. i
      <3>1. PICK m \in DOMAIN s : s[m] = e[k]
        BY <1>8, <2>1 DEF Kept
      <3>2. m \in DOMAIN r /\ r[m] = e[k]
        BY <1>3, <3>1
      <3>3. QED
        BY <3>2
    <2>2. CASE k = i + 1
      BY <1>3, <1>4, <2>2
    <2>3. QED
      BY <1>2, <2>1, <2>2
  <1>9. QED
    BY <1>6, <1>7, <1>8 DEF Kept, r

LEMMA RangeKept ==
  ASSUME NEW e \in Seq(EntryType), Sorted(e), NEW n \in 0 .. Len(e), NEW first \in Nat,
         NEW f \in [0 .. n -> Seq(EntryType)], f[0] = <<>>,
         \A i \in 1 .. n : f[i] = IF e[i].offset >= first THEN Append(f[i - 1], e[i]) ELSE f[i - 1]
  PROVE  Kept(f[n], e, n, first)
  <1> DEFINE H == {i \in 0 .. n : Kept(f[i], e, i, first)}
  <1>1. Len(e) \in Nat /\ n \in Nat /\ n <= Len(e)
    OBVIOUS
  <1>2. 0 \in H
    <2>1. Kept(<<>>, e, 0, first)
      BY DEF Kept, Sorted
    <2>2. QED
      BY <1>1, <2>1
  <1>3. ASSUME NEW i \in 0 .. n - 1, i \in H PROVE i + 1 \in H
    <2>1. i + 1 \in 1 .. n /\ (i + 1) - 1 = i /\ i \in 0 .. n /\ i + 1 \in 0 .. n
          /\ i \in Nat /\ i < Len(e)
      BY <1>1, SMT
    <2>2. f[i] \in Seq(EntryType) /\ Kept(f[i], e, i, first)
      BY <1>3, <2>1
    <2>3. f[i + 1] = IF e[i + 1].offset >= first THEN Append(f[i], e[i + 1]) ELSE f[i]
      BY <2>1
    <2>4. CASE e[i + 1].offset >= first
      <3>1. Kept(Append(f[i], e[i + 1]), e, i + 1, first)
        BY <2>1, <2>2, <2>4, KeptOneMore
      <3>2. QED
        BY <2>1, <2>3, <2>4, <3>1
    <2>5. CASE ~(e[i + 1].offset >= first)
      <3>1. /\ \A k \in 1 .. i + 1 : k \in 1 .. i \/ ~(e[k].offset >= first)
            /\ \A k \in 1 .. i : k \in 1 .. i + 1
        <4>1. \A m \in Nat : \A k \in 1 .. m + 1 : k \in 1 .. m \/ k = m + 1
          OBVIOUS
        <4>2. \A m \in Nat : \A k \in 1 .. m : k \in 1 .. m + 1
          OBVIOUS
        <4>3. QED
          BY <2>1, <2>5, <4>1, <4>2, Zenon
      <3>2. Kept(f[i], e, i + 1, first)
        BY <2>2, <3>1 DEF Kept
      <3>3. QED
        BY <2>1, <2>3, <2>5, <3>2
    <2>6. QED
      BY <2>4, <2>5
  <1>4. 0 .. n \subseteq H
    <2> HIDE DEF H
    <2>1. QED
      BY <1>1, <1>2, <1>3, HoldsUpTo
  <1>5. n \in H
    BY <1>1, <1>4
  <1>6. QED
    BY <1>5

\* The loop of FlattenSeq, which a Rebuild makes of the segments it scans.
LEMMA FlattenLoop ==
  ASSUME NEW T, NEW lists \in Seq(Seq(T)), lists # <<>>
  PROVE  \E f \in [1 .. Len(lists) -> Seq(T)] :
           /\ FlattenSeq(lists) = f[Len(lists)]
           /\ f[1] = lists[1]
           /\ \A i \in 2 .. Len(lists) : f[i] = f[i - 1] \o lists[i]
  <1> DEFINE N == Len(lists)
             n == N - 1
             U == Seq(T)
             next(i, s) == s \o lists[i + 1]
             step == [x \in (1 .. n) \X U |-> next(x[1], x[2])]
             Loop(f) == [i \in 1 .. N |-> IF i = 1 THEN lists[i] ELSE f[i - 1] \o lists[i]]
  <1>1. N \in Nat /\ N >= 1 /\ n \in Nat /\ \A k \in 1 .. N : lists[k] \in U
    OBVIOUS
  <1>2. FlattenSeq(lists) = (CHOOSE f : f = Loop(f))[N]
    BY <1>1 DEF FlattenSeq
  <1>3. ASSUME NEW f
        PROVE  Loop(f) = [i \in 1 .. N |-> IF i = 1 THEN lists[1] ELSE f[i - 1] \o lists[i]]
    OBVIOUS
  <1>4. n + 1 = N /\ \A i \in 1 .. n : i + 1 \in 1 .. N
    BY <1>1
  <1> HIDE DEF N, n, Loop
  <1>5. lists[1] \in U /\ \A k \in 1 .. n, s \in U : next(k, s) \in U
    <2>1. 1 \in 1 .. N
      BY <1>1
    <2>2. \A k \in 1 .. n, s \in U : s \o lists[k + 1] \in U
      BY <1>1, <1>4, ConcatProperties
    <2>3. QED
      BY <1>1, <2>1, <2>2
  <1> HIDE DEF U, next
  <1>6. step \in [(1 .. n) \X U -> U]
    BY <1>5
  <1>7. \A k \in 1 .. n, s \in U : step[<<k, s>>] = next(k, s)
    OBVIOUS
  <1> HIDE DEF step
  <1>8. PICK f \in [0 .. n -> U] : f[0] = lists[1] /\ \A i \in 1 .. n : f[i] = step[<<i, f[i - 1]>>]
    <2>1. n \in Nat /\ lists[1] \in U
      BY <1>1, <1>5 DEF n
    <2>2. Recursive(U, n, lists[1], step) # {}
      BY <1>6, <2>1, RecursiveFunction
    <2>3. QED
      BY <2>2 DEF Recursive
  <1>9. n \in Nat /\ n = N - 1 /\ N \in Nat /\ N >= 1
    BY <1>1 DEF n
  <1>10. \A i \in 1 .. n : f[i] = f[i - 1] \o lists[i + 1]
    <2>1. \A i \in 1 .. n : i - 1 \in 0 .. n
      BY <1>9
    <2>2. \A i \in 1 .. n : f[i] = next(i, f[i - 1])
      BY <1>7, <1>8, <2>1
    <2>3. QED
      BY <2>2 DEF next
  <1> DEFINE g == [i \in 1 .. N |-> f[i - 1]]
  <1>11. g = Loop(g)
    <2>1. \A i \in 1 .. N : i # 1 => i - 1 \in 1 .. n /\ i - 1 \in 1 .. N /\ (i - 1) + 1 = i
      BY <1>9
    <2>2. ASSUME NEW i \in 1 .. N
          PROVE  f[i - 1] = IF i = 1 THEN lists[1] ELSE g[i - 1] \o lists[i]
      <3>1. CASE i = 1
        BY <1>8, <3>1
      <3>2. CASE i # 1
        <4>1. f[i - 1] = f[(i - 1) - 1] \o lists[(i - 1) + 1]
          BY <1>10, <2>1, <3>2
        <4>2. g[i - 1] = f[(i - 1) - 1]
          BY <2>1, <3>2
        <4>3. QED
          BY <2>1, <3>2, <4>1, <4>2
      <3>3. QED
        BY <3>1, <3>2
    <2>3. g = [i \in 1 .. N |-> IF i = 1 THEN lists[1] ELSE g[i - 1] \o lists[i]]
      BY <2>2, Zenon
    <2> HIDE DEF g
    <2>4. QED
      BY <1>3, <2>3
  <1> DEFINE r == CHOOSE h : h = Loop(h)
  <1>12. r = Loop(r)
    <2> HIDE DEF g
    <2>1. QED
      BY <1>11
  <1> HIDE DEF r, g
  <1>13. r = [i \in 1 .. N |-> IF i = 1 THEN lists[1] ELSE r[i - 1] \o lists[i]]
    BY <1>3, <1>12
  <1>14. r[1] = lists[1] /\ \A i \in 2 .. N : r[i] = r[i - 1] \o lists[i]
    <2>1. 1 \in 1 .. N /\ \A i \in 2 .. N : i \in 1 .. N /\ i # 1
      BY <1>9
    <2>2. QED
      BY <1>13, <2>1
  <1>15. r \in [1 .. N -> U]
    <2> DEFINE H == {i \in 0 .. n : r[i + 1] \in U}
    <2>1. 0 \in H
      BY <1>5, <1>9, <1>14
    <2>2. ASSUME NEW k \in 0 .. n - 1, k \in H PROVE k + 1 \in H
      <3>1. /\ k + 1 \in 1 .. n /\ k + 1 \in 0 .. n /\ (k + 1) + 1 \in 2 .. N
            /\ ((k + 1) + 1) - 1 = k + 1
        BY <1>9
      <3>2. r[(k + 1) + 1] = next(k + 1, r[k + 1])
        BY <1>14, <3>1 DEF next
      <3>3. QED
        BY <1>5, <2>2, <3>1, <3>2
    <2> HIDE DEF H
    <2>3. 0 .. n \subseteq H
      BY <1>9, <2>1, <2>2, HoldsUpTo
    <2>4. \A i \in 1 .. N : i - 1 \in 0 .. n /\ (i - 1) + 1 = i
      BY <1>9
    <2>5. \A i \in 1 .. N : r[i] \in U
      BY <2>3, <2>4 DEF H
    <2>6. QED
      BY <1>13, <2>5
  <1>16. FlattenSeq(lists) = r[N]
    BY <1>2 DEF r
  <1>17. QED
    BY <1>14, <1>15, <1>16 DEF N, U

-----------------------------------------------------------------------------
(* A Rebuild finds the frames of all segments in the order of their offsets *)

LEMMA ConcatSorted ==
  ASSUME NEW s \in Seq(EntryType), NEW t \in Seq(EntryType), Sorted(s), Sorted(t),
         \A i \in DOMAIN s, j \in DOMAIN t : s[i].offset < t[j].offset
  PROVE  /\ s \o t \in Seq(EntryType)
         /\ Sorted(s \o t)
         /\ \A k \in DOMAIN (s \o t) :
              (\E i \in DOMAIN s : (s \o t)[k] = s[i]) \/ (\E j \in DOMAIN t : (s \o t)[k] = t[j])
  <1> DEFINE r == s \o t
             m == Len(s)
             n == Len(t)
  <1>1. /\ m \in Nat /\ n \in Nat /\ DOMAIN s = 1 .. m /\ DOMAIN t = 1 .. n
        /\ r \in Seq(EntryType) /\ DOMAIN r = 1 .. m + n
        /\ \A k \in 1 .. m + n : r[k] = IF k <= m THEN s[k] ELSE t[k - m]
    <2>1. /\ r \in Seq(EntryType) /\ Len(r) = m + n
          /\ \A k \in 1 .. m + n : r[k] = IF k <= m THEN s[k] ELSE t[k - m]
      BY ConcatProperties
    <2> HIDE DEF r
    <2>2. QED
      BY <2>1, LenProperties
  <1> HIDE DEF r, m, n
  <1>2. ASSUME NEW k \in DOMAIN r
        PROVE  \/ k \in DOMAIN s /\ r[k] = s[k]
               \/ k > m /\ k - m \in DOMAIN t /\ r[k] = t[k - m]
    <2>1. k \in 1 .. m + n
      BY <1>1
    <2>2. CASE k <= m
      BY <1>1, <2>1, <2>2
    <2>3. CASE ~(k <= m)
      BY <1>1, <2>1, <2>3
    <2>4. QED
      BY <2>2, <2>3
  <1>3. ASSUME NEW k \in DOMAIN r, NEW l \in DOMAIN r, k < l PROVE r[k].offset < r[l].offset
    <2>1. CASE l \in DOMAIN s /\ r[l] = s[l]
      <3>1. k \in DOMAIN s /\ ~(k > m)
        BY <1>1, <1>3, <2>1
      <3>2. r[k] = s[k]
        BY <1>2, <3>1
      <3>3. QED
        BY <1>3, <2>1, <3>1, <3>2 DEF Sorted
    <2>2. CASE l > m /\ l - m \in DOMAIN t /\ r[l] = t[l - m]
      <3>1. CASE k \in DOMAIN s /\ r[k] = s[k]
        BY <2>2, <3>1
      <3>2. CASE k > m /\ k - m \in DOMAIN t /\ r[k] = t[k - m]
        <4>1. k - m < l - m
          BY <1>1, <1>3
        <4>2. QED
          BY <2>2, <3>2, <4>1 DEF Sorted
      <3>3. QED
        BY <1>2, <3>1, <3>2
    <2>3. QED
      BY <1>2, <2>1, <2>2
  <1>4. Sorted(r)
    BY <1>3 DEF Sorted
  <1>5. QED
    BY <1>1, <1>2, <1>4 DEF r

\* The entries of one segment.
LEMMA SegmentScanned ==
  ASSUME NEW base \in Nat, NEW positions \in Seq(Nat),
         \A i, j \in DOMAIN positions : i < j => positions[i] < positions[j]
  PROVE  /\ ScanSegment(base, positions) \in Seq(EntryType)
         /\ Sorted(ScanSegment(base, positions))
         /\ \A i \in DOMAIN ScanSegment(base, positions) :
              i \in DOMAIN positions /\ ScanSegment(base, positions)[i].offset = base + positions[i]
  <1> DEFINE r == ScanSegment(base, positions)
  <1>1. /\ Len(positions) \in Nat /\ DOMAIN positions = 1 .. Len(positions)
        /\ \A i \in DOMAIN positions : positions[i] \in Nat
    OBVIOUS
  <1>2. r = [i \in 1 .. Len(positions) |-> [offset |-> base + positions[i], position |-> positions[i]]]
    BY <1>1 DEF ScanSegment, IndexEntry
  <1> HIDE DEF r
  <1>3. \A i \in 1 .. Len(positions) :
          [offset |-> base + positions[i], position |-> positions[i]] \in EntryType
    BY <1>1 DEF EntryType
  <1>4. r \in Seq(EntryType) /\ DOMAIN r = 1 .. Len(positions)
    BY <1>1, <1>2, <1>3, IsASeq
  <1>5. \A i \in 1 .. Len(positions) : r[i].offset = base + positions[i]
    BY <1>2
  <1>6. Sorted(r)
    <2>1. \A x, y \in Nat : x < y => base + x < base + y
      OBVIOUS
    <2>2. \A i, j \in 1 .. Len(positions) : i < j => base + positions[i] < base + positions[j]
      BY <1>1, <2>1
    <2>3. QED
      BY <1>4, <1>5, <2>2 DEF Sorted
  <1>7. QED
    BY <1>1, <1>4, <1>5, <1>6 DEF r

\* Sorted, and made of entries of the first i segments.
Glued(s, lists, i) ==
  /\ Sorted(s)
  /\ \A m \in DOMAIN s : \E k \in 1 .. i : \E j \in DOMAIN lists[k] : s[m] = lists[k][j]

\* A log that is well formed is scanned into a sorted index.
LEMMA ScannedSorted ==
  ASSUME NEW log \in Seq([base : Nat, positions : Seq(Nat)]), WellFormed(log)
  PROVE  Scanned(log) \in Seq(EntryType) /\ Sorted(Scanned(log))
  <1> DEFINE N == Len(log)
             lists == [k \in DOMAIN log |-> ScanSegment(log[k].base, log[k].positions)]
  <1>1. /\ N \in Nat /\ DOMAIN log = 1 .. N
        /\ \A k \in 1 .. N : log[k].base \in Nat /\ log[k].positions \in Seq(Nat)
    <2> DEFINE T == [base : Nat, positions : Seq(Nat)]
    <2>1. \A x \in T : x.base \in Nat /\ x.positions \in Seq(Nat)
      OBVIOUS
    <2> HIDE DEF T
    <2>2. N \in Nat /\ DOMAIN log = 1 .. N /\ \A k \in 1 .. N : log[k] \in T
      BY LenProperties, ElementOfSeq DEF T
    <2>3. QED
      BY <2>1, <2>2
  <1>2. Scanned(log) = FlattenSeq(lists)
    BY DEF Scanned
  <1>3. ASSUME NEW k \in 1 .. N
        PROVE  /\ lists[k] \in Seq(EntryType)
               /\ Sorted(lists[k])
               /\ \A i \in DOMAIN lists[k] :
                    /\ i \in DOMAIN log[k].positions
                    /\ lists[k][i].offset = log[k].base + log[k].positions[i]
    <2>1. lists[k] = ScanSegment(log[k].base, log[k].positions)
      BY <1>1
    <2>2. \A i, j \in DOMAIN log[k].positions : i < j => log[k].positions[i] < log[k].positions[j]
      BY <1>1 DEF WellFormed
    <2> DEFINE base == log[k].base
               positions == log[k].positions
    <2>3. /\ base \in Nat /\ positions \in Seq(Nat) /\ lists[k] = ScanSegment(base, positions)
          /\ \A i, j \in DOMAIN positions : i < j => positions[i] < positions[j]
      BY <1>1, <2>1, <2>2
    <2> HIDE DEF lists, base, positions
    <2>4. /\ lists[k] \in Seq(EntryType) /\ Sorted(lists[k])
          /\ \A i \in DOMAIN lists[k] : i \in DOMAIN positions /\ lists[k][i].offset = base + positions[i]
      BY <2>3, SegmentScanned
    <2>5. QED
      BY <2>4 DEF base, positions
  <1>4. DOMAIN lists = 1 .. N /\ lists \in Seq(Seq(EntryType)) /\ Len(lists) = N
    <2>1. lists = [k \in 1 .. N |-> ScanSegment(log[k].base, log[k].positions)]
      BY <1>1
    <2>2. \A k \in 1 .. N : ScanSegment(log[k].base, log[k].positions) \in Seq(EntryType)
      BY <1>1, <1>3
    <2> DEFINE U == Seq(EntryType)
    <2> HIDE DEF U, lists
    <2>3. lists \in Seq(U)
      BY <1>1, <2>1, <2>2, IsASeq DEF U
    <2>4. QED
      BY <1>1, <2>1, <2>3, LenProperties DEF U
  <1>5. ASSUME NEW k \in 1 .. N, NEW l \in 1 .. N, k < l,
               NEW i \in DOMAIN lists[k], NEW j \in DOMAIN lists[l]
        PROVE  lists[k][i].offset < lists[l][j].offset
    <2> HIDE DEF lists
    <2>1. /\ i \in DOMAIN log[k].positions /\ j \in DOMAIN log[l].positions
          /\ lists[k][i].offset = log[k].base + log[k].positions[i]
          /\ lists[l][j].offset = log[l].base + log[l].positions[j]
      BY <1>3, <1>5
    <2>2. log[k].base + log[k].positions[i] < log[l].base
      BY <1>1, <1>5, <2>1 DEF WellFormed
    <2>3. log[l].base \in Nat /\ log[l].positions[j] \in Nat
          /\ log[k].base \in Nat /\ log[k].positions[i] \in Nat
      <3>1. \A p \in Seq(Nat) : \A x \in DOMAIN p : p[x] \in Nat
        OBVIOUS
      <3>2. QED
        BY <1>1, <2>1, <3>1
    <2>4. \A b, x, c, y \in Nat : b + x < c => b + x < c + y
      OBVIOUS
    <2>5. QED
      BY <2>1, <2>2, <2>3, <2>4
  <1> HIDE DEF lists, N
  <1>6. CASE N = 0
    <2>1. lists = <<>>
      BY <1>4, <1>6
    <2>2. FlattenSeq(lists) = <<>>
      BY <2>1 DEF FlattenSeq
    <2>3. QED
      BY <1>2, <2>2 DEF Sorted
  <1>7. CASE N # 0
    <2>1. N >= 1 /\ 1 \in 1 .. N /\ N \in Nat /\ N - 1 \in Nat
      BY <1>1, <1>7 DEF N
    <2>2. PICK f \in [1 .. N -> Seq(EntryType)] :
            /\ FlattenSeq(lists) = f[N]
            /\ f[1] = lists[1]
            /\ \A i \in 2 .. N : f[i] = f[i - 1] \o lists[i]
      <3>1. lists # <<>>
        BY <1>4, <2>1
      <3>2. QED
        BY <1>4, <3>1, FlattenLoop
    <2> DEFINE H == {i \in 0 .. N - 1 : Glued(f[i + 1], lists, i + 1)}
    <2>3. 0 \in H
      <3>1. Glued(lists[1], lists, 1)
        BY <1>3, <2>1 DEF Glued
      <3>2. QED
        BY <2>1, <2>2, <3>1
    <2>4. ASSUME NEW k \in 0 .. (N - 1) - 1, k \in H PROVE k + 1 \in H
      <3> DEFINE l == (k + 1) + 1
                 s == f[k + 1]
                 t == lists[l]
      <3>1. /\ l \in 2 .. N /\ l \in 1 .. N /\ l - 1 = k + 1 /\ k + 1 \in 1 .. N
            /\ k + 1 \in 0 .. N - 1 /\ k + 1 \in Nat /\ k + 1 < l
        BY <2>1
      <3>2. Glued(s, lists, k + 1) /\ s \in Seq(EntryType) /\ f[l] = s \o t
        BY <2>2, <2>4, <3>1
      <3>3. t \in Seq(EntryType) /\ Sorted(t)
        BY <1>3, <3>1
      <3>4. ASSUME NEW i \in DOMAIN s, NEW j \in DOMAIN t PROVE s[i].offset < t[j].offset
        <4>1. PICK a \in 1 .. k + 1 : \E b \in DOMAIN lists[a] : s[i] = lists[a][b]
          BY <3>2 DEF Glued
        <4>2. a \in 1 .. N /\ a < l
          BY <2>1, <3>1
        <4>3. QED
          BY <1>5, <3>1, <4>1, <4>2
      <3> HIDE DEF l, s, t
      <3>5. /\ Sorted(s \o t)
            /\ \A m \in DOMAIN (s \o t) :
                 (\E i \in DOMAIN s : (s \o t)[m] = s[i]) \/ (\E j \in DOMAIN t : (s \o t)[m] = t[j])
        BY <3>2, <3>3, <3>4, ConcatSorted DEF Glued
      <3>6. \A m \in DOMAIN (s \o t) : \E a \in 1 .. l : \E j \in DOMAIN lists[a] : (s \o t)[m] = lists[a][j]
        <4> TAKE m \in DOMAIN (s \o t)
        <4>1. CASE \E i \in DOMAIN s : (s \o t)[m] = s[i]
          <5>1. PICK a \in 1 .. k + 1 : \E b \in DOMAIN lists[a] : (s \o t)[m] = lists[a][b]
            BY <3>2, <4>1 DEF Glued
          <5>2. a \in 1 .. l
            BY <3>1
          <5>3. QED
            BY <5>1, <5>2
        <4>2. CASE \E j \in DOMAIN t : (s \o t)[m] = t[j]
          <5>1. l \in 1 .. l
            BY <3>1
          <5>2. QED
            BY <4>2, <5>1 DEF t
        <4>3. QED
          BY <3>5, <4>1, <4>2
      <3>7. Glued(f[l], lists, l)
        <4>1. Glued(s \o t, lists, l)
          BY <3>5, <3>6 DEF Glued
        <4>2. QED
          BY <3>2, <4>1
      <3>8. QED
        BY <3>1, <3>7 DEF l
    <2>5. N - 1 \in H
      <3> HIDE DEF H
      <3>1. 0 .. N - 1 \subseteq H
        BY <2>1, <2>3, <2>4, HoldsUpTo
      <3>2. QED
        BY <2>1, <3>1
    <2>6. (N - 1) + 1 = N /\ f[N] \in Seq(EntryType)
      BY <2>1, <2>2
    <2>7. QED
      BY <1>2, <2>2, <2>5, <2>6 DEF Glued
  <1>8. QED
    BY <1>6, <1>7

LEMMA NoEntries == <<>> \in Seq(EntryType) /\ Sorted(<<>>)
  BY DEF Sorted

\* Sorted in memory and in the file, from which the next process loads it.
IndexInv ==
  /\ indexEntries \in Seq(EntryType) /\ Sorted(indexEntries)
  /\ indexFile \in Seq(EntryType) /\ Sorted(indexFile)

\* What a persist that stops leaves in the file.
LEMMA StoppedPersist ==
  ASSUME IndexInv, NEW n \in 0 .. Len(indexEntries), IndexSyncFails(n)
  PROVE  IndexInv'
  BY PrefixIs DEF IndexInv, IndexSyncFails, IndexPersistStops

\* AddEntry replaces what the index has at an offset, and nothing else.
LEMMA AddEntryReplaces ==
  ASSUME IndexInv, NEW o \in Nat, NEW p \in Nat
  PROVE  EntryReplaced(o, p)
  <1> DEFINE e == indexEntries
             r == Inserted(e, o, p)
             x == IndexEntry(o, p)
  <1>1. e \in Seq(EntryType) /\ Sorted(e)
    BY DEF IndexInv
  <1>2. /\ Sorted(r)
        /\ \A k \in DOMAIN r : r[k] = x \/ \E i \in DOMAIN e : r[k] = e[i]
        /\ r \in Seq(EntryType)
    BY <1>1, InsertedIs
  <1>3. /\ \E k \in DOMAIN r : r[k] = x
        /\ \A i \in DOMAIN e : e[i].offset # o => \E k \in DOMAIN r : r[k] = e[i]
    BY <1>1, InsertedHas
  <1>4. x.offset = o
    BY DEF IndexEntry
  <1>5. DOMAIN r \subseteq Nat /\ \A k \in DOMAIN r : r[k].offset \in Nat
    <2>1. \A k \in DOMAIN r : r[k] \in EntryType /\ k \in Nat
      BY <1>2
    <2>2. QED
      BY <2>1 DEF EntryType
  <1> HIDE DEF e, r, x
  <1>6. \A k \in DOMAIN r : r[k].offset = o => r[k] = x
    <2>1. PICK l \in DOMAIN r : r[l] = x
      BY <1>3
    <2>2. ASSUME NEW k \in DOMAIN r, r[k].offset = o PROVE k = l
      BY <1>2, <1>4, <1>5, <2>1, <2>2 DEF Sorted
    <2>3. QED
      BY <2>1, <2>2
  <1>7. ToSet(r) = {y \in ToSet(e) : y.offset # o} \cup {x}
    <2>1. ASSUME NEW k \in DOMAIN r
          PROVE  r[k] = x \/ \E i \in DOMAIN e : r[k] = e[i] /\ e[i].offset # o
      BY <1>2, <1>6
    <2>2. \A i \in DOMAIN e : e[i].offset # o => \E k \in DOMAIN r : r[k] = e[i]
      BY <1>3
    <2>3. QED
      BY <1>3, <2>1, <2>2 DEF ToSet
  <1>8. QED
    BY <1>2, <1>7 DEF EntryReplaced, Sorted, Entries, e, r, x

\* The binary searches find what a scan would.
LEMMA SearchesFind ==
  ASSUME IndexInv, NEW o \in Nat
  PROVE  PositionFound(o) /\ ClosestFound(o)
  <1> DEFINE e == indexEntries
             j == FirstAtLeast(e, o)
             a == FirstAbove(e, o)
  <1>1. e \in Seq(EntryType) /\ Sorted(e)
    BY DEF IndexInv
  <1>2. /\ Len(e) \in Nat /\ DOMAIN e = 1 .. Len(e)
        /\ \A k \in DOMAIN e : e[k].offset \in Nat
    <2>1. Len(e) \in Nat /\ DOMAIN e = 1 .. Len(e) /\ \A k \in DOMAIN e : e[k] \in EntryType
      BY <1>1
    <2>2. QED
      BY <2>1 DEF EntryType
  <1>3. /\ j \in 1 .. Len(e) + 1
        /\ j \in DOMAIN e => e[j].offset >= o
        /\ \A k \in DOMAIN e : k < j => e[k].offset < o
    BY <1>1, FirstAtLeastIs
  <1>4. /\ a \in 1 .. Len(e) + 1
        /\ a \in DOMAIN e => e[a].offset > o
        /\ \A k \in DOMAIN e : k < a => e[k].offset <= o
    BY <1>1, FirstAboveIs
  <1>5. \A k, l \in DOMAIN e : k < l => e[k].offset < e[l].offset
    BY <1>1 DEF Sorted
  <1>6. GetPosition(e, o) = IF j \in DOMAIN e /\ e[j].offset = o THEN {e[j]} ELSE {}
    BY DEF GetPosition
  <1>7. GetClosestPosition(e, o) =
          IF e = <<>> THEN {} ELSE IF a = 1 THEN {e[1]} ELSE {e[a - 1]}
    BY DEF GetClosestPosition
  <1>8. Entries = {e[k] : k \in DOMAIN e}
    BY DEF Entries, ToSet
  <1>9. e = <<>> <=> Len(e) = 0
    BY <1>1
  <1> HIDE DEF j, a
  <1>10. PositionFound(o)
    <2> HIDE DEF e
    <2>1. ASSUME NEW k \in DOMAIN e, e[k].offset = o PROVE k = j
      <3>1. ~(k < j)
        BY <1>2, <1>3, <2>1
      <3>2. ASSUME k > j PROVE FALSE
        <4>1. j \in DOMAIN e /\ e[j].offset < e[k].offset
          BY <1>2, <1>3, <1>5, <3>2
        <4>2. QED
          BY <1>2, <1>3, <2>1, <4>1
      <3>3. QED
        BY <1>2, <1>3, <3>1, <3>2
    <2>2. {y \in Entries : y.offset = o} =
            IF j \in DOMAIN e /\ e[j].offset = o THEN {e[j]} ELSE {}
      BY <1>8, <2>1
    <2>3. QED
      BY <1>6, <2>2 DEF PositionFound, e
  <1>11. ClosestFound(o)
    <2> DEFINE below == {y \in Entries : y.offset <= o}
    <2> HIDE DEF e
    <2>1. \A k, l \in DOMAIN e : e[k].offset <= e[l].offset => k <= l
      BY <1>2, <1>5
    <2>2. \A k, l \in DOMAIN e : k <= l => e[k].offset <= e[l].offset
      BY <1>2, <1>5
    <2>3. \A k \in DOMAIN e : e[k].offset <= o <=> k < a
      <3> TAKE k \in DOMAIN e
      <3>1. ASSUME k >= a PROVE ~(e[k].offset <= o)
        <4>1. a \in DOMAIN e
          BY <1>2, <1>4, <3>1
        <4>2. e[a].offset <= e[k].offset
          BY <1>2, <2>2, <3>1, <4>1
        <4>3. QED
          BY <1>2, <1>4, <4>1, <4>2
      <3>2. QED
        BY <1>2, <1>4, <3>1
    <2>4. below = {e[k] : k \in {l \in DOMAIN e : l < a}}
      BY <1>8, <2>3
    <2>5. CASE a = 1
      <3>1. below = {}
        BY <1>2, <2>4, <2>5
      <3>2. QED
        BY <3>1 DEF ClosestFound
    <2>6. CASE a # 1
      <3>1. a - 1 \in DOMAIN e /\ a - 1 < a /\ e # <<>>
        BY <1>2, <1>4, <1>9, <2>6
      <3>2. \A k \in DOMAIN e : k < a <=> k <= a - 1
        BY <1>2, <1>4
      <3>3. e[a - 1] \in below /\ \A f \in below : f.offset <= e[a - 1].offset
        BY <2>2, <2>4, <3>1, <3>2
      <3>4. ASSUME NEW k \in DOMAIN e, k < a, e[a - 1].offset <= e[k].offset PROVE k = a - 1
        BY <1>2, <1>4, <2>1, <3>1, <3>2, <3>4
      <3>5. {y \in below : \A f \in below : f.offset <= y.offset} = {e[a - 1]}
        BY <2>4, <3>3, <3>4
      <3>6. QED
        BY <1>7, <2>6, <3>1, <3>5 DEF ClosestFound, e
    <2>7. QED
      BY <2>5, <2>6
  <1>12. QED
    BY <1>10, <1>11

\* GetRange finds what lies between two offsets, in order.
LEMMA RangeIsFound ==
  ASSUME IndexInv, NEW first \in Nat, NEW last \in Nat
  PROVE  RangeFound(first, last)
  <1> DEFINE e == indexEntries
             a == FirstAbove(e, last)
             r == GetRange(e, first, last)
  <1>1. e \in Seq(EntryType) /\ Sorted(e)
    BY DEF IndexInv
  <1>2. Len(e) \in Nat /\ DOMAIN e = 1 .. Len(e) /\ \A k \in DOMAIN e : e[k].offset \in Nat
    <2>1. Len(e) \in Nat /\ DOMAIN e = 1 .. Len(e) /\ \A k \in DOMAIN e : e[k] \in EntryType
      BY <1>1
    <2>2. QED
      BY <2>1 DEF EntryType
  <1>3. /\ a \in 1 .. Len(e) + 1
        /\ a \in DOMAIN e => e[a].offset > last
        /\ \A k \in DOMAIN e : k < a => e[k].offset <= last
    BY <1>1, FirstAboveIs
  <1>4. PICK f \in [0 .. a - 1 -> Seq(EntryType)] :
          /\ r = f[a - 1]
          /\ f[0] = <<>>
          /\ \A i \in 1 .. a - 1 : f[i] = IF e[i].offset >= first THEN Append(f[i - 1], e[i]) ELSE f[i - 1]
    BY <1>1, RangeLoop
  <1> HIDE DEF e, a, r
  <1>5. a - 1 \in 0 .. Len(e)
    BY <1>2, <1>3
  <1>6. /\ Sorted(r)
        /\ \A m \in DOMAIN r : \E k \in 1 .. a - 1 : r[m] = e[k] /\ e[k].offset >= first
        /\ \A k \in 1 .. a - 1 : e[k].offset >= first => \E m \in DOMAIN r : r[m] = e[k]
    <2>1. Kept(f[a - 1], e, a - 1, first)
      BY <1>1, <1>4, <1>5, RangeKept
    <2>2. QED
      BY <1>4, <2>1 DEF Kept
  <1>7. ASSUME NEW k \in DOMAIN e PROVE k \in 1 .. a - 1 <=> e[k].offset <= last
    <2>1. CASE k < a
      BY <1>2, <1>3, <2>1
    <2>2. CASE k >= a
      <3>1. a \in DOMAIN e /\ k \in Int /\ a \in Int
        BY <1>2, <1>3, <2>2
      <3>2. k = a \/ e[a].offset < e[k].offset
        BY <1>1, <2>2, <3>1 DEF Sorted
      <3>3. QED
        BY <1>2, <1>3, <2>2, <3>1, <3>2
    <2>3. QED
      BY <1>2, <1>3, <2>1, <2>2
  <1>8. \A k \in 1 .. a - 1 : k \in DOMAIN e
    BY <1>2, <1>3
  <1>9. ToSet(r) = {y \in ToSet(e) : y.offset \in first .. last}
    <2>1. \A m \in DOMAIN r : \E k \in DOMAIN e : r[m] = e[k] /\ e[k].offset \in first .. last
      BY <1>2, <1>6, <1>7, <1>8
    <2>2. \A k \in DOMAIN e : e[k].offset \in first .. last => \E m \in DOMAIN r : r[m] = e[k]
      BY <1>2, <1>6, <1>7
    <2>3. QED
      BY <2>1, <2>2 DEF ToSet
  <1>10. QED
    BY <1>6, <1>9 DEF RangeFound, Sorted, Entries, e, r

-----------------------------------------------------------------------------
(* An index and a catalog that are not marked are saved *)

LEMMA IndexFrame ==
  ASSUME IndexCleanIsSaved, UNCHANGED indexVars
  PROVE  IndexCleanIsSaved'
  BY DEF IndexCleanIsSaved, indexVars

LEMMA CatalogFrame ==
  ASSUME CatalogCleanIsSaved, UNCHANGED catalogVars
  PROVE  CatalogCleanIsSaved'
  BY DEF CatalogCleanIsSaved, catalogVars

LEMMA IndexSyncKeeps ==
  ASSUME IndexCleanIsSaved,
         IndexSync \/ \E n \in 0 .. Len(indexEntries) : IndexSyncFails(n)
  PROVE  IndexCleanIsSaved'
  BY DEF IndexCleanIsSaved, IndexSync, IndexSyncFails, IndexPersist, IndexPersistStops

LEMMA CatalogSyncKeeps ==
  ASSUME CatalogCleanIsSaved, CatalogSync
  PROVE  CatalogCleanIsSaved'
  BY DEF CatalogCleanIsSaved, CatalogSync

-----------------------------------------------------------------------------
(* The index on its own *)

\* What a Rebuild leaves, to its end or stopped anywhere.
LEMMA RebuildKeeps ==
  ASSUME IndexInv, NEW log \in Logs, NEW n \in 0 .. Len(Scanned(log)),
         Rebuild(log) \/ RebuildFails(log, n) \/ RebuildScanFails(log, n)
  PROVE  IndexInv'
  <1> DEFINE found == Scanned(log)
             part == SubSeq(found, 1, n)
  <1>1. found \in Seq(EntryType) /\ Sorted(found)
    BY StoresAssumption, ScannedSorted
  <1> HIDE DEF found
  <1>2. part \in Seq(EntryType) /\ Sorted(part)
    BY <1>1, PrefixIs DEF found
  <1>3. /\ indexEntries' \in {found, part}
        /\ indexFile' \in {found, part, indexFile}
    BY DEF Rebuild, RebuildFails, RebuildScanFails, IndexPersist, IndexPersistStops, found
  <1> HIDE DEF part
  <1>4. QED
    BY <1>1, <1>2, <1>3 DEF IndexInv

LEMMA IndexInvKeeps ==
  ASSUME IndexInv, [IndexNext]_indexVars
  PROVE  IndexInv'
  <1>1. ASSUME NEW o \in Offsets, NEW p \in Offsets, AddEntry(o, p) PROVE IndexInv'
    <2>1. o \in Nat /\ p \in Nat
      BY StoresAssumption
    <2>2. QED
      BY <1>1, <2>1, InsertedIs DEF IndexInv, AddEntry
  <1>2. CASE IndexSync
    BY <1>2 DEF IndexSync, IndexPersist, IndexInv
  <1>3. CASE \E n \in 0 .. Len(indexEntries) : IndexSyncFails(n)
    BY <1>3, StoppedPersist
  <1>4. ASSUME NEW log \in Logs, Rebuild(log) PROVE IndexInv'
    <2>1. Scanned(log) \in Seq(EntryType)
      BY StoresAssumption, ScannedSorted
    <2>2. 0 \in 0 .. Len(Scanned(log))
      BY <2>1
    <2>3. QED
      BY <1>4, <2>2, RebuildKeeps
  <1>5. ASSUME NEW log \in Logs, NEW n \in 0 .. Len(Scanned(log)),
               RebuildFails(log, n) \/ RebuildScanFails(log, n)
        PROVE  IndexInv'
    BY <1>5, RebuildKeeps
  <1>6. CASE IndexLoad
    BY <1>6 DEF IndexLoad, IndexInv
  <1>7. CASE UNCHANGED indexVars
    BY <1>7 DEF indexVars, IndexInv
  <1>8. QED
    BY <1>1, <1>2, <1>3, <1>4, <1>5, <1>6, <1>7 DEF IndexNext

\* The index is sorted, in memory and in its file, whoever uses it: callers that
\* add offsets in any order, logs of any number of segments, and writes and
\* scans that stop anywhere (index.go:50-76, 139-330).
THEOREM StoredIndexInvariant == IndexSpec => []IndexInv
  <1>1. IndexInit => IndexInv
    BY NoEntries DEF IndexInit, IndexInv
  <1>2. IndexInv /\ [IndexNext]_indexVars => IndexInv'
    BY IndexInvKeeps
  <1>3. QED
    BY <1>1, <1>2, PTL DEF IndexSpec

\* AddEntry is the update of a map in every state of an index, at any offset
\* (index.go:50-76).
THEOREM AddEntryIsAnUpdate == IndexSpec => []AddEntryUpdatesMap
  <1>1. IndexInv => AddEntryUpdatesMap
    BY AddEntryReplaces, StoresAssumption DEF AddEntryUpdatesMap
  <1>2. QED
    BY <1>1, StoredIndexInvariant, PTL

\* GetPosition, GetClosestPosition and GetRange find what a scan of all entries
\* would, in every state of an index (index.go:79-137).
THEOREM LookupsAreScans == IndexSpec => []LookupsMatchScan
  <1>1. IndexInv => LookupsMatchScan
    BY SearchesFind, RangeIsFound, StoresAssumption DEF LookupsMatchScan
  <1>2. QED
    BY <1>1, StoredIndexInvariant, PTL

\* Unless the scan of a Rebuild fails, an index that is not marked is the one
\* in its file (index.go:139-170).
THEOREM StoredIndexIsSaved == ~ScanFails /\ IndexSpec => []IndexCleanIsSaved
  <1> SUFFICES ASSUME ~ScanFails PROVE IndexSpec => []IndexCleanIsSaved
    OBVIOUS
  <1>1. IndexInit => IndexCleanIsSaved
    BY DEF IndexInit, IndexCleanIsSaved
  <1>2. ASSUME IndexCleanIsSaved, [IndexNext]_indexVars PROVE IndexCleanIsSaved'
    <2>1. CASE IndexSync \/ \E n \in 0 .. Len(indexEntries) : IndexSyncFails(n)
      BY <1>2, <2>1, IndexSyncKeeps
    <2>2. CASE UNCHANGED indexVars
      BY <1>2, <2>2, IndexFrame
    <2>3. CASE \E o, p \in Offsets : AddEntry(o, p)
      BY <2>3 DEF AddEntry, IndexCleanIsSaved
    <2>4. CASE \E log \in Logs :
                 \/ Rebuild(log)
                 \/ \E n \in 0 .. Len(Scanned(log)) : RebuildFails(log, n) \/ RebuildScanFails(log, n)
      BY <2>4 DEF Rebuild, RebuildFails, RebuildScanFails, IndexPersist, IndexPersistStops, IndexCleanIsSaved
    <2>5. CASE IndexLoad
      BY <2>5 DEF IndexLoad, IndexCleanIsSaved
    <2>6. QED
      BY <1>2, <2>1, <2>2, <2>3, <2>4, <2>5 DEF IndexNext
  <1>3. QED
    BY <1>1, <1>2, PTL DEF IndexSpec

-----------------------------------------------------------------------------
(* The catalog on its own *)

IsMap(f) == f = [c \in DOMAIN f |-> f[c]]

\* Removing nobody leaves a map as it is.
CatalogInv ==
  /\ IsMap(consumers)
  /\ IsMap(catalogFile)
  /\ CatalogCleanIsSaved

LEMMA RestrictIsMap ==
  ASSUME NEW f, NEW S
  PROVE  IsMap(Restrict(f, S)) /\ (IsMap(f) /\ S = DOMAIN f => Restrict(f, S) = f)
  BY DEF IsMap, Restrict

LEMMA RemovalKeeps ==
  ASSUME CatalogInv, NEW S, RemoveConsumers(S)
  PROVE  CatalogInv'
  <1> DEFINE left == DOMAIN consumers \ S
  <1>1. /\ consumers' = Restrict(consumers, left)
        /\ catalogDirty' = (catalogDirty \/ S \cap DOMAIN consumers # {})
        /\ catalogFile' = catalogFile
    BY DEF RemoveConsumers
  <1>2. IsMap(consumers') /\ IsMap(catalogFile')
    BY <1>1, RestrictIsMap DEF CatalogInv
  <1>3. ASSUME S \cap DOMAIN consumers = {} PROVE consumers' = consumers
    <2>1. left = DOMAIN consumers
      BY <1>3
    <2>2. QED
      BY <1>1, <2>1, RestrictIsMap DEF CatalogInv
  <1>4. CatalogCleanIsSaved'
    BY <1>1, <1>3 DEF CatalogInv, CatalogCleanIsSaved
  <1>5. QED
    BY <1>2, <1>4 DEF CatalogInv

\* A catalog that is not marked is the one in consumers.json, removals, resets
\* and imports that fail to save included (catalog.go:120-201, 293-325).
THEOREM StoredCatalogIsSaved == CatalogSpec => []CatalogCleanIsSaved
  <1>1. CatalogInit => CatalogInv
    BY DEF CatalogInit, CatalogInv, CatalogCleanIsSaved, NoConsumers, IsMap
  <1>2. ASSUME CatalogInv, [CatalogNext]_catalogVars PROVE CatalogInv'
    <2>1. ASSUME NEW c \in Consumers, NEW o \in Offsets, UpdateOffset(c, o) PROVE CatalogInv'
      <3>1. IsMap([d \in DOMAIN consumers \cup {c} |-> IF d = c THEN o ELSE consumers[d]])
        BY DEF IsMap
      <3>2. QED
        BY <1>2, <2>1, <3>1 DEF UpdateOffset, CatalogInv, CatalogCleanIsSaved
    <2>2. CASE \E S \in SUBSET Consumers : RemoveConsumers(S)
      BY <1>2, <2>2, RemovalKeeps
    <2>3. CASE CatalogSync
      BY <1>2, <2>3 DEF CatalogSync, CatalogInv, CatalogCleanIsSaved
    <2>4. ASSUME NEW map \in Maps, ReplaceMap(map)
          PROVE  CatalogInv'
      <3>1. IsMap(map)
        BY DEF Maps, IsMap
      <3>2. QED
        BY <1>2, <2>4, <3>1 DEF ReplaceMap, CatalogInv, CatalogCleanIsSaved
    <2>5. CASE CatalogLoad
      BY <1>2, <2>5 DEF CatalogLoad, CatalogInv, CatalogCleanIsSaved
    <2>6. CASE UNCHANGED catalogVars \/ \E c \in Consumers : CommitOffset(c)
      BY <1>2, <2>6 DEF catalogVars, CommitOffset, CatalogInv, CatalogCleanIsSaved
    <2>7. QED
      BY <1>2, <2>1, <2>2, <2>3, <2>4, <2>5, <2>6 DEF CatalogNext
  <1>3. CatalogInv => CatalogCleanIsSaved
    BY DEF CatalogInv
  <1>4. QED
    BY <1>1, <1>2, <1>3, PTL DEF CatalogSpec

\* While a persist is under way the catalog is dirty and stays as it is, and
\* once the temporary file is written it holds all of the map.
PersistInv ==
  /\ IsMap(consumers)
  /\ IsMap(catalogFile)
  /\ IsMap(catalogTemp)
  /\ saving # "no" => catalogDirty
  /\ saving = "written" => catalogTemp = consumers

LEMMA PersistInitial == PersistInit => PersistInv
  BY DEF PersistInit, CatalogInit, PersistInv, NoConsumers, IsMap

\* Each step keeps the invariant, and the one that shows is the rename.
LEMMA PersistStep ==
  ASSUME PersistInv, [PersistNext]_persistVars
  PROVE  PersistInv' /\ [CatalogNext]_catalogVars
  <1>1. IsMap(NoConsumers)
    BY DEF NoConsumers, IsMap
  <1>2. CASE UNCHANGED persistVars
    BY <1>2 DEF persistVars, catalogVars, PersistInv
  <1>3. ASSUME saving = "no", UNCHANGED <<catalogTemp, saving>>,
               NEW c \in Consumers, NEW o \in Offsets, UpdateOffset(c, o)
        PROVE  PersistInv' /\ [CatalogNext]_catalogVars
    <2>1. IsMap([d \in DOMAIN consumers \cup {c} |-> IF d = c THEN o ELSE consumers[d]])
      BY DEF IsMap
    <2>2. PersistInv'
      BY <1>3, <2>1 DEF UpdateOffset, PersistInv
    <2>3. QED
      BY <1>3, <2>2 DEF CatalogNext
  <1>4. ASSUME saving = "no", UNCHANGED <<catalogTemp, saving>>,
               NEW c \in Consumers, CommitOffset(c)
        PROVE  PersistInv' /\ [CatalogNext]_catalogVars
    BY <1>4 DEF CommitOffset, PersistInv, CatalogNext
  <1>5. ASSUME saving = "no", UNCHANGED <<catalogTemp, saving>>,
               NEW S \in SUBSET Consumers, RemoveConsumers(S)
        PROVE  PersistInv' /\ [CatalogNext]_catalogVars
    <2>1. IsMap(consumers')
      BY <1>5, RestrictIsMap DEF RemoveConsumers
    <2>2. PersistInv'
      BY <1>5, <2>1 DEF RemoveConsumers, PersistInv
    <2>3. QED
      BY <1>5, <2>2 DEF CatalogNext
  <1>6. CASE SyncBegins
    BY <1>1, <1>6 DEF SyncBegins, PersistBegins, PersistInv, catalogVars
  <1>7. ASSUME NEW map \in Maps, ReplaceBegins(map)
        PROVE  PersistInv' /\ [CatalogNext]_catalogVars
    <2>1. IsMap(map)
      BY DEF Maps, IsMap
    <2>2. PersistInv'
      BY <1>1, <1>7, <2>1 DEF ReplaceBegins, ReplaceMap, PersistBegins, PersistInv
    <2>3. QED
      BY <1>7, <2>2 DEF ReplaceBegins, CatalogNext
  <1>8. ASSUME NEW S \in SUBSET DOMAIN consumers, WriteTemp(S)
        PROVE  PersistInv' /\ [CatalogNext]_catalogVars
    <2>1. IsMap(catalogTemp') /\ (S = DOMAIN consumers => catalogTemp' = consumers)
      BY <1>8, RestrictIsMap DEF WriteTemp, PersistInv
    <2>2. QED
      BY <1>8, <2>1 DEF WriteTemp, PersistInv, catalogVars
  <1>9. CASE PersistFails
    BY <1>1, <1>9 DEF PersistFails, PersistInv, catalogVars
  <1>10. CASE RenameTemp
    <2>1. CatalogSync
      BY <1>10 DEF RenameTemp, PersistInv, CatalogSync
    <2>2. PersistInv'
      BY <1>1, <1>10 DEF RenameTemp, PersistInv
    <2>3. QED
      BY <2>1, <2>2 DEF CatalogNext
  <1>11. CASE PersistRestarts
    <2>1. PersistInv'
      BY <1>11 DEF PersistRestarts, CatalogLoad, PersistInv
    <2>2. QED
      BY <1>11, <2>1 DEF PersistRestarts, CatalogNext
  <1>12. QED
    BY <1>2, <1>3, <1>4, <1>5, <1>6, <1>7, <1>8, <1>9, <1>10, <1>11 DEF PersistNext

\* The write to a temporary file and the rename save the catalog as if in one
\* step, whatever fails and wherever the process ends (catalog.go:270-290).
THEOREM SavesAreAtomic == PersistSpec => SavesAtomically
  <1>1. PersistInit => CatalogInit
    BY DEF PersistInit
  <1>2. PersistInv /\ [PersistNext]_persistVars => PersistInv' /\ [CatalogNext]_catalogVars
    BY PersistStep
  <1>3. QED
    BY <1>1, <1>2, PersistInitial, PTL DEF PersistSpec, SavesAtomically, CatalogSpec
=============================================================================
