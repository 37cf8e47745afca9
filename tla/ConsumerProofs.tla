--------------------------- MODULE ConsumerProofs ---------------------------
(***************************************************************************)
(* Proofs about the polling consumer, for any batch size, any capacity of  *)
(* its channel and any number of messages, with seeks and restarts.        *)
(*                                                                         *)
(* ConsumerInv is inductive.  What a consumer must not pass on again is    *)
(* bounded by two numbers that drift apart: the offset of its last message *)
(* and the one its poll started with.  OffsetInv says how the batch lies   *)
(* with respect to both, SettledInv up to where no message is missing.     *)
(* PositionInv, on top of it, makes every step one of Stream's.            *)
(***************************************************************************)
EXTENDS PollingConsumer, StreamProofs, SequenceTheorems, TLAPS

\* The last message passed on since the last seek, or where that began.
LastPassed == IF passed = <<>> THEN start ELSE passed[Len(passed)]

\* What needs no more looking after: passed on, or dropped for want of room.
Settled == Elements(passed) \cup dropped

ConsumerTypes ==
  /\ ConsumerTypeOK
  /\ stream \in Seq(Messages)
  /\ cursor \in [Readers -> Offsets]
  /\ saved \in [Readers -> Offsets]

\* A batch is a stretch of the stream, and lasts as long as its poll.
BatchInv ==
  /\ life = "new" => loop = "off"
  /\ loop \notin {"pass", "note", "panicked"} => batch = <<>>
  /\ loop = "note" => batch # <<>>
  /\ \A i \in 1 .. Len(batch) : batch[i] = batch[1] + i - 1

\* How the offsets of a poll relate to what was passed on.
OffsetInv ==
  /\ loop # "note" => offset = LastPassed
  /\ loop = "note" =>
       passed # <<>> /\ LastPassed = batch[1] /\ offset < batch[1] /\ current < batch[1]
  /\ Polling => current <= offset
  /\ loop = "dequeue" => current = offset
  /\ loop = "pass" /\ batch # <<>> => current = offset \/ offset < batch[1]

\* Up to where everything is settled.
SettledInv ==
  /\ start + 1 .. LastPassed \subseteq Settled
  /\ loop \in {"pass", "note"} /\ batch # <<>> => start + 1 .. batch[1] - 1 \subseteq Settled
  /\ start + 1 .. cursor[Me] - 1 \subseteq Settled \cup Elements(batch)

PassedInv == \A i, j \in 1 .. Len(passed) : i < j => passed[i] < passed[j]

ConsumerInv ==
  /\ ConsumerTypes
  /\ BatchInv
  /\ ~raced => OffsetInv /\ SettledInv /\ PassedInv

-----------------------------------------------------------------------------
(* Sequences as sets *)

LEMMA ElementsOfTail ==
  ASSUME NEW S, NEW s \in Seq(S), s # <<>>
  PROVE  /\ Elements(s) = {s[1]} \cup Elements(Tail(s))
         /\ Tail(s) \in Seq(S)
         /\ Len(Tail(s)) = Len(s) - 1
         /\ \A i \in 1 .. Len(Tail(s)) : Tail(s)[i] = s[i + 1]
         /\ Len(s) \in Nat \ {0}
         /\ s[1] \in S
  <1>1. /\ Tail(s) \in Seq(S)
        /\ Len(Tail(s)) = Len(s) - 1
        /\ \A i \in 1 .. Len(Tail(s)) : Tail(s)[i] = s[i + 1]
    BY HeadTailProperties
  <1>2. /\ Len(s) \in Nat \ {0}
        /\ DOMAIN s = 1 .. Len(s)
        /\ DOMAIN Tail(s) = 1 .. Len(Tail(s))
        /\ s[1] \in S
    BY <1>1
  <1>3. ASSUME NEW i \in 1 .. Len(s)
        PROVE  s[i] \in {s[1]} \cup Elements(Tail(s))
    <2>1. CASE i = 1
      BY <2>1
    <2>2. CASE i # 1
      <3>1. i - 1 \in 1 .. Len(Tail(s)) /\ Tail(s)[i - 1] = s[i]
        BY <1>1, <1>2, <2>2
      <3>2. QED
        BY <1>2, <3>1 DEF Elements
    <2>3. QED
      BY <2>1, <2>2
  <1>4. ASSUME NEW i \in 1 .. Len(Tail(s))
        PROVE  Tail(s)[i] \in Elements(s)
    <2>1. i + 1 \in 1 .. Len(s) /\ Tail(s)[i] = s[i + 1]
      BY <1>1, <1>2
    <2>2. QED
      BY <1>2, <2>1 DEF Elements
  <1>5. s[1] \in Elements(s)
    BY <1>2 DEF Elements
  <1>6. QED
    BY <1>1, <1>2, <1>3, <1>4, <1>5 DEF Elements

LEMMA ElementsOfAppend ==
  ASSUME NEW S, NEW s \in Seq(S), NEW e \in S
  PROVE  /\ Elements(Append(s, e)) = Elements(s) \cup {e}
         /\ Append(s, e) \in Seq(S)
         /\ Append(s, e) # <<>>
         /\ Len(s) \in Nat
         /\ Len(Append(s, e)) = Len(s) + 1
         /\ \A i \in 1 .. Len(s) : Append(s, e)[i] = s[i]
         /\ Append(s, e)[Len(s) + 1] = e
  <1>1. /\ Append(s, e) \in Seq(S)
        /\ Append(s, e) # <<>>
        /\ Len(s) \in Nat
        /\ Len(Append(s, e)) = Len(s) + 1
        /\ \A i \in 1 .. Len(s) : Append(s, e)[i] = s[i]
        /\ Append(s, e)[Len(s) + 1] = e
    BY AppendProperties
  <1>2. DOMAIN s = 1 .. Len(s) /\ DOMAIN Append(s, e) = 1 .. Len(s) + 1
    BY <1>1
  <1>3. QED
    BY <1>1, <1>2 DEF Elements

LEMMA NoElements == Elements(<<>>) = {}
  BY DEF Elements

LEMMA LastPassedTyped ==
  ASSUME ConsumerTypes
  PROVE  LastPassed \in Offsets
  <1>1. passed # <<>> => Len(passed) \in 1 .. Len(passed) /\ passed[Len(passed)] \in Offsets
    <2>1. passed \in Seq(Offsets)
      BY DEF ConsumerTypes, ConsumerTypeOK
    <2>2. passed # <<>> => Len(passed) \in 1 .. Len(passed)
      BY <2>1, EmptySeq
    <2>3. QED
      BY <2>1, <2>2, ElementOfSeq
  <1>2. QED
    BY <1>1 DEF LastPassed, ConsumerTypes, ConsumerTypeOK

-----------------------------------------------------------------------------
(* The steps *)

LEMMA ConsumerInvInit == ConsumerInit => ConsumerInv
  <1> SUFFICES ASSUME ConsumerInit PROVE ConsumerInv
    OBVIOUS
  <1>1. ConsumerTypes
    <2>1. 0 \in Offsets /\ 0 \in 0 .. ChanCap
      BY ConsumerAssumption DEF Offsets
    <2>2. stream \in Seq(Messages) /\ Len(stream) <= MaxPublished
      BY ConsumerAssumption, EmptySeq DEF ConsumerInit, StreamInit
    <2>3. batch \in Seq(Offsets) /\ passed \in Seq(Offsets)
      BY EmptySeq DEF ConsumerInit
    <2>4. cursor \in [Readers -> Offsets] /\ saved \in [Readers -> Offsets]
      BY <2>1 DEF ConsumerInit, StreamInit
    <2>5. cursor[Me] \in Offsets /\ saved[Me] \in Offsets
      BY <2>4, ConsumerAssumption
    <2>6. QED
      BY <2>1, <2>2, <2>3, <2>4, <2>5 DEF ConsumerInit, ConsumerTypes, ConsumerTypeOK
  <1>2. QED
    BY <1>1, ConsumerAssumption, NoElements
       DEF ConsumerInit, ConsumerInv, BatchInv, OffsetInv, SettledInv, PassedInv, StreamInit,
           LastPassed, Settled, Polling

\* Steps that change neither a batch nor what was passed on, and no offset.
LEMMA QuietSteps ==
  ASSUME ConsumerInv,
         \/ Start \/ Stop \/ Receive \/ Produce \/ SaveOffsets
         \/ LoopStops \/ PollBegins \/ PollEndsEmpty \/ PollEnds
  PROVE  ConsumerInv'
  <1>1. UNCHANGED <<offset, batch, start, passed, dropped, raced, cursor>>
    BY DEF Start, Stop, Receive, Produce, SaveOffsets, LoopStops, PollBegins, PollEndsEmpty,
           PollEnds, streamVars, goVars, passedVars, Publish, Save
  <1>2. ConsumerTypes'
    <2>1. CASE Produce
      <3>1. PICK m \in Messages : stream' = Append(stream, m)
        BY <2>1 DEF Produce, Publish
      <3>2. stream' \in Seq(Messages) /\ Len(stream') = Len(stream) + 1
        BY <3>1, AppendProperties DEF ConsumerInv, ConsumerTypes
      <3>3. Len(stream') <= MaxPublished
        BY <2>1, <3>2, LenProperties, ConsumerAssumption DEF Produce, ConsumerInv, ConsumerTypes
      <3>4. QED
        BY <1>1, <2>1, <3>2, <3>3
           DEF Produce, Publish, goVars, passedVars, ConsumerInv, ConsumerTypes, ConsumerTypeOK
    <2>2. CASE SaveOffsets
      BY <1>1, <2>2, ConsumerAssumption
         DEF SaveOffsets, Save, goVars, passedVars, ConsumerInv, ConsumerTypes, ConsumerTypeOK
    <2>3. CASE Start \/ Stop \/ Receive \/ LoopStops \/ PollBegins \/ PollEndsEmpty \/ PollEnds
      <3>1. UNCHANGED <<stream, saved, offset, batch, start, passed, dropped, raced, cursor>>
              /\ current' \in {current, offset}
        BY <1>1, <2>3 DEF Start, Stop, Receive, LoopStops, PollBegins, PollEndsEmpty, PollEnds,
                          streamVars
      <3>2. waiting' \in 0 .. ChanCap
        BY <2>3, ConsumerAssumption
           DEF Start, Stop, Receive, LoopStops, PollBegins, PollEndsEmpty, PollEnds,
               ConsumerInv, ConsumerTypes, ConsumerTypeOK
      <3>3. life' \in {"new", "active", "stopped"} /\ stopChan' \in BOOLEAN
        BY <2>3 DEF Start, Stop, Receive, LoopStops, PollBegins, PollEndsEmpty, PollEnds,
                    ConsumerInv, ConsumerTypes, ConsumerTypeOK
      <3>4. /\ loop' \in {"off", "select", "dequeue", "pass", "note", "exited", "panicked"}
            /\ loop' = "note" => batch # <<>>
        BY <2>3 DEF Start, Stop, Receive, LoopStops, PollBegins, PollEndsEmpty, PollEnds,
                    ConsumerInv, ConsumerTypes, ConsumerTypeOK
      <3>5. QED
        BY <3>1, <3>2, <3>3, <3>4 DEF ConsumerInv, ConsumerTypes, ConsumerTypeOK
    <2>4. QED
      BY <2>1, <2>2, <2>3
  <1>3. BatchInv'
    BY <1>1 DEF Start, Stop, Receive, Produce, SaveOffsets, LoopStops, PollBegins,
                PollEndsEmpty, PollEnds, goVars, ConsumerInv, BatchInv
  <1>4. ASSUME ~raced' PROVE OffsetInv' /\ SettledInv' /\ PassedInv'
    <2>1. OffsetInv /\ SettledInv /\ PassedInv /\ BatchInv /\ ConsumerTypes
      BY <1>1, <1>4 DEF ConsumerInv
    <2>2. OffsetInv'
      BY <1>1, <2>1 DEF Start, Stop, Receive, Produce, SaveOffsets, LoopStops, PollBegins,
         PollEndsEmpty, PollEnds, goVars, OffsetInv, BatchInv, LastPassed, Polling,
         ConsumerTypes, ConsumerTypeOK, Offsets
    <2>3. SettledInv'
      BY <1>1, <2>1 DEF Start, Stop, Receive, Produce, SaveOffsets, LoopStops, PollBegins,
         PollEndsEmpty, PollEnds, goVars, SettledInv, BatchInv, LastPassed, Settled
    <2>4. PassedInv'
      BY <1>1, <2>1 DEF PassedInv
    <2>5. QED
      BY <2>2, <2>3, <2>4
  <1>5. QED
    BY <1>2, <1>3, <1>4 DEF ConsumerInv

\* A new consumer takes its offset from the catalog and has settled nothing.
LEMMA NewConsumerStep ==
  ASSUME ConsumerInv, NEW o \in Offsets, NewConsumer(o), cursor' \in [Readers -> Offsets],
         cursor'[Me] = o, UNCHANGED <<stream, saved>>
  PROVE  ConsumerInv'
  <1>1. ConsumerTypes'
    <2>1. 0 \in Offsets /\ 0 \in 0 .. ChanCap /\ <<>> \in Seq(Offsets)
      BY ConsumerAssumption, EmptySeq DEF Offsets
    <2>2. cursor'[Me] \in Offsets
      BY ConsumerAssumption
    <2>3. QED
      BY <2>1, <2>2 DEF ConsumerInv, ConsumerTypes, ConsumerTypeOK, NewConsumer
  <1>2. BatchInv'
    BY DEF BatchInv, NewConsumer
  <1>3. OffsetInv'
    BY DEF OffsetInv, NewConsumer, LastPassed, Polling
  <1>4. SettledInv'
    BY DEF SettledInv, NewConsumer, LastPassed, Offsets
  <1>5. PassedInv'
    BY DEF PassedInv, NewConsumer
  <1>6. QED
    BY <1>1, <1>2, <1>3, <1>4, <1>5 DEF ConsumerInv

\* A seek, from which everything counts anew, unless it ran into a poll.
LEMMA SetOffsetStep ==
  ASSUME ConsumerInv, NEW o \in 0 .. Len(stream), SetOffset(o)
  PROVE  ConsumerInv'
  <1>1. o \in Offsets
    BY LenProperties, ConsumerAssumption
       DEF ConsumerInv, ConsumerTypes, ConsumerTypeOK, Offsets
  <1>2. cursor' \in [Readers -> Offsets] /\ cursor'[Me] = o
    BY <1>1, ConsumerAssumption DEF SetOffset, SetCursor, ConsumerInv, ConsumerTypes
  <1>3. ConsumerTypes'
    BY <1>1, <1>2 DEF SetOffset, SetCursor, ConsumerInv, ConsumerTypes, ConsumerTypeOK, Polling
  <1>4. BatchInv'
    BY DEF SetOffset, ConsumerInv, BatchInv
  <1>5. ASSUME ~raced' PROVE OffsetInv' /\ SettledInv' /\ PassedInv'
    <2>1. loop \notin {"dequeue", "pass", "note", "panicked"}
      BY <1>5 DEF SetOffset, Polling, Alive
    <2>2. QED
      BY <1>1, <1>2, <2>1 DEF SetOffset, OffsetInv, SettledInv, PassedInv, LastPassed, Polling,
                              Offsets
  <1>6. QED
    BY <1>3, <1>4, <1>5 DEF ConsumerInv

\* A commit takes the catalog back to where everything before is settled.
LEMMA CommitStep ==
  ASSUME ConsumerInv, CommitOffset
  PROVE  ConsumerInv'
  <1>1. cursor' \in [Readers -> Offsets] /\ cursor'[Me] = offset
    BY ConsumerAssumption
       DEF CommitOffset, SetCursor, ConsumerInv, ConsumerTypes, ConsumerTypeOK
  <1>2. UNCHANGED <<stream, saved, goVars, passedVars>>
    BY DEF CommitOffset, SetCursor
  <1>3. ConsumerTypes' /\ BatchInv'
    BY <1>1, <1>2 DEF goVars, passedVars, ConsumerInv, ConsumerTypes, ConsumerTypeOK, BatchInv
  <1>4. ASSUME ~raced' PROVE OffsetInv' /\ SettledInv' /\ PassedInv'
    <2>1. OffsetInv /\ SettledInv /\ PassedInv /\ ConsumerTypes
      BY <1>2, <1>4 DEF ConsumerInv, passedVars
    <2>2. OffsetInv' /\ PassedInv'
      BY <1>2, <2>1 DEF goVars, passedVars, OffsetInv, PassedInv, LastPassed, Polling
    <2>3. offset <= LastPassed /\ LastPassed \in Int /\ offset \in Int
      <3>1. offset \in Int /\ LastPassed \in Int
        BY <2>1, LastPassedTyped DEF ConsumerTypes, ConsumerTypeOK, Offsets
      <3>2. QED
        BY <2>1, <3>1 DEF OffsetInv
    <2>4. start + 1 .. offset - 1 \subseteq start + 1 .. LastPassed
      BY <2>1, <2>3 DEF ConsumerTypes, ConsumerTypeOK, Offsets
    <2>5. SettledInv'
      BY <1>1, <1>2, <2>1, <2>4 DEF goVars, passedVars, SettledInv, LastPassed, Settled
    <2>6. QED
      BY <2>2, <2>5
  <1>5. QED
    BY <1>3, <1>4 DEF ConsumerInv

\* The batch starts at the catalog's offset, before which everything is settled.
LEMMA PollDequeuesStep ==
  ASSUME ConsumerInv, PollDequeues
  PROVE  ConsumerInv'
  <1> DEFINE k == cursor[Me]
  <1>1. PICK n \in 1 .. Len(stream) :
          k + n <= Len(stream) /\ cursor' = [cursor EXCEPT ![Me] = k + n]
    BY DEF PollDequeues, Deliver
  <1>2. k \in Offsets /\ n \in Nat \ {0} /\ k + n \in Offsets /\ cursor'[Me] = k + n
    BY <1>1, ConsumerAssumption, LenProperties
       DEF ConsumerInv, ConsumerTypes, ConsumerTypeOK, Offsets
  <1>3. /\ UNCHANGED <<stream, saved, offset, life, stopChan, waiting, current, passedVars>>
        /\ loop = "dequeue"
        /\ loop' = "pass"
        /\ batch = <<>>
    BY DEF PollDequeues, Deliver, ConsumerInv, BatchInv
  <1>4. batch' = [i \in 1 .. n |-> k + i - 1]
    <2>1. (k + n) - k = n
      BY <1>2 DEF Offsets
    <2>2. QED
      BY <1>2, <2>1 DEF PollDequeues
  <1>5. batch' \in Seq(Offsets) /\ Len(batch') = n /\ batch' # <<>> /\ batch'[1] = k
    <2>1. \A i \in 1 .. n : k + i - 1 \in Offsets
      BY <1>2, ConsumerAssumption DEF Offsets
    <2>2. batch' \in Seq(Offsets) /\ Len(batch') = n
      BY <1>2, <1>4, <2>1
    <2>3. batch'[1] = k
      BY <1>2, <1>4 DEF Offsets
    <2>4. batch' # <<>>
      BY <1>2, <2>2, EmptySeq
    <2>5. QED
      BY <2>2, <2>3, <2>4
  <1>6. ConsumerTypes'
    BY <1>1, <1>2, <1>3, <1>5 DEF passedVars, ConsumerInv, ConsumerTypes, ConsumerTypeOK
  <1>7. BatchInv'
    <2>1. \A i \in 1 .. Len(batch') : batch'[i] = batch'[1] + i - 1
      BY <1>2, <1>4, <1>5 DEF Offsets
    <2>2. QED
      BY <1>3, <1>5, <2>1 DEF ConsumerInv, BatchInv
  <1>8. ASSUME ~raced' PROVE OffsetInv' /\ SettledInv' /\ PassedInv'
    <2>1. OffsetInv /\ SettledInv /\ PassedInv /\ ConsumerTypes
      BY <1>3, <1>8 DEF ConsumerInv, passedVars
    <2>2. OffsetInv' /\ PassedInv'
      BY <1>3, <2>1 DEF passedVars, OffsetInv, PassedInv, LastPassed, Polling
    <2>3. start + 1 .. k - 1 \subseteq Settled
      BY <1>3, <2>1, NoElements DEF SettledInv
    <2>4. ASSUME NEW x \in start + 1 .. k + n - 1, x \notin start + 1 .. k - 1
          PROVE  x \in Elements(batch')
      <3>1. x - k + 1 \in 1 .. n /\ batch'[x - k + 1] = x
        <4>1. k \in Int /\ start \in Int /\ n \in Int /\ x \in Int
          BY <1>2, <2>1 DEF ConsumerTypes, ConsumerTypeOK, Offsets
        <4>2. x - k + 1 \in 1 .. n
          BY <2>4, <4>1
        <4>3. QED
          BY <1>4, <4>1, <4>2
      <3>2. DOMAIN batch' = 1 .. n
        BY <1>4
      <3>3. QED
        BY <3>1, <3>2 DEF Elements
    <2>5. SettledInv'
      <3>1. Settled' = Settled /\ LastPassed' = LastPassed /\ start' = start
        BY <1>3 DEF passedVars, Settled, LastPassed
      <3>2. start + 1 .. batch'[1] - 1 \subseteq Settled'
        BY <1>5, <2>3, <3>1
      <3>3. start + 1 .. cursor'[Me] - 1 \subseteq Settled' \cup Elements(batch)'
        <4>1. start + 1 .. cursor'[Me] - 1 \subseteq Settled \cup Elements(batch')
          <5> SUFFICES ASSUME NEW x \in start + 1 .. cursor'[Me] - 1
                       PROVE  x \in Settled \cup Elements(batch')
            OBVIOUS
          <5>1. x \in start + 1 .. k + n - 1
            <6>1. start \in Int /\ k \in Int /\ n \in Int /\ cursor'[Me] = k + n
              BY <1>2, <2>1 DEF ConsumerTypes, ConsumerTypeOK, Offsets
            <6>2. QED
              BY <6>1
          <5>2. CASE x \in start + 1 .. k - 1
            BY <2>3, <5>2
          <5>3. CASE x \notin start + 1 .. k - 1
            BY <2>4, <5>1, <5>3
          <5>4. QED
            BY <5>2, <5>3
        <4>2. Elements(batch)' = Elements(batch')
          BY DEF Elements
        <4>3. QED
          BY <3>1, <4>1, <4>2
      <3>4. QED
        BY <2>1, <3>1, <3>2, <3>3 DEF SettledInv
    <2>6. QED
      BY <2>2, <2>5
  <1>9. QED
    BY <1>6, <1>7, <1>8 DEF ConsumerInv

\* What is left of a batch behind its first message.
LEMMA BatchTail ==
  ASSUME ConsumerTypes, BatchInv, batch # <<>>
  PROVE  /\ Tail(batch) \in Seq(Offsets)
         /\ Elements(batch) = {batch[1]} \cup Elements(Tail(batch))
         /\ \A i \in 1 .. Len(Tail(batch)) : Tail(batch)[i] = batch[1] + i
         /\ batch[1] \in Offsets
         /\ Tail(batch) # <<>> => Tail(batch)[1] = batch[1] + 1
  <1>1. batch \in Seq(Offsets)
    BY DEF ConsumerTypes, ConsumerTypeOK
  <1>2. /\ Tail(batch) \in Seq(Offsets)
        /\ Elements(batch) = {batch[1]} \cup Elements(Tail(batch))
        /\ Len(Tail(batch)) = Len(batch) - 1
        /\ \A i \in 1 .. Len(Tail(batch)) : Tail(batch)[i] = batch[i + 1]
        /\ Len(batch) \in Nat \ {0}
        /\ batch[1] \in Offsets
    BY <1>1, ElementsOfTail
  <1>3. ASSUME NEW i \in 1 .. Len(Tail(batch)) PROVE Tail(batch)[i] = batch[1] + i
    <2>1. i + 1 \in 1 .. Len(batch) /\ batch[i + 1] = batch[1] + (i + 1) - 1
      BY <1>2 DEF BatchInv
    <2>2. QED
      BY <1>2, <2>1 DEF Offsets
  <1>4. Tail(batch) # <<>> => 1 \in 1 .. Len(Tail(batch))
    BY <1>2
  <1>5. QED
    BY <1>2, <1>3, <1>4

\* A skipped message lies at or before the last one passed on.
LEMMA SkipStep ==
  ASSUME ConsumerInv, Skip
  PROVE  ConsumerInv'
  <1>1. /\ Tail(batch) \in Seq(Offsets)
        /\ Elements(batch) = {batch[1]} \cup Elements(Tail(batch))
        /\ \A i \in 1 .. Len(Tail(batch)) : Tail(batch)[i] = batch[1] + i
        /\ batch[1] \in Offsets
        /\ Tail(batch) # <<>> => Tail(batch)[1] = batch[1] + 1
    BY BatchTail DEF ConsumerInv, Skip
  <1>2. /\ UNCHANGED <<stream, cursor, saved, offset, life, stopChan, waiting, loop, current, passedVars>>
        /\ loop = "pass"
        /\ batch # <<>>
        /\ batch[1] <= current
        /\ batch' = Tail(batch)
    BY DEF Skip, Processed, streamVars
  <1>3. ConsumerTypes'
    BY <1>1, <1>2 DEF passedVars, ConsumerInv, ConsumerTypes, ConsumerTypeOK
  <1>4. BatchInv'
    <2>1. \A i \in 1 .. Len(batch') : batch'[i] = batch'[1] + i - 1
      <3> TAKE i \in 1 .. Len(batch')
      <3>1. batch'[i] = batch[1] + i /\ batch'[1] = batch[1] + 1
        BY <1>1, <1>2, LenProperties
      <3>2. QED
        BY <1>1, <3>1 DEF Offsets
    <2>2. QED
      BY <1>2, <2>1 DEF ConsumerInv, BatchInv
  <1>5. ASSUME ~raced' PROVE OffsetInv' /\ SettledInv' /\ PassedInv'
    <2>1. OffsetInv /\ SettledInv /\ PassedInv /\ ConsumerTypes
      BY <1>2, <1>5 DEF ConsumerInv, passedVars
    <2>2. current = offset /\ offset = LastPassed
      BY <1>1, <1>2, <2>1 DEF OffsetInv, Polling, ConsumerTypes, ConsumerTypeOK, Offsets
    <2>3. OffsetInv' /\ PassedInv'
      BY <1>2, <2>1, <2>2 DEF passedVars, OffsetInv, PassedInv, LastPassed, Polling
    <2>4. batch[1] \in Settled \/ batch[1] <= start
      BY <1>1, <1>2, <2>1, <2>2 DEF SettledInv, ConsumerTypes, ConsumerTypeOK, Offsets
    <2>5. start + 1 .. batch[1] \subseteq Settled
      BY <1>1, <1>2, <2>1, <2>4 DEF SettledInv, ConsumerTypes, ConsumerTypeOK, Offsets
    <2>6. start + 1 .. cursor[Me] - 1 \subseteq Settled \cup Elements(Tail(batch))
      BY <1>1, <2>1, <2>4 DEF SettledInv, ConsumerTypes, ConsumerTypeOK, Offsets
    <2>7. SettledInv'
      <3>1. batch' # <<>> => batch'[1] - 1 = batch[1]
        BY <1>1, <1>2 DEF Offsets
      <3>2. QED
        BY <1>2, <2>1, <2>5, <2>6, <3>1 DEF passedVars, SettledInv, LastPassed, Settled
    <2>8. QED
      BY <2>3, <2>7
  <1>6. QED
    BY <1>3, <1>4, <1>5 DEF ConsumerInv

\* A message that is sent lies behind all those sent before, and whatever lies
\* between is settled; a full channel settles the rest of the batch.
LEMMA SendStep ==
  ASSUME ConsumerInv, Send
  PROVE  ConsumerInv'
  <1>1. batch \in Seq(Offsets) /\ passed \in Seq(Offsets) /\ batch[1] \in Offsets
          /\ batch # <<>> /\ loop = "pass" /\ current < batch[1]
    BY BatchTail DEF Send, Processed, ConsumerInv, ConsumerTypes, ConsumerTypeOK, Offsets
  <1>2. UNCHANGED <<stream, cursor, saved, offset, life, stopChan, current, start, raced>>
    BY DEF Send, streamVars
  <1>3. CASE /\ life = "stopped"
             /\ loop' = "panicked"
             /\ UNCHANGED <<waiting, batch, passed, dropped>>
    <2>1. ConsumerTypes' /\ BatchInv'
      BY <1>1, <1>2, <1>3 DEF ConsumerInv, ConsumerTypes, ConsumerTypeOK, BatchInv
    <2>2. ~raced' => OffsetInv' /\ SettledInv' /\ PassedInv'
      BY <1>1, <1>2, <1>3 DEF ConsumerInv, OffsetInv, SettledInv, PassedInv, LastPassed, Polling,
                              Settled
    <2>3. QED
      BY <2>1, <2>2 DEF ConsumerInv
  <1>4. CASE /\ HasRoom
             /\ waiting' = waiting + 1
             /\ passed' = Append(passed, batch[1])
             /\ loop' = "note"
             /\ UNCHANGED <<batch, dropped>>
    <2>1. /\ Elements(passed') = Elements(passed) \cup {batch[1]}
          /\ passed' \in Seq(Offsets)
          /\ passed' # <<>>
          /\ Len(passed) \in Nat
          /\ Len(passed') = Len(passed) + 1
          /\ \A i \in 1 .. Len(passed) : passed'[i] = passed[i]
          /\ passed'[Len(passed) + 1] = batch[1]
      BY <1>1, <1>4, ElementsOfAppend
    <2>2. waiting' \in 0 .. ChanCap
      BY <1>4, ConsumerAssumption DEF HasRoom, ConsumerInv, ConsumerTypes, ConsumerTypeOK
    <2>3. ConsumerTypes' /\ BatchInv'
      BY <1>1, <1>2, <1>4, <2>1, <2>2 DEF ConsumerInv, ConsumerTypes, ConsumerTypeOK, BatchInv
    <2>4. ASSUME ~raced' PROVE OffsetInv' /\ SettledInv' /\ PassedInv'
      <3>1. OffsetInv /\ SettledInv /\ PassedInv /\ ConsumerTypes
        BY <1>2, <2>4 DEF ConsumerInv
      <3>2. LastPassed < batch[1] /\ offset < batch[1] /\ current <= offset
        BY <1>1, <3>1 DEF OffsetInv, Polling, ConsumerTypes, ConsumerTypeOK, Offsets
      <3>3. LastPassed' = batch[1]
        BY <2>1 DEF LastPassed
      <3>4. OffsetInv'
        BY <1>1, <1>2, <1>4, <2>1, <3>2, <3>3 DEF OffsetInv, Polling
      <3>5. PassedInv'
        <4> SUFFICES ASSUME NEW i \in 1 .. Len(passed'), NEW j \in 1 .. Len(passed'), i < j
                     PROVE  passed'[i] < passed'[j]
          BY DEF PassedInv
        <4>1. CASE j \in 1 .. Len(passed)
          BY <2>1, <3>1, <4>1 DEF PassedInv
        <4>2. CASE j = Len(passed) + 1
          <5>1. i \in 1 .. Len(passed) /\ passed # <<>>
            BY <2>1, <4>2
          <5>2. passed[i] <= passed[Len(passed)]
            <6>1. CASE i = Len(passed)
              <7>1. passed[i] \in Offsets
                BY <1>1, <5>1, ElementOfSeq
              <7>2. QED
                BY <6>1, <7>1 DEF Offsets
            <6>2. CASE i < Len(passed)
              <7>1. passed[i] < passed[Len(passed)]
                BY <2>1, <3>1, <5>1, <6>2 DEF PassedInv
              <7>2. passed[i] \in Offsets /\ passed[Len(passed)] \in Offsets
                BY <1>1, <3>1, <5>1, ElementOfSeq, LastPassedTyped DEF LastPassed
              <7>3. QED
                BY <7>1, <7>2 DEF Offsets
            <6>3. QED
              BY <2>1, <5>1, <6>1, <6>2
          <5>3. passed[Len(passed)] < batch[1]
            BY <3>2, <5>1 DEF LastPassed
          <5>4. passed[i] \in Offsets /\ passed[Len(passed)] \in Offsets
            BY <1>1, <3>1, <5>1, ElementOfSeq, LastPassedTyped DEF LastPassed
          <5>5. QED
            BY <1>1, <2>1, <4>2, <5>1, <5>2, <5>3, <5>4 DEF Offsets
        <4>3. QED
          BY <2>1, <4>1, <4>2
      <3>6. Settled' = Settled \cup {batch[1]}
        BY <1>4, <2>1 DEF Settled
      <3>7. start + 1 .. batch[1] \subseteq Settled'
        BY <1>1, <3>1, <3>6 DEF SettledInv, ConsumerTypes, ConsumerTypeOK, Offsets
      <3>8. SettledInv'
        BY <1>1, <1>2, <1>4, <3>1, <3>3, <3>6, <3>7 DEF SettledInv
      <3>9. QED
        BY <3>4, <3>5, <3>8
    <2>5. QED
      BY <2>3, <2>4 DEF ConsumerInv
  <1>5. CASE /\ dropped' = dropped \cup {batch[i] : i \in DOMAIN batch}
             /\ batch' = <<>>
             /\ loop' = "select"
             /\ UNCHANGED <<waiting, passed>>
    <2>1. dropped' = dropped \cup Elements(batch) /\ Elements(batch) \subseteq Offsets
      BY <1>1, <1>5, ElementOfSeq, LenProperties DEF Elements
    <2>2. ConsumerTypes' /\ BatchInv'
      BY <1>1, <1>2, <1>5, <2>1 DEF ConsumerInv, ConsumerTypes, ConsumerTypeOK, BatchInv
    <2>3. ASSUME ~raced' PROVE OffsetInv' /\ SettledInv' /\ PassedInv'
      <3>1. OffsetInv /\ SettledInv /\ PassedInv /\ ConsumerTypes
        BY <1>2, <2>3 DEF ConsumerInv
      <3>2. OffsetInv' /\ PassedInv'
        BY <1>1, <1>2, <1>5, <3>1 DEF OffsetInv, PassedInv, LastPassed, Polling
      <3>3. Settled' = Settled \cup Elements(batch)
        BY <1>5, <2>1 DEF Settled
      <3>4. SettledInv'
        BY <1>2, <1>5, <3>1, <3>3 DEF SettledInv, LastPassed
      <3>5. QED
        BY <3>2, <3>4
    <2>4. QED
      BY <2>2, <2>3 DEF ConsumerInv
  <1>6. QED
    BY <1>3, <1>4, <1>5 DEF Send

\* The offset catches up with the message that was sent.
LEMMA NoteStep ==
  ASSUME ConsumerInv, Note
  PROVE  ConsumerInv'
  <1>1. /\ UNCHANGED <<stream, cursor, saved, life, stopChan, waiting, current, passedVars>>
        /\ loop = "note"
        /\ loop' = "pass"
        /\ offset' = batch[1]
        /\ batch' = Tail(batch)
        /\ batch # <<>>
    BY DEF Note, streamVars, ConsumerInv, BatchInv
  <1>2. /\ Tail(batch) \in Seq(Offsets)
        /\ Elements(batch) = {batch[1]} \cup Elements(Tail(batch))
        /\ \A i \in 1 .. Len(Tail(batch)) : Tail(batch)[i] = batch[1] + i
        /\ batch[1] \in Offsets
        /\ Tail(batch) # <<>> => Tail(batch)[1] = batch[1] + 1
    BY <1>1, BatchTail DEF ConsumerInv
  <1>3. ConsumerTypes'
    BY <1>1, <1>2 DEF passedVars, ConsumerInv, ConsumerTypes, ConsumerTypeOK
  <1>4. BatchInv'
    <2>1. \A i \in 1 .. Len(batch') : batch'[i] = batch'[1] + i - 1
      <3> TAKE i \in 1 .. Len(batch')
      <3>1. batch'[i] = batch[1] + i /\ batch'[1] = batch[1] + 1
        BY <1>1, <1>2, LenProperties
      <3>2. QED
        BY <1>2, <3>1 DEF Offsets
    <2>2. QED
      BY <1>1, <2>1 DEF ConsumerInv, BatchInv
  <1>5. ASSUME ~raced' PROVE OffsetInv' /\ SettledInv' /\ PassedInv'
    <2>1. OffsetInv /\ SettledInv /\ PassedInv /\ ConsumerTypes
      BY <1>1, <1>5 DEF ConsumerInv, passedVars
    <2>2. LastPassed = batch[1] /\ current < batch[1]
      BY <1>1, <2>1 DEF OffsetInv
    <2>3. OffsetInv' /\ PassedInv'
      BY <1>1, <1>2, <2>1, <2>2 DEF passedVars, OffsetInv, PassedInv, LastPassed, Polling,
                                    ConsumerTypes, ConsumerTypeOK, Offsets
    <2>4. start + 1 .. batch[1] \subseteq Settled
      BY <2>1, <2>2 DEF SettledInv
    <2>5. batch[1] \in Settled \/ batch[1] <= start
      <3>1. start \in Int /\ batch[1] \in Int
        BY <1>2, <2>1 DEF ConsumerTypes, ConsumerTypeOK, Offsets
      <3>2. batch[1] \in start + 1 .. batch[1] \/ batch[1] <= start
        BY <3>1
      <3>3. QED
        BY <2>4, <3>2
    <2>6. start + 1 .. cursor[Me] - 1 \subseteq Settled \cup Elements(Tail(batch))
      BY <1>2, <2>1, <2>5 DEF SettledInv, ConsumerTypes, ConsumerTypeOK, Offsets
    <2>7. SettledInv'
      <3>1. batch' # <<>> => batch'[1] - 1 = batch[1]
        BY <1>1, <1>2 DEF Offsets
      <3>2. QED
        BY <1>1, <2>1, <2>4, <2>6, <3>1 DEF passedVars, SettledInv, LastPassed, Settled
    <2>8. QED
      BY <2>3, <2>7
  <1>6. QED
    BY <1>3, <1>4, <1>5 DEF ConsumerInv

-----------------------------------------------------------------------------
\* ConsumerInv holds in every reachable state.
THEOREM ConsumerInvariant == ConsumerSpec => []ConsumerInv
  <1>1. ConsumerInit => ConsumerInv
    BY ConsumerInvInit
  <1>2. ConsumerInv /\ [ConsumerNext]_consumerVars => ConsumerInv'
    <2> SUFFICES ASSUME ConsumerInv, [ConsumerNext]_consumerVars PROVE ConsumerInv'
      OBVIOUS
    <2>1. CASE \/ Start \/ Stop \/ Receive \/ Produce \/ SaveOffsets
               \/ LoopStops \/ PollBegins \/ PollEndsEmpty \/ PollEnds
      BY <2>1, QuietSteps
    <2>2. CASE Renew
      <3>1. cursor[Me] \in Offsets /\ UNCHANGED <<stream, saved, cursor>>
        BY <2>2, ConsumerAssumption DEF Renew, streamVars, ConsumerInv, ConsumerTypes
      <3>2. QED
        BY <2>2, <3>1, NewConsumerStep DEF Renew, ConsumerInv, ConsumerTypes
    <2>3. CASE ProcessRestarts
      <3>1. saved[Me] \in Offsets /\ cursor' = saved /\ UNCHANGED <<stream, saved>>
        BY <2>3, ConsumerAssumption DEF ProcessRestarts, Restart, ConsumerInv, ConsumerTypes
      <3>2. QED
        BY <2>3, <3>1, NewConsumerStep DEF ProcessRestarts, ConsumerInv, ConsumerTypes
    <2>4. CASE CommitOffset
      BY <2>4, CommitStep
    <2>5. CASE \E o \in 0 .. Len(stream) : SetOffset(o)
      BY <2>5, SetOffsetStep
    <2>6. CASE PollDequeues
      BY <2>6, PollDequeuesStep
    <2>7. CASE Skip
      BY <2>7, SkipStep
    <2>8. CASE Send
      BY <2>8, SendStep
    <2>9. CASE Note
      BY <2>9, NoteStep
    <2>10. CASE UNCHANGED consumerVars
      BY <2>10 DEF consumerVars, streamVars, goVars, passedVars, ConsumerInv, ConsumerTypes,
                   ConsumerTypeOK, BatchInv, OffsetInv, SettledInv, PassedInv, LastPassed,
                   Settled, Polling
    <2>11. QED
      BY <2>1, <2>2, <2>3, <2>4, <2>5, <2>6, <2>7, <2>8, <2>9, <2>10 DEF ConsumerNext, Loop
  <1>3. QED
    BY <1>1, <1>2, PTL DEF ConsumerSpec

\* The consumer's variables keep to their types; its channel never holds more
\* than its capacity.
THEOREM ConsumerTypeCorrect == ConsumerSpec => []ConsumerTypeOK
  <1>1. ConsumerInv => ConsumerTypeOK
    BY DEF ConsumerInv, ConsumerTypes
  <1>2. QED
    BY <1>1, ConsumerInvariant, PTL

\* Commits, at whatever moment, and full channels make no message appear
\* twice, or before an earlier one (consumer.go:122-132, 222-225).
THEOREM NoneTwice == ConsumerSpec => []NeverTwice
  <1>1. ConsumerInv => NeverTwice
    <2> SUFFICES ASSUME ConsumerInv, ~raced, NEW i \in DOMAIN passed, NEW j \in DOMAIN passed, i < j
                 PROVE  passed[i] < passed[j]
      BY DEF NeverTwice
    <2>1. DOMAIN passed = 1 .. Len(passed)
      BY LenProperties DEF ConsumerInv, ConsumerTypes, ConsumerTypeOK
    <2>2. QED
      BY <2>1 DEF ConsumerInv, PassedInv
  <1>2. QED
    BY <1>1, ConsumerInvariant, PTL

\* Every message the catalog's offset has moved past was passed on, is about
\* to be, or was dropped for a full channel (consumer.go:214-240).
THEOREM NoneForgotten == ConsumerSpec => []PassedOrDropped
  <1>1. ConsumerInv => PassedOrDropped
    BY DEF ConsumerInv, SettledInv, Settled, PassedOrDropped
  <1>2. QED
    BY <1>1, ConsumerInvariant, PTL

\* A commit writes the offset of the last message that was passed on
\* (consumer.go:122-132, 229-234).
THEOREM CommitsLastPassed == ConsumerSpec => []OffsetIsLastPassed
  <1>1. ConsumerInv => OffsetIsLastPassed
    BY DEF ConsumerInv, OffsetInv, LastPassed, OffsetIsLastPassed
  <1>2. QED
    BY <1>1, ConsumerInvariant, PTL

-----------------------------------------------------------------------------
(* The protocol of the stream *)

\* Every offset the consumer may still write to the catalog is one the topic
\* has: it lies in the stream, or was delivered from it.
PositionInv ==
  /\ offset <= Len(stream) /\ start <= Len(stream)
  /\ \A r \in Readers : cursor[r] <= Len(stream) /\ saved[r] <= Len(stream)
  /\ \A i \in 1 .. Len(batch) : batch[i] < Len(stream)

\* Steps that leave the catalog, the consumer's offset and the stream alone, and
\* at most take the batch away.
LEMMA PositionKept ==
  ASSUME PositionInv, UNCHANGED <<stream, cursor, saved, offset, start>>,
         batch' \in {batch, <<>>}
  PROVE  PositionInv'
  BY DEF PositionInv

LEMMA PositionInvInit == ConsumerInit => PositionInv
  BY DEF ConsumerInit, StreamInit, PositionInv

\* A poll's messages are those behind the cursor, which the topic has.
LEMMA DequeuedArePositions ==
  ASSUME ConsumerTypes, PositionInv, PollDequeues
  PROVE  PositionInv'
  <1>1. PICK n \in 1 .. Len(stream) :
          /\ cursor[Me] + n <= Len(stream)
          /\ cursor' = [cursor EXCEPT ![Me] = cursor[Me] + n]
          /\ UNCHANGED <<stream, saved>>
    BY DEF PollDequeues, Deliver
  <1>2. /\ Me \in Readers
        /\ Len(stream) \in Nat
        /\ cursor \in [Readers -> Nat]
    BY ConsumerAssumption DEF ConsumerTypes, Offsets
  <1>3. cursor'[Me] - cursor[Me] = n /\ n \in Nat /\ cursor[Me] \in Nat
    BY <1>1, <1>2
  <1>4. batch' = [i \in 1 .. n |-> cursor[Me] + i - 1]
    BY <1>3 DEF PollDequeues
  <1>5. \A i \in 1 .. Len(batch') : batch'[i] < Len(stream)
    BY <1>1, <1>2, <1>3, <1>4
  <1>6. \A r \in Readers : cursor'[r] <= Len(stream)
    BY <1>1, <1>2 DEF PositionInv
  <1>7. QED
    BY <1>1, <1>5, <1>6 DEF PositionInv, PollDequeues, passedVars

\* A batch without its first message.
LEMMA TailOfBatch ==
  ASSUME ConsumerTypes, BatchInv, PositionInv, batch # <<>>
  PROVE  /\ batch[1] < Len(stream)
         /\ \A i \in 1 .. Len(Tail(batch)) : Tail(batch)[i] < Len(stream)
  <1>1. batch \in Seq(Offsets)
    BY DEF ConsumerTypes, ConsumerTypeOK
  <1>2. /\ Len(Tail(batch)) = Len(batch) - 1
        /\ \A i \in 1 .. Len(Tail(batch)) : Tail(batch)[i] = batch[i + 1]
        /\ Len(batch) \in Nat \ {0}
    BY <1>1, ElementsOfTail
  <1>3. QED
    BY <1>2 DEF PositionInv

LEMMA PositionInvStep ==
  ASSUME ConsumerInv, PositionInv, [ConsumerNext]_consumerVars
  PROVE  PositionInv'
  <1> USE DEF passedVars, goVars, streamVars
  <1>1. /\ ConsumerTypes /\ BatchInv
        /\ Me \in Readers
        /\ stream \in Seq(Messages)
        /\ Len(stream) \in Nat
        /\ cursor \in [Readers -> Offsets]
        /\ saved \in [Readers -> Offsets]
    BY ConsumerAssumption DEF ConsumerInv, ConsumerTypes
  <1>2. CASE \/ Start \/ Stop \/ Receive \/ LoopStops \/ PollBegins \/ PollEndsEmpty
             \/ PollEnds \/ Send
    <2>1. UNCHANGED <<stream, cursor, saved, offset, start>> /\ batch' \in {batch, <<>>}
      BY <1>2 DEF Start, Stop, Receive, LoopStops, PollBegins, PollEndsEmpty, PollEnds, Send
    <2>2. QED
      BY <2>1, PositionKept
  <1>3. CASE Produce
    <2>1. PICK m \in Messages : stream' = Append(stream, m)
      BY <1>3 DEF Produce, Publish
    <2>2. UNCHANGED <<cursor, saved, offset, start, batch>>
      BY <1>3 DEF Produce, Publish
    <2>3. Len(stream') = Len(stream) + 1
      BY <1>1, <2>1
    <2>4. offset \in Offsets /\ start \in Offsets /\ batch \in Seq(Offsets)
      BY <1>1 DEF ConsumerTypes, ConsumerTypeOK
    <2>5. \A i \in 1 .. Len(batch) : batch[i] \in Offsets
      BY <2>4, ElementOfSeq
    <2>6. QED
      BY <1>1, <2>2, <2>3, <2>4, <2>5 DEF PositionInv, Offsets
  <1>4. CASE SaveOffsets
    BY <1>4 DEF SaveOffsets, Save, PositionInv
  <1>5. CASE Renew \/ ProcessRestarts
    BY <1>1, <1>5 DEF Renew, ProcessRestarts, Restart, NewConsumer, PositionInv
  <1>6. CASE CommitOffset \/ \E o \in 0 .. Len(stream) : SetOffset(o)
    <2>1. PICK o : /\ o <= Len(stream)
                   /\ SetCursor(o)
                   /\ offset' \in {offset, o}
                   /\ start' \in {start, o}
                   /\ batch' = batch
      BY <1>6 DEF CommitOffset, SetOffset, PositionInv
    <2>2. cursor' = [cursor EXCEPT ![Me] = o] /\ UNCHANGED <<stream, saved>>
      BY <2>1 DEF SetCursor
    <2>3. QED
      BY <1>1, <2>1, <2>2 DEF PositionInv
  <1>7. CASE PollDequeues
    BY <1>1, <1>7, DequeuedArePositions
  <1>8. CASE Skip
    <2>1. batch # <<>> /\ batch' = Tail(batch) /\ UNCHANGED <<stream, cursor, saved, offset, start>>
      BY <1>8 DEF Skip
    <2>2. QED
      BY <1>1, <2>1, TailOfBatch DEF PositionInv
  <1>9. CASE Note
    <2>1. batch # <<>> /\ batch' = Tail(batch) /\ UNCHANGED <<stream, cursor, saved, start>>
          /\ offset' = batch[1]
      BY <1>1, <1>9 DEF Note, BatchInv
    <2>2. batch[1] <= Len(stream)
      BY <1>1, <2>1, TailOfBatch, BatchTail DEF Offsets
    <2>3. QED
      BY <1>1, <2>1, <2>2, TailOfBatch DEF PositionInv
  <1>10. CASE UNCHANGED consumerVars
    BY <1>10 DEF consumerVars, PositionInv
  <1>11. QED
    BY <1>2, <1>3, <1>4, <1>5, <1>6, <1>7, <1>8, <1>9, <1>10 DEF ConsumerNext, Loop

\* Every step of the consumer is one of the stream's, or none.
LEMMA ConsumerImplements ==
  ASSUME ConsumerInv, PositionInv, [ConsumerNext]_consumerVars
  PROVE  [StreamNext]_streamVars
  <1>1. Me \in Readers
    BY ConsumerAssumption
  <1>2. CASE \/ Start \/ Stop \/ Renew \/ Receive \/ LoopStops \/ PollBegins \/ PollEndsEmpty
             \/ Skip \/ Send \/ Note \/ PollEnds
    BY <1>2 DEF Start, Stop, Renew, Receive, LoopStops, PollBegins, PollEndsEmpty, Skip, Send,
                Note, PollEnds
  <1>3. CASE Produce
    BY <1>3 DEF Produce, StreamNext
  <1>4. CASE SaveOffsets
    BY <1>4 DEF SaveOffsets, StreamNext
  <1>5. CASE ProcessRestarts
    BY <1>5 DEF ProcessRestarts, StreamNext
  <1>6. CASE CommitOffset
    <2>1. offset \in 0 .. Len(stream)
      BY DEF ConsumerInv, ConsumerTypes, ConsumerTypeOK, Offsets, PositionInv
    <2>2. Seek(Me)
      BY <1>6, <2>1 DEF CommitOffset, SetCursor, Seek
    <2>3. QED
      BY <1>1, <2>2 DEF StreamNext
  <1>7. CASE \E o \in 0 .. Len(stream) : SetOffset(o)
    BY <1>1, <1>7 DEF SetOffset, SetCursor, Seek, StreamNext
  <1>8. CASE PollDequeues
    BY <1>1, <1>8 DEF PollDequeues, StreamNext
  <1>9. CASE UNCHANGED consumerVars
    BY <1>9 DEF consumerVars
  <1>10. QED
    BY <1>2, <1>3, <1>4, <1>5, <1>6, <1>7, <1>8, <1>9 DEF ConsumerNext, Loop

\* No commit, seek, poll or restart, in whatever order, writes an offset that
\* the topic does not have.
THEOREM PositionsExist == ConsumerSpec => []PositionInv
  BY ConsumerInvariant, PositionInvInit, PositionInvStep, PTL DEF ConsumerSpec

\* The polling consumer and its topic follow the protocol that Stream states
\* and that Topic is proved to implement (consumer.go:122-132, 208-243).
THEOREM ConsumerKeepsToStream == ConsumerSpec => KeepsToStream
  <1>1. ConsumerInit => StreamInit
    BY DEF ConsumerInit
  <1>2. QED
    BY <1>1, ConsumerInvariant, PositionsExist, ConsumerImplements, PTL
       DEF ConsumerSpec, KeepsToStream, StreamSpec

\* So what DequeueWithLimit gives the consumer between two seeks, commits or
\* restarts is a stretch of the stream that ends at the catalog's offset.
THEOREM ConsumerGivenInOrder == ConsumerSpec => []GotTheStretch
  BY ConsumerKeepsToStream, DeliveredInOrder, PTL DEF KeepsToStream
=============================================================================
