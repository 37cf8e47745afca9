---------------------------- MODULE StreamProofs ----------------------------
(***************************************************************************)
(* What Stream promises, for every set of readers and messages and every   *)
(* batch size.  The inductive invariant says of each reader that it has    *)
(* been given an interval of the stream that ends at its cursor.           *)
(***************************************************************************)
EXTENDS Stream, SequenceTheorems, TLAPS

StreamInv ==
  /\ stream \in Seq(Messages)
  /\ cursor \in [Readers -> 0 .. Len(stream)]
  /\ saved \in [Readers -> 0 .. Len(stream)]
  /\ got \in [Readers -> Seq(Messages)]
  /\ GotTheStretch

\* The messages a + 1 to b of a sequence.
LEMMA IntervalType ==
  ASSUME NEW S, NEW s \in Seq(S), NEW a \in Nat, NEW b \in a .. Len(s)
  PROVE  SubSeq(s, a + 1, b) \in Seq(S) /\ Len(SubSeq(s, a + 1, b)) = b - a
  OBVIOUS

\* Two intervals of a sequence that meet make one.
LEMMA JoinIntervals ==
  ASSUME NEW S, NEW s \in Seq(S),
         NEW a \in Nat, NEW b \in a .. Len(s), NEW c \in b .. Len(s)
  PROVE  SubSeq(s, a + 1, b) \o SubSeq(s, b + 1, c) = SubSeq(s, a + 1, c)
  <1> DEFINE x == SubSeq(s, a + 1, b)
             y == SubSeq(s, b + 1, c)
             z == SubSeq(s, a + 1, c)
  <1>1. /\ x \in Seq(S) /\ Len(x) = b - a
        /\ y \in Seq(S) /\ Len(y) = c - b
        /\ z \in Seq(S) /\ Len(z) = c - a
    OBVIOUS
  <1>2. /\ \A i \in 1 .. b - a : x[i] = s[a + i]
        /\ \A i \in 1 .. c - b : y[i] = s[b + i]
        /\ \A i \in 1 .. c - a : z[i] = s[a + i]
    OBVIOUS
  <1>3. x \o y \in Seq(S) /\ Len(x \o y) = c - a
    BY <1>1
  <1>4. ASSUME NEW i \in 1 .. c - a
        PROVE  (x \o y)[i] = z[i]
    <2>1. CASE i <= b - a
      BY <1>1, <1>2, <2>1
    <2>2. CASE i > b - a
      <3>1. i - (b - a) \in 1 .. c - b
        BY <2>2
      <3>2. (x \o y)[i] = y[i - (b - a)]
        BY <1>1, <2>2
      <3>3. QED
        BY <1>2, <3>1, <3>2
    <2>3. QED
      BY <2>1, <2>2
  <1> HIDE DEF x, y, z
  <1>5. x \o y = z
    BY <1>1, <1>3, <1>4, SeqEqual
  <1>6. QED
    BY <1>5 DEF x, y, z

\* An interval stays what it was when the sequence grows.
LEMMA IntervalOfLonger ==
  ASSUME NEW S, NEW s \in Seq(S), NEW m \in S,
         NEW a \in Nat, NEW b \in 0 .. Len(s)
  PROVE  SubSeq(Append(s, m), a + 1, b) = SubSeq(s, a + 1, b)
  <1>1. CASE a >= b
    BY <1>1
  <1>2. CASE a < b
    BY <1>2
  <1>3. QED
    BY <1>1, <1>2

LEMMA StreamInitInv == StreamInit => StreamInv
  BY DEF StreamInit, StreamInv, GotTheStretch

\* A delivery joins the next interval to what the reader already has.
LEMMA DeliverInv ==
  ASSUME StreamInv, NEW c \in Readers, Deliver(c)
  PROVE  StreamInv'
  <1> DEFINE k == cursor[c]
  <1>1. PICK n \in 1 .. Len(stream) :
          /\ k + n <= Len(stream)
          /\ cursor' = [cursor EXCEPT ![c] = k + n]
          /\ got' = [got EXCEPT ![c] = got[c] \o SubSeq(stream, k + 1, k + n)]
          /\ UNCHANGED <<stream, saved>>
    BY DEF Deliver
  <1>2. /\ stream \in Seq(Messages)
        /\ k \in 0 .. Len(stream)
        /\ n \in Nat
        /\ k + n \in 0 .. Len(stream)
        /\ got[c] \in Seq(Messages)
    BY <1>1 DEF StreamInv
  <1> DEFINE next == SubSeq(stream, k + 1, k + n)
  <1>3. next \in Seq(Messages) /\ Len(next) = n
    BY <1>2
  <1>4. got[c] \o next \in Seq(Messages) /\ Len(got[c] \o next) = Len(got[c]) + n
    <2> HIDE DEF k, next
    <2>1. QED
      BY <1>2, <1>3, ConcatProperties
  <1>5. /\ cursor' \in [Readers -> 0 .. Len(stream')]
        /\ got' \in [Readers -> Seq(Messages)]
    BY <1>1, <1>2, <1>4 DEF StreamInv
  <1>6. got[c] \o next = SubSeq(stream, k - Len(got[c]) + 1, k + n)
    <2>1. /\ Len(got[c]) \in Nat
          /\ Len(got[c]) <= k
          /\ got[c] = SubSeq(stream, k - Len(got[c]) + 1, k)
      BY <1>2 DEF StreamInv, GotTheStretch
    <2>2. k - Len(got[c]) \in Nat /\ k \in k - Len(got[c]) .. Len(stream)
      BY <2>1, <1>2
    <2>3. k + n \in k .. Len(stream)
      BY <1>2
    <2>4. SubSeq(stream, k - Len(got[c]) + 1, k) \o next
            = SubSeq(stream, k - Len(got[c]) + 1, k + n)
      BY <2>2, <2>3, <1>2, JoinIntervals
    <2>5. QED
      BY <2>1, <2>4
  <1>7. ASSUME NEW d \in Readers
        PROVE  /\ Len(got'[d]) <= cursor'[d]
               /\ cursor'[d] <= Len(stream')
               /\ got'[d] = SubSeq(stream', cursor'[d] - Len(got'[d]) + 1, cursor'[d])
    <2>1. CASE d = c
      <3>1. cursor'[d] = k + n /\ got'[d] = got[c] \o next /\ stream' = stream
        BY <1>1, <2>1 DEF StreamInv
      <3>2. Len(got[c]) \in Nat /\ Len(got[c]) <= k
        BY <1>2 DEF StreamInv, GotTheStretch
      <3> HIDE DEF k, next
      <3>3. Len(got'[d]) = Len(got[c]) + n
        BY <3>1, <1>4
      <3>4. cursor'[d] - Len(got'[d]) + 1 = k - Len(got[c]) + 1
        BY <3>1, <3>2, <3>3, <1>2
      <3>5. got'[d] = SubSeq(stream', cursor'[d] - Len(got'[d]) + 1, cursor'[d])
        BY <3>1, <3>4, <1>6
      <3>6. Len(got'[d]) <= cursor'[d] /\ cursor'[d] <= Len(stream')
        BY <3>1, <3>2, <3>3, <1>2
      <3>7. QED
        BY <3>5, <3>6
    <2>2. CASE d # c
      BY <1>1, <2>2 DEF StreamInv, GotTheStretch
    <2>3. QED
      BY <2>1, <2>2
  <1>8. stream' \in Seq(Messages) /\ saved' \in [Readers -> 0 .. Len(stream')]
    BY <1>1 DEF StreamInv
  <1>9. QED
    BY <1>5, <1>7, <1>8 DEF StreamInv, GotTheStretch

\* A message more disturbs no interval.
LEMMA PublishInv ==
  ASSUME StreamInv, Publish
  PROVE  StreamInv'
  <1>1. PICK m \in Messages : stream' = Append(stream, m)
    BY DEF Publish
  <1>2. UNCHANGED <<cursor, saved, got>>
    BY DEF Publish
  <1>3. stream \in Seq(Messages) /\ stream' \in Seq(Messages)
        /\ Len(stream') = Len(stream) + 1
    BY <1>1 DEF StreamInv
  <1>4. /\ cursor' \in [Readers -> 0 .. Len(stream')]
        /\ saved' \in [Readers -> 0 .. Len(stream')]
    BY <1>2, <1>3 DEF StreamInv
  <1>5. ASSUME NEW c \in Readers
        PROVE  /\ Len(got[c]) <= cursor[c]
               /\ cursor[c] <= Len(stream')
               /\ got[c] = SubSeq(stream', cursor[c] - Len(got[c]) + 1, cursor[c])
    <2>1. /\ cursor[c] \in 0 .. Len(stream)
          /\ Len(got[c]) \in Nat
          /\ Len(got[c]) <= cursor[c]
          /\ got[c] = SubSeq(stream, cursor[c] - Len(got[c]) + 1, cursor[c])
      BY DEF StreamInv, GotTheStretch
    <2>2. cursor[c] - Len(got[c]) \in Nat
      BY <2>1
    <2>3. SubSeq(stream', cursor[c] - Len(got[c]) + 1, cursor[c])
            = SubSeq(stream, cursor[c] - Len(got[c]) + 1, cursor[c])
      <3>1. SubSeq(Append(stream, m), cursor[c] - Len(got[c]) + 1, cursor[c])
              = SubSeq(stream, cursor[c] - Len(got[c]) + 1, cursor[c])
        BY <1>3, <2>1, <2>2, IntervalOfLonger
      <3>2. QED
        BY <1>1, <3>1
    <2>4. got[c] = SubSeq(stream', cursor[c] - Len(got[c]) + 1, cursor[c])
      BY <2>1, <2>3
    <2>5. Len(stream) \in Nat /\ cursor[c] <= Len(stream')
      BY <2>1, <1>3
    <2>6. QED
      BY <2>1, <2>4, <2>5
  <1>6. QED
    BY <1>2, <1>3, <1>4, <1>5 DEF StreamInv, GotTheStretch

LEMMA StreamStepInv == StreamInv /\ [StreamNext]_streamVars => StreamInv'
  <1> SUFFICES ASSUME StreamInv, [StreamNext]_streamVars
               PROVE  StreamInv'
    OBVIOUS
  <1>1. CASE Publish
    BY <1>1, PublishInv
  <1>2. ASSUME NEW c \in Readers, Deliver(c)
        PROVE  StreamInv'
    BY <1>2, DeliverInv
  <1>3. ASSUME NEW c \in Readers, Seek(c)
        PROVE  StreamInv'
    <2>1. PICK k \in 0 .. Len(stream) : cursor' = [cursor EXCEPT ![c] = k]
      BY <1>3 DEF Seek
    <2>2. got' = [got EXCEPT ![c] = <<>>] /\ UNCHANGED <<stream, saved>>
      BY <1>3 DEF Seek
    <2>3. QED
      BY <2>1, <2>2 DEF StreamInv, GotTheStretch
  <1>4. CASE Save
    BY <1>4 DEF Save, StreamInv, GotTheStretch
  <1>5. CASE Restart
    BY <1>5 DEF Restart, StreamInv, GotTheStretch
  <1>6. CASE UNCHANGED streamVars
    BY <1>6 DEF streamVars, StreamInv, GotTheStretch
  <1>7. QED
    BY <1>1, <1>2, <1>3, <1>4, <1>5, <1>6 DEF StreamNext

\* Cursors, in memory and saved, stay within the stream.
THEOREM StreamInvariant == StreamSpec => []StreamInv
  BY StreamInitInv, StreamStepInv, PTL DEF StreamSpec

\* No message is lost, repeated or reordered: whatever the interleaving of
\* publishing, deliveries, seeks, saves and restarts, each reader has been
\* given, since its last seek or restart, the messages just before its cursor.
THEOREM DeliveredInOrder == StreamSpec => []GotTheStretch
  <1>1. StreamInv => GotTheStretch
    BY DEF StreamInv
  <1>2. QED
    BY <1>1, StreamInvariant, PTL
=============================================================================
