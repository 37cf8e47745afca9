--------------------------- MODULE TsClientProofs ---------------------------
(***************************************************************************)
(* Proofs about the TypeScript client, for any number of sockets, of       *)
(* commands, of reconnection attempts and of timers.                       *)
(*                                                                         *)
(* TsInv is inductive.  Its first part, TsTypes, holds whatever the        *)
(* application does.  The others are about a client that was not rushed:   *)
(* SocketInv ties the flags of the client to what its sockets are doing,   *)
(* and OrderInv says of a connection on which lines and commands are in    *)
(* step that the lines on their way are in the order of their commands,    *)
(* and that those which begin an answer are for the pending commands, one  *)
(* for each; lines of the welcome, and further lines of an answer, however *)
(* it is cut, may be anywhere between them.                                *)
(***************************************************************************)
EXTENDS TsClient, SequenceTheorems, FiniteSetTheorems, TLAPS

Lines == Nat \X (Nat \ {0})

\* Pending commands are those that wait, each once and in the order of sending.
PendingInv ==
  /\ pending \in Seq(Nat \ {0})
  /\ \A i, j \in 1 .. Len(pending) : i < j => pending[i] < pending[j]
  /\ \A i \in 1 .. Len(pending) :
       pending[i] \in 1 .. Len(outcome) /\ outcome[pending[i]] = Waiting
  /\ \A id \in 1 .. Len(outcome) :
       outcome[id] = Waiting => \E i \in 1 .. Len(pending) : pending[i] = id

WireInv ==
  /\ phase \in [Sockets -> {"closed", "dialing", "open", "closing"}]
  /\ wire \in [Sockets -> Seq(Lines)]
  /\ \A s \in Sockets : wire[s] # <<>> => phase[s] = "open"

ClientInv ==
  /\ socket \in Sockets \cup {None}
  /\ connected \in BOOLEAN /\ connecting \in BOOLEAN /\ rushed \in BOOLEAN
  /\ attempts \in 0 .. MaxAttempts
  /\ timers \in 0 .. MaxTimers
  /\ dialTimers \subseteq Sockets

HistoryInv ==
  /\ outcome \in Seq(Int)
  /\ sentOn \in Seq(Sockets \cup {None})
  /\ Len(sentOn) = Len(outcome)
  /\ noisy \subseteq Sockets \cup {None}

TsTypes == ClientInv /\ WireInv /\ HistoryInv /\ PendingInv

\* One socket is not closed at most, and the flags know of it.
SocketInv ==
  /\ \A s, t \in Sockets : phase[s] # "closed" /\ phase[t] # "closed" => s = t
  /\ \A s \in Sockets :
       /\ InUse(s) => socket = s
       /\ phase[s] = "dialing" => connecting /\ ~connected
       /\ phase[s] = "open" => connected
  /\ connected \/ pending # <<>> => \E s \in Sockets : phase[s] \in {"open", "closing"}

\* The lines on their way to socket s are in the order of their commands, the
\* first line of an answer in front of its others ...
InOrder(s) ==
  \A j, k \in 1 .. Len(wire[s]) :
    j < k => /\ wire[s][j][1] <= wire[s][k][1]
             /\ wire[s][k][2] = 1 => wire[s][j][1] < wire[s][k][1]

\* ... and the first lines of the answers are due to the pending commands.
InStep(s) ==
  /\ InOrder(s)
  /\ \A j \in 1 .. Len(wire[s]) : wire[s][j][1] <= Len(outcome)
  /\ \A i \in 1 .. Len(pending) : \E j \in 1 .. Len(wire[s]) : wire[s][j] = <<pending[i], 1>>
  /\ \A j \in 1 .. Len(wire[s]) :
       wire[s][j][2] = 1 /\ wire[s][j][1] # 0 =>
         \E i \in 1 .. Len(pending) : pending[i] = wire[s][j][1]

OrderInv ==
  \A s \in Sockets :
    phase[s] = "open" =>
      /\ \A i \in 1 .. Len(pending) : sentOn[pending[i]] = s
      /\ s \notin noisy => InStep(s)

TsInv == TsTypes /\ (~rushed => SocketInv /\ OrderInv)

-----------------------------------------------------------------------------
(* Numbers and sequences *)

LEMMA MinOfTwo ==
  ASSUME NEW a \in Int, NEW b \in Int
  PROVE  Min({a, b}) = IF a <= b THEN a ELSE b
  <1> DEFINE m == IF a <= b THEN a ELSE b
  <1>1. m \in {a, b} /\ \A y \in {a, b} : m =< y
    OBVIOUS
  <1>2. \A x \in {a, b} : (\A y \in {a, b} : x =< y) => x = m
    OBVIOUS
  <1> HIDE DEF m
  <1>3. Min({a, b}) = m
    BY <1>1, <1>2 DEF Min
  <1>4. QED
    BY <1>3 DEF m

\* What is left of a sequence that holds e once, at i.
LEMMA RemoveFirstIs ==
  ASSUME NEW S, NEW s \in Seq(S), NEW i \in 1 .. Len(s),
         \A j \in 1 .. Len(s) : s[j] = s[i] => j = i
  PROVE  LET r == RemoveFirst(s, s[i])
         IN  /\ r \in Seq(S)
             /\ Len(r) = Len(s) - 1
             /\ \A j \in 1 .. Len(r) : r[j] = IF j < i THEN s[j] ELSE s[j + 1]
  <1> DEFINE l == SubSeq(s, 1, i - 1)
             r == SubSeq(s, i + 1, Len(s))
  <1>1. SelectInSeq(s, LAMBDA v : v = s[i]) = i
    <2>1. {j \in 1 .. Len(s) : s[j] = s[i]} = {i}
      OBVIOUS
    <2>2. Min({i}) = i
      BY MinOfTwo
    <2>3. QED
      BY <2>1, <2>2 DEF SelectInSeq
  <1>2. RemoveFirst(s, s[i]) = l \o r
    BY <1>1 DEF RemoveFirst, RemoveAt
  <1>3. l \in Seq(S) /\ Len(l) = i - 1 /\ \A j \in 1 .. i - 1 : l[j] = s[j]
    BY SubSeqProperties
  <1>4. r \in Seq(S) /\ Len(r) = Len(s) - i /\ \A j \in 1 .. Len(s) - i : r[j] = s[i + j]
    <2>1. Len(s) \in Nat
      OBVIOUS
    <2>2. CASE i < Len(s)
      BY <2>1, <2>2, SubSeqProperties
    <2>3. CASE i = Len(s)
      BY <2>1, <2>3, SubSeqProperties
    <2>4. QED
      BY <2>1, <2>2, <2>3
  <1> HIDE DEF l, r
  <1>5. /\ l \o r \in Seq(S)
        /\ Len(l \o r) = Len(l) + Len(r)
        /\ \A j \in 1 .. Len(l) + Len(r) :
             (l \o r)[j] = IF j <= Len(l) THEN l[j] ELSE r[j - Len(l)]
    BY <1>3, <1>4, ConcatProperties
  <1>6. Len(s) \in Nat
    OBVIOUS
  <1>7. ASSUME NEW j \in 1 .. Len(s) - 1
        PROVE  (l \o r)[j] = IF j < i THEN s[j] ELSE s[j + 1]
    <2>1. CASE j < i
      BY <1>3, <1>4, <1>5, <1>6, <2>1
    <2>2. CASE ~(j < i)
      <3>1. j - (i - 1) \in 1 .. Len(s) - i /\ i + (j - (i - 1)) = j + 1
        BY <1>6, <2>2
      <3>2. r[j - (i - 1)] = s[j + 1]
        BY <1>4, <3>1
      <3>3. (l \o r)[j] = r[j - (i - 1)]
        BY <1>3, <1>4, <1>5, <1>6, <2>2
      <3>4. QED
        BY <2>2, <3>2, <3>3
    <2>3. QED
      BY <2>1, <2>2
  <1>8. QED
    BY <1>2, <1>3, <1>4, <1>5, <1>6, <1>7

\* The lines of an answer.
LEMMA AnswerLinesAre ==
  ASSUME NEW id \in Nat, NEW n \in 1 .. MaxLines
  PROVE  /\ AnswerLines(id, n) \in Seq(Lines)
         /\ Len(AnswerLines(id, n)) = n
         /\ \A i \in 1 .. n : AnswerLines(id, n)[i] = <<id, i>>
  <1>1. n \in Nat /\ MaxLines \in Nat
    BY TsAssumption
  <1>2. \A i \in 1 .. n : <<id, i>> \in Lines
    BY <1>1 DEF Lines
  <1>3. AnswerLines(id, n) \in [1 .. n -> Lines]
    BY <1>2 DEF AnswerLines
  <1>4. AnswerLines(id, n) \in Seq(Lines) /\ Len(AnswerLines(id, n)) = n
    BY <1>1, <1>3
  <1>5. QED
    BY <1>4 DEF AnswerLines

-----------------------------------------------------------------------------
(* The flags, and the sockets *)

LEMMA ClientInit == TsInit => ClientInv
  <1>1. MaxAttempts \in Nat /\ MaxTimers \in Nat
    BY TsAssumption
  <1>2. 0 \in 0 .. MaxAttempts /\ 0 \in 0 .. MaxTimers
    BY <1>1
  <1>3. QED
    BY <1>2, Zenon DEF TsInit, ClientInv

LEMMA PlanType ==
  ASSUME ClientInv, PlanReconnection
  PROVE  attempts' \in 0 .. MaxAttempts /\ timers' \in 0 .. MaxTimers
  <1>1. MaxAttempts \in Nat /\ MaxTimers \in Nat
    BY TsAssumption
  <1>2. timers + 1 \in Int /\ MaxTimers \in Int
    BY <1>1 DEF ClientInv
  <1>3. Min({timers + 1, MaxTimers}) \in 0 .. MaxTimers
    BY <1>1, <1>2, MinOfTwo DEF ClientInv
  <1>4. QED
    BY <1>1, <1>3 DEF ClientInv, PlanReconnection

LEMMA ClientStep ==
  ASSUME ClientInv, [TsNext]_tsVars
  PROVE  ClientInv'
  <1>1. MaxAttempts \in Nat /\ MaxTimers \in Nat
    BY TsAssumption
  <1>2. ASSUME Connect, timers' \in 0 .. MaxTimers PROVE ClientInv'
    <2>1. rushed' \in BOOLEAN
      BY <1>2 DEF ClientInv, Connect, Dial
    <2>2. \E s \in Sockets : /\ socket' = s /\ dialTimers' = dialTimers \cup {s}
                              /\ connecting' = TRUE /\ connected' = connected /\ attempts' = attempts
      BY <1>2 DEF Connect, Dial
    <2>3. QED
      BY <1>2, <2>1, <2>2, Zenon DEF ClientInv
  <1>3. ASSUME NEW s \in Sockets, OnConnect(s) PROVE ClientInv'
    <2>1. 0 \in 0 .. MaxAttempts
      BY <1>1
    <2>2. /\ socket' = socket /\ timers' = timers /\ rushed' = rushed /\ attempts' = 0
          /\ connected' = TRUE /\ connecting' = FALSE /\ dialTimers' = dialTimers \ {s}
      BY <1>3 DEF OnConnect
    <2>3. QED
      BY <2>1, <2>2, Zenon DEF ClientInv
  <1>4. ASSUME NEW s \in Sockets, OnError(s) PROVE ClientInv'
    BY <1>4 DEF ClientInv, OnError
  <1>5. ASSUME NEW s \in Sockets, DialTimeout(s) PROVE ClientInv'
    BY <1>5 DEF ClientInv, DialTimeout
  <1>6. ASSUME NEW s \in Sockets, OnClose(s) PROVE ClientInv'
    BY <1>6, PlanType DEF ClientInv, OnClose
  <1>7. CASE Reconnect
    <2>1. timers' \in 0 .. MaxTimers
      BY <1>1, <1>7 DEF ClientInv, Reconnect
    <2>2. QED
      BY <1>2, <1>7, <2>1 DEF ClientInv, Reconnect
  <1>8. CASE AppConnects
    BY <1>2, <1>8 DEF ClientInv, AppConnects
  <1>9. CASE Disconnect
    BY <1>9 DEF ClientInv, Disconnect
  <1>10. ASSUME UNCHANGED connectionVars PROVE ClientInv'
    BY <1>10 DEF ClientInv, connectionVars
  <1>11. QED
    BY <1>3, <1>4, <1>5, <1>6, <1>7, <1>8, <1>9, <1>10
       DEF TsNext, OnEnd, OnData, Arrives, SendCommand, CommandTimeout, tsVars

LEMMA DestroyWires ==
  ASSUME WireInv, NEW s \in Sockets, Destroy(s)
  PROVE  WireInv'
  <1>1. <<>> \in Seq(Lines)
    OBVIOUS
  <1>2. QED
    BY <1>1 DEF WireInv, Destroy

LEMMA WireStep ==
  ASSUME ClientInv, HistoryInv, WireInv, [TsNext]_tsVars
  PROVE  WireInv'
  <1>1. ASSUME Connect PROVE WireInv'
    BY <1>1 DEF WireInv, Connect, Dial
  <1>2. ASSUME NEW s \in Sockets, OnConnect(s) PROVE WireInv'
    <2>1. PICK n \in 1 .. MaxLines : wire' = [wire EXCEPT ![s] = AnswerLines(0, n)]
      BY <1>2 DEF OnConnect
    <2>2. AnswerLines(0, n) \in Seq(Lines)
      BY AnswerLinesAre
    <2>3. QED
      BY <1>2, <2>1, <2>2 DEF WireInv, OnConnect
  <1>3. ASSUME DestroySocket PROVE WireInv'
    BY <1>3, DestroyWires DEF ClientInv, WireInv, wireVars, DestroySocket
  <1>4. ASSUME NEW s \in Sockets, OnError(s) \/ OnEnd(s) \/ DialTimeout(s) PROVE WireInv'
    BY <1>3, <1>4, DestroyWires DEF OnError, OnEnd, DialTimeout
  <1>5. ASSUME NEW s \in Sockets, OnClose(s) PROVE WireInv'
    BY <1>5 DEF WireInv, OnClose
  <1>6. ASSUME NEW s \in Sockets, OnData(s) PROVE WireInv'
    <2>1. wire[s] \in Seq(Lines) /\ wire[s] # <<>>
      BY <1>6 DEF WireInv, OnData, Arrives
    <2>2. Tail(wire[s]) \in Seq(Lines)
      BY <2>1
    <2>3. QED
      BY <1>6, <2>1, <2>2 DEF WireInv, OnData, Arrives
  <1>7. ASSUME NEW n \in 1 .. MaxLines, SendCommand(n) PROVE WireInv'
    <2> DEFINE id == Len(outcome) + 1
    <2>1. AnswerLines(id, n) \in Seq(Lines)
      BY AnswerLinesAre DEF HistoryInv
    <2>2. ASSUME NEW s \in Sockets
          PROVE  wire[s] \o AnswerLines(id, n) \in Seq(Lines)
      BY <2>1, ConcatProperties DEF WireInv
    <2>3. QED
      BY <1>7, <2>2 DEF ClientInv, WireInv, SendCommand
  <1>8. ASSUME UNCHANGED wireVars PROVE WireInv'
    BY <1>8 DEF WireInv, wireVars
  <1>9. CASE Reconnect \/ AppConnects
    BY <1>1, <1>8, <1>9 DEF Reconnect, AppConnects
  <1>10. QED
    BY <1>2, <1>3, <1>4, <1>5, <1>6, <1>7, <1>8, <1>9
       DEF TsNext, Disconnect, CommandTimeout, tsVars

-----------------------------------------------------------------------------
(* The commands *)

\* A function on the numbers of the commands is a sequence.
LEMMA OutcomesAre ==
  ASSUME HistoryInv,
         NEW f, f = [id \in DOMAIN outcome |-> f[id]],
         \A id \in 1 .. Len(outcome) : f[id] \in Int
  PROVE  f \in Seq(Int) /\ Len(f) = Len(outcome)
  <1>1. DOMAIN outcome = 1 .. Len(outcome) /\ Len(outcome) \in Nat
    BY DEF HistoryInv
  <1>2. f \in [1 .. Len(outcome) -> Int]
    BY <1>1
  <1>3. QED
    BY <1>1, <1>2

LEMMA FailAllStep ==
  ASSUME HistoryInv, FailAll
  PROVE  HistoryInv' /\ PendingInv'
  <1>1. \A id \in 1 .. Len(outcome) : outcome[id] \in Int
    BY DEF HistoryInv
  <1>2. DOMAIN outcome = 1 .. Len(outcome)
    BY DEF HistoryInv
  <1> DEFINE g == [id \in DOMAIN outcome |->
                     IF outcome[id] = Waiting THEN Failed ELSE outcome[id]]
  <1>3. \A id \in 1 .. Len(outcome) : g[id] \in Int /\ g[id] # Waiting
    BY <1>1, <1>2 DEF Waiting, Failed
  <1>4. g = [id \in DOMAIN outcome |-> g[id]]
    OBVIOUS
  <1>5. outcome' = g /\ pending' = <<>> /\ UNCHANGED <<sentOn, noisy>>
    BY DEF FailAll
  <1> HIDE DEF g
  <1>6. g \in Seq(Int) /\ Len(g) = Len(outcome)
    BY <1>3, <1>4, OutcomesAre
  <1>7. HistoryInv'
    BY <1>5, <1>6 DEF HistoryInv
  <1>8. /\ <<>> \in Seq(Nat \ {0})
        /\ Len(<<>>) = 0
    OBVIOUS
  <1>9. PendingInv'
    BY <1>3, <1>5, <1>6, <1>8 DEF PendingInv
  <1>10. QED
    BY <1>7, <1>9

LEMMA SendStep ==
  ASSUME TsTypes, NEW lines \in 1 .. MaxLines, SendCommand(lines)
  PROVE  HistoryInv' /\ PendingInv'
  <1> DEFINE id == Len(outcome) + 1
             n == Len(pending)
  <1>1. /\ pending' = Append(pending, id)
        /\ outcome' = Append(outcome, Waiting)
        /\ sentOn' = Append(sentOn, socket)
        /\ noisy' = noisy
    BY DEF SendCommand
  <1>2. /\ outcome' \in Seq(Int)
        /\ Len(outcome') = id
        /\ outcome'[id] = Waiting
        /\ \A j \in 1 .. Len(outcome) : outcome'[j] = outcome[j]
    BY <1>1, AppendProperties DEF TsTypes, HistoryInv, Waiting
  <1>3. sentOn' \in Seq(Sockets \cup {None}) /\ Len(sentOn') = id
    BY <1>1, AppendProperties DEF TsTypes, HistoryInv, ClientInv
  <1>4. HistoryInv'
    BY <1>1, <1>2, <1>3 DEF TsTypes, HistoryInv
  <1>5. Len(outcome) \in Nat /\ n \in Nat /\ id \in Nat \ {0}
    BY DEF TsTypes, HistoryInv, PendingInv
  <1>6. /\ pending' \in Seq(Nat \ {0})
        /\ Len(pending') = n + 1
        /\ pending'[n + 1] = id
        /\ \A j \in 1 .. n : pending'[j] = pending[j]
    BY <1>1, <1>5, AppendProperties DEF TsTypes, PendingInv
  <1> HIDE DEF id
  <1>7. \A j \in 1 .. n : pending[j] \in 1 .. Len(outcome) /\ pending[j] < id
    BY <1>5 DEF TsTypes, PendingInv, id
  <1>8. \A i, j \in 1 .. Len(pending') : i < j => pending'[i] < pending'[j]
    <2> TAKE i, j \in 1 .. Len(pending')
    <2> HAVE i < j
    <2>1. i \in 1 .. n
      BY <1>5, <1>6
    <2>2. CASE j = n + 1
      BY <1>6, <1>7, <2>1, <2>2
    <2>3. CASE j # n + 1
      <3>1. j \in 1 .. n
        BY <1>5, <1>6, <2>3
      <3>2. QED
        BY <1>6, <2>1, <3>1 DEF TsTypes, PendingInv
    <2>4. QED
      BY <2>2, <2>3
  <1>9. \A i \in 1 .. Len(pending') :
          pending'[i] \in 1 .. Len(outcome') /\ outcome'[pending'[i]] = Waiting
    <2> TAKE i \in 1 .. Len(pending')
    <2>1. CASE i = n + 1
      BY <1>2, <1>5, <1>6, <2>1
    <2>2. CASE i # n + 1
      <3>1. i \in 1 .. n
        BY <1>5, <1>6, <2>2
      <3>2. pending'[i] = pending[i] /\ pending[i] \in 1 .. Len(outcome)
            /\ outcome[pending[i]] = Waiting
        BY <1>6, <3>1 DEF TsTypes, PendingInv
      <3>3. pending[i] \in 1 .. id
        BY <1>5, <3>2 DEF id
      <3>4. QED
        BY <1>2, <3>2, <3>3
    <2>3. QED
      BY <2>1, <2>2
  <1>10. \A k \in 1 .. Len(outcome') :
           outcome'[k] = Waiting => \E i \in 1 .. Len(pending') : pending'[i] = k
    <2> TAKE k \in 1 .. Len(outcome')
    <2> HAVE outcome'[k] = Waiting
    <2>1. CASE k = id
      BY <1>5, <1>6, <2>1
    <2>2. CASE k # id
      <3>1. k \in 1 .. Len(outcome)
        BY <1>2, <1>5, <2>2 DEF id
      <3>2. PICK i \in 1 .. n : pending[i] = k
        BY <1>2, <3>1 DEF TsTypes, PendingInv
      <3>3. i \in 1 .. Len(pending') /\ pending'[i] = k
        BY <1>5, <1>6, <3>2
      <3>4. QED
        BY <3>3
    <2>3. QED
      BY <2>1, <2>2
  <1>11. PendingInv'
    BY <1>6, <1>8, <1>9, <1>10 DEF PendingInv
  <1>12. QED
    BY <1>4, <1>11

LEMMA TimeoutStep ==
  ASSUME TsTypes, NEW c \in DOMAIN outcome, CommandTimeout(c)
  PROVE  HistoryInv' /\ PendingInv'
  <1>1. /\ outcome[c] = Waiting
        /\ outcome' = [outcome EXCEPT ![c] = TimedOut]
        /\ pending' = RemoveFirst(pending, c)
        /\ noisy' = noisy \cup {sentOn[c]}
        /\ sentOn' = sentOn
    BY DEF CommandTimeout
  <1>2. c \in 1 .. Len(outcome) /\ Len(outcome) \in Nat
    BY DEF TsTypes, HistoryInv
  <1>3. outcome' \in Seq(Int) /\ Len(outcome') = Len(outcome)
    BY <1>1, <1>2 DEF TsTypes, HistoryInv, TimedOut
  <1>4. sentOn[c] \in Sockets \cup {None}
    BY <1>2 DEF TsTypes, HistoryInv
  <1>5. HistoryInv'
    BY <1>1, <1>3, <1>4 DEF TsTypes, HistoryInv
  <1>6. PICK i \in 1 .. Len(pending) : pending[i] = c
    BY <1>1, <1>2 DEF TsTypes, PendingInv
  <1> DEFINE n == Len(pending)
             from(j) == IF j < i THEN j ELSE j + 1
  <1>7. n \in Nat /\ pending \in Seq(Nat \ {0}) /\ \A j \in 1 .. n : pending[j] \in Nat
    BY DEF TsTypes, PendingInv
  <1>8. \A j, k \in 1 .. n : j < k => pending[j] < pending[k]
    BY DEF TsTypes, PendingInv
  <1>9. \A j \in 1 .. n : pending[j] = pending[i] => j = i
    BY <1>6, <1>7, <1>8
  <1>10. /\ pending' \in Seq(Nat \ {0})
         /\ Len(pending') = n - 1
         /\ \A j \in 1 .. Len(pending') : pending'[j] = pending[from(j)]
    <2>1. /\ pending' \in Seq(Nat \ {0})
          /\ Len(pending') = n - 1
          /\ \A j \in 1 .. Len(pending') :
               pending'[j] = IF j < i THEN pending[j] ELSE pending[j + 1]
      BY <1>1, <1>6, <1>7, <1>9, RemoveFirstIs
    <2>2. QED
      BY <2>1
  <1>11. \A j \in 1 .. Len(pending') : from(j) \in 1 .. n /\ from(j) # i
    BY <1>7, <1>10
  <1>12. \A j, k \in 1 .. Len(pending') : j < k => from(j) < from(k)
    BY <1>7, <1>10
  <1> HIDE DEF n
  <1>13. \A j, k \in 1 .. Len(pending') : j < k => pending'[j] < pending'[k]
    <2> HIDE DEF from
    <2>1. QED
      BY <1>8, <1>10, <1>11, <1>12
  <1>14. \A j \in 1 .. Len(pending') :
           pending'[j] \in 1 .. Len(outcome') /\ outcome'[pending'[j]] = Waiting
    <2> TAKE j \in 1 .. Len(pending')
    <2> HIDE DEF from
    <2>1. from(j) \in 1 .. n /\ pending'[j] = pending[from(j)] /\ pending[from(j)] # c
      BY <1>6, <1>9, <1>10, <1>11
    <2>2. pending[from(j)] \in 1 .. Len(outcome) /\ outcome[pending[from(j)]] = Waiting
      BY <2>1 DEF TsTypes, PendingInv, n
    <2>3. outcome'[pending[from(j)]] = outcome[pending[from(j)]]
      BY <1>1, <2>1, <2>2 DEF TsTypes, HistoryInv
    <2>4. QED
      BY <1>3, <2>1, <2>2, <2>3
  <1>15. \A k \in 1 .. Len(outcome') :
           outcome'[k] = Waiting => \E j \in 1 .. Len(pending') : pending'[j] = k
    <2> TAKE k \in 1 .. Len(outcome')
    <2> HAVE outcome'[k] = Waiting
    <2>1. k # c /\ outcome[k] = Waiting
      BY <1>1, <1>2, <1>3 DEF TsTypes, HistoryInv, Waiting, TimedOut
    <2>2. PICK m \in 1 .. n : pending[m] = k
      BY <1>3, <2>1 DEF TsTypes, PendingInv, n
    <2>3. m # i
      BY <1>6, <2>1, <2>2
    <2> DEFINE j == IF m < i THEN m ELSE m - 1
    <2>4. i \in 1 .. n
      BY DEF n
    <2>5. j \in 1 .. n - 1 /\ from(j) = m
      BY <1>7, <2>2, <2>3, <2>4
    <2> HIDE DEF j, from
    <2>6. QED
      BY <1>10, <2>2, <2>5
  <1>16. PendingInv'
    BY <1>10, <1>13, <1>14, <1>15 DEF PendingInv
  <1>17. QED
    BY <1>5, <1>16

\* What a line settles: the first pending command, if there is one.
LEMMA FirstSettled ==
  ASSUME TsTypes, NEW s \in Sockets, OnData(s)
  PROVE  LET line == wire[s][1]
         IN  /\ wire[s] # <<>> /\ wire[s] \in Seq(Lines)
             /\ line \in Lines
             /\ wire'[s] = Tail(wire[s])
             /\ noisy' = IF OutOfStep(line) THEN noisy \cup {s} ELSE noisy
             /\ sentOn' = sentOn
             /\ \/ Len(pending) = 0 /\ pending' = pending /\ outcome' = outcome
                \/ /\ Len(pending) > 0
                   /\ pending' \in Seq(Nat \ {0})
                   /\ Len(pending') = Len(pending) - 1
                   /\ \A j \in 1 .. Len(pending') : pending'[j] = pending[j + 1]
                   /\ outcome' = [outcome EXCEPT ![pending[1]] = line[1]]
  <1>1. wire[s] # <<>> /\ wire[s] \in Seq(Lines)
    BY DEF OnData, Arrives, TsTypes, WireInv
  <1>2. Head(wire[s]) = wire[s][1] /\ wire[s][1] \in Lines
    BY <1>1
  <1>3. /\ wire'[s] = Tail(wire[s])
        /\ noisy' = IF OutOfStep(wire[s][1]) THEN noisy \cup {s} ELSE noisy
        /\ sentOn' = sentOn
    BY <1>1, <1>2 DEF OnData, Arrives, TsTypes, WireInv
  <1>4. pending \in Seq(Nat \ {0})
    BY DEF TsTypes, PendingInv
  <1>5. CASE pending = <<>>
    BY <1>1, <1>2, <1>3, <1>5 DEF OnData
  <1>6. CASE pending # <<>>
    <2>1. pending' = Tail(pending) /\ outcome' = [outcome EXCEPT ![pending[1]] = wire[s][1][1]]
      BY <1>2, <1>4, <1>6 DEF OnData, Settle
    <2>2. /\ Len(pending) > 0
          /\ pending' \in Seq(Nat \ {0})
          /\ Len(pending') = Len(pending) - 1
          /\ \A j \in 1 .. Len(pending') : pending'[j] = pending[j + 1]
      BY <1>4, <1>6, <2>1, HeadTailProperties
    <2>3. QED
      BY <1>1, <1>2, <1>3, <2>1, <2>2
  <1>7. QED
    BY <1>5, <1>6

LEMMA DataStep ==
  ASSUME TsTypes, NEW s \in Sockets, OnData(s)
  PROVE  HistoryInv' /\ PendingInv'
  <1> DEFINE top == wire[s][1][1]
             c == pending[1]
  <1>1. /\ wire[s][1] \in Lines
        /\ noisy' \subseteq noisy \cup {s}
        /\ sentOn' = sentOn
    BY FirstSettled
  <1>2. top \in Nat
    BY <1>1 DEF Lines
  <1>3. CASE pending' = pending /\ outcome' = outcome
    BY <1>1, <1>3 DEF TsTypes, HistoryInv, PendingInv
  <1>4. ASSUME /\ Len(pending) > 0
               /\ pending' \in Seq(Nat \ {0})
               /\ Len(pending') = Len(pending) - 1
               /\ \A j \in 1 .. Len(pending') : pending'[j] = pending[j + 1]
               /\ outcome' = [outcome EXCEPT ![c] = top]
        PROVE  HistoryInv' /\ PendingInv'
    <2>1. Len(pending) \in Nat /\ pending \in Seq(Nat \ {0})
      BY DEF TsTypes, PendingInv
    <2>2. c \in 1 .. Len(outcome) /\ outcome[c] = Waiting
      BY <1>4, <2>1 DEF TsTypes, PendingInv
    <2> HIDE DEF top
    <2>3. /\ outcome' \in Seq(Int) /\ Len(outcome') = Len(outcome)
          /\ \A id \in 1 .. Len(outcome) : outcome'[id] = IF id = c THEN top ELSE outcome[id]
      BY <1>2, <1>4, <2>2 DEF TsTypes, HistoryInv
    <2>4. HistoryInv'
      BY <1>1, <2>3 DEF TsTypes, HistoryInv
    <2>5. \A i, j \in 1 .. Len(pending) : i < j => pending[i] < pending[j]
      BY DEF TsTypes, PendingInv
    <2>6. \A j \in 1 .. Len(pending') : j + 1 \in 1 .. Len(pending) /\ 1 < j + 1
      BY <1>4, <2>1
    <2>7. 1 \in 1 .. Len(pending) /\ \A j \in 1 .. Len(pending) : pending[j] \in Nat
      BY <1>4, <2>1
    <2>8. \A j \in 1 .. Len(pending') : pending'[j] # c
      BY <1>4, <2>5, <2>6, <2>7
    <2>9. \A i, j \in 1 .. Len(pending') : i < j => pending'[i] < pending'[j]
      <3> TAKE i, j \in 1 .. Len(pending')
      <3> HAVE i < j
      <3>1. i + 1 < j + 1
        BY <1>4, <2>1
      <3>2. QED
        BY <1>4, <2>5, <2>6, <3>1
    <2>10. \A j \in 1 .. Len(pending') :
             pending'[j] \in 1 .. Len(outcome') /\ outcome'[pending'[j]] = Waiting
      <3> TAKE j \in 1 .. Len(pending')
      <3>1. pending[j + 1] \in 1 .. Len(outcome) /\ outcome[pending[j + 1]] = Waiting
        BY <2>6 DEF TsTypes, PendingInv
      <3>2. QED
        BY <1>4, <2>3, <2>8, <3>1
    <2>11. \A k \in 1 .. Len(outcome') :
             outcome'[k] = Waiting => \E j \in 1 .. Len(pending') : pending'[j] = k
      <3> TAKE k \in 1 .. Len(outcome')
      <3> HAVE outcome'[k] = Waiting
      <3>1. k # c /\ outcome[k] = Waiting
        BY <1>2, <2>3 DEF Waiting
      <3>2. PICK m \in 1 .. Len(pending) : pending[m] = k
        BY <2>3, <3>1 DEF TsTypes, PendingInv
      <3>3. m # 1
        BY <3>1, <3>2
      <3>4. m - 1 \in 1 .. Len(pending') /\ (m - 1) + 1 = m
        BY <1>4, <2>1, <3>3
      <3>5. QED
        BY <1>4, <3>2, <3>4
    <2>12. PendingInv'
      BY <1>4, <2>9, <2>10, <2>11 DEF PendingInv
    <2>13. QED
      BY <2>4, <2>12
  <1>5. QED
    BY <1>3, <1>4, FirstSettled

LEMMA TypesInit == TsInit => TsTypes
  <1> SUFFICES ASSUME TsInit PROVE TsTypes
    OBVIOUS
  <1>1. <<>> \in Seq(Lines)
    OBVIOUS
  <1>2. WireInv
    BY <1>1 DEF TsInit, WireInv
  <1>3. HistoryInv /\ PendingInv
    BY DEF TsInit, HistoryInv, PendingInv
  <1>4. QED
    BY <1>2, <1>3, ClientInit DEF TsTypes

LEMMA TypesStep ==
  ASSUME TsTypes, [TsNext]_tsVars
  PROVE  TsTypes'
  <1>1. ASSUME UNCHANGED commandVars PROVE HistoryInv' /\ PendingInv'
    BY <1>1 DEF TsTypes, HistoryInv, PendingInv, commandVars
  <1>2. ASSUME Connect PROVE HistoryInv' /\ PendingInv'
    BY <1>2 DEF TsTypes, HistoryInv, PendingInv, Connect, Dial
  <1>3. ASSUME NEW s \in Sockets, OnClose(s) PROVE HistoryInv' /\ PendingInv'
    BY <1>3, FailAllStep DEF TsTypes, OnClose
  <1>4. ASSUME Reconnect \/ AppConnects PROVE HistoryInv' /\ PendingInv'
    BY <1>1, <1>2, <1>4 DEF Reconnect, AppConnects
  <1>5. HistoryInv' /\ PendingInv'
    BY <1>1, <1>3, <1>4, SendStep, TimeoutStep, DataStep
       DEF TsNext, OnConnect, OnError, OnEnd, DialTimeout, Disconnect, tsVars
  <1>6. QED
    BY <1>5, ClientStep, WireStep DEF TsTypes

-----------------------------------------------------------------------------
(* Sockets and flags of a client that was not rushed *)

LEMMA SocketStep ==
  ASSUME TsTypes, TsTypes', ~rushed => SocketInv, [TsNext]_tsVars, ~rushed'
  PROVE  SocketInv'
  <1>0. ~rushed
    BY DEF TsNext, AppConnects, Connect, Dial, OnConnect, OnError, OnEnd, DialTimeout, OnClose,
           OnData, Arrives, Reconnect, Disconnect, SendCommand, CommandTimeout, connectionVars,
           tsVars, TsTypes, ClientInv
  <1>1. SocketInv /\ phase \in [Sockets -> {"closed", "dialing", "open", "closing"}]
    BY <1>0 DEF TsTypes, WireInv
  <1>2. ASSUME Connect PROVE SocketInv'
    <2>1. PICK s \in Sockets : Dial(s)
      BY <1>2 DEF Connect
    <2>2. ~connected /\ ~connecting
      BY <1>2 DEF Connect
    <2>3. Settled
      BY <2>1 DEF Dial
    <2>4. \A t \in Sockets : phase[t] = "closed"
      BY <1>1, <2>2, <2>3 DEF Settled, SocketInv
    <2>5. pending = <<>> /\ pending' = <<>> /\ connected' = connected
      BY <1>1, <2>1, <2>4 DEF SocketInv, Dial
    <2>6. phase' = [phase EXCEPT ![s] = "dialing"] /\ socket' = s /\ connecting' = TRUE
      BY <2>1 DEF Dial
    <2>7. \A t \in Sockets : phase'[t] = IF t = s THEN "dialing" ELSE "closed"
      BY <1>1, <2>4, <2>6
    <2>8. QED
      BY <2>2, <2>5, <2>6, <2>7 DEF SocketInv, InUse
  <1>3. ASSUME NEW s \in Sockets, OnConnect(s) PROVE SocketInv'
    <2>1. /\ phase[s] = "dialing" /\ socket' = socket
          /\ connected' = TRUE /\ connecting' = FALSE
          /\ \A t \in Sockets : phase'[t] = IF t = s THEN "open" ELSE phase[t]
      BY <1>1, <1>3 DEF OnConnect
    <2>2. QED
      BY <1>1, <2>1 DEF SocketInv, InUse
  <1>4. ASSUME NEW s \in Sockets, Destroy(s), pending' = pending, socket' = socket,
               connected' = connected,
               phase[s] = "closed" => connecting' = connecting
        PROVE  SocketInv'
    <2>1. \A t \in Sockets :
            phase'[t] = IF t = s /\ phase[s] # "closed" THEN "closing" ELSE phase[t]
      BY <1>1, <1>4 DEF Destroy
    <2>2. \A t \in Sockets : phase'[t] # "closed" => phase[t] # "closed"
      BY <2>1
    <2>3. \A t \in Sockets : phase[t] \in {"open", "closing"} => phase'[t] \in {"open", "closing"}
      BY <2>1
    <2>4. ASSUME NEW t \in Sockets, InUse(t)' PROVE phase[s] = "closed" /\ phase'[t] = phase[t]
      BY <1>1, <2>1, <2>4 DEF SocketInv, InUse
    <2>5. \A t \in Sockets :
            /\ InUse(t)' => socket' = t
            /\ phase'[t] = "dialing" => connecting' /\ ~connected'
            /\ phase'[t] = "open" => connected'
      BY <1>1, <1>4, <2>4 DEF SocketInv, InUse
    <2>6. QED
      BY <1>1, <1>4, <2>2, <2>3, <2>5 DEF SocketInv
  <1>5. ASSUME NEW s \in Sockets, OnError(s) \/ OnEnd(s) PROVE SocketInv'
    BY <1>4, <1>5 DEF OnError, OnEnd, connectionVars, commandVars
  <1>6. ASSUME UNCHANGED <<socket, connected, connecting, phase>>,
               pending' # <<>> => \E s \in Sockets : phase[s] \in {"open", "closing"}
        PROVE  SocketInv'
    BY <1>1, <1>6 DEF SocketInv, InUse
  <1>7. ASSUME NEW s \in Sockets, DialTimeout(s) PROVE SocketInv'
    <2>1. CASE socket = None
      BY <1>1, <1>6, <1>7, <2>1 DEF DialTimeout, DestroySocket, SocketInv, wireVars, commandVars
    <2>2. CASE socket # None
      <3>1. socket \in Sockets
        BY <2>2 DEF TsTypes, ClientInv
      <3>2. QED
        BY <1>4, <1>7, <2>2, <3>1 DEF DialTimeout, DestroySocket, commandVars
    <2>3. QED
      BY <2>1, <2>2
  <1>8. ASSUME NEW s \in Sockets, OnClose(s) PROVE SocketInv'
    <2>1. /\ phase[s] = "closing" /\ connected' = FALSE /\ pending' = <<>>
          /\ phase' = [phase EXCEPT ![s] = "closed"]
      BY <1>8 DEF OnClose, FailAll
    <2>2. \A t \in Sockets : phase'[t] = "closed"
      BY <1>1, <2>1 DEF SocketInv
    <2>3. QED
      BY <2>1, <2>2 DEF SocketInv, InUse
  <1>9. CASE Disconnect
    <2>1. connected' = FALSE /\ pending' = pending
      BY <1>9 DEF Disconnect, commandVars
    <2>2. \A t \in Sockets : /\ phase'[t] # "closed" => phase[t] # "closed"
                             /\ phase[t] = "closing" => phase'[t] = "closing"
                             /\ phase[t] = "open" => phase'[t] \in {"open", "closing"}
                             /\ ~InUse(t)'
      <3>1. CASE socket = None
        BY <1>1, <1>9, <3>1, TsAssumption DEF Disconnect, DestroySocket, SocketInv, InUse, wireVars
      <3>2. CASE socket # None
        <4>1. socket \in Sockets
          BY <3>2 DEF TsTypes, ClientInv
        <4>2. \A t \in Sockets :
                phase'[t] = IF t = socket /\ phase[t] # "closed" THEN "closing" ELSE phase[t]
          BY <1>1, <1>9, <3>2, <4>1 DEF Disconnect, DestroySocket, Destroy
        <4>3. QED
          BY <1>1, <4>2 DEF SocketInv, InUse
      <3>3. QED
        BY <3>1, <3>2
    <2>3. QED
      BY <1>1, <2>1, <2>2 DEF SocketInv, InUse
  <1>10. ASSUME NEW lines \in 1 .. MaxLines, SendCommand(lines) PROVE SocketInv'
    BY <1>1, <1>6, <1>10 DEF SendCommand, connectionVars, SocketInv
  <1>11. ASSUME NEW c \in DOMAIN outcome, CommandTimeout(c) PROVE SocketInv'
    <2>1. pending # <<>>
      BY <1>11 DEF CommandTimeout, TsTypes, PendingInv, HistoryInv
    <2>2. QED
      BY <1>1, <1>6, <1>11, <2>1 DEF CommandTimeout, connectionVars, wireVars, SocketInv
  <1>12. ASSUME NEW s \in Sockets, OnData(s) PROVE SocketInv'
    <2>1. phase[s] = "open"
      BY <1>12 DEF OnData, Arrives, TsTypes, WireInv
    <2>2. QED
      BY <1>6, <1>12, <2>1 DEF OnData, Arrives, connectionVars
  <1>13. CASE Reconnect
    BY <1>1, <1>2, <1>6, <1>13 DEF Reconnect, wireVars, commandVars, SocketInv
  <1>14. CASE UNCHANGED tsVars
    BY <1>1, <1>6, <1>14 DEF tsVars, connectionVars, wireVars, commandVars, SocketInv
  <1>15. QED
    BY <1>2, <1>3, <1>5, <1>7, <1>8, <1>9, <1>10, <1>11, <1>12, <1>13, <1>14
       DEF TsNext, AppConnects

-----------------------------------------------------------------------------
(* Lines and commands of a client that was not rushed *)

\* What waits was sent on the open socket.
LEMMA WaitingSentOn ==
  ASSUME TsTypes, OrderInv, NEW s \in Sockets, phase[s] = "open"
  PROVE  \A id \in 1 .. Len(outcome) : outcome[id] = Waiting => sentOn[id] = s
  BY DEF TsTypes, PendingInv, OrderInv

\* It is still so when nothing was sent in between.
LEMMA StillSentOn ==
  ASSUME TsTypes, TsTypes', OrderInv, NEW s \in Sockets, phase[s] = "open",
         sentOn' = sentOn,
         \A id \in 1 .. Len(outcome) : outcome'[id] = Waiting => outcome[id] = Waiting
  PROVE  \A i \in 1 .. Len(pending') : sentOn'[pending'[i]] = s
  <1> TAKE i \in 1 .. Len(pending')
  <1>1. pending'[i] \in 1 .. Len(outcome') /\ outcome'[pending'[i]] = Waiting
    BY DEF TsTypes, PendingInv
  <1>2. Len(outcome') = Len(outcome)
    BY DEF TsTypes, HistoryInv
  <1>3. QED
    BY <1>1, <1>2, WaitingSentOn

\* A command that is sent keeps lines and commands in step.
LEMMA SendKeepsStep ==
  ASSUME TsTypes, NEW lines \in 1 .. MaxLines, SendCommand(lines),
         NEW s \in Sockets, socket = s, phase[s] = "open", InStep(s)
  PROVE  InStep(s)'
  <1> DEFINE id == Len(outcome) + 1
             n == Len(pending)
             w == wire[s]
             m == Len(w)
             a == AnswerLines(id, lines)
             v == wire'[s]
  <1>1. n \in Nat /\ pending \in Seq(Nat \ {0}) /\ id \in Nat \ {0} /\ w \in Seq(Lines) /\ m \in Nat
    BY DEF TsTypes, PendingInv, HistoryInv, WireInv
  <1>2. lines \in Nat /\ lines >= 1
    BY TsAssumption
  <1>3. a \in Seq(Lines) /\ Len(a) = lines /\ \A i \in 1 .. lines : a[i] = <<id, i>>
    BY <1>1, AnswerLinesAre
  <1>4. pending' = Append(pending, id) /\ v = w \o a /\ outcome' = Append(outcome, Waiting)
    BY TsAssumption DEF SendCommand, TsTypes, WireInv
  <1>5. /\ Len(pending') = n + 1 /\ pending'[n + 1] = id
        /\ \A i \in 1 .. n : pending'[i] = pending[i]
    BY <1>1, <1>4, AppendProperties
  <1>6. Len(outcome') = id
    BY <1>4, AppendProperties DEF TsTypes, HistoryInv, Waiting
  <1> HIDE DEF a
  <1> HIDE DEF w, v
  <1>7. /\ Len(v) = m + lines
        /\ \A j \in 1 .. m + lines : v[j] = IF j <= m THEN w[j] ELSE a[j - m]
    <2>1. /\ Len(w \o a) = m + lines
          /\ \A j \in 1 .. m + lines : (w \o a)[j] = IF j <= m THEN w[j] ELSE a[j - m]
      BY <1>1, <1>3, ConcatProperties
    <2>2. QED
      BY <1>4, <2>1
  <1>8. \A j, k \in 1 .. m :
          j < k => /\ w[j][1] <= w[k][1]
                   /\ w[k][2] = 1 => w[j][1] < w[k][1]
    BY DEF InStep, InOrder, w
  <1>9. /\ \A j \in 1 .. m : w[j][1] <= Len(outcome)
        /\ \A i \in 1 .. n : \E j \in 1 .. m : w[j] = <<pending[i], 1>>
        /\ \A j \in 1 .. m :
             w[j][2] = 1 /\ w[j][1] # 0 => \E i \in 1 .. n : pending[i] = w[j][1]
    BY DEF InStep, w
  <1>10. \A j \in 1 .. m : w[j][1] \in Nat /\ w[j][1] < id
    <2> TAKE j \in 1 .. m
    <2>1. w[j] \in Lines /\ w[j][1] <= Len(outcome) /\ Len(outcome) \in Nat
      BY <1>1, <1>9 DEF TsTypes, HistoryInv
    <2>2. QED
      BY <2>1 DEF Lines
  <1> HIDE DEF n, m, id
  <1>11. \A j \in 1 .. m : j \in 1 .. Len(v) /\ v[j] = w[j]
    BY <1>1, <1>2, <1>7
  <1>12. ASSUME NEW j \in 1 .. Len(v), j \notin 1 .. m
         PROVE  v[j] = <<id, j - m>> /\ v[j][1] = id /\ v[j][2] = j - m /\ j > m
    <2>1. j - m \in 1 .. lines /\ ~(j <= m)
      BY <1>1, <1>2, <1>7, <1>12
    <2>2. v[j] = a[j - m]
      BY <1>7, <2>1
    <2>3. QED
      BY <1>1, <1>3, <2>1, <2>2
  <1>13. ASSUME NEW j \in 1 .. Len(v), NEW k \in 1 .. Len(v), j < k
         PROVE  /\ v[j][1] <= v[k][1]
                /\ v[k][2] = 1 => v[j][1] < v[k][1]
    <2>1. CASE k \in 1 .. m
      <3>1. j \in 1 .. m
        BY <1>1, <1>13, <2>1
      <3>2. QED
        BY <1>11, <1>13, <1>8, <2>1, <3>1, Zenon
    <2>2. CASE k \notin 1 .. m /\ j \in 1 .. m
      <3>1. v[k][1] = id /\ v[j][1] = w[j][1]
        BY <1>11, <1>12, <2>2
      <3>2. QED
        BY <1>1, <1>10, <2>2, <3>1
    <2>3. CASE k \notin 1 .. m /\ j \notin 1 .. m
      <3>1. v[k][1] = id /\ v[j][1] = id /\ v[k][2] = k - m /\ j > m
        BY <1>12, <2>3
      <3>2. k - m # 1
        BY <1>1, <1>13, <3>1
      <3>3. QED
        BY <1>1, <3>1, <3>2
    <2>4. QED
      BY <2>1, <2>2, <2>3
  <1>14. \A j \in 1 .. Len(v) : v[j][1] <= id
    <2> TAKE j \in 1 .. Len(v)
    <2>1. CASE j \in 1 .. m
      BY <1>1, <1>10, <1>11, <2>1
    <2>2. CASE j \notin 1 .. m
      BY <1>1, <1>12, <2>2
    <2>3. QED
      BY <2>1, <2>2
  <1>15. ASSUME NEW i \in 1 .. Len(pending')
         PROVE  \E j \in 1 .. Len(v) : v[j] = <<pending'[i], 1>>
    <2>1. CASE i = n + 1
      <3>1. m + 1 \in 1 .. Len(v) /\ m + 1 \notin 1 .. m /\ (m + 1) - m = 1
        BY <1>1, <1>2, <1>7
      <3>2. v[m + 1] = <<id, (m + 1) - m>>
        BY <1>12, <3>1
      <3>3. QED
        BY <1>5, <2>1, <3>1, <3>2
    <2>2. CASE i # n + 1
      <3>1. i \in 1 .. n
        BY <1>1, <1>5, <2>2
      <3>2. PICK j \in 1 .. m : w[j] = <<pending[i], 1>>
        BY <1>9, <3>1
      <3>3. QED
        BY <1>5, <1>11, <3>1, <3>2
    <2>3. QED
      BY <2>1, <2>2
  <1>16. ASSUME NEW j \in 1 .. Len(v), v[j][2] = 1, v[j][1] # 0
         PROVE  \E i \in 1 .. Len(pending') : pending'[i] = v[j][1]
    <2>1. CASE j \in 1 .. m
      <3>1. PICK i \in 1 .. n : pending[i] = w[j][1]
        BY <1>9, <1>11, <1>16, <2>1
      <3>2. i \in 1 .. Len(pending') /\ pending'[i] = pending[i]
        BY <1>1, <1>5
      <3>3. QED
        BY <1>11, <2>1, <3>1, <3>2
    <2>2. CASE j \notin 1 .. m
      <3>1. n + 1 \in 1 .. Len(pending') /\ v[j][1] = id
        BY <1>1, <1>5, <1>12, <2>2
      <3>2. QED
        BY <1>5, <3>1
    <2>3. QED
      BY <2>1, <2>2
  <1>17. InOrder(s)'
    BY <1>13 DEF InOrder, v
  <1>18. QED
    BY <1>6, <1>14, <1>15, <1>16, <1>17 DEF InStep, v

\* A line that arrives while lines and commands are in step settles its own
\* command, or none, and leaves them in step.
LEMMA LineKeepsStep ==
  ASSUME TsTypes, NEW s \in Sockets, OnData(s), ~OutOfStep(wire[s][1]), InStep(s)
  PROVE  /\ InStep(s)'
         /\ Len(pending) > 0 => pending[1] = wire[s][1][1]
  <1> DEFINE p == Len(pending)
             w == wire[s]
             m == Len(w)
             v == wire'[s]
  <1>1. /\ w # <<>> /\ w \in Seq(Lines)
        /\ w[1] \in Lines
        /\ v = Tail(w)
        /\ \/ p = 0 /\ pending' = pending /\ outcome' = outcome
           \/ /\ p > 0
              /\ Len(pending') = p - 1
              /\ \A j \in 1 .. Len(pending') : pending'[j] = pending[j + 1]
              /\ outcome' = [outcome EXCEPT ![pending[1]] = w[1][1]]
    BY FirstSettled
  <1>2. p \in Nat /\ pending \in Seq(Nat \ {0}) /\ \A i \in 1 .. p : pending[i] \in Nat \ {0}
    BY DEF TsTypes, PendingInv
  <1>3. \A i, j \in 1 .. p : i < j => pending[i] < pending[j]
    BY DEF TsTypes, PendingInv
  <1>4. /\ m \in Nat \ {0}
        /\ Len(v) = m - 1
        /\ \A j \in 1 .. m - 1 : v[j] = w[j + 1]
    BY <1>1, HeadTailProperties
  <1>5. Len(outcome') = Len(outcome)
    BY <1>1 DEF TsTypes, HistoryInv
  <1>6. \A j, k \in 1 .. m :
          j < k => /\ w[j][1] <= w[k][1]
                   /\ w[k][2] = 1 => w[j][1] < w[k][1]
    BY DEF InStep, InOrder
  <1>7. /\ \A j \in 1 .. m : w[j][1] <= Len(outcome)
        /\ \A i \in 1 .. p : \E j \in 1 .. m : w[j] = <<pending[i], 1>>
        /\ \A j \in 1 .. m :
             w[j][2] = 1 /\ w[j][1] # 0 => \E i \in 1 .. p : pending[i] = w[j][1]
    BY DEF InStep
  <1>8. \A j \in 1 .. m : w[j] \in Lines /\ w[j][1] \in Nat /\ w[j][2] \in Nat \ {0}
    BY <1>1 DEF Lines
  <1>9. p > 0 => w[1][1] # 0 /\ w[1][2] <= 1
    BY <1>1 DEF OutOfStep, Lines
  <1> HIDE DEF p, w, m, v
  <1>10. \A j \in 1 .. Len(v) : j + 1 \in 1 .. m /\ 1 < j + 1 /\ v[j] = w[j + 1]
    BY <1>4
  <1>11. 1 \in 1 .. m
    BY <1>4
  <1>12. InOrder(s)'
    <2>1. ASSUME NEW j \in 1 .. Len(v), NEW k \in 1 .. Len(v), j < k
          PROVE  /\ v[j][1] <= v[k][1]
                 /\ v[k][2] = 1 => v[j][1] < v[k][1]
      <3>1. j + 1 < k + 1
        BY <1>4, <2>1
      <3>2. QED
        BY <1>10, <1>6, <3>1, Zenon
    <2>2. QED
      BY <2>1 DEF InOrder, v
  <1>13. \A j \in 1 .. Len(v) : v[j][1] <= Len(outcome')
    BY <1>5, <1>7, <1>10
  <1>14. CASE p = 0
    <2>1. Len(pending') = 0 /\ ~\E i \in 1 .. p : TRUE
      BY <1>1, <1>2, <1>14 DEF p
    <2>2. \A j \in 1 .. Len(v) : v[j][2] = 1 /\ v[j][1] # 0 => FALSE
      BY <1>7, <1>10, <2>1
    <2>3. InStep(s)'
      BY <1>12, <1>13, <2>1, <2>2 DEF InStep, v
    <2>4. QED
      BY <1>14, <2>3 DEF p
  <1>15. CASE p > 0
    <2>1. w[1][1] # 0 /\ w[1][2] = 1 /\ w[1][1] \in Nat
      BY <1>8, <1>9, <1>11, <1>15
    <2>2. PICK i \in 1 .. p : pending[i] = w[1][1]
      BY <1>7, <1>11, <2>1
    <2>3. 1 \in 1 .. p
      BY <1>2, <1>15
    <2>4. PICK j \in 1 .. m : w[j] = <<pending[1], 1>>
      BY <1>7, <2>3
    <2>5. i = 1
      <3>1. ASSUME i # 1 PROVE FALSE
        <4>1. pending[1] < pending[i]
          BY <1>2, <1>3, <2>3, <3>1
        <4>2. w[j][1] < w[1][1] /\ w[j][1] = pending[1]
          BY <1>2, <2>2, <2>3, <2>4, <4>1
        <4>3. j # 1
          BY <2>1, <4>2
        <4>4. 1 < j
          BY <1>4, <4>3
        <4>5. w[1][1] <= w[j][1]
          BY <1>11, <1>6, <4>4, Zenon
        <4>6. QED
          BY <1>8, <2>1, <4>2, <4>5
      <3>2. QED
        BY <3>1
    <2>6. pending[1] = w[1][1]
      BY <2>2, <2>5
    <2>7. /\ Len(pending') = p - 1
          /\ \A k \in 1 .. Len(pending') : pending'[k] = pending[k + 1]
      BY <1>1, <1>15
    <2>8. \A k \in 1 .. Len(pending') : k + 1 \in 1 .. p /\ 1 < k + 1
      BY <1>2, <2>7
    <2>9. ASSUME NEW k \in 1 .. Len(pending')
          PROVE  \E l \in 1 .. Len(v) : v[l] = <<pending'[k], 1>>
      <3>1. PICK l \in 1 .. m : w[l] = <<pending[k + 1], 1>>
        BY <1>7, <2>8
      <3>2. pending[1] < pending[k + 1] /\ pending[1] \in Nat
        BY <1>2, <1>3, <2>3, <2>8
      <3>3. l # 1
        BY <2>6, <3>1, <3>2
      <3>4. l - 1 \in 1 .. Len(v) /\ (l - 1) + 1 = l
        BY <1>4, <3>3
      <3>5. v[l - 1] = w[l]
        BY <1>10, <3>4
      <3>6. QED
        BY <2>7, <3>1, <3>4, <3>5
    <2>10. ASSUME NEW l \in 1 .. Len(v), v[l][2] = 1, v[l][1] # 0
           PROVE  \E k \in 1 .. Len(pending') : pending'[k] = v[l][1]
      <3>1. l + 1 \in 1 .. m /\ 1 < l + 1 /\ v[l] = w[l + 1]
        BY <1>10
      <3>2. PICK k \in 1 .. p : pending[k] = w[l + 1][1]
        BY <1>7, <2>10, <3>1
      <3>3. w[1][1] < w[l + 1][1]
        BY <1>11, <1>6, <2>10, <3>1, Zenon
      <3>4. k # 1
        BY <1>8, <1>11, <2>6, <3>1, <3>2, <3>3
      <3>5. k - 1 \in 1 .. Len(pending') /\ (k - 1) + 1 = k
        BY <1>2, <2>7, <3>4
      <3>6. QED
        BY <2>7, <3>1, <3>2, <3>5
    <2>11. InStep(s)'
      BY <1>12, <1>13, <2>9, <2>10 DEF InStep, v
    <2>12. QED
      BY <2>6, <2>11 DEF w
  <1>16. QED
    BY <1>2, <1>14, <1>15

LEMMA OrderStep ==
  ASSUME TsTypes, TsTypes', SocketInv, SocketInv', OrderInv, [TsNext]_tsVars
  PROVE  OrderInv'
  <1>1. phase \in [Sockets -> {"closed", "dialing", "open", "closing"}]
        /\ wire \in [Sockets -> Seq(Lines)]
    BY DEF TsTypes, WireInv
  <1>2. ASSUME UNCHANGED <<pending, sentOn, outcome>>,
               \A s \in Sockets : phase'[s] = "open" =>
                 phase[s] = "open" /\ wire'[s] = wire[s] /\ (s \in noisy <=> s \in noisy')
        PROVE  OrderInv'
    <2> SUFFICES ASSUME NEW s \in Sockets, phase'[s] = "open"
                 PROVE  /\ \A i \in 1 .. Len(pending') : sentOn'[pending'[i]] = s
                        /\ s \notin noisy' => InStep(s)'
      BY DEF OrderInv
    <2>1. phase[s] = "open" /\ wire'[s] = wire[s] /\ (s \in noisy <=> s \in noisy')
      BY <1>2
    <2>2. InStep(s) => InStep(s)'
      BY <1>2, <2>1 DEF InStep, InOrder
    <2>3. QED
      BY <1>2, <2>1, <2>2 DEF OrderInv
  <1>3. ASSUME NEW s \in Sockets, phase'[s] \notin {"closed", "open"} PROVE OrderInv'
    BY <1>3 DEF OrderInv, SocketInv
  <1>4. ASSUME Connect PROVE OrderInv'
    <2>1. PICK s \in Sockets : phase' = [phase EXCEPT ![s] = "dialing"]
      BY <1>4 DEF Connect, Dial
    <2>2. QED
      BY <1>1, <1>3, <2>1
  <1>5. ASSUME NEW s \in Sockets, OnConnect(s) PROVE OrderInv'
    <2>1. phase[s] = "dialing" /\ phase'[s] = "open" /\ pending' = pending /\ outcome' = outcome
      BY <1>1, <1>5 DEF OnConnect, commandVars
    <2>2. pending' = <<>>
      BY <2>1 DEF SocketInv
    <2>3. PICK n \in 1 .. MaxLines : wire'[s] = AnswerLines(0, n)
      BY <1>1, <1>5 DEF OnConnect
    <2>4. /\ Len(wire'[s]) = n
          /\ \A i \in 1 .. n : wire'[s][i] = <<0, i>>
      BY <2>3, AnswerLinesAre
    <2>5. n \in Nat /\ Len(outcome) \in Nat /\ Len(pending') = 0
      BY <2>2, TsAssumption DEF TsTypes, HistoryInv
    <2>6. \A i \in 1 .. n : wire'[s][i][1] = 0 /\ wire'[s][i][2] = i
      BY <2>4
    <2>7. InOrder(s)'
      <3>1. \A j, k \in 1 .. n : j < k => k # 1
        BY <2>5
      <3>2. QED
        BY <2>4, <2>6, <3>1 DEF InOrder
    <2>8. InStep(s)'
      BY <2>1, <2>4, <2>5, <2>6, <2>7 DEF InStep
    <2>9. QED
      BY <2>1, <2>5, <2>8 DEF OrderInv, SocketInv
  <1>6. ASSUME NEW s \in Sockets, Destroy(s), UNCHANGED commandVars PROVE OrderInv'
    BY <1>1, <1>2, <1>6 DEF Destroy, commandVars
  <1>7. ASSUME UNCHANGED wireVars, UNCHANGED commandVars PROVE OrderInv'
    BY <1>2, <1>7 DEF wireVars, commandVars
  <1>8. ASSUME DestroySocket, UNCHANGED commandVars PROVE OrderInv'
    BY <1>6, <1>7, <1>8 DEF DestroySocket, TsTypes, ClientInv
  <1>9. ASSUME NEW s \in Sockets, OnClose(s) PROVE OrderInv'
    <2>1. \A t \in Sockets : phase'[t] = "closed"
      BY <1>1, <1>9 DEF OnClose, SocketInv
    <2>2. QED
      BY <2>1 DEF OrderInv
  <1>10. ASSUME NEW lines \in 1 .. MaxLines, SendCommand(lines) PROVE OrderInv'
    <2> SUFFICES ASSUME NEW s \in Sockets, phase'[s] = "open"
                 PROVE  /\ \A i \in 1 .. Len(pending') : sentOn'[pending'[i]] = s
                        /\ s \notin noisy' => InStep(s)'
      BY DEF OrderInv
    <2>1. phase[s] = "open" /\ socket = s /\ noisy' = noisy
      BY <1>10 DEF SendCommand, SocketInv, InUse
    <2>2. s \notin noisy' => InStep(s)'
      BY <1>10, <2>1, SendKeepsStep DEF OrderInv
    <2>3. ASSUME NEW i \in 1 .. Len(pending') PROVE sentOn'[pending'[i]] = s
      <3> DEFINE c == pending'[i]
                 id == Len(outcome) + 1
      <3>1. c \in 1 .. Len(outcome') /\ outcome'[c] = Waiting
        BY DEF TsTypes, PendingInv
      <3>2. /\ Len(outcome') = id /\ Len(outcome) \in Nat /\ Len(sentOn) = Len(outcome)
            /\ \A j \in 1 .. Len(outcome) : outcome'[j] = outcome[j]
        BY <1>10, AppendProperties DEF SendCommand, TsTypes, HistoryInv, Waiting
      <3>3. sentOn'[id] = s /\ \A j \in 1 .. Len(outcome) : sentOn'[j] = sentOn[j]
        BY <1>10, <2>1, <3>2, AppendProperties DEF SendCommand, TsTypes, HistoryInv
      <3> HIDE DEF c
      <3>4. CASE c = id
        BY <3>3, <3>4 DEF c
      <3>5. CASE c # id
        <4>1. c \in 1 .. Len(outcome)
          BY <3>1, <3>2, <3>5
        <4>2. sentOn'[c] = s
          BY <2>1, <3>1, <3>2, <3>3, <4>1, WaitingSentOn
        <4>3. QED
          BY <4>2 DEF c
      <3>6. QED
        BY <3>4, <3>5
    <2>4. QED
      BY <2>2, <2>3
  <1>11. ASSUME NEW c \in DOMAIN outcome, CommandTimeout(c) PROVE OrderInv'
    <2> SUFFICES ASSUME NEW s \in Sockets, phase'[s] = "open"
                 PROVE  s \in noisy' /\ \A i \in 1 .. Len(pending') : sentOn'[pending'[i]] = s
      BY DEF OrderInv
    <2>1. phase[s] = "open" /\ sentOn' = sentOn
      BY <1>11 DEF CommandTimeout, wireVars
    <2>2. \A id \in 1 .. Len(outcome) : outcome'[id] = Waiting => outcome[id] = Waiting
      BY <1>11 DEF CommandTimeout, TsTypes, HistoryInv
    <2>3. c \in 1 .. Len(outcome) /\ outcome[c] = Waiting
      BY <1>11 DEF CommandTimeout, TsTypes, HistoryInv
    <2>4. sentOn[c] = s
      BY <2>1, <2>3, WaitingSentOn
    <2>5. s \in noisy'
      BY <1>11, <2>4 DEF CommandTimeout
    <2>6. QED
      BY <2>1, <2>2, <2>5, StillSentOn
  <1>12. ASSUME NEW r \in Sockets, OnData(r) PROVE OrderInv'
    <2> SUFFICES ASSUME NEW s \in Sockets, phase'[s] = "open"
                 PROVE  /\ \A i \in 1 .. Len(pending') : sentOn'[pending'[i]] = s
                        /\ s \notin noisy' => InStep(s)'
      BY DEF OrderInv
    <2>1. phase[s] = "open" /\ phase[r] = "open" /\ sentOn' = sentOn
      BY <1>12 DEF OnData, Arrives, TsTypes, WireInv
    <2>2. r = s
      BY <2>1 DEF SocketInv
    <2> DEFINE line == wire[s][1]
    <2>3. /\ line \in Lines
          /\ outcome' = outcome \/ outcome' = [outcome EXCEPT ![pending[1]] = line[1]]
          /\ noisy' = IF OutOfStep(line) THEN noisy \cup {s} ELSE noisy
      BY <1>12, <2>2, FirstSettled
    <2>4. line[1] # Waiting
      BY <2>3 DEF Lines, Waiting
    <2> HIDE DEF line
    <2>5. \A id \in 1 .. Len(outcome) : outcome'[id] = Waiting => outcome[id] = Waiting
      <3> TAKE id \in 1 .. Len(outcome)
      <3> HAVE outcome'[id] = Waiting
      <3>1. CASE outcome' = outcome
        BY <3>1
      <3>2. CASE outcome' = [outcome EXCEPT ![pending[1]] = line[1]]
        <4>1. outcome'[id] = IF id = pending[1] THEN line[1] ELSE outcome[id]
          BY <3>2, ExceptSeq DEF TsTypes, HistoryInv
        <4>2. QED
          BY <2>4, <4>1
      <3>3. QED
        BY <2>3, <3>1, <3>2
    <2>6. ASSUME s \notin noisy' PROVE InStep(s)'
      <3>1. ~OutOfStep(line) /\ s \notin noisy
        BY <2>3, <2>6
      <3>2. QED
        BY <1>12, <2>1, <2>2, <3>1, LineKeepsStep DEF OrderInv, line
    <2>7. QED
      BY <2>1, <2>5, <2>6, StillSentOn
  <1>13. CASE UNCHANGED tsVars
    BY <1>7, <1>13 DEF tsVars
  <1>14. QED
    BY <1>4, <1>5, <1>6, <1>7, <1>8, <1>9, <1>10, <1>11, <1>12, <1>13
       DEF TsNext, AppConnects, OnError, OnEnd, DialTimeout, Reconnect, Disconnect

-----------------------------------------------------------------------------
(* The results *)

\* The invariant of all parts: the flags, sockets, lines and commands of the
\* client agree as long as connect is not called in front of a close event.
THEOREM ClientInvariant == TsSpec => []TsInv
  <1>1. TsInit => TsInv
    <2> SUFFICES ASSUME TsInit PROVE TsInv
      OBVIOUS
    <2>1. SocketInv /\ OrderInv
      BY DEF TsInit, SocketInv, OrderInv, InUse
    <2>2. QED
      BY <2>1, TypesInit DEF TsInv
  <1>2. TsInv /\ [TsNext]_tsVars => TsInv'
    <2> SUFFICES ASSUME TsInv, [TsNext]_tsVars PROVE TsInv'
      OBVIOUS
    <2>1. TsTypes /\ TsTypes'
      BY TypesStep DEF TsInv
    <2>2. ~rushed' => ~rushed
      BY DEF TsNext, AppConnects, Connect, Dial, OnConnect, OnError, OnEnd, DialTimeout,
             OnClose, OnData, Arrives, Reconnect, Disconnect, SendCommand, CommandTimeout,
             connectionVars, tsVars, TsInv, TsTypes, ClientInv
    <2>3. ~rushed' => SocketInv'
      BY <2>1, <2>2, SocketStep DEF TsInv
    <2>4. ~rushed' => OrderInv'
      BY <2>1, <2>2, <2>3, OrderStep DEF TsInv
    <2>5. QED
      BY <2>1, <2>3, <2>4 DEF TsInv
  <1>3. QED
    BY <1>1, <1>2, PTL DEF TsSpec

\* Type correctness, and that the commands which wait are those of the map
\* (index.ts:156-170): a timer, an answer and a close event each take a command
\* out of it, whichever comes first, and the others find nothing.
THEOREM ClientTypeCorrect == TsSpec => []TsTypeOK
  <1>1. TsInv => TsTypeOK
    <2> SUFFICES ASSUME TsInv PROVE TsTypeOK
      OBVIOUS
    <2>1. /\ socket \in Sockets \cup {None}
          /\ {connected, connecting, rushed} \subseteq BOOLEAN
          /\ attempts \in 0 .. MaxAttempts
          /\ timers \in 0 .. MaxTimers
          /\ dialTimers \subseteq Sockets
      BY DEF TsInv, TsTypes, ClientInv
    <2>2. /\ phase \in [Sockets -> {"closed", "dialing", "open", "closing"}]
          /\ \A s \in Sockets : wire[s] # <<>> => phase[s] = "open"
      BY DEF TsInv, TsTypes, WireInv
    <2>3. /\ noisy \subseteq Sockets \cup {None}
          /\ DOMAIN outcome = 1 .. Len(outcome)
          /\ DOMAIN sentOn = 1 .. Len(outcome)
      BY DEF TsInv, TsTypes, HistoryInv
    <2>4. DOMAIN pending = 1 .. Len(pending)
      BY DEF TsInv, TsTypes, PendingInv
    <2>5. {id \in DOMAIN outcome : outcome[id] = Waiting} = {pending[i] : i \in DOMAIN pending}
      BY <2>3, <2>4 DEF TsInv, TsTypes, PendingInv
    <2>6. QED
      BY <2>1, <2>2, <2>3, <2>5 DEF TsTypeOK
  <1>2. QED
    BY <1>1, ClientInvariant, PTL

\* However timers, close events and calls of connect and disconnect interleave,
\* one socket is being connected or in use at most (index.ts:65-67).
THEOREM OneSocketAtATime == TsSpec => []OneSocket
  <1>1. TsInv => OneSocket
    <2> SUFFICES ASSUME TsInv, ~rushed PROVE Cardinality({s \in Sockets : InUse(s)}) <= 1
      BY DEF OneSocket
    <2>1. {s \in Sockets : InUse(s)} \subseteq {socket}
      BY DEF TsInv, SocketInv
    <2>2. IsFiniteSet({socket}) /\ Cardinality({socket}) = 1
      BY FS_Singleton
    <2>3. QED
      BY <2>1, <2>2, FS_Subset
  <1>2. QED
    BY <1>1, ClientInvariant, PTL

\* A client that is not connected has no command left that waits for an answer
\* (index.ts:104-107), also when the connection ended while it was sent.
THEOREM NoneIsLeftWaiting == TsSpec => []NoneLeftWaiting
  <1>1. TsInv => NoneLeftWaiting
    BY DEF TsInv, SocketInv, NoneLeftWaiting, Settled
  <1>2. QED
    BY <1>1, ClientInvariant, PTL

\* An answer settles the command it is for (index.ts:179-202), also when it is cut
\* over any data events, unless a timeout, or a line of the welcome or a further
\* line of an answer that found a command waiting, put them out of step.
THEOREM RepliesAreOwn == TsSpec => OwnReply
  <1>1. ASSUME TsInv, [TsNext]_tsVars, NEW c \in DOMAIN outcome,
               outcome[c] = Waiting, outcome'[c] >= 0, outcome'[c] # c, ~rushed
        PROVE  sentOn[c] \in noisy'
    <2>1. c \in 1 .. Len(outcome) /\ Len(outcome) \in Nat
      BY <1>1 DEF TsInv, TsTypes, HistoryInv
    <2>2. PICK s \in Sockets : OnData(s)
      <3>1. outcome'[c] # Waiting /\ outcome'[c] # Failed /\ outcome'[c] # TimedOut
        BY <1>1 DEF Waiting, Failed, TimedOut
      <3>2. outcome' # outcome
        BY <1>1, <3>1
      <3>3. ASSUME NEW lines \in 1 .. MaxLines PROVE ~SendCommand(lines)
        <4> SUFFICES ASSUME SendCommand(lines) PROVE FALSE
          OBVIOUS
        <4>1. outcome \in Seq(Int) /\ Waiting \in Int
          BY <1>1 DEF TsInv, TsTypes, HistoryInv, Waiting
        <4>2. outcome' = Append(outcome, Waiting)
          BY DEF SendCommand
        <4>3. outcome'[c] = outcome[c]
          BY <2>1, <4>1, <4>2, AppendProperties
        <4>4. QED
          BY <1>1, <3>1, <4>3
      <3>4. ASSUME NEW id \in DOMAIN outcome PROVE ~CommandTimeout(id)
        BY <1>1, <3>1, <3>2 DEF CommandTimeout
      <3>5. ASSUME NEW s \in Sockets PROVE ~OnClose(s)
        BY <1>1, <3>1 DEF OnClose, FailAll
      <3>6. QED
        BY <1>1, <3>2, <3>3, <3>4, <3>5
           DEF TsNext, AppConnects, Connect, Dial, OnConnect, OnError, OnEnd, DialTimeout,
               Reconnect, Disconnect, commandVars, tsVars
    <2>3. TsTypes /\ OrderInv
      BY <1>1 DEF TsInv
    <2> DEFINE line == wire[s][1]
    <2>4. /\ \/ outcome' = outcome
             \/ Len(pending) > 0 /\ outcome' = [outcome EXCEPT ![pending[1]] = line[1]]
          /\ noisy' = IF OutOfStep(line) THEN noisy \cup {s} ELSE noisy
      BY <2>2, <2>3, FirstSettled
    <2> HIDE DEF line
    <2>5. Len(pending) > 0 /\ c = pending[1] /\ outcome'[c] = line[1]
      <3>1. outcome'[c] # outcome[c]
        BY <1>1 DEF Waiting
      <3>2. QED
        BY <1>1, <2>4, <3>1
    <2>6. phase[s] = "open"
      BY <2>2, <2>3 DEF OnData, Arrives, TsTypes, WireInv
    <2>7. sentOn[c] = s
      BY <1>1, <2>1, <2>3, <2>6, WaitingSentOn
    <2>8. ASSUME s \notin noisy' PROVE FALSE
      <3>1. ~OutOfStep(line) /\ s \notin noisy
        BY <2>4, <2>8
      <3>2. InStep(s)
        BY <2>3, <2>6, <3>1 DEF OrderInv
      <3>3. pending[1] = line[1]
        BY <2>2, <2>3, <2>5, <3>1, <3>2, LineKeepsStep DEF line
      <3>4. QED
        BY <1>1, <2>5, <3>3
    <2>9. QED
      BY <2>7, <2>8
  <1>2. TsInv /\ [TsNext]_tsVars =>
          \A id \in DOMAIN outcome :
            outcome[id] = Waiting /\ outcome'[id] >= 0 /\ outcome'[id] # id
              => rushed \/ sentOn[id] \in noisy'
    BY <1>1
  <1>3. QED
    BY <1>2, ClientInvariant, PTL DEF TsSpec, OwnReply
=============================================================================
