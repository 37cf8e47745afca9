---------------------------- MODULE NetworkProofs ----------------------------
(***************************************************************************)
(* Proofs about the server and its Go clients, for any finite number of    *)
(* connections, any commands, with or without Stop.                        *)
(*                                                                         *)
(* ServerInv is inductive.  It says what the WaitGroup counts, where the   *)
(* registered and the cut connections are, that nothing waits to be        *)
(* accepted once Stop has begun, and that the accepting goroutine, which   *)
(* is counted, holds the one connection whose handler is not counted yet;  *)
(* that the queue is closed last follows, because Stop goes on when the    *)
(* WaitGroup is zero and nothing is counted after that.                    *)
(***************************************************************************)
EXTENDS GoClient, FiniteSetTheorems, SequenceTheorems, TLAPS

Places == {"none", "backlog", "pending", "accepted", "reading", "executing", "stuck",
           "left", "gone"}

RunningSet == {c \in Conns : Running(c)}

ServerInv ==
  /\ acceptor \in {"accepting", "counting", "exited"}
  /\ stop \in {"no", "listenerClosed", "waiting", "closingQueue", "stopped"}
  /\ clients \subseteq Conns
  /\ handler \in [Conns -> Places]
  /\ link \in [Conns -> {"up", "cut"}]
  /\ client \in [Conns -> {"off", "welcoming", "ready", "waiting", "leaving", "closed"}]
  /\ queue \in {"open", "stuck"}
  /\ wg = Cardinality(RunningSet) + (IF acceptor = "exited" THEN 0 ELSE 1)
  /\ acceptor = "exited" => stop # "no"
  /\ \A c \in Conns :
       /\ client[c] = "off" => handler[c] = "none"
       /\ stop # "no" => handler[c] # "backlog"
       /\ handler[c] \in {"none", "gone"} => link[c] = "cut"
       /\ c \in clients => handler[c] \in {"reading", "executing", "stuck"}
       /\ handler[c] = "pending" => acceptor = "counting"
  /\ \A c, d \in Conns : handler[c] = "pending" /\ handler[d] = "pending" => c = d
  /\ stop \in {"closingQueue", "stopped"} =>
       acceptor = "exited" /\ \A c \in Conns : handler[c] \in {"none", "gone"}

\* How many handlers run is a number, zero only if none does.
LEMMA RunningCounted ==
  /\ IsFiniteSet(RunningSet)
  /\ Cardinality(RunningSet) \in Nat
  /\ Cardinality(RunningSet) = 0 => RunningSet = {}
  <1>1. IsFiniteSet(RunningSet)
    BY FS_Subset, ServerAssumption DEF RunningSet
  <1>2. QED
    BY <1>1, FS_CardinalityType, FS_EmptySet

LEMMA RunningCountedNext == Cardinality(RunningSet)' \in Nat
  <1>1. IsFiniteSet(RunningSet)'
    BY FS_Subset, ServerAssumption DEF RunningSet
  <1>2. QED
    BY <1>1, FS_CardinalityType

\* A step that lets no handler begin or end keeps the count.
LEMMA SameCount ==
  ASSUME \A c \in Conns : Running(c)' <=> Running(c)
  PROVE  Cardinality(RunningSet') = Cardinality(RunningSet)
  <1>1. RunningSet' = RunningSet
    BY DEF RunningSet
  <1>2. QED
    BY <1>1

\* Counting the handler that is started.
LEMMA StartCounts ==
  ASSUME NEW c \in Conns, ServerInv, StartHandler(c)
  PROVE  Cardinality(RunningSet') = Cardinality(RunningSet) + 1
  <1>1. RunningSet' = RunningSet \cup {c} /\ c \notin RunningSet
    BY DEF RunningSet, Running, StartHandler, At, ServerInv, Places
  <1>2. QED
    BY <1>1, RunningCounted, FS_AddElement

\* Counting the handler that is done.
LEMMA DoneCounts ==
  ASSUME NEW c \in Conns, ServerInv, Done(c)
  PROVE  Cardinality(RunningSet') = Cardinality(RunningSet) - 1
  <1>1. RunningSet' = RunningSet \ {c} /\ c \in RunningSet
    BY DEF RunningSet, Running, Done, At, ServerInv, Places
  <1>2. QED
    BY <1>1, RunningCounted, FS_RemoveElement

-----------------------------------------------------------------------------
LEMMA ServerInvInit == NetworkInit => ServerInv
  <1> SUFFICES ASSUME NetworkInit PROVE ServerInv
    OBVIOUS
  <1>1. RunningSet = {}
    BY DEF RunningSet, Running, NetworkInit, ServerInit
  <1>2. Cardinality(RunningSet) = 0
    BY <1>1, FS_EmptySet
  <1>3. QED
    BY <1>2 DEF ServerInv, NetworkInit, ServerInit, Places

\* The steps of a handler between its first and its last.
LEMMA HandlerStep ==
  ASSUME NEW c \in Conns, ServerInv, UNCHANGED clientVars,
         Register(c) \/ RunCommand(c) \/ QueueBlocks(c) \/ Reply(c) \/ Leave(c)
  PROVE  ServerInv'
  <1> USE DEF ServerInv, Places, clientVars, At
  <1>1. /\ handler' \in [Conns -> Places]
        /\ clients' \subseteq Conns
        /\ UNCHANGED <<acceptor, stop, wg, link>>
        /\ queue' \in {"open", "stuck"}
        /\ \A d \in Conns : Running(d)' <=> Running(d)
    BY DEF Register, RunCommand, QueueBlocks, Reply, Leave, Running
  <1>2. Cardinality(RunningSet') = Cardinality(RunningSet)
    BY <1>1, SameCount
  <1>3. \A d \in Conns :
          /\ client'[d] = "off" => handler'[d] = "none"
          /\ stop' # "no" => handler'[d] # "backlog"
          /\ handler'[d] \in {"none", "gone"} => link'[d] = "cut"
          /\ d \in clients' => handler'[d] \in {"reading", "executing", "stuck"}
          /\ handler'[d] = "pending" => handler[d] = "pending"
    BY DEF Register, RunCommand, QueueBlocks, Reply, Leave
  <1>4. stop' \in {"closingQueue", "stopped"} =>
          acceptor' = "exited" /\ \A d \in Conns : handler'[d] \in {"none", "gone"}
    BY DEF Register, RunCommand, QueueBlocks, Reply, Leave
  <1>5. QED
    BY <1>1, <1>2, <1>3, <1>4

LEMMA AcceptStep ==
  ASSUME NEW c \in Conns, ServerInv, UNCHANGED clientVars, Accept(c)
  PROVE  ServerInv'
  <1>1. Cardinality(RunningSet') = Cardinality(RunningSet)
    BY SameCount DEF ServerInv, Places, Accept, At, Running
  <1>2. QED
    BY <1>1, RunningCounted DEF ServerInv, Places, clientVars, At, Accept

LEMMA StartStep ==
  ASSUME NEW c \in Conns, ServerInv, UNCHANGED clientVars, StartHandler(c)
  PROVE  ServerInv'
  <1>1. acceptor = "counting" /\ acceptor' = "accepting"
    BY DEF ServerInv, StartHandler
  <1>2. wg' = Cardinality(RunningSet') + (IF acceptor' = "exited" THEN 0 ELSE 1)
    BY <1>1, StartCounts, RunningCounted DEF ServerInv, StartHandler
  <1>3. \A d \in Conns : handler'[d] # "pending"
    BY DEF ServerInv, Places, At, StartHandler
  <1>4. QED
    BY <1>1, <1>2, <1>3 DEF ServerInv, Places, clientVars, At, StartHandler

LEMMA DoneStep ==
  ASSUME NEW c \in Conns, ServerInv, UNCHANGED clientVars, Done(c)
  PROVE  ServerInv'
  <1>1. Cardinality(RunningSet') = Cardinality(RunningSet) - 1
    BY DoneCounts
  <1>2. wg' = Cardinality(RunningSet') + (IF acceptor' = "exited" THEN 0 ELSE 1)
    BY <1>1, RunningCounted DEF ServerInv, Done
  <1>3. QED
    BY <1>2 DEF ServerInv, Places, clientVars, At, Done

LEMMA AcceptorExitsStep ==
  ASSUME ServerInv, UNCHANGED clientVars, AcceptorExits
  PROVE  ServerInv'
  <1>1. Cardinality(RunningSet') = Cardinality(RunningSet)
    BY SameCount DEF AcceptorExits, handlerVars, Running
  <1>2. QED
    BY <1>1, RunningCounted DEF ServerInv, Places, clientVars, AcceptorExits, handlerVars

LEMMA StopStep ==
  ASSUME ServerInv, UNCHANGED clientVars,
         StopListening \/ StopGoesOn
  PROVE  ServerInv'
  <1>1. \A c \in Conns : Running(c)' <=> Running(c)
    BY DEF ServerInv, Places, StopListening, StopClosesClients, StopGoesOn,
           StopClosesQueue, CloseHangs, StopReturns, handlerVars, Running
  <1>2. Cardinality(RunningSet') = Cardinality(RunningSet)
    BY <1>1, SameCount
  <1>3. CASE StopListening
    BY <1>2, <1>3 DEF ServerInv, Places, clientVars, StopListening
  <1>4. CASE StopClosesClients
    BY <1>2, <1>4 DEF ServerInv, Places, clientVars, StopClosesClients
  <1>5. CASE StopClosesQueue
    <2>1. Cardinality(RunningSet) = 0 /\ acceptor = "exited"
      BY <1>5, RunningCounted DEF ServerInv, StopClosesQueue
    <2>2. \A c \in Conns : ~Running(c)
      BY <2>1, RunningCounted DEF RunningSet
    <2>3. \A c \in Conns : handler[c] \in {"none", "gone"}
      BY <1>5, <2>1, <2>2 DEF ServerInv, Places, Running, StopClosesQueue
    <2>4. QED
      BY <1>2, <1>5, <2>1, <2>3 DEF ServerInv, Places, clientVars, StopClosesQueue, handlerVars
  <1>6. CASE StopReturns
    BY <1>2, <1>6 DEF ServerInv, Places, clientVars, StopReturns, handlerVars
  <1>7. CASE CloseHangs
    BY <1>2, <1>7 DEF ServerInv, Places, clientVars, CloseHangs, handlerVars
  <1>8. QED
    BY <1>3, <1>4, <1>5, <1>6, <1>7 DEF StopGoesOn

LEMMA ConnectStep ==
  ASSUME NEW c \in Conns, ServerInv, Connect(c)
  PROVE  ServerInv'
  <1>1. \A d \in Conns : Running(d)' <=> Running(d)
    BY DEF ServerInv, Places, Connect, Running
  <1>2. Cardinality(RunningSet') = Cardinality(RunningSet)
    BY <1>1, SameCount
  <1>3. QED
    BY <1>2 DEF ServerInv, Places, Connect, Step

\* What any other step of a client leaves of the server's state.
LEMMA ClientStep ==
  ASSUME ServerInv,
         UNCHANGED <<acceptor, stop, wg, queue, clients, handler>>,
         link' \in [Conns -> {"up", "cut"}],
         \A d \in Conns : link[d] = "cut" => link'[d] = "cut",
         client' \in [Conns -> {"off", "welcoming", "ready", "waiting", "leaving", "closed"}],
         \A d \in Conns : client'[d] = "off" => client[d] = "off"
  PROVE  ServerInv'
  <1>1. Cardinality(RunningSet') = Cardinality(RunningSet)
    BY SameCount DEF Running
  <1>2. QED
    BY <1>1 DEF ServerInv

LEMMA ClientNextKeeps ==
  ASSUME ServerInv, ClientNext
  PROVE  ServerInv'
  <1> PICK c \in Conns :
        \/ Connect(c)
        \/ \E kind \in Sends[c] : SendCommand(c, kind)
        \/ Disconnect(c)
        \/ Proceeds(c)
        \/ Dies(c)
    BY DEF ClientNext
  <1>1. CASE Connect(c)
    BY <1>1, ConnectStep
  <1>2. CASE (\E kind \in Sends[c] : SendCommand(c, kind)) \/ Disconnect(c)
    <2>1. UNCHANGED <<acceptor, stop, wg, queue, clients, handler, link>>
      BY <1>2 DEF SendCommand, Disconnect, Write
    <2>2. client' = [client EXCEPT ![c] = "waiting"] \/ client' = [client EXCEPT ![c] = "leaving"]
      BY <1>2 DEF SendCommand, Disconnect, Write, Step
    <2>3. QED
      BY <2>1, <2>2, ClientStep DEF ServerInv
  <1>3. CASE ReadWelcome(c) \/ ReadResponse(c) \/ ReadFails(c)
    <2>1. UNCHANGED <<acceptor, stop, wg, queue, clients, handler, link>>
      BY <1>3 DEF ReadWelcome, ReadResponse, ReadFails, Take
    <2>2. client' = [client EXCEPT ![c] = "ready"]
      BY <1>3 DEF ReadWelcome, ReadResponse, ReadFails, Step
    <2>3. QED
      BY <2>1, <2>2, ClientStep DEF ServerInv
  <1>4. CASE WelcomeFails(c) \/ Disconnected(c) \/ Dies(c)
    <2>1. Hangup(c)
      BY <1>4 DEF WelcomeFails, Disconnected, Dies
    <2>2. QED
      BY <2>1, ClientStep DEF ServerInv, Hangup, Step
  <1>5. QED
    BY <1>1, <1>2, <1>3, <1>4 DEF Proceeds

\* ServerInv holds in every reachable state.
THEOREM ServerInvariant == NetworkSpec => []ServerInv
  <1>1. NetworkInit => ServerInv
    BY ServerInvInit
  <1>2. ServerInv /\ [NetworkNext]_networkVars => ServerInv'
    <2> SUFFICES ASSUME ServerInv, [NetworkNext]_networkVars PROVE ServerInv'
      OBVIOUS
    <2>1. CASE ClientNext
      BY <2>1, ClientNextKeeps
    <2>2. CASE ServerNext /\ UNCHANGED clientVars
      BY <2>2, HandlerStep, AcceptStep, StartStep, DoneStep, AcceptorExitsStep, StopStep
         DEF ServerNext, Handle
    <2>3. CASE UNCHANGED networkVars
      <3>1. UNCHANGED <<acceptor, stop, wg, queue, clients, handler, link, client>>
        BY <2>3 DEF networkVars, serverVars, clientVars
      <3>2. QED
        BY <3>1, ClientStep DEF ServerInv
    <2>4. QED
      BY <2>1, <2>2, <2>3 DEF NetworkNext
  <1>3. QED
    BY <1>1, <1>2, PTL DEF NetworkSpec

\* A handler is counted, at whatever moment of Stop, while its accepting
\* goroutine still is: never from zero, never when Wait has returned; and the
\* count never falls below zero (server.go:72, 97, 109, 123, 130).
THEOREM WaitGroupKeepsRules == NetworkSpec => WaitGroupRules
  <1>1. ASSUME ServerInv, ServerInv', [NetworkNext]_networkVars
        PROVE  [/\ wg' > wg => wg > 0 /\ stop \in {"no", "listenerClosed", "waiting"}
                /\ wg' >= 0]_serverVars
    <2>1. wg' >= 0
      BY <1>1, RunningCountedNext DEF ServerInv
    <2>2. CASE \E c \in Conns : StartHandler(c)
      <3>1. acceptor = "counting"
        BY <2>2, <1>1 DEF StartHandler, ServerInv
      <3>2. wg > 0 /\ stop \in {"no", "listenerClosed", "waiting"}
        BY <3>1, <1>1, RunningCounted DEF ServerInv
      <3>3. QED
        BY <2>1, <3>2
    <2>3. CASE ~\E c \in Conns : StartHandler(c)
      <3>1. wg' = wg \/ wg' = wg - 1
        <4>1. CASE ClientNext
          BY <4>1 DEF ClientNext, Connect, SendCommand, Disconnect, Write, Proceeds, ReadWelcome,
                      WelcomeFails, ReadResponse, ReadFails, Disconnected, Dies, Hangup, Take
        <4>2. CASE ServerNext
          BY <2>3, <4>2 DEF ServerNext, Accept, Handle, Register, RunCommand, QueueBlocks, Reply,
                            Leave, Done, AcceptorExits, StopListening, StopGoesOn,
                            StopClosesClients, StopClosesQueue, CloseHangs, StopReturns
        <4>3. CASE UNCHANGED networkVars
          BY <4>3 DEF networkVars, serverVars
        <4>4. QED
          BY <1>1, <4>1, <4>2, <4>3 DEF NetworkNext
      <3>2. wg \in Int
        BY <1>1, RunningCounted DEF ServerInv
      <3>3. QED
        BY <2>1, <3>1, <3>2
    <2>4. QED
      BY <2>2, <2>3
  <1>2. QED
    BY <1>1, ServerInvariant, PTL DEF NetworkSpec, WaitGroupRules

\* Stop closes the queue when no handler is left, and none is started after that
\* (server.go:96-101).
THEOREM QueueIsClosedLast == NetworkSpec => []QueueClosesLast
  <1>1. ServerInv => QueueClosesLast
    BY DEF ServerInv, QueueClosesLast, Running
  <1>2. QED
    BY <1>1, ServerInvariant, PTL

-----------------------------------------------------------------------------
(* Types.  Lines and answers stay what they are on their way. *)

LEMMA AnswersTyped ==
  ASSUME NEW cmd \in Commands
  PROVE  Answers(cmd) \in Seq(AnswerLines)
  <1>1. Answer(cmd) \in AnswerLines
    BY DEF Commands, AnswerLines, Answer
  <1>2. <<>> \in Seq(AnswerLines) /\ <<Answer(cmd)>> \in Seq(AnswerLines)
          /\ <<Answer(cmd), Answer(cmd)>> \in Seq(AnswerLines)
    BY <1>1
  <1>3. QED
    BY <1>2 DEF Answers

\* What a handler changes keeps its type.
LEMMA HandlerTypes ==
  ASSUME ServerTypeOK, NEW c \in Conns, Handle(c)
  PROVE  /\ clients' \subseteq Conns
         /\ link' \in [Conns -> {"up", "cut"}]
         /\ inbox' \in [Conns -> Seq(Commands)]
         /\ outbox' \in [Conns -> Seq(AnswerLines)]
         /\ doing' \in [Conns -> Commands]
         /\ unread' \in [Conns -> Int]
         /\ UNCHANGED <<acceptor, stop, missed>>
  <1> USE DEF ServerTypeOK
  <1>0. Put(c, <<Welcome>>) => outbox' \in [Conns -> Seq(AnswerLines)]
    <2>1. Welcome \in AnswerLines
      BY DEF AnswerLines, Welcome, Answer, NoCommand, Command
    <2>2. QED
      BY <2>1, ConcatProperties DEF Put
  <1>1. CASE Register(c)
    BY <1>0, <1>1 DEF Register, At
  <1>2. CASE RunCommand(c)
    <2>1. inbox[c] \in Seq(Commands) /\ inbox[c] # <<>>
      BY <1>2 DEF RunCommand
    <2>2. Head(inbox[c]) \in Commands /\ Tail(inbox[c]) \in Seq(Commands)
      BY <2>1, HeadTailProperties
    <2>3. UNCHANGED <<acceptor, stop, missed, clients, link, outbox>>
            /\ inbox' = [inbox EXCEPT ![c] = Tail(@)]
      BY <1>2 DEF RunCommand
    <2>4. doing' \in [Conns -> Commands]
      BY <1>2, <2>2 DEF RunCommand
    <2>5. unread' \in [Conns -> Int]
      BY <1>2 DEF RunCommand
    <2>6. QED
      BY <2>2, <2>3, <2>4, <2>5
  <1>3. CASE QueueBlocks(c)
    <2>1. inbox[c] \in Seq(Commands) /\ inbox[c] # <<>>
      BY <1>3 DEF QueueBlocks
    <2>2. Head(inbox[c]) \in Commands /\ Tail(inbox[c]) \in Seq(Commands)
      BY <2>1, HeadTailProperties
    <2>3. UNCHANGED <<acceptor, stop, missed, clients, link, outbox, unread>>
            /\ inbox' = [inbox EXCEPT ![c] = Tail(@)]
            /\ doing' = [doing EXCEPT ![c] = Head(inbox[c])]
      BY <1>3 DEF QueueBlocks
    <2>4. QED
      BY <2>2, <2>3
  <1>4. CASE Reply(c)
    <2>1. Answers(doing[c]) \in Seq(AnswerLines) /\ NoCommand \in Commands
      BY AnswersTyped DEF Commands, NoCommand, Command, Kinds
    <2>2. Put(c, Answers(doing[c])) => outbox' \in [Conns -> Seq(AnswerLines)]
      BY <2>1, ConcatProperties DEF Put
    <2>3. QED
      BY <1>4, <2>1, <2>2 DEF Reply, At
  <1>5. CASE Leave(c)
    <2>1. <<>> \in Seq(Commands)
      OBVIOUS
    <2>2. QED
      BY <1>5, <2>1 DEF Leave, At
  <1>6. CASE Done(c)
    BY <1>6 DEF Done, At
  <1>7. QED
    BY <1>1, <1>2, <1>3, <1>4, <1>5, <1>6 DEF Handle

\* What a client changes keeps its type.
LEMMA ClientTypes ==
  ASSUME NetworkTypeOK, ClientNext
  PROVE  /\ inbox' \in [Conns -> Seq(Commands)]
         /\ outbox' \in [Conns -> Seq(AnswerLines)]
         /\ unread' \in [Conns -> Int]
         /\ asked' \in [Conns -> [n : 0 .. MaxCommands, kind : Kinds]]
         /\ quitted' \subseteq Conns
         /\ UNCHANGED <<clients, doing, missed>>
  <1> USE DEF NetworkTypeOK, ServerTypeOK
  <1>0. PICK c \in Conns :
          \/ Connect(c)
          \/ \E kind \in Sends[c] : SendCommand(c, kind)
          \/ Disconnect(c)
          \/ Proceeds(c)
          \/ Dies(c)
    BY DEF ClientNext
  <1>1. CASE Connect(c)
    BY <1>1 DEF Connect
  <1>2. CASE (\E kind \in Sends[c] : SendCommand(c, kind)) \/ Disconnect(c)
    <2>1. PICK kind \in Kinds, place \in {"waiting", "leaving"} : Write(c, kind, place)
      BY <1>2, ClientAssumption DEF SendCommand, Disconnect, Kinds
    <2>2. quitted' \subseteq Conns
      BY <1>2 DEF SendCommand, Disconnect
    <2>3. /\ asked' = [asked EXCEPT ![c] = [n |-> asked[c].n + 1, kind |-> kind]]
          /\ asked[c] \in [n : 0 .. MaxCommands, kind : Kinds]
          /\ asked[c].n < MaxCommands
      BY <2>1 DEF Write, Command
    <2>4. asked[c].n + 1 \in 0 .. MaxCommands
      BY <2>3, ClientAssumption
    <2>5. asked' \in [Conns -> [n : 0 .. MaxCommands, kind : Kinds]] /\ asked'[c] \in Commands
      BY <2>3, <2>4 DEF Commands
    <2>6. inbox' \in [Conns -> Seq(Commands)]
      <3>1. Append(inbox[c], asked'[c]) \in Seq(Commands)
        BY <2>5, AppendProperties
      <3>2. QED
        BY <2>1, <3>1 DEF Write
    <2>7. QED
      BY <2>1, <2>2, <2>5, <2>6 DEF Write
  <1>3. CASE ReadWelcome(c) \/ ReadResponse(c)
    <2>1. Take(c)
      BY <1>3 DEF ReadWelcome, ReadResponse
    <2>2. outbox[c] \in Seq(AnswerLines) /\ outbox[c] # <<>>
      BY <2>1 DEF Take
    <2>3. Tail(outbox[c]) \in Seq(AnswerLines)
      BY <2>2, HeadTailProperties
    <2>4. unread' \in [Conns -> Int]
      BY <2>1 DEF Take
    <2>5. /\ outbox' = [outbox EXCEPT ![c] = Tail(@)]
          /\ UNCHANGED <<inbox, asked, quitted, clients, doing, missed>>
      BY <2>1 DEF Take
    <2>6. QED
      BY <2>3, <2>4, <2>5
  <1>4. CASE ReadFails(c)
    <2>1. <<>> \in Seq(AnswerLines)
      OBVIOUS
    <2>2. QED
      BY <1>4, <2>1 DEF ReadFails
  <1>5. CASE WelcomeFails(c) \/ Disconnected(c) \/ Dies(c)
    <2>1. Hangup(c)
      BY <1>5 DEF WelcomeFails, Disconnected, Dies
    <2>2. NoCommand \in [n : 0 .. MaxCommands, kind : Kinds] /\ <<>> \in Seq(AnswerLines)
      BY ClientAssumption DEF NoCommand, Command, Kinds
    <2>3. QED
      BY <2>1, <2>2 DEF Hangup
  <1>6. QED
    BY <1>0, <1>1, <1>2, <1>3, <1>4, <1>5 DEF Proceeds

\* Every variable of the server and its clients keeps to its type.
THEOREM NetworkTypeCorrect == NetworkSpec => []NetworkTypeOK
  <1>1. NetworkInit => NetworkTypeOK
    <2> SUFFICES ASSUME NetworkInit PROVE NetworkTypeOK
      OBVIOUS
    <2>1. NoCommand \in [n : 0 .. MaxCommands, kind : Kinds] /\ NoCommand \in Commands
      BY ClientAssumption DEF NoCommand, Command, Kinds, Commands
    <2>2. QED
      BY <2>1 DEF NetworkInit, ServerInit, NetworkTypeOK, ServerTypeOK
  <1>2. ServerInv' /\ NetworkTypeOK /\ ServerInv /\ [NetworkNext]_networkVars => NetworkTypeOK'
    <2> SUFFICES ASSUME ServerInv', NetworkTypeOK, ServerInv, [NetworkNext]_networkVars
                 PROVE  NetworkTypeOK'
      OBVIOUS
    <2>1. /\ acceptor' \in {"accepting", "counting", "exited"}
          /\ queue' \in {"open", "stuck"}
          /\ stop' \in {"no", "listenerClosed", "waiting", "closingQueue", "stopped"}
          /\ clients' \subseteq Conns
          /\ handler' \in [Conns -> Places]
          /\ link' \in [Conns -> {"up", "cut"}]
          /\ client' \in [Conns -> {"off", "welcoming", "ready", "waiting", "leaving", "closed"}]
      BY DEF ServerInv
    <2>2. wg' \in Nat
      BY RunningCountedNext DEF ServerInv
    <2>3. /\ missed' \subseteq Conns
          /\ inbox' \in [Conns -> Seq(Commands)]
          /\ outbox' \in [Conns -> Seq(AnswerLines)]
          /\ doing' \in [Conns -> Commands]
          /\ unread' \in [Conns -> Int]
          /\ asked' \in [Conns -> [n : 0 .. MaxCommands, kind : Kinds]]
          /\ quitted' \subseteq Conns
      <3>1. CASE ClientNext
        BY <3>1, ClientTypes DEF NetworkTypeOK, ServerTypeOK
      <3>2. CASE (\E c \in Conns : Handle(c)) /\ UNCHANGED clientVars
        BY <3>2, HandlerTypes DEF NetworkTypeOK, ServerTypeOK, clientVars
      <3>3. CASE /\ \/ \E c \in Conns : Accept(c) \/ StartHandler(c)
                    \/ AcceptorExits \/ StopListening \/ StopGoesOn
                 /\ UNCHANGED clientVars
        BY <3>3 DEF NetworkTypeOK, ServerTypeOK, clientVars, handlerVars,
                    Accept, StartHandler, AcceptorExits, StopListening, StopGoesOn,
                    StopClosesClients, StopClosesQueue, CloseHangs, StopReturns
      <3>4. CASE UNCHANGED networkVars
        BY <3>4 DEF NetworkTypeOK, ServerTypeOK, networkVars, serverVars,
                    clientVars
      <3>5. QED
        BY <3>1, <3>2, <3>3, <3>4 DEF NetworkNext, ServerNext
    <2>4. QED
      BY <2>1, <2>2, <2>3 DEF NetworkTypeOK, ServerTypeOK, Places
  <1>3. QED
    BY <1>1, <1>2, ServerInvariant, PTL DEF NetworkSpec
-----------------------------------------------------------------------------
(* The dialog of a client and the handler at the other end. *)

\* Where a client's one command is: on its way, being executed, or answered (or
\* passed over, or lost with its connection), or waiting for ever; and what is
\* dequeued and unread then.
OnItsWay(c) ==
  /\ inbox[c] = <<asked[c]>> /\ handler[c] \notin {"executing", "stuck"}
  /\ outbox[c] = <<>> /\ unread[c] = 0
Executed(c) ==
  /\ inbox[c] = <<>> /\ handler[c] = "executing" /\ doing[c] = asked[c] /\ outbox[c] = <<>>
  /\ unread[c] = IF asked[c].kind = "listen" THEN 1 ELSE 0
Settled(c) ==
  /\ inbox[c] = <<>> /\ handler[c] \notin {"executing", "stuck"}
  /\ unread[c] = IF outbox[c] # <<>> /\ asked[c].kind = "listen" THEN 1 ELSE 0
Blocked(c) ==
  inbox[c] = <<>> /\ handler[c] = "stuck" /\ outbox[c] = <<>> /\ unread[c] = 0

\* What holds of a connection until its user sends QUIT.  Nothing is written to
\* a connection that is cut, so only what has arrived is left of it: answers,
\* or one command that the handler may still run.
Dialog(c) ==
  /\ handler[c] \in {"backlog", "pending", "accepted"} => client[c] \in {"welcoming", "closed"}
  /\ client[c] \in {"off", "welcoming"} =>
       /\ c \notin quitted
       /\ inbox[c] = <<>>
       /\ handler[c] \notin {"executing", "stuck"}
       /\ unread[c] = 0
  /\ client[c] = "off" => outbox[c] = <<>>
  /\ client[c] = "welcoming" =>
       /\ outbox[c] \in {<<>>, <<Welcome>>}
       /\ handler[c] \in {"backlog", "pending", "accepted"} => outbox[c] = <<>>
  /\ client[c] = "closed" => link[c] = "cut"
  /\ c \notin quitted =>
       /\ client[c] = "ready" =>
            /\ outbox[c] = <<>>
            /\ link[c] = "up" => Settled(c)
       /\ client[c] = "waiting" =>
            /\ asked[c].kind # "quit"
            /\ outbox[c] \in {<<>>, <<Answer(asked[c])>>}
            /\ link[c] = "up" => OnItsWay(c) \/ Executed(c) \/ Settled(c) \/ Blocked(c)
       /\ client[c] = "leaving" /\ link[c] = "up" =>
            /\ asked[c].kind = "quit"
            /\ inbox[c] \in {<<>>, <<asked[c]>>}
            /\ unread[c] = 0
       /\ link[c] = "cut" =>
            /\ unread[c] <= 1
            /\ inbox[c] # <<>> => Tail(inbox[c]) = <<>> /\ unread[c] <= 0

DialogInv == \A c \in Conns : Dialog(c)

\* Wherever the command of a connection is, cutting it leaves at most one batch
\* unread, and none if the command may still run.
LEMMA CutAnywhere ==
  ASSUME NEW c \in Conns, Dialog(c), NetworkTypeOK, c \notin quitted
  PROVE  /\ unread[c] <= 1
         /\ inbox[c] # <<>> => Tail(inbox[c]) = <<>> /\ unread[c] <= 0
  <1>1. inbox[c] = <<asked[c]>> => Tail(inbox[c]) = <<>>
    OBVIOUS
  <1>2. CASE link[c] = "cut"
    BY <1>2 DEF Dialog
  <1>3. CASE link[c] = "up"
    <2>1. \/ inbox[c] = <<>> /\ unread[c] \in {0, 1}
          \/ inbox[c] = <<asked[c]>> /\ unread[c] = 0
      <3>1. CASE client[c] \in {"off", "welcoming"}
        BY <3>1 DEF Dialog
      <3>2. CASE client[c] = "ready"
        BY <1>3, <3>2 DEF Dialog, Settled
      <3>3. CASE client[c] = "waiting"
        BY <1>3, <3>3 DEF Dialog, OnItsWay, Executed, Settled, Blocked
      <3>4. CASE client[c] = "leaving"
        BY <1>3, <3>4 DEF Dialog
      <3>5. CASE client[c] = "closed"
        BY <1>3, <3>5 DEF Dialog
      <3>6. client[c] \in {"off", "welcoming", "ready", "waiting", "leaving", "closed"}
        BY DEF NetworkTypeOK
      <3>7. QED
        BY <3>1, <3>2, <3>3, <3>4, <3>5, <3>6
    <2>2. CASE inbox[c] = <<>> /\ unread[c] \in {0, 1}
      BY <2>2
    <2>3. CASE inbox[c] = <<asked[c]>> /\ unread[c] = 0
      BY <1>1, <2>3
    <2>4. QED
      BY <2>1, <2>2, <2>3
  <1>4. link[c] \in {"up", "cut"}
    BY DEF NetworkTypeOK, ServerTypeOK
  <1>5. QED
    BY <1>2, <1>3, <1>4

\* A step that leaves the lines of c alone keeps its dialog, also if it cuts the
\* connection, or moves a handler that does not execute and will not.
LEMMA DialogKept ==
  ASSUME NEW c \in Conns, Dialog(c), NetworkTypeOK,
         client'[c] = client[c], asked'[c] = asked[c],
         inbox'[c] = inbox[c], outbox'[c] = outbox[c], doing'[c] = doing[c],
         unread'[c] = unread[c],
         c \in quitted' <=> c \in quitted,
         link'[c] \in {link[c], "cut"},
         \/ handler'[c] = handler[c]
         \/ handler'[c] = "pending" /\ handler[c] = "backlog"
         \/ handler'[c] = "accepted" /\ handler[c] = "pending"
         \/ handler'[c] \in {"left", "gone"} /\ handler[c] \notin {"executing", "stuck"}
  PROVE  Dialog(c)'
  <1> USE DEF OnItsWay, Executed, Settled, Blocked
  <1>1. CASE link'[c] = link[c]
    BY <1>1 DEF Dialog
  <1>2. CASE link'[c] = "cut"
    BY <1>2, CutAnywhere DEF Dialog
  <1>3. QED
    BY <1>1, <1>2

\* The steps of a handler, on its own connection.
LEMMA DialogOfHandler ==
  ASSUME NEW c \in Conns, Dialog(c), NetworkTypeOK, UNCHANGED clientVars,
         Register(c) \/ RunCommand(c) \/ QueueBlocks(c) \/ Reply(c) \/ Leave(c)
  PROVE  Dialog(c)'
  <1> USE DEF NetworkTypeOK, ServerTypeOK, clientVars, At
  <1>1. CASE Register(c)
    <2>1. /\ client[c] \in {"welcoming", "closed"}
          /\ client[c] = "welcoming" => outbox[c] = <<>>
      BY <1>1 DEF Dialog, Register
    <2>2. client[c] = "welcoming" => outbox'[c] \in {<<>>, <<Welcome>>}
      BY <1>1, <2>1 DEF Register, Put
    <2>3. /\ handler'[c] = "reading"
          /\ UNCHANGED <<inbox, doing, link, unread>>
      BY <1>1 DEF Register
    <2>4. QED
      BY <2>1, <2>2, <2>3 DEF Dialog
  <1>2. CASE RunCommand(c)
    <2>1. /\ inbox[c] # <<>> /\ handler[c] = "reading"
          /\ handler'[c] = "executing"
          /\ doing'[c] = Head(inbox[c])
          /\ inbox'[c] = Tail(inbox[c])
          /\ unread'[c] = IF Head(inbox[c]).kind = "listen" THEN unread[c] + 1 ELSE unread[c]
          /\ UNCHANGED <<outbox, link>>
      BY <1>2 DEF RunCommand
    <2>2. client[c] \notin {"off", "welcoming"}
      BY <2>1 DEF Dialog
    <2>3. client[c] = "ready" /\ c \notin quitted => link[c] # "up"
      BY <2>1 DEF Dialog, Settled
    <2>4. Head(<<asked[c]>>) = asked[c] /\ Tail(<<asked[c]>>) = <<>>
      OBVIOUS
    <2>5. ASSUME client[c] = "waiting", c \notin quitted, link[c] = "up" PROVE Executed(c)'
      <3>1. OnItsWay(c)
        BY <2>1, <2>5 DEF Dialog, Executed, Settled, Blocked
      <3>2. inbox[c] = <<asked[c]>> /\ outbox[c] = <<>> /\ unread[c] = 0
        BY <3>1 DEF OnItsWay
      <3>3. doing'[c] = asked[c] /\ inbox'[c] = <<>>
        BY <2>1, <2>4, <3>2
      <3>4. unread'[c] = IF asked[c].kind = "listen" THEN 1 ELSE 0
        BY <2>1, <2>4, <3>2
      <3>5. asked' = asked
        OBVIOUS
      <3>6. QED
        BY <2>1, <3>2, <3>3, <3>4, <3>5 DEF Executed
    <2>6. client[c] = "leaving" /\ c \notin quitted /\ link[c] = "up" =>
            /\ asked[c].kind = "quit"
            /\ inbox'[c] = <<>>
            /\ unread'[c] = 0
      BY <2>1, <2>4 DEF Dialog
    <2>7. c \notin quitted /\ link[c] = "cut" => unread'[c] <= 1 /\ inbox'[c] = <<>>
      BY <2>1 DEF Dialog
    <2>8. QED
      BY <2>1, <2>2, <2>3, <2>5, <2>6, <2>7 DEF Dialog
  <1>3. CASE Reply(c)
    <2>1. /\ handler[c] = "executing"
          /\ handler'[c] = "reading"
          /\ UNCHANGED <<inbox, link, unread>>
          /\ link[c] # "up" => outbox'[c] = outbox[c]
          /\ link[c] = "up" => outbox'[c] = outbox[c] \o Answers(doing[c])
      BY <1>3 DEF Reply, Put
    <2>2. client[c] \notin {"off", "welcoming"}
      BY <2>1 DEF Dialog
    <2>3. client[c] = "ready" /\ c \notin quitted => link[c] # "up"
      BY <2>1 DEF Dialog, Settled
    <2>4. ASSUME client[c] = "waiting", c \notin quitted, link[c] = "up"
          PROVE  Settled(c)' /\ outbox'[c] \in {<<>>, <<Answer(asked[c])>>}
      <3>1. Executed(c)
        BY <2>1, <2>4 DEF Dialog, OnItsWay, Settled, Blocked
      <3>2. outbox'[c] = <<>> \o Answers(asked[c])
        BY <2>1, <2>4, <3>1 DEF Executed
      <3>3. asked[c].kind # "quit"
        BY <2>4 DEF Dialog
      <3>4. /\ Answers(asked[c]) \in {<<>>, <<Answer(asked[c])>>}
            /\ asked[c].kind = "listen" => Answers(asked[c]) = <<Answer(asked[c])>>
        BY <3>3 DEF Answers
      <3>5. <<>> \o Answers(asked[c]) = Answers(asked[c])
        BY <3>4
      <3>6. <<Answer(asked[c])>> # <<>>
        OBVIOUS
      <3>7. Settled(c)'
        <4>1. inbox'[c] = <<>> /\ handler'[c] \notin {"executing", "stuck"} /\ asked' = asked
          BY <2>1, <3>1 DEF Executed
        <4>2. asked[c].kind = "listen" => outbox'[c] # <<>> /\ unread'[c] = 1
          <5>1. asked[c].kind = "listen" => outbox'[c] = <<Answer(asked[c])>>
            BY <3>2, <3>4, <3>5, Zenon
          <5>2. asked[c].kind = "listen" => outbox'[c] # <<>>
            BY <5>1, <3>6, Zenon
          <5>3. asked[c].kind = "listen" => unread'[c] = 1
            BY <2>1, <3>1 DEF Executed
          <5>4. QED
            BY <5>2, <5>3
        <4>3. asked[c].kind # "listen" => unread'[c] = 0
          BY <2>1, <3>1 DEF Executed
        <4>4. QED
          BY <4>1, <4>2, <4>3 DEF Settled
      <3>8. QED
        BY <3>2, <3>4, <3>5, <3>7
    <2>5. QED
      BY <2>1, <2>2, <2>3, <2>4 DEF Dialog
  <1>4. CASE Leave(c)
    <2>1. /\ handler[c] = "reading"
          /\ handler'[c] = "left"
          /\ inbox'[c] = <<>>
          /\ UNCHANGED <<outbox, link, unread>>
      BY <1>4 DEF Leave
    <2>2. client[c] = "waiting" /\ c \notin quitted /\ link[c] = "up" => Settled(c)'
      BY <2>1 DEF Dialog, OnItsWay, Executed, Settled, Blocked
    <2>3. QED
      BY <2>1, <2>2 DEF Dialog, Settled
  <1>5. CASE QueueBlocks(c)
    <2>1. /\ inbox[c] # <<>> /\ handler[c] = "reading"
          /\ handler'[c] = "stuck"
          /\ inbox'[c] = Tail(inbox[c])
          /\ UNCHANGED <<outbox, link, unread>>
      BY <1>5 DEF QueueBlocks
    <2>2. client[c] \notin {"off", "welcoming"}
      BY <2>1 DEF Dialog
    <2>3. client[c] = "ready" /\ c \notin quitted => link[c] # "up"
      BY <2>1 DEF Dialog, Settled
    <2>4. Tail(<<asked[c]>>) = <<>>
      OBVIOUS
    <2>5. client[c] = "waiting" /\ c \notin quitted /\ link[c] = "up" => Blocked(c)'
      BY <2>1, <2>4 DEF Dialog, OnItsWay, Executed, Settled, Blocked
    <2>6. client[c] = "leaving" /\ c \notin quitted /\ link[c] = "up" => inbox'[c] = <<>>
      BY <2>1, <2>4 DEF Dialog
    <2>7. c \notin quitted /\ link[c] = "cut" => unread'[c] <= 1 /\ inbox'[c] = <<>>
      BY <2>1 DEF Dialog
    <2>8. QED
      BY <2>1, <2>2, <2>3, <2>5, <2>6, <2>7 DEF Dialog
  <1>6. QED
    BY <1>1, <1>2, <1>3, <1>4, <1>5

\* The steps of a client, on its own connection.
LEMMA DialogOfClient ==
  ASSUME NEW c \in Conns, Dialog(c), ServerInv, NetworkTypeOK,
         \/ Connect(c)
         \/ \E kind \in Sends[c] : SendCommand(c, kind)
         \/ Disconnect(c)
         \/ Proceeds(c)
         \/ Dies(c)
  PROVE  Dialog(c)'
  <1> USE DEF NetworkTypeOK, ServerTypeOK, Step
  <1>1. CASE Connect(c)
    <2>1. /\ client[c] = "off"
          /\ client'[c] = "welcoming"
          /\ handler'[c] = "backlog"
          /\ link'[c] = "up"
          /\ UNCHANGED <<inbox, outbox, unread, quitted>>
      BY <1>1 DEF Connect
    <2>2. inbox[c] = <<>> /\ outbox[c] = <<>> /\ unread[c] = 0 /\ c \notin quitted
      BY <2>1 DEF Dialog
    <2>3. QED
      BY <2>1, <2>2 DEF Dialog
  <1>2. ASSUME NEW kind \in Kinds, NEW place \in {"waiting", "leaving"},
               client[c] = "ready", Write(c, kind, place)
        PROVE  /\ client'[c] = place
               /\ asked'[c].kind = kind
               /\ UNCHANGED <<handler, link, outbox, doing, unread>>
               /\ handler[c] \notin {"backlog", "pending", "accepted"}
               /\ c \notin quitted => outbox[c] = <<>>
               /\ c \notin quitted /\ link[c] = "up" => OnItsWay(c)'
               /\ link[c] = "cut" => inbox'[c] = inbox[c]
    <2>1. /\ client'[c] = place
          /\ asked'[c] = Command(asked[c].n + 1, kind)
          /\ UNCHANGED <<handler, link, outbox, doing, unread>>
          /\ link[c] = "up" => inbox'[c] = Append(inbox[c], asked'[c])
          /\ link[c] # "up" => inbox'[c] = inbox[c]
      BY <1>2 DEF Write
    <2>2. handler[c] \notin {"backlog", "pending", "accepted"}
      BY <1>2 DEF Dialog
    <2>3. c \notin quitted => outbox[c] = <<>>
      BY <1>2 DEF Dialog
    <2>4. c \notin quitted /\ link[c] = "up" => OnItsWay(c)'
      BY <1>2, <2>1, <2>3 DEF Dialog, OnItsWay, Settled
    <2>5. asked'[c].kind = kind
      BY <2>1 DEF Command
    <2>6. QED
      BY <2>1, <2>2, <2>3, <2>4, <2>5
  <1>3. ASSUME NEW kind \in Sends[c], SendCommand(c, kind) PROVE Dialog(c)'
    <2>1. client[c] = "ready" /\ Write(c, kind, "waiting") /\ kind \in Kinds
      BY <1>3, ClientAssumption DEF SendCommand
    <2>2. c \notin quitted' => c \notin quitted /\ kind # "quit"
      BY <1>3 DEF SendCommand
    <2>3. QED
      BY <1>2, <2>1, <2>2 DEF Dialog
  <1>4. CASE Disconnect(c)
    <2>1. client[c] = "ready" /\ Write(c, "quit", "leaving") /\ UNCHANGED quitted
      BY <1>4 DEF Disconnect
    <2>2. "quit" \in Kinds
      BY DEF Kinds
    <2>3. QED
      BY <1>2, <2>1, <2>2 DEF Dialog, OnItsWay
  <1>5. CASE ReadWelcome(c)
    <2>1. /\ client[c] = "welcoming"
          /\ client'[c] = "ready"
          /\ outbox[c] # <<>>
          /\ outbox'[c] = Tail(outbox[c])
          /\ unread' = IF Head(outbox[c]).message THEN [unread EXCEPT ![c] = @ - 1] ELSE unread
          /\ UNCHANGED <<handler, link, inbox, quitted>>
      BY <1>5 DEF ReadWelcome, Take
    <2>2. outbox[c] = <<Welcome>>
      BY <2>1 DEF Dialog
    <2>3. Tail(<<Welcome>>) = <<>> /\ ~Head(<<Welcome>>).message
      <3>1. Tail(<<Welcome>>) = <<>> /\ Head(<<Welcome>>) = Welcome
        OBVIOUS
      <3>2. ~Welcome.message
        BY DEF Welcome, Answer, NoCommand, Command
      <3>3. QED
        BY <3>1, <3>2
    <2>4. outbox'[c] = <<>> /\ unread' = unread
      BY <2>1, <2>2, <2>3
    <2>5. QED
      BY <2>1, <2>4 DEF Dialog, Settled
  <1>6. CASE ReadResponse(c)
    <2>1. /\ client[c] = "waiting"
          /\ client'[c] = "ready"
          /\ outbox[c] # <<>>
          /\ outbox'[c] = Tail(outbox[c])
          /\ unread'[c] = IF Head(outbox[c]).message THEN unread[c] - 1 ELSE unread[c]
          /\ UNCHANGED <<handler, link, inbox, quitted>>
      BY <1>6 DEF ReadResponse, Take
    <2>2. /\ Tail(<<Answer(asked[c])>>) = <<>>
          /\ Head(<<Answer(asked[c])>>).message <=> asked[c].kind = "listen"
      <3>1. Tail(<<Answer(asked[c])>>) = <<>> /\ Head(<<Answer(asked[c])>>) = Answer(asked[c])
        OBVIOUS
      <3>2. Answer(asked[c]).message <=> asked[c].kind = "listen"
        BY DEF Answer
      <3>3. QED
        BY <3>1, <3>2
    <2>3. c \notin quitted => outbox[c] = <<Answer(asked[c])>>
      BY <2>1 DEF Dialog
    <2>4. c \notin quitted => /\ outbox'[c] = <<>>
                            /\ unread'[c] = IF asked[c].kind = "listen" THEN unread[c] - 1
                                                                        ELSE unread[c]
      BY <2>1, <2>2, <2>3
    <2>5. c \notin quitted /\ link[c] = "up" => Settled(c)
      BY <2>1 DEF Dialog, OnItsWay, Executed, Blocked
    <2>6. c \notin quitted /\ link[c] = "up" => Settled(c)'
      BY <2>1, <2>4, <2>5 DEF Settled
    <2>7. c \notin quitted /\ link[c] = "cut" =>
            /\ unread'[c] <= 1
            /\ inbox'[c] # <<>> => Tail(inbox'[c]) = <<>> /\ unread'[c] <= 0
      <3>1. unread[c] \in Int
        OBVIOUS
      <3>2. QED
        BY <2>1, <2>4, <3>1 DEF Dialog
    <2>8. QED
      BY <2>1, <2>4, <2>6, <2>7 DEF Dialog
  <1>7. CASE ReadFails(c)
    <2>1. /\ client[c] = "waiting"
          /\ client'[c] = "ready"
          /\ link[c] = "cut"
          /\ outbox'[c] = <<>>
          /\ UNCHANGED <<handler, link, inbox, unread, quitted>>
      BY <1>7 DEF ReadFails
    <2>2. QED
      BY <2>1 DEF Dialog
  <1>8. CASE WelcomeFails(c) \/ Disconnected(c) \/ Dies(c)
    <2>1. client'[c] = "closed" /\ link'[c] = "cut" /\ UNCHANGED <<inbox, unread, quitted>>
      BY <1>8 DEF WelcomeFails, Disconnected, Dies, Hangup
    <2>2. QED
      BY <2>1, CutAnywhere DEF Dialog
  <1>9. QED
    BY <1>1, <1>3, <1>4, <1>5, <1>6, <1>7, <1>8 DEF Proceeds

\* What the steps at connection c leave alone of another connection.
LEMMA DialogElsewhere ==
  ASSUME NEW c \in Conns, NEW d \in Conns, d # c, NetworkTypeOK,
         \/ Handle(c) /\ UNCHANGED clientVars
         \/ Connect(c)
         \/ \E kind \in Sends[c] : SendCommand(c, kind)
         \/ Disconnect(c)
         \/ Proceeds(c)
         \/ Dies(c)
  PROVE  /\ client'[d] = client[d] /\ asked'[d] = asked[d]
         /\ inbox'[d] = inbox[d] /\ outbox'[d] = outbox[d] /\ doing'[d] = doing[d]
         /\ unread'[d] = unread[d]
         /\ d \in quitted' <=> d \in quitted
         /\ link'[d] = link[d] /\ handler'[d] = handler[d]
  <1> USE DEF NetworkTypeOK, ServerTypeOK
  <1>1. CASE Handle(c) /\ UNCHANGED clientVars
    BY <1>1 DEF Handle, clientVars, At, Register, RunCommand, QueueBlocks, Reply, Leave, Done, Put
  <1>2. CASE Connect(c)
    BY <1>2 DEF Connect, Step
  <1>3. CASE (\E kind \in Sends[c] : SendCommand(c, kind)) \/ Disconnect(c)
    BY <1>3 DEF SendCommand, Disconnect, Write, Step
  <1>4. CASE ReadWelcome(c) \/ ReadResponse(c) \/ ReadFails(c)
    BY <1>4 DEF ReadWelcome, ReadResponse, ReadFails, Take, Step
  <1>5. CASE WelcomeFails(c) \/ Disconnected(c) \/ Dies(c)
    BY <1>5 DEF WelcomeFails, Disconnected, Dies, Hangup, Step
  <1>6. QED
    BY <1>1, <1>2, <1>3, <1>4, <1>5 DEF Proceeds

LEMMA DialogStep ==
  ASSUME DialogInv, ServerInv, NetworkTypeOK, [NetworkNext]_networkVars
  PROVE  DialogInv'
  <1> SUFFICES ASSUME NEW d \in Conns PROVE Dialog(d)'
    BY DEF DialogInv
  <1>0. Dialog(d)
    BY DEF DialogInv
  <1>1. CASE \E c \in Conns : Handle(c) /\ UNCHANGED clientVars
    <2>1. PICK c \in Conns : Handle(c) /\ UNCHANGED clientVars
      BY <1>1
    <2>2. CASE d # c
      BY <1>0, <2>1, <2>2, DialogElsewhere, DialogKept
    <2>3. CASE d = c /\ Done(c)
      <3>1. /\ UNCHANGED <<client, asked, inbox, outbox, doing, unread, quitted>>
            /\ handler[c] = "left" /\ handler'[c] = "gone" /\ link'[c] = "cut"
        BY <2>1, <2>3 DEF Done, At, clientVars, NetworkTypeOK, ServerTypeOK
      <3>2. QED
        BY <1>0, <2>3, <3>1, DialogKept
    <2>4. CASE d = c /\ ~Done(c)
      BY <1>0, <2>1, <2>4, DialogOfHandler DEF Handle
    <2>5. QED
      BY <2>2, <2>3, <2>4
  <1>2. CASE ClientNext
    <2>1. PICK c \in Conns :
            \/ Connect(c)
            \/ \E kind \in Sends[c] : SendCommand(c, kind)
            \/ Disconnect(c)
            \/ Proceeds(c)
            \/ Dies(c)
      BY <1>2 DEF ClientNext
    <2>2. CASE d # c
      BY <1>0, <2>1, <2>2, DialogElsewhere, DialogKept
    <2>3. CASE d = c
      BY <1>0, <2>1, <2>3, DialogOfClient
    <2>4. QED
      BY <2>2, <2>3
  <1>3. CASE /\ \/ \E c \in Conns : Accept(c) \/ StartHandler(c)
                \/ AcceptorExits \/ StopListening \/ StopGoesOn
             /\ UNCHANGED clientVars
    <2>1. UNCHANGED <<client, asked, quitted, inbox, outbox, doing, unread>>
      BY <1>3 DEF clientVars, handlerVars, Accept, StartHandler, AcceptorExits, StopListening,
                  StopGoesOn, StopClosesClients, StopClosesQueue, CloseHangs, StopReturns
    <2>2. link'[d] \in {link[d], "cut"}
      BY <1>3 DEF handlerVars, Accept, StartHandler, AcceptorExits, StopListening,
                  StopGoesOn, StopClosesClients, StopClosesQueue, CloseHangs, StopReturns, NetworkTypeOK, ServerTypeOK
    <2>3. \/ handler'[d] = handler[d]
          \/ handler'[d] = "pending" /\ handler[d] = "backlog"
          \/ handler'[d] = "accepted" /\ handler[d] = "pending"
          \/ handler'[d] = "gone" /\ handler[d] \notin {"executing", "stuck"}
      BY <1>3 DEF handlerVars, At, Accept, StartHandler, AcceptorExits, StopListening,
                  StopGoesOn, StopClosesClients, StopClosesQueue, CloseHangs, StopReturns, NetworkTypeOK, ServerTypeOK
    <2>4. QED
      BY <1>0, <2>1, <2>2, <2>3, DialogKept
  <1>4. CASE UNCHANGED networkVars
    <2>1. UNCHANGED <<client, asked, quitted, inbox, outbox, doing, unread, link, handler>>
      BY <1>4 DEF networkVars, serverVars, clientVars
    <2>2. QED
      BY <1>0, <2>1, DialogKept
  <1>5. QED
    BY <1>1, <1>2, <1>3, <1>4 DEF NetworkNext, ServerNext

\* DialogInv holds in every reachable state.
THEOREM DialogInvariant == NetworkSpec => []DialogInv
  <1>1. NetworkInit => DialogInv
    BY DEF NetworkInit, ServerInit, DialogInv, Dialog
  <1>2. DialogInv /\ ServerInv /\ NetworkTypeOK /\ [NetworkNext]_networkVars => DialogInv'
    BY DialogStep
  <1>3. QED
    BY <1>1, <1>2, ServerInvariant, NetworkTypeCorrect, PTL DEF NetworkSpec

\* A client reads the answer to the command it sent last, as long as its user
\* has not sent QUIT (server.go:157-180, client.go:40-90).
THEOREM AnswersMatch == NetworkSpec => []OwnAnswer
  <1>1. DialogInv => OwnAnswer
    <2> SUFFICES ASSUME DialogInv, NEW c \in Conns, client[c] = "waiting", outbox[c] # <<>>,
                        c \notin quitted
                 PROVE  Head(outbox[c]).n = asked[c].n
      BY DEF OwnAnswer
    <2>1. outbox[c] = <<Answer(asked[c])>>
      BY DEF DialogInv, Dialog
    <2>2. QED
      BY <2>1 DEF Answer
  <1>2. QED
    BY <1>1, DialogInvariant, PTL

\* LISTEN loses at most one batch of a client, and none of one that neither
\* waits for it nor lost its connection (server.go:256-272).
THEOREM OneBatchLost == NetworkSpec => []OneBatchAtRisk
  <1>1. DialogInv /\ NetworkTypeOK => OneBatchAtRisk
    <2> SUFFICES ASSUME DialogInv, NetworkTypeOK, NEW c \in Conns, c \notin quitted
                 PROVE  unread[c] <= IF client[c] = "waiting" \/ link[c] = "cut" THEN 1 ELSE 0
      BY DEF OneBatchAtRisk
    <2>1. Dialog(c)
      BY DEF DialogInv
    <2>2. unread[c] <= 1
      BY <2>1, CutAnywhere
    <2>3. ASSUME client[c] # "waiting", link[c] = "up" PROVE unread[c] = 0
      BY <2>1, <2>3 DEF Dialog, Settled, NetworkTypeOK
    <2>4. QED
      BY <2>2, <2>3 DEF NetworkTypeOK, ServerTypeOK
  <1>2. QED
    BY <1>1, DialogInvariant, NetworkTypeCorrect, PTL
=============================================================================
